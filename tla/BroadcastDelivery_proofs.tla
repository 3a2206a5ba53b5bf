---------------------- MODULE BroadcastDelivery_proofs ----------------------
(***************************************************************************)
(* What a broadcast guarantees for every number of customers, of           *)
(* executions of its task and of callbacks, and what it guarantees up to   *)
(* the moment two of them overlap.                                         *)
(***************************************************************************)
EXTENDS BroadcastDelivery, FiniteSetTheorems, TLAPS

Reported == {"sent", "delivered", "read", "failed", "undelivered"}

\* What the proofs need of the status map: it maps to recipient statuses, never
\* to queued, and only delivered and read to themselves.
LEMMA MapFacts ==
    /\ DOMAIN TWILIO_STATUS_MAP = Reported
    /\ \A s \in Reported :
          /\ TWILIO_STATUS_MAP[s] \in RecipientStatus \ {"queued"}
          /\ \A t \in {"delivered", "read"} : TWILIO_STATUS_MAP[s] = t <=> s = t
  BY DEF TWILIO_STATUS_MAP, Reported, RecipientStatus

\* A step is one of these actions.
LEMMA StepCases ==
    ASSUME Next
    PROVE  \/ \E chosen \in SUBSET Customers : create_broadcast(chosen)
           \/ \E w \in Executions : load_recipients(w)
           \/ \E w \in Executions, c \in Customers : send_message(w, c)
           \/ \E w \in Executions : commit_recipient(w)
           \/ \E w \in Executions, p \in {"returned", "lost", "dead"} : Running(w) /\ End(w, p)
           \/ \E m \in Sids, s \in Reported : report(m, s)
           \/ \E m \in Sids, s \in Reported, k \in Callbacks : twilio_status_callback(k, m, s)
           \/ \E k \in Callbacks : flush_recipient(k)
           \/ \E k \in Callbacks : update_recipient_status(k)
           \/ \E k \in Callbacks : rollback(k)
  BY BrokerAssumption DEF Next, Worker, Webhook, finish, abort, crash, Reported

\* A callback in its session, taken apart.
LEMMA CallType ==
    ASSUME TypeOK, NEW k \in Callbacks, call[k] # None
    PROVE  /\ call[k] \in Call
           /\ call[k].sid \in Sids /\ call[k].says \in Reported
           /\ call[k].row \in Customers /\ call[k].loaded \in RecipientStatus
           /\ call[k].seen \in Nat
           /\ New(k) \in RecipientStatus \ {"queued"}
  BY MapFacts DEF TypeOK, Call, New

-----------------------------------------------------------------------------
(* Types *)

LEMMA InitTypes == Init => TypeOK
  BY BrokerAssumption DEF Init, TypeOK, RecipientStatus

LEMMA WorkerTypes ==
    ASSUME TypeOK, NEW w \in Executions,
           \/ load_recipients(w)
           \/ \E c \in Customers : send_message(w, c)
           \/ commit_recipient(w)
           \/ \E p \in {"returned", "lost", "dead"} : End(w, p)
    PROVE  TypeOK'
<1> USE DEF TypeOK, rows, task, twilio, http
<1>1. CASE load_recipients(w)
  BY <1>1 DEF load_recipients
<1>2. ASSUME NEW c \in Customers, send_message(w, c) PROVE TypeOK'
  <2> DEFINE r == [row |-> c, loaded |-> IF phase[w] = "loaded" THEN "queued" ELSE status[c]]
  <2>1. r \in Sending
    BY DEF RecipientStatus, Sending
  <2>2. <<w, c>> \in Sids
    BY DEF Sids
  <2>3. sending' = [sending EXCEPT ![w] = r]
    BY <1>2 DEF send_message
  <2> HIDE DEF r
  <2> QED BY <1>2, <2>1, <2>2, <2>3 DEF send_message
<1>3. CASE commit_recipient(w)
  <2> DEFINE c == sending[w].row
             assigned == IF result[w] = None THEN "failed" ELSE "sent"
  <2>1. c \in Customers /\ sending[w].loaded \in RecipientStatus
    BY <1>3 DEF commit_recipient, Sending
  <2>2. Written(status[c], sending[w].loaded, assigned) \in RecipientStatus
    BY <2>1 DEF Written, RecipientStatus
  <2>3. /\ status' = [status EXCEPT ![c] = Written(@, sending[w].loaded, assigned)]
        /\ sid' = [sid EXCEPT ![c] = IF result[w] = None THEN @ ELSE result[w]]
    BY <1>3 DEF commit_recipient
  <2> HIDE DEF c, assigned
  <2>4. /\ status' \in [Customers -> RecipientStatus]
        /\ sid' \in [Customers -> Sids \cup {None}]
    BY <2>1, <2>2, <2>3
  <2> QED BY <1>3, <2>4 DEF commit_recipient
<1>4. ASSUME NEW p \in {"returned", "lost", "dead"}, End(w, p) PROVE TypeOK'
  BY <1>4 DEF End
<1> QED BY <1>1, <1>2, <1>3, <1>4

LEMMA WebhookTypes ==
    ASSUME TypeOK, NEW k \in Callbacks,
           \/ \E m \in Sids, s \in Reported : twilio_status_callback(k, m, s)
           \/ flush_recipient(k)
           \/ update_recipient_status(k)
           \/ rollback(k)
    PROVE  TypeOK'
<1> USE DEF rows, task, twilio, http
<1>1. ASSUME NEW m \in Sids, NEW s \in Reported, twilio_status_callback(k, m, s)
      PROVE  TypeOK'
  <2>1. repeats' \in 0..MaxRepeats
    BY <1>1, BrokerAssumption DEF twilio_status_callback, Arrives, TypeOK
  <2>2. answered' \subseteq Sids \X DOMAIN TWILIO_STATUS_MAP
    BY <1>1, MapFacts DEF twilio_status_callback, TypeOK
  <2>3. call' \in [Callbacks -> Call \cup {None}]
    <3>1. ASSUME NEW c \in recipients
          PROVE  [at |-> "found", sid |-> m, says |-> s, row |-> c,
                  loaded |-> status[c], seen |-> 0] \in Call
      BY MapFacts DEF Call, TypeOK
    <3> QED BY <1>1, <3>1 DEF twilio_status_callback, TypeOK
  <2> QED BY <1>1, <2>1, <2>2, <2>3 DEF twilio_status_callback, TypeOK
<1>2. CASE flush_recipient(k)
  <2> DEFINE n == IF New(k) \in DOMAIN count THEN count[New(k)] ELSE 0
  <2>1. n \in Nat
    BY DEF TypeOK
  <2>2. call' = [call EXCEPT ![k].at = "locked", ![k].seen = n]
    BY <1>2 DEF flush_recipient
  <2> HIDE DEF n
  <2>3. call' = [call EXCEPT ![k] = [@ EXCEPT !.at = "locked", !.seen = n]]
    BY <2>2 DEF TypeOK
  <2>4. [call[k] EXCEPT !.at = "locked", !.seen = n] \in Call
    BY <1>2, <2>1, CallType DEF flush_recipient, Call
  <2>5. call' \in [Callbacks -> Call \cup {None}]
    BY <2>3, <2>4 DEF TypeOK
  <2> QED BY <1>2, <2>5 DEF flush_recipient, TypeOK
<1>3. CASE update_recipient_status(k)
  <2>1. /\ call[k].sid \in Sids /\ call[k].says \in Reported
        /\ call[k].row \in Customers /\ call[k].seen \in Nat
        /\ New(k) \in RecipientStatus
    BY <1>3, CallType DEF update_recipient_status
  <2>2. status' \in [Customers -> RecipientStatus]
    BY <1>3, <2>1 DEF update_recipient_status, TypeOK, Written
  <2>3. times' \in [Customers -> SUBSET {"delivered", "read"}]
    BY <1>3, <2>1 DEF update_recipient_status, TypeOK
  <2>4. count' \in [{"delivered", "read"} -> Nat]
    BY <1>3, <2>1 DEF update_recipient_status, TypeOK
  <2>5. answered' \subseteq Sids \X DOMAIN TWILIO_STATUS_MAP
    BY <1>3, <2>1, MapFacts DEF update_recipient_status, TypeOK
  <2>6. call' \in [Callbacks -> Call \cup {None}]
    BY <1>3 DEF update_recipient_status, TypeOK
  <2> QED BY <1>3, <2>2, <2>3, <2>4, <2>5, <2>6 DEF update_recipient_status, TypeOK
<1>4. CASE rollback(k)
  BY <1>4 DEF rollback, TypeOK
<1> QED BY <1>1, <1>2, <1>3, <1>4

LEMMA TypesKept == TypeOK /\ [Next]_vars => TypeOK'
<1> SUFFICES ASSUME TypeOK, [Next]_vars PROVE TypeOK'
  OBVIOUS
<1>1. ASSUME NEW chosen \in SUBSET Customers, create_broadcast(chosen) PROVE TypeOK'
  BY <1>1 DEF create_broadcast, TypeOK, task, twilio, http
<1>2. ASSUME NEW m \in Sids, NEW s \in Reported, report(m, s) PROVE TypeOK'
  BY <1>2, MapFacts DEF report, TypeOK, rows, task, http
<1>3. CASE UNCHANGED vars
  BY <1>3 DEF TypeOK, vars, rows, task, twilio, http
<1> QED BY <1>1, <1>2, <1>3, StepCases, WorkerTypes, WebhookTypes

\* Every variable keeps its type: the counters are naturals, a callback's session
\* holds a recipient and the status it found there, and Twilio repeats a
\* callback at most MaxRepeats times.
THEOREM TypeCorrect == Spec => []TypeOK
  BY InitTypes, TypesKept, PTL DEF Spec

-----------------------------------------------------------------------------
(* The SID of a recipient *)

\* A SID on a row is the SID of an accepted message to that recipient.
SidsAccepted ==
    \A c \in Customers : sid[c] # None => sid[c] \in messages /\ sid[c][2] = c

\* What Twilio answered an execution is the SID of the message it is sending.
AnswersAccepted ==
    \A w \in Executions : result[w] # None =>
        /\ result[w] = <<w, sending[w].row>>
        /\ result[w] \in messages

\* A callback has found its recipient by the SID.
CallsKnown == \A k \in Callbacks : call[k] # None => sid[call[k].row] # None

RowsKnown ==
    \A c \in Customers :
        status[c] \in {"sent", "delivered", "read"} \/ times[c] # {} => sid[c] # None

AcceptedInv == SidsAccepted /\ AnswersAccepted /\ CallsKnown /\ RowsKnown

LEMMA InitAccepted == Init => AcceptedInv
  BY DEF Init, AcceptedInv, SidsAccepted, AnswersAccepted, CallsKnown, RowsKnown

LEMMA WorkerAccepted ==
    ASSUME TypeOK, AcceptedInv, NEW w \in Executions,
           \/ load_recipients(w)
           \/ \E c \in Customers : send_message(w, c)
           \/ commit_recipient(w)
           \/ \E p \in {"returned", "lost", "dead"} : End(w, p)
    PROVE  AcceptedInv'
<1> USE DEF AcceptedInv, rows, task, twilio, http
<1>1. CASE load_recipients(w)
  BY <1>1
  DEF load_recipients, SidsAccepted, AnswersAccepted, CallsKnown, RowsKnown
<1>2. ASSUME NEW c \in Customers, send_message(w, c) PROVE AcceptedInv'
  <2>1. /\ messages \subseteq messages'
        /\ sending'[w].row = c
        /\ UNCHANGED <<rows, http>>
    BY <1>2 DEF send_message, TypeOK
  <2>2. /\ \A v \in Executions \ {w} : result'[v] = result[v] /\ sending'[v] = sending[v]
        /\ result'[w] # None => result'[w] = <<w, c>> /\ <<w, c>> \in messages'
    BY <1>2 DEF send_message, TypeOK
  <2>3. AnswersAccepted'
    BY <2>1, <2>2 DEF AnswersAccepted
  <2> QED BY <2>1, <2>3 DEF SidsAccepted, CallsKnown, RowsKnown
<1>3. CASE commit_recipient(w)
  <2> DEFINE c == sending[w].row
             assigned == IF result[w] = None THEN "failed" ELSE "sent"
  <2>1. c \in Customers /\ sending[w] # None
    BY <1>3 DEF commit_recipient, TypeOK, Sending
  <2>2. /\ status' = [status EXCEPT ![c] = Written(@, sending[w].loaded, assigned)]
        /\ sid' = [sid EXCEPT ![c] = IF result[w] = None THEN @ ELSE result[w]]
        /\ sending' = [sending EXCEPT ![w] = None]
        /\ result' = [result EXCEPT ![w] = None]
        /\ UNCHANGED <<times, messages, call>>
    BY <1>3 DEF commit_recipient
  <2>3. result[w] # None => result[w] = <<w, c>> /\ result[w] \in messages
    BY DEF AnswersAccepted
  <2>4. status'[c] = status[c] \/ status'[c] = assigned
    BY <2>1, <2>2 DEF Written, TypeOK
  <2>5. /\ \A d \in Customers \ {c} : sid'[d] = sid[d] /\ status'[d] = status[d]
        /\ result[w] = None => sid'[c] = sid[c]
        /\ result[w] # None => sid'[c] = result[w]
    BY <2>1, <2>2 DEF TypeOK
  <2>6. assigned \in {"sent", "delivered", "read"} => result[w] # None
    OBVIOUS
  <2> HIDE DEF c, assigned
  <2>7. SidsAccepted'
    BY <2>1, <2>2, <2>3, <2>5 DEF SidsAccepted
  <2>8. AnswersAccepted'
    BY <2>2 DEF AnswersAccepted, TypeOK
  <2>9. \A d \in Customers : sid[d] # None => sid'[d] # None
    BY <2>1, <2>5
  <2>10. CallsKnown'
    BY <2>2, <2>9, CallType DEF CallsKnown
  <2>11. RowsKnown'
    BY <2>1, <2>2, <2>4, <2>5, <2>6, <2>9 DEF RowsKnown
  <2> QED BY <2>7, <2>8, <2>10, <2>11
<1>4. ASSUME NEW p \in {"returned", "lost", "dead"}, End(w, p) PROVE AcceptedInv'
  BY <1>4 DEF End, SidsAccepted, AnswersAccepted, CallsKnown, RowsKnown, TypeOK
<1> QED BY <1>1, <1>2, <1>3, <1>4

LEMMA WebhookAccepted ==
    ASSUME TypeOK, AcceptedInv, NEW k \in Callbacks,
           \/ \E m \in Sids, s \in Reported : twilio_status_callback(k, m, s)
           \/ flush_recipient(k)
           \/ update_recipient_status(k)
           \/ rollback(k)
    PROVE  AcceptedInv'
<1> USE DEF AcceptedInv, rows, task, twilio
<1>1. UNCHANGED <<sid, messages, sending, result>>
  BY DEF twilio_status_callback, flush_recipient, update_recipient_status, rollback
<1>2. SidsAccepted' /\ AnswersAccepted'
  BY <1>1 DEF SidsAccepted, AnswersAccepted
<1>3. \A j \in Callbacks \ {k} : call'[j] = call[j]
  BY DEF twilio_status_callback, flush_recipient, update_recipient_status, rollback, TypeOK
<1>4. call'[k] # None => sid[call'[k].row] # None
  <2>1. ASSUME NEW m \in Sids, NEW s \in Reported, twilio_status_callback(k, m, s),
               call'[k] # None
        PROVE  sid[call'[k].row] # None
    <3>1. m # None
      BY NoneAssumption
    <3> QED BY <2>1, <3>1 DEF twilio_status_callback, TypeOK
  <2>2. CASE flush_recipient(k)
    <3>1. call[k] # None /\ call'[k].row = call[k].row
      BY <2>2, CallType DEF flush_recipient, TypeOK, Call
    <3> QED BY <3>1 DEF CallsKnown
  <2>3. CASE update_recipient_status(k) \/ rollback(k)
    BY <2>3 DEF update_recipient_status, rollback, TypeOK
  <2> QED BY <2>1, <2>2, <2>3
<1>5. CallsKnown'
  BY <1>1, <1>3, <1>4 DEF CallsKnown
<1>6. RowsKnown'
  <2>1. CASE update_recipient_status(k)
    <3> DEFINE c == call[k].row
    <3>1. sid[c] # None /\ c \in Customers
      BY <2>1, CallType DEF CallsKnown, update_recipient_status
    <3>2. \A d \in Customers \ {c} : status'[d] = status[d] /\ times'[d] = times[d]
      BY <2>1 DEF update_recipient_status, TypeOK
    <3> QED BY <1>1, <3>1, <3>2 DEF RowsKnown
  <2>2. CASE ~update_recipient_status(k)
    BY <1>1, <2>2 DEF RowsKnown, twilio_status_callback, flush_recipient, rollback
  <2> QED BY <2>1, <2>2
<1> QED BY <1>2, <1>5, <1>6

LEMMA AcceptedKept == TypeOK /\ AcceptedInv /\ [Next]_vars => AcceptedInv'
<1> SUFFICES ASSUME TypeOK, AcceptedInv, [Next]_vars PROVE AcceptedInv'
  OBVIOUS
<1> USE DEF AcceptedInv, SidsAccepted, AnswersAccepted, CallsKnown, RowsKnown
<1>1. ASSUME NEW chosen \in SUBSET Customers, create_broadcast(chosen) PROVE AcceptedInv'
  BY <1>1 DEF create_broadcast, task, twilio, http
<1>2. ASSUME NEW m \in Sids, NEW s \in Reported, report(m, s) PROVE AcceptedInv'
  BY <1>2 DEF report, rows, task, http
<1>3. CASE UNCHANGED vars
  BY <1>3 DEF vars, rows, task, twilio, http
<1> QED BY <1>1, <1>2, <1>3, StepCases, WorkerAccepted, WebhookAccepted

LEMMA AcceptedAlways == Spec => []AcceptedInv
  BY InitAccepted, AcceptedKept, TypeCorrect, PTL DEF Spec

\* However the executions of the task and the callbacks interleave, and whether
\* or not the broker redelivers a running task, a recipient shown as sent,
\* delivered or read carries the SID of a message to it that Twilio accepted.
THEOREM AcceptedWhenSent == Spec => []SentMeansAccepted
<1>1. AcceptedInv => SentMeansAccepted
  BY DEF AcceptedInv, SidsAccepted, RowsKnown, SentMeansAccepted
<1> QED BY <1>1, AcceptedAlways, PTL

-----------------------------------------------------------------------------
(* The counters *)

\* The callbacks in their sessions that report s, and the messages of which s
\* has been reported by a callback, answered or in its session.
InFlight(s) == {k \in Callbacks : call[k] # None /\ call[k].says = s}
Answered(s) == {a \in answered : a[2] = s}
Pairs(s) == {<<call[k].sid, s>> : k \in InFlight(s)}
Heard(s) == Answered(s) \cup Pairs(s)

\* Each commit of a callback that reports s makes it one larger, and no step
\* makes it smaller.
Budget(s) == Cardinality(Heard(s)) + repeats - Cardinality(InFlight(s))

Counters == {"delivered", "read"}

HeardFinite ==
    \A s \in Counters : IsFiniteSet(InFlight(s)) /\ IsFiniteSet(Answered(s))

\* A counter, and what a session has read of it, stay within the budget.
CountInv ==
    \A s \in Counters :
        /\ count[s] <= Budget(s)
        /\ \A k \in InFlight(s) : call[k].at = "locked" => call[k].seen <= Budget(s)

LEMMA PairsFinite ==
    ASSUME NEW s, IsFiniteSet(InFlight(s))
    PROVE  IsFiniteSet(Pairs(s)) /\ Cardinality(Pairs(s)) <= Cardinality(InFlight(s))
<1> DEFINE f == [k \in InFlight(s) |-> <<call[k].sid, s>>]
<1>1. f \in Surjection(InFlight(s), Pairs(s))
  BY DEF Surjection, Pairs
<1> HIDE DEF f
<1> QED BY <1>1, FS_Surjection

BudgetTyped ==
    \A s \in Counters :
        /\ IsFiniteSet(Heard(s)) /\ Cardinality(Heard(s)) \in Nat
        /\ Cardinality(InFlight(s)) \in Nat /\ repeats \in Nat
        /\ Budget(s) \in Int
        /\ Budget(s) <= Cardinality(Answered(s)) + repeats

LEMMA BudgetType == TypeOK /\ HeardFinite => BudgetTyped
<1> SUFFICES ASSUME TypeOK, HeardFinite, NEW s \in Counters
             PROVE  /\ IsFiniteSet(Heard(s)) /\ Cardinality(Heard(s)) \in Nat
                    /\ Cardinality(InFlight(s)) \in Nat /\ repeats \in Nat
                    /\ Budget(s) \in Int
                    /\ Budget(s) <= Cardinality(Answered(s)) + repeats
  BY DEF BudgetTyped
<1>1. IsFiniteSet(Pairs(s)) /\ Cardinality(Pairs(s)) <= Cardinality(InFlight(s))
  BY PairsFinite DEF HeardFinite
<1>2. /\ IsFiniteSet(Heard(s))
      /\ Cardinality(Heard(s)) = Cardinality(Answered(s)) + Cardinality(Pairs(s))
                                   - Cardinality(Answered(s) \cap Pairs(s))
      /\ IsFiniteSet(Answered(s) \cap Pairs(s))
  BY <1>1, FS_Union, FS_Intersection DEF HeardFinite, Heard
<1>3. /\ Cardinality(Heard(s)) \in Nat /\ Cardinality(InFlight(s)) \in Nat
      /\ Cardinality(Pairs(s)) \in Nat /\ Cardinality(Answered(s)) \in Nat
      /\ Cardinality(Answered(s) \cap Pairs(s)) \in Nat
  BY <1>1, <1>2, FS_CardinalityType DEF HeardFinite
<1>4. repeats \in Nat
  BY BrokerAssumption DEF TypeOK
<1> QED BY <1>1, <1>2, <1>3, <1>4 DEF Budget

\* Losing at most one element costs at most one.
LEMMA LoseOne ==
    ASSUME NEW A, IsFiniteSet(A), NEW B, IsFiniteSet(B), NEW x, A \ {x} \subseteq B
    PROVE  Cardinality(A) - 1 <= Cardinality(B)
<1>1. /\ IsFiniteSet(A \ {x})
      /\ Cardinality(A \ {x}) = IF x \in A THEN Cardinality(A) - 1 ELSE Cardinality(A)
  BY FS_RemoveElement
<1>2. Cardinality(A \ {x}) <= Cardinality(B)
  BY <1>1, FS_Subset
<1>3. /\ Cardinality(A) \in Nat /\ Cardinality(B) \in Nat /\ Cardinality(A \ {x}) \in Nat
  BY <1>1, FS_CardinalityType
<1> QED BY <1>1, <1>2, <1>3

\* What a step does to the callbacks that report s leaves the counter within
\* the budget if it does not shrink the budget, and raises the counter by one
\* only if it raises the budget by one.
LEMMA BudgetSuffices ==
    ASSUME TypeOK, TypeOK', HeardFinite, HeardFinite', CountInv, NEW s \in Counters,
           Budget(s) <= Budget(s)',
           \/ count'[s] = count[s]
           \/ \E j \in InFlight(s) : /\ call[j].at = "locked"
                                     /\ count'[s] = call[j].seen + 1
                                     /\ Budget(s) + 1 <= Budget(s)',
           \A k \in InFlight(s)' :
              \/ call'[k].at # "locked"
              \/ call'[k].seen <= count[s]
              \/ k \in InFlight(s) /\ call[k].at = "locked" /\ call'[k].seen = call[k].seen
    PROVE  /\ count'[s] <= Budget(s)'
           /\ \A k \in InFlight(s)' : call'[k].at = "locked" => call'[k].seen <= Budget(s)'
<1>1. BudgetTyped /\ BudgetTyped'
  BY BudgetType, PTL
<1>2. Budget(s) \in Int /\ Budget(s)' \in Int
  BY <1>1 DEF BudgetTyped
<1>3. /\ count[s] \in Nat
      /\ \A k \in InFlight(s) : call[k].seen \in Nat
      /\ \A k \in InFlight(s)' : call'[k].seen \in Nat
  <2>1. \A k \in InFlight(s) : call[k] \in Call
    BY DEF InFlight, TypeOK
  <2>2. \A k \in InFlight(s)' : call'[k] \in Call
    BY DEF InFlight, TypeOK
  <2> QED BY <2>1, <2>2 DEF Call, TypeOK, Counters
<1>4. /\ count[s] <= Budget(s)
      /\ \A k \in InFlight(s) : call[k].at = "locked" => call[k].seen <= Budget(s)
  BY DEF CountInv
<1> QED BY <1>2, <1>3, <1>4

LEMMA InitCounts == Init => HeardFinite /\ CountInv
<1> SUFFICES ASSUME Init, NEW s \in Counters
             PROVE  /\ IsFiniteSet(InFlight(s)) /\ IsFiniteSet(Answered(s))
                    /\ count[s] <= Budget(s)
                    /\ \A k \in InFlight(s) : call[k].at = "locked" => call[k].seen <= Budget(s)
  BY DEF HeardFinite, CountInv
<1>1. InFlight(s) = {} /\ Answered(s) = {} /\ Heard(s) = {}
  BY DEF Init, InFlight, Answered, Pairs, Heard
<1>2. Budget(s) = 0 /\ count[s] = 0
  BY <1>1, FS_EmptySet DEF Init, Budget, Counters
<1> QED BY <1>1, <1>2, FS_EmptySet

LEMMA QuietCounts ==
    ASSUME HeardFinite, CountInv, UNCHANGED <<count, http>>
    PROVE  HeardFinite' /\ CountInv'
  BY DEF HeardFinite, CountInv, InFlight, Answered, Pairs, Heard, Budget, http

\* A request that arrives: a new report of this message is one more heard, and a
\* repetition is counted in repeats.
LEMMA ArriveCounts ==
    ASSUME TypeOK, TypeOK', HeardFinite, CountInv,
           NEW m \in Sids, NEW s \in Reported, NEW k \in Callbacks,
           twilio_status_callback(k, m, s)
    PROVE  HeardFinite' /\ CountInv'
<1> DEFINE found == call'[k] # None
           pair == <<m, s>>
<1>1. /\ call[k] = None /\ UNCHANGED count
      /\ \A j \in Callbacks \ {k} : call'[j] = call[j]
      /\ found => /\ call'[k].at = "found" /\ call'[k].sid = m /\ call'[k].says = s
                  /\ answered' = answered
      /\ ~found => answered' = answered \cup {pair} /\ call'[k] = call[k]
  <2>1. ASSUME NEW c \in recipients
        PROVE  [at |-> "found", sid |-> m, says |-> s, row |-> c,
                loaded |-> status[c], seen |-> 0] # None
    <3>1. [at |-> "found", sid |-> m, says |-> s, row |-> c,
           loaded |-> status[c], seen |-> 0] \in Call
      BY MapFacts DEF Call, TypeOK
    <3> QED BY <3>1, NoneAssumption
  <2> QED BY <2>1 DEF twilio_status_callback, rows, TypeOK
<1> HIDE DEF found
<1>2. \A t \in Counters :
         /\ InFlight(t)' = IF found /\ t = s THEN InFlight(t) \cup {k} ELSE InFlight(t)
         /\ Answered(t)' = IF ~found /\ t = s THEN Answered(t) \cup {pair} ELSE Answered(t)
         /\ k \notin InFlight(t)
  BY <1>1 DEF InFlight, Answered, found
<1>3. HeardFinite'
  <2> SUFFICES ASSUME NEW t \in Counters
               PROVE  IsFiniteSet(InFlight(t)') /\ IsFiniteSet(Answered(t)')
    BY DEF HeardFinite
  <2>1. IsFiniteSet(InFlight(t)) /\ IsFiniteSet(Answered(t))
    BY DEF HeardFinite
  <2>2. IsFiniteSet(InFlight(t) \cup {k}) /\ IsFiniteSet(Answered(t) \cup {pair})
    BY <2>1, FS_AddElement
  <2> QED BY <1>2, <2>1, <2>2
<1>4. \A t \in Counters : Heard(t)' = IF t = s THEN Heard(t) \cup {pair} ELSE Heard(t)
  <2> SUFFICES ASSUME NEW t \in Counters
               PROVE  Heard(t)' = IF t = s THEN Heard(t) \cup {pair} ELSE Heard(t)
    OBVIOUS
  <2>1. \A j \in InFlight(t) : call'[j] = call[j]
    BY <1>1, <1>2 DEF InFlight
  <2>2. Pairs(t)' = IF found /\ t = s THEN Pairs(t) \cup {pair} ELSE Pairs(t)
    BY <1>1, <1>2, <2>1 DEF Pairs
  <2> QED BY <1>2, <2>2 DEF Heard
<1>5. \A t \in Counters : Budget(t) <= Budget(t)'
  <2> SUFFICES ASSUME NEW t \in Counters PROVE Budget(t) <= Budget(t)'
    OBVIOUS
  <2>1. BudgetTyped /\ BudgetTyped'
    BY <1>3, BudgetType, PTL
  <2>2. /\ repeats <= repeats'
        /\ t = s /\ pair \in Heard(t) => repeats' = repeats + 1
        /\ repeats \in Nat /\ repeats' \in Nat
    <3>1. t = s /\ pair \in Heard(t) =>
             \/ <<m, s>> \in answered
             \/ \E j \in Callbacks : call[j] # None /\ call[j].sid = m /\ call[j].says = s
      BY DEF Heard, Pairs, Answered, InFlight
    <3>2. repeats \in Nat
      BY BrokerAssumption DEF TypeOK
    <3> QED BY <3>1, <3>2 DEF twilio_status_callback, Arrives
  <2>3. /\ Cardinality(Heard(t)') =
             IF t = s /\ pair \notin Heard(t) THEN Cardinality(Heard(t)) + 1
                                              ELSE Cardinality(Heard(t))
    BY <1>4, <2>1, FS_AddElement DEF BudgetTyped
  <2>4. Cardinality(InFlight(t)') <=
             IF t = s THEN Cardinality(InFlight(t)) + 1 ELSE Cardinality(InFlight(t))
    BY <1>2, <2>1, FS_AddElement DEF HeardFinite, BudgetTyped
  <2> HIDE DEF pair
  <2>5. /\ Cardinality(Heard(t)) \in Nat /\ Cardinality(Heard(t)') \in Nat
        /\ Cardinality(InFlight(t)) \in Nat /\ Cardinality(InFlight(t)') \in Nat
    BY <2>1 DEF BudgetTyped
  <2>6. CASE t = s /\ pair \in Heard(t)
    BY <2>2, <2>3, <2>4, <2>5, <2>6 DEF Budget
  <2>7. CASE ~(t = s /\ pair \in Heard(t))
    BY <2>2, <2>3, <2>4, <2>5, <2>7 DEF Budget
  <2> QED BY <2>6, <2>7
<1>6. CountInv'
  <2> SUFFICES ASSUME NEW t \in Counters
               PROVE  /\ count'[t] <= Budget(t)'
                      /\ \A j \in InFlight(t)' :
                            call'[j].at = "locked" => call'[j].seen <= Budget(t)'
    BY DEF CountInv
  <2>1. \A j \in InFlight(t)' :
           call'[j].at # "locked" \/ (j \in InFlight(t) /\ call'[j] = call[j])
    BY <1>1, <1>2 DEF InFlight
  <2> QED BY <1>1, <1>3, <1>5, <2>1, BudgetSuffices
<1> QED BY <1>3, <1>6

LEMMA FlushCounts ==
    ASSUME TypeOK, TypeOK', HeardFinite, CountInv, NEW k \in Callbacks, flush_recipient(k)
    PROVE  HeardFinite' /\ CountInv'
<1>1. /\ call[k] # None /\ UNCHANGED <<count, answered, repeats>>
      /\ \A j \in Callbacks \ {k} : call'[j] = call[j]
      /\ call'[k].sid = call[k].sid /\ call'[k].says = call[k].says
      /\ call'[k].seen = IF New(k) \in DOMAIN count THEN count[New(k)] ELSE 0
      /\ call'[k] # None
  <2> DEFINE n == IF New(k) \in DOMAIN count THEN count[New(k)] ELSE 0
  <2>1. /\ call[k] \in Call
        /\ call' = [call EXCEPT ![k] = [@ EXCEPT !.at = "locked", !.seen = n]]
    BY CallType DEF flush_recipient, TypeOK
  <2> HIDE DEF n
  <2>2. n \in Nat /\ [call[k] EXCEPT !.at = "locked", !.seen = n] \in Call
    BY <2>1 DEF n, TypeOK, Call
  <2>3. call'[k] = [call[k] EXCEPT !.at = "locked", !.seen = n] /\ call'[k].seen = n
    BY <2>1 DEF TypeOK, Call
  <2>4. call'[k] # None
    BY <2>2, <2>3, NoneAssumption
  <2> QED BY <2>1, <2>3, <2>4 DEF flush_recipient, rows, Call, TypeOK, n
<1>2. \A t \in Counters : /\ InFlight(t)' = InFlight(t) /\ Answered(t)' = Answered(t)
                          /\ Pairs(t)' = Pairs(t)
  <2>1. \A t \in Counters : InFlight(t)' = InFlight(t) /\ Answered(t)' = Answered(t)
    BY <1>1 DEF InFlight, Answered
  <2>2. \A j \in Callbacks : call'[j].sid = call[j].sid
    BY <1>1
  <2>3. \A t \in Counters : InFlight(t) \subseteq Callbacks
    BY DEF InFlight
  <2> QED BY <2>1, <2>2, <2>3 DEF Pairs
<1>3. HeardFinite'
  BY <1>2 DEF HeardFinite
<1>4. \A t \in Counters : Budget(t)' = Budget(t)
  BY <1>1, <1>2 DEF Budget, Heard
<1>5. CountInv'
  <2> SUFFICES ASSUME NEW t \in Counters
               PROVE  /\ count'[t] <= Budget(t)'
                      /\ \A j \in InFlight(t)' :
                            call'[j].at = "locked" => call'[j].seen <= Budget(t)'
    BY DEF CountInv
  <2>1. Budget(t) \in Int /\ count[t] \in Nat
    BY BudgetType DEF BudgetTyped, TypeOK, Counters
  <2>2. k \in InFlight(t) => New(k) = t
    BY MapFacts DEF InFlight, New, Counters, Reported
  <2>3. \A j \in InFlight(t)' : \/ call'[j].seen <= count[t]
                                \/ j \in InFlight(t) /\ call'[j] = call[j]
    BY <1>1, <1>2, <2>1, <2>2 DEF InFlight, TypeOK, Counters
  <2> QED BY <1>1, <1>3, <1>4, <2>1, <2>3, BudgetSuffices
<1> QED BY <1>3, <1>5

\* A callback that leaves its session: what it reported was answered when it
\* committed, and may be heard no more when it was rolled back.
LEMMA LeaveCounts ==
    ASSUME TypeOK, TypeOK', HeardFinite, CountInv, NEW k \in Callbacks,
           update_recipient_status(k) \/ rollback(k)
    PROVE  HeardFinite' /\ CountInv'
<1> DEFINE commits == update_recipient_status(k)
           pair == <<call[k].sid, call[k].says>>
<1>1. /\ call[k] # None /\ UNCHANGED repeats
      /\ call' = [call EXCEPT ![k] = None]
      /\ answered' = IF commits THEN answered \cup {pair} ELSE answered
      /\ count' = IF commits
                  THEN [s \in DOMAIN count |-> IF s = New(k) THEN call[k].seen + 1 ELSE count[s]]
                  ELSE count
      /\ commits => call[k].at = "locked"
  BY DEF update_recipient_status, rollback, rows
<1> HIDE DEF commits
<1>2. \A t \in Counters : k \in InFlight(t) <=> call[k].says = t
  BY <1>1 DEF InFlight
<1>3. \A t \in Counters : InFlight(t)' = InFlight(t) \ {k}
  BY <1>1 DEF InFlight, TypeOK
<1>4. \A t \in Counters :
         Answered(t)' = IF commits /\ call[k].says = t THEN Answered(t) \cup {pair}
                                                        ELSE Answered(t)
  BY <1>1 DEF Answered
<1>5. HeardFinite'
  <2> SUFFICES ASSUME NEW t \in Counters
               PROVE  IsFiniteSet(InFlight(t)') /\ IsFiniteSet(Answered(t)')
    BY DEF HeardFinite
  <2>1. IsFiniteSet(InFlight(t)) /\ IsFiniteSet(Answered(t))
    BY DEF HeardFinite
  <2>2. IsFiniteSet(InFlight(t) \ {k}) /\ IsFiniteSet(Answered(t) \cup {pair})
    BY <2>1, FS_AddElement, FS_RemoveElement
  <2> QED BY <1>3, <1>4, <2>1, <2>2
<1>6. \A t \in Counters : Pairs(t) \ {pair} \subseteq Pairs(t)' /\ Pairs(t)' \subseteq Pairs(t)
  <2> SUFFICES ASSUME NEW t \in Counters
               PROVE  Pairs(t) \ {pair} \subseteq Pairs(t)' /\ Pairs(t)' \subseteq Pairs(t)
    OBVIOUS
  <2>1. \A j \in InFlight(t) \ {k} : call'[j] = call[j]
    BY <1>1 DEF InFlight, TypeOK
  <2>2. k \in InFlight(t) => call[k].says = t
    BY <1>2
  <2> QED BY <1>3, <2>1, <2>2 DEF Pairs
<1>7. \A t \in Counters : call[k].says = t => pair \in Pairs(t)
  BY <1>2 DEF Pairs
<1>8. \A t \in Counters : /\ Heard(t) \ {pair} \subseteq Heard(t)'
                          /\ commits \/ call[k].says # t => Heard(t)' = Heard(t)
  <2> SUFFICES ASSUME NEW t \in Counters
               PROVE  /\ Heard(t) \ {pair} \subseteq Heard(t)'
                      /\ commits \/ call[k].says # t => Heard(t)' = Heard(t)
    OBVIOUS
  <2>1. CASE call[k].says = t
    BY <1>4, <1>6, <1>7, <2>1 DEF Heard
  <2>2. CASE call[k].says # t
    <3>1. pair \notin Pairs(t)
      BY <2>2 DEF Pairs
    <3>2. Pairs(t)' = Pairs(t)
      BY <1>6, <3>1
    <3> QED BY <1>4, <2>2, <3>2 DEF Heard
  <2> QED BY <2>1, <2>2
<1>9. \A t \in Counters : /\ Budget(t) <= Budget(t)'
                          /\ commits /\ call[k].says = t => Budget(t) + 1 <= Budget(t)'
  <2> SUFFICES ASSUME NEW t \in Counters
               PROVE  /\ Budget(t) <= Budget(t)'
                      /\ commits /\ call[k].says = t => Budget(t) + 1 <= Budget(t)'
    OBVIOUS
  <2>1. BudgetTyped /\ BudgetTyped'
    BY <1>5, BudgetType, PTL
  <2>2. Cardinality(InFlight(t)') =
           IF call[k].says = t THEN Cardinality(InFlight(t)) - 1 ELSE Cardinality(InFlight(t))
    BY <1>2, <1>3, FS_RemoveElement DEF HeardFinite
  <2>3. /\ Cardinality(Heard(t)) - 1 <= Cardinality(Heard(t)')
        /\ commits \/ call[k].says # t => Cardinality(Heard(t)') = Cardinality(Heard(t))
    BY <1>8, <2>1, LoseOne DEF BudgetTyped
  <2> HIDE DEF pair
  <2>4. /\ Cardinality(Heard(t)) \in Nat /\ Cardinality(Heard(t)') \in Nat
        /\ Cardinality(InFlight(t)) \in Nat /\ Cardinality(InFlight(t)') \in Nat
        /\ repeats \in Nat
    BY <2>1 DEF BudgetTyped
  <2> QED BY <1>1, <2>2, <2>3, <2>4 DEF Budget
<1>10. CountInv'
  <2> SUFFICES ASSUME NEW t \in Counters
               PROVE  /\ count'[t] <= Budget(t)'
                      /\ \A j \in InFlight(t)' :
                            call'[j].at = "locked" => call'[j].seen <= Budget(t)'
    BY DEF CountInv
  <2>1. \A j \in InFlight(t)' : j \in InFlight(t) /\ call'[j] = call[j]
    BY <1>1, <1>3 DEF InFlight, TypeOK
  <2>2. commits => (New(k) = t <=> call[k].says = t)
    BY <1>1, CallType, MapFacts DEF New, Counters
  <2>3. \/ count'[t] = count[t]
        \/ /\ k \in InFlight(t) /\ call[k].at = "locked"
           /\ count'[t] = call[k].seen + 1 /\ commits /\ call[k].says = t
    BY <1>1, <1>2, <2>2 DEF TypeOK, Counters
  <2> QED BY <1>5, <1>9, <2>1, <2>3, BudgetSuffices
<1> QED BY <1>5, <1>10

LEMMA CountsKept ==
    TypeOK /\ TypeOK' /\ HeardFinite /\ CountInv /\ [Next]_vars => HeardFinite' /\ CountInv'
<1> SUFFICES ASSUME TypeOK, TypeOK', HeardFinite, CountInv, [Next]_vars
             PROVE  HeardFinite' /\ CountInv'
  OBVIOUS
<1>1. ASSUME NEW chosen \in SUBSET Customers, create_broadcast(chosen)
      PROVE  UNCHANGED <<count, http>>
  BY <1>1 DEF create_broadcast
<1>2. ASSUME NEW w \in Executions,
             \/ load_recipients(w)
             \/ \E c \in Customers : send_message(w, c)
             \/ commit_recipient(w)
             \/ \E p \in {"returned", "lost", "dead"} : End(w, p)
      PROVE  UNCHANGED <<count, http>>
  BY <1>2 DEF load_recipients, send_message, commit_recipient, End, rows
<1>3. ASSUME NEW m \in Sids, NEW s \in Reported, report(m, s)
      PROVE  UNCHANGED <<count, http>>
  BY <1>3 DEF report, rows
<1>4. CASE UNCHANGED vars
  BY <1>4, QuietCounts DEF vars, rows
<1> QED BY <1>1, <1>2, <1>3, <1>4, StepCases, QuietCounts, ArriveCounts, FlushCounts,
           LeaveCounts

\* Callbacks lose each other's increments, but whatever their interleaving, their
\* rollbacks and their repetitions, delivered_count and read_count never exceed
\* the callbacks that reported the status.
THEOREM NeverOvercounted == Spec => []NoOvercount
<1>1. Spec => [](HeardFinite /\ CountInv)
  BY InitCounts, CountsKept, TypeCorrect, PTL DEF Spec
<1>2. TypeOK /\ HeardFinite /\ CountInv => NoOvercount
  <2> SUFFICES ASSUME TypeOK, HeardFinite, CountInv, NEW s \in Counters
               PROVE  count[s] <= Cardinality({a \in answered : a[2] = s}) + repeats
    <3>1. TypeOK => DOMAIN count = Counters
      BY DEF TypeOK, Counters
    <3> QED BY <3>1 DEF NoOvercount
  <2>1. /\ count[s] <= Budget(s) /\ Budget(s) <= Cardinality(Answered(s)) + repeats
        /\ Budget(s) \in Int /\ count[s] \in Nat /\ repeats \in Nat
    BY BudgetType DEF CountInv, BudgetTyped, TypeOK, Counters
  <2>2. Cardinality(Answered(s)) \in Nat
    BY FS_CardinalityType DEF HeardFinite
  <2> QED BY <2>1, <2>2 DEF Answered
<1> QED BY <1>1, <1>2, TypeCorrect, PTL

-----------------------------------------------------------------------------
(* The task, until two of its executions overlap *)

\* One execution runs at a time, none after one has been acknowledged, and one
\* that does not run sends nothing.
OneAtATime ==
    /\ \A v, w \in Executions : Running(v) /\ Running(w) => v = w
    /\ \A v, w \in Executions : phase[v] \in {"returned", "lost"} => ~Running(w)
    /\ \A w \in Executions : sending[w] # None => Running(w)

\* The recipients the running execution has yet to send to are still QUEUED as
\* they were when it loaded them, and so is the one it is sending to.
StillQueued ==
    \A w \in Executions : Running(w) =>
        /\ \A c \in batch[w] : status[c] = "queued"
        /\ sending[w] # None =>
              /\ sending[w].loaded = "queued"
              /\ status[sending[w].row] = "queued"
              /\ sending[w].row \notin batch[w]

\* A recipient with a SID has left QUEUED.
SidNotQueued == \A c \in Customers : sid[c] # None => status[c] # "queued"

SerialInv == OneAtATime /\ StillQueued /\ SidNotQueued

LEMMA InitSerial == Init => SerialInv
  BY DEF Init, SerialInv, OneAtATime, StillQueued, SidNotQueued, Running

LEMMA LoadSerial ==
    ASSUME TypeOK, SerialInv, NEW w \in Executions, load_recipients(w), ~TasksOverlap'
    PROVE  SerialInv'
<1>1. /\ phase' = [phase EXCEPT ![w] = "loaded"]
      /\ batch' = [batch EXCEPT ![w] = {c \in recipients : status[c] = "queued"}]
      /\ UNCHANGED <<status, sid, sending>>
      /\ phase[w] = "waiting"
      /\ \A v \in Executions : phase[v] \notin {"returned", "lost"}
  BY DEF load_recipients, Delivered, rows
<1>2. \A v \in Executions : ~Running(v)
  <2> SUFFICES ASSUME NEW v \in Executions, Running(v) PROVE FALSE
    OBVIOUS
  <2>1. v # w /\ Running(v)' /\ Running(w)'
    BY <1>1 DEF Running, TypeOK
  <2> QED BY <2>1 DEF TasksOverlap
<1>3. /\ \A v \in Executions \ {w} : ~Running(v)' /\ phase'[v] \notin {"returned", "lost"}
      /\ phase'[w] = "loaded"
      /\ \A v \in Executions : sending'[v] = None
  BY <1>1, <1>2 DEF Running, TypeOK, SerialInv, OneAtATime
<1>4. OneAtATime'
  BY <1>3 DEF OneAtATime
<1>5. StillQueued'
  BY <1>1, <1>3 DEF StillQueued, TypeOK
<1> QED BY <1>1, <1>4, <1>5 DEF SerialInv, SidNotQueued

LEMMA SendSerial ==
    ASSUME TypeOK, SerialInv, NEW w \in Executions, NEW c \in Customers, send_message(w, c)
    PROVE  /\ SerialInv'
           /\ sending'[w] # None /\ sending'[w].row = c
           /\ status[c] = "queued"
<1> DEFINE r == [row |-> c, loaded |-> IF phase[w] = "loaded" THEN "queued" ELSE status[c]]
<1>1. /\ Running(w) /\ c \in batch[w] /\ sending[w] = None
      /\ batch' = [batch EXCEPT ![w] = @ \ {c}]
      /\ sending' = [sending EXCEPT ![w] = r]
      /\ UNCHANGED <<status, sid, phase>>
  BY DEF send_message, rows
<1>2. status[c] = "queued"
  BY <1>1 DEF SerialInv, StillQueued
<1>3. r.row = c /\ r.loaded = "queued" /\ r \in Sending
  BY <1>2 DEF Sending, RecipientStatus
<1> HIDE DEF r
<1>4. /\ sending'[w] = r /\ r # None
      /\ \A v \in Executions \ {w} : sending'[v] = sending[v] /\ batch'[v] = batch[v]
      /\ batch'[w] = batch[w] \ {c}
      /\ \A v \in Executions : Running(v)' <=> Running(v)
  BY <1>1, <1>3, NoneAssumption DEF TypeOK, Running
<1>5. OneAtATime'
  BY <1>1, <1>4 DEF SerialInv, OneAtATime
<1>6. StillQueued'
  BY <1>1, <1>2, <1>3, <1>4 DEF SerialInv, StillQueued
<1> QED BY <1>1, <1>2, <1>3, <1>4, <1>5, <1>6 DEF SerialInv, SidNotQueued

\* The commit takes its recipient out of QUEUED; it had no SID before.
LEMMA CommitSerial ==
    ASSUME TypeOK, SerialInv, NEW w \in Executions, commit_recipient(w)
    PROVE  /\ SerialInv'
           /\ sending[w] # None /\ sending[w].row \in Customers
           /\ sid[sending[w].row] = None
           /\ status'[sending[w].row] # "queued"
           /\ \A d \in Customers \ {sending[w].row} : status'[d] = status[d] /\ sid'[d] = sid[d]
<1> DEFINE c == sending[w].row
           assigned == IF result[w] = None THEN "failed" ELSE "sent"
<1>1. /\ Running(w) /\ sending[w] # None
      /\ status' = [status EXCEPT ![c] = Written(@, sending[w].loaded, assigned)]
      /\ sid' = [sid EXCEPT ![c] = IF result[w] = None THEN @ ELSE result[w]]
      /\ sending' = [sending EXCEPT ![w] = None]
      /\ phase' = [phase EXCEPT ![w] = "looping"]
      /\ UNCHANGED batch
  BY DEF commit_recipient
<1>2. c \in Customers
  BY <1>1 DEF TypeOK, Sending
<1>3. sending[w].loaded = "queued" /\ status[c] = "queued" /\ c \notin batch[w]
  BY <1>1 DEF SerialInv, StillQueued
<1>4. status'[c] = assigned /\ assigned # "queued"
  BY <1>1, <1>2, <1>3 DEF TypeOK, Written
<1> HIDE DEF c, assigned
<1>5. /\ \A d \in Customers \ {c} : status'[d] = status[d] /\ sid'[d] = sid[d]
      /\ \A v \in Executions : Running(v)' <=> Running(v)
      /\ \A v \in Executions : phase'[v] \in {"returned", "lost"} => phase'[v] = phase[v]
      /\ \A v \in Executions \ {w} : sending'[v] = sending[v] /\ ~Running(v)
      /\ sending'[w] = None
  BY <1>1, <1>2 DEF TypeOK, Running, SerialInv, OneAtATime
<1>6. OneAtATime'
  BY <1>5 DEF SerialInv, OneAtATime
<1>7. batch[w] \subseteq Customers
  BY DEF TypeOK
<1>8. StillQueued'
  BY <1>1, <1>3, <1>5, <1>7 DEF SerialInv, StillQueued
<1>9. SidNotQueued'
  BY <1>4, <1>5 DEF SerialInv, SidNotQueued
<1>10. sid[c] = None
  BY <1>2, <1>3 DEF SerialInv, SidNotQueued
<1> QED BY <1>1, <1>2, <1>4, <1>5, <1>6, <1>8, <1>9, <1>10 DEF SerialInv, c

LEMMA EndSerial ==
    ASSUME TypeOK, SerialInv, NEW w \in Executions, NEW p \in {"returned", "lost", "dead"},
           Running(w), End(w, p)
    PROVE  SerialInv'
<1>1. /\ phase' = [phase EXCEPT ![w] = p]
      /\ sending' = [sending EXCEPT ![w] = None]
      /\ UNCHANGED <<status, sid>>
  BY DEF End, rows
<1>2. /\ \A v \in Executions : ~Running(v)'
      /\ \A v \in Executions : sending'[v] = None
  BY <1>1 DEF TypeOK, Running, SerialInv, OneAtATime
<1> QED BY <1>1, <1>2 DEF SerialInv, OneAtATime, StillQueued, SidNotQueued

\* A callback writes a row that has a SID, and never QUEUED.
LEMMA UpdateSerial ==
    ASSUME TypeOK, AcceptedInv, SerialInv, NEW k \in Callbacks, update_recipient_status(k)
    PROVE  /\ SerialInv'
           /\ \A c \in Customers : status'[c] = "queued" <=> status[c] = "queued"
<1> DEFINE c == call[k].row
<1>1. /\ call[k] # None
      /\ status' = [status EXCEPT ![c] = Written(@, call[k].loaded, New(k))]
      /\ UNCHANGED <<sid, phase, batch, sending>>
  BY DEF update_recipient_status, task
<1>2. c \in Customers /\ New(k) # "queued" /\ sid[c] # None
  BY <1>1, CallType DEF AcceptedInv, CallsKnown
<1> HIDE DEF c
<1>3. status[c] # "queued"
  BY <1>2 DEF SerialInv, SidNotQueued
<1>4. status'[c] # "queued" /\ \A d \in Customers \ {c} : status'[d] = status[d]
  BY <1>1, <1>2, <1>3 DEF TypeOK, Written
<1>5. \A d \in Customers : status'[d] = "queued" <=> status[d] = "queued"
  BY <1>3, <1>4
<1>6. /\ \A w \in Executions : batch[w] \subseteq Customers
      /\ \A w \in Executions : sending[w] # None => sending[w].row \in Customers
  BY DEF TypeOK, Sending
<1> QED BY <1>1, <1>5, <1>6 DEF SerialInv, OneAtATime, StillQueued, SidNotQueued, Running

LEMMA SerialKept ==
    TypeOK /\ AcceptedInv /\ SerialInv /\ [Next]_vars /\ ~TasksOverlap' => SerialInv'
<1> SUFFICES ASSUME TypeOK, AcceptedInv, SerialInv, [Next]_vars, ~TasksOverlap'
             PROVE  SerialInv'
  OBVIOUS
<1> USE DEF SerialInv, OneAtATime, StillQueued, SidNotQueued, Running, rows, task
<1>1. ASSUME NEW chosen \in SUBSET Customers, create_broadcast(chosen) PROVE SerialInv'
  BY <1>1 DEF create_broadcast
<1>2. ASSUME NEW m \in Sids, NEW s \in Reported, report(m, s) PROVE SerialInv'
  BY <1>2 DEF report
<1>3. ASSUME NEW k \in Callbacks,
             \/ \E m \in Sids, s \in Reported : twilio_status_callback(k, m, s)
             \/ flush_recipient(k)
             \/ rollback(k)
      PROVE  SerialInv'
  BY <1>3 DEF twilio_status_callback, flush_recipient, rollback
<1>4. CASE UNCHANGED vars
  BY <1>4 DEF vars
<1> HIDE DEF SerialInv, Running
<1> QED BY <1>1, <1>2, <1>3, <1>4, StepCases, LoadSerial, SendSerial, CommitSerial,
           EndSerial, UpdateSerial

LEMMA SerialAlways ==
    Spec => [](TypeOK /\ AcceptedInv /\ SerialInv) \/ <>TasksOverlap
  BY InitSerial, SerialKept, TypeCorrect, AcceptedAlways, PTL DEF Spec

-----------------------------------------------------------------------------
(* Nobody is left out *)

\* A session that found a recipient served already writes a row that is not
\* QUEUED any more; a running execution has every QUEUED recipient before it.
ServeInv ==
    /\ \A w \in Executions :
          /\ phase[w] # "waiting" => recipients # {}
          /\ sending[w] # None /\ sending[w].loaded # "queued"
                => status[sending[w].row] # "queued"
          /\ Running(w) => \A c \in recipients : status[c] = "queued"
                => c \in batch[w] \/ (sending[w] # None /\ sending[w].row = c)
    /\ ReturnedMeansServed

\* Nothing is put back to QUEUED.
LEMMA NothingRequeued ==
    ASSUME TypeOK, ServeInv, [Next]_vars
    PROVE  \A c \in Customers : status'[c] = "queued" => status[c] = "queued"
<1> USE DEF rows, task, twilio, http
<1>1. ASSUME NEW w \in Executions, commit_recipient(w),
             NEW c \in Customers, status'[c] = "queued"
      PROVE  status[c] = "queued"
  BY <1>1 DEF commit_recipient, Written, ServeInv, TypeOK
<1>2. ASSUME NEW k \in Callbacks, update_recipient_status(k),
             NEW c \in Customers, status'[c] = "queued"
      PROVE  status[c] = "queued"
  <2>1. New(k) # "queued"
    BY <1>2, CallType DEF update_recipient_status
  <2> QED BY <1>2, <2>1 DEF update_recipient_status, Written, TypeOK
<1>3. CASE UNCHANGED vars
  BY <1>3 DEF vars
<1> QED BY <1>1, <1>2, <1>3, StepCases
        DEF create_broadcast, load_recipients, send_message, End, report,
            twilio_status_callback, flush_recipient, rollback

\* The commit takes its recipient out of QUEUED, whatever other executions did.
LEMMA CommitServes ==
    ASSUME TypeOK, ServeInv, NEW w \in Executions, commit_recipient(w)
    PROVE  status'[sending[w].row] # "queued"
<1>1. sending[w] # None /\ sending[w].row \in Customers
  BY DEF commit_recipient, TypeOK, Sending
<1> QED BY <1>1 DEF commit_recipient, Written, ServeInv, TypeOK

LEMMA ServeKept == TypeOK /\ ServeInv /\ [Next]_vars => ServeInv'
<1> SUFFICES ASSUME TypeOK, ServeInv, [Next]_vars PROVE ServeInv'
  OBVIOUS
<1> USE DEF rows, task, twilio, http
<1>1. \A c \in Customers : status'[c] = "queued" => status[c] = "queued"
  BY NothingRequeued
<1>2. /\ recipients \subseteq Customers
      /\ \A w \in Executions : sending[w] # None => sending[w].row \in Customers
  BY DEF TypeOK, Sending
<1>3. ASSUME NEW chosen \in SUBSET Customers, create_broadcast(chosen) PROVE ServeInv'
  <2>1. \A w \in Executions : phase[w] = "waiting"
    BY <1>3 DEF create_broadcast, ServeInv
  <2> QED BY <1>3, <2>1 DEF create_broadcast, ServeInv, Running, ReturnedMeansServed
<1>4. ASSUME NEW w \in Executions, load_recipients(w) PROVE ServeInv'
  BY <1>4 DEF load_recipients, Delivered, ServeInv, ReturnedMeansServed, Running, TypeOK
<1>5. ASSUME NEW w \in Executions, NEW c \in Customers, send_message(w, c) PROVE ServeInv'
  <2>1. /\ c \in batch[w] /\ sending[w] = None
        /\ batch' = [batch EXCEPT ![w] = @ \ {c}]
        /\ UNCHANGED <<recipients, status, phase>>
        /\ \A v \in Executions \ {w} : sending'[v] = sending[v] /\ batch'[v] = batch[v]
    BY <1>5 DEF send_message, TypeOK
  <2>2. /\ sending'[w].row = c
        /\ sending'[w].loaded # "queued" => status[c] # "queued"
    BY <1>5 DEF send_message, TypeOK
  <2>3. sending'[w] # None
    <3>1. sending'[w] = [row |-> c,
                         loaded |-> IF phase[w] = "loaded" THEN "queued" ELSE status[c]]
      BY <1>5 DEF send_message, TypeOK
    <3> QED BY <3>1, NoneAssumption DEF Sending, TypeOK, RecipientStatus
  <2>4. batch'[w] = batch[w] \ {c}
    BY <2>1 DEF TypeOK
  <2> QED BY <2>1, <2>2, <2>3, <2>4 DEF ServeInv, ReturnedMeansServed, Running
<1>6. ASSUME NEW w \in Executions, commit_recipient(w) PROVE ServeInv'
  <2>1. /\ Running(w) /\ sending[w] # None
        /\ phase' = [phase EXCEPT ![w] = "looping"]
        /\ sending' = [sending EXCEPT ![w] = None]
        /\ UNCHANGED <<recipients, batch>>
    BY <1>6 DEF commit_recipient
  <2>2. status'[sending[w].row] # "queued"
    BY <1>6, CommitServes
  <2> QED BY <1>1, <1>2, <2>1, <2>2 DEF ServeInv, ReturnedMeansServed, Running, TypeOK
<1>7. ASSUME NEW w \in Executions, finish(w) PROVE ServeInv'
  <2>1. \A c \in recipients : status[c] # "queued"
    BY <1>7 DEF finish, ServeInv
  <2> QED BY <1>7, <2>1 DEF finish, End, ServeInv, ReturnedMeansServed, Running, TypeOK
<1>8. ASSUME NEW w \in Executions, abort(w) \/ crash(w) PROVE ServeInv'
  <2>1. PICK p \in {"lost", "dead"} : Running(w) /\ End(w, p)
    BY <1>8 DEF abort, crash
  <2> QED BY <2>1 DEF End, ServeInv, ReturnedMeansServed, Running, TypeOK
<1>9. ASSUME UNCHANGED <<recipients, task>> PROVE ServeInv'
  BY <1>1, <1>2, <1>9 DEF ServeInv, ReturnedMeansServed, Running
<1>10. CASE UNCHANGED vars
  BY <1>9, <1>10 DEF vars
<1> QED BY <1>3, <1>4, <1>5, <1>6, <1>7, <1>8, <1>9, <1>10
        DEF Next, Worker, Webhook, report, twilio_status_callback, flush_recipient,
            update_recipient_status, rollback

\* Whatever the executions of the task do to each other, and however many of them
\* broke off before it, one that returns leaves no recipient QUEUED.
THEOREM ReturnServesAll == Spec => []ReturnedMeansServed
<1>1. Init => ServeInv
  BY DEF Init, ServeInv, ReturnedMeansServed, Running
<1>2. ServeInv => ReturnedMeansServed
  BY DEF ServeInv
<1> QED BY <1>1, <1>2, ServeKept, TypeCorrect, PTL DEF Spec

-----------------------------------------------------------------------------
(* The messages a death costs *)

\* The customers a message was accepted for, those of them that would be sent
\* another one, and the executions that died.
Addressed == {m[2] : m \in messages}
Orphans ==
    {c \in Addressed : /\ status[c] = "queued"
                       /\ \A w \in Executions : sending[w] # None => sending[w].row # c}
Dead == {w \in Executions : phase[w] = "dead"}

Working == \A w \in Executions : phase[w] \notin {"returned", "lost"}

\* A death pays for each message too many, and, as long as the task may be
\* delivered again, for each customer who would get one too many.
ResendFinite == IsFiniteSet(messages) /\ IsFiniteSet(Addressed) /\ IsFiniteSet(Dead)

ResendInv ==
    /\ Cardinality(messages) <= Cardinality(Addressed) + Cardinality(Dead)
    /\ Working => Cardinality(messages) + Cardinality(Orphans)
                      <= Cardinality(Addressed) + Cardinality(Dead)

ResendTyped ==
    /\ IsFiniteSet(Orphans) /\ Cardinality(Orphans) \in Nat
    /\ Cardinality(messages) \in Nat /\ Cardinality(Addressed) \in Nat
    /\ Cardinality(Dead) \in Nat

LEMMA ResendTypes == ResendFinite => ResendTyped
<1> SUFFICES ASSUME ResendFinite PROVE ResendTyped
  OBVIOUS
<1>1. Orphans \subseteq Addressed
  BY DEF Orphans
<1>2. IsFiniteSet(Orphans)
  BY <1>1, FS_Subset DEF ResendFinite
<1> QED BY <1>2, FS_CardinalityType DEF ResendFinite, ResendTyped

LEMMA InitResend == Init => ResendFinite /\ ResendInv
<1> SUFFICES ASSUME Init PROVE ResendFinite /\ ResendInv
  OBVIOUS
<1>1. messages = {} /\ Addressed = {} /\ Orphans = {} /\ Dead = {}
  BY DEF Init, Addressed, Orphans, Dead
<1> QED BY <1>1, FS_EmptySet DEF ResendFinite, ResendInv

\* Steps that accept no message, end no execution and return no recipient to
\* those who would be sent another message.
LEMMA QuietResend ==
    ASSUME ResendFinite, ResendInv, UNCHANGED messages,
           Orphans' \subseteq Orphans, Dead' = Dead, Working' => Working
    PROVE  ResendFinite' /\ ResendInv'
<1>1. Addressed' = Addressed
  BY DEF Addressed
<1>2. ResendFinite'
  BY <1>1 DEF ResendFinite
<1>3. ResendTyped /\ ResendTyped'
  BY <1>2, ResendTypes, PTL
<1>4. Cardinality(Orphans') <= Cardinality(Orphans)
  BY <1>3, FS_Subset DEF ResendTyped
<1> QED BY <1>1, <1>2, <1>3, <1>4 DEF ResendTyped, ResendInv

\* Sending to a customer who was sent a message already takes the customer out
\* of those who would be sent another one.
LEMMA SendResend ==
    ASSUME TypeOK, SerialInv, ResendFinite, ResendInv,
           NEW w \in Executions, NEW c \in Customers, send_message(w, c)
    PROVE  ResendFinite' /\ ResendInv'
<1>1. /\ sending'[w] # None /\ sending'[w].row = c
      /\ status[c] = "queued"
      /\ Running(w) /\ sending[w] = None
      /\ UNCHANGED <<status, phase>>
      /\ \A v \in Executions \ {w} : sending'[v] = sending[v]
      /\ messages' \in {messages, messages \cup {<<w, c>>}}
  <2>1. /\ sending'[w] # None /\ sending'[w].row = c
        /\ status[c] = "queued"
    BY SendSerial
  <2>2. messages' \in {messages, messages \cup {<<w, c>>}}
    BY DEF send_message
  <2>3. /\ Running(w) /\ sending[w] = None
        /\ UNCHANGED <<status, phase>>
        /\ \A v \in Executions \ {w} : sending'[v] = sending[v]
    BY DEF send_message, rows, TypeOK
  <2> QED BY <2>1, <2>2, <2>3
<1>2. /\ \A v \in Executions : sending[v] = None
      /\ Working
      /\ Dead' = Dead
  <2>1. \A v \in Executions : sending[v] # None => Running(v) /\ v = w
    BY <1>1 DEF SerialInv, OneAtATime
  <2> QED BY <1>1, <2>1 DEF SerialInv, OneAtATime, Working, Dead
<1>3. CASE messages' = messages
  <2>1. Orphans' \subseteq Orphans
    BY <1>1, <1>2, <1>3 DEF Orphans, Addressed
  <2> QED BY <1>2, <1>3, <2>1, QuietResend DEF Working
<1>4. CASE messages' = messages \cup {<<w, c>>}
  <2>1. Addressed' = Addressed \cup {c}
    <3>1. <<w, c>>[2] = c
      OBVIOUS
    <3>2. \A d : d \in Addressed' <=> d \in Addressed \/ d = c
      BY <1>4, <3>1 DEF Addressed
    <3> QED BY <3>2
  <2>2. Orphans' = Orphans \ {c}
    BY <1>1, <1>2, <2>1 DEF Orphans
  <2>3. c \in Orphans <=> c \in Addressed
    BY <1>1, <1>2 DEF Orphans
  <2>4. ResendTyped
    BY ResendTypes
  <2>5. /\ IsFiniteSet(messages')
        /\ Cardinality(messages') <= Cardinality(messages) + 1
    <3> DEFINE m == <<w, c>>
    <3> HIDE DEF m
    <3>1. /\ IsFiniteSet(messages \cup {m})
          /\ Cardinality(messages \cup {m}) =
               IF m \in messages THEN Cardinality(messages) ELSE Cardinality(messages) + 1
      BY FS_AddElement DEF ResendFinite
    <3> QED BY <1>4, <2>4, <3>1 DEF ResendTyped, m
  <2>6. /\ IsFiniteSet(Addressed')
        /\ Cardinality(Addressed') =
              IF c \in Addressed THEN Cardinality(Addressed) ELSE Cardinality(Addressed) + 1
    BY <2>1, FS_AddElement DEF ResendFinite
  <2>7. Cardinality(Orphans') =
              IF c \in Orphans THEN Cardinality(Orphans) - 1 ELSE Cardinality(Orphans)
    BY <2>2, <2>4, FS_RemoveElement DEF ResendTyped
  <2>8. ResendFinite'
    BY <1>2, <2>5, <2>6 DEF ResendFinite
  <2>9. ResendTyped'
    BY <2>8, ResendTypes, PTL
  <2>10. Cardinality(messages') + Cardinality(Orphans')
            <= Cardinality(Addressed') + Cardinality(Dead')
    BY <1>2, <2>3, <2>4, <2>5, <2>6, <2>7, <2>9 DEF ResendInv, ResendTyped
  <2> QED BY <2>8, <2>9, <2>10 DEF ResendInv, ResendTyped
<1> QED BY <1>1, <1>3, <1>4

\* An execution that dies may leave one customer who was sent a message and is
\* still QUEUED; one that is acknowledged leaves nobody to send again.
LEMMA EndResend ==
    ASSUME TypeOK, SerialInv, ResendFinite, ResendInv,
           NEW w \in Executions, NEW p \in {"returned", "lost", "dead"}, Running(w), End(w, p)
    PROVE  ResendFinite' /\ ResendInv'
<1>1. /\ phase' = [phase EXCEPT ![w] = p]
      /\ sending' = [sending EXCEPT ![w] = None]
      /\ UNCHANGED <<status, messages>>
  BY DEF End, rows, twilio
<1>2. Addressed' = Addressed
  BY <1>1 DEF Addressed
<1>3. Dead' = IF p = "dead" THEN Dead \cup {w} ELSE Dead
  BY <1>1 DEF Dead, TypeOK, Running
<1>4. w \notin Dead /\ Working
  BY DEF Dead, Working, Running, SerialInv, OneAtATime
<1>5. Orphans' \subseteq Orphans \cup {sending[w].row}
  BY <1>1, <1>2 DEF Orphans, TypeOK
<1>6. Working' => p = "dead"
  BY <1>1 DEF Working, TypeOK
<1>7. /\ ResendTyped
      /\ IsFiniteSet(Dead')
      /\ Cardinality(Dead') = IF p = "dead" THEN Cardinality(Dead) + 1 ELSE Cardinality(Dead)
  BY <1>3, <1>4, ResendTypes, FS_AddElement DEF ResendFinite
<1>8. ResendFinite'
  BY <1>1, <1>2, <1>7 DEF ResendFinite
<1>9. ResendTyped'
  BY <1>8, ResendTypes, PTL
<1>10. Cardinality(Orphans') <= Cardinality(Orphans) + 1
  <2> DEFINE R == Orphans \cup {sending[w].row}
  <2>1. /\ IsFiniteSet(R)
        /\ Cardinality(R) = IF sending[w].row \in Orphans THEN Cardinality(Orphans)
                                                          ELSE Cardinality(Orphans) + 1
    BY <1>7, FS_AddElement DEF ResendTyped
  <2>2. Cardinality(Orphans') <= Cardinality(R)
    <3> HIDE DEF R
    <3>1. Orphans' \subseteq R
      BY <1>5 DEF R
    <3> QED BY <2>1, <3>1, FS_Subset
  <2> HIDE DEF R
  <2> QED BY <1>7, <1>9, <2>1, <2>2 DEF ResendTyped
<1> QED BY <1>1, <1>2, <1>4, <1>6, <1>7, <1>8, <1>9, <1>10 DEF ResendInv, ResendTyped

LEMMA ResendKept ==
    TypeOK /\ AcceptedInv /\ SerialInv /\ ResendFinite /\ ResendInv /\ [Next]_vars
        => ResendFinite' /\ ResendInv'
<1> SUFFICES ASSUME TypeOK, AcceptedInv, SerialInv, ResendFinite, ResendInv, [Next]_vars
             PROVE  ResendFinite' /\ ResendInv'
  OBVIOUS
<1> DEFINE Quiet == /\ UNCHANGED messages /\ Orphans' \subseteq Orphans
                    /\ Dead' = Dead /\ (Working' => Working)
<1> USE DEF rows, task, twilio
<1>1. ASSUME UNCHANGED <<status, phase, sending, messages>>
      PROVE  Quiet
  BY <1>1 DEF Orphans, Addressed, Dead, Working
<1>2. ASSUME NEW chosen \in SUBSET Customers, create_broadcast(chosen) PROVE Quiet
  BY <1>1, <1>2 DEF create_broadcast
<1>3. ASSUME NEW w \in Executions, load_recipients(w) PROVE Quiet
  <2>1. Dead' = Dead /\ (Working' => Working)
    BY <1>3 DEF load_recipients, Delivered, Dead, Working, TypeOK
  <2>2. UNCHANGED <<status, sending, messages>>
    BY <1>3 DEF load_recipients
  <2> QED BY <2>1, <2>2 DEF Orphans, Addressed
<1>4. ASSUME NEW w \in Executions, commit_recipient(w) PROVE Quiet
  <2> DEFINE c == sending[w].row
  <2>1. /\ Running(w) /\ phase' = [phase EXCEPT ![w] = "looping"]
        /\ sending' = [sending EXCEPT ![w] = None]
        /\ UNCHANGED messages
    BY <1>4 DEF commit_recipient
  <2>2. /\ status'[c] # "queued"
        /\ \A d \in Customers \ {c} : status'[d] = status[d]
    BY <1>4, CommitSerial
  <2> HIDE DEF c
  <2>3. Dead' = Dead /\ (Working' => Working)
    BY <2>1 DEF Dead, Working, TypeOK, Running
  <2>4. Addressed' = Addressed /\ Addressed \subseteq Customers
    BY <2>1 DEF Addressed, TypeOK, Sids
  <2>5. Orphans' \subseteq Orphans
    <3> SUFFICES ASSUME NEW d \in Orphans' PROVE d \in Orphans
      OBVIOUS
    <3>1. d # c /\ d \in Addressed /\ d \in Customers /\ status'[d] = "queued"
      BY <2>2, <2>4 DEF Orphans
    <3>2. \A v \in Executions : sending[v] # None => sending[v].row # d
      BY <2>1, <3>1 DEF Orphans, TypeOK, c
    <3> QED BY <2>2, <3>1, <3>2 DEF Orphans
  <2> QED BY <2>1, <2>3, <2>5
<1>5. ASSUME NEW m \in Sids, NEW s \in Reported, report(m, s) PROVE Quiet
  BY <1>1, <1>5 DEF report
<1>6. ASSUME NEW k \in Callbacks,
             \/ \E m \in Sids, s \in Reported : twilio_status_callback(k, m, s)
             \/ flush_recipient(k)
             \/ rollback(k)
      PROVE  Quiet
  BY <1>1, <1>6 DEF twilio_status_callback, flush_recipient, rollback
<1>7. ASSUME NEW k \in Callbacks, update_recipient_status(k) PROVE Quiet
  <2>1. \A c \in Customers : status'[c] = "queued" <=> status[c] = "queued"
    BY <1>7, UpdateSerial
  <2>2. UNCHANGED <<phase, sending, messages>>
    BY <1>7 DEF update_recipient_status
  <2>3. Addressed' = Addressed /\ Addressed \subseteq Customers
    BY <2>2 DEF Addressed, TypeOK, Sids
  <2>4. Orphans' \subseteq Orphans
    BY <2>1, <2>2, <2>3 DEF Orphans
  <2> QED BY <2>2, <2>4 DEF Dead, Working
<1>8. CASE UNCHANGED vars
  BY <1>1, <1>8, QuietResend DEF vars
<1>9. Quiet => ResendFinite' /\ ResendInv'
  BY QuietResend
<1> HIDE DEF Quiet
<1> QED BY <1>2, <1>3, <1>4, <1>5, <1>6, <1>7, <1>8, <1>9, StepCases, SendResend, EndResend

\* Unless two executions of the task run at once (the visibility timeout passes
\* while the task runs), each death costs at most one message that a customer
\* gets twice.
THEOREM OneResendPerDeath == Spec => []CrashResendsOne \/ <>TasksOverlap
<1>1. Spec => [](ResendFinite /\ ResendInv) \/ <>TasksOverlap
  BY InitResend, ResendKept, SerialAlways, PTL DEF Spec
<1>2. ResendFinite /\ ResendInv => CrashResendsOne
  BY ResendTypes DEF ResendTyped, ResendInv, CrashResendsOne, Addressed, Dead
<1> QED BY <1>1, <1>2, PTL

-----------------------------------------------------------------------------
(* The counters, until two callbacks raise the same one at once *)

\* The recipients with a timestamp of s.
Stamped(s) == {c \in Customers : s \in times[c]}

StampedFinite == \A s \in Counters : IsFiniteSet(Stamped(s))

\* A callback in its session is about the SID its recipient has; one that raises
\* a counter has not been answered before, and has read the counter as it is.
SessionCurrent ==
    \A k \in Callbacks : call[k] # None =>
        /\ sid[call[k].row] = call[k].sid
        /\ New(k) \in Counters =>
              /\ <<call[k].sid, call[k].says>> \notin answered
              /\ call[k].at = "locked" => call[k].seen = count[New(k)]

\* The callback that stamped a recipient has been answered.
StampsAnswered == \A c \in Customers : \A s \in times[c] : <<sid[c], s>> \in answered

ExactInv == StampedFinite /\ CountsExact /\ SessionCurrent /\ StampsAnswered

LEMMA InitExact == Init => ExactInv
<1> SUFFICES ASSUME Init PROVE ExactInv
  OBVIOUS
<1>1. \A s : Stamped(s) = {}
  BY DEF Init, Stamped
<1>2. StampedFinite
  BY <1>1, FS_EmptySet DEF StampedFinite
<1>3. CountsExact
  <2> SUFFICES ASSUME NEW s \in DOMAIN count
               PROVE  count[s] = Cardinality({c \in Customers : s \in times[c]})
    BY DEF CountsExact
  <2>1. count[s] = 0
    BY DEF Init
  <2> QED BY <1>1, <2>1, FS_EmptySet DEF Stamped
<1> QED BY <1>2, <1>3 DEF ExactInv, Init, SessionCurrent, StampsAnswered

LEMMA QuietExact ==
    ASSUME ExactInv, UNCHANGED <<sid, times, count, call, answered>>
    PROVE  ExactInv'
  BY DEF ExactInv, StampedFinite, Stamped, CountsExact, SessionCurrent, StampsAnswered, New

\* The SID a commit writes goes to a row that no callback has found yet.
LEMMA CommitExact ==
    ASSUME TypeOK, AcceptedInv, SerialInv, ExactInv,
           NEW w \in Executions, commit_recipient(w)
    PROVE  ExactInv'
<1> DEFINE c == sending[w].row
<1>1. /\ sid[c] = None /\ c \in Customers
      /\ \A d \in Customers \ {c} : sid'[d] = sid[d]
      /\ UNCHANGED <<times, count, call, answered>>
  <2>1. /\ sid[c] = None /\ c \in Customers
        /\ \A d \in Customers \ {c} : sid'[d] = sid[d]
    BY CommitSerial
  <2> QED BY <2>1 DEF commit_recipient, http
<1> HIDE DEF c
<1>2. times[c] = {}
  BY <1>1 DEF AcceptedInv, RowsKnown
<1>3. \A k \in Callbacks : call[k] # None => call[k].row # c /\ call[k].row \in Customers
  BY <1>1, CallType DEF AcceptedInv, CallsKnown
<1>4. SessionCurrent'
  BY <1>1, <1>3 DEF ExactInv, SessionCurrent, New
<1>5. StampsAnswered'
  BY <1>1, <1>2 DEF ExactInv, StampsAnswered
<1> QED BY <1>1, <1>4, <1>5 DEF ExactInv, StampedFinite, Stamped, CountsExact

\* Two callbacks that raise the same counter are not in their sessions at once:
\* one that raises another counter reports another status.
LEMMA OtherCounters ==
    ASSUME TypeOK, ~CountRace,
           NEW j \in Callbacks, NEW k \in Callbacks, j # k,
           call[j] # None, call[k] # None, New(j) \in Counters
    PROVE  New(j) # New(k) /\ call[j].says # call[k].says
<1>1. New(j) # New(k)
  BY DEF CountRace, TypeOK, Counters
<1> QED BY <1>1 DEF New

\* A callback stamps a recipient that did not have the stamp, and the counter it
\* read is the counter it raises.
LEMMA UpdateExact ==
    ASSUME ~CountRace, TypeOK, ExactInv, NEW k \in Callbacks, update_recipient_status(k)
    PROVE  ExactInv'
<1> DEFINE c == call[k].row
           pair == <<call[k].sid, call[k].says>>
<1>1. /\ call[k] # None /\ call[k].at = "locked"
      /\ times' = [times EXCEPT ![c] = @ \cup ({New(k)} \cap {"delivered", "read"})]
      /\ count' = [s \in DOMAIN count |-> IF s = New(k) THEN call[k].seen + 1 ELSE count[s]]
      /\ answered' = answered \cup {pair}
      /\ call' = [call EXCEPT ![k] = None]
      /\ UNCHANGED sid
  BY DEF update_recipient_status
<1>2. /\ c \in Customers /\ sid[c] = call[k].sid
      /\ New(k) \in Counters => /\ pair \notin answered
                                /\ call[k].seen = count[New(k)] /\ New(k) = call[k].says
  BY <1>1, CallType, MapFacts DEF ExactInv, SessionCurrent, New, Counters
<1>3. New(k) \in Counters => c \notin Stamped(New(k))
  BY <1>2 DEF ExactInv, StampsAnswered, Stamped
<1>4. \A s \in Counters : Stamped(s)' = IF s = New(k) THEN Stamped(s) \cup {c} ELSE Stamped(s)
  <2> SUFFICES ASSUME NEW s \in Counters, NEW d \in Customers
               PROVE  s \in times'[d] <=> s \in times[d] \/ (s = New(k) /\ d = c)
    BY <1>2 DEF Stamped
  <2>1. times'[d] = IF d = c THEN times[d] \cup ({New(k)} \cap Counters) ELSE times[d]
    BY <1>1, <1>2 DEF TypeOK, Counters
  <2> QED BY <2>1
<1>5. \A s \in Counters : /\ IsFiniteSet(Stamped(s))
                          /\ count[s] = Cardinality(Stamped(s)) /\ count[s] \in Nat
  BY DEF ExactInv, StampedFinite, CountsExact, Stamped, TypeOK, Counters
<1>6. \A s \in Counters : IsFiniteSet(Stamped(s)') /\ count'[s] = Cardinality(Stamped(s)')
  <2> SUFFICES ASSUME NEW s \in Counters
               PROVE  IsFiniteSet(Stamped(s)') /\ count'[s] = Cardinality(Stamped(s)')
    OBVIOUS
  <2>1. CASE s = New(k)
    <3>1. count'[s] = count[s] + 1
      BY <1>1, <1>2, <2>1 DEF TypeOK, Counters
    <3> HIDE DEF c
    <3>2. /\ IsFiniteSet(Stamped(s) \cup {c})
          /\ Cardinality(Stamped(s) \cup {c}) = Cardinality(Stamped(s)) + 1
      BY <1>3, <1>5, <2>1, FS_AddElement
    <3> QED BY <1>4, <1>5, <2>1, <3>1, <3>2
  <2>2. CASE s # New(k)
    <3>1. count'[s] = count[s]
      BY <1>1, <2>2 DEF TypeOK, Counters
    <3> QED BY <1>4, <1>5, <2>2, <3>1
  <2> QED BY <2>1, <2>2
<1>7. StampedFinite' /\ CountsExact'
  <2>1. DOMAIN count' = Counters
    BY <1>1 DEF TypeOK, Counters
  <2> QED BY <1>6, <2>1 DEF StampedFinite, CountsExact, Stamped
<1>8. SessionCurrent'
  <2> SUFFICES ASSUME NEW j \in Callbacks, call'[j] # None
               PROVE  /\ sid[call'[j].row] = call'[j].sid
                      /\ New(j)' \in Counters =>
                            /\ <<call'[j].sid, call'[j].says>> \notin answered'
                            /\ call'[j].at = "locked" => call'[j].seen = count'[New(j)']
    BY <1>1 DEF SessionCurrent
  <2>1. j # k /\ call'[j] = call[j] /\ call[j] # None
    BY <1>1 DEF TypeOK
  <2>2. New(j)' = New(j)
    BY <2>1 DEF New
  <2>3. New(j) \in Counters => New(j) # New(k) /\ call[j].says # call[k].says
    BY <1>1, <2>1, OtherCounters
  <2>4. New(j) \in Counters => /\ <<call[j].sid, call[j].says>> \notin answered'
                               /\ count'[New(j)] = count[New(j)]
    BY <1>1, <2>1, <2>3 DEF ExactInv, SessionCurrent, TypeOK, Counters
  <2> QED BY <2>1, <2>2, <2>4 DEF ExactInv, SessionCurrent
<1>9. StampsAnswered'
  <2> SUFFICES ASSUME NEW d \in Customers, NEW s \in times'[d]
               PROVE  <<sid[d], s>> \in answered'
    BY <1>1 DEF StampsAnswered
  <2>1. CASE s \in times[d]
    BY <1>1, <2>1 DEF ExactInv, StampsAnswered
  <2>2. CASE s \notin times[d]
    <3>1. d = c /\ s = New(k) /\ New(k) \in Counters
      BY <1>1, <1>2, <2>2 DEF TypeOK, Counters
    <3> QED BY <1>1, <1>2, <3>1
  <2> QED BY <2>1, <2>2
<1> QED BY <1>7, <1>8, <1>9 DEF ExactInv

\* A callback that arrives has not been answered: it would be a repetition.
LEMMA ArriveExact ==
    ASSUME TypeOK, ExactInv, NEW m \in Sids, NEW s \in Reported, NEW k \in Callbacks,
           twilio_status_callback(k, m, s), ~Repeated'
    PROVE  ExactInv'
<1>1. /\ <<m, s>> \notin answered
      /\ \A j \in Callbacks : call[j] # None => <<call[j].sid, call[j].says>> # <<m, s>>
  BY DEF twilio_status_callback, Arrives, TypeOK, Repeated
<1>2. /\ UNCHANGED <<sid, times, count>> /\ call[k] = None
      /\ answered' \in {answered, answered \cup {<<m, s>>}}
      /\ \A j \in Callbacks \ {k} : call'[j] = call[j]
  BY DEF twilio_status_callback, rows, TypeOK
<1>3. StampedFinite' /\ CountsExact' /\ StampsAnswered'
  BY <1>2 DEF ExactInv, StampedFinite, Stamped, CountsExact, StampsAnswered
<1>4. SessionCurrent'
  <2> SUFFICES ASSUME NEW j \in Callbacks, call'[j] # None
               PROVE  /\ sid[call'[j].row] = call'[j].sid
                      /\ New(j)' \in Counters =>
                            /\ <<call'[j].sid, call'[j].says>> \notin answered'
                            /\ call'[j].at = "locked" => call'[j].seen = count[New(j)']
    BY <1>2 DEF SessionCurrent
  <2>1. CASE j = k
    <3>1. PICK c \in recipients :
             /\ sid[c] = m /\ answered' = answered
             /\ call' = [call EXCEPT ![k] = [at |-> "found", sid |-> m, says |-> s,
                                              row |-> c, loaded |-> status[c], seen |-> 0]]
      BY <1>2, <2>1 DEF twilio_status_callback
    <3> QED BY <1>1, <2>1, <3>1 DEF TypeOK
  <2>2. CASE j # k
    <3>1. call'[j] = call[j] /\ New(j)' = New(j)
      BY <1>2, <2>2 DEF New
    <3> QED BY <1>1, <1>2, <3>1 DEF ExactInv, SessionCurrent
  <2> QED BY <2>1, <2>2
<1> QED BY <1>3, <1>4 DEF ExactInv

LEMMA LeaveExact ==
    ASSUME TypeOK, ExactInv, NEW k \in Callbacks, flush_recipient(k) \/ rollback(k)
    PROVE  ExactInv'
<1>1. /\ UNCHANGED <<sid, times, count, answered>>
      /\ \A j \in Callbacks \ {k} : call'[j] = call[j]
  BY DEF flush_recipient, rollback, rows, TypeOK
<1>2. StampedFinite' /\ CountsExact' /\ StampsAnswered'
  BY <1>1 DEF ExactInv, StampedFinite, Stamped, CountsExact, StampsAnswered
<1> DEFINE Current(j) == call[j] # None =>
        /\ sid[call[j].row] = call[j].sid
        /\ New(j) \in Counters =>
              /\ <<call[j].sid, call[j].says>> \notin answered
              /\ call[j].at = "locked" => call[j].seen = count[New(j)]
<1>3. \A j \in Callbacks \ {k} : Current(j)'
  BY <1>1 DEF ExactInv, SessionCurrent, New
<1>4. Current(k)'
  <2>1. CASE rollback(k)
    BY <2>1 DEF rollback, TypeOK
  <2>2. CASE flush_recipient(k)
    <3> DEFINE n == IF New(k) \in DOMAIN count THEN count[New(k)] ELSE 0
    <3>1. /\ call[k] # None /\ call[k] \in Call /\ DOMAIN count = Counters
          /\ call' = [call EXCEPT ![k] = [@ EXCEPT !.at = "locked", !.seen = n]]
      BY <2>2, CallType DEF flush_recipient, TypeOK, Counters
    <3>2. n = IF New(k) \in Counters THEN count[New(k)] ELSE 0
      BY <3>1
    <3> HIDE DEF n
    <3>3. call'[k] = [call[k] EXCEPT !.at = "locked", !.seen = n] /\ call'[k].seen = n
      BY <3>1 DEF TypeOK, Call
    <3>4. /\ call'[k].row = call[k].row /\ call'[k].sid = call[k].sid
          /\ call'[k].says = call[k].says
      BY <3>1, <3>3 DEF Call
    <3>5. New(k)' = New(k)
      BY <3>4 DEF New
    <3> QED BY <1>1, <3>1, <3>2, <3>3, <3>4, <3>5 DEF ExactInv, SessionCurrent
  <2> QED BY <2>1, <2>2
<1>5. SessionCurrent'
  BY <1>3, <1>4 DEF SessionCurrent
<1> QED BY <1>2, <1>5 DEF ExactInv

LEMMA ExactKept ==
    TypeOK /\ AcceptedInv /\ SerialInv /\ ExactInv /\ ~CountRace /\ ~Repeated' /\ [Next]_vars
        => ExactInv'
<1> SUFFICES ASSUME TypeOK, AcceptedInv, SerialInv, ExactInv,
                    ~CountRace, ~Repeated', [Next]_vars
             PROVE  ExactInv'
  OBVIOUS
<1> DEFINE Quiet == UNCHANGED <<sid, times, count, call, answered>>
<1> USE DEF rows, task, http
<1>1. ASSUME NEW chosen \in SUBSET Customers, create_broadcast(chosen) PROVE Quiet
  BY <1>1 DEF create_broadcast
<1>2. ASSUME NEW w \in Executions,
             \/ load_recipients(w)
             \/ \E c \in Customers : send_message(w, c)
             \/ \E p \in {"returned", "lost", "dead"} : End(w, p)
      PROVE  Quiet
  BY <1>2 DEF load_recipients, send_message, End
<1>3. ASSUME NEW m \in Sids, NEW s \in Reported, report(m, s) PROVE Quiet
  BY <1>3 DEF report
<1>4. CASE UNCHANGED vars
  BY <1>4, QuietExact DEF vars
<1>5. Quiet => ExactInv'
  BY QuietExact
<1> HIDE DEF Quiet
<1> QED BY <1>1, <1>2, <1>3, <1>4, <1>5, StepCases, CommitExact, UpdateExact, ArriveExact,
           LeaveExact

\* delivered_count and read_count are the numbers of recipients with the
\* timestamp, whatever crashes and whatever is rolled back, up to the first of
\* three events: two callbacks that raise the same counter meet in their
\* sessions, Twilio repeats a callback, two executions of the task overlap.
THEOREM CountedExactly ==
    Spec => []CountsExact \/ <>CountRace \/ <>Repeated \/ <>TasksOverlap
<1>1. ExactInv => CountsExact
  BY DEF ExactInv
<1> QED BY <1>1, InitExact, ExactKept, SerialAlways, PTL DEF Spec

=============================================================================
