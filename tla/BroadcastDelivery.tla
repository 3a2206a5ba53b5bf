-------------------------- MODULE BroadcastDelivery --------------------------
(***************************************************************************)
(* One broadcast: the Celery task that sends its messages, and the Twilio  *)
(* status callbacks that record what became of them.                       *)
(*                                                                         *)
(* The task (send_broadcast_messages) SELECTs the recipients that are      *)
(* QUEUED and commits after each of them.  Its session expires the rows at *)
(* every commit, so the next recipient is read again before its message is *)
(* sent, but its status is not checked again.                              *)
(*                                                                         *)
(* The task is acknowledged when it is over (acks_late).  A task that      *)
(* raises is over, and so is one whose process in the worker's pool dies   *)
(* (task_reject_on_worker_lost is not set: the worker's main process       *)
(* acknowledges it).  The broker redelivers the task when the worker dies  *)
(* as a whole, and when it outlives its visibility timeout while it is     *)
(* still running.                                                          *)
(*                                                                         *)
(* A callback (update_recipient_status) finds the recipient by the message *)
(* SID, writes its status, which locks the row until the commit, then      *)
(* reads the broadcast's counter and writes it back incremented.           *)
(***************************************************************************)
EXTENDS Integers, FiniteSets

CONSTANTS
    Customers,    \* customers the broadcast may address
    Executions,   \* deliveries of the task to a worker
    Callbacks,    \* HTTP requests Twilio makes to the status webhook
    Overlap,      \* the broker may redeliver a task that is still running
    Crashes,      \* executions whose process, or whole worker, may die
    Aborts,       \* executions that may lose the database
    Reports,      \* bound: the message statuses Twilio reports
    MaxRepeats,   \* bound: how often Twilio repeats a callback it has made
    None

ASSUME BrokerAssumption ==
    /\ Overlap \in BOOLEAN
    /\ Crashes \cup Aborts \subseteq Executions
    /\ Reports \subseteq {"sent", "delivered", "read", "failed", "undelivered"}
    /\ MaxRepeats \in Nat

\* A Twilio message SID: every message an execution sends has its own.
Sids == Executions \X Customers

RecipientStatus == {"queued", "sent", "delivered", "read", "failed"}

\* Mutation: the map takes sent for delivered.
MapSentAsDelivered ==
    [s \in {"sent", "delivered", "read", "failed", "undelivered"} |->
        IF s = "sent" THEN "delivered" ELSE IF s = "undelivered" THEN "failed" ELSE s]

\* Mutation: the map passes undelivered on as it is.
MapVerbatim == [s \in {"sent", "delivered", "read", "failed", "undelivered"} |-> s]

\* The message statuses the webhook maps to a recipient status; the others
\* ("queued", "sending") it ignores.
TWILIO_STATUS_MAP ==
    [s \in {"sent", "delivered", "read", "failed", "undelivered"} |->
        IF s = "undelivered" THEN "failed" ELSE s]

VARIABLES
    recipients,   \* broadcast_recipients rows, {} before the broadcast exists
    status,       \* broadcast_recipients.status
    sid,          \* broadcast_recipients.twilio_message_sid
    times,        \* which of delivered_at and read_at are not NULL
    count,        \* broadcasts.delivered_count and read_count
    phase,        \* how far each execution of the task is: it ends "returned",
                  \* "lost" (acknowledged too, but not at its end) or "dead"
    batch,        \* the recipients it has yet to send to
    sending,      \* the recipient whose message it is sending
    result,       \* what Twilio answered: a SID, or None for an exception
    messages,     \* the SIDs of the messages Twilio has accepted
    fate,         \* what Twilio has reported of each of them so far
    call,         \* the callback requests in their sessions
    answered,     \* callbacks answered with success, as <<sid, status>>
    repeats       \* how many callbacks were repetitions

rows == <<recipients, status, sid, times, count>>
task == <<phase, batch, sending, result>>
twilio == <<messages, fate>>
http == <<call, answered, repeats>>
vars == <<rows, task, twilio, http>>

\* A callback in its session: the message and reported status it is about, the
\* row it loaded and the status it found there, and the counter it read.
Call == [at : {"found", "locked"}, sid : Sids, says : DOMAIN TWILIO_STATUS_MAP,
         row : Customers, loaded : RecipientStatus, seen : Nat]

\* The recipient an execution is sending to, and the status it loaded.
Sending == [row : Customers, loaded : RecipientStatus]

\* None stands for the absence of each of these.
ASSUME NoneAssumption == None \notin Sids /\ None \notin Sending /\ None \notin Call

Init ==
    /\ recipients = {}
    /\ status = [c \in Customers |-> "queued"]
    /\ sid = [c \in Customers |-> None]
    /\ times = [c \in Customers |-> {}]
    /\ count = [s \in {"delivered", "read"} |-> 0]
    /\ phase = [w \in Executions |-> "waiting"]
    /\ batch = [w \in Executions |-> {}]
    /\ sending = [w \in Executions |-> None]
    /\ result = [w \in Executions |-> None]
    /\ messages = {}
    /\ fate = [m \in Sids |-> {}]
    /\ call = [k \in Callbacks |-> None]
    /\ answered = {}
    /\ repeats = 0

-----------------------------------------------------------------------------
(* The API *)

\* SELECT the customers who opted in for the channel (400 if there is none),
\* INSERT the broadcast and a QUEUED recipient for each of them.
create_broadcast(chosen) ==
    /\ recipients = {} /\ chosen # {}
    /\ recipients' = chosen
    /\ UNCHANGED <<status, sid, times, count, task, twilio, http>>

-----------------------------------------------------------------------------
(* The worker *)

Running(w) == phase[w] \in {"loaded", "looping"}

\* Mutation: the task is acknowledged when a worker takes it, not when it ends.
DeliveredOnce(w) ==
    phase[w] = "waiting" /\ recipients # {} /\ \A v \in Executions : phase[v] = "waiting"

\* The broker hands the task out until an execution has acknowledged it.
Delivered(w) ==
    /\ phase[w] = "waiting" /\ recipients # {}
    /\ \A v \in Executions : phase[v] \notin {"returned", "lost"}
    /\ Overlap \/ \A v \in Executions : ~Running(v)

\* Mutation: the query does not ask for QUEUED.
LoadEveryone(w) ==
    /\ Delivered(w)
    /\ phase' = [phase EXCEPT ![w] = "loaded"]
    /\ batch' = [batch EXCEPT ![w] = recipients]
    /\ UNCHANGED <<rows, sending, result, twilio, http>>

\* SELECT the recipients that are still QUEUED.
load_recipients(w) ==
    /\ Delivered(w)
    /\ phase' = [phase EXCEPT ![w] = "loaded"]
    /\ batch' = [batch EXCEPT ![w] = {c \in recipients : status[c] = "queued"}]
    /\ UNCHANGED <<rows, sending, result, twilio, http>>

\* Read the recipient again unless it is still fresh from load_recipients, and
\* call Twilio.  The call returns a SID, or raises: before Twilio accepted the
\* message, or after (the answer was lost).
send_message(w, c) ==
    /\ Running(w) /\ sending[w] = None /\ c \in batch[w]
    /\ batch' = [batch EXCEPT ![w] = @ \ {c}]
    /\ sending' = [sending EXCEPT ![w] =
           [row |-> c, loaded |-> IF phase[w] = "loaded" THEN "queued" ELSE status[c]]]
    /\ \E accepted, answer \in BOOLEAN :
          /\ answer => accepted
          /\ messages' = IF accepted THEN messages \cup {<<w, c>>} ELSE messages
          /\ result' = [result EXCEPT ![w] = IF answer THEN <<w, c>> ELSE None]
    /\ UNCHANGED <<rows, phase, fate, http>>

\* The status column after an UPDATE by a session that loaded one status and
\* assigned another: an unchanged value is not written.
Written(current, loaded, assigned) == IF assigned = loaded THEN current ELSE assigned

\* The status a callback assigns; assigning delivered or read sets a timestamp too.
New(k) == TWILIO_STATUS_MAP[call[k].says]

\* A callback that has written its row has it locked.
Writes(k) == New(k) # call[k].loaded \/ New(k) \in {"delivered", "read"}

Locks(k, c) == call[k] # None /\ call[k].at = "locked" /\ call[k].row = c /\ Writes(k)

\* Mutation: the exception of one message is swallowed, the row is SENT anyway.
CommitAlwaysSent(w) ==
    /\ Running(w) /\ sending[w] # None
    /\ LET c == sending[w].row IN
       /\ \A k \in Callbacks : ~Locks(k, c)
       /\ status' = [status EXCEPT ![c] = Written(@, sending[w].loaded, "sent")]
       /\ sid' = [sid EXCEPT ![c] = IF result[w] = None THEN @ ELSE result[w]]
    /\ sending' = [sending EXCEPT ![w] = None]
    /\ result' = [result EXCEPT ![w] = None]
    /\ phase' = [phase EXCEPT ![w] = "looping"]
    /\ UNCHANGED <<recipients, times, count, batch, twilio, http>>

\* Mutation: the exception of one message leaves its recipient as it is.
CommitSkipsFailed(w) ==
    /\ Running(w) /\ sending[w] # None
    /\ LET c == sending[w].row IN
       IF result[w] = None THEN UNCHANGED <<status, sid>>
       ELSE /\ \A k \in Callbacks : ~Locks(k, c)
            /\ status' = [status EXCEPT ![c] = Written(@, sending[w].loaded, "sent")]
            /\ sid' = [sid EXCEPT ![c] = result[w]]
    /\ sending' = [sending EXCEPT ![w] = None]
    /\ result' = [result EXCEPT ![w] = None]
    /\ phase' = [phase EXCEPT ![w] = "looping"]
    /\ UNCHANGED <<recipients, times, count, batch, twilio, http>>

\* SENT with the SID, or FAILED; UPDATE (nothing if neither changes) and COMMIT.
commit_recipient(w) ==
    /\ Running(w) /\ sending[w] # None
    /\ LET c == sending[w].row
           assigned == IF result[w] = None THEN "failed" ELSE "sent"
       IN
       /\ result[w] # None \/ assigned # sending[w].loaded
             => \A k \in Callbacks : ~Locks(k, c)
       /\ status' = [status EXCEPT ![c] = Written(@, sending[w].loaded, assigned)]
       /\ sid' = [sid EXCEPT ![c] = IF result[w] = None THEN @ ELSE result[w]]
    /\ sending' = [sending EXCEPT ![w] = None]
    /\ result' = [result EXCEPT ![w] = None]
    /\ phase' = [phase EXCEPT ![w] = "looping"]
    /\ UNCHANGED <<recipients, times, count, batch, twilio, http>>

\* An execution that is over forgets what it had in memory.
End(w, p) ==
    /\ phase' = [phase EXCEPT ![w] = p]
    /\ batch' = [batch EXCEPT ![w] = {}]
    /\ sending' = [sending EXCEPT ![w] = None]
    /\ result' = [result EXCEPT ![w] = None]
    /\ UNCHANGED <<rows, twilio, http>>

\* The task returns and is acknowledged.
finish(w) == Running(w) /\ sending[w] = None /\ batch[w] = {} /\ End(w, "returned")

\* A database error leaves the loop; the task has no retry of its own and a
\* task that raised is acknowledged like one that returned.
abort(w) == w \in Aborts /\ Running(w) /\ End(w, "lost")

\* The worker dies with the task unacknowledged; or only the process that runs
\* the task does, and the worker acknowledges it.
crash(w) == w \in Crashes /\ Running(w) /\ \E p \in {"dead", "lost"} : End(w, p)

-----------------------------------------------------------------------------
(* Twilio *)

\* What happens to a message: sent, then delivered, failed or undelivered, and
\* after delivered perhaps read.
report(m, s) ==
    /\ m \in messages /\ s \notin fate[m]
    /\ fate[m] \subseteq (CASE s = "sent" -> {}
                           [] s \in {"delivered", "failed", "undelivered"} -> {"sent"}
                           [] s = "read" -> {"sent", "delivered"})
    /\ s = "read" => "delivered" \in fate[m]
    /\ fate' = [fate EXCEPT ![m] = @ \cup {s}]
    /\ UNCHANGED <<rows, task, messages, http>>

\* Callback requests for what was reported arrive in any order; a request may
\* be repeated.
Arrives(m, s) ==
    /\ s \in fate[m]
    /\ IF <<m, s>> \in answered
          \/ \E k \in Callbacks : call[k] # None /\ call[k].sid = m /\ call[k].says = s
       THEN repeats < MaxRepeats /\ repeats' = repeats + 1
       ELSE UNCHANGED repeats

-----------------------------------------------------------------------------
(* The webhook *)

\* SELECT the recipient with this SID; an unknown SID is ignored.
twilio_status_callback(k, m, s) ==
    /\ call[k] = None
    /\ Arrives(m, s)
    /\ \/ \E c \in recipients :
             /\ sid[c] = m
             /\ call' = [call EXCEPT ![k] = [at |-> "found", sid |-> m, says |-> s,
                                             row |-> c, loaded |-> status[c], seen |-> 0]]
             /\ UNCHANGED answered
       \/ /\ \A c \in recipients : sid[c] # m
          /\ answered' = answered \cup {<<m, s>>}
          /\ UNCHANGED call
    /\ UNCHANGED <<rows, task, twilio>>

\* Autoflush: UPDATE the recipient, waiting for its row; then SELECT the
\* broadcast with its counters.
flush_recipient(k) ==
    /\ call[k] # None /\ call[k].at = "found"
    /\ Writes(k) => \A j \in Callbacks : ~Locks(j, call[k].row)
    /\ call' = [call EXCEPT ![k].at = "locked",
                            ![k].seen = IF New(k) \in DOMAIN count THEN count[New(k)] ELSE 0]
    /\ UNCHANGED <<rows, task, twilio, answered, repeats>>

\* Mutation: a read message counts as delivered once more.
CountReadTwice(k) ==
    /\ call[k] # None /\ call[k].at = "locked"
    /\ LET c == call[k].row IN
       /\ status' = [status EXCEPT ![c] = Written(@, call[k].loaded, New(k))]
       /\ times' = [times EXCEPT ![c] = @ \cup ({New(k)} \cap {"delivered", "read"})]
       /\ count' = [s \in DOMAIN count |->
              IF New(k) = "read" \/ s = New(k) THEN count[s] + 1 ELSE count[s]]
    /\ answered' = answered \cup {<<call[k].sid, call[k].says>>}
    /\ call' = [call EXCEPT ![k] = None]
    /\ UNCHANGED <<recipients, sid, task, twilio, repeats>>

\* UPDATE the counter of the broadcast and COMMIT.
update_recipient_status(k) ==
    /\ call[k] # None /\ call[k].at = "locked"
    /\ LET c == call[k].row IN
       /\ status' = [status EXCEPT ![c] = Written(@, call[k].loaded, New(k))]
       /\ times' = [times EXCEPT ![c] = @ \cup ({New(k)} \cap {"delivered", "read"})]
       /\ count' = [s \in DOMAIN count |-> IF s = New(k) THEN call[k].seen + 1 ELSE count[s]]
    /\ answered' = answered \cup {<<call[k].sid, call[k].says>>}
    /\ call' = [call EXCEPT ![k] = None]
    /\ UNCHANGED <<recipients, sid, task, twilio, repeats>>

\* The session fails and the request is answered with an error; Twilio may make
\* it again.
rollback(k) ==
    /\ call[k] # None
    /\ call' = [call EXCEPT ![k] = None]
    /\ UNCHANGED <<rows, task, twilio, answered, repeats>>

-----------------------------------------------------------------------------
Worker(w) ==
    \/ load_recipients(w)
    \/ \E c \in Customers : send_message(w, c)
    \/ commit_recipient(w)
    \/ finish(w)

Webhook(k) == flush_recipient(k) \/ update_recipient_status(k)

Next ==
    \/ \E chosen \in SUBSET Customers : create_broadcast(chosen)
    \/ \E w \in Executions : Worker(w) \/ abort(w) \/ crash(w)
    \/ \E m \in Sids, s \in Reports :
          \/ report(m, s)
          \/ \E k \in Callbacks : twilio_status_callback(k, m, s)
    \/ \E k \in Callbacks : Webhook(k) \/ rollback(k)

Spec == Init /\ [][Next]_vars

\* The broker delivers an unacknowledged task to a worker, a worker goes on with
\* its task, and the event loop with a callback.
FairSpec ==
    /\ Spec
    /\ \A w \in Executions : WF_vars(Worker(w))
    /\ \A k \in Callbacks : WF_vars(Webhook(k))

-----------------------------------------------------------------------------
(* Properties *)

\* What update_recipient_status and the worker keep of the types.
TypeOK ==
    /\ recipients \subseteq Customers
    /\ status \in [Customers -> RecipientStatus]
    /\ sid \in [Customers -> Sids \cup {None}]
    /\ times \in [Customers -> SUBSET {"delivered", "read"}]
    /\ count \in [{"delivered", "read"} -> Nat]
    /\ phase \in [Executions -> {"waiting", "loaded", "looping", "returned", "lost", "dead"}]
    /\ batch \in [Executions -> SUBSET Customers]
    /\ sending \in [Executions -> Sending \cup {None}]
    /\ result \in [Executions -> Sids \cup {None}]
    /\ messages \subseteq Sids
    /\ fate \in [Sids -> SUBSET DOMAIN TWILIO_STATUS_MAP]
    /\ call \in [Callbacks -> Call \cup {None}]
    /\ answered \subseteq Sids \X DOMAIN TWILIO_STATUS_MAP
    /\ repeats \in 0..MaxRepeats

\* Whatever the executions of the task and the callbacks do to each other, a
\* recipient the dashboard shows as sent, delivered or read, or that has a
\* timestamp, carries the SID of a message to it that Twilio accepted
\* (worker.py: the SID is set with SENT; update_recipient_status: by SID only).
SentMeansAccepted ==
    \A c \in Customers :
        status[c] \in {"sent", "delivered", "read"} \/ times[c] # {}
            => sid[c] \in messages /\ sid[c][2] = c

\* Callbacks may lose each other's increments, but a counter never exceeds the
\* callbacks that reported its status, repetitions included.
NoOvercount ==
    \A s \in DOMAIN count :
        count[s] <= Cardinality({a \in answered : a[2] = s}) + repeats

\* broadcast_service.py:162, "Update aggregate counts on the broadcast":
\* delivered_count and read_count are the numbers of recipients with a
\* delivered_at and with a read_at.
CountsExact ==
    \A s \in DOMAIN count : count[s] = Cardinality({c \in Customers : s \in times[c]})

\* Two callbacks that raise the same counter are in their sessions at once.
CountRace ==
    \E j, k \in Callbacks :
        /\ j # k /\ call[j] # None /\ call[k] # None
        /\ New(j) = New(k) /\ New(k) \in DOMAIN count

\* Twilio has repeated a callback.
Repeated == repeats # 0

\* Two executions of the task run at once.
TasksOverlap == \E v, w \in Executions : v # w /\ Running(v) /\ Running(w)

\* When the broker only redelivers the task of a worker that died, the commit
\* after every recipient bounds the harm: a death costs at most one message that
\* a customer gets twice.
CrashResendsOne ==
    Cardinality(messages) - Cardinality({m[2] : m \in messages})
        <= Cardinality({w \in Executions : phase[w] = "dead"})

\* Once an execution of the task has returned, no recipient is QUEUED: messages
\* that raised, executions before it that broke off and executions beside it
\* that took a part of the recipients leave nobody out.
ReturnedMeansServed ==
    (\E w \in Executions : phase[w] = "returned")
        => \A c \in recipients : status[c] # "queued"

\* A broadcast that is dispatched does not run for ever and is not forgotten:
\* redelivered as often as its worker dies, its task is acknowledged in the end.
TaskEnds ==
    recipients # {} ~> \E w \in Executions : phase[w] \in {"returned", "lost"}

\* worker.py:37, "Reads recipient records from DB, sends each via Twilio, updates
\* status": once a broadcast is dispatched no recipient stays QUEUED.
Drained == recipients # {} ~> \A c \in recipients : status[c] # "queued"

\* A delivered or read callback that was answered with success is on record.
EveryStatusRecorded ==
    \A a \in answered : a[2] \in {"delivered", "read"} => a[2] \in times[a[1][2]]
=============================================================================
