---------------------------- MODULE CustomerBook ----------------------------
(* What a kitchen's customer list promises: a bounded number of entries for a  *)
(* phone number, added one at a time and never removed, and whether each of    *)
(* them takes broadcasts.                                                      *)
EXTENDS Naturals

CONSTANTS Phones, Copies

VARIABLE book   \* for every number: how many entries are opted in, and out

Init == book = [p \in Phones |-> [in |-> 0, out |-> 0]]

\* A creation, an import or a first order adds an entry for each of some numbers.
Add(new) ==
    /\ new # {} /\ \A p \in new : book[p].in + book[p].out < Copies
    /\ book' = [p \in Phones |-> IF p \in new THEN [book[p] EXCEPT !.in = @ + 1] ELSE book[p]]

\* The console sets is_opted_in of a customer.
OptOut(p) ==
    /\ book[p].in > 0
    /\ book' = [book EXCEPT ![p] = [in |-> @.in - 1, out |-> @.out + 1]]

OptIn(p) ==
    /\ book[p].out > 0
    /\ book' = [book EXCEPT ![p] = [in |-> @.in + 1, out |-> @.out - 1]]

Next ==
    \/ \E new \in SUBSET Phones : Add(new)
    \/ \E p \in Phones : OptOut(p) \/ OptIn(p)

Spec == Init /\ [][Next]_book
=============================================================================
