--------------------------- MODULE SavepointStack ---------------------------
(***************************************************************************)
(* What savepoints promise for any backend-local value: starting one saves *)
(* a copy of the value, rolling it back restores that copy, releasing it   *)
(* keeps the value, and the end of the transaction forgets everything.     *)
(***************************************************************************)
EXTENDS Integers, Sequences

CONSTANTS Values, Initial

VARIABLES current,  \* the value the transaction sees
          saved     \* one copy per open savepoint, the innermost last

Init == current = Initial /\ saved = <<>>

Write == current' \in Values /\ UNCHANGED saved

Savepoint == saved' = Append(saved, current) /\ UNCHANGED current

Outer == [i \in 1..(Len(saved) - 1) |-> saved[i]]

Release ==
    /\ saved # <<>>
    /\ saved' = Outer
    /\ UNCHANGED current

Rollback ==
    /\ saved # <<>>
    /\ current' = saved[Len(saved)]
    /\ saved' = Outer

EndTransaction == current' = Initial /\ saved' = <<>>

Next == Write \/ Savepoint \/ Release \/ Rollback \/ EndTransaction

Spec == Init /\ [][Next]_<<current, saved>>

=============================================================================
