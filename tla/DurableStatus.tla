---------------------------- MODULE DurableStatus ----------------------------
(***************************************************************************)
(* What the persistence pipeline promises, without any of its machinery:   *)
(* every message has a status the API has promised and a status its        *)
(* database row holds.  The row follows the promise, never overtakes it,   *)
(* never goes back, and in the end reaches it.                             *)
(***************************************************************************)
EXTENDS Naturals

CONSTANTS Message,  \* message ids
          Status    \* status codes, 0 for "no such message", 1 for SENT

VARIABLES promised, \* the greatest status accepted for a message
          row       \* the status of its database row

vars == <<promised, row>>

Init == /\ promised = [m \in Message |-> 0]
        /\ row = [m \in Message |-> 0]

\* A message is accepted as SENT; only then may its status be raised.
Promise(m, s) ==
    /\ s > promised[m]
    /\ promised[m] = 0 => s = 1
    /\ promised' = [promised EXCEPT ![m] = s]
    /\ UNCHANGED row

\* A transaction moves any number of rows towards what was promised.
CatchUp ==
    /\ row' \in [Message -> Status]
    /\ \A m \in Message : row[m] =< row'[m] /\ row'[m] =< promised[m]
    /\ UNCHANGED promised

Next == \/ \E m \in Message, s \in Status : Promise(m, s)
        \/ CatchUp

Spec == Init /\ [][Next]_vars
=============================================================================
