---------------------------- MODULE BoundedWork ----------------------------
(***************************************************************************)
(* What the capacity of a DiskManager promises: a request is accepted only *)
(* while there is room, every answer is the answer to one accepted request *)
(* and makes room for another.                                             *)
(***************************************************************************)
EXTENDS Integers

CONSTANTS Works, Capacity

VARIABLES pending, room

Init == pending = {} /\ room = Capacity

Accept(w) ==
    /\ w \notin pending /\ room > 0
    /\ pending' = pending \cup {w}
    /\ room' = room - 1

Answer(w) ==
    /\ w \in pending
    /\ pending' = pending \ {w}
    /\ room' = room + 1

Next == \E w \in Works : Accept(w) \/ Answer(w)

Spec == Init /\ [][Next]_<<pending, room>>
=============================================================================
