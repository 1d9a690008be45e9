------------------------------- MODULE PrioQ -------------------------------
(***************************************************************************)
(* What EventQ promises: a set of nodes, each held once, of which get()    *)
(* returns one of the lowest level, and NULL only when there is none.      *)
(***************************************************************************)
EXTENDS Naturals

CONSTANTS Node, Level, NULL

VARIABLES pending, got

Init == pending = {} /\ got = NULL

Put(n) == pending' = pending \cup {n} /\ got' = NULL

Get ==
  \E n \in pending :
    /\ \A m \in pending : Level[n] <= Level[m]
    /\ pending' = pending \ {n} /\ got' = n

GetNull == pending = {} /\ got' = NULL /\ UNCHANGED pending

Next == (\E n \in Node : Put(n)) \/ Get \/ GetNull

Spec == Init /\ [][Next]_<<pending, got>>
=============================================================================
