---------------------------- MODULE MCEnumCut -----------------------------
(***************************************************************************)
(* TopDown, then BottomUp and the enumerations with ZDDs, on the same      *)
(* network with the same limit; or TopDown2.                               *)
(***************************************************************************)
EXTENDS TopDown, BottomUp, ZddCut

allVars == <<vars, buVars, zddVars>>

Last == net.inputs + Cardinality(DOMAIN net.fanin)
TopDownDone == mRoot = Last /\ ret = "idle"

BottomUpDone == root = Last /\ pc = "node"
OfAllNodes == TopDownDone /\ stem = Nodes(net)

MCInit == Init /\ BuInit /\ ZddInit
MCNext == \/ Next /\ UNCHANGED <<buVars, zddVars>>
          \/ OfAllNodes /\ BuNext /\ UNCHANGED <<vars, zddVars>>
          \/ OfAllNodes /\ BottomUpDone /\ ZddNext /\ UNCHANGED <<vars, buVars>>
MCSpec == MCInit /\ [][MCNext]_allVars /\ WF_allVars(MCNext)

\* An enumeration, once started, visits every node and returns.
Finishes == <>(TopDownDone /\ (stem = Nodes(net) => BottomUpDone /\ zroot = Last))
------------------------------------------------------------------------------
\* All networks of i inputs and k gates, with the fanins of a gate in order.
InOrder(n) == {f \in (1 .. n - 1) \X (1 .. n - 1) : f[1] < f[2]}
Gates(i, k) ==
  LET nets[j \in 0 .. k] ==
        IF j = 0 THEN {[inputs |-> i, fanin |-> <<>>]}
        ELSE {[inputs |-> i, fanin |-> [n \in i + 1 .. i + j |->
                 IF n = i + j THEN f ELSE net0.fanin[n]]] :
              net0 \in nets[j - 1], f \in InOrder(i + j)}
  IN  nets[k]

\* The same networks with the fanins of every other gate exchanged.
Swapped(net0) ==
  [net0 EXCEPT !.fanin = [n \in DOMAIN @ |-> IF n % 2 = 0 THEN <<@[n][2], @[n][1]>> ELSE @[n]]]

\* Two networks with cuts of four inputs: reconvergence over several levels, and
\* a ladder in which the search of a node meets the boundary on both sides.
Deep   == [inputs |-> 3, fanin |-> [n \in 4 .. 8 |->
             <<<<1, 2>>, <<2, 3>>, <<4, 5>>, <<4, 3>>, <<7, 6>>>>[n - 3]]]
Ladder == [inputs |-> 4, fanin |-> [n \in 5 .. 9 |->
             <<<<1, 2>>, <<5, 3>>, <<4, 5>>, <<6, 7>>, <<8, 6>>>>[n - 4]]]

MCNetworks == LET small == Gates(2, 3) \cup Gates(3, 3) \cup Gates(2, 4)
              IN  small \cup {Swapped(n) : n \in Gates(3, 3)} \cup {Deep, Ladder}
=============================================================================
