------------------------------ MODULE CutNet ------------------------------
(***************************************************************************)
(* The networks of programs/enumcut and the cuts of their nodes. A network *)
(* is a BdnMgr: nodes numbered in topological order, the inputs first, and *)
(* the two fanins of every logic node.                                     *)
(***************************************************************************)
EXTENDS Naturals, FiniteSets

\* BdnMgr shares structure and simplifies a node whose fanins are one node.
IsNetwork(net) ==
  /\ net.inputs \in Nat \ {0} /\ IsFiniteSet(DOMAIN net.fanin)
  /\ DOMAIN net.fanin = net.inputs + 1 .. net.inputs + Cardinality(DOMAIN net.fanin)
  /\ \A n \in DOMAIN net.fanin :
       /\ net.fanin[n] \in (1 .. n - 1) \X (1 .. n - 1)
       /\ net.fanin[n][1] # net.fanin[n][2]

Inputs(net) == 1 .. net.inputs
Logic(net)  == DOMAIN net.fanin
Nodes(net)  == Inputs(net) \cup Logic(net)
Fanins(net, n) == {net.fanin[n][1], net.fanin[n][2]}

\* The nodes a search from root meets when it does not go past C.
Met(net, root, C) ==
  LET met[n \in Nodes(net)] ==
        \/ n = root
        \/ \E m \in Logic(net) : m > n /\ n \in Fanins(net, m) /\ m \notin C /\ met[m]
  IN  {n \in Nodes(net) : met[n]}

\* Every path from root to an input crosses C, and every node of C is crossed.
IsCut(net, root, C) ==
  LET met == Met(net, root, C)
  IN  C \subseteq met /\ (met \ C) \cap Inputs(net) = {}

\* What found_cut is told: the inputs of the cut, which are among ends, none for
\* the node by itself.
IsReport(net, ends, limit, root, C) ==
  \/ C = {}
  \/ /\ root \in Logic(net) /\ C # {root} /\ C \subseteq ends
     /\ Cardinality(C) <= limit /\ IsCut(net, root, C)

Reports(net, ends, limit, root) ==
  {C \in SUBSET (ends \cap 1 .. root) : IsReport(net, ends, limit, root, C)}

Fanouts(net, n) == {m \in Logic(net) : n \in Fanins(net, m)}
=============================================================================
