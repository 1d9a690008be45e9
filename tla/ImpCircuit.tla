----------------------------- MODULE ImpCircuit -----------------------------
(***************************************************************************)
(* The network the implication engine of programs/imp works on: external   *)
(* inputs and two-input AND nodes whose fanin edges may be inverted        *)
(* (ImpMgr, ImpNode, ImpEdge).  Input nodes get the first identifiers and  *)
(* every AND node a larger identifier than its fanins, which is the order  *)
(* in which ImpMgr::set registers them.                                    *)
(*                                                                         *)
(* A circuit is a record                                                   *)
(*   ni   the number of inputs, nodes 0 .. ni-1                            *)
(*   nn   the number of nodes; nodes ni .. nn-1 are AND nodes              *)
(*   src  src[n][p], the node that drives pin p \in {1, 2} of AND node n   *)
(*   inv  inv[n][p], 1 if that edge is inverted and 0 otherwise            *)
(***************************************************************************)
EXTENDS Integers, Sequences, FiniteSets

Bit == {0, 1}
X   == 2                       \* kB3X, the unassigned value
V3  == {0, 1, X}               \* Bool3
Pin == {1, 2}                  \* fanin0 and fanin1
Out == 3                       \* the output field of a node state

Nodes(c)  == 0 .. (c.nn - 1)
Inputs(c) == 0 .. (c.ni - 1)
Ands(c)   == c.ni .. (c.nn - 1)

IsCircuit(c) ==
  /\ c.ni \in Nat /\ c.nn \in Nat /\ c.ni <= c.nn
  /\ c.src \in [Ands(c) -> [Pin -> Nat]]
  /\ c.inv \in [Ands(c) -> [Pin -> Bit]]
  /\ \A n \in Ands(c), p \in Pin : c.src[n][p] < n

\* Value seen through an edge with inversion flag i (src_inv).
Flip(v, i) == IF v = X THEN X ELSE IF i = 1 THEN 1 - v ELSE v

Other(p) == 3 - p

\* The fanout edges of a node: pairs <<dst_node, dst_pos>>.
Fanouts(c, n) == {e \in Ands(c) \X Pin : c.src[e[1]][e[2]] = n}

\* The order of mFanouts: make_fanouts visits the AND nodes in the order of
\* their identifiers and the two fanins of each in turn.
Before(e, g) == e[1] < g[1] \/ (e[1] = g[1] /\ e[2] <= g[2])
IsFirst(e, S) == e \in S /\ \A g \in S : Before(e, g)

(***************************************************************************)
(* What the network computes: the assignments of a bit to every node that  *)
(* respect every AND node.                                                 *)
(***************************************************************************)
PinVal(c, f, n, p) == Flip(f[c.src[n][p]], c.inv[n][p])

Consistent(c) ==
  {f \in [Nodes(c) -> Bit] :
     \A n \in Ands(c) :
        f[n] = IF PinVal(c, f, n, 1) = 1 /\ PinVal(c, f, n, 2) = 1 THEN 1 ELSE 0}

\* A literal <<n, v>>: node n has value v (ImpVal, ImpDst).
Literals(c) == Nodes(c) \X Bit

Holds(f, lit) == f[lit[1]] = lit[2]
=============================================================================
