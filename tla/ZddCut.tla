------------------------------- MODULE ZddCut -------------------------------
(***************************************************************************)
(* ZddImp, ZddImp2 and ZddTopDown of programs/enumcut: the cuts of a node  *)
(* as one family of sets, kept in a ZDD. The first two build it from those *)
(* of the fanins; the third puts fanins in the place of nodes, in one      *)
(* depth-first walk. The ZDD package is external.                          *)
(***************************************************************************)
EXTENDS CutArgs

VARIABLES
  zroot,        \* the last node done
  mCuts,        \* ZddImp: the family of every node
  mCut,         \* ZddTopDown: the family of every node
  mMark,        \* ZddTopDown: the nodes marked
  mFpNodeList   \* ZddTopDown: the nodes in the sets of a node's family

zddVars == <<net, limit, zroot, mCuts, mCut, mMark, mFpNodeList>>

\* ZddMgr::n_element, make_minimal and merge.
AtMost(F, k)  == {C \in F : Cardinality(C) <= k}
Minimal(F)    == {C \in F : ~\E D \in F : D \subseteq C /\ D # C}
Unions(F, G)  == {C \cup D : C \in F, D \in G}

ZddInit ==
  /\ net \in Networks /\ limit \in Limits
  /\ zroot = net.inputs /\ mMark = {}
  /\ mCuts = [n \in Nodes(net) |-> IF n \in Inputs(net) THEN {{n}} ELSE {}]
  /\ mCut = mCuts
  /\ mFpNodeList = [n \in Nodes(net) |-> IF n \in Inputs(net) THEN {n} ELSE {}]

\* Mutant: the sets are cut to the limit before they are merged only.
MergedUnlimited(n) ==
  Minimal(Unions(AtMost(mCuts[net.fanin[n][1]], limit), AtMost(mCuts[net.fanin[n][2]], limit)))
    \cup {{n}}

\* The loop body of ZddImp and, with the limit given to merge, of ZddImp2.
Merged(n) ==
  Minimal(AtMost(Unions(mCuts[net.fanin[n][1]], mCuts[net.fanin[n][2]]), limit)) \cup {{n}}

\* dfs: the sets with node, node replaced by its fanins, are added.
Expanded(F, node) ==
  F \cup {(C \ {node}) \cup Fanins(net, node) : C \in {D \in F : node \in D}}

\* What the walk changes: the marks and the family.
Walks == [mark : SUBSET Nodes(net), cut : SUBSET SUBSET Nodes(net)]

Dfs[node \in Nodes(net)] ==
  [w \in Walks |->
     IF node \notin w.mark \/ node \in Inputs(net) THEN w
     ELSE Dfs[net.fanin[node][2]][
            Dfs[net.fanin[node][1]][
              [mark |-> w.mark \ {node}, cut |-> Expanded(w.cut, node)]]]]

\* The loop body of ZddTopDown. Marks no walk reaches stay for the next node.
Walk(n) ==
  Dfs[n][[mark |-> mMark \cup {n} \cup UNION {mFpNodeList[m] : m \in Fanins(net, n)},
          cut  |-> {{n}}]]

ZddNext ==
  LET n == zroot + 1
      w == Walk(n)
      F == Minimal(AtMost(w.cut, limit))
  IN  /\ n \in Logic(net)
      /\ zroot' = n
      /\ mCuts' = [mCuts EXCEPT ![n] = Merged(n)]
      /\ mMark' = w.mark
      /\ mCut' = [mCut EXCEPT ![n] = F]
      /\ mFpNodeList' = [mFpNodeList EXCEPT ![n] = UNION F]
      /\ UNCHANGED <<net, limit>>

ZddSpec == ZddInit /\ [][ZddNext]_zddVars
------------------------------------------------------------------------------
\* The cuts of a node from which no input can be dropped, and the node itself.
MinimalCuts(n) ==
  {{n}} \cup Minimal(Reports(net, Nodes(net), limit, n) \ {{}})

\* No two paths from the node meet again: a walk meets every node once.
IsTree(n) ==
  LET met == Met(net, n, {})
  IN  \A m \in met \ {n} : Cardinality({k \in met \cap Logic(net) : m \in Fanins(net, k)}) = 1

\* The bottom-up families are the minimal cuts of every node within the limit;
\* the top-down ones hold nothing but cuts, and all of the minimal ones where
\* no paths meet again: the walk expands a node once, also for the sets that
\* get it later.
ZddsAgree ==
  \A n \in Logic(net) \cap 1 .. zroot :
    /\ mCuts[n] = MinimalCuts(n)
    /\ \A C \in mCut[n] : C = {n} \/ IsCut(net, n, C)
    /\ IsTree(n) => mCut[n] = MinimalCuts(n)
=============================================================================
