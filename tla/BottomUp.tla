------------------------------ MODULE BottomUp ----------------------------
(***************************************************************************)
(* BottomUp of programs/enumcut: the cuts of a node are the unions of a    *)
(* cut of its first fanin and one of its second, unless a node of one is   *)
(* inside the other. Two marks per node, set and cleared by searches that  *)
(* stop at marks, tell what is inside.                                     *)
(***************************************************************************)
EXTENDS CutArgs, Sequences

VARIABLES
  root,            \* the last node whose cuts have been started
  pc,              \* the loop that goes on: "node", "cut0", "cut1"; "end" at the end of a node
  p, q,            \* the positions of the iterators in the two cut lists
  mCutList,        \* the cuts of every node, in the order they were found
  mMark1, mMark2,  \* 0, 1 (inside) or 2 (input), of every node
  buFound,         \* what op->found_cut has been told of every node
  buNcAll          \* how often: what the op of the enumcut program counts

buVars == <<net, limit, root, pc, p, q, mCutList, mMark1, mMark2, buFound, buNcAll>>

BuInit ==
  /\ net \in Networks /\ limit \in Limits
  /\ root = net.inputs /\ pc = "node" /\ p = 1 /\ q = 1
  /\ mCutList = [n \in Nodes(net) |-> IF n \in Inputs(net) THEN <<{n}>> ELSE <<>>]
  /\ mMark1 = [n \in Nodes(net) |-> 0] /\ mMark2 = [n \in Nodes(net) |-> 0]
  /\ buFound = [n \in Nodes(net) |-> IF n \in Inputs(net) THEN {{}} ELSE {}]
  /\ buNcAll = net.inputs

Zero(mark)  == {n \in DOMAIN mark : mark[n] = 0}
List(i)     == mCutList[net.fanin[root][i]]

\* The inputs of a cut get mark 2; mark_cut1/2 then puts mark 1 on what it
\* reaches from the fanin without passing a mark.
Marked(mark, cut, fanin) ==
  LET ends   == (DOMAIN mark \ Zero(mark)) \cup cut
      inside == Met(net, fanin, ends) \ ends
  IN  [n \in DOMAIN mark |-> IF n \in cut THEN 2 ELSE IF n \in inside THEN 1 ELSE mark[n]]

\* Mutant: the search that clears the marks stops at the inputs of the cut.
UnmarkedInside(mark, fanin) ==
  LET inside == Met(net, fanin, {n \in DOMAIN mark : mark[n] # 1}) \cap
                {n \in DOMAIN mark : mark[n] = 1}
  IN  [n \in DOMAIN mark |-> IF n \in inside THEN 0 ELSE mark[n]]

\* clear_cut1/2: the marks reached from the fanin through marks.
Unmarked(mark, fanin) ==
  LET reached == Met(net, fanin, Zero(mark)) IN
  [n \in DOMAIN mark |-> IF n \in reached THEN 0 ELSE mark[n]]

BuStartNode ==
  /\ pc = "node" /\ root + 1 \in Logic(net)
  /\ root' = root + 1 /\ pc' = "cut0" /\ p' = 1
  /\ UNCHANGED <<net, limit, q, mCutList, mMark1, mMark2, buFound, buNcAll>>

\* The next cut of the first fanin: mark it.
NextCut0 ==
  /\ pc = "cut0" /\ p <= Len(List(1))
  /\ mMark1' = Marked(mMark1, List(1)[p], net.fanin[root][1])
  /\ pc' = "cut1" /\ q' = 1
  /\ UNCHANGED <<net, limit, root, p, mCutList, mMark2, buFound, buNcAll>>

Cut0 == List(1)[p]
Cut1 == List(2)[q]
Marks2 == Marked(mMark2, Cut1, net.fanin[root][2])
Crossed1 == \E s \in Cut1 : mMark1[s] = 1
Crossed2 == \E s \in Cut0 : Marks2[s] = 1
Fits == Cardinality(Cut0 \cup Cut1) <= limit

\* Mutant: the loop goes on without the next cut when the marks forbid this one.
NextCut1Stay == pc = "cut1" /\ q <= Len(List(2)) /\ q' = (IF Crossed1 THEN q ELSE q + 1)
                /\ UNCHANGED <<net, limit, root, pc, p, mMark1>>

\* The next cut of the second fanin.
NextCut1 == pc = "cut1" /\ q <= Len(List(2)) /\ q' = q + 1
            /\ UNCHANGED <<net, limit, root, pc, p, mMark1>>

\* A cut of the second fanin that has a node inside the cut of the first.
SkipMarked ==
  /\ NextCut1 /\ Crossed1
  /\ mMark2' = Unmarked(mMark2, net.fanin[root][2])
  /\ UNCHANGED <<mCutList, buFound, buNcAll>>

\* The cut of the first fanin has a node inside it, or there is no room.
SkipMerged ==
  /\ NextCut1 /\ ~Crossed1 /\ (Crossed2 \/ ~Fits)
  /\ mMark2' = Unmarked(Marks2, net.fanin[root][2])
  /\ UNCHANGED <<mCutList, buFound, buNcAll>>

\* The two are merged and the result reported.
Merge ==
  /\ NextCut1 /\ ~Crossed1 /\ ~Crossed2 /\ Fits
  /\ mCutList' = [mCutList EXCEPT ![root] = Append(@, Cut0 \cup Cut1)]
  /\ buFound' = [buFound EXCEPT ![root] = @ \cup {Cut0 \cup Cut1}]
  /\ buNcAll' = buNcAll + 1
  /\ mMark2' = Unmarked(Marks2, net.fanin[root][2])

\* The cuts of the second fanin are used up.
EndCut0 ==
  /\ pc = "cut1" /\ q > Len(List(2))
  /\ mMark1' = Unmarked(mMark1, net.fanin[root][1])
  /\ pc' = "cut0" /\ p' = p + 1
  /\ UNCHANGED <<net, limit, root, q, mCutList, mMark2, buFound, buNcAll>>

\* The cuts of the first fanin are used up: the node by itself comes last.
OwnCut ==
  /\ pc = "cut0" /\ p > Len(List(1))
  /\ mCutList' = [mCutList EXCEPT ![root] = Append(@, {root})]
  /\ buFound' = [buFound EXCEPT ![root] = @ \cup {{}}]
  /\ buNcAll' = buNcAll + 1 /\ pc' = "end"
  /\ UNCHANGED <<net, limit, root, p, q, mMark1, mMark2>>

\* op->node_end.
BuEndNode ==
  /\ pc = "end" /\ pc' = "node"
  /\ UNCHANGED <<net, limit, root, p, q, mCutList, mMark1, mMark2, buFound, buNcAll>>

BuNext == \/ BuStartNode \/ NextCut0 \/ SkipMarked \/ SkipMerged \/ Merge
        \/ EndCut0 \/ OwnCut \/ BuEndNode

BuSpec == BuInit /\ [][BuNext]_buVars /\ WF_buVars(BuNext)
------------------------------------------------------------------------------
\* op is told every cut of at most limit inputs of every node, once, and
\* nothing else: in particular no cut of an earlier node left a mark behind.
BuCuts == INSTANCE CutEnum
  WITH found <- buFound, mNcAll <- buNcAll, ends <- Nodes(net), ended <- IF pc = "node" THEN 1 .. root ELSE 1 .. root - 1
BottomUpReports == BuCuts!Spec
=============================================================================
