--------------------------- MODULE CutListProofs ----------------------------
(***************************************************************************)
(* For every network and every limit, the enumerations that keep the cuts  *)
(* of every node.                                                          *)
(*                                                                         *)
(* BottomUp: op is told every cut of every node within the limit once, and *)
(* nothing else. The invariant says that the list of a node that is        *)
(* finished holds all its cuts, that of the node in progress the unions of *)
(* the pairs gone through so far that fit, and that between two cuts no    *)
(* mark is left.                                                           *)
(*                                                                         *)
(* ZDDs: the families ZddImp and ZddImp2 build are the minimal cuts of     *)
(* every node, the sets ZddTopDown leaves are cuts of the node, whatever   *)
(* marks the walks before have left, and they are all of the minimal ones  *)
(* where no two paths meet again. The argument for ZddTopDown: the family  *)
(* a walk expands holds, with a set and any further nodes to stop at, what *)
(* a search from the node meets of both. A minimal set is then all met,    *)
(* which makes it a cut.                                                   *)
(***************************************************************************)
EXTENDS BottomUp, ZddCut, CutNetProofs, FiniteSetTheorems, SequenceTheorems, WellFoundedInduction, TLAPS

------------------------------------------------------------------------------
\* The list has the members of S, each once.
Enumerates(list, S) ==
  /\ list \in Seq(S)
  /\ \A C \in S : \E i \in 1 .. Len(list) : list[i] = C
  /\ \A i, j \in 1 .. Len(list) : list[i] = list[j] => i = j

\* The pair of cuts at i and j comes before the one at k and l.
Before(i, j, k, l) == i < k \/ (i = k /\ j < l)

\* The unions of pairs of cuts found before the pair at k and l.
UnionsBefore(net0, lim, f, g, s, t, k, l) ==
  {C \in SUBSET Nodes(net0) :
     \E i \in 1 .. Len(s), j \in 1 .. Len(t) :
        Before(i, j, k, l) /\ Fitting(net0, lim, f, g, s[i], t[j]) /\ C = s[i] \cup t[j]}

First  == net.fanin[root][1]
Second == net.fanin[root][2]

Position == IF pc = "cut1" THEN q ELSE 1

\* The cuts of n that have been found.
Listed(n) ==
  IF n < root \/ (n = root /\ pc \in {"node", "end"})
  THEN Feasible(net, Nodes(net), limit, n)
  ELSE IF n = root
  THEN UnionsBefore(net, limit, First, Second, mCutList[First], mCutList[Second], p, Position)
  ELSE {}

\* What op is told of a cut.
Told(n, C) == IF C = {n} THEN {} ELSE C
AllTold(n, S) == {Told(n, C) : C \in S}

NoMarks == [n \in Nodes(net) |-> 0]
MarkOf(A, f) ==
  [n \in Nodes(net) |-> IF n \in A THEN 2 ELSE IF n \in Met(net, f, A) THEN 1 ELSE 0]

BuTypes ==
  /\ IsNetwork(net) /\ limit \in Nat \ {0} /\ root \in Nodes(net)
  /\ pc \in {"node", "cut0", "cut1", "end"} /\ (pc # "node" => root \in Logic(net))
  /\ p \in Nat \ {0} /\ q \in Nat \ {0} /\ net.inputs <= root
  /\ mCutList \in [Nodes(net) -> Seq(SUBSET Nodes(net))]
  /\ buFound \in [Nodes(net) -> SUBSET SUBSET Nodes(net)]

Lists == \A n \in Nodes(net) :
  Enumerates(mCutList[n], Listed(n)) /\ buFound[n] = AllTold(n, Listed(n))

MarksLeft ==
  /\ mMark2 = NoMarks
  /\ pc # "cut1" => mMark1 = NoMarks
  /\ pc = "cut1" => p <= Len(mCutList[First]) /\ mMark1 = MarkOf(mCutList[First][p], First)

BInv == BuTypes /\ Lists /\ MarksLeft

------------------------------------------------------------------------------
\* The marks of one cut, from a clean network and back.
LEMMA MarksSet ==
  ASSUME IsNetwork(net), NEW f \in Nodes(net), NEW lim, NEW A \in Feasible(net, Nodes(net), lim, f)
  PROVE  Marked(NoMarks, A, f) = MarkOf(A, f)
<1>1. DOMAIN NoMarks = Nodes(net) /\ Zero(NoMarks) = Nodes(net) /\ \A n \in Nodes(net) : NoMarks[n] = 0
  BY DEF NoMarks, Zero
<1>2. PICK E : E = (DOMAIN NoMarks \ Zero(NoMarks)) \cup A
  OBVIOUS
<1>3. E = A
  BY <1>1, <1>2
<1>4. Marked(NoMarks, A, f)
        = [n \in Nodes(net) |-> IF n \in A THEN 2 ELSE IF n \in Met(net, f, A) \ A THEN 1 ELSE NoMarks[n]]
  BY <1>1, <1>2, <1>3 DEF Marked
<1> QED BY <1>1, <1>4 DEF MarkOf

LEMMA MarksCleared ==
  ASSUME IsNetwork(net), NEW f \in Nodes(net), NEW lim, NEW A \in Feasible(net, Nodes(net), lim, f)
  PROVE  Unmarked(MarkOf(A, f), f) = NoMarks
<1>1. PICK mark : mark = MarkOf(A, f)
  OBVIOUS
<1>2. /\ DOMAIN mark = Nodes(net) /\ A \subseteq Met(net, f, A)
      /\ \A n \in Nodes(net) : mark[n] # 0 => n \in Met(net, f, A)
      /\ \A n \in Met(net, f, A) : n \in Nodes(net) /\ mark[n] # 0
  BY <1>1, FeasibleFacts, MetFacts DEF MarkOf
<1>3. PICK Z : Z = Zero(mark)
  OBVIOUS
<1>4. \A n \in Z : mark[n] = 0
  BY <1>3 DEF Zero
<1>5. Met(net, f, A) \subseteq Met(net, f, Z)
  <2>1. \A m \in (Met(net, f, A) \cap Met(net, f, Z) \cap Logic(net)) \ A : Fanins(net, m) \subseteq Met(net, f, Z)
    BY <1>2, <1>4, MetFacts
  <2> QED BY <2>1, MetLeast, MetFacts
<1>6. \A n \in Nodes(net) : n \notin Met(net, f, Z) => mark[n] = 0
  BY <1>2, <1>5
<1> QED BY <1>1, <1>2, <1>3, <1>6 DEF Unmarked, NoMarks

LEMMA NoMarksCleared ==
  Unmarked(NoMarks, First) = NoMarks /\ Unmarked(NoMarks, Second) = NoMarks
BY DEF Unmarked, NoMarks

\* The checks of the marks are those of Fitting.
LEMMA MarksTell ==
  ASSUME NEW A, NEW f, NEW B, B \subseteq Nodes(net)
  PROVE  (\E s \in B : MarkOf(A, f)[s] = 1) <=> B \cap (Met(net, f, A) \ A) # {}
<1>1. \A s \in B : MarkOf(A, f)[s] = 1 <=> s \in Met(net, f, A) \ A
  BY DEF MarkOf
<1> QED BY <1>1

------------------------------------------------------------------------------
\* An enumeration that goes on.
LEMMA OneMore ==
  ASSUME NEW s, NEW S, Enumerates(s, S), NEW C, C \notin S
  PROVE  Enumerates(Append(s, C), S \cup {C})
<1>1. PICK t, k : t = Append(s, C) /\ k = Len(s)
  OBVIOUS
<1>2. /\ s \in Seq(S) /\ k \in Nat /\ t \in Seq(S \cup {C}) /\ Len(t) = k + 1 /\ t[k + 1] = C
      /\ \A i \in 1 .. k : t[i] = s[i] /\ s[i] \in S
  BY <1>1 DEF Enumerates
<1>3. \A i \in 1 .. k + 1 : i \in 1 .. k \/ i = k + 1
  BY <1>2
<1>4. \A i, j \in 1 .. k + 1 : t[i] = t[j] => i = j
  BY <1>1, <1>2, <1>3 DEF Enumerates
<1>5. \A D \in S \cup {C} : \E i \in 1 .. k + 1 : t[i] = D
  BY <1>1, <1>2 DEF Enumerates
<1> QED BY <1>1, <1>2, <1>4, <1>5 DEF Enumerates

LEMMA NothingYet == Enumerates(<<>>, {})
BY DEF Enumerates

------------------------------------------------------------------------------
(***************************************************************************)
(* The pairs of cuts a node goes through.                                  *)
(***************************************************************************)
Pairs(net0, lim, r, f, g, s, t) ==
  /\ IsNetwork(net0) /\ lim \in Nat \ {0} /\ r \in Logic(net0)
  /\ f = net0.fanin[r][1] /\ g = net0.fanin[r][2]
  /\ Enumerates(s, Feasible(net0, Nodes(net0), lim, f))
  /\ Enumerates(t, Feasible(net0, Nodes(net0), lim, g))

LEMMA PairFacts ==
  ASSUME NEW net0, NEW lim, NEW r, NEW f, NEW g, NEW s, NEW t, Pairs(net0, lim, r, f, g, s, t)
  PROVE  /\ Len(s) \in Nat /\ Len(t) \in Nat
         /\ \A i \in 1 .. Len(s) : s[i] \in Feasible(net0, Nodes(net0), lim, f)
         /\ \A j \in 1 .. Len(t) : t[j] \in Feasible(net0, Nodes(net0), lim, g)
         /\ r \in Nodes(net0) /\ f \in Nodes(net0) /\ g \in Nodes(net0) /\ f < r /\ g < r
<1>1. s \in Seq(Feasible(net0, Nodes(net0), lim, f)) /\ t \in Seq(Feasible(net0, Nodes(net0), lim, g))
  BY DEF Pairs, Enumerates
<1> QED BY <1>1, NetFacts DEF Pairs

LEMMA PairUnion ==
  ASSUME NEW net0, NEW lim, NEW r, NEW f, NEW g, NEW s, NEW t, Pairs(net0, lim, r, f, g, s, t),
         NEW i \in 1 .. Len(s), NEW j \in 1 .. Len(t), Fitting(net0, lim, f, g, s[i], t[j])
  PROVE  /\ s[i] \cup t[j] \in Feasible(net0, Nodes(net0), lim, r) \ {{r}}
         /\ s[i] \cup t[j] \in SUBSET Nodes(net0)
<1>1. PICK A, B, C : A = s[i] /\ B = t[j] /\ C = A \cup B
  OBVIOUS
<1>2. A \in Feasible(net0, Nodes(net0), lim, f) /\ B \in Feasible(net0, Nodes(net0), lim, g)
  BY <1>1, PairFacts
<1>3. Fitting(net0, lim, f, g, A, B)
  BY <1>1
<1>4. IsNetwork(net0) /\ r \in Logic(net0) /\ f = net0.fanin[r][1] /\ g = net0.fanin[r][2]
  BY DEF Pairs
<1>5. CutOf(net0, lim, r, f, g, A, B, A \cup B)
  BY <1>2, <1>3, <1>4, UnionIsCut
<1>6. C \subseteq Nodes(net0)
  BY <1>1, <1>5 DEF CutOf, Feasible
<1> QED BY <1>1, <1>5, <1>6 DEF CutOf

\* Two pairs do not give the same cut.
LEMMA PairsDiffer ==
  ASSUME NEW net0, NEW lim, NEW r, NEW f, NEW g, NEW s, NEW t, Pairs(net0, lim, r, f, g, s, t),
         NEW i \in 1 .. Len(s), NEW j \in 1 .. Len(t), Fitting(net0, lim, f, g, s[i], t[j]),
         NEW k \in 1 .. Len(s), NEW l \in 1 .. Len(t), Fitting(net0, lim, f, g, s[k], t[l]),
         s[i] \cup t[j] = s[k] \cup t[l]
  PROVE  i = k /\ j = l
<1>1. PICK A, B, C : A = s[i] /\ B = t[j] /\ C = A \cup B
  OBVIOUS
<1>2. PICK D, E : D = s[k] /\ E = t[l] /\ C = D \cup E
  BY <1>1
<1>3. /\ A \in Feasible(net0, Nodes(net0), lim, f) /\ B \in Feasible(net0, Nodes(net0), lim, g)
      /\ D \in Feasible(net0, Nodes(net0), lim, f) /\ E \in Feasible(net0, Nodes(net0), lim, g)
  BY <1>1, <1>2, PairFacts
<1>4. Fitting(net0, lim, f, g, A, B) /\ Fitting(net0, lim, f, g, D, E)
  BY <1>1, <1>2
<1>5. IsNetwork(net0) /\ r \in Logic(net0) /\ f = net0.fanin[r][1] /\ g = net0.fanin[r][2]
  BY DEF Pairs
<1>6. CutOf(net0, lim, r, f, g, A, B, A \cup B) /\ CutOf(net0, lim, r, f, g, D, E, D \cup E)
  BY <1>3, <1>4, <1>5, UnionIsCut
<1>7. A = D /\ B = E
  BY <1>1, <1>2, <1>6 DEF CutOf
<1> QED BY <1>1, <1>2, <1>7 DEF Pairs, Enumerates

LEMMA UnionsStart ==
  ASSUME NEW net0, NEW lim, NEW f, NEW g, NEW s, NEW t
  PROVE  UnionsBefore(net0, lim, f, g, s, t, 1, 1) = {}
<1>1. \A i \in 1 .. Len(s), j \in 1 .. Len(t) : ~Before(i, j, 1, 1)
  BY DEF Before
<1> QED BY <1>1 DEF UnionsBefore

LEMMA UnionsRow ==
  ASSUME NEW net0, NEW lim, NEW r, NEW f, NEW g, NEW s, NEW t, Pairs(net0, lim, r, f, g, s, t),
         NEW k \in Nat, NEW l \in Nat, l > Len(t)
  PROVE  UnionsBefore(net0, lim, f, g, s, t, k, l) = UnionsBefore(net0, lim, f, g, s, t, k + 1, 1)
<1>1. \A i \in 1 .. Len(s), j \in 1 .. Len(t) : Before(i, j, k, l) <=> Before(i, j, k + 1, 1)
  BY PairFacts DEF Before
<1> QED BY <1>1 DEF UnionsBefore

LEMMA UnionsSkip ==
  ASSUME NEW net0, NEW lim, NEW r, NEW f, NEW g, NEW s, NEW t, Pairs(net0, lim, r, f, g, s, t),
         NEW k \in 1 .. Len(s), NEW l \in 1 .. Len(t), ~Fitting(net0, lim, f, g, s[k], t[l])
  PROVE  UnionsBefore(net0, lim, f, g, s, t, k, l + 1) = UnionsBefore(net0, lim, f, g, s, t, k, l)
<1>1. \A i \in 1 .. Len(s), j \in 1 .. Len(t) :
        Before(i, j, k, l + 1) <=> Before(i, j, k, l) \/ (i = k /\ j = l)
  BY PairFacts DEF Before
<1> QED BY <1>1 DEF UnionsBefore

\* C is a new cut of r, and the only one the pair at k and l adds.
Adds(net0, lim, r, f, g, s, t, k, l, C) ==
  /\ UnionsBefore(net0, lim, f, g, s, t, k, l + 1) = UnionsBefore(net0, lim, f, g, s, t, k, l) \cup {C}
  /\ C \notin UnionsBefore(net0, lim, f, g, s, t, k, l)
  /\ C \in Feasible(net0, Nodes(net0), lim, r) /\ C # {r} /\ C \in SUBSET Nodes(net0)

LEMMA UnionsMerge ==
  ASSUME NEW net0, NEW lim, NEW r, NEW f, NEW g, NEW s, NEW t, Pairs(net0, lim, r, f, g, s, t),
         NEW k \in 1 .. Len(s), NEW l \in 1 .. Len(t), Fitting(net0, lim, f, g, s[k], t[l])
  PROVE  Adds(net0, lim, r, f, g, s, t, k, l, s[k] \cup t[l])
<1> PICK C : C = s[k] \cup t[l]
  OBVIOUS
<1>1. \A i \in 1 .. Len(s), j \in 1 .. Len(t) :
        Before(i, j, k, l + 1) <=> Before(i, j, k, l) \/ (i = k /\ j = l)
  BY PairFacts DEF Before
<1>2. C \in Feasible(net0, Nodes(net0), lim, r) /\ C # {r} /\ C \in SUBSET Nodes(net0)
  BY PairUnion
<1>3. UnionsBefore(net0, lim, f, g, s, t, k, l + 1) \subseteq UnionsBefore(net0, lim, f, g, s, t, k, l) \cup {C}
  BY <1>1 DEF UnionsBefore
<1>4. UnionsBefore(net0, lim, f, g, s, t, k, l) \cup {C} \subseteq UnionsBefore(net0, lim, f, g, s, t, k, l + 1)
  BY <1>1, <1>2 DEF UnionsBefore
<1>5. C \notin UnionsBefore(net0, lim, f, g, s, t, k, l)
  <2>1. SUFFICES ASSUME C \in UnionsBefore(net0, lim, f, g, s, t, k, l) PROVE FALSE
    OBVIOUS
  <2>2. PICK i \in 1 .. Len(s), j \in 1 .. Len(t) :
          Before(i, j, k, l) /\ Fitting(net0, lim, f, g, s[i], t[j]) /\ C = s[i] \cup t[j]
    BY <2>1 DEF UnionsBefore
  <2>3. i = k /\ j = l
    BY <2>2, PairsDiffer
  <2> QED BY <2>2, <2>3 DEF Before
<1> QED BY <1>2, <1>3, <1>4, <1>5 DEF Adds

LEMMA UnionsAll ==
  ASSUME NEW net0, NEW lim, NEW r, NEW f, NEW g, NEW s, NEW t, Pairs(net0, lim, r, f, g, s, t),
         NEW k \in Nat, k > Len(s)
  PROVE  UnionsBefore(net0, lim, f, g, s, t, k, 1) = Feasible(net0, Nodes(net0), lim, r) \ {{r}}
<1>1. \A i \in 1 .. Len(s), j \in 1 .. Len(t) : Before(i, j, k, 1)
  BY PairFacts DEF Before
<1>2. ASSUME NEW C \in UnionsBefore(net0, lim, f, g, s, t, k, 1)
      PROVE  C \in Feasible(net0, Nodes(net0), lim, r) \ {{r}}
  <2>1. PICK i \in 1 .. Len(s), j \in 1 .. Len(t) :
          Fitting(net0, lim, f, g, s[i], t[j]) /\ C = s[i] \cup t[j]
    BY DEF UnionsBefore
  <2> QED BY <2>1, PairUnion
<1>3. ASSUME NEW C \in Feasible(net0, Nodes(net0), lim, r), C # {r}
      PROVE  C \in UnionsBefore(net0, lim, f, g, s, t, k, 1)
  <2>1. PICK A \in Feasible(net0, Nodes(net0), lim, f), B \in Feasible(net0, Nodes(net0), lim, g) :
          Fitting(net0, lim, f, g, A, B) /\ C = A \cup B
    BY <1>3, CutIsUnion DEF Pairs
  <2>2. PICK i \in 1 .. Len(s) : s[i] = A
    BY DEF Pairs, Enumerates
  <2>3. PICK j \in 1 .. Len(t) : t[j] = B
    BY DEF Pairs, Enumerates
  <2>4. C \in SUBSET Nodes(net0)
    BY DEF Feasible
  <2> QED BY <1>1, <2>1, <2>2, <2>3, <2>4 DEF UnionsBefore
<1> QED BY <1>2, <1>3

------------------------------------------------------------------------------
(***************************************************************************)
(* The invariant.                                                          *)
(***************************************************************************)
LEMMA InitInv == ASSUME BuInit PROVE BInv
<1>1. IsNetwork(net) /\ limit \in Nat \ {0} /\ net.inputs \in Nat \ {0} /\ pc = "node" /\ root = net.inputs
  BY NetworksAssumption DEF BuInit, IsNetwork
<1>2. /\ Inputs(net) = 1 .. net.inputs /\ Inputs(net) \subseteq Nodes(net) /\ Nodes(net) \subseteq Nat \ {0}
      /\ \A n \in Nodes(net) : n \in Inputs(net) <=> n <= root
  BY <1>1, NetFacts DEF Inputs
<1>3. /\ mCutList = [n \in Nodes(net) |-> IF n \in Inputs(net) THEN <<{n}>> ELSE <<>>]
      /\ buFound = [n \in Nodes(net) |-> IF n \in Inputs(net) THEN {{}} ELSE {}]
  BY DEF BuInit
<1>4. BuTypes
  <2>1. root \in Nodes(net)
    BY <1>1, <1>2
  <2>2. \A n \in Nodes(net) : {n} \in SUBSET Nodes(net) /\ <<{n}>> \in Seq(SUBSET Nodes(net))
    OBVIOUS
  <2>3. mCutList \in [Nodes(net) -> Seq(SUBSET Nodes(net))]
    <3>1. <<>> \in Seq(SUBSET Nodes(net))
      OBVIOUS
    <3> QED BY <1>3, <2>2, <3>1
  <2>4. buFound \in [Nodes(net) -> SUBSET SUBSET Nodes(net)]
    BY <1>3
  <2> QED BY <1>1, <2>1, <2>3, <2>4 DEF BuTypes, BuInit
<1>5. ASSUME NEW n \in Nodes(net)
      PROVE  Enumerates(mCutList[n], Listed(n)) /\ buFound[n] = AllTold(n, Listed(n))
  <2>1. CASE n \in Inputs(net)
    <3>1. PICK S : S = Feasible(net, Nodes(net), limit, n)
      OBVIOUS
    <3>2. {n} \in S
      BY <1>1, <3>1, NodeItself
    <3>3. ASSUME NEW C \in S PROVE C = {n}
      <4>1. C \subseteq {n} /\ C # {}
        BY <1>1, <2>1, <3>1, FeasibleFacts, InputMet, NoEmptyCut
      <4> QED BY <4>1
    <3>4. S = {{n}}
      BY <3>2, <3>3
    <3>5. Listed(n) = {{n}}
      BY <1>1, <1>2, <2>1, <3>1, <3>4 DEF Listed
    <3>6. mCutList[n] = <<{n}>> /\ buFound[n] = {{}}
      BY <1>3, <2>1
    <3>7. Enumerates(<<{n}>>, {{n}}) /\ AllTold(n, {{n}}) = {{}}
      BY DEF Enumerates, AllTold, Told
    <3> QED BY <3>5, <3>6, <3>7
  <2>2. CASE n \notin Inputs(net)
    <3>1. Listed(n) = {}
      BY <1>1, <1>2, <2>2 DEF Listed
    <3>2. mCutList[n] = <<>> /\ buFound[n] = {} /\ AllTold(n, {}) = {}
      BY <1>3, <2>2 DEF AllTold
    <3> QED BY <3>1, <3>2, NothingYet
  <2> QED BY <2>1, <2>2
<1>6. MarksLeft
  BY <1>1 DEF MarksLeft, NoMarks, BuInit
<1> QED BY <1>4, <1>5, <1>6 DEF BInv, Lists

LEMMA Loop ==
  ASSUME BInv, pc # "node"
  PROVE  /\ Pairs(net, limit, root, First, Second, mCutList[First], mCutList[Second])
         /\ root \in Logic(net) /\ root \in Nat \ {0}
         /\ First \in Nodes(net) /\ Second \in Nodes(net) /\ First < root /\ Second < root
         /\ First \in Nat /\ Second \in Nat
         /\ \A n \in Nodes(net) : n \in Nat
<1>1. BuTypes /\ Lists /\ root \in Logic(net) /\ IsNetwork(net) /\ limit \in Nat \ {0}
  BY DEF BInv, BuTypes
<1>2. /\ First \in Nodes(net) /\ Second \in Nodes(net) /\ First < root /\ Second < root
      /\ root \in Nat \ {0} /\ \A n \in Nodes(net) : n \in Nat
  BY <1>1, NetFacts DEF First, Second
<1>3. /\ Listed(First) = Feasible(net, Nodes(net), limit, First)
      /\ Listed(Second) = Feasible(net, Nodes(net), limit, Second)
  BY <1>2 DEF Listed
<1>4. Pairs(net, limit, root, First, Second, mCutList[First], mCutList[Second])
  BY <1>1, <1>2, <1>3 DEF Pairs, Lists, First, Second
<1> QED BY <1>1, <1>2, <1>4

\* The cuts of the two lists the loops look at, and their marks.
LEMMA AtPair ==
  ASSUME BInv, pc = "cut1", q <= Len(List(2))
  PROVE  /\ p \in 1 .. Len(mCutList[First]) /\ q \in 1 .. Len(mCutList[Second])
         /\ Cut0 = mCutList[First][p] /\ Cut1 = mCutList[Second][q]
         /\ Cut0 \in Feasible(net, Nodes(net), limit, First)
         /\ Cut1 \in Feasible(net, Nodes(net), limit, Second)
         /\ mMark1 = MarkOf(Cut0, First) /\ Marks2 = MarkOf(Cut1, Second)
         /\ (~Crossed1 /\ ~Crossed2 /\ Fits) <=> Fitting(net, limit, First, Second, Cut0, Cut1)
<1>1. List(1) = mCutList[First] /\ List(2) = mCutList[Second]
  BY DEF List, First, Second
<1>2. BuTypes /\ MarksLeft /\ p <= Len(mCutList[First]) /\ mMark1 = MarkOf(mCutList[First][p], First)
  BY DEF BInv, MarksLeft
<1>3. Cut0 = mCutList[First][p] /\ Cut1 = mCutList[Second][q]
  BY <1>1 DEF Cut0, Cut1
<1>4. p \in 1 .. Len(mCutList[First]) /\ q \in 1 .. Len(mCutList[Second])
  <2>1. Len(mCutList[First]) \in Nat /\ Len(mCutList[Second]) \in Nat
    BY Loop, PairFacts
  <2> QED BY <1>1, <1>2, <2>1 DEF BuTypes
<1>5. /\ Cut0 \in Feasible(net, Nodes(net), limit, First) /\ Cut1 \in Feasible(net, Nodes(net), limit, Second)
      /\ First \in Nodes(net) /\ Second \in Nodes(net) /\ IsNetwork(net)
  BY <1>2, <1>3, <1>4, Loop, PairFacts DEF BuTypes
<1>6. Marks2 = MarkOf(Cut1, Second)
  <2>1. mMark2 = NoMarks /\ Marks2 = Marked(mMark2, Cut1, Second)
    BY <1>2 DEF Marks2, MarksLeft, Second
  <2>2. PICK A, f : A = Cut1 /\ f = Second
    OBVIOUS
  <2>3. Marked(NoMarks, A, f) = MarkOf(A, f)
    BY <1>5, <2>2, MarksSet
  <2> QED BY <2>1, <2>2, <2>3
<1>7. PICK A, B, f, g : A = Cut0 /\ B = Cut1 /\ f = First /\ g = Second
  OBVIOUS
<1>8. A \subseteq Nodes(net) /\ B \subseteq Nodes(net)
  BY <1>5, <1>7 DEF Feasible
<1>9. /\ Crossed1 <=> B \cap (Met(net, f, A) \ A) # {}
      /\ Crossed2 <=> A \cap (Met(net, g, B) \ B) # {}
  <2>1. Crossed1 <=> \E s \in B : MarkOf(A, f)[s] = 1
    BY <1>2, <1>3, <1>7 DEF Crossed1
  <2>2. Crossed2 <=> \E s \in A : MarkOf(B, g)[s] = 1
    BY <1>6, <1>7 DEF Crossed2
  <2> QED BY <1>8, <2>1, <2>2, MarksTell
<1>10. (~Crossed1 /\ ~Crossed2 /\ Fits) <=> Fitting(net, limit, First, Second, Cut0, Cut1)
  BY <1>7, <1>9 DEF Fits, Fitting
<1> QED BY <1>2, <1>3, <1>4, <1>5, <1>6, <1>10

Others == UNCHANGED <<net, limit>> /\ \A n \in Nodes(net) \ {root} : Listed(n)' = Listed(n)

LEMMA OthersListed ==
  ASSUME BInv, pc # "node", pc' # "node", UNCHANGED <<net, limit, root>>
  PROVE  Others
<1>1. ASSUME NEW n \in Nodes(net) \ {root}
      PROVE  Listed(n)' = Listed(n)
  BY <1>1 DEF Listed
<1> QED BY <1>1 DEF Others

\* A step that finds no cut.
LEMMA ListsKept ==
  ASSUME BInv, Others, UNCHANGED <<root, mCutList, buFound>>, Listed(root)' = Listed(root)
  PROVE  Lists'
<1>1. Nodes(net)' = Nodes(net) /\ \A n \in Nodes(net) : Listed(n)' = Listed(n)
  BY DEF Others
<1> QED BY <1>1 DEF BInv, Lists

\* A step that finds C.
LEMMA ListGrows ==
  ASSUME BInv, Others, root' = root, NEW C, C \in SUBSET Nodes(net), C \notin Listed(root),
         mCutList' = [mCutList EXCEPT ![root] = Append(@, C)],
         buFound' = [buFound EXCEPT ![root] = @ \cup {Told(root, C)}],
         Listed(root)' = Listed(root) \cup {C}
  PROVE  /\ Lists'
         /\ mCutList' \in [Nodes(net) -> Seq(SUBSET Nodes(net))]
         /\ buFound' \in [Nodes(net) -> SUBSET SUBSET Nodes(net)]
<1>1. BuTypes /\ Lists /\ Nodes(net)' = Nodes(net) /\ root \in Nodes(net)
  BY DEF BInv, Others, BuTypes
<1>2. Told(root, C) \in SUBSET Nodes(net)
  BY DEF Told
<1>3. /\ mCutList' \in [Nodes(net) -> Seq(SUBSET Nodes(net))]
      /\ buFound' \in [Nodes(net) -> SUBSET SUBSET Nodes(net)]
      /\ mCutList'[root] = Append(mCutList[root], C)
      /\ buFound'[root] = buFound[root] \cup {Told(root, C)}
      /\ \A n \in Nodes(net) \ {root} : mCutList'[n] = mCutList[n] /\ buFound'[n] = buFound[n]
  BY <1>1, <1>2 DEF BuTypes
<1>4. Enumerates(mCutList'[root], Listed(root)')
  <2>1. PICK s, S : s = mCutList[root] /\ S = Listed(root)
    OBVIOUS
  <2>2. Enumerates(s, S)
    BY <1>1, <2>1 DEF Lists
  <2>3. Enumerates(Append(s, C), S \cup {C})
    BY <2>1, <2>2, OneMore
  <2> QED BY <1>3, <2>1, <2>3
<1>5. buFound'[root] = AllTold(root, Listed(root)')
  <2>1. buFound[root] = AllTold(root, Listed(root))
    BY <1>1 DEF Lists
  <2> QED BY <1>3, <2>1 DEF AllTold
<1>6. ASSUME NEW n \in Nodes(net) \ {root}
      PROVE  Enumerates(mCutList'[n], Listed(n)') /\ buFound'[n] = AllTold(n, Listed(n)')
  BY <1>1, <1>3, <1>6 DEF Lists, Others
<1>7. \A n \in Nodes(net) : (Enumerates(mCutList[n], Listed(n)) /\ buFound[n] = AllTold(n, Listed(n)))'
  BY <1>4, <1>5, <1>6 DEF AllTold, Told
<1> QED BY <1>1, <1>3, <1>7 DEF Lists

\* The marks of the pair are gone when the loop goes on.
LEMMA PairCleared ==
  ASSUME BInv, pc = "cut1", q <= Len(List(2))
  PROVE  Unmarked(Marks2, Second) = NoMarks
<1>1. IsNetwork(net) /\ Second \in Nodes(net)
  BY Loop DEF BInv, BuTypes
<1>2. PICK A, f : A = Cut1 /\ f = Second
  OBVIOUS
<1>3. A \in Feasible(net, Nodes(net), limit, f) /\ Marks2 = MarkOf(A, f)
  BY <1>2, AtPair
<1> QED BY <1>1, <1>2, <1>3, MarksCleared

LEMMA StartNodeKeeps == ASSUME BInv, BuStartNode PROVE BInv'
<1>1. /\ BuTypes /\ IsNetwork(net) /\ pc = "node" /\ root + 1 \in Logic(net)
      /\ root' = root + 1 /\ pc' = "cut0" /\ p' = 1
      /\ UNCHANGED <<net, limit, q, mCutList, mMark1, mMark2, buFound>>
  BY DEF BuStartNode, BInv, BuTypes
<1>2. root \in Nat /\ root + 1 \in Nodes(net) /\ Nodes(net) \subseteq Nat /\ net.inputs \in Nat
  BY <1>1, NetFacts DEF BuTypes, IsNetwork
<1>3. BuTypes'
  BY <1>1, <1>2 DEF BuTypes
<1>4. ASSUME NEW n \in Nodes(net) PROVE Listed(n)' = Listed(n)
  <2>1. PICK r : r = root + 1
    OBVIOUS
  <2>2. Listed(r)' = {}
    <3>1. Listed(r)' = UnionsBefore(net, limit, First', Second', mCutList[First'], mCutList[Second'], 1, 1)
      BY <1>1, <1>2, <2>1 DEF Listed, Position
    <3> QED BY <3>1, UnionsStart
  <2>3. Listed(r) = {}
    BY <1>1, <1>2, <2>1 DEF Listed
  <2>4. n \in Nat /\ r \in Nat
    BY <1>2, <2>1
  <2>5. CASE n < r
    <3>1. n < root \/ n = root
      BY <1>2, <2>1, <2>4, <2>5
    <3>2. n < root'
      BY <1>1, <2>1, <2>5
    <3> QED BY <1>1, <3>1, <3>2 DEF Listed
  <2>6. CASE n = r
    BY <2>2, <2>3, <2>6
  <2>7. CASE n > r
    BY <1>1, <1>2, <2>1, <2>4, <2>7 DEF Listed
  <2> QED BY <2>4, <2>5, <2>6, <2>7
<1>5. Lists'
  <2>1. Nodes(net)' = Nodes(net)
    BY <1>1
  <2>2. \A n \in Nodes(net) : (Enumerates(mCutList[n], Listed(n)) /\ buFound[n] = AllTold(n, Listed(n)))'
    BY <1>1, <1>4 DEF BInv, Lists, AllTold, Told
  <2> QED BY <2>1, <2>2 DEF Lists
<1>6. MarksLeft'
  BY <1>1 DEF BInv, MarksLeft, NoMarks
<1> QED BY <1>3, <1>5, <1>6 DEF BInv

LEMMA NextCut0Keeps == ASSUME BInv, NextCut0 PROVE BInv'
<1>1. /\ BuTypes /\ IsNetwork(net) /\ pc = "cut0" /\ pc' = "cut1" /\ q' = 1
      /\ p <= Len(mCutList[First]) /\ p \in Nat \ {0}
      /\ mMark1' = Marked(mMark1, mCutList[First][p], First)
      /\ UNCHANGED <<net, limit, root, p, mCutList, mMark2, buFound>>
  BY DEF NextCut0, BInv, BuTypes, List, First
<1>2. First' = First /\ Second' = Second
  BY <1>1 DEF First, Second
<1>3. BuTypes'
  BY <1>1 DEF BuTypes
<1>4. Lists'
  <2>1. Listed(root)' = Listed(root)
    BY <1>1, <1>2, Loop DEF Listed, Position
  <2> QED BY <1>1, <2>1, OthersListed, ListsKept
<1>5. MarksLeft'
  <2>1. PICK A, f : A = mCutList[First][p] /\ f = First
    OBVIOUS
  <2>2. p \in 1 .. Len(mCutList[First]) /\ f \in Nodes(net)
    BY <1>1, <2>1, Loop, PairFacts
  <2>3. A \in Feasible(net, Nodes(net), limit, f)
    BY <1>1, <2>1, <2>2, Loop, PairFacts
  <2>4. Marked(NoMarks, A, f) = MarkOf(A, f)
    BY <1>1, <2>2, <2>3, MarksSet
  <2>5. mMark1 = NoMarks /\ mMark2 = NoMarks
    BY <1>1 DEF BInv, MarksLeft
  <2>6. mMark1' = MarkOf(A, f)
    BY <1>1, <2>1, <2>4, <2>5
  <2>7. mMark1' = MarkOf(mCutList[First][p], First)' /\ NoMarks' = NoMarks
    BY <1>1, <1>2, <2>1, <2>6 DEF MarkOf, NoMarks
  <2> QED BY <1>1, <1>2, <2>5, <2>7 DEF MarksLeft
<1> QED BY <1>3, <1>4, <1>5 DEF BInv

LEMMA SkipKeeps == ASSUME BInv, SkipMarked \/ SkipMerged PROVE BInv'
<1>1. /\ BuTypes /\ IsNetwork(net) /\ pc = "cut1" /\ q <= Len(List(2)) /\ q' = q + 1
      /\ Crossed1 \/ Crossed2 \/ ~Fits
      /\ UNCHANGED <<net, limit, root, pc, p, mMark1, mCutList, buFound>>
  BY DEF SkipMarked, SkipMerged, NextCut1, BInv, BuTypes
<1>2. First' = First /\ Second' = Second
  BY <1>1 DEF First, Second
<1>3. BuTypes'
  BY <1>1 DEF BuTypes
<1>4. Lists'
  <2>1. PICK s, t, f, g : s = mCutList[First] /\ t = mCutList[Second] /\ f = First /\ g = Second
    OBVIOUS
  <2>2. /\ Pairs(net, limit, root, f, g, s, t) /\ p \in 1 .. Len(s) /\ q \in 1 .. Len(t)
        /\ ~Fitting(net, limit, f, g, s[p], t[q])
    BY <1>1, <2>1, AtPair, Loop
  <2>3. UnionsBefore(net, limit, f, g, s, t, p, q + 1) = UnionsBefore(net, limit, f, g, s, t, p, q)
    BY <2>2, UnionsSkip
  <2>4. Listed(root) = UnionsBefore(net, limit, f, g, s, t, p, q)
    BY <1>1, <2>1, Loop DEF Listed, Position
  <2>5. Listed(root)' = UnionsBefore(net, limit, f, g, s, t, p, q + 1)
    BY <1>1, <1>2, <2>1, Loop DEF Listed, Position
  <2> QED BY <1>1, <2>3, <2>4, <2>5, OthersListed, ListsKept
<1>5. mMark2' = NoMarks
  <2>1. mMark2 = NoMarks
    BY DEF BInv, MarksLeft
  <2>2. CASE SkipMarked
    BY <2>1, <2>2, NoMarksCleared DEF SkipMarked, Second
  <2>3. CASE SkipMerged
    BY <1>1, <2>3, PairCleared DEF SkipMerged, Second
  <2> QED BY <2>2, <2>3
<1>6. MarksLeft'
  BY <1>1, <1>2, <1>5 DEF BInv, MarksLeft, NoMarks, MarkOf
<1> QED BY <1>3, <1>4, <1>6 DEF BInv

LEMMA MergeKeeps ==
  ASSUME BInv, Merge
  PROVE  /\ BInv'
         /\ LET C == Cut0 \cup Cut1
            IN  /\ C \notin buFound[root] /\ IsReport(net, Nodes(net), limit, root, C) /\ C \in SUBSET (1 .. root)
                /\ buFound' = [buFound EXCEPT ![root] = @ \cup {C}]
<1>1. /\ BuTypes /\ IsNetwork(net) /\ pc = "cut1" /\ q <= Len(List(2)) /\ q' = q + 1
      /\ ~Crossed1 /\ ~Crossed2 /\ Fits
      /\ UNCHANGED <<net, limit, root, pc, p, mMark1>>
      /\ mMark2' = Unmarked(Marks2, Second)
      /\ mCutList' = [mCutList EXCEPT ![root] = Append(@, Cut0 \cup Cut1)]
      /\ buFound' = [buFound EXCEPT ![root] = @ \cup {Cut0 \cup Cut1}]
  BY DEF Merge, NextCut1, BInv, BuTypes, Second
<1>2. First' = First /\ Second' = Second
  BY <1>1 DEF First, Second
<1>3. PICK s, t, f, g, C :
        s = mCutList[First] /\ t = mCutList[Second] /\ f = First /\ g = Second /\ C = Cut0 \cup Cut1
  OBVIOUS
<1>4. /\ Pairs(net, limit, root, f, g, s, t) /\ p \in 1 .. Len(s) /\ q \in 1 .. Len(t)
      /\ Fitting(net, limit, f, g, s[p], t[q]) /\ C = s[p] \cup t[q]
  BY <1>1, <1>3, AtPair, Loop
<1>5. /\ UnionsBefore(net, limit, f, g, s, t, p, q + 1) = UnionsBefore(net, limit, f, g, s, t, p, q) \cup {C}
      /\ C \notin UnionsBefore(net, limit, f, g, s, t, p, q)
      /\ C \in Feasible(net, Nodes(net), limit, root) /\ C # {root} /\ C \in SUBSET Nodes(net)
  <2>1. Adds(net, limit, root, f, g, s, t, p, q, s[p] \cup t[q])
    BY <1>4, UnionsMerge
  <2> QED BY <1>4, <2>1 DEF Adds
<1>6. Listed(root) = UnionsBefore(net, limit, f, g, s, t, p, q)
  BY <1>1, <1>3, Loop DEF Listed, Position
<1>7. mCutList'[First] = mCutList[First] /\ mCutList'[Second] = mCutList[Second]
  BY <1>1, Loop DEF BuTypes
<1>8. Listed(root)' = UnionsBefore(net, limit, f, g, s, t, p, q + 1)
  BY <1>1, <1>2, <1>3, <1>7, Loop DEF Listed, Position
<1>9. Told(root, C) = C
  BY <1>5 DEF Told
<1>10. /\ Lists' /\ mCutList' \in [Nodes(net) -> Seq(SUBSET Nodes(net))]
       /\ buFound' \in [Nodes(net) -> SUBSET SUBSET Nodes(net)]
  <2>1. C \notin Listed(root) /\ Listed(root)' = Listed(root) \cup {C}
    BY <1>5, <1>6, <1>8
  <2>2. /\ mCutList' = [mCutList EXCEPT ![root] = Append(@, C)]
        /\ buFound' = [buFound EXCEPT ![root] = @ \cup {Told(root, C)}]
    BY <1>1, <1>3, <1>9
  <2> QED BY <1>1, <1>5, <2>1, <2>2, OthersListed, ListGrows
<1>11. BuTypes'
  BY <1>1, <1>10 DEF BuTypes
<1>12. mMark2' = NoMarks
  BY <1>1, PairCleared
<1>13. MarksLeft'
  BY <1>1, <1>2, <1>7, <1>12 DEF BInv, MarksLeft, NoMarks, MarkOf
<1>14. C \notin buFound[root]
  <2>1. buFound[root] = AllTold(root, Listed(root))
    BY <1>1 DEF BInv, Lists, BuTypes
  <2>2. C # {}
    BY <1>1, <1>5, NoEmptyCut DEF BuTypes
  <2> QED BY <1>5, <1>6, <2>1, <2>2 DEF AllTold, Told
<1>15. IsReport(net, Nodes(net), limit, root, C) /\ C \in SUBSET (1 .. root)
  BY <1>1, <1>5, Loop DEF IsReport, Feasible
<1> QED BY <1>1, <1>3, <1>10, <1>11, <1>13, <1>14, <1>15 DEF BInv

LEMMA EndCut0Keeps == ASSUME BInv, EndCut0 PROVE BInv'
<1>1. /\ BuTypes /\ IsNetwork(net) /\ pc = "cut1" /\ pc' = "cut0" /\ p' = p + 1 /\ p \in Nat \ {0} /\ q \in Nat
      /\ q > Len(mCutList[Second])
      /\ mMark1' = Unmarked(mMark1, First)
      /\ UNCHANGED <<net, limit, root, q, mCutList, mMark2, buFound>>
  BY DEF EndCut0, BInv, BuTypes, List, First, Second
<1>2. First' = First /\ Second' = Second
  BY <1>1 DEF First, Second
<1>3. BuTypes'
  BY <1>1 DEF BuTypes
<1>4. Lists'
  <2>1. PICK s, t, f, g : s = mCutList[First] /\ t = mCutList[Second] /\ f = First /\ g = Second
    OBVIOUS
  <2>2. Pairs(net, limit, root, f, g, s, t) /\ q > Len(t)
    BY <1>1, <2>1, Loop
  <2>3. UnionsBefore(net, limit, f, g, s, t, p, q) = UnionsBefore(net, limit, f, g, s, t, p + 1, 1)
    BY <1>1, <2>2, UnionsRow
  <2>4. Listed(root) = UnionsBefore(net, limit, f, g, s, t, p, q)
    BY <1>1, <2>1, Loop DEF Listed, Position
  <2>5. Listed(root)' = UnionsBefore(net, limit, f, g, s, t, p + 1, 1)
    BY <1>1, <1>2, <2>1, Loop DEF Listed, Position
  <2> QED BY <1>1, <2>3, <2>4, <2>5, OthersListed, ListsKept
<1>5. mMark1' = NoMarks
  <2>1. PICK A, f : A = mCutList[First][p] /\ f = First
    OBVIOUS
  <2>2. p \in 1 .. Len(mCutList[First]) /\ f \in Nodes(net) /\ mMark1 = MarkOf(A, f)
    BY <1>1, <2>1, Loop, PairFacts DEF BInv, MarksLeft
  <2>3. A \in Feasible(net, Nodes(net), limit, f)
    BY <1>1, <2>1, <2>2, Loop, PairFacts
  <2>4. Unmarked(MarkOf(A, f), f) = NoMarks
    BY <1>1, <2>2, <2>3, MarksCleared
  <2> QED BY <1>1, <2>1, <2>2, <2>4
<1>6. MarksLeft'
  BY <1>1, <1>2, <1>5 DEF BInv, MarksLeft, NoMarks
<1> QED BY <1>3, <1>4, <1>6 DEF BInv

LEMMA OwnCutKeeps ==
  ASSUME BInv, OwnCut
  PROVE  BInv' /\ {} \notin buFound[root] /\ buFound' = [buFound EXCEPT ![root] = @ \cup {{}}]
<1>1. /\ BuTypes /\ IsNetwork(net) /\ limit \in Nat \ {0} /\ pc = "cut0" /\ pc' = "end"
      /\ p > Len(mCutList[First]) /\ p \in Nat
      /\ mCutList' = [mCutList EXCEPT ![root] = Append(@, {root})]
      /\ buFound' = [buFound EXCEPT ![root] = @ \cup {{}}]
      /\ UNCHANGED <<net, limit, root, p, q, mMark1, mMark2>>
  BY DEF OwnCut, BInv, BuTypes, List, First
<1>2. PICK s, t, f, g, S :
        /\ s = mCutList[First] /\ t = mCutList[Second] /\ f = First /\ g = Second
        /\ S = Feasible(net, Nodes(net), limit, root)
  OBVIOUS
<1>3. /\ Pairs(net, limit, root, f, g, s, t) /\ p > Len(s) /\ root \in Nodes(net)
  BY <1>1, <1>2, Loop DEF BuTypes
<1>4. UnionsBefore(net, limit, f, g, s, t, p, 1) = S \ {{root}}
  BY <1>1, <1>2, <1>3, UnionsAll
<1>5. Listed(root) = S \ {{root}}
  BY <1>1, <1>2, <1>4, Loop DEF Listed, Position
<1>6. {root} \in S /\ Listed(root)' = S
  <2>1. {root} \in S
    BY <1>1, <1>2, <1>3, NodeItself
  <2>2. Listed(root)' = S
    BY <1>1, <1>2, Loop DEF Listed
  <2> QED BY <2>1, <2>2
<1>7. /\ Lists' /\ mCutList' \in [Nodes(net) -> Seq(SUBSET Nodes(net))]
      /\ buFound' \in [Nodes(net) -> SUBSET SUBSET Nodes(net)]
  <2>1. PICK C : C = {root}
    OBVIOUS
  <2>2. C \notin Listed(root) /\ Listed(root)' = Listed(root) \cup {C} /\ C \in SUBSET Nodes(net)
    BY <1>3, <1>5, <1>6, <2>1
  <2>3. Told(root, C) = {}
    BY <2>1 DEF Told
  <2>4. /\ mCutList' = [mCutList EXCEPT ![root] = Append(@, C)]
        /\ buFound' = [buFound EXCEPT ![root] = @ \cup {Told(root, C)}]
    BY <1>1, <2>1, <2>3
  <2> QED BY <1>1, <2>2, <2>4, OthersListed, ListGrows
<1>8. BuTypes'
  BY <1>1, <1>7 DEF BuTypes
<1>9. MarksLeft'
  BY <1>1 DEF BInv, MarksLeft, NoMarks
<1>10. {} \notin buFound[root]
  <2>1. buFound[root] = AllTold(root, Listed(root))
    BY <1>3 DEF BInv, Lists
  <2>2. \A C \in Listed(root) : C # {} /\ C # {root}
    BY <1>1, <1>2, <1>3, <1>5, NoEmptyCut
  <2> QED BY <2>1, <2>2 DEF AllTold, Told
<1> QED BY <1>1, <1>7, <1>8, <1>9, <1>10 DEF BInv

LEMMA EndNodeKeeps == ASSUME BInv, BuEndNode PROVE BInv'
<1>1. /\ BuTypes /\ IsNetwork(net) /\ pc = "end" /\ pc' = "node"
      /\ UNCHANGED <<net, limit, root, p, q, mCutList, mMark1, mMark2, buFound>>
  BY DEF BuEndNode, BInv, BuTypes
<1>2. BuTypes'
  BY <1>1 DEF BuTypes
<1>3. Lists'
  <2>1. \A n \in Nodes(net) : Listed(n)' = Listed(n)
    BY <1>1 DEF Listed
  <2> QED BY <1>1, <2>1, ListsKept DEF Others, BuTypes
<1>4. MarksLeft'
  BY <1>1 DEF BInv, MarksLeft, NoMarks
<1> QED BY <1>2, <1>3, <1>4 DEF BInv

LEMMA StutterKeeps == ASSUME BInv, UNCHANGED buVars PROVE BInv'
<1>1. UNCHANGED <<net, limit, root, pc, p, q, mCutList, mMark1, mMark2, buFound>>
  BY DEF buVars
<1>2. \A n \in Nodes(net) : Listed(n)' = Listed(n)
  BY <1>1 DEF Listed, Position, First, Second
<1>3. Lists'
  BY <1>1, <1>2, ListsKept DEF Others, BInv, BuTypes
<1>4. BuTypes' /\ MarksLeft'
  BY <1>1 DEF BInv, BuTypes, MarksLeft, NoMarks, MarkOf, First
<1> QED BY <1>3, <1>4 DEF BInv

\* Whatever the network and the limit: between two cuts no mark is left, and the
\* list of a node that is finished is the list of its cuts.
THEOREM CutLists == BuSpec => []BInv
<1>1. BuInit => BInv
  BY InitInv
<1>2. BInv /\ [BuNext]_buVars => BInv'
  BY StartNodeKeeps, NextCut0Keeps, SkipKeeps, MergeKeeps, EndCut0Keeps, OwnCutKeeps, EndNodeKeeps,
     StutterKeeps DEF BuNext
<1> QED BY <1>1, <1>2, PTL DEF BuSpec

------------------------------------------------------------------------------
(***************************************************************************)
(* What op is told: the enumeration implements CutEnum.                    *)
(***************************************************************************)
Ended == IF pc = "node" THEN 1 .. root ELSE 1 .. root - 1

\* The operators CutEnum takes from CutNet are those of this module.
LEMMA SameCuts ==
  /\ \A n : BuCuts!Inputs(n) = Inputs(n) /\ BuCuts!Logic(n) = Logic(n) /\ BuCuts!Nodes(n) = Nodes(n)
  /\ \A n, m : BuCuts!Fanins(n, m) = Fanins(n, m)
  /\ \A n, s, k, r, C : BuCuts!IsReport(n, s, k, r, C) <=> IsReport(n, s, k, r, C)
  /\ \A n, s, k, r : BuCuts!Reports(n, s, k, r) = Reports(n, s, k, r)
<1>1. /\ \A n : BuCuts!Inputs(n) = Inputs(n) /\ BuCuts!Logic(n) = Logic(n) /\ BuCuts!Nodes(n) = Nodes(n)
      /\ \A n, m : BuCuts!Fanins(n, m) = Fanins(n, m)
  BY DEF BuCuts!Inputs, BuCuts!Logic, BuCuts!Nodes, BuCuts!Fanins, Inputs, Logic, Nodes, Fanins
<1>2. \A n, r, C : BuCuts!Met(n, r, C) = Met(n, r, C)
  BY DEF BuCuts!Met, Met, BuCuts!Logic, BuCuts!Nodes, BuCuts!Inputs, BuCuts!Fanins, Inputs, Logic, Nodes, Fanins
<1>3. \A n, r, C : BuCuts!IsCut(n, r, C) <=> IsCut(n, r, C)
  BY <1>1, <1>2 DEF BuCuts!IsCut, IsCut
<1>4. \A n, s, k, r, C : BuCuts!IsReport(n, s, k, r, C) <=> IsReport(n, s, k, r, C)
  <2>1. \A C : BuCuts!Cardinality(C) = Cardinality(C)
    BY DEF BuCuts!Cardinality, Cardinality
  <2> QED BY <1>1, <1>3, <2>1 DEF BuCuts!IsReport, IsReport
<1>5. \A n, s, k, r : BuCuts!Reports(n, s, k, r) = Reports(n, s, k, r)
  BY <1>4 DEF BuCuts!Reports, Reports
<1> QED BY <1>1, <1>4, <1>5

LEMMA InitTold == ASSUME BuInit PROVE BuCuts!Init
<1>1. pc = "node" /\ root = net.inputs
  BY DEF BuInit
<1>2. Ended = Inputs(net)
  BY <1>1 DEF Ended, Inputs
<1>3. /\ buFound = [n \in Nodes(net) |-> IF n \in Inputs(net) THEN {{}} ELSE {}]
      /\ buNcAll = net.inputs
  BY DEF BuInit
<1> QED BY <1>2, <1>3, SameCuts DEF BuCuts!Init, Ended

Unseen == UNCHANGED <<net, limit, buFound, buNcAll>> /\ Ended' = Ended

LEMMA Telling ==
  ASSUME BInv, pc # "node", pc' # "node", UNCHANGED <<net, limit, root>>, buNcAll' = buNcAll + 1,
         NEW C, C \in SUBSET (1 .. root), C \notin buFound[root], IsReport(net, Nodes(net), limit, root, C),
         buFound' = [buFound EXCEPT ![root] = @ \cup {C}]
  PROVE  BuCuts!Next
<1>1. root \in Logic(net) \cap Nodes(net) /\ root \in Nat \ {0}
  BY Loop DEF BInv, BuTypes
<1>2. root \notin Ended /\ Ended' = Ended
  BY <1>1 DEF Ended
<1>3. BuCuts!Report(root, C)
  BY <1>1, <1>2, SameCuts DEF BuCuts!Report, Ended
<1>4. Nodes(net)' = Nodes(net) /\ root \in BuCuts!Logic(net)
  BY <1>1, SameCuts
<1> QED BY <1>3, <1>4 DEF BuCuts!Next

LEMMA MergeTold == ASSUME BInv, Merge PROVE BuCuts!Next
<1>1. pc = "cut1" /\ UNCHANGED <<net, limit, root, pc>> /\ buNcAll' = buNcAll + 1
  BY DEF Merge, NextCut1
<1>2. PICK C : C = Cut0 \cup Cut1
  OBVIOUS
<1>3. /\ C \notin buFound[root] /\ IsReport(net, Nodes(net), limit, root, C) /\ C \in SUBSET (1 .. root)
      /\ buFound' = [buFound EXCEPT ![root] = @ \cup {C}]
  BY <1>2, MergeKeeps
<1> QED BY <1>1, <1>3, Telling

LEMMA OwnCutTold == ASSUME BInv, OwnCut PROVE BuCuts!Next
<1>1. pc = "cut0" /\ pc' = "end" /\ UNCHANGED <<net, limit, root>> /\ buNcAll' = buNcAll + 1
  BY DEF OwnCut
<1>2. PICK C : C = {}
  OBVIOUS
<1>3. /\ C \notin buFound[root] /\ IsReport(net, Nodes(net), limit, root, C) /\ C \in SUBSET (1 .. root)
      /\ buFound' = [buFound EXCEPT ![root] = @ \cup {C}]
  BY <1>2, OwnCutKeeps DEF IsReport
<1> QED BY <1>1, <1>3, Telling

LEMMA EndNodeTold == ASSUME BInv, BuEndNode PROVE BuCuts!Next
<1>1. /\ pc = "end" /\ pc' = "node" /\ UNCHANGED <<net, limit, root, buFound, buNcAll>>
      /\ BuTypes /\ IsNetwork(net) /\ limit \in Nat \ {0}
  BY DEF BuEndNode, BInv, BuTypes
<1>2. root \in Logic(net) /\ root \in Nodes(net) /\ root \in Nat \ {0}
  BY <1>1, Loop DEF BuTypes
<1>3. PICK S : S = Feasible(net, Nodes(net), limit, root)
  OBVIOUS
<1>4. buFound[root] = AllTold(root, S)
  BY <1>1, <1>2, <1>3 DEF BInv, Lists, Listed
<1>5. ASSUME NEW D \in buFound[root] PROVE D \in Reports(net, Nodes(net), limit, root)
  <2>1. PICK C \in S : D = Told(root, C)
    BY <1>4 DEF AllTold
  <2>2. C \in SUBSET (Nodes(net) \cap 1 .. root) /\ Cardinality(C) <= limit /\ IsCut(net, root, C)
    BY <1>3 DEF Feasible
  <2>3. CASE C = {root}
    BY <2>1, <2>3 DEF Told, Reports, IsReport
  <2>4. CASE C # {root}
    BY <1>2, <2>1, <2>2, <2>4 DEF Told, Reports, IsReport
  <2> QED BY <2>3, <2>4
<1>6. ASSUME NEW D \in Reports(net, Nodes(net), limit, root) PROVE D \in buFound[root]
  <2>1. CASE D = {}
    <3>1. {root} \in S
      BY <1>1, <1>2, <1>3, NodeItself
    <3> QED BY <1>4, <2>1, <3>1 DEF AllTold, Told
  <2>2. CASE D # {}
    <3>1. D \in S /\ D # {root}
      BY <1>3, <2>2 DEF Reports, IsReport, Feasible
    <3> QED BY <1>4, <3>1 DEF AllTold, Told
  <2> QED BY <2>1, <2>2
<1>7. buFound[root] = Reports(net, Nodes(net), limit, root)
  BY <1>5, <1>6
<1>8. /\ root \notin Ended /\ Ended' = Ended \cup {root}
      /\ \A m \in Fanins(net, root) \cap Nodes(net) : m \in Ended
  <2>1. Ended = 1 .. root - 1 /\ Ended' = 1 .. root
    BY <1>1 DEF Ended
  <2>2. \A m \in Fanins(net, root) : m \in Nat \ {0} /\ m < root
    BY <1>1, <1>2, NetFacts
  <2> QED BY <1>2, <2>1, <2>2
<1>9. BuCuts!End(root)
  BY <1>1, <1>2, <1>7, <1>8, SameCuts DEF BuCuts!End, Ended
<1>10. Nodes(net)' = Nodes(net) /\ root \in BuCuts!Logic(net)
  BY <1>1, <1>2, SameCuts
<1> QED BY <1>1, <1>9, <1>10 DEF BuCuts!Next

LEMMA OthersUnseen ==
  ASSUME BInv, BuStartNode \/ NextCut0 \/ SkipMarked \/ SkipMerged \/ EndCut0
  PROVE  Unseen
<1>1. UNCHANGED <<net, limit, buFound, buNcAll>> /\ root \in Nat
  <2>1. root \in Nat
    BY NetFacts DEF BInv, BuTypes
  <2> QED BY <2>1 DEF BuStartNode, NextCut0, SkipMarked, SkipMerged, NextCut1, EndCut0
<1>2. CASE BuStartNode
  BY <1>1, <1>2 DEF BuStartNode, Ended, Unseen
<1>3. CASE NextCut0 \/ SkipMarked \/ SkipMerged \/ EndCut0
  BY <1>1, <1>3 DEF NextCut0, SkipMarked, SkipMerged, NextCut1, EndCut0, Ended, Unseen
<1> QED BY <1>2, <1>3

\* BottomUpReports holds of every network and every limit: op is told every cut
\* of every node within the limit, once, and nothing else, fanins first.
THEOREM EveryCutListed == BuSpec => BottomUpReports
<1>1. BInv /\ [BuNext]_buVars => [BuCuts!Next]_<<net, limit, Nodes(net), buFound, Ended, buNcAll>>
  <2> SUFFICES ASSUME BInv, [BuNext]_buVars
               PROVE  BuCuts!Next \/ UNCHANGED <<net, limit, Nodes(net), buFound, Ended, buNcAll>>
    OBVIOUS
  <2>1. CASE BuStartNode \/ NextCut0 \/ SkipMarked \/ SkipMerged \/ EndCut0
    BY <2>1, OthersUnseen DEF Unseen
  <2>2. CASE Merge
    BY <2>2, MergeTold
  <2>3. CASE OwnCut
    BY <2>3, OwnCutTold
  <2>4. CASE BuEndNode
    BY <2>4, EndNodeTold
  <2>5. CASE UNCHANGED buVars
    BY <2>5 DEF buVars, Ended
  <2> QED BY <2>1, <2>2, <2>3, <2>4, <2>5 DEF BuNext
<1>2. BInv /\ [BuNext]_buVars
        => [BuCuts!Next]_<<net, limit, Nodes(net), buFound,
                         IF pc = "node" THEN 1 .. root ELSE 1 .. root - 1, buNcAll>>
  BY <1>1 DEF Ended
<1>3. BuInit => BuCuts!Init
  BY InitTold
<1> QED BY <1>2, <1>3, CutLists, PTL DEF BuSpec, BottomUpReports, BuCuts!Spec

------------------------------------------------------------------------------
(***************************************************************************)
(* Minimal sets.                                                           *)
(***************************************************************************)
LEMMA MinimalBelow ==
  ASSUME NEW F, NEW C \in F, IsFiniteSet(C)
  PROVE  \E D \in Minimal(F) : D \subseteq C
<1> DEFINE Below == {E \in F : E \subseteq C}
           Sizes == {Cardinality(E) : E \in Below}
<1>1. \A E \in Below : IsFiniteSet(E) /\ Cardinality(E) \in Nat
  <2>1. ASSUME NEW E \in Below PROVE IsFiniteSet(E)
    <3>1. E \in SUBSET C
      OBVIOUS
    <3> QED BY <3>1, FS_Subset
  <2> QED BY <2>1, FS_CardinalityType
<1>2. Sizes \subseteq Nat /\ Sizes # {}
  BY <1>1
<1>3. PICK k \in Sizes : \A j \in Sizes : k <= j
  <2> HIDE DEF Sizes
  <2> QED BY <1>2, LeastNumber
<1>4. PICK D \in Below : k = Cardinality(D)
  OBVIOUS
<1>5. ASSUME NEW E \in F, E \subseteq D PROVE E = D
  <2>1. E \in Below /\ E \in SUBSET D
    BY <1>4, <1>5
  <2>2. Cardinality(D) <= Cardinality(E) /\ Cardinality(E) <= Cardinality(D)
    <3>1. Cardinality(E) \in Sizes
      BY <2>1
    <3>2. Cardinality(E) <= Cardinality(D)
      BY <1>1, <1>4, <2>1, FS_Subset
    <3> QED BY <1>3, <1>4, <3>1, <3>2
  <2>3. Cardinality(D) = Cardinality(E)
    BY <1>1, <1>4, <2>1, <2>2
  <2> QED BY <1>1, <1>4, <2>1, <2>3, FS_Subset
<1> QED BY <1>4, <1>5 DEF Minimal

\* Two families each of which has something inside every set of the other.
LEMMA MinimalMoves ==
  ASSUME NEW U, NEW V, \A C \in U : \E D \in V : D \subseteq C,
         \A D \in V : \E C \in U : C \subseteq D, NEW M \in Minimal(U)
  PROVE  M \in Minimal(V)
<1>1. M \in U /\ \A C \in U : C \subseteq M => C = M
  BY DEF Minimal
<1>2. PICK D \in V : D \subseteq M
  BY <1>1
<1>3. PICK C \in U : C \subseteq D
  OBVIOUS
<1>4. C = M /\ D = M
  BY <1>1, <1>2, <1>3
<1>5. ASSUME NEW E \in V, E \subseteq M PROVE E = M
  <2>1. PICK B \in U : B \subseteq E
    OBVIOUS
  <2> QED BY <1>1, <1>5, <2>1
<1> QED BY <1>2, <1>4, <1>5 DEF Minimal

LEMMA SameMinimal ==
  ASSUME NEW F, NEW G, \A C \in F : \E D \in G : D \subseteq C,
                       \A D \in G : \E C \in F : C \subseteq D
  PROVE  Minimal(F) = Minimal(G)
<1>1. Minimal(F) \subseteq Minimal(G)
  BY MinimalMoves
<1>2. Minimal(G) \subseteq Minimal(F)
  BY MinimalMoves
<1> QED BY <1>1, <1>2

------------------------------------------------------------------------------
(***************************************************************************)
(* Searches that stop: every path down is blocked, what is met of the      *)
(* stops is a cut.                                                         *)
(***************************************************************************)
Blocks(net0, r, C) == (Met(net0, r, C) \ C) \cap Inputs(net0) = {}
Trim(net0, r, C)   == C \cap Met(net0, r, C)

LEMMA MetMono ==
  ASSUME NEW net0, IsNetwork(net0), NEW r \in Nodes(net0), NEW C, NEW D, D \subseteq C
  PROVE  Met(net0, r, C) \subseteq Met(net0, r, D)
<1>1. \A m \in (Met(net0, r, C) \cap Met(net0, r, D) \cap Logic(net0)) \ C :
        Fanins(net0, m) \subseteq Met(net0, r, D)
  BY MetFacts
<1> QED BY <1>1, MetLeast, MetFacts

LEMMA MetStopped ==
  ASSUME NEW net0, IsNetwork(net0), NEW r \in Nodes(net0), NEW C, r \in C
  PROVE  Met(net0, r, C) = {r}
<1>1. PICK T : T = {r}
  OBVIOUS
<1>2. r \in T /\ \A m \in (Met(net0, r, C) \cap T \cap Logic(net0)) \ C : Fanins(net0, m) \subseteq T
  BY <1>1
<1>3. Met(net0, r, C) \subseteq T /\ r \in Met(net0, r, C)
  BY <1>2, MetLeast, MetFacts
<1> QED BY <1>1, <1>3

\* To stop at a node does not keep the search from meeting it.
LEMMA MetSelf ==
  ASSUME NEW net0, IsNetwork(net0), NEW r \in Nodes(net0), NEW C, NEW x \in Met(net0, r, C)
  PROVE  x \in Met(net0, r, C \cup {x})
<1>1. PICK D : D = C \cup {x}
  OBVIOUS
<1>2. PICK T : T = {k \in Nodes(net0) : k >= x => k \in Met(net0, r, D)}
  OBVIOUS
<1>3. r \in T
  BY <1>2, MetFacts
<1>4. x \in Nodes(net0) /\ Nodes(net0) \subseteq Nat
  BY MetFacts, NetFacts
<1>5. ASSUME NEW m \in Logic(net0), m \in Met(net0, r, C), m \in T, m \notin C,
             NEW k \in Fanins(net0, m)
      PROVE  k \in T
  <2>1. k \in Nodes(net0) /\ k < m /\ m \in Nodes(net0)
    BY NetFacts
  <2>2. CASE k >= x
    <3>1. m >= x /\ m # x
      BY <1>4, <2>1, <2>2
    <3>2. m \in Met(net0, r, D) /\ m \notin D
      BY <1>1, <1>2, <1>5, <3>1
    <3>3. k \in Met(net0, r, D)
      BY <3>2, MetFacts
    <3> QED BY <1>2, <2>1, <3>3
  <2> QED BY <1>2, <2>1, <2>2
<1>6. Met(net0, r, C) \subseteq T
  BY <1>3, <1>5, MetLeast
<1>7. x \in T /\ x >= x
  BY <1>4, <1>6
<1> QED BY <1>1, <1>2, <1>7

LEMMA TrimMet ==
  ASSUME NEW net0, IsNetwork(net0), NEW r \in Nodes(net0), NEW C
  PROVE  Met(net0, r, Trim(net0, r, C)) = Met(net0, r, C)
<1>1. PICK D : D = Trim(net0, r, C)
  OBVIOUS
<1>2. D \subseteq C /\ \A m \in Met(net0, r, C) : m \in C <=> m \in D
  BY <1>1 DEF Trim
<1>3. Met(net0, r, C) \subseteq Met(net0, r, D)
  BY <1>2, MetMono
<1>4. \A m \in (Met(net0, r, D) \cap Met(net0, r, C) \cap Logic(net0)) \ D :
        Fanins(net0, m) \subseteq Met(net0, r, C)
  BY <1>2, MetFacts
<1>5. Met(net0, r, D) \subseteq Met(net0, r, C)
  BY <1>4, MetLeast, MetFacts
<1> QED BY <1>1, <1>3, <1>5

LEMMA StopUnmet ==
  ASSUME NEW net0, IsNetwork(net0), NEW r \in Nodes(net0), NEW T, NEW m, m \notin Met(net0, r, T)
  PROVE  Trim(net0, r, T \cup {m}) = Trim(net0, r, T)
<1>1. PICK B, D : B = {m} /\ D = T \cup B
  OBVIOUS
<1>2. B \cap (Met(net0, r, T) \ T) = {}
  BY <1>1
<1>3. Met(net0, r, D) = Met(net0, r, T)
  BY <1>1, <1>2, MetMoreStops
<1>4. D \cap Met(net0, r, T) = T \cap Met(net0, r, T)
  BY <1>1
<1>5. Trim(net0, r, D) = Trim(net0, r, T)
  BY <1>3, <1>4 DEF Trim
<1> QED BY <1>1, <1>5

LEMMA BlocksMore ==
  ASSUME NEW net0, IsNetwork(net0), NEW r \in Nodes(net0), NEW C, NEW D, D \subseteq C,
         Blocks(net0, r, D)
  PROVE  Blocks(net0, r, C)
<1>1. Met(net0, r, C) \subseteq Met(net0, r, D)
  BY MetMono
<1> QED BY <1>1 DEF Blocks

LEMMA TrimFeasible ==
  ASSUME NEW net0, IsNetwork(net0), NEW r \in Nodes(net0), NEW lim \in Nat,
         NEW C, IsFiniteSet(C), Cardinality(C) <= lim, Blocks(net0, r, C)
  PROVE  Trim(net0, r, C) \in Feasible(net0, Nodes(net0), lim, r)
<1>1. PICK D : D = Trim(net0, r, C)
  OBVIOUS
<1>2. Met(net0, r, D) = Met(net0, r, C)
  BY <1>1, TrimMet
<1>3. D \in SUBSET C /\ D \subseteq Met(net0, r, C) /\ \A m \in Met(net0, r, C) : m \in C <=> m \in D
  BY <1>1 DEF Trim
<1>4. IsCut(net0, r, D)
  BY <1>2, <1>3 DEF IsCut, Blocks
<1>5. D \subseteq Nodes(net0) \cap 1 .. r
  BY <1>3, MetFacts
<1>6. Cardinality(D) <= lim
  BY <1>3, FS_Subset, FS_CardinalityType
<1> QED BY <1>1, <1>4, <1>5, <1>6 DEF Feasible

LEMMA FeasibleBlocks ==
  ASSUME NEW net0, IsNetwork(net0), NEW r \in Nodes(net0), NEW ends, NEW lim,
         NEW C \in Feasible(net0, ends, lim, r)
  PROVE  Blocks(net0, r, C) /\ Trim(net0, r, C) = C
<1>1. IsCut(net0, r, C)
  BY DEF Feasible
<1> QED BY <1>1 DEF IsCut, Blocks, Trim

------------------------------------------------------------------------------
(***************************************************************************)
(* ZddImp: the minimal cuts of a node from those of its fanins.            *)
(***************************************************************************)
CutsOf(n) == Feasible(net, Nodes(net), limit, n)

\* The family of a node that is done.
Family(n) == IF n \in Inputs(net) THEN {{n}} ELSE MinimalCuts(n)

Arguments == IsNetwork(net) /\ limit \in Nat \ {0}

LEMMA CutFacts ==
  ASSUME Arguments, NEW n \in Nodes(net)
  PROVE  /\ {n} \in CutsOf(n) /\ {} \notin CutsOf(n)
         /\ CutsOf(n) \subseteq SUBSET Nodes(net) /\ CutsOf(n) \subseteq SUBSET (1 .. n)
         /\ \A C \in CutsOf(n) : /\ IsFiniteSet(C) /\ Cardinality(C) \in Nat
                                 /\ Cardinality(C) <= limit /\ IsCut(net, n, C)
<1>1. IsNetwork(net) /\ limit \in Nat \ {0}
  BY DEF Arguments
<1>2. {n} \in CutsOf(n)
  BY <1>1, NodeItself DEF CutsOf
<1>3. {} \notin CutsOf(n)
  BY <1>1, NoEmptyCut DEF CutsOf
<1>4. ASSUME NEW C \in CutsOf(n)
      PROVE  /\ C \subseteq Nodes(net) /\ C \subseteq 1 .. n
             /\ IsFiniteSet(C) /\ Cardinality(C) \in Nat
             /\ Cardinality(C) <= limit /\ IsCut(net, n, C)
  <2>1. C \in Feasible(net, Nodes(net), limit, n)
    BY <1>4 DEF CutsOf
  <2> QED BY <1>1, <2>1, FeasibleFacts DEF Feasible
<1> QED BY <1>2, <1>3, <1>4

LEMMA MinimalCutsAre ==
  ASSUME Arguments, NEW n \in Logic(net)
  PROVE  MinimalCuts(n) = {{n}} \cup Minimal(CutsOf(n) \ {{n}})
<1>1. n \in Nodes(net) /\ IsNetwork(net)
  BY NetFacts DEF Arguments
<1>2. \A C : C \in Reports(net, Nodes(net), limit, n) \ {{}} <=> C \in CutsOf(n) \ {{n}}
  <2>1. {} \notin CutsOf(n)
    BY <1>1, CutFacts
  <2> QED BY <2>1 DEF Reports, IsReport, CutsOf, Feasible
<1>3. Reports(net, Nodes(net), limit, n) \ {{}} = CutsOf(n) \ {{n}}
  BY <1>2
<1> QED BY <1>3 DEF MinimalCuts

LEMMA FamilyFacts ==
  ASSUME Arguments, NEW n \in Nodes(net)
  PROVE  /\ Family(n) \subseteq CutsOf(n)
         /\ \A C \in CutsOf(n) : \E A \in Family(n) : A \subseteq C
<1>1. IsNetwork(net)
  BY DEF Arguments
<1>2. {n} \in CutsOf(n) /\ {} \notin CutsOf(n)
  BY CutFacts
<1>3. CASE n \in Inputs(net)
  <2>1. Family(n) = {{n}}
    BY <1>3 DEF Family
  <2>2. ASSUME NEW C \in CutsOf(n) PROVE C = {n}
    <3>1. Met(net, n, C) = {n}
      BY <1>1, <1>3, InputMet
    <3>2. C \subseteq {n}
      BY <3>1, CutFacts DEF IsCut
    <3> QED BY <1>2, <3>2
  <2> QED BY <1>2, <2>1, <2>2
<1>4. CASE n \notin Inputs(net)
  <2>1. n \in Logic(net) /\ Family(n) = {{n}} \cup Minimal(CutsOf(n) \ {{n}})
    BY <1>1, <1>4, NetFacts, MinimalCutsAre DEF Family
  <2>2. ASSUME NEW C \in CutsOf(n) PROVE \E A \in Family(n) : A \subseteq C
    <3>1. CASE C = {n}
      BY <2>1, <3>1
    <3>2. CASE C # {n}
      <4>1. C \in CutsOf(n) \ {{n}} /\ IsFiniteSet(C)
        BY <3>2, CutFacts
      <4> QED BY <2>1, <4>1, MinimalBelow
    <3> QED BY <3>1, <3>2
  <2>3. Minimal(CutsOf(n) \ {{n}}) \subseteq CutsOf(n)
    BY DEF Minimal
  <2> QED BY <1>2, <2>1, <2>2, <2>3
<1> QED BY <1>3, <1>4

LEMMA MergedIsMinimal ==
  ASSUME Arguments, NEW n \in Logic(net), \A f \in Fanins(net, n) : mCuts[f] = Family(f)
  PROVE  Merged(n) = MinimalCuts(n)
<1>1. PICK f, g : f = net.fanin[n][1] /\ g = net.fanin[n][2]
  OBVIOUS
<1>2. /\ IsNetwork(net) /\ limit \in Nat \ {0}
      /\ n \in Nodes(net) /\ f \in Nodes(net) /\ g \in Nodes(net)
      /\ f \in Fanins(net, n) /\ g \in Fanins(net, n) /\ f < n /\ g < n
      /\ Nodes(net) \subseteq Nat
  BY <1>1, NetFacts DEF Arguments
<1>3. PICK F : F = AtMost(Unions(Family(f), Family(g)), limit)
  OBVIOUS
<1>4. ASSUME NEW C \in F PROVE \E D \in CutsOf(n) \ {{n}} : D \subseteq C
  <2>1. PICK A \in Family(f), B \in Family(g) : C = A \cup B /\ Cardinality(C) <= limit
    BY <1>3, <1>4 DEF AtMost, Unions
  <2>2. A \in CutsOf(f) /\ B \in CutsOf(g)
    BY <1>2, <2>1, FamilyFacts
  <2>3. /\ A \subseteq 1 .. f /\ B \subseteq 1 .. g /\ IsFiniteSet(A) /\ IsFiniteSet(B)
    BY <1>2, <2>2, CutFacts
  <2>4. n \notin C /\ IsFiniteSet(C)
    <3>1. IsFiniteSet(A \cup B)
      BY <2>3, FS_Union
    <3> QED BY <1>2, <2>1, <2>3, <3>1
  <2>5. Met(net, f, C) \subseteq Met(net, f, A) /\ Met(net, g, C) \subseteq Met(net, g, B)
    BY <1>2, <2>1, MetMono
  <2>6. Blocks(net, f, A) /\ Blocks(net, g, B)
    BY <1>2, <2>2, FeasibleBlocks DEF CutsOf
  <2>7. Met(net, n, C) \subseteq {n} \cup Met(net, f, C) \cup Met(net, g, C)
    BY <1>1, <1>2, <2>4, MetSplits
  <2>8. Blocks(net, n, C)
    <3>1. n \notin Inputs(net)
      BY <1>2, NetFacts
    <3> QED BY <2>1, <2>5, <2>6, <2>7, <3>1 DEF Blocks
  <2>9. PICK D : D = Trim(net, n, C)
    OBVIOUS
  <2>10. D \in CutsOf(n)
    BY <1>2, <2>1, <2>4, <2>8, <2>9, TrimFeasible DEF CutsOf
  <2>11. D \subseteq C /\ D # {n}
    BY <2>4, <2>9 DEF Trim
  <2> QED BY <2>10, <2>11
<1>5. ASSUME NEW D \in CutsOf(n) \ {{n}} PROVE \E C \in F : C \subseteq D
  <2>1. PICK A0 \in CutsOf(f), B0 \in CutsOf(g) : D = A0 \cup B0
    BY <1>1, <1>2, <1>5, CutIsUnion DEF CutsOf
  <2>2. PICK A \in Family(f) : A \subseteq A0
    BY <1>2, FamilyFacts
  <2>3. PICK B \in Family(g) : B \subseteq B0
    BY <1>2, FamilyFacts
  <2>4. PICK C : C = A \cup B
    OBVIOUS
  <2>5. C \in SUBSET D
    BY <2>1, <2>2, <2>3, <2>4
  <2>6. IsFiniteSet(D) /\ Cardinality(D) \in Nat /\ Cardinality(D) <= limit
    BY <1>2, CutFacts
  <2>7. Cardinality(C) <= limit
    BY <1>2, <2>5, <2>6, FS_Subset, FS_CardinalityType
  <2>8. C \in F
    BY <1>3, <2>4, <2>7 DEF AtMost, Unions
  <2> QED BY <2>5, <2>8
<1>6. Minimal(F) = Minimal(CutsOf(n) \ {{n}})
  BY <1>4, <1>5, SameMinimal
<1>7. mCuts[f] = Family(f) /\ mCuts[g] = Family(g)
  BY <1>2
<1>8. Merged(n) = Minimal(F) \cup {{n}}
  BY <1>1, <1>3, <1>7 DEF Merged
<1> QED BY <1>6, <1>8, MinimalCutsAre

------------------------------------------------------------------------------
(***************************************************************************)
(* ZddTopDown: what every expansion keeps.                                 *)
(***************************************************************************)

\* Every set blocks the paths from n, and what is met from n of a set and any
\* other stops is in the family too.
Sound(n, F) ==
  /\ F \subseteq SUBSET Nodes(net) /\ {n} \in F
  /\ \A C \in F : Blocks(net, n, C)
  /\ \A C \in F, S \in SUBSET Nodes(net) : Trim(net, n, C \cup S) \in F

LEMMA SoundBegins ==
  ASSUME IsNetwork(net), NEW n \in Nodes(net)
  PROVE  Sound(n, {{n}})
<1>1. ASSUME NEW S PROVE Trim(net, n, {n} \cup S) = {n}
  <2>1. Met(net, n, {n} \cup S) = {n}
    BY MetStopped
  <2> QED BY <2>1 DEF Trim
<1>2. Blocks(net, n, {n})
  <2>1. Met(net, n, {n}) = {n}
    BY MetStopped
  <2> QED BY <2>1 DEF Blocks
<1> QED BY <1>1, <1>2 DEF Sound

\* The set in which a node is replaced by its fanins.
LEMMA ReplacedBlocks ==
  ASSUME IsNetwork(net), NEW n \in Nodes(net), NEW m \in Logic(net),
         NEW C, m \in C, Blocks(net, n, C)
  PROVE  Blocks(net, n, (C \ {m}) \cup Fanins(net, m))
<1>1. PICK D, I : I = Fanins(net, m) /\ D = (C \ {m}) \cup I
  OBVIOUS
<1>2. PICK T : T = Met(net, n, C) \cup I
  OBVIOUS
<1>3. ASSUME NEW k \in Logic(net), k \in T, k \notin D
      PROVE  Fanins(net, k) \subseteq T
  <2>1. CASE k = m
    BY <1>1, <1>2, <2>1
  <2>2. CASE k # m
    BY <1>1, <1>2, <1>3, <2>2, MetFacts
  <2> QED BY <2>1, <2>2
<1>4. Met(net, n, D) \subseteq T
  BY <1>2, <1>3, MetLeast, MetFacts
<1>5. m \notin Inputs(net)
  BY NetFacts
<1> QED BY <1>1, <1>2, <1>4, <1>5 DEF Blocks

\* The search does not meet m below its own stops, or goes one step further.
LEMMA MetReplaced ==
  ASSUME IsNetwork(net), NEW n \in Nodes(net), NEW m \in Logic(net), NEW T,
         m \notin T, Fanins(net, m) \subseteq T, m \in Met(net, n, T)
  PROVE  /\ m \in Met(net, n, T \cup {m})
         /\ Met(net, n, T) = Met(net, n, T \cup {m}) \cup Fanins(net, m)
<1>1. PICK U, I, W : U = T \cup {m} /\ I = Fanins(net, m) /\ W = Met(net, n, U) \cup I
  OBVIOUS
<1>2. m \in Met(net, n, U)
  BY <1>1, MetSelf
<1>3. Met(net, n, U) \subseteq Met(net, n, T)
  BY <1>1, MetMono
<1>4. I \subseteq Met(net, n, T)
  BY <1>1, MetFacts
<1>5. ASSUME NEW k \in Logic(net), k \in W, k \notin T
      PROVE  Fanins(net, k) \subseteq W
  <2>1. CASE k = m
    BY <1>1, <2>1
  <2>2. CASE k # m
    BY <1>1, <1>5, <2>2, MetFacts
  <2> QED BY <2>1, <2>2
<1>6. Met(net, n, T) \subseteq W
  BY <1>1, <1>5, MetLeast, MetFacts
<1> QED BY <1>1, <1>2, <1>3, <1>4, <1>6

LEMMA ExpandedSound ==
  ASSUME IsNetwork(net), NEW n \in Nodes(net), NEW m \in Logic(net), NEW F, Sound(n, F)
  PROVE  Sound(n, Expanded(F, m))
<1>1. PICK G, I : G = Expanded(F, m) /\ I = Fanins(net, m)
  OBVIOUS
<1>2. /\ F \subseteq G
      /\ \A C \in F : m \in C => (C \ {m}) \cup I \in G
      /\ \A D \in G : D \in F \/ \E C \in F : m \in C /\ D = (C \ {m}) \cup I
  BY <1>1 DEF Expanded
<1>3. I \subseteq Nodes(net) /\ m \notin I /\ m \in Nodes(net) /\ Nodes(net) \subseteq Nat
  BY <1>1, NetFacts
<1>4. /\ F \subseteq SUBSET Nodes(net) /\ {n} \in F /\ \A C \in F : Blocks(net, n, C)
      /\ \A C \in F, S \in SUBSET Nodes(net) : Trim(net, n, C \cup S) \in F
  BY DEF Sound
<1>5. G \subseteq SUBSET Nodes(net) /\ {n} \in G
  BY <1>2, <1>3, <1>4
<1>6. ASSUME NEW D \in G PROVE Blocks(net, n, D)
  BY <1>1, <1>2, <1>4, ReplacedBlocks
<1>7. ASSUME NEW C \in F, m \in C, NEW S \in SUBSET Nodes(net)
      PROVE  Trim(net, n, ((C \ {m}) \cup I) \cup S) \in G
  <2>1. PICK T : T = ((C \ {m}) \cup I) \cup S
    OBVIOUS
  <2>2. I \subseteq T /\ S \cup I \in SUBSET Nodes(net) /\ T \cup {m} = C \cup (S \cup I)
    BY <1>3, <1>7, <2>1
  <2>3. PICK E : E = Trim(net, n, T \cup {m})
    OBVIOUS
  <2>4. E \in F
    BY <1>4, <2>2, <2>3
  <2>5. CASE m \in T
    <3>1. T \cup {m} = T
      BY <2>5
    <3> QED BY <1>2, <2>1, <2>3, <2>4, <3>1
  <2>6. CASE m \notin T /\ m \notin Met(net, n, T)
    <3>1. E = Trim(net, n, T)
      BY <2>3, <2>6, StopUnmet
    <3> QED BY <1>2, <2>1, <2>4, <3>1
  <2>7. CASE m \notin T /\ m \in Met(net, n, T)
    <3>1. /\ m \in Met(net, n, T \cup {m})
          /\ Met(net, n, T) = Met(net, n, T \cup {m}) \cup I
      BY <1>1, <2>2, <2>7, MetReplaced
    <3>2. m \in E /\ (E \ {m}) \cup I = Trim(net, n, T)
      BY <1>3, <2>2, <2>3, <2>7, <3>1 DEF Trim
    <3>3. (E \ {m}) \cup I \in G
      BY <1>2, <2>4, <3>2
    <3> QED BY <2>1, <3>2, <3>3
  <2> QED BY <2>5, <2>6, <2>7
<1>8. ASSUME NEW D \in G, NEW S \in SUBSET Nodes(net)
      PROVE  Trim(net, n, D \cup S) \in G
  <2>1. CASE D \in F
    BY <1>2, <1>4, <2>1
  <2>2. CASE \E C \in F : m \in C /\ D = (C \ {m}) \cup I
    BY <1>7, <2>2
  <2> QED BY <1>2, <2>1, <2>2
<1> QED BY <1>1, <1>5, <1>6, <1>8 DEF Sound

\* A minimal set of a sound family, within the limit, is a cut.
LEMMA SoundCuts ==
  ASSUME Arguments, NEW n \in Nodes(net), NEW F, Sound(n, F),
         NEW C \in Minimal(AtMost(F, limit))
  PROVE  C \in CutsOf(n)
<1>1. IsNetwork(net) /\ limit \in Nat
  BY DEF Arguments
<1>2. /\ C \in F /\ Cardinality(C) <= limit
      /\ \A D \in F : Cardinality(D) <= limit /\ D \subseteq C => D = C
  BY DEF Minimal, AtMost
<1>3. C \subseteq Nodes(net) /\ Blocks(net, n, C) /\ Trim(net, n, C \cup {}) \in F
  BY <1>2 DEF Sound
<1>4. IsFiniteSet(C)
  <2>1. PICK k \in Nat : Nodes(net) = 1 .. k
    BY <1>1, NetFacts
  <2>2. IsFiniteSet(Nodes(net))
    BY <2>1, FS_Interval
  <2> QED BY <1>3, <2>2, FS_Subset
<1>5. PICK D : D = Trim(net, n, C)
  OBVIOUS
<1>6. D \in F
  <2>1. C \cup {} = C
    OBVIOUS
  <2> QED BY <1>3, <1>5, <2>1
<1>7. D \in CutsOf(n)
  BY <1>1, <1>2, <1>3, <1>4, <1>5, TrimFeasible DEF CutsOf
<1>8. D \subseteq C /\ Cardinality(D) <= limit
  BY <1>5, <1>7, CutFacts DEF Trim
<1> QED BY <1>2, <1>6, <1>7, <1>8

------------------------------------------------------------------------------
(***************************************************************************)
(* The walk: dfs is well defined, since fanins come before their fanouts,  *)
(* and what it does to marks and family.                                   *)
(***************************************************************************)
Expand(w, node) == [mark |-> w.mark \ {node}, cut |-> Expanded(w.cut, node)]
DfsBody(node, f, w) ==
  IF node \notin w.mark \/ node \in Inputs(net) THEN w
  ELSE f[net.fanin[node][2]][f[net.fanin[node][1]][Expand(w, node)]]

LEMMA DfsDef ==
  ASSUME IsNetwork(net), NEW node \in Nodes(net), NEW w \in Walks
  PROVE  Dfs[node][w] = DfsBody(node, Dfs, w)
<1> DEFINE Body(f) == [m \in Nodes(net) |-> [v \in Walks |-> DfsBody(m, f, v)]]
           Part(k, g) == g = [m \in 1 .. k |-> [v \in Walks |-> DfsBody(m, g, v)]]
<1>1. PICK top \in Nat : Nodes(net) = 1 .. top
  BY NetFacts
<1>2. ASSUME NEW g, NEW h, NEW m \in Nodes(net), NEW v,
             \A x \in Nodes(net) : x < m => g[x] = h[x]
      PROVE  DfsBody(m, g, v) = DfsBody(m, h, v)
  <2>1. CASE m \in Inputs(net)
    BY <2>1 DEF DfsBody
  <2>2. CASE m \notin Inputs(net)
    <3>1. m \in Logic(net)
      BY <2>2, NetFacts
    <3>2. PICK x, y : x = net.fanin[m][1] /\ y = net.fanin[m][2]
      OBVIOUS
    <3>3. x \in Nodes(net) /\ x < m /\ y \in Nodes(net) /\ y < m
      BY <3>1, <3>2, NetFacts
    <3>4. g[x] = h[x] /\ g[y] = h[y]
      BY <1>2, <3>3
    <3> QED BY <3>2, <3>4 DEF DfsBody
  <2> QED BY <2>1, <2>2
<1> DEFINE Missing == {k \in 0 .. top : ~\E g : Part(k, g)}
<1>3. Missing = {}
  <2>1. SUFFICES ASSUME Missing # {} PROVE FALSE
    OBVIOUS
  <2>2. PICK k \in Missing : \A j \in Missing : k <= j
    <3>1. Missing \subseteq Nat
      BY <1>1
    <3> HIDE DEF Missing
    <3> QED BY <2>1, <3>1, LeastNumber
  <2>3. k \in 0 .. top /\ ~\E g : Part(k, g)
    BY <2>2
  <2>4. k # 0
    <3>1. SUFFICES ASSUME k = 0 PROVE FALSE
      OBVIOUS
    <3>2. 1 .. 0 = {}
      OBVIOUS
    <3>3. PICK g : g = [m \in 1 .. 0 |-> m]
      OBVIOUS
    <3>4. \A h : [m \in 1 .. 0 |-> [v \in Walks |-> DfsBody(m, h, v)]] = g
      BY <3>2, <3>3
    <3>5. Part(0, g)
      BY <3>4
    <3> QED BY <2>3, <3>1, <3>5
  <2>5. k - 1 \in 0 .. top /\ k - 1 \notin Missing /\ k \in Nodes(net)
    BY <1>1, <2>2, <2>3, <2>4
  <2>6. PICK g : Part(k - 1, g)
    BY <2>5
  <2> DEFINE h == [m \in 1 .. k |-> IF m = k THEN [v \in Walks |-> DfsBody(k, g, v)] ELSE g[m]]
  <2>7. \A x \in 1 .. k - 1 : h[x] = g[x] /\ g[x] = [v \in Walks |-> DfsBody(x, g, v)]
    BY <1>1, <2>5, <2>6
  <2>8. ASSUME NEW m \in 1 .. k PROVE h[m] = [v \in Walks |-> DfsBody(m, h, v)]
    <3>1. m \in Nodes(net) /\ \A x \in Nodes(net) : x < m => x \in 1 .. k - 1
      BY <1>1, <2>5
    <3>2. \A x \in Nodes(net) : x < m => g[x] = h[x]
      BY <2>7, <3>1
    <3>3. \A v : DfsBody(m, g, v) = DfsBody(m, h, v)
      <4> HIDE DEF h
      <4> QED BY <1>2, <3>1, <3>2
    <3>4. h[m] = [v \in Walks |-> DfsBody(m, g, v)]
      <4>1. CASE m = k
        BY <4>1
      <4>2. CASE m # k
        <5>1. m \in 1 .. k - 1
          BY <1>1, <2>5, <4>2
        <5> QED BY <2>7, <5>1
      <4> QED BY <4>1, <4>2
    <3> HIDE DEF h
    <3> QED BY <3>3, <3>4
  <2>9. Part(k, h)
    <3>1. h = [m \in 1 .. k |-> h[m]]
      OBVIOUS
    <3> HIDE DEF h
    <3> QED BY <2>8, <3>1
  <2> QED BY <2>3, <2>9
<1>4. \E f : f = Body(f)
  <2>1. top \notin Missing /\ top \in 0 .. top
    BY <1>1, <1>3
  <2>2. PICK g : Part(top, g)
    BY <2>1
  <2> QED BY <1>1, <2>2
<1>5. Dfs = CHOOSE f : f = Body(f)
  BY DEF Dfs, DfsBody, Expand
<1>6. Dfs = Body(Dfs)
  BY <1>4, <1>5
<1>7. Dfs[node] = [v \in Walks |-> DfsBody(node, Dfs, v)]
  BY <1>6
<1> QED BY <1>7

\* What a walk from node does: it stays sound, loses nothing, and touches no
\* mark but those of nodes below.
Walked(n, node, w, v) ==
  /\ v \in Walks /\ Sound(n, v.cut) /\ w.cut \subseteq v.cut
  /\ \A m \in w.mark : m \in v.mark \/ m \in Met(net, node, {})

LEMMA ExpandFacts ==
  ASSUME IsNetwork(net), NEW n \in Nodes(net), NEW node \in Logic(net),
         NEW w \in Walks, Sound(n, w.cut)
  PROVE  /\ Expand(w, node) \in Walks /\ Sound(n, Expand(w, node).cut)
         /\ w.cut \subseteq Expand(w, node).cut
         /\ \A C \in w.cut : node \in C => (C \ {node}) \cup Fanins(net, node) \in Expand(w, node).cut
         /\ Expand(w, node).mark = w.mark \ {node}
<1>1. Sound(n, Expanded(w.cut, node))
  BY ExpandedSound
<1>2. Expanded(w.cut, node) \in SUBSET SUBSET Nodes(net)
  BY <1>1 DEF Sound
<1>3. w.mark \in SUBSET Nodes(net)
  BY DEF Walks
<1>4. Expand(w, node) \in Walks
  BY <1>2, <1>3 DEF Expand, Walks
<1> QED BY <1>1, <1>4 DEF Expand, Expanded

LEMMA DfsFacts ==
  ASSUME IsNetwork(net), NEW n \in Nodes(net), NEW node \in Nodes(net),
         NEW w \in Walks, Sound(n, w.cut)
  PROVE  Walked(n, node, w, Dfs[node][w])
<1> DEFINE Right(m) == \A v \in Walks : Sound(n, v.cut) => Walked(n, m, v, Dfs[m][v])
           Wrong == {m \in Nodes(net) : ~Right(m)}
<1>1. SUFFICES ASSUME Wrong # {} PROVE FALSE
  OBVIOUS
<1>2. PICK m \in Wrong : \A k \in Wrong : m <= k
  <2>1. Wrong \subseteq Nat
    BY NetFacts
  <2> HIDE DEF Wrong
  <2> QED BY <1>1, <2>1, LeastNumber
<1>3. m \in Nodes(net) /\ ~Right(m) /\ \A k \in Nodes(net) : k < m => Right(k)
  <2>1. Nodes(net) \subseteq Nat
    BY NetFacts
  <2> QED BY <1>2, <2>1
<1> HIDE DEF Wrong
<1>4. PICK v \in Walks : Sound(n, v.cut) /\ ~Walked(n, m, v, Dfs[m][v])
  BY <1>3
<1>5. Dfs[m][v] = DfsBody(m, Dfs, v)
  BY <1>3, DfsDef
<1>6. m \in v.mark /\ m \notin Inputs(net)
  <2>1. SUFFICES ASSUME m \notin v.mark \/ m \in Inputs(net) PROVE FALSE
    OBVIOUS
  <2>2. Dfs[m][v] = v
    BY <1>5, <2>1 DEF DfsBody
  <2>3. Walked(n, m, v, v)
    BY <1>4 DEF Walked
  <2> QED BY <1>4, <2>2, <2>3
<1>7. PICK f, g : f = net.fanin[m][1] /\ g = net.fanin[m][2]
  OBVIOUS
<1>8. /\ m \in Logic(net) /\ f \in Nodes(net) /\ g \in Nodes(net) /\ f < m /\ g < m
      /\ f \in Fanins(net, m) /\ g \in Fanins(net, m)
  BY <1>3, <1>6, <1>7, NetFacts
<1>9. PICK v0 : v0 = Expand(v, m)
  OBVIOUS
<1>10. /\ v0 \in Walks /\ Sound(n, v0.cut) /\ v.cut \subseteq v0.cut
       /\ v0.mark = v.mark \ {m}
  BY <1>4, <1>8, <1>9, ExpandFacts
<1>11. PICK v1 : v1 = Dfs[f][v0]
  OBVIOUS
<1>12. Walked(n, f, v0, v1)
  BY <1>3, <1>8, <1>10, <1>11
<1>13. PICK v2 : v2 = Dfs[g][v1]
  OBVIOUS
<1>14. Walked(n, g, v1, v2)
  BY <1>3, <1>8, <1>12, <1>13 DEF Walked
<1>15. Dfs[m][v] = v2
  BY <1>5, <1>6, <1>7, <1>9, <1>11, <1>13 DEF DfsBody
<1>16. Met(net, f, {}) \subseteq Met(net, m, {}) /\ Met(net, g, {}) \subseteq Met(net, m, {})
       /\ m \in Met(net, m, {})
  BY <1>3, <1>8, MetSplits, MetFacts
<1>17. Walked(n, m, v, v2)
  BY <1>10, <1>12, <1>14, <1>16 DEF Walked
<1> QED BY <1>4, <1>15, <1>17

------------------------------------------------------------------------------
(***************************************************************************)
(* Trees: where no two paths from a node meet again.                       *)
(***************************************************************************)
OneFanout(n) ==
  \A m \in Met(net, n, {}) : \A k, l \in Met(net, n, {}) \cap Logic(net) :
    m # n /\ m \in Fanins(net, k) /\ m \in Fanins(net, l) => k = l

LEMMA TreeFanouts ==
  ASSUME IsNetwork(net), NEW n \in Nodes(net), IsTree(n)
  PROVE  OneFanout(n)
<1>1. PICK met : met = Met(net, n, {})
  OBVIOUS
<1>2. ASSUME NEW m \in met, m # n,
             NEW k \in met \cap Logic(net), NEW l \in met \cap Logic(net),
             m \in Fanins(net, k), m \in Fanins(net, l)
      PROVE  k = l
  <2>1. PICK S : S = {j \in met \cap Logic(net) : m \in Fanins(net, j)}
    OBVIOUS
  <2>2. Cardinality(S) = 1
    BY <1>1, <1>2, <2>1 DEF IsTree
  <2>3. IsFiniteSet(S)
    <3>1. PICK top \in Nat : Nodes(net) = 1 .. top
      BY NetFacts
    <3>2. IsFiniteSet(Nodes(net))
      BY <3>1, FS_Interval
    <3>3. S \in SUBSET Nodes(net)
      BY <1>1, <2>1, MetFacts
    <3> QED BY <3>2, <3>3, FS_Subset
  <2>4. \E x : S = {x}
    BY <2>2, <2>3, FS_Singleton
  <2> QED BY <1>2, <2>1, <2>4
<1> QED BY <1>1, <1>2 DEF OneFanout

LEMMA FanoutMet ==
  ASSUME IsNetwork(net), NEW n \in Nodes(net), NEW C, NEW m \in Met(net, n, C), m # n
  PROVE  \E k \in Met(net, n, C) \cap Logic(net) : k > m /\ k \notin C /\ m \in Fanins(net, k)
BY MetDef

LEMMA TreeBelow ==
  ASSUME IsNetwork(net), NEW n \in Logic(net), IsTree(n), NEW f \in Fanins(net, n)
  PROVE  IsTree(f)
<1>1. n \in Nodes(net) /\ f \in Nodes(net) /\ OneFanout(n)
  BY NetFacts, TreeFanouts
<1>2. Met(net, f, {}) \subseteq Met(net, n, {}) /\ f < n /\ n \notin Met(net, f, {})
  <2>1. Met(net, f, {}) \subseteq Met(net, n, {}) /\ f < n
    BY MetSplits
  <2>2. Met(net, f, {}) \subseteq 1 .. f /\ Nodes(net) \subseteq Nat
    BY <1>1, MetFacts, NetFacts
  <2> QED BY <1>1, <2>1, <2>2
<1>3. PICK met : met = Met(net, f, {})
  OBVIOUS
<1>4. ASSUME NEW m \in met \ {f}
      PROVE  Cardinality({k \in met \cap Logic(net) : m \in Fanins(net, k)}) = 1
  <2>1. PICK k \in met \cap Logic(net) : m \in Fanins(net, k)
    BY <1>1, <1>3, FanoutMet
  <2>2. \A l \in met \cap Logic(net) : m \in Fanins(net, l) => l = k
    BY <1>1, <1>2, <1>3, <2>1 DEF OneFanout
  <2>3. {l \in met \cap Logic(net) : m \in Fanins(net, l)} = {k}
    BY <2>1, <2>2
  <2> QED BY <2>3, FS_Singleton
<1> QED BY <1>3, <1>4 DEF IsTree

\* A search does not meet what is below a stop.
LEMMA TreeStop ==
  ASSUME IsNetwork(net), NEW n \in Nodes(net), OneFanout(n), NEW C,
         NEW y \in Met(net, n, {}), y \in C, NEW z \in Met(net, y, {}), z # y
  PROVE  z \notin Met(net, n, C)
<1>1. /\ y \in Nodes(net) /\ Nodes(net) \subseteq Nat
      /\ Met(net, y, {}) \subseteq Met(net, n, {}) /\ Met(net, n, C) \subseteq Met(net, n, {})
      /\ y \in 1 .. n /\ Met(net, y, {}) \subseteq 1 .. y
  <2>1. y \in Nodes(net) /\ y \in 1 .. n /\ Nodes(net) \subseteq Nat
    BY MetFacts, NetFacts
  <2>2. Met(net, n, C) \subseteq Met(net, n, {})
    BY MetMono
  <2>3. Met(net, y, {}) \subseteq Met(net, n, {}) /\ Met(net, y, {}) \subseteq 1 .. y
    BY <2>1, MetThrough, MetFacts
  <2> QED BY <2>1, <2>2, <2>3
<1>2. PICK Under, T : Under = Met(net, y, {}) \ {y} /\ T = Nodes(net) \ Under
  OBVIOUS
<1>3. n \in T
  <2>1. \A x \in Under : x < y
    BY <1>1, <1>2
  <2> QED BY <1>1, <1>2, <2>1
<1>4. ASSUME NEW m \in Logic(net), m \in Met(net, n, C), m \in T, m \notin C,
             NEW x \in Fanins(net, m)
      PROVE  x \in T
  <2>1. SUFFICES ASSUME x \in Under PROVE FALSE
    BY <1>2, NetFacts
  <2>2. PICK k \in Met(net, y, {}) \cap Logic(net) : x \in Fanins(net, k)
    BY <1>1, <1>2, <2>1, FanoutMet
  <2>3. x \in Met(net, n, {}) /\ x # n
    BY <1>1, <1>2, <1>3, <2>1
  <2>4. m = k
    BY <1>1, <1>4, <2>2, <2>3 DEF OneFanout
  <2>5. m = y
    BY <1>2, <1>4, <2>2, <2>4
  <2> QED BY <1>4, <2>5
<1>5. Met(net, n, C) \subseteq T
  BY <1>3, <1>4, MetLeast
<1> QED BY <1>2, <1>5

\* The fanins of a node of a tree have nothing below them in common.
LEMMA TreeApart ==
  ASSUME IsNetwork(net), NEW n \in Logic(net), OneFanout(n)
  PROVE  Met(net, net.fanin[n][1], {}) \cap Met(net, net.fanin[n][2], {}) = {}
<1>1. PICK f, g : f = net.fanin[n][1] /\ g = net.fanin[n][2]
  OBVIOUS
<1>2. PICK P, Q : P = Met(net, f, {}) /\ Q = Met(net, g, {})
  OBVIOUS
<1>3. /\ n \in Nodes(net) /\ f \in Nodes(net) /\ g \in Nodes(net) /\ f < n /\ g < n /\ f # g
      /\ f \in Fanins(net, n) /\ g \in Fanins(net, n) /\ Nodes(net) \subseteq Nat
  BY <1>1, NetFacts
<1>4. /\ P \subseteq Met(net, n, {}) /\ Q \subseteq Met(net, n, {}) /\ n \in Met(net, n, {})
      /\ P \subseteq 1 .. f /\ Q \subseteq 1 .. g /\ P \subseteq Nodes(net)
  BY <1>2, <1>3, MetSplits, MetFacts
<1>5. n \notin P /\ n \notin Q
  BY <1>3, <1>4
<1>6. SUFFICES ASSUME P \cap Q # {} PROVE FALSE
  BY <1>1, <1>2
<1>7. PICK x \in P \cap Q : \A y \in P \cap Q : y <= x
  BY <1>4, <1>6, GreatestNode
<1>8. x # n /\ x \in Met(net, n, {})
  BY <1>4, <1>5, <1>7
<1>9. CASE x = f
  <2>1. PICK k \in Q \cap Logic(net) : x \in Fanins(net, k)
    BY <1>2, <1>3, <1>7, <1>9, FanoutMet
  <2>2. k = n
    BY <1>3, <1>4, <1>8, <1>9, <2>1 DEF OneFanout
  <2> QED BY <1>5, <2>1, <2>2
<1>10. CASE x = g
  <2>1. PICK k \in P \cap Logic(net) : x \in Fanins(net, k)
    BY <1>2, <1>3, <1>7, <1>10, FanoutMet
  <2>2. k = n
    BY <1>3, <1>4, <1>8, <1>10, <2>1 DEF OneFanout
  <2> QED BY <1>5, <2>1, <2>2
<1>11. CASE x # f /\ x # g
  <2>1. PICK k \in P \cap Logic(net) : k > x /\ x \in Fanins(net, k)
    BY <1>2, <1>3, <1>7, <1>11, FanoutMet
  <2>2. PICK l \in Q \cap Logic(net) : x \in Fanins(net, l)
    BY <1>2, <1>3, <1>7, <1>11, FanoutMet
  <2>3. k = l
    BY <1>4, <1>8, <2>1, <2>2 DEF OneFanout
  <2>4. k \in P \cap Q /\ k \in Nat /\ x \in Nat
    BY <1>3, <1>4, <1>7, <2>1, <2>2, <2>3
  <2> QED BY <1>7, <2>1, <2>4
<1> QED BY <1>9, <1>10, <1>11

\* In a tree every cut is minimal.
LEMMA TreeCutMinimal ==
  ASSUME Arguments, NEW n \in Nodes(net), OneFanout(n),
         NEW C \in CutsOf(n), NEW D \in CutsOf(n), D \subseteq C
  PROVE  D = C
<1>1. IsNetwork(net) /\ limit \in Nat
  BY DEF Arguments
<1>2. SUFFICES ASSUME NEW y \in C, y \notin D PROVE FALSE
  OBVIOUS
<1>3. C \subseteq Met(net, n, C) /\ Met(net, n, C) \subseteq Met(net, n, D)
  BY <1>1, CutFacts, MetMono DEF IsCut
<1>4. y \in Met(net, n, D) \ D /\ y \in Nodes(net)
  BY <1>1, <1>2, <1>3, MetFacts
<1>5. D \cap Met(net, y, D) \in CutsOf(y)
  BY <1>1, <1>4, FeasibleBelow DEF CutsOf
<1>6. PICK z : z \in D /\ z \in Met(net, y, D)
  BY <1>4, <1>5, CutFacts
<1>7. z \in Met(net, y, {}) /\ z # y /\ z \in Met(net, n, C)
  BY <1>1, <1>2, <1>3, <1>4, <1>6, MetMono
<1>8. y \in Met(net, n, {})
  BY <1>1, <1>2, <1>3, MetMono
<1> QED BY <1>1, <1>2, <1>7, <1>8, TreeStop

LEMMA TreeMinimalCuts ==
  ASSUME Arguments, NEW n \in Logic(net), OneFanout(n)
  PROVE  MinimalCuts(n) = CutsOf(n)
<1>1. n \in Nodes(net)
  BY NetFacts DEF Arguments
<1>2. {n} \in CutsOf(n)
  BY <1>1, CutFacts
<1>3. Minimal(CutsOf(n) \ {{n}}) = CutsOf(n) \ {{n}}
  BY <1>1, TreeCutMinimal DEF Minimal
<1> QED BY <1>2, <1>3, MinimalCutsAre

\* A node inside a cut of a tree is an input of another.
LEMMA TreeThrough ==
  ASSUME Arguments, NEW n \in Nodes(net), OneFanout(n),
         NEW C \in CutsOf(n), NEW x \in Met(net, n, C), x \notin C
  PROVE  \E D \in CutsOf(n) : x \in D
<1>1. IsNetwork(net) /\ limit \in Nat \ {0} /\ x \in Nodes(net)
  BY MetFacts DEF Arguments
<1>2. C \cap Met(net, x, C) \in CutsOf(x)
  BY <1>1, FeasibleBelow DEF CutsOf
<1>3. PICK z : z \in C /\ z \in Met(net, x, C)
  BY <1>1, <1>2, CutFacts
<1>4. z # x /\ z \in Met(net, x, {}) /\ x \in Met(net, n, {})
  BY <1>1, <1>3, MetMono
<1>5. PICK S, D : S = C \cup {x} /\ D = Trim(net, n, S)
  OBVIOUS
<1>6. z \notin Met(net, n, S) /\ x \in Met(net, n, S)
  BY <1>1, <1>4, <1>5, TreeStop, MetSelf
<1>7. x \in D /\ D \in SUBSET ((C \ {z}) \cup {x})
  BY <1>5, <1>6 DEF Trim
<1>8. IsFiniteSet(C) /\ Cardinality(C) \in Nat /\ Cardinality(C) <= limit /\ Blocks(net, n, C)
      /\ C \subseteq Nodes(net)
  BY <1>1, CutFacts, FeasibleBlocks DEF CutsOf
<1>9. IsFiniteSet(D) /\ Cardinality(D) <= limit
  <2>1. IsFiniteSet(C \ {z}) /\ Cardinality(C \ {z}) = Cardinality(C) - 1
    BY <1>3, <1>8, FS_RemoveElement
  <2>2. PICK R : R = (C \ {z}) \cup {x}
    OBVIOUS
  <2>3. IsFiniteSet(R) /\ Cardinality(R) <= Cardinality(C) /\ Cardinality(R) \in Nat
    <3>1. x \notin C \ {z}
      OBVIOUS
    <3>2. IsFiniteSet(R) /\ Cardinality(R) = Cardinality(C \ {z}) + 1
      BY <2>1, <2>2, <3>1, FS_AddElement
    <3> QED BY <1>8, <2>1, <3>2
  <2> QED BY <1>1, <1>7, <1>8, <2>2, <2>3, FS_Subset, FS_CardinalityType
<1>10. Blocks(net, n, D)
  <2>1. Blocks(net, n, S)
    BY <1>1, <1>5, <1>8, BlocksMore
  <2>2. Met(net, n, D) = Met(net, n, S)
    BY <1>1, <1>5, TrimMet
  <2> QED BY <1>5, <2>1, <2>2 DEF Blocks, Trim
<1>11. Trim(net, n, D) = D
  <2>1. Met(net, n, D) = Met(net, n, S)
    BY <1>1, <1>5, TrimMet
  <2> QED BY <1>5, <2>1 DEF Trim
<1>12. D \in CutsOf(n)
  BY <1>1, <1>9, <1>10, <1>11, TrimFeasible DEF CutsOf
<1> QED BY <1>7, <1>12

------------------------------------------------------------------------------
(***************************************************************************)
(* In a tree the walk reaches every cut whose inside is marked.            *)
(***************************************************************************)

\* The two parts of a cut of a node.
LEMMA CutParts ==
  ASSUME Arguments, NEW m \in Logic(net), NEW f, f = net.fanin[m][1], NEW g, g = net.fanin[m][2],
         NEW C \in CutsOf(m), C # {m}
  PROVE  \E A \in CutsOf(f), B \in CutsOf(g) :
           /\ C = A \cup B /\ m \notin C
           /\ Met(net, f, A) \ A \subseteq Met(net, m, C) \ C
           /\ Met(net, g, B) \ B \subseteq Met(net, m, C) \ C
           /\ Met(net, m, C) \ C \subseteq {m} \cup (Met(net, f, A) \ A) \cup (Met(net, g, B) \ B)
<1>1. /\ IsNetwork(net) /\ limit \in Nat \ {0} /\ f \in Nodes(net) /\ g \in Nodes(net)
      /\ m \in Nodes(net) /\ f \in Fanins(net, m) /\ g \in Fanins(net, m)
  BY NetFacts DEF Arguments
<1>2. PICK A \in CutsOf(f), B \in CutsOf(g) : Fitting(net, limit, f, g, A, B) /\ C = A \cup B
  BY <1>1, CutIsUnion DEF CutsOf
<1>3. CutOf(net, limit, m, f, g, A, B, C)
  BY <1>1, <1>2, UnionIsCut DEF CutsOf
<1>4. m \notin C
  BY <1>3 DEF CutOf
<1>5. Met(net, f, C) = Met(net, f, A)
  BY <1>1, <1>2, MetMoreStops DEF Fitting
<1>6. Met(net, g, C) = Met(net, g, B)
  <2>1. PICK D : D = B \cup A
    OBVIOUS
  <2>2. Met(net, g, D) = Met(net, g, B)
    BY <1>1, <1>2, <2>1, MetMoreStops DEF Fitting
  <2>3. D = C
    BY <1>2, <2>1
  <2> QED BY <2>2, <2>3
<1>7. /\ Met(net, f, C) \subseteq Met(net, m, C) /\ Met(net, g, C) \subseteq Met(net, m, C)
      /\ Met(net, m, C) \subseteq {m} \cup Met(net, f, C) \cup Met(net, g, C)
  BY <1>1, <1>4, MetSplits
<1>8. B \cap (Met(net, f, A) \ A) = {} /\ A \cap (Met(net, g, B) \ B) = {}
  BY <1>2 DEF Fitting
<1>9. /\ Met(net, f, A) \ A \subseteq Met(net, m, C) \ C
      /\ Met(net, g, B) \ B \subseteq Met(net, m, C) \ C
  BY <1>2, <1>5, <1>6, <1>7, <1>8
<1>10. Met(net, m, C) \ C \subseteq {m} \cup (Met(net, f, A) \ A) \cup (Met(net, g, B) \ B)
  BY <1>2, <1>5, <1>6, <1>7
<1> QED BY <1>2, <1>4, <1>9, <1>10

\* A set of the family with node in it, with nothing else from below node, gets
\* every cut of node in its place whose inside is marked.
Replaces(node, w, v) ==
  \A D \in w.cut, C \in CutsOf(node) :
    /\ node \in D /\ (D \ {node}) \cap Met(net, node, {}) = {}
    /\ Met(net, node, C) \ C \subseteq w.mark
    => (D \ {node}) \cup C \in v.cut

LEMMA WalkReplaces ==
  ASSUME Arguments, NEW n \in Nodes(net), NEW m \in Logic(net), OneFanout(m),
         NEW f, f = net.fanin[m][1], NEW g, g = net.fanin[m][2],
         NEW v \in Walks, Sound(n, v.cut), NEW v0, v0 = Expand(v, m),
         NEW v1, Walked(n, f, v0, v1), Replaces(f, v0, v1),
         NEW v2, Walked(n, g, v1, v2), Replaces(g, v1, v2)
  PROVE  Replaces(m, v, v2)
<1>1. /\ IsNetwork(net) /\ f \in Nodes(net) /\ g \in Nodes(net) /\ f < m /\ g < m /\ f # g
      /\ m \in Nodes(net) /\ f \in Fanins(net, m) /\ g \in Fanins(net, m)
      /\ Nodes(net) \subseteq Nat
  BY NetFacts DEF Arguments
<1>2. PICK P, Q : P = Met(net, f, {}) /\ Q = Met(net, g, {})
  OBVIOUS
<1>3. /\ P \cap Q = {} /\ P \subseteq Met(net, m, {}) /\ Q \subseteq Met(net, m, {})
      /\ f \in P /\ g \in Q /\ P \subseteq 1 .. f /\ Q \subseteq 1 .. g
  <2>1. P \cap Q = {}
    BY <1>1, <1>2, TreeApart
  <2>2. P \subseteq Met(net, m, {}) /\ Q \subseteq Met(net, m, {})
    BY <1>1, <1>2, MetSplits
  <2>3. f \in P /\ g \in Q /\ P \subseteq 1 .. f /\ Q \subseteq 1 .. g
    BY <1>1, <1>2, MetFacts
  <2> QED BY <2>1, <2>2, <2>3
<1>4. f \notin Q /\ g \notin P /\ m \notin P /\ m \notin Q
  BY <1>1, <1>3
<1>5. /\ v0 \in Walks /\ v.cut \subseteq v0.cut /\ v0.mark = v.mark \ {m}
      /\ \A C \in v.cut : m \in C => (C \ {m}) \cup Fanins(net, m) \in v0.cut
  BY <1>1, ExpandFacts
<1>6. /\ v0.cut \subseteq v1.cut /\ v1.cut \subseteq v2.cut
      /\ \A x \in v0.mark : x \in v1.mark \/ x \in P
  BY <1>2 DEF Walked
<1>7. SUFFICES ASSUME NEW D \in v.cut, NEW C \in CutsOf(m), m \in D,
                      (D \ {m}) \cap Met(net, m, {}) = {}, Met(net, m, C) \ C \subseteq v.mark
               PROVE  (D \ {m}) \cup C \in v2.cut
  BY DEF Replaces
<1>8. CASE C = {m}
  <2>1. (D \ {m}) \cup C = D
    BY <1>7, <1>8
  <2> QED BY <1>5, <1>6, <2>1
<1>9. CASE C # {m}
  <2>1. PICK A \in CutsOf(f), B \in CutsOf(g) :
           /\ C = A \cup B /\ m \notin C
           /\ Met(net, f, A) \ A \subseteq Met(net, m, C) \ C
           /\ Met(net, g, B) \ B \subseteq Met(net, m, C) \ C
    BY <1>9, CutParts
  <2>2. /\ Met(net, f, A) \subseteq P /\ Met(net, g, B) \subseteq Q
        /\ A \subseteq P /\ B \subseteq Q
    <3>1. Met(net, f, A) \subseteq P /\ Met(net, g, B) \subseteq Q
      BY <1>1, <1>2, MetMono
    <3>2. A \subseteq Met(net, f, A) /\ B \subseteq Met(net, g, B)
      BY <1>1, CutFacts DEF IsCut
    <3> QED BY <3>1, <3>2
  <2>3. PICK R : R = D \ {m} /\ R \cap P = {} /\ R \cap Q = {}
    BY <1>3, <1>7
  <2>4. PICK D1 : D1 = R \cup {f, g} /\ D1 \in v0.cut
    BY <1>5, <1>7, <2>3 DEF Fanins
  <2>5. Met(net, f, A) \ A \subseteq v0.mark /\ Met(net, g, B) \ B \subseteq v0.mark
    BY <1>4, <1>5, <1>7, <2>1, <2>2
  <2>6. f \in D1 /\ (D1 \ {f}) \cap P = {}
    BY <1>4, <2>3, <2>4
  <2>7. PICK D2 : D2 = (D1 \ {f}) \cup A /\ D2 \in v1.cut
    BY <1>2, <2>4, <2>5, <2>6 DEF Replaces
  <2>8. g \in D2 /\ (D2 \ {g}) \cap Q = {}
    BY <1>1, <1>3, <1>4, <2>2, <2>3, <2>4, <2>7
  <2>9. Met(net, g, B) \ B \subseteq v1.mark
    BY <1>3, <1>6, <2>2, <2>5
  <2>10. (D2 \ {g}) \cup B \in v2.cut
    BY <1>2, <2>7, <2>8, <2>9 DEF Replaces
  <2>11. (D2 \ {g}) \cup B = R \cup C
    BY <1>3, <1>4, <2>1, <2>2, <2>3, <2>4, <2>7
  <2> QED BY <2>3, <2>10, <2>11
<1> QED BY <1>8, <1>9

LEMMA DfsReplaces ==
  ASSUME Arguments, NEW n \in Nodes(net), NEW node \in Nodes(net),
         node \in Inputs(net) \/ IsTree(node), NEW w \in Walks, Sound(n, w.cut)
  PROVE  Replaces(node, w, Dfs[node][w])
<1> DEFINE Right(m) == \A v \in Walks : Sound(n, v.cut) => Replaces(m, v, Dfs[m][v])
           Wrong == {m \in Nodes(net) : (m \in Inputs(net) \/ IsTree(m)) /\ ~Right(m)}
<1>1. SUFFICES ASSUME Wrong # {} PROVE FALSE
  OBVIOUS
<1>2. IsNetwork(net) /\ Nodes(net) \subseteq Nat
  BY NetFacts DEF Arguments
<1>3. PICK m \in Wrong : \A k \in Wrong : m <= k
  <2>1. Wrong \subseteq Nat
    BY <1>2
  <2> HIDE DEF Wrong
  <2> QED BY <1>1, <2>1, LeastNumber
<1>4. /\ m \in Nodes(net) /\ (m \in Inputs(net) \/ IsTree(m)) /\ ~Right(m)
      /\ \A k \in Nodes(net) : k < m /\ (k \in Inputs(net) \/ IsTree(k)) => Right(k)
  BY <1>2, <1>3
<1> HIDE DEF Wrong
<1>5. PICK v \in Walks : Sound(n, v.cut) /\ ~Replaces(m, v, Dfs[m][v])
  BY <1>4
<1>6. Dfs[m][v] = DfsBody(m, Dfs, v)
  BY <1>2, <1>4, DfsDef
\* Where the walk does not go on, the only such cut is the node by itself.
<1>7. m \in v.mark /\ m \notin Inputs(net)
  <2>1. SUFFICES ASSUME m \notin v.mark \/ m \in Inputs(net) PROVE FALSE
    OBVIOUS
  <2>2. Dfs[m][v] = v
    BY <1>6, <2>1 DEF DfsBody
  <2>3. ASSUME NEW C \in CutsOf(m), Met(net, m, C) \ C \subseteq v.mark
        PROVE  C = {m}
    <3>1. m \in Met(net, m, C) /\ IsCut(net, m, C)
      BY <1>2, <1>4, CutFacts, MetFacts
    <3>2. m \in C
      BY <2>1, <2>3, <3>1 DEF IsCut
    <3>3. Met(net, m, C) = {m}
      BY <1>2, <1>4, <3>2, MetStopped
    <3> QED BY <3>1, <3>2, <3>3 DEF IsCut
  <2>4. ASSUME NEW D \in v.cut, NEW C \in CutsOf(m), m \in D, Met(net, m, C) \ C \subseteq v.mark
        PROVE  (D \ {m}) \cup C \in v.cut
    <3>1. (D \ {m}) \cup C = D
      BY <2>3, <2>4
    <3> QED BY <3>1
  <2>5. Replaces(m, v, v)
    BY <2>4 DEF Replaces
  <2> QED BY <1>5, <2>2, <2>5
<1>8. PICK f, g : f = net.fanin[m][1] /\ g = net.fanin[m][2]
  OBVIOUS
<1>9. /\ m \in Logic(net) /\ f \in Nodes(net) /\ g \in Nodes(net) /\ f < m /\ g < m
      /\ f \in Fanins(net, m) /\ g \in Fanins(net, m)
  BY <1>2, <1>4, <1>7, <1>8, NetFacts
<1>10. OneFanout(m) /\ IsTree(f) /\ IsTree(g)
  BY <1>2, <1>4, <1>7, <1>9, TreeFanouts, TreeBelow
<1>11. PICK v0 : v0 = Expand(v, m)
  OBVIOUS
<1>12. v0 \in Walks /\ Sound(n, v0.cut)
  BY <1>2, <1>5, <1>9, <1>11, ExpandFacts
<1>13. PICK v1 : v1 = Dfs[f][v0]
  OBVIOUS
<1>14. Walked(n, f, v0, v1) /\ Replaces(f, v0, v1)
  BY <1>2, <1>4, <1>9, <1>10, <1>12, <1>13, DfsFacts
<1>15. v1 \in Walks /\ Sound(n, v1.cut)
  BY <1>14 DEF Walked
<1>16. PICK v2 : v2 = Dfs[g][v1]
  OBVIOUS
<1>17. Walked(n, g, v1, v2) /\ Replaces(g, v1, v2)
  BY <1>2, <1>4, <1>9, <1>10, <1>15, <1>16, DfsFacts
<1>18. Dfs[m][v] = v2
  BY <1>6, <1>7, <1>8, <1>11, <1>13, <1>16 DEF DfsBody
<1>19. Replaces(m, v, v2)
  BY <1>5, <1>8, <1>9, <1>10, <1>11, <1>14, <1>17, WalkReplaces
<1> QED BY <1>5, <1>18, <1>19

LEMMA WalkFacts ==
  ASSUME Arguments, NEW n \in Logic(net), NEW F, F = Minimal(AtMost(Walk(n).cut, limit)),
         mMark \subseteq Nodes(net), mFpNodeList \in [Nodes(net) -> SUBSET Nodes(net)],
         \A m \in Fanins(net, n) : mFpNodeList[m] = UNION mCut[m],
         \A m \in Fanins(net, n) : m \in Inputs(net) \/ IsTree(m) => mCut[m] = Family(m)
  PROVE  /\ Walk(n).mark \subseteq Nodes(net)
         /\ F \subseteq CutsOf(n)
         /\ IsTree(n) => F = CutsOf(n)
<1>1. /\ IsNetwork(net) /\ limit \in Nat \ {0} /\ n \in Nodes(net)
      /\ Fanins(net, n) \subseteq Nodes(net)
  BY NetFacts DEF Arguments
<1>2. PICK marks : marks = mMark \cup {n} \cup UNION {mFpNodeList[m] : m \in Fanins(net, n)}
  OBVIOUS
<1>3. PICK w : w = [mark |-> marks, cut |-> {{n}}]
  OBVIOUS
<1>4. marks \in SUBSET Nodes(net)
  BY <1>1, <1>2
<1>5. w \in Walks /\ Sound(n, w.cut) /\ w.mark = marks
  BY <1>1, <1>3, <1>4, SoundBegins DEF Walks
<1>6. PICK v : v = Dfs[n][w]
  OBVIOUS
<1>7. Walk(n) = v
  BY <1>2, <1>3, <1>6 DEF Walk
<1>8. v \in Walks /\ Sound(n, v.cut)
  BY <1>1, <1>5, <1>6, DfsFacts DEF Walked
<1>9. v.mark \subseteq Nodes(net)
  BY <1>8 DEF Walks
<1>10. F \subseteq CutsOf(n)
  BY <1>1, <1>7, <1>8, SoundCuts
<1>11. ASSUME IsTree(n), NEW C \in CutsOf(n) PROVE C \in v.cut
  <2>1. OneFanout(n) /\ \A m \in Fanins(net, n) : OneFanout(m) /\ mCut[m] = Family(m)
    BY <1>1, <1>11, TreeFanouts, TreeBelow
  <2>2. ASSUME NEW m \in Fanins(net, n), NEW A \in CutsOf(m), NEW x \in Met(net, m, A) \ A
        PROVE  x \in marks
    <3>1. m \in Nodes(net)
      BY <1>1
    <3>2. PICK D \in CutsOf(m) : x \in D
      BY <2>1, <2>2, <3>1, TreeThrough
    <3>3. m \in Logic(net)
      <4>1. SUFFICES ASSUME m \in Inputs(net) PROVE FALSE
        BY <1>1, <3>1, NetFacts
      <4>2. Met(net, m, A) = {m}
        BY <1>1, <4>1, InputMet
      <4>3. A \subseteq {m} /\ A # {}
        BY <3>1, <4>2, CutFacts DEF IsCut
      <4> QED BY <2>2, <4>2, <4>3
    <3>4. mCut[m] = CutsOf(m)
      <4>1. Family(m) = MinimalCuts(m)
        BY <1>1, <3>3, NetFacts DEF Family
      <4> QED BY <2>1, <3>3, <4>1, TreeMinimalCuts
    <3>5. x \in mFpNodeList[m]
      BY <3>2, <3>4
    <3> QED BY <1>2, <3>5
  <2>3. Met(net, n, C) \ C \subseteq marks
    <3>1. CASE C = {n}
      <4>1. Met(net, n, C) = {n}
        BY <1>1, <3>1, MetStopped
      <4> QED BY <3>1, <4>1
    <3>2. CASE C # {n}
      <4>1. PICK f, g : f = net.fanin[n][1] /\ g = net.fanin[n][2]
        OBVIOUS
      <4>2. f \in Fanins(net, n) /\ g \in Fanins(net, n)
        BY <4>1 DEF Fanins
      <4>3. PICK A \in CutsOf(f), B \in CutsOf(g) :
              Met(net, n, C) \ C \subseteq {n} \cup (Met(net, f, A) \ A) \cup (Met(net, g, B) \ B)
        BY <3>2, <4>1, CutParts
      <4>4. Met(net, f, A) \ A \subseteq marks /\ Met(net, g, B) \ B \subseteq marks
        BY <2>2, <4>2
      <4> QED BY <1>2, <4>3, <4>4
    <3> QED BY <3>1, <3>2
  <2>4. Replaces(n, w, v)
    BY <1>1, <1>5, <1>6, <1>11, DfsReplaces
  <2>5. {n} \in w.cut /\ ({n} \ {n}) \cap Met(net, n, {}) = {} /\ ({n} \ {n}) \cup C = C
    BY <1>3
  <2>6. n \in {n}
    OBVIOUS
  <2>7. ({n} \ {n}) \cup C \in v.cut
    BY <1>5, <2>3, <2>4, <2>5, <2>6 DEF Replaces
  <2> QED BY <2>5, <2>7
<1>12. ASSUME IsTree(n), NEW C \in CutsOf(n) PROVE C \in F
  <2>1. C \in AtMost(v.cut, limit)
    BY <1>1, <1>11, <1>12, CutFacts DEF AtMost
  <2>2. IsFiniteSet(C)
    BY <1>1, CutFacts
  <2>3. PICK D \in Minimal(AtMost(v.cut, limit)) : D \subseteq C
    BY <2>1, <2>2, MinimalBelow
  <2>4. D \in F
    BY <1>7, <2>3
  <2>5. D = C
    BY <1>1, <1>10, <1>12, <2>3, <2>4, TreeFanouts, TreeCutMinimal
  <2> QED BY <2>4, <2>5
<1> QED BY <1>7, <1>9, <1>10, <1>12

------------------------------------------------------------------------------
(***************************************************************************)
(* The invariant: the nodes up to zroot are done.                          *)
(***************************************************************************)
ZddTypes ==
  /\ Arguments /\ zroot \in Nodes(net) /\ net.inputs <= zroot
  /\ mCuts \in [Nodes(net) -> SUBSET SUBSET Nodes(net)]
  /\ mCut \in [Nodes(net) -> SUBSET SUBSET Nodes(net)]
  /\ mMark \subseteq Nodes(net)
  /\ mFpNodeList \in [Nodes(net) -> SUBSET Nodes(net)]

\* The families of a node that is done. What lies in them below a node of a
\* tree is what the walk of its fanout has to mark.
Done(n) ==
  /\ mCuts[n] = Family(n)
  /\ mCut[n] \subseteq CutsOf(n)
  /\ n \in Inputs(net) \/ IsTree(n) => mCut[n] = Family(n)
  /\ mFpNodeList[n] = UNION mCut[n]

ZInv == ZddTypes /\ \A n \in Nodes(net) : n <= zroot => Done(n)

LEMMA InitDone ==
  ASSUME ZddInit
  PROVE  ZInv
<1>1. IsNetwork(net) /\ limit \in Nat \ {0} /\ zroot = net.inputs /\ mMark = {}
  BY NetworksAssumption DEF ZddInit
<1>2. Arguments
  BY <1>1 DEF Arguments
<1>3. /\ mCuts = [n \in Nodes(net) |-> IF n \in Inputs(net) THEN {{n}} ELSE {}]
      /\ mCut = [n \in Nodes(net) |-> IF n \in Inputs(net) THEN {{n}} ELSE {}]
      /\ mFpNodeList = [n \in Nodes(net) |-> IF n \in Inputs(net) THEN {n} ELSE {}]
  BY DEF ZddInit
<1>4. zroot \in Nodes(net) /\ net.inputs <= zroot
  BY <1>1 DEF IsNetwork, Nodes, Inputs
<1>5. ZddTypes
  BY <1>1, <1>2, <1>3, <1>4 DEF ZddTypes
<1>6. ASSUME NEW n \in Nodes(net), n <= zroot
      PROVE  Done(n)
  <2>1. n \in Inputs(net)
    <3>1. n \in Nat \ {0} /\ net.inputs \in Nat
      BY <1>1, NetFacts DEF IsNetwork
    <3> QED BY <1>1, <1>6, <3>1 DEF Inputs
  <2>2. /\ mCuts[n] = {{n}} /\ mCut[n] = {{n}} /\ mFpNodeList[n] = {n} /\ Family(n) = {{n}}
    BY <1>3, <2>1 DEF Family
  <2>3. {n} \in CutsOf(n)
    BY <1>2, CutFacts
  <2> QED BY <2>2, <2>3 DEF Done
<1> QED BY <1>5, <1>6 DEF ZInv

LEMMA NextDone ==
  ASSUME ZInv, ZddNext
  PROVE  ZInv'
<1>1. PICK n, w, F : n = zroot + 1 /\ w = Walk(n) /\ F = Minimal(AtMost(w.cut, limit))
  OBVIOUS
<1>2. /\ n \in Logic(net) /\ zroot' = n /\ mCuts' = [mCuts EXCEPT ![n] = Merged(n)]
      /\ mMark' = w.mark /\ mCut' = [mCut EXCEPT ![n] = F]
      /\ mFpNodeList' = [mFpNodeList EXCEPT ![n] = UNION F] /\ net' = net /\ limit' = limit
  BY <1>1 DEF ZddNext
<1>3. /\ Arguments /\ IsNetwork(net) /\ limit \in Nat \ {0}
      /\ zroot \in Nodes(net) /\ net.inputs <= zroot /\ net.inputs \in Nat
      /\ mCuts \in [Nodes(net) -> SUBSET SUBSET Nodes(net)]
      /\ mCut \in [Nodes(net) -> SUBSET SUBSET Nodes(net)]
      /\ mMark \subseteq Nodes(net)
      /\ mFpNodeList \in [Nodes(net) -> SUBSET Nodes(net)]
  BY DEF ZInv, ZddTypes, Arguments, IsNetwork
<1>4. n \in Nodes(net) /\ Nodes(net) \subseteq Nat /\ \A m \in Fanins(net, n) : m \in Nodes(net) /\ m < n
  BY <1>2, <1>3, NetFacts
<1>5. \A m \in Nodes(net) : m < n => Done(m)
  <2>1. \A m \in Nodes(net) : m < n => m <= zroot
    BY <1>1, <1>3, <1>4
  <2> QED BY <2>1 DEF ZInv
<1>6. Merged(n) = MinimalCuts(n)
  BY <1>2, <1>3, <1>4, <1>5, MergedIsMinimal DEF Done
<1>7. /\ w.mark \subseteq Nodes(net) /\ F \subseteq CutsOf(n) /\ (IsTree(n) => F = CutsOf(n))
  BY <1>1, <1>2, <1>3, <1>4, <1>5, WalkFacts DEF Done
<1>8. /\ MinimalCuts(n) \subseteq SUBSET Nodes(net) /\ F \subseteq SUBSET Nodes(net)
      /\ Family(n) = MinimalCuts(n) /\ n \notin Inputs(net)
      /\ IsTree(n) => F = MinimalCuts(n)
  <2>1. n \notin Inputs(net) /\ Family(n) = MinimalCuts(n)
    BY <1>2, <1>3, NetFacts DEF Family
  <2>2. Family(n) \subseteq CutsOf(n) /\ CutsOf(n) \subseteq SUBSET Nodes(net)
    BY <1>3, <1>4, FamilyFacts, CutFacts
  <2>3. IsTree(n) => CutsOf(n) = MinimalCuts(n)
    BY <1>2, <1>3, <1>4, TreeFanouts, TreeMinimalCuts
  <2> QED BY <1>7, <2>1, <2>2, <2>3
<1>9. ZddTypes'
  <2>1. mCuts' \in [Nodes(net) -> SUBSET SUBSET Nodes(net)]
    BY <1>2, <1>3, <1>4, <1>6, <1>8
  <2>2. mCut' \in [Nodes(net) -> SUBSET SUBSET Nodes(net)]
    BY <1>2, <1>3, <1>4, <1>8
  <2>3. mFpNodeList' \in [Nodes(net) -> SUBSET Nodes(net)]
    BY <1>2, <1>3, <1>4, <1>8
  <2>4. net.inputs <= n
    BY <1>1, <1>3, <1>4
  <2> QED BY <1>2, <1>3, <1>4, <1>7, <2>1, <2>2, <2>3, <2>4 DEF ZddTypes, Arguments
<1>10. ASSUME NEW m \in Nodes(net), m <= n
       PROVE  Done(m)'
  <2>1. /\ Family(m)' = Family(m) /\ CutsOf(m)' = CutsOf(m) /\ IsTree(m)' = IsTree(m)
        /\ Inputs(net)' = Inputs(net)
    BY <1>2 DEF Family, CutsOf, IsTree, MinimalCuts
  <2>2. CASE m = n
    <3>1. mCuts'[m] = MinimalCuts(m) /\ mCut'[m] = F /\ mFpNodeList'[m] = UNION F
      BY <1>2, <1>3, <1>4, <1>6, <2>2
    <3> QED BY <1>7, <1>8, <2>1, <2>2, <3>1 DEF Done
  <2>3. CASE m # n
    <3>1. Done(m)
      BY <1>4, <1>5, <1>10, <2>3
    <3>2. mCuts'[m] = mCuts[m] /\ mCut'[m] = mCut[m] /\ mFpNodeList'[m] = mFpNodeList[m]
      BY <1>2, <1>3, <2>3
    <3> QED BY <2>1, <3>1, <3>2 DEF Done
  <2> QED BY <2>2, <2>3
<1>11. \A m \in Nodes(net)' : m <= zroot' => Done(m)'
  BY <1>2, <1>10
<1> QED BY <1>9, <1>11 DEF ZInv

LEMMA DoneAgrees ==
  ASSUME ZInv
  PROVE  ZddsAgree
<1>1. Arguments /\ IsNetwork(net) /\ zroot \in Nodes(net)
  BY DEF ZInv, ZddTypes, Arguments
<1>2. ASSUME NEW n \in Logic(net), n \in 1 .. zroot
      PROVE  /\ mCuts[n] = MinimalCuts(n)
             /\ \A C \in mCut[n] : C = {n} \/ IsCut(net, n, C)
             /\ IsTree(n) => mCut[n] = MinimalCuts(n)
  <2>1. n \in Nodes(net) /\ n \notin Inputs(net) /\ n <= zroot
    BY <1>1, <1>2, NetFacts
  <2>2. Done(n)
    BY <2>1 DEF ZInv
  <2>3. Family(n) = MinimalCuts(n)
    BY <2>1 DEF Family
  <2>4. \A C \in mCut[n] : IsCut(net, n, C)
    BY <1>1, <2>1, <2>2, CutFacts DEF Done
  <2> QED BY <2>2, <2>3, <2>4 DEF Done
<1> QED BY <1>2 DEF ZddsAgree

\* ZddImp and ZddImp2 build the minimal cuts of every node within the limit,
\* and the node itself; ZddTopDown leaves nothing but cuts of the node, whichever
\* marks the walks before have left, and all of the minimal ones of a node from
\* which no two paths meet again.
THEOREM FamiliesAreCuts == ZddSpec => []ZddsAgree
<1>1. ZddInit => ZInv
  BY InitDone
<1>2. ZInv /\ [ZddNext]_zddVars => ZInv'
  <2>1. ASSUME ZInv, UNCHANGED zddVars PROVE ZInv'
    <3>1. /\ net' = net /\ limit' = limit /\ zroot' = zroot /\ mCuts' = mCuts /\ mCut' = mCut
          /\ mMark' = mMark /\ mFpNodeList' = mFpNodeList
      BY <2>1 DEF zddVars
    <3>2. ZddTypes'
      BY <2>1, <3>1 DEF ZInv, ZddTypes, Arguments
    <3>3. ASSUME NEW n \in Nodes(net), n <= zroot PROVE Done(n)'
      <4>1. Done(n)
        BY <2>1, <3>3 DEF ZInv
      <4>2. Family(n)' = Family(n) /\ CutsOf(n)' = CutsOf(n) /\ IsTree(n)' = IsTree(n)
        BY <3>1 DEF Family, CutsOf, IsTree, MinimalCuts
      <4> QED BY <3>1, <4>1, <4>2 DEF Done
    <3> QED BY <3>1, <3>2, <3>3 DEF ZInv
  <2> QED BY <2>1, NextDone
<1>3. ZInv => ZddsAgree
  BY DoneAgrees
<1> QED BY <1>1, <1>2, <1>3, PTL DEF ZddSpec
=============================================================================
