------------------------------ MODULE ImpProofs ------------------------------
(***************************************************************************)
(* Proofs about the engine and the learners of programs/imp, for every set *)
(* of networks, every bound and every sequence of learners.                *)
(*                                                                         *)
(* ImpEngine.  Safety: type correctness, soundness of the implications and *)
(* of the constants, and that no ASSERT_COND of prop_const fires.          *)
(* Refinement: the engine implements ImpAbs, each of its steps decides,    *)
(* infers, accepts, refuses or undoes, or changes nothing a client sees.   *)
(* Completeness: after an assert no direct implication is left undone.     *)
(*                                                                         *)
(* ImpLearn and NaImp.  What StrImp, ConstImp, ContraImp, RlImp and the    *)
(* variants of NaImp learn holds in every assignment, is closed under      *)
(* contraposition, nothing of one assert is left when the next begins, and *)
(* no assertion of the engine or of NaImp fires.  SatImp is left out: its  *)
(* last loop calls set_const before backtrack, and the run sat_const_order *)
(* shows that a constant can then be wrong.                                *)
(***************************************************************************)
EXTENDS NaImp, SequenceTheorems, WellFoundedInduction, TLAPS

(***************************************************************************)
(* The state tables.  a[1] and a[2] stand for the values on the pins of an *)
(* AND node in some assignment of the network and a[Out] for its output.   *)
(***************************************************************************)
Rows == [1 .. 3 -> Bit]
IsAndRow(a) == a[Out] = IF a[1] = 1 /\ a[2] = 1 THEN 1 ELSE 0
Covers(s, a) == \A k \in 1 .. 3 : s[k] \in {X, a[k]}

\* Setting a pin of an AND node to the value it has in an assignment meets no
\* conflict and sets only values of that assignment.
LEMMA FwdSound ==
  ASSUME NEW s \in AndStates, NEW a \in Rows, IsAndRow(a), Covers(s, a),
         NEW p \in Pin
  PROVE  /\ ~FwdConflict(s, p, a[p])
         /\ FwdState(s, p, a[p]) \in AndStates
         /\ Covers(FwdState(s, p, a[p]), a)
PROOF
  <1>1. CASE p = 1
    BY <1>1 DEF AndStates, States, V3, X, Out, Rows, Bit, IsAndRow, Covers,
                Pin, FwdConflict, FwdState, Other
  <1>2. CASE p = 2
    BY <1>2 DEF AndStates, States, V3, X, Out, Rows, Bit, IsAndRow, Covers,
                Pin, FwdConflict, FwdState, Other
  <1> QED  BY <1>1, <1>2 DEF Pin

\* A forward step keeps one of the ten states, and its result differs from
\* the old state only in values that are not X.
LEMMA FwdType ==
  ASSUME NEW s \in AndStates, NEW p \in Pin, NEW v \in Bit, ~FwdConflict(s, p, v)
  PROVE  /\ FwdState(s, p, v) \in AndStates
         /\ FwdState(s, p, v)[Out] # s[Out] => FwdState(s, p, v)[Out] \in Bit
         /\ FwdState(s, p, v)[Other(p)] # s[Other(p)] => FwdState(s, p, v)[Other(p)] = 0
PROOF
  <1>1. CASE p = 1
    BY <1>1 DEF AndStates, States, V3, X, Out, Bit, Pin, FwdConflict, FwdState, Other
  <1>2. CASE p = 2
    BY <1>2 DEF AndStates, States, V3, X, Out, Bit, Pin, FwdConflict, FwdState, Other
  <1> QED  BY <1>1, <1>2 DEF Pin

\* The same for an output set by backward implication, of an AND node ...
LEMMA BwdSound ==
  ASSUME NEW s \in AndStates, NEW a \in Rows, IsAndRow(a), Covers(s, a)
  PROVE  /\ ~BwdConflict(s, a[Out])
         /\ Covers(BwdState(s, a[Out], FALSE), a)
         /\ \A p \in BwdPins(s, a[Out]) : a[p] = a[Out]
PROOF
  BY DEF AndStates, States, V3, X, Out, Rows, Bit, IsAndRow, Covers, Pin,
         BwdConflict, BwdState, BwdPins, Other

LEMMA BwdType ==
  ASSUME NEW s \in AndStates, NEW v \in Bit, ~BwdConflict(s, v)
  PROVE  /\ BwdState(s, v, FALSE) \in AndStates
         /\ BwdPins(s, v) \subseteq Pin
PROOF
  BY DEF AndStates, States, V3, X, Out, Bit, Pin, BwdConflict, BwdState,
         BwdPins, Other

\* ... and of an input.
LEMMA InputBwd ==
  ASSUME NEW s \in InputStates, NEW v \in Bit
  PROVE  /\ ~BwdConflict(s, v) => BwdState(s, v, TRUE) \in InputStates
         /\ s[Out] \in {X, v} => /\ ~BwdConflict(s, v)
                                 /\ BwdState(s, v, TRUE)[Out] = v
PROOF
  BY DEF InputStates, States, V3, X, Out, Bit, BwdConflict, BwdState

\* A constant on a pin with the value of an assignment fires no assertion.
LEMMA ConstSound1 ==
  ASSUME NEW s \in AndStates, NEW a \in Rows, IsAndRow(a), Covers(s, a),
         NEW p \in Pin
  PROVE  /\ ~ConstAbort(s, p, a[p])
         /\ Covers(ConstState(s, p, a[p]), a)
         /\ ConstOut(s, p, a[p]) \in {X, a[Out]}
PROOF
  <1>1. CASE p = 1
    BY <1>1 DEF AndStates, States, V3, X, Out, Rows, Bit, IsAndRow, Covers,
                Pin, ConstAbort, ConstState, ConstOut, FwdState, Other
  <1>2. CASE p = 2
    BY <1>2 DEF AndStates, States, V3, X, Out, Rows, Bit, IsAndRow, Covers,
                Pin, ConstAbort, ConstState, ConstOut, FwdState, Other
  <1> QED  BY <1>1, <1>2 DEF Pin

LEMMA ConstType ==
  ASSUME NEW s \in AndStates, NEW p \in Pin, NEW v \in Bit, ~ConstAbort(s, p, v)
  PROVE  /\ ConstState(s, p, v) \in AndStates
         /\ ConstOut(s, p, v) \in V3
PROOF
  <1>1. CASE p = 1
    BY <1>1 DEF AndStates, States, V3, X, Out, Bit, Pin, ConstAbort,
                ConstState, ConstOut, FwdState, Other
  <1>2. CASE p = 2
    BY <1>2 DEF AndStates, States, V3, X, Out, Bit, Pin, ConstAbort,
                ConstState, ConstOut, FwdState, Other
  <1> QED  BY <1>1, <1>2 DEF Pin
------------------------------------------------------------------------------
(***************************************************************************)
(* The change stack: what Restored gives back.                             *)
(***************************************************************************)

\* The set form of the least number principle.
LEMMA LeastNat ==
  ASSUME NEW S, S \subseteq Nat, S # {}
  PROVE  \E i \in S : \A j \in S : i <= j
PROOF
  <1> DEFINE Less == {q \in Nat \X Nat : q[1] < q[2]}
  <1>0. IsWellFoundedOn(Less, Nat)
    BY NatLessThanWellFounded, Zenon DEF OpToRel
  <1>1. PICK i \in S : \A j \in S : <<j, i>> \notin Less
    <2> HIDE DEF Less
    <2> QED  BY <1>0, WFMin
  <1>2. \A x, y \in Nat : <<x, y>> \notin Less => y <= x
    OBVIOUS
  <1>3. \A j \in S : i <= j
    <2> HIDE DEF Less
    <2> QED  BY <1>1, <1>2
  <1> QED  BY <1>3

LEMMA OldestIs ==
  ASSUME NEW S, S \subseteq Nat, NEW m \in S, \A j \in S : m <= j
  PROVE  Oldest(S) = m
PROOF
  <1>1. \A i, j \in S : i \in Int /\ j \in Int  OBVIOUS
  <1>2. \A i \in S : (\A j \in S : i <= j) => i = m
    BY <1>1
  <1> QED  BY <1>2 DEF Oldest

LEMMA OldestExists ==
  ASSUME NEW S, S \subseteq Nat, S # {}
  PROVE  Oldest(S) \in S /\ \A j \in S : Oldest(S) <= j
PROOF
  BY LeastNat DEF Oldest

LEMMA SavedNat ==
  ASSUME NEW c, Len(c) \in Nat, NEW n, NEW pos \in Nat
  PROVE  Saved(c, n, pos) \subseteq Nat
PROOF  BY DEF Saved

\* Saving a state before changing it leaves every restorable state alone.
LEMMA RestoredChange ==
  ASSUME NEW C, NEW c \in Seq(C), NEW s, NEW n \in DOMAIN s, NEW t,
         [n |-> n, s |-> s[n]] \in C,
         NEW pos \in 0 .. Len(c)
  PROVE  Restored([s EXCEPT ![n] = t], Append(c, [n |-> n, s |-> s[n]]), pos)
           = Restored(s, c, pos)
PROOF
  <1> DEFINE d == Append(c, [n |-> n, s |-> s[n]])
             u == [s EXCEPT ![n] = t]
             l == Len(c)
  <1>0. /\ l \in Nat /\ Len(d) = l + 1
        /\ \A i \in 1 .. l : d[i] = c[i]
        /\ d[l + 1] = [n |-> n, s |-> s[n]]
    BY AppendProperties
  <1> HIDE DEF d
  <1>1. \A m \in DOMAIN s : m # n => Saved(d, m, pos) = Saved(c, m, pos)
    BY <1>0 DEF Saved
  <1>2. Saved(d, n, pos) = Saved(c, n, pos) \cup {l + 1}
    BY <1>0 DEF Saved
  <1>3. ASSUME NEW m \in DOMAIN s
        PROVE  Restored(u, d, pos)[m] = Restored(s, c, pos)[m]
    <2> DEFINE S == Saved(c, m, pos)
    <2>0. S \subseteq 1 .. l /\ S \subseteq Nat
      BY <1>0 DEF Saved
    <2>1. CASE m # n
      <3>1. S # {} => d[Oldest(S)] = c[Oldest(S)]
        BY <2>0, <1>0, OldestExists
      <3> QED  BY <2>1, <1>1, <3>1 DEF Restored
    <2>2. CASE m = n /\ S = {}
      <3>1. Saved(d, n, pos) = {l + 1}
        BY <2>2, <1>2
      <3>2. Oldest({l + 1}) = l + 1
        <4> DEFINE O == {l + 1}
        <4>1. O \subseteq Nat /\ l + 1 \in O /\ \A j \in O : l + 1 <= j
          BY <1>0
        <4> HIDE DEF O
        <4>2. Oldest(O) = l + 1
          BY <4>1, OldestIs
        <4> QED  BY <4>2 DEF O
      <3>3. Restored(u, d, pos)[n] = d[l + 1].s
        BY <3>1, <3>2 DEF Restored
      <3>4. Restored(s, c, pos)[n] = s[n]
        BY <2>2 DEF Restored
      <3> QED  BY <2>2, <3>3, <3>4, <1>0
    <2>3. CASE m = n /\ S # {}
      <3>1. Oldest(S) \in S /\ \A j \in S : Oldest(S) <= j
        BY <2>0, <2>3, OldestExists
      <3>2. Oldest(Saved(d, n, pos)) = Oldest(S)
        <4>1. \A j \in Saved(d, n, pos) : Oldest(S) <= j
          BY <3>1, <2>0, <2>3, <1>0, <1>2
        <4>2. Saved(d, n, pos) \subseteq Nat /\ Oldest(S) \in Saved(d, n, pos)
          BY <3>1, <2>0, <2>3, <1>0, <1>2
        <4> QED
          <5> HIDE DEF S
          <5> QED  BY <4>1, <4>2, OldestIs
      <3> QED  BY <2>3, <3>1, <3>2, <2>0, <1>0, <1>2 DEF Restored
    <2> QED  BY <2>1, <2>2, <2>3
  <1>4. DOMAIN Restored(u, d, pos) = DOMAIN Restored(s, c, pos)
    BY DEF Restored
  <1> QED  BY <1>3, <1>4 DEF Restored, d

\* Restoring to a later mark first changes nothing.
LEMMA RestoredTwice ==
  ASSUME NEW C, NEW c \in Seq(C), NEW s,
         NEW q \in 0 .. Len(c), NEW pos \in 0 .. q
  PROVE  Restored(Restored(s, c, q), SubSeq(c, 1, q), pos) = Restored(s, c, pos)
PROOF
  <1> DEFINE d == SubSeq(c, 1, q)
             u == Restored(s, c, q)
  <1>0. /\ Len(c) \in Nat /\ Len(d) = q
        /\ \A i \in 1 .. q : d[i] = c[i]
    BY SubSeqProperties, ElementOfSeq
  <1> HIDE DEF d
  <1>1. ASSUME NEW m \in DOMAIN s
        PROVE  Restored(u, d, pos)[m] = Restored(s, c, pos)[m]
    <2> DEFINE S == Saved(c, m, pos)
               T == Saved(d, m, pos)
    <2>0. /\ S \subseteq Nat /\ T \subseteq Nat
          /\ T = S \cap (1 .. q)
          /\ Saved(c, m, q) = S \ (1 .. q)
      BY <1>0 DEF Saved
    <2>1. CASE T = {}
      <3>1. Saved(c, m, q) = S
        BY <2>0, <2>1
      <3> QED  BY <2>1, <3>1 DEF Restored
    <2>2. CASE T # {}
      <3>1. Oldest(T) \in T /\ \A j \in T : Oldest(T) <= j
        BY <2>0, <2>2, OldestExists
      <3>2. ASSUME NEW j \in S  PROVE Oldest(T) <= j
        <4>1. CASE j \in 1 .. q
          BY <4>1, <3>1, <2>0
        <4>2. CASE j \notin 1 .. q
          <5>1. j \in Nat /\ j > q /\ Oldest(T) \in 1 .. q
            <6>1. j >= pos + 1 /\ j \in Nat
              BY <2>0, <1>0 DEF Saved
            <6> QED  BY <6>1, <4>2, <3>1, <2>0
          <5> QED  BY <5>1
        <4> QED  BY <4>1, <4>2
      <3>3. Oldest(S) = Oldest(T)
        BY <3>1, <3>2, <2>0, OldestIs
      <3>4. d[Oldest(T)] = c[Oldest(T)]
        BY <3>1, <2>0, <1>0
      <3> QED  BY <2>2, <3>1, <3>3, <3>4, <2>0 DEF Restored
    <2> QED  BY <2>1, <2>2
  <1>2. DOMAIN Restored(u, d, pos) = DOMAIN Restored(s, c, pos)
    BY DEF Restored
  <1> QED  BY <1>1, <1>2 DEF Restored, d

LEMMA RestoredNow ==
  ASSUME NEW c, Len(c) \in Nat, NEW s, s = [n \in DOMAIN s |-> s[n]]
  PROVE  Restored(s, c, Len(c)) = s
PROOF
  <1>1. \A n : Saved(c, n, Len(c)) = {}
    BY DEF Saved
  <1> QED  BY <1>1 DEF Restored
------------------------------------------------------------------------------
(***************************************************************************)
(* Networks and assignments.                                               *)
(***************************************************************************)
Row(c, f, n) == [k \in 1 .. 3 |-> IF k = Out THEN f[n] ELSE PinVal(c, f, n, k)]

LEMMA FlipBit ==
  /\ \A v, i \in Bit : Flip(v, i) \in Bit
  /\ \A v, w, i \in Bit : Flip(v, i) = w <=> v = Flip(w, i)
PROOF  BY DEF Flip, Bit, X

LEMMA CircuitFacts ==
  ASSUME NEW c, IsCircuit(c)
  PROVE  /\ \A n \in Ands(c), p \in Pin :
              /\ c.src[n][p] \in Nodes(c) /\ c.inv[n][p] \in Bit
         /\ Ands(c) \subseteq Nodes(c) /\ Inputs(c) \subseteq Nodes(c)
         /\ \A n \in Nodes(c) : n \in Inputs(c) <=> n \notin Ands(c)
PROOF
  <1>1. c.ni \in Nat /\ c.nn \in Nat /\ c.ni <= c.nn
    BY DEF IsCircuit
  <1>2. \A n \in Ands(c) : n \in Nat /\ n < c.nn /\ n \in Nodes(c)
    BY <1>1 DEF Ands, Nodes
  <1>3. ASSUME NEW n \in Ands(c), NEW p \in Pin
        PROVE  c.src[n][p] \in Nodes(c) /\ c.inv[n][p] \in Bit
    <2>1. c.src[n][p] \in Nat /\ c.src[n][p] < n /\ c.inv[n][p] \in Bit
      BY DEF IsCircuit
    <2> QED  BY <2>1, <1>1, <1>2 DEF Nodes
  <1> QED  BY <1>1, <1>2, <1>3 DEF Ands, Inputs, Nodes

\* The values of an AND node and its pins in an assignment obey the gate.
LEMMA RowFacts ==
  ASSUME NEW c, IsCircuit(c), NEW f \in Consistent(c), NEW n \in Ands(c)
  PROVE  /\ Row(c, f, n) \in Rows /\ IsAndRow(Row(c, f, n))
         /\ \A p \in Pin : Row(c, f, n)[p] = PinVal(c, f, n, p)
         /\ \A p \in Pin : PinVal(c, f, n, p) \in Bit
         /\ Row(c, f, n)[Out] = f[n] /\ f[n] \in Bit
PROOF
  <1>1. f \in [Nodes(c) -> Bit] /\ n \in Nodes(c) /\ f[n] \in Bit
    BY CircuitFacts DEF Consistent
  <1>2. \A p \in Pin : PinVal(c, f, n, p) \in Bit
    BY <1>1, CircuitFacts, FlipBit DEF PinVal
  <1>3. f[n] = IF PinVal(c, f, n, 1) = 1 /\ PinVal(c, f, n, 2) = 1 THEN 1 ELSE 0
    BY DEF Consistent
  <1> QED  BY <1>1, <1>2, <1>3 DEF Row, Rows, IsAndRow, Out, Pin

\* What Agrees says of one node.
NodeAgrees(c, s, f, n) ==
  IF n \in Inputs(c) THEN s[Out] \in {X, f[n]} ELSE Covers(s, Row(c, f, n))

LEMMA AgreesNode ==
  ASSUME IsCircuit(net), NEW f \in Consistent(net), NEW s
  PROVE  Agrees(s, f) <=> \A n \in Nodes(net) : NodeAgrees(net, s[n], f, n)
PROOF
  <1>1. ASSUME NEW n \in Ands(net)
        PROVE  NodeAgrees(net, s[n], f, n) <=>
                 /\ s[n][Out] \in {X, f[n]}
                 /\ \A p \in Pin : s[n][p] \in {X, PinVal(net, f, n, p)}
    <2>1. n \notin Inputs(net)
      BY CircuitFacts
    <2>2. Row(net, f, n)[1] = PinVal(net, f, n, 1) /\ Row(net, f, n)[2] = PinVal(net, f, n, 2)
          /\ Row(net, f, n)[3] = f[n]
      BY RowFacts DEF Pin, Out
    <2>3. \A k : k \in 1 .. 3 <=> k \in Pin \/ k = Out
      BY DEF Pin, Out
    <2> QED  BY <2>1, <2>2, <2>3 DEF NodeAgrees, Covers, Pin, Out
  <1> QED  BY <1>1, CircuitFacts DEF Agrees, NodeAgrees

LEMMA AgreesChange ==
  ASSUME IsCircuit(net), NEW f \in Consistent(net), NEW s, Agrees(s, f),
         DOMAIN s = Nodes(net),
         NEW n \in Nodes(net), NEW t, NodeAgrees(net, t, f, n)
  PROVE  Agrees([s EXCEPT ![n] = t], f)
PROOF
  <1>1. \A m \in Nodes(net) : NodeAgrees(net, [s EXCEPT ![n] = t][m], f, m)
    BY AgreesNode
  <1> QED  BY <1>1, AgreesNode

LEMMA NetIsCircuit == ASSUME TypeInv PROVE IsCircuit(net)
PROOF  BY CircuitsAssumption DEF TypeInv
------------------------------------------------------------------------------
(***************************************************************************)
(* The call stack.                                                         *)
(***************************************************************************)
LEMMA StackFacts ==
  ASSUME IInv, agenda # <<>>
  PROVE  /\ Top \in CallFrames /\ Callers \in Seq(CallFrames)
         /\ \A f \in Consistent(net) : Satisfies(f, Len(dec)) =>
              /\ Top \in TrueFrames(f) /\ Callers \in Seq(TrueFrames(f))
PROOF
  <1>1. agenda \in Seq(CallFrames)
    BY DEF IInv, CallsInv
  <1>2. Top \in CallFrames /\ Callers \in Seq(CallFrames)
    BY <1>1, HeadTailProperties DEF Top, Callers
  <1>3. ASSUME NEW f \in Consistent(net), Satisfies(f, Len(dec))
        PROVE  Top \in TrueFrames(f) /\ Callers \in Seq(TrueFrames(f))
    <2>1. agenda \in Seq(TrueFrames(f))
      BY <1>3 DEF IInv, ModelsInv
    <2> QED  BY <2>1, HeadTailProperties DEF Top, Callers
  <1> QED  BY <1>2, <1>3

LEMMA Push ==
  ASSUME NEW S, NEW r \in S, NEW q \in Seq(S)
  PROVE  <<r>> \o q \in Seq(S) /\ <<r>> \o q # <<>>
PROOF
  <1>1. <<r>> \in Seq(S) /\ Len(<<r>>) = 1
    OBVIOUS
  <1> QED  BY <1>1, ConcatProperties, ConcatEqualIffEmpty

LEMMA TopWithoutFacts ==
  ASSUME IInv, agenda # <<>>, NEW e
  PROVE  /\ TopWithout(e) \in Seq(CallFrames) /\ TopWithout(e) # <<>>
         /\ \A f \in Consistent(net) : Satisfies(f, Len(dec)) =>
              TopWithout(e) \in Seq(TrueFrames(f))
PROOF
  <1> DEFINE r == [Top EXCEPT !.todo = @ \ {e}]
  <1>1. r \in CallFrames
    <2>1. Top \in Frames
      BY StackFacts DEF CallFrames
    <2>2. r \in Frames /\ r.op = Top.op /\ r.n = Top.n /\ r.v = Top.v
          /\ r.todo \subseteq Top.todo
      BY <2>1 DEF Frames
    <2> HIDE DEF r
    <2> QED  BY <2>2, StackFacts DEF CallFrames
  <1>2. ASSUME NEW f \in Consistent(net), Satisfies(f, Len(dec))
        PROVE  r \in TrueFrames(f)
    <2>1. Top \in Frames /\ f[Top.n] = Top.v
      BY <1>2, StackFacts DEF TrueFrames, CallFrames
    <2>2. r.n = Top.n /\ r.v = Top.v
      BY <2>1 DEF Frames
    <2> QED  BY <2>1, <2>2, <1>1 DEF TrueFrames
  <1> HIDE DEF r
  <1> QED  BY <1>1, <1>2, StackFacts, Push DEF TopWithout, r

\* What remains after a conflict is a suffix of the stack.
LEMMA SuffixFacts ==
  ASSUME IInv, NEW i \in 1 .. Len(agenda)
  PROVE  SubSeq(agenda, i + 1, Len(agenda)) \in Seq(CallFrames)
PROOF
  <1>1. agenda \in Seq(CallFrames) /\ Len(agenda) \in Nat
    BY DEF IInv, CallsInv
  <1>2. \A j \in (i + 1) .. Len(agenda) : agenda[j] \in CallFrames
    BY <1>1, ElementOfSeq
  <1> QED  BY <1>1, <1>2, SubSeqProperties

\* The stack of changes after change_value.
LEMMA ChangeFacts ==
  ASSUME IInv, NEW n \in Nodes(net), NEW t \in StateSet(n), Change(n, t)
  PROVE  /\ st' = [st EXCEPT ![n] = t]
         /\ st' \in [Nodes(net) -> States] /\ \A m \in Nodes(net) : st'[m] \in StateSet(m)
         /\ chg' \in Seq(Changes) /\ Len(chg) <= Len(chg')
         /\ \A k \in 1 .. Len(mark) :
              Restored(st', chg', mark[k]) = Restored(st, chg, mark[k])
PROOF
  <1>0. /\ st \in [Nodes(net) -> States] /\ \A m \in Nodes(net) : st[m] \in StateSet(m)
        /\ chg \in Seq(Changes) /\ Len(chg) \in Nat
        /\ \A k \in 1 .. Len(mark) : mark[k] \in 0 .. Len(chg)
    <2>1. mark \in Seq(Nat) /\ chg \in Seq(Changes)
      BY DEF IInv, TypeInv
    <2>2. \A k \in 1 .. Len(mark) : mark[k] \in Nat /\ mark[k] <= Len(chg)
      BY <2>1, ElementOfSeq DEF IInv, MarksOrdered
    <2> QED  BY <2>1, <2>2 DEF IInv, TypeInv
  <1>1. t \in States
    BY DEF StateSet, AndStates, InputStates
  <1>2. CASE t = st[n]
    BY <1>0, <1>2 DEF Change
  <1>3. CASE t # st[n]
    <2>1. st' = [st EXCEPT ![n] = t] /\ chg' = Append(chg, [n |-> n, s |-> st[n]])
      BY <1>3 DEF Change
    <2>2. [n |-> n, s |-> st[n]] \in Changes
      BY <1>0 DEF Changes
    <2>3. chg' \in Seq(Changes) /\ Len(chg) <= Len(chg')
      <3>1. \A r \in Changes : /\ Append(chg, r) \in Seq(Changes)
                               /\ Len(Append(chg, r)) = Len(chg) + 1
        BY <1>0, AppendProperties
      <3> QED  BY <1>0, <2>1, <2>2, <3>1
    <2>4. ASSUME NEW k \in 1 .. Len(mark)
          PROVE  Restored(st', chg', mark[k]) = Restored(st, chg, mark[k])
      <3>1. mark[k] \in 0 .. Len(chg) /\ n \in DOMAIN st
        BY <1>0
      <3> DEFINE C == Changes
      <3>2. chg \in Seq(C) /\ [n |-> n, s |-> st[n]] \in C
        BY <1>0, <2>2
      <3> HIDE DEF C
      <3>3. Restored([st EXCEPT ![n] = t], Append(chg, [n |-> n, s |-> st[n]]), mark[k])
              = Restored(st, chg, mark[k])
        BY <3>1, <3>2, RestoredChange
      <3> QED  BY <2>1, <3>3
    <2>5. st' \in [Nodes(net) -> States] /\ \A m \in Nodes(net) : st'[m] \in StateSet(m)
      BY <1>0, <1>1, <2>1
    <2> QED
      <3> HIDE DEF Changes
      <3> QED  BY <2>1, <2>3, <2>4, <2>5
  <1> QED  BY <1>2, <1>3

\* A step of a call changes st and chg in one of these ways.
SafeChange ==
  /\ st' \in [Nodes(net) -> States] /\ \A n \in Nodes(net) : st'[n] \in StateSet(n)
  /\ chg' \in Seq(Changes) /\ Len(chg) <= Len(chg')
  /\ \A k \in 1 .. Len(mark) :
       Restored(st', chg', mark[k]) = Restored(st, chg, mark[k])
  /\ \A f \in Consistent(net) : Satisfies(f, Len(dec)) => Agrees(st', f)

LEMMA SafeStutter ==
  ASSUME IInv, UNCHANGED <<st, chg>>
  PROVE  SafeChange
PROOF
  <1>1. chg \in Seq(Changes)
    BY DEF IInv, TypeInv
  <1>2. Len(chg) <= Len(chg)
    BY <1>1
  <1> QED  BY <1>1, <1>2 DEF SafeChange, IInv, TypeInv, ModelsInv

LEMMA SafeChanged ==
  ASSUME IInv, NEW n \in Nodes(net), NEW t \in StateSet(n), Change(n, t),
         \A f \in Consistent(net) : Satisfies(f, Len(dec)) => NodeAgrees(net, t, f, n)
  PROVE  SafeChange
PROOF
  <1>1. ASSUME NEW f \in Consistent(net), Satisfies(f, Len(dec))
        PROVE  Agrees(st', f)
    <2>1. Agrees(st, f) /\ DOMAIN st = Nodes(net) /\ IsCircuit(net)
      BY <1>1, NetIsCircuit DEF IInv, TypeInv, ModelsInv
    <2>2. st' = [st EXCEPT ![n] = t]
      BY ChangeFacts
    <2> QED  BY <1>1, <2>1, <2>2, AgreesChange
  <1>2. /\ st' \in [Nodes(net) -> States] /\ \A m \in Nodes(net) : st'[m] \in StateSet(m)
        /\ chg' \in Seq(Changes) /\ Len(chg) <= Len(chg')
        /\ \A k \in 1 .. Len(mark) :
             Restored(st', chg', mark[k]) = Restored(st, chg, mark[k])
    BY ChangeFacts
  <1> QED  BY <1>1, <1>2 DEF SafeChange

\* MarksOrdered survives a longer stack of changes.
LEMMA SafeMarks ==
  ASSUME IInv, SafeChange, mark' = mark
  PROVE  MarksOrdered'
PROOF
  <1>1. mark \in Seq(Nat) /\ chg \in Seq(Changes) /\ chg' \in Seq(Changes)
        /\ Len(chg) <= Len(chg')
    BY DEF IInv, TypeInv, SafeChange
  <1>2. Len(chg) \in Nat /\ Len(chg') \in Nat
    BY <1>1
  <1>3. \A i \in 1 .. Len(mark) : mark[i] \in Nat
    BY <1>1, ElementOfSeq
  <1> QED  BY <1>1, <1>2, <1>3 DEF IInv, MarksOrdered

\* The calls a step may leave behind: every one carries a forced value.
SafeCalls(calls) ==
  /\ calls \in Seq(CallFrames)
  /\ \A f \in Consistent(net) : Satisfies(f, Len(dec)) => calls \in Seq(TrueFrames(f))

Kept == UNCHANGED <<net, mark, con, impl, recording, dec, refuted, aborted>>

RecsKept == recs' = recs \/ recs' = recs \cup {<<Top.n, Top.v>>}

LEMMA TopFacts ==
  ASSUME IInv, agenda # <<>>, Top.op # "con"
  PROVE  /\ Top.n \in Nodes(net) /\ Top.v \in Bit /\ dec # <<>> /\ mark # <<>>
         /\ Len(mark) \in Nat /\ Len(mark) = Len(dec) /\ Len(mark) > 0
         /\ \A f \in Consistent(net) : Satisfies(f, Len(dec)) => f[Top.n] = Top.v
PROOF
  <1>1. Top \in Frames /\ dec # <<>>
    BY StackFacts DEF CallFrames, Frames
  <1>2. dec \in Seq(Literals(net)) /\ mark \in Seq(Nat) /\ Len(dec) = Len(mark)
    BY DEF IInv, TypeInv
  <1>3. Len(dec) # 0
    BY <1>1, <1>2, EmptySeq
  <1>4. Len(mark) \in Nat /\ Len(mark) > 0 /\ mark # <<>>
    BY <1>2, <1>3
  <1>5. Top.n \in Nodes(net) /\ Top.v \in Bit
    BY <1>1 DEF Frames
  <1>6. \A f \in Consistent(net) : Satisfies(f, Len(dec)) => f[Top.n] = Top.v
    BY StackFacts DEF TrueFrames
  <1> QED  BY <1>1, <1>2, <1>4, <1>5, <1>6

LEMMA RecordedFacts ==
  ASSUME IInv, agenda # <<>>, Top.op # "con", RecsKept
  PROVE  /\ recs' \subseteq Literals(net)
         /\ \A f \in Consistent(net) : Satisfies(f, Len(dec)) =>
              \A lit \in recs' : Holds(f, lit)
PROOF
  <1>1. recs \subseteq Literals(net) /\ <<Top.n, Top.v>> \in Literals(net)
    BY TopFacts DEF IInv, TypeInv, Literals
  <1>2. ASSUME NEW f \in Consistent(net), Satisfies(f, Len(dec)), NEW lit \in recs
        PROVE  Holds(f, lit)
    BY <1>2, TopFacts DEF IInv, RecordSound, Models, Satisfies
  <1>3. ASSUME NEW f \in Consistent(net), Satisfies(f, Len(dec))
        PROVE  Holds(f, <<Top.n, Top.v>>)
    BY <1>3, TopFacts DEF Holds
  <1> QED  BY <1>1, <1>2, <1>3 DEF RecsKept

\* A step that goes on with safe calls and a safe change keeps IInv.
LEMMA ContinueStep ==
  ASSUME IInv, agenda # <<>>, Top.op # "con", SafeChange, RecsKept, Kept,
         NEW calls, SafeCalls(calls), Continue(calls)
  PROVE  IInv'
PROOF
  <1>1. TypeInv'
    BY RecordedFacts DEF IInv, TypeInv, SafeChange, Kept, Continue, StateSet, Changes
  <1>2. MarksOrdered'
    BY SafeMarks DEF Kept
  <1>3. CallsInv'
    BY DEF SafeCalls, Continue, Kept, CallsInv, CallFrames, Frames
  <1>4. LiteralsInv'
    BY DEF IInv, LiteralsInv, Kept
  <1>5. ModelsInv'
    <2>1. ASSUME NEW f \in Consistent(net), Satisfies(f, Len(dec))
          PROVE  Agrees(st, f)' /\ agenda' \in Seq(TrueFrames(f)') /\ result' # "false"
      <3>1. Agrees(st, f)'
        BY <2>1 DEF SafeChange, Kept, Agrees
      <3>2. agenda' \in Seq(TrueFrames(f)')
        BY <2>1 DEF SafeCalls, Continue, Kept, TrueFrames, CallFrames, Frames
      <3>3. result' # "false"
        BY <2>1 DEF IInv, ModelsInv, Continue
      <3> QED  BY <3>1, <3>2, <3>3
    <2>2. ASSUME NEW f \in Consistent(net), NEW k \in 1 .. Len(mark), Satisfies(f, k - 1)
          PROVE  Agrees(Restored(st, chg, mark[k]), f)'
      <3>1. Agrees(Restored(st, chg, mark[k]), f)
        BY <2>2 DEF IInv, ModelsInv
      <3> QED  BY <3>1 DEF SafeChange, Kept, Agrees
    <2>3. \A f \in Consistent(net) : swallowed # 0 => ~Satisfies(f, swallowed)
      BY DEF IInv, ModelsInv
    <2> QED  BY <2>1, <2>2, <2>3 DEF ModelsInv, Kept, Satisfies, Continue
  <1>6. RecordSound'
    BY RecordedFacts DEF RecordSound, Models, Satisfies, Kept
  <1>7. NoAbort'
    BY DEF IInv, NoAbort, Kept
  <1> QED  BY <1>1, <1>2, <1>3, <1>4, <1>5, <1>6, <1>7 DEF IInv

\* A conflict that no assignment contradicts keeps IInv, whether it reaches
\* assert or stops at an ind_imp call.
LEMMA ConflictStep ==
  ASSUME IInv, agenda # <<>>, Top.op # "con", UNCHANGED <<st, chg>>, RecsKept, Kept,
         Conflict, \A f \in Consistent(net) : ~Satisfies(f, Len(dec))
  PROVE  IInv'
PROOF
  <1>0. SafeChange
    BY SafeStutter
  <1>1. swallowed' \in {swallowed, Len(mark)} /\ swallowed' \in 0 .. Len(mark)
        /\ result' \in {"none", "true", "false"}
    BY TopFacts DEF Conflict, IInv, TypeInv
  <1>2. TypeInv'
    BY <1>1, RecordedFacts DEF IInv, TypeInv, Kept, StateSet, Changes
  <1>3. MarksOrdered'
    BY <1>0, SafeMarks DEF Kept
  <1>4. agenda' \in Seq(CallFrames)
    <2>1. CASE agenda' = <<>>
      BY <2>1
    <2>2. CASE \E i \in IndCalls : agenda' = SubSeq(agenda, i + 1, Len(agenda))
      BY <2>2, SuffixFacts DEF IndCalls
    <2> QED  BY <2>1, <2>2 DEF Conflict
  <1>5. CallsInv'
    BY <1>4 DEF Kept, CallsInv, CallFrames, Frames
  <1>6. LiteralsInv'
    BY DEF IInv, LiteralsInv, Kept
  <1>7. ModelsInv'
    <2>1. ASSUME NEW f \in Consistent(net), NEW k \in 1 .. Len(mark), Satisfies(f, k - 1)
          PROVE  Agrees(Restored(st, chg, mark[k]), f)'
      <3>1. Agrees(Restored(st, chg, mark[k]), f)
        BY <2>1 DEF IInv, ModelsInv
      <3> QED  BY <3>1, <1>0 DEF SafeChange, Kept, Agrees
    <2>2. \A f \in Consistent(net) : swallowed' # 0 => ~Satisfies(f, swallowed')
      BY <1>1, TopFacts DEF IInv, ModelsInv
    <2> QED  BY <2>1, <2>2 DEF ModelsInv, Kept, Satisfies
  <1>8. RecordSound'
    BY DEF RecordSound, Models, Satisfies, Kept
  <1>9. NoAbort'
    BY DEF IInv, NoAbort, Kept
  <1> QED  BY <1>2, <1>3, <1>5, <1>6, <1>7, <1>8, <1>9 DEF IInv
------------------------------------------------------------------------------
(***************************************************************************)
(* The calls each step leaves behind.                                      *)
(***************************************************************************)
LEMMA SafeConcat ==
  ASSUME NEW a, NEW b, SafeCalls(a), SafeCalls(b)
  PROVE  SafeCalls(a \o b)
PROOF  BY ConcatProperties DEF SafeCalls

LEMMA SafeEmpty == SafeCalls(<<>>)
PROOF  BY EmptySeq DEF SafeCalls

LEMMA SafeOne ==
  ASSUME NEW r \in CallFrames,
         \A f \in Consistent(net) : Satisfies(f, Len(dec)) => f[r.n] = r.v
  PROVE  SafeCalls(<<r>>)
PROOF
  <1>1. \A S : r \in S => <<r>> \in Seq(S)
    OBVIOUS
  <1>2. \A f \in Consistent(net) : Satisfies(f, Len(dec)) => r \in TrueFrames(f)
    BY DEF TrueFrames
  <1> QED  BY <1>1, <1>2 DEF SafeCalls

LEMMA SafeStack ==
  ASSUME IInv, agenda # <<>>
  PROVE  SafeCalls(Callers) /\ \A e : SafeCalls(TopWithout(e))
PROOF  BY StackFacts, TopWithoutFacts DEF SafeCalls

LEMMA FanoutsType ==
  ASSUME IInv, NEW n
  PROVE  Fanouts(net, n) \subseteq Ands(net) \X Pin
         /\ Ands(net) \X Pin \subseteq Nodes(net) \X (Bit \cup Pin)
PROOF
  <1>1. Ands(net) \subseteq Nodes(net)
    BY NetIsCircuit, CircuitFacts DEF IInv
  <1> QED  BY <1>1 DEF Fanouts

LEMMA BwdFrame ==
  ASSUME dec # <<>>, NEW n \in Nodes(net), NEW v \in Bit,
         NEW from \in Nodes(net) \cup {NoNode},
         \A f \in Consistent(net) : Satisfies(f, Len(dec)) => f[n] = v
  PROVE  SafeCalls(<<Bwd(n, v, from)>>)
PROOF
  <1>1. Bwd(n, v, from) \in CallFrames /\ Bwd(n, v, from).n = n /\ Bwd(n, v, from).v = v
    BY DEF Bwd, CallFrames, Frames
  <1> QED  BY <1>1, SafeOne

LEMMA FanFrame ==
  ASSUME IInv, dec # <<>>, NEW n \in Nodes(net), NEW v \in Bit,
         NEW from \in Nodes(net) \cup {NoNode},
         \A f \in Consistent(net) : Satisfies(f, Len(dec)) => f[n] = v
  PROVE  SafeCalls(<<Fan(n, v, from)>>)
PROOF
  <1>1. Fan(n, v, from) \in Frames
    BY FanoutsType DEF Fan, Frames
  <1>2. Fan(n, v, from) \in CallFrames /\ Fan(n, v, from).n = n /\ Fan(n, v, from).v = v
    BY <1>1 DEF Fan, CallFrames
  <1> QED  BY <1>2, SafeOne

LEMMA IndFrame ==
  ASSUME IInv, dec # <<>>, NEW n \in Nodes(net), NEW v \in Bit,
         \A f \in Consistent(net) : Satisfies(f, Len(dec)) => f[n] = v
  PROVE  SafeCalls(<<Ind(n, v)>>)
PROOF
  <1>1. impl[n][v] \subseteq Nodes(net) \X (Bit \cup Pin)
    BY DEF IInv, TypeInv, Literals
  <1>2. Ind(n, v) \in CallFrames /\ Ind(n, v).n = n /\ Ind(n, v).v = v
    BY <1>1 DEF Ind, CallFrames, Frames
  <1> QED  BY <1>2, SafeOne

\* The driver of a pin whose value is forced is called with a forced value.
LEMMA FaninFrame ==
  ASSUME IInv, dec # <<>>, NEW n \in Ands(net), NEW p \in Pin, NEW v \in Bit,
         \A f \in Consistent(net) : Satisfies(f, Len(dec)) => PinVal(net, f, n, p) = v
  PROVE  SafeCalls(<<FaninProp(n, p, v)>>)
PROOF
  <1>0. IsCircuit(net)
    BY NetIsCircuit DEF IInv
  <1>1. /\ net.src[n][p] \in Nodes(net) /\ net.inv[n][p] \in Bit
        /\ n \in Nodes(net)
    BY <1>0, CircuitFacts
  <1>2. Flip(v, net.inv[n][p]) \in Bit
    BY <1>1, FlipBit
  <1>3. ASSUME NEW f \in Consistent(net), Satisfies(f, Len(dec))
        PROVE  f[net.src[n][p]] = Flip(v, net.inv[n][p])
    <2>1. f[net.src[n][p]] \in Bit /\ Flip(f[net.src[n][p]], net.inv[n][p]) = v
      BY <1>1, <1>3 DEF Consistent, PinVal
    <2> DEFINE x == f[net.src[n][p]]
               i == net.inv[n][p]
    <2>2. x \in Bit /\ i \in Bit /\ v \in Bit /\ Flip(x, i) = v
      BY <2>1, <1>1
    <2> HIDE DEF x, i
    <2>3. x = Flip(v, i)
      BY <2>2 DEF Flip, Bit, X
    <2> QED  BY <2>3 DEF x, i
  <1> QED  BY <1>1, <1>2, <1>3, BwdFrame DEF FaninProp

LEMMA FaninCallsSafe ==
  ASSUME IInv, dec # <<>>, NEW n \in Ands(net), NEW v \in Bit, NEW pins,
         pins \subseteq Pin,
         \A f \in Consistent(net), p \in pins :
            Satisfies(f, Len(dec)) => PinVal(net, f, n, p) = v
  PROVE  SafeCalls(FaninCalls(n, pins, v))
PROOF
  <1>1. \A p \in Pin : SafeCalls(IF p \in pins THEN <<FaninProp(n, p, v)>> ELSE <<>>)
    BY FaninFrame, SafeEmpty
  <1> DEFINE a == IF 1 \in pins THEN <<FaninProp(n, 1, v)>> ELSE <<>>
             b == IF 2 \in pins THEN <<FaninProp(n, 2, v)>> ELSE <<>>
  <1>2. SafeCalls(a) /\ SafeCalls(b)
    BY <1>1 DEF Pin
  <1>3. FaninCalls(n, pins, v) = a \o b
    BY DEF FaninCalls
  <1> HIDE DEF a, b
  <1> QED  BY <1>2, <1>3, SafeConcat

\* The state of a node and of its pins, as an assignment sees them.
LEMMA NodeFacts ==
  ASSUME IInv, NEW n \in Nodes(net)
  PROVE  /\ n \in Inputs(net) => st[n] \in InputStates
         /\ n \notin Inputs(net) => n \in Ands(net) /\ st[n] \in AndStates
         /\ \A f \in Consistent(net) : Satisfies(f, Len(dec)) => NodeAgrees(net, st[n], f, n)
PROOF
  <1>1. IsCircuit(net)
    BY NetIsCircuit DEF IInv
  <1>2. st[n] \in StateSet(n)
    BY DEF IInv, TypeInv
  <1>3. \A f \in Consistent(net) : Satisfies(f, Len(dec)) => Agrees(st, f)
    BY DEF IInv, ModelsInv
  <1> QED  BY <1>1, <1>2, <1>3, CircuitFacts, AgreesNode DEF StateSet
------------------------------------------------------------------------------
(***************************************************************************)
(* One lemma for each step.                                                *)
(***************************************************************************)
LEMMA BwdPropStep ==
  ASSUME IInv, BwdProp
  PROVE  IInv'
PROOF
  <1> DEFINE n == Top.n
             v == Top.v
             s == st[n]
             t == BwdState(s, v, n \in Inputs(net))
             pins == IF n \in Inputs(net) THEN {} ELSE BwdPins(s, v)
             calls == FaninCalls(n, pins, v) \o <<Fan(n, v, Top.from)>> \o Callers
  <1>0. agenda # <<>> /\ Top.op = "bwd" /\ Kept /\ RecsKept /\ Top.op # "con"
    BY DEF BwdProp, Kept, RecsKept
  <1>1. /\ n \in Nodes(net) /\ v \in Bit /\ dec # <<>>
        /\ Top.from \in Nodes(net) \cup {NoNode}
        /\ \A f \in Consistent(net) : Satisfies(f, Len(dec)) => f[n] = v
    BY <1>0, TopFacts, StackFacts DEF CallFrames, Frames
  <1>2. IsCircuit(net)
    BY NetIsCircuit DEF IInv
  <1>3. ASSUME NEW f \in Consistent(net), Satisfies(f, Len(dec))
        PROVE  /\ ~BwdConflict(s, v) /\ NodeAgrees(net, t, f, n)
               /\ \A p \in pins : PinVal(net, f, n, p) = v
    <2>1. NodeAgrees(net, s, f, n) /\ f[n] = v
      BY <1>1, <1>3, NodeFacts
    <2>2. CASE n \in Inputs(net)
      BY <1>1, <2>1, <2>2, NodeFacts, InputBwd DEF NodeAgrees
    <2>3. CASE n \notin Inputs(net)
      <3>1. n \in Ands(net) /\ s \in AndStates
        BY <1>1, <2>3, NodeFacts
      <3>2. /\ Row(net, f, n) \in Rows /\ IsAndRow(Row(net, f, n))
            /\ Row(net, f, n)[Out] = v
            /\ \A p \in Pin : Row(net, f, n)[p] = PinVal(net, f, n, p)
        BY <1>2, <2>1, <3>1, RowFacts
      <3>3. Covers(s, Row(net, f, n))
        BY <2>1, <2>3 DEF NodeAgrees
      <3>4. /\ ~BwdConflict(s, v) /\ Covers(BwdState(s, v, FALSE), Row(net, f, n))
            /\ \A p \in BwdPins(s, v) : Row(net, f, n)[p] = v
        BY <3>1, <3>2, <3>3, BwdSound
      <3>5. BwdPins(s, v) \subseteq Pin
        BY DEF BwdPins
      <3>6. t = BwdState(s, v, FALSE) /\ pins = BwdPins(s, v)
        BY <2>3 DEF BwdState
      <3> QED  BY <2>3, <3>2, <3>4, <3>5, <3>6 DEF NodeAgrees
    <2> QED  BY <2>2, <2>3
  <1>4. CASE BwdConflict(s, v) /\ Conflict /\ UNCHANGED <<st, chg>>
    BY <1>0, <1>3, <1>4, ConflictStep
  <1>5. CASE ~BwdConflict(s, v) /\ Change(n, t) /\ Continue(calls)
    <2>1. t \in StateSet(n)
      <3>1. CASE n \in Inputs(net)
        <4>1. s \in InputStates /\ BwdState(s, v, TRUE) \in InputStates
          BY <1>1, <1>5, <3>1, NodeFacts, InputBwd
        <4>2. t = BwdState(s, v, TRUE)
          BY <3>1 DEF BwdState
        <4> QED  BY <3>1, <4>1, <4>2 DEF StateSet
      <3>2. CASE n \notin Inputs(net)
        <4>1. s \in AndStates /\ BwdState(s, v, FALSE) \in AndStates
          BY <1>1, <1>5, <3>2, NodeFacts, BwdType
        <4>2. t = BwdState(s, v, FALSE)
          BY <3>2 DEF BwdState
        <4> QED  BY <3>2, <4>1, <4>2 DEF StateSet
      <3> QED  BY <3>1, <3>2
    <2>2. SafeChange
      <3> HIDE DEF t
      <3> QED  BY <1>1, <1>3, <1>5, <2>1, SafeChanged
    <2>3. SafeCalls(FaninCalls(n, pins, v))
      <3>1. CASE n \in Inputs(net)
        <4>1. FaninCalls(n, {}, v) = <<>> \o <<>>
          BY DEF FaninCalls
        <4> QED  BY <3>1, <4>1, SafeEmpty, SafeConcat
      <3>2. CASE n \notin Inputs(net)
        <4>1. n \in Ands(net) /\ pins \subseteq Pin
          BY <1>1, <3>2, NodeFacts DEF BwdPins
        <4> HIDE DEF pins
        <4> QED  BY <1>1, <1>3, <4>1, FaninCallsSafe
      <3> QED  BY <3>1, <3>2
    <2>4. SafeCalls(<<Fan(n, v, Top.from)>>)
      BY <1>1, FanFrame
    <2>5. SafeCalls(calls)
      <3> DEFINE a == FaninCalls(n, pins, v)
                 b == <<Fan(n, v, Top.from)>>
      <3>1. SafeCalls(a) /\ SafeCalls(b) /\ SafeCalls(Callers)
        BY <1>0, <2>3, <2>4, SafeStack
      <3> HIDE DEF a, b
      <3>2. SafeCalls((a \o b) \o Callers)
        BY <3>1, SafeConcat
      <3> QED  BY <3>2 DEF a, b
    <2> HIDE DEF calls
    <2> QED  BY <1>0, <1>5, <2>2, <2>5, ContinueStep
  <1> QED  BY <1>4, <1>5 DEF BwdProp

LEMMA FanoutStepStep ==
  ASSUME IInv, FanoutStep
  PROVE  IInv'
PROOF
  <1>0. agenda # <<>> /\ Top.op = "fan" /\ Kept /\ RecsKept /\ Top.op # "con"
    BY DEF FanoutStep, Kept, RecsKept, Record
  <1>1. PICK e \in Top.todo :
          LET d == e[1]
              p == e[2]
              w == Flip(Top.v, net.inv[d][p])
              s == st[d]
              t == FwdState(s, p, w)
          IN  \/ Continue(TopWithout(e)) /\ UNCHANGED <<st, chg>>
              \/ FwdConflict(s, p, w) /\ Conflict /\ UNCHANGED <<st, chg>>
              \/ /\ ~FwdConflict(s, p, w)
                 /\ Change(d, t)
                 /\ IF t[Out] # s[Out]
                    THEN Continue(<<Fan(d, t[Out], NoNode)>> \o TopWithout(e))
                    ELSE IF t[Other(p)] # s[Other(p)]
                    THEN Continue(<<FaninProp(d, Other(p), 0)>> \o TopWithout(e))
                    ELSE Continue(TopWithout(e))
    BY DEF FanoutStep
  <1> DEFINE d == e[1]
             p == e[2]
             w == Flip(Top.v, net.inv[d][p])
             s == st[d]
             t == FwdState(s, p, w)
  <1>2. /\ d \in Ands(net) /\ p \in Pin /\ net.src[d][p] = Top.n
        /\ Top.n \in Nodes(net) /\ Top.v \in Bit /\ dec # <<>>
    <2>1. Top.todo \subseteq Fanouts(net, Top.n)
      BY <1>0, StackFacts DEF CallFrames
    <2> QED  BY <1>0, <2>1, TopFacts DEF Fanouts
  <1>3. /\ IsCircuit(net) /\ net.inv[d][p] \in Bit /\ w \in Bit
        /\ d \in Nodes(net) /\ d \notin Inputs(net) /\ s \in AndStates
    <2>1. IsCircuit(net)
      BY NetIsCircuit DEF IInv
    <2> QED  BY <1>2, <2>1, CircuitFacts, FlipBit, NodeFacts
  <1>4. ASSUME NEW f \in Consistent(net), Satisfies(f, Len(dec))
        PROVE  /\ ~FwdConflict(s, p, w) /\ Covers(t, Row(net, f, d))
               /\ f[d] \in Bit /\ Row(net, f, d)[Out] = f[d]
               /\ \A k \in Pin : Row(net, f, d)[k] = PinVal(net, f, d, k)
    <2>1. /\ Row(net, f, d) \in Rows /\ IsAndRow(Row(net, f, d))
          /\ Row(net, f, d)[Out] = f[d] /\ f[d] \in Bit
          /\ \A k \in Pin : Row(net, f, d)[k] = PinVal(net, f, d, k)
      BY <1>2, <1>3, RowFacts
    <2>2. Covers(s, Row(net, f, d))
      BY <1>3, <1>4, NodeFacts DEF NodeAgrees
    <2>3. Row(net, f, d)[p] = w
      BY <1>0, <1>2, <1>4, <2>1, TopFacts DEF PinVal
    <2>4. /\ ~FwdConflict(s, p, Row(net, f, d)[p])
          /\ Covers(FwdState(s, p, Row(net, f, d)[p]), Row(net, f, d))
      BY <1>2, <1>3, <2>1, <2>2, FwdSound
    <2> QED  BY <2>1, <2>3, <2>4
  <1>5. SafeCalls(TopWithout(e))
    BY <1>0, SafeStack
  <1>6. CASE Continue(TopWithout(e)) /\ UNCHANGED <<st, chg>>
    BY <1>0, <1>5, <1>6, SafeStutter, ContinueStep
  <1>7. CASE FwdConflict(s, p, w) /\ Conflict /\ UNCHANGED <<st, chg>>
    BY <1>0, <1>4, <1>7, ConflictStep
  <1>8. CASE ~FwdConflict(s, p, w) /\ Change(d, t)
    <2>1. /\ t \in AndStates
          /\ t[Out] # s[Out] => t[Out] \in Bit
          /\ t[Other(p)] # s[Other(p)] => t[Other(p)] = 0
      BY <1>2, <1>3, <1>8, FwdType
    <2>2. SafeChange
      <3>1. t \in StateSet(d)
        BY <1>3, <2>1 DEF StateSet
      <3>2. \A f \in Consistent(net) : Satisfies(f, Len(dec)) => NodeAgrees(net, t, f, d)
        BY <1>3, <1>4 DEF NodeAgrees
      <3> HIDE DEF d, t
      <3> QED  BY <1>3, <1>8, <3>1, <3>2, SafeChanged
    <2>3. Other(p) \in Pin /\ Out \in 1 .. 3 /\ Pin \subseteq 1 .. 3
      BY <1>2 DEF Pin, Other, Out
    <2>4. CASE t[Out] # s[Out] /\ Continue(<<Fan(d, t[Out], NoNode)>> \o TopWithout(e))
      <3>1. \A f \in Consistent(net) : Satisfies(f, Len(dec)) => f[d] = t[Out]
        BY <1>4, <2>1, <2>3, <2>4 DEF Covers, Bit, X
      <3>2. SafeCalls(<<Fan(d, t[Out], NoNode)>>)
        BY <1>2, <1>3, <2>1, <2>4, <3>1, FanFrame
      <3> HIDE DEF t
      <3> QED  BY <1>0, <1>5, <2>2, <2>4, <3>2, SafeConcat, ContinueStep
    <2>5. CASE t[Other(p)] # s[Other(p)]
               /\ Continue(<<FaninProp(d, Other(p), 0)>> \o TopWithout(e))
      <3>1. \A f \in Consistent(net) : Satisfies(f, Len(dec)) =>
               PinVal(net, f, d, Other(p)) = 0
        <4> DEFINE o == Other(p)
        <4>1. o \in Pin /\ o \in 1 .. 3 /\ t[o] = 0
          BY <2>1, <2>3, <2>5
        <4> HIDE DEF o, t
        <4>2. ASSUME NEW f \in Consistent(net), Satisfies(f, Len(dec))
              PROVE  PinVal(net, f, d, o) = 0
          <5>1. Covers(t, Row(net, f, d)) /\ Row(net, f, d)[o] = PinVal(net, f, d, o)
            BY <1>4, <4>1, <4>2
          <5> QED  BY <4>1, <5>1 DEF Covers, X
        <4> QED  BY <4>2 DEF o
      <3>2. 0 \in Bit
        BY DEF Bit
      <3>3. SafeCalls(<<FaninProp(d, Other(p), 0)>>)
        BY <1>2, <2>3, <3>1, <3>2, FaninFrame
      <3> HIDE DEF t
      <3> QED  BY <1>0, <1>5, <2>2, <2>5, <3>3, SafeConcat, ContinueStep
    <2>6. CASE Continue(TopWithout(e))
      BY <1>0, <1>5, <2>2, <2>6, ContinueStep
    <2> QED  BY <1>1, <1>6, <1>7, <2>4, <2>5, <2>6
  <1> QED  BY <1>1, <1>6, <1>7, <1>8

LEMMA FanoutEndStep ==
  ASSUME IInv, FanoutEnd
  PROVE  IInv'
PROOF
  <1>0. agenda # <<>> /\ Kept /\ RecsKept /\ Top.op # "con" /\ UNCHANGED <<st, chg>>
    BY DEF FanoutEnd, Kept, RecsKept, Record
  <1>1. SafeCalls(Callers) /\ SafeChange
    BY <1>0, SafeStack, SafeStutter
  <1>2. SafeCalls(<<Ind(Top.n, Top.v)>> \o Callers)
    BY <1>0, <1>1, TopFacts, IndFrame, SafeConcat
  <1> QED  BY <1>0, <1>1, <1>2, ContinueStep DEF FanoutEnd

LEMMA IndStepStep ==
  ASSUME IInv, IndStep
  PROVE  IInv'
PROOF
  <1>0. /\ agenda # <<>> /\ Kept /\ RecsKept /\ Top.op = "ind" /\ Top.op # "con"
        /\ UNCHANGED <<st, chg>>
    BY DEF IndStep, Kept, RecsKept
  <1>1. PICK d \in Top.todo :
          \/ Continue(<<Bwd(d[1], d[2], NoNode)>> \o TopWithout(d))
          \/ Continue(TopWithout(d))
          \/ OutVal(d[1]) = 1 - d[2] /\ Conflict
    BY DEF IndStep
  <1>2. SafeCalls(TopWithout(d)) /\ SafeChange
    BY <1>0, SafeStack, SafeStutter
  <1>3. /\ Top.n \in Nodes(net) /\ Top.v \in Bit /\ dec # <<>>
        /\ d \in impl[Top.n][Top.v]
    BY <1>0, TopFacts, StackFacts DEF CallFrames
  <1>4. d[1] \in Nodes(net) /\ d[2] \in Bit
    BY <1>3 DEF IInv, TypeInv, Literals
  <1>5. \A f \in Consistent(net) : Satisfies(f, Len(dec)) => f[d[1]] = d[2]
    BY <1>0, <1>3, TopFacts DEF IInv, LiteralsInv, Holds
  <1>6. CASE Continue(<<Bwd(d[1], d[2], NoNode)>> \o TopWithout(d))
    <2>1. SafeCalls(<<Bwd(d[1], d[2], NoNode)>>)
      BY <1>3, <1>4, <1>5, BwdFrame
    <2> QED  BY <1>0, <1>2, <1>6, <2>1, SafeConcat, ContinueStep
  <1>7. CASE Continue(TopWithout(d))
    BY <1>0, <1>2, <1>7, ContinueStep
  <1>8. CASE OutVal(d[1]) = 1 - d[2] /\ Conflict
    <2>1. \A f \in Consistent(net) : Satisfies(f, Len(dec)) =>
             st[d[1]][Out] \in {X, f[d[1]]}
      BY <1>4 DEF IInv, ModelsInv, Agrees
    <2>2. st[d[1]][Out] # X /\ st[d[1]][Out] # d[2]
      BY <1>4, <1>8 DEF OutVal, Bit, X
    <2>3. \A f \in Consistent(net) : ~Satisfies(f, Len(dec))
      BY <1>5, <2>1, <2>2
    <2> QED  BY <1>0, <1>8, <2>3, ConflictStep
  <1> QED  BY <1>1, <1>6, <1>7, <1>8

LEMMA IndEndStep ==
  ASSUME IInv, IndEnd
  PROVE  IInv'
PROOF
  <1>0. agenda # <<>> /\ Kept /\ RecsKept /\ Top.op # "con" /\ UNCHANGED <<st, chg>>
    BY DEF IndEnd, Kept, RecsKept
  <1>1. SafeCalls(Callers) /\ SafeChange
    BY <1>0, SafeStack, SafeStutter
  <1> QED  BY <1>0, <1>1, ContinueStep DEF IndEnd

\* What holds between two calls of a client.
LEMMA IdleFacts ==
  ASSUME IInv
  PROVE  /\ Len(mark) \in Nat /\ Len(dec) = Len(mark) /\ Len(chg) \in Nat
         /\ \A i \in 1 .. Len(mark) : mark[i] \in 0 .. Len(chg)
         /\ \A i \in 1 .. Len(mark) : \A j \in 1 .. i : mark[j] <= mark[i]
         /\ \A i \in 1 .. Len(dec) : dec[i] \in Literals(net)
         /\ mark = <<>> <=> Len(mark) = 0
         /\ dec = <<>> <=> Len(dec) = 0
PROOF
  <1>1. mark \in Seq(Nat) /\ dec \in Seq(Literals(net)) /\ chg \in Seq(Changes)
        /\ Len(dec) = Len(mark)
    BY DEF IInv, TypeInv
  <1>2. \A i \in 1 .. Len(mark) : mark[i] \in Nat /\ mark[i] <= Len(chg)
    BY <1>1, ElementOfSeq DEF IInv, MarksOrdered
  <1>3. Len(mark) \in Nat /\ Len(chg) \in Nat
    BY <1>1
  <1>4. (mark = <<>> <=> Len(mark) = 0) /\ (dec = <<>> <=> Len(dec) = 0)
    BY <1>1, EmptySeq
  <1>5. \A i \in 1 .. Len(mark) : mark[i] \in 0 .. Len(chg)
    BY <1>2, <1>3
  <1>6. \A i \in 1 .. Len(dec) : dec[i] \in Literals(net)
    BY <1>1, ElementOfSeq
  <1> QED  BY <1>1, <1>3, <1>4, <1>5, <1>6 DEF IInv, MarksOrdered

LEMMA AssertStep ==
  ASSUME IInv, NEW n \in Nodes(net), NEW v \in Bit, NEW r \in BOOLEAN, Assert(n, v, r)
  PROVE  IInv'
PROOF
  <1> DEFINE lit == <<n, v>>
             L == Len(mark)
  <1>0. /\ mark' = Append(mark, Len(chg)) /\ dec' = Append(dec, lit)
        /\ agenda' = <<Bwd(n, v, NoNode)>> /\ recording' = r /\ recs' = {}
        /\ result' = "none" /\ refuted' = {}
        /\ net' = net /\ st' = st /\ chg' = chg /\ con' = con /\ impl' = impl
        /\ swallowed' = swallowed /\ aborted' = aborted
        /\ L < MaxLevel /\ result # "false" /\ agenda = <<>>
    BY DEF Assert, Idle
  <1>1. /\ L \in Nat /\ Len(dec) = L /\ Len(chg) \in Nat
        /\ mark \in Seq(Nat) /\ dec \in Seq(Literals(net))
        /\ \A i \in 1 .. L : mark[i] \in 0 .. Len(chg)
    BY IdleFacts DEF IInv, TypeInv
  <1>2. lit \in Literals(net)
    BY DEF Literals
  <1>3. /\ mark' \in Seq(Nat) /\ Len(mark') = L + 1
        /\ \A i \in 1 .. L : mark'[i] = mark[i]
        /\ mark'[L + 1] = Len(chg)
    BY <1>0, <1>1, AppendProperties
  <1>4. /\ dec' \in Seq(Literals(net)) /\ Len(dec') = L + 1
        /\ \A i \in 1 .. L : dec'[i] = dec[i]
        /\ dec'[L + 1] = lit
    <2> HIDE DEF lit
    <2> QED  BY <1>0, <1>1, <1>2, AppendProperties
  <1> HIDE DEF L, lit
  <1>5. TypeInv'
    BY <1>0, <1>1, <1>3, <1>4, BoundsAssumption DEF IInv, TypeInv, Changes, StateSet
  <1>6. MarksOrdered'
    BY <1>0, <1>1, <1>3, IdleFacts DEF MarksOrdered, L
  <1>7. Bwd(n, v, NoNode) \in CallFrames' /\ Bwd(n, v, NoNode).n = n
        /\ Bwd(n, v, NoNode).v = v
    <2>1. dec' # <<>>
      BY <1>1, <1>4
    <2> QED  BY <1>0, <2>1 DEF Bwd, CallFrames, Frames
  <1>8. CallsInv'
    BY <1>0, <1>7 DEF CallsInv
  <1>9. LiteralsInv'
    BY <1>0 DEF IInv, LiteralsInv
  <1>10. ModelsInv'
    <2> DEFINE Sat(f, k) == \A i \in 1 .. k : Holds(f, dec'[i])
    <2>1. ASSUME NEW f, NEW k \in 0 .. L  PROVE Sat(f, k) <=> Satisfies(f, k)
      <3>1. \A i \in 1 .. k : i \in 1 .. L
        BY <1>1
      <3> QED  BY <1>4, <3>1 DEF Satisfies
    <2>2. \A f : Sat(f, L + 1) => Satisfies(f, L) /\ Holds(f, lit)
      <3>1. \A i \in 1 .. L : i \in 1 .. (L + 1)
        BY <1>1
      <3>2. L + 1 \in 1 .. (L + 1)
        BY <1>1
      <3> QED  BY <1>4, <3>1, <3>2 DEF Satisfies
    <2>3. ASSUME NEW f \in Consistent(net), Sat(f, L + 1)
          PROVE  Agrees(st, f)' /\ agenda' \in Seq(TrueFrames(f)')
      <3>1. Agrees(st, f) /\ f[n] = v
        BY <1>1, <2>2, <2>3 DEF IInv, ModelsInv, Holds, lit
      <3>2. Bwd(n, v, NoNode) \in TrueFrames(f)'
        BY <1>7, <3>1 DEF TrueFrames
      <3> QED  BY <1>0, <3>1, <3>2 DEF Agrees
    <2>4. ASSUME NEW f \in Consistent(net), swallowed # 0
          PROVE  ~Sat(f, swallowed)
      <3>1. swallowed \in 0 .. L /\ ~Satisfies(f, swallowed)
        BY <2>4 DEF IInv, TypeInv, ModelsInv, L
      <3> QED  BY <2>1, <3>1
    <2>5. ASSUME NEW f \in Consistent(net), NEW k \in 1 .. (L + 1), Sat(f, k - 1)
          PROVE  Agrees(Restored(st, chg, mark[k]), f)'
      <3>1. CASE k \in 1 .. L
        <4>1. Satisfies(f, k - 1)
          BY <1>1, <2>1, <2>5, <3>1
        <4>2. Agrees(Restored(st, chg, mark[k]), f)
          BY <3>1, <4>1 DEF IInv, ModelsInv, L
        <4> QED  BY <1>0, <1>3, <3>1, <4>2 DEF Agrees
      <3>2. CASE k = L + 1
        <4>1. Satisfies(f, L)
          BY <1>1, <2>1, <2>5, <3>2
        <4>2. Agrees(st, f)
          BY <1>1, <4>1 DEF IInv, ModelsInv
        <4>3. Restored(st, chg, Len(chg)) = st
          BY <1>1, RestoredNow DEF IInv, TypeInv
        <4>4. Agrees(Restored(st, chg, Len(chg)), f)
          BY <4>2, <4>3
        <4> QED  BY <1>0, <1>3, <3>2, <4>4 DEF Agrees
      <3> QED  BY <1>1, <3>1, <3>2
    <2>6. \A f \in Consistent(net)' : f \in Consistent(net)
      BY <1>0
    <2> QED  BY <1>0, <1>3, <1>4, <2>3, <2>4, <2>5, <2>6 DEF ModelsInv, Satisfies
  <1>11. RecordSound'
    BY <1>0 DEF RecordSound
  <1>12. NoAbort'
    BY <1>0 DEF IInv, NoAbort
  <1> QED  BY <1>5, <1>6, <1>8, <1>9, <1>10, <1>11, <1>12 DEF IInv

LEMMA BacktrackStep ==
  ASSUME IInv, Backtrack
  PROVE  IInv'
PROOF
  <1> DEFINE L == Len(mark)
             pos == mark[L]
             Sat(f, k) == \A i \in 1 .. k : Holds(f, dec'[i])
  <1>0. /\ st' = Restored(st, chg, pos) /\ chg' = SubSeq(chg, 1, pos)
        /\ mark' = SubSeq(mark, 1, L - 1) /\ dec' = SubSeq(dec, 1, Len(dec) - 1)
        /\ refuted' = IF result = "false" /\ Len(dec) = 1 THEN {dec[1]} ELSE {}
        /\ result' = "none"
        /\ swallowed' = IF swallowed = L THEN 0 ELSE swallowed
        /\ net' = net /\ con' = con /\ impl' = impl /\ agenda' = agenda
        /\ recording' = recording /\ recs' = recs /\ aborted' = aborted
        /\ agenda = <<>> /\ mark # <<>>
    BY DEF Backtrack, Idle, RestoredTo
  <1>1. /\ L \in Nat /\ L >= 1 /\ Len(dec) = L /\ Len(chg) \in Nat
        /\ chg \in Seq(Changes) /\ mark \in Seq(Nat) /\ dec \in Seq(Literals(net))
        /\ \A i \in 1 .. L : mark[i] \in 0 .. Len(chg)
        /\ \A i \in 1 .. L : \A j \in 1 .. i : mark[j] <= mark[i]
        /\ \A i \in 1 .. L : dec[i] \in Literals(net)
    BY <1>0, IdleFacts DEF IInv, TypeInv
  <1>2. pos \in 0 .. Len(chg) /\ L \in 1 .. L
    BY <1>1
  <1>3. /\ chg' \in Seq(Changes) /\ Len(chg') = pos
        /\ mark' \in Seq(Nat) /\ Len(mark') = L - 1
        /\ \A i \in 1 .. (L - 1) : mark'[i] = mark[i]
        /\ dec' \in Seq(Literals(net)) /\ Len(dec') = L - 1
        /\ \A i \in 1 .. (L - 1) : dec'[i] = dec[i]
    <2>1. /\ \A i \in 1 .. pos : chg[i] \in Changes
          /\ \A i \in 1 .. (L - 1) : mark[i] \in Nat /\ dec[i] \in Literals(net)
      BY <1>1, <1>2, ElementOfSeq
    <2> HIDE DEF L, pos
    <2>2. chg' \in Seq(Changes) /\ Len(chg') = pos
      BY <1>0, <1>1, <1>2, <2>1, SubSeqProperties
    <2>3. mark' \in Seq(Nat) /\ Len(mark') = L - 1
          /\ \A i \in 1 .. (L - 1) : mark'[i] = mark[i]
      BY <1>0, <1>1, <1>2, <2>1, SubSeqProperties DEF L
    <2>4. dec' \in Seq(Literals(net)) /\ Len(dec') = L - 1
          /\ \A i \in 1 .. (L - 1) : dec'[i] = dec[i]
      BY <1>0, <1>1, <1>2, <2>1, SubSeqProperties
    <2> QED  BY <2>2, <2>3, <2>4
  <1>4. st' \in [Nodes(net) -> States] /\ \A n \in Nodes(net) : st'[n] \in StateSet(n)
    <2>1. st \in [Nodes(net) -> States] /\ \A n \in Nodes(net) : st[n] \in StateSet(n)
      BY DEF IInv, TypeInv
    <2>2. ASSUME NEW n \in Nodes(net), Saved(chg, n, pos) # {}
          PROVE  chg[Oldest(Saved(chg, n, pos))].s \in StateSet(n)
      <3> DEFINE i == Oldest(Saved(chg, n, pos))
      <3>1. i \in Saved(chg, n, pos)
        BY <1>1, <1>2, <2>2, SavedNat, OldestExists
      <3>2. i \in 1 .. Len(chg) /\ chg[i].n = n
        BY <1>1, <1>2, <3>1 DEF Saved
      <3>3. chg[i] \in Changes
        BY <1>1, <3>2, ElementOfSeq
      <3> QED  BY <3>2, <3>3 DEF Changes
    <2>3. \A n \in Nodes(net) : st'[n] \in StateSet(n)
      BY <1>0, <2>1, <2>2 DEF Restored
    <2>4. \A n \in Nodes(net) : StateSet(n) \subseteq States
      BY DEF StateSet, InputStates, AndStates
    <2> QED  BY <1>0, <2>1, <2>3, <2>4 DEF Restored
  <1>5. swallowed \in 0 .. L /\ swallowed' \in 0 .. (L - 1)
    <2>1. swallowed \in 0 .. L
      BY DEF IInv, TypeInv
    <2> QED  BY <1>0, <1>1, <2>1
  <1>6. refuted' \subseteq Literals(net)
    BY <1>0, <1>1
  <1> HIDE DEF L, pos
  <1>7. TypeInv'
    <2>1. Len(mark') <= MaxLevel /\ Len(mark') \in Nat
      BY <1>1, <1>3, BoundsAssumption DEF IInv, TypeInv, L
    <2>2. TypeInv
      BY DEF IInv
    <2>3. /\ net' \in Circuits /\ con' \in [Nodes(net) -> V3]
          /\ impl' \in [Nodes(net) -> [Bit -> SUBSET Literals(net)]]
          /\ recording' \in BOOLEAN /\ aborted' \in BOOLEAN
          /\ recs' \subseteq Literals(net) /\ result' \in {"none", "true", "false"}
      BY <1>0, <2>2 DEF TypeInv
    <2>4. chg' \in Seq(Changes) /\ Changes' = Changes
      BY <1>0, <1>3 DEF Changes, StateSet
    <2>5. \A n \in Nodes(net) : st'[n] \in StateSet(n)'
      BY <1>0, <1>4 DEF StateSet
    <2>6. mark' \in Seq(Nat) /\ Len(mark') = L - 1 /\ dec' \in Seq(Literals(net)) /\ Len(dec') = L - 1
      BY <1>3
    <2> QED  BY <1>0, <1>4, <1>5, <1>6, <2>1, <2>3, <2>4, <2>5, <2>6 DEF TypeInv
  <1>8. MarksOrdered'
    <2>0. \A j \in 1 .. L : mark[j] <= pos
      BY <1>1, <1>2 DEF pos
    <2>1. \A i \in 1 .. (L - 1) : i \in 1 .. L /\ mark'[i] = mark[i] /\ mark[i] <= pos
      <3>1. \A i \in 1 .. (L - 1) : i \in 1 .. L
        BY <1>1
      <3> QED BY <1>3, <2>0, <3>1
    <2>2. \A i \in 1 .. (L - 1) : \A j \in 1 .. i : j \in 1 .. (L - 1)
      BY <1>1
    <2> QED  BY <1>1, <1>3, <2>1, <2>2 DEF MarksOrdered
  <1>9. CallsInv'
    BY <1>0, EmptySeq DEF CallsInv
  <1>10. LiteralsInv'
    <2>1. ASSUME NEW f \in Consistent(net), result = "false", Len(dec) = 1
          PROVE  ~Holds(f, dec[1])
      <3>1. ~Satisfies(f, Len(dec))
        BY <2>1 DEF IInv, ModelsInv
      <3> QED  BY <2>1, <3>1 DEF Satisfies
    <2> QED  BY <1>0, <2>1 DEF IInv, LiteralsInv
  <1>11. ModelsInv'
    <2>1. ASSUME NEW f, NEW k \in 0 .. (L - 1)  PROVE Sat(f, k) <=> Satisfies(f, k)
      <3>1. \A i \in 1 .. k : i \in 1 .. (L - 1)
        BY <1>1
      <3> QED  BY <1>3, <3>1 DEF Satisfies
    <2>2. ASSUME NEW f \in Consistent(net), NEW k \in 1 .. L, Satisfies(f, k - 1)
          PROVE  Agrees(Restored(st, chg, mark[k]), f)
      BY <2>2 DEF IInv, ModelsInv, L
    <2>3. ASSUME NEW f \in Consistent(net), Sat(f, L - 1)
          PROVE  Agrees(st, f)'
      <3>1. Satisfies(f, L - 1)
        BY <1>1, <2>1, <2>3
      <3>2. Agrees(Restored(st, chg, pos), f)
        BY <1>2, <2>2, <3>1 DEF pos
      <3> QED  BY <1>0, <3>2 DEF Agrees
    <2>4. ASSUME NEW f \in Consistent(net), swallowed' # 0
          PROVE  ~Sat(f, swallowed')
      <3>1. swallowed' = swallowed /\ ~Satisfies(f, swallowed)
        BY <1>0, <2>4 DEF IInv, ModelsInv
      <3> QED  BY <1>5, <2>1, <3>1
    <2>5. ASSUME NEW f \in Consistent(net), NEW k \in 1 .. (L - 1), Sat(f, k - 1)
          PROVE  Agrees(Restored(st, chg, mark[k]), f)'
      <3>1. k \in 1 .. L /\ Satisfies(f, k - 1) /\ mark[k] \in 0 .. pos
        <4>1. k \in 1 .. L /\ k - 1 \in 0 .. (L - 1)
          BY <1>1
        <4>2. mark[k] \in 0 .. Len(chg) /\ mark[k] <= mark[L]
          BY <1>1, <1>2, <4>1
        <4> QED  BY <1>2, <2>1, <2>5, <4>1, <4>2 DEF pos
      <3>2. Restored(st', chg', mark'[k]) = Restored(st, chg, mark[k])
        <4>1. Restored(Restored(st, chg, pos), SubSeq(chg, 1, pos), mark[k])
                = Restored(st, chg, mark[k])
          BY <1>1, <1>2, <3>1, RestoredTwice
        <4> QED  BY <1>0, <1>3, <4>1
      <3> QED  BY <1>0, <2>2, <3>1, <3>2 DEF Agrees
    <2>6. \A f \in Consistent(net)' : f \in Consistent(net)
      BY <1>0
    <2>7. \A f : agenda' \in Seq(TrueFrames(f)')
      BY <1>0, EmptySeq
    <2> QED  BY <1>0, <1>3, <2>3, <2>4, <2>5, <2>6, <2>7 DEF ModelsInv, Satisfies
  <1>12. RecordSound'
    BY <1>0 DEF RecordSound
  <1>13. NoAbort'
    BY <1>0 DEF IInv, NoAbort
  <1> QED  BY <1>7, <1>8, <1>9, <1>10, <1>11, <1>12, <1>13 DEF IInv

\* Outside any assert a step changes only constants, pins and the stack.
LEMMA ConstStep ==
  ASSUME IInv, dec = <<>>,
         st' \in [Nodes(net) -> States], \A n \in Nodes(net) : st'[n] \in StateSet(n),
         con' \in [Nodes(net) -> V3],
         agenda' \in Seq(CallFrames),
         \A f \in Consistent(net) : /\ Agrees(st', f)
                                    /\ \A n \in Nodes(net) : con'[n] \in {X, f[n]}
                                    /\ agenda' \in Seq(TrueFrames(f)),
         UNCHANGED <<net, chg, mark, impl, recording, recs, result, dec,
                     swallowed, refuted, aborted>>
  PROVE  IInv'
PROOF
  <1>0. /\ Len(mark) = 0 /\ Len(dec) = 0 /\ mark = <<>>
        /\ \A f : Satisfies(f, Len(dec))
    BY IdleFacts DEF Satisfies
  <1>1. TypeInv'
    BY DEF IInv, TypeInv, Changes, StateSet
  <1>2. MarksOrdered'
    BY <1>0 DEF MarksOrdered
  <1>3. CallsInv'
    BY DEF CallsInv, CallFrames, Frames
  <1>4. LiteralsInv'
    BY DEF IInv, LiteralsInv
  <1>5. ModelsInv'
    <2>1. ASSUME NEW f \in Consistent(net)
          PROVE  /\ Agrees(st, f)' /\ agenda' \in Seq(TrueFrames(f)')
                 /\ result' # "false"
      <3>1. agenda' \in Seq(TrueFrames(f)')
        BY DEF TrueFrames, CallFrames, Frames
      <3> QED  BY <1>0, <3>1 DEF Agrees, IInv, ModelsInv
    <2>2. swallowed' = 0
      BY <1>0 DEF IInv, TypeInv
    <2> QED  BY <1>0, <2>1, <2>2 DEF ModelsInv
  <1>6. RecordSound'
    BY <1>0 DEF RecordSound
  <1>7. NoAbort'
    BY DEF IInv, NoAbort
  <1> QED  BY <1>1, <1>2, <1>3, <1>4, <1>5, <1>6, <1>7 DEF IInv

\* Outside any assert every state agrees with every assignment.
LEMMA NoLevelFacts ==
  ASSUME IInv, dec = <<>>, NEW f \in Consistent(net)
  PROVE  /\ Agrees(st, f) /\ agenda \in Seq(TrueFrames(f))
         /\ \A n \in Nodes(net) : con[n] \in {X, f[n]}
         /\ Satisfies(f, Len(dec))
PROOF
  <1>1. Satisfies(f, Len(dec))
    BY IdleFacts DEF Satisfies
  <1> QED  BY <1>1 DEF IInv, ModelsInv, LiteralsInv

LEMMA ConFrame ==
  ASSUME IInv, dec = <<>>, NEW n \in Nodes(net), NEW v \in Bit
  PROVE  /\ Con(n, v) \in CallFrames
         /\ \A f \in Consistent(net) : f[n] = v => Con(n, v) \in TrueFrames(f)
PROOF
  <1>1. Con(n, v) \in Frames
    BY FanoutsType DEF Con, Frames
  <1>2. Con(n, v) \in CallFrames /\ Con(n, v).n = n /\ Con(n, v).v = v
    BY <1>1 DEF Con, CallFrames
  <1> QED  BY <1>2 DEF TrueFrames

LEMMA SetConstStep ==
  ASSUME IInv, NEW n \in Nodes(net), NEW v \in Bit, SetConst(n, v)
  PROVE  IInv'
PROOF
  <1>1. /\ con' = [con EXCEPT ![n] = v] /\ agenda' = <<Con(n, v)>> /\ st' = st
        /\ mark = <<>> /\ <<n, 1 - v>> \in refuted
        /\ UNCHANGED <<net, chg, mark, impl, recording, recs, result, dec,
                       swallowed, refuted, aborted>>
    BY DEF SetConst, ConstCall
  <1>2. dec = <<>>
    BY <1>1, IdleFacts
  <1>3. \A f \in Consistent(net) : f[n] = v
    <2>1. ASSUME NEW f \in Consistent(net)  PROVE f[n] = v
      <3>1. f[n] # 1 - v /\ f[n] \in Bit
        BY <1>1 DEF IInv, LiteralsInv, Holds, Consistent
      <3> QED  BY <3>1 DEF Bit
    <2> QED  BY <2>1
  <1>4. agenda' \in Seq(CallFrames)
        /\ \A f \in Consistent(net) : agenda' \in Seq(TrueFrames(f))
    BY <1>1, <1>2, <1>3, ConFrame
  <1>5. con' \in [Nodes(net) -> V3]
    BY <1>1 DEF IInv, TypeInv, Bit, V3
  <1>6. \A f \in Consistent(net), m \in Nodes(net) : con'[m] \in {X, f[m]}
    BY <1>1, <1>2, <1>3, NoLevelFacts DEF IInv, TypeInv
  <1>7. st' \in [Nodes(net) -> States] /\ \A m \in Nodes(net) : st'[m] \in StateSet(m)
    BY <1>1 DEF IInv, TypeInv
  <1>8. \A f \in Consistent(net) : Agrees(st', f)
    BY <1>1, <1>2, NoLevelFacts
  <1> QED  BY <1>1, <1>2, <1>4, <1>5, <1>6, <1>7, <1>8, ConstStep

LEMMA ConstEndStep ==
  ASSUME IInv, ConstEnd
  PROVE  IInv'
PROOF
  <1>1. /\ agenda # <<>> /\ Top.op = "con" /\ agenda' = Callers /\ st' = st /\ con' = con
        /\ UNCHANGED <<net, chg, mark, impl, recording, recs, result, dec,
                       swallowed, refuted, aborted>>
    BY DEF ConstEnd
  <1>2. dec = <<>>
    BY <1>1, StackFacts DEF CallFrames
  <1>3. /\ agenda' \in Seq(CallFrames)
        /\ \A f \in Consistent(net) : agenda' \in Seq(TrueFrames(f))
    BY <1>1, <1>2, StackFacts, NoLevelFacts
  <1>4. /\ con' \in [Nodes(net) -> V3] /\ st' \in [Nodes(net) -> States]
        /\ \A m \in Nodes(net) : st'[m] \in StateSet(m)
    BY <1>1 DEF IInv, TypeInv
  <1> QED  BY <1>1, <1>2, <1>3, <1>4, NoLevelFacts, ConstStep

LEMMA SetIndImpStep ==
  ASSUME IInv, NEW n \in Nodes(net), NEW v \in Bit, NEW d \in Literals(net),
         SetIndImp(n, v, d)
  PROVE  IInv'
PROOF
  <1>1. /\ impl' = [impl EXCEPT ![n][v] = @ \cup {d}] /\ agenda = <<>> /\ mark = <<>>
        /\ d \in ValidImplications(n, v)
        /\ UNCHANGED <<net, st, chg, mark, con, agenda, recording, recs, result,
                       dec, swallowed, refuted, aborted>>
    BY DEF SetIndImp, Idle
  <1>2. impl \in [Nodes(net) -> [Bit -> SUBSET Literals(net)]]
    BY DEF IInv, TypeInv
  <1>3. /\ impl' \in [Nodes(net) -> [Bit -> SUBSET Literals(net)]]
        /\ \A m \in Nodes(net), w \in Bit :
             impl'[m][w] = IF m = n /\ w = v THEN impl[m][w] \cup {d} ELSE impl[m][w]
    BY <1>1, <1>2
  <1>4. TypeInv'
    BY <1>1, <1>3 DEF IInv, TypeInv, Changes, StateSet
  <1>5. MarksOrdered'
    BY <1>1 DEF IInv, MarksOrdered
  <1>6. CallsInv'
    BY <1>1, EmptySeq DEF CallsInv
  <1>7. LiteralsInv'
    <2>1. \A f \in Consistent(net) : f[n] = v => Holds(f, d)
      BY <1>1 DEF ValidImplications
    <2>2. \A f \in Consistent(net), m \in Nodes(net), w \in Bit :
             \A q \in impl'[m][w] : f[m] = w => Holds(f, q)
      <3>1. ASSUME NEW f \in Consistent(net), NEW m \in Nodes(net), NEW w \in Bit,
                   NEW q \in impl'[m][w], f[m] = w
            PROVE  Holds(f, q)
        <4>1. q \in impl[m][w] \/ (m = n /\ w = v /\ q = d)
          BY <1>3, <3>1
        <4> QED  BY <2>1, <3>1, <4>1 DEF IInv, LiteralsInv
      <3> QED  BY <3>1
    <2> QED  BY <1>1, <2>2 DEF IInv, LiteralsInv
  <1>8. ModelsInv'
    <2>1. \A f : agenda' \in Seq(TrueFrames(f)')
      BY <1>1, EmptySeq
    <2> QED  BY <1>1, <2>1 DEF IInv, ModelsInv, Agrees, Satisfies
  <1>9. RecordSound'
    BY <1>1 DEF RecordSound
  <1>10. NoAbort'
    BY <1>1 DEF IInv, NoAbort
  <1> QED  BY <1>4, <1>5, <1>6, <1>7, <1>8, <1>9, <1>10 DEF IInv

\* Every network has an assignment that respects all its AND nodes: one that
\* respects the nodes below k can be corrected at k.
LEMMA ConsistentNonempty ==
  ASSUME NEW c, IsCircuit(c)
  PROVE  Consistent(c) # {}
PROOF
  <1> DEFINE A == [Nodes(c) -> Bit]
             Gate(f, n) == IF PinVal(c, f, n, 1) = 1 /\ PinVal(c, f, n, 2) = 1
                           THEN 1 ELSE 0
             Ok(f, k) == \A n \in Ands(c) : n < k => f[n] = Gate(f, n)
             Bad == {k \in 0 .. c.nn : ~ \E f \in A : Ok(f, k)}
  <1>0. /\ c.nn \in Nat /\ c.ni \in Nat /\ Ands(c) \subseteq Nodes(c)
        /\ Nodes(c) = 0 .. (c.nn - 1)
        /\ \A n \in Ands(c), p \in Pin : c.src[n][p] < n /\ c.src[n][p] \in Nodes(c)
        /\ \A n \in Ands(c) : n >= 0 /\ n \in Int
    BY CircuitFacts DEF IsCircuit, Nodes, Ands
  <1>1. ASSUME Bad # {}  PROVE FALSE
    <2>1. PICK k \in Bad : \A j \in Bad : k <= j
      <3>1. Bad \subseteq Nat
        BY <1>0
      <3> HIDE DEF Bad
      <3> QED  BY <1>1, <3>1, LeastNat
    <2>2. k # 0
      <3>1. [n \in Nodes(c) |-> 0] \in A
        BY DEF Bit
      <3>2. Ok([n \in Nodes(c) |-> 0], 0)
        BY <1>0
      <3> HIDE DEF A, Ok
      <3> QED  BY <2>1, <3>1, <3>2
    <2> DEFINE m == k - 1
    <2>3. m \in 0 .. c.nn /\ m \in Nodes(c) /\ m \notin Bad /\ k \in Int
      BY <1>0, <2>1, <2>2
    <2>4. PICK f \in A : Ok(f, m)
      <3> HIDE DEF A, Ok, m
      <3> QED  BY <2>3
    <2> DEFINE g == [f EXCEPT ![m] = Gate(f, m)]
    <2>5. CASE m \in Ands(c)
      <3>1. g \in A /\ \A n \in Nodes(c) : n # m => g[n] = f[n]
        BY <2>4 DEF Bit
      <3>2. g[m] = Gate(f, m)
        BY <2>3, <2>4
      <3> HIDE DEF g
      <3>3. \A n \in Ands(c), p \in Pin : n < k => PinVal(c, g, n, p) = PinVal(c, f, n, p)
        <4>1. \A n \in Ands(c), p \in Pin : n < k => c.src[n][p] \in Nodes(c) /\ c.src[n][p] # m
          BY <1>0, <2>3
        <4> QED  BY <3>1, <4>1 DEF PinVal
      <3>4. \A n \in Ands(c) : n < k => Gate(g, n) = Gate(f, n)
        BY <3>3 DEF Pin
      <3>5. \A n \in Ands(c) : n < k => n = m \/ n < m
        BY <1>0, <2>3
      <3>6. Ok(g, k)
        BY <1>0, <2>4, <3>1, <3>2, <3>4, <3>5
      <3> HIDE DEF A, Ok
      <3> QED  BY <2>1, <3>1, <3>6
    <2>6. CASE m \notin Ands(c)
      <3>1. \A n \in Ands(c) : n < k => n < m
        BY <1>0, <2>3, <2>6
      <3>2. Ok(f, k)
        BY <2>4, <3>1
      <3> HIDE DEF A, Ok
      <3> QED  BY <2>1, <2>4, <3>2
    <2> QED  BY <2>5, <2>6
  <1>2. PICK f \in A : Ok(f, c.nn)
    <2>1. c.nn \in 0 .. c.nn
      BY <1>0
    <2> HIDE DEF A, Ok
    <2> QED  BY <1>1, <2>1
  <1>3. \A n \in Ands(c) : n < c.nn
    BY <1>0
  <1>4. f \in Consistent(c)
    BY <1>2, <1>3 DEF Consistent
  <1> QED  BY <1>4

LEMMA PropConstStep ==
  ASSUME IInv, PropConst
  PROVE  IInv'
PROOF
  <1>0. /\ agenda # <<>> /\ Top.op = "con"
        /\ UNCHANGED <<net, chg, mark, impl, recording, recs, result, dec,
                       swallowed, refuted>>
    BY DEF PropConst
  <1>1. PICK e \in Top.todo :
          LET d == e[1]
              p == e[2]
              w == Flip(Top.v, net.inv[d][p])
              s == st[d]
              o == ConstOut(s, p, w)
          IN  \/ ConstAbort(s, p, w)
              \/ /\ ~ConstAbort(s, p, w)
                 /\ st' = [st EXCEPT ![d] = ConstState(s, p, w)]
                 /\ con' = IF o = X THEN con ELSE [con EXCEPT ![d] = o]
                 /\ agenda' = (IF o = X THEN <<>> ELSE <<Con(d, o)>>) \o TopWithout(e)
                 /\ UNCHANGED aborted
    BY DEF PropConst
  <1> DEFINE d == e[1]
             p == e[2]
             w == Flip(Top.v, net.inv[d][p])
             s == st[d]
             t == ConstState(s, p, w)
             o == ConstOut(s, p, w)
  <1>2. /\ d \in Ands(net) /\ p \in Pin /\ net.src[d][p] = Top.n
        /\ Top.n \in Nodes(net) /\ Top.v \in Bit /\ dec = <<>>
    <2>1. Top \in Frames /\ Top.todo \subseteq Fanouts(net, Top.n) /\ dec = <<>>
      BY <1>0, StackFacts DEF CallFrames
    <2> QED  BY <2>1 DEF Fanouts, Frames
  <1>3. /\ IsCircuit(net) /\ w \in Bit
        /\ d \in Nodes(net) /\ d \notin Inputs(net) /\ s \in AndStates
    <2>1. IsCircuit(net)
      BY NetIsCircuit DEF IInv
    <2> QED  BY <1>2, <2>1, CircuitFacts, FlipBit, NodeFacts
  <1>4. ASSUME NEW f \in Consistent(net)
        PROVE  /\ ~ConstAbort(s, p, w) /\ Covers(t, Row(net, f, d)) /\ o \in {X, f[d]}
    <2>1. /\ Row(net, f, d) \in Rows /\ IsAndRow(Row(net, f, d))
          /\ Row(net, f, d)[Out] = f[d]
          /\ \A k \in Pin : Row(net, f, d)[k] = PinVal(net, f, d, k)
      BY <1>2, <1>3, RowFacts
    <2>2. Satisfies(f, Len(dec)) /\ Top \in TrueFrames(f)
      BY <1>0, <1>2, NoLevelFacts, StackFacts
    <2>3. Covers(s, Row(net, f, d))
      BY <1>3, <2>2, NodeFacts DEF NodeAgrees
    <2>4. Row(net, f, d)[p] = w
      BY <1>2, <2>1, <2>2 DEF PinVal, TrueFrames
    <2>5. /\ ~ConstAbort(s, p, Row(net, f, d)[p])
          /\ Covers(ConstState(s, p, Row(net, f, d)[p]), Row(net, f, d))
          /\ ConstOut(s, p, Row(net, f, d)[p]) \in {X, Row(net, f, d)[Out]}
      BY <1>2, <1>3, <2>1, <2>3, ConstSound1
    <2> QED  BY <2>1, <2>4, <2>5
  <1>5. ~ConstAbort(s, p, w)
    BY <1>3, <1>4, ConsistentNonempty
  <1>6. /\ st' = [st EXCEPT ![d] = t]
        /\ con' = IF o = X THEN con ELSE [con EXCEPT ![d] = o]
        /\ agenda' = (IF o = X THEN <<>> ELSE <<Con(d, o)>>) \o TopWithout(e)
        /\ aborted' = aborted
    BY <1>1, <1>5
  <1>7. t \in AndStates /\ o \in V3
    BY <1>2, <1>3, <1>5, ConstType
  <1> HIDE DEF d, p, w, s, t, o
  <1>8. st' \in [Nodes(net) -> States] /\ \A n \in Nodes(net) : st'[n] \in StateSet(n)
    <2>1. t \in States
      BY <1>7 DEF AndStates
    <2> QED  BY <1>3, <1>6, <1>7, <2>1 DEF IInv, TypeInv, StateSet
  <1>9. con' \in [Nodes(net) -> V3]
    BY <1>6, <1>7 DEF IInv, TypeInv
  <1>10. \A f \in Consistent(net) : Agrees(st', f)
    <2>1. \A f \in Consistent(net) : NodeAgrees(net, t, f, d) /\ Agrees(st, f)
      BY <1>2, <1>3, <1>4, NoLevelFacts DEF NodeAgrees
    <2>2. DOMAIN st = Nodes(net)
      BY DEF IInv, TypeInv
    <2> QED  BY <1>3, <1>6, <2>1, <2>2, AgreesChange
  <1>11. \A f \in Consistent(net), n \in Nodes(net) : con'[n] \in {X, f[n]}
    BY <1>2, <1>3, <1>4, <1>6, NoLevelFacts DEF IInv, TypeInv
  <1>12. /\ agenda' \in Seq(CallFrames)
         /\ \A f \in Consistent(net) : agenda' \in Seq(TrueFrames(f))
    <2>1. /\ TopWithout(e) \in Seq(CallFrames)
          /\ \A f \in Consistent(net) : TopWithout(e) \in Seq(TrueFrames(f))
      BY <1>0, <1>2, TopWithoutFacts, NoLevelFacts
    <2>2. CASE o = X
      <3>1. \A S : <<>> \in Seq(S)
        OBVIOUS
      <3>2. agenda' = <<>> \o TopWithout(e)
        BY <1>6, <2>2
      <3> QED  BY <2>1, <3>1, <3>2, ConcatProperties
    <2>3. CASE o # X
      <3>1. o \in Bit
        BY <1>7, <2>3 DEF V3, Bit, X
      <3>2. /\ Con(d, o) \in CallFrames
            /\ \A f \in Consistent(net) : Con(d, o) \in TrueFrames(f)
        BY <1>2, <1>3, <1>4, <2>3, <3>1, ConFrame
      <3>3. agenda' = <<Con(d, o)>> \o TopWithout(e)
        BY <1>6, <2>3
      <3> QED  BY <2>1, <3>2, <3>3, Push
    <2> QED  BY <2>2, <2>3
  <1> QED  BY <1>0, <1>2, <1>6, <1>8, <1>9, <1>10, <1>11, <1>12, ConstStep
------------------------------------------------------------------------------
(***************************************************************************)
(* The inductive invariant and what follows from it.                       *)
(***************************************************************************)
LEMMA InitInv ==
  ASSUME Init
  PROVE  IInv
PROOF
  <1>0. /\ net \in Circuits /\ IsCircuit(net)
        /\ st = [n \in Nodes(net) |-> Clear]
        /\ chg = <<>> /\ mark = <<>> /\ dec = <<>> /\ agenda = <<>>
        /\ con = [n \in Nodes(net) |-> X]
        /\ impl = [n \in Nodes(net) |-> [v \in Bit |-> {}]]
        /\ recording = FALSE /\ recs = {} /\ result = "none" /\ swallowed = 0
        /\ refuted = {} /\ aborted = FALSE
    BY CircuitsAssumption DEF Init
  <1>1. Len(mark) = 0 /\ \A S : <<>> \in Seq(S)
    BY <1>0
  <1>2. Clear \in States /\ Clear \in InputStates /\ Clear \in AndStates
        /\ \A k \in 1 .. 3 : Clear[k] = X
    BY DEF Clear, States, InputStates, AndStates, V3, X, Out
  <1>3. TypeInv
    <2>1. st \in [Nodes(net) -> States] /\ \A n \in Nodes(net) : st[n] \in StateSet(n)
      BY <1>0, <1>2 DEF StateSet
    <2>2. con \in [Nodes(net) -> V3] /\ impl \in [Nodes(net) -> [Bit -> SUBSET Literals(net)]]
      BY <1>0 DEF V3
    <2>3. Len(mark) = 0 /\ Len(dec) = 0
      BY <1>0, <1>1
    <2>4. chg \in Seq(Changes) /\ mark \in Seq(Nat) /\ dec \in Seq(Literals(net))
      BY <1>0, <1>1
    <2>5. Len(mark) <= MaxLevel /\ swallowed \in 0 .. Len(mark)
      BY <1>0, <2>3, BoundsAssumption
    <2>6. recs \subseteq Literals(net) /\ refuted \subseteq Literals(net)
      BY <1>0
    <2> QED  BY <1>0, <2>1, <2>2, <2>3, <2>4, <2>5, <2>6 DEF TypeInv
  <1>4. MarksOrdered
    BY <1>1 DEF MarksOrdered
  <1>5. CallsInv
    BY <1>0, <1>1 DEF CallsInv
  <1>6. LiteralsInv
    BY <1>0 DEF LiteralsInv
  <1>7. ModelsInv
    <2>1. \A f : Agrees(st, f)
      <3>1. Ands(net) \subseteq Nodes(net) /\ Out \in 1 .. 3 /\ Pin \subseteq 1 .. 3
        BY <1>0, CircuitFacts DEF Out, Pin
      <3> QED  BY <1>0, <1>2, <3>1 DEF Agrees
    <2> QED  BY <1>0, <1>1, <2>1 DEF ModelsInv
  <1>8. RecordSound
    BY <1>0 DEF RecordSound
  <1>9. NoAbort
    BY <1>0 DEF NoAbort
  <1> QED  BY <1>3, <1>4, <1>5, <1>6, <1>7, <1>8, <1>9 DEF IInv

LEMMA StutterInv ==
  ASSUME IInv, UNCHANGED vars
  PROVE  IInv'
PROOF
  <1>1. TypeInv'
    BY DEF IInv, TypeInv, vars, Changes, StateSet
  <1>2. MarksOrdered'
    BY DEF IInv, MarksOrdered, vars
  <1>3. CallsInv'
    BY DEF IInv, CallsInv, CallFrames, Frames, vars
  <1>4. LiteralsInv'
    BY DEF IInv, LiteralsInv, vars
  <1>5. ModelsInv'
    <2>1. UNCHANGED <<net, st, chg, mark, impl, agenda, result, dec, swallowed>>
      BY DEF vars
    <2>2. \A f, k : /\ (\A i \in 1 .. k : Holds(f, dec'[i])) <=> Satisfies(f, k)
                    /\ Agrees(st, f)' <=> Agrees(st, f)
                    /\ Agrees(Restored(st, chg, mark[k]), f)'
                         <=> Agrees(Restored(st, chg, mark[k]), f)
      BY <2>1 DEF Satisfies, Agrees
    <2>3. ASSUME NEW f  PROVE TrueFrames(f)' = TrueFrames(f)
      BY <2>1 DEF TrueFrames, CallFrames, Frames
    <2>4. ModelsInv
      BY DEF IInv
    <2> QED  BY <2>1, <2>2, <2>3, <2>4 DEF ModelsInv, Satisfies
  <1>6. RecordSound' /\ NoAbort'
    BY DEF IInv, RecordSound, NoAbort, Models, vars
  <1> QED  BY <1>1, <1>2, <1>3, <1>4, <1>5, <1>6 DEF IInv

LEMMA NextInv ==
  ASSUME IInv, [Next]_vars
  PROVE  IInv'
PROOF
  <1>1. CASE Propagate
    BY <1>1, BwdPropStep, FanoutStepStep, FanoutEndStep, IndStepStep, IndEndStep,
       PropConstStep, ConstEndStep DEF Propagate
  <1>2. CASE Call
    <2>1. CASE \E n \in Nodes(net), v \in Bit, r \in BOOLEAN : Assert(n, v, r)
      BY <2>1, AssertStep
    <2>2. CASE Backtrack
      BY <2>2, BacktrackStep
    <2>3. CASE \E n \in Nodes(net), v \in Bit : SetConst(n, v)
      BY <2>3, SetConstStep
    <2>4. CASE \E n \in Nodes(net), v \in Bit, d \in Literals(net) : SetIndImp(n, v, d)
      BY <2>4, SetIndImpStep
    <2> QED  BY <1>2, <2>1, <2>2, <2>3, <2>4 DEF Call
  <1>3. CASE UNCHANGED vars
    BY <1>3, StutterInv
  <1> QED  BY <1>1, <1>2, <1>3 DEF Next

\* IInv holds in every reachable state of the engine.
THEOREM Invariance == Spec => []IInv
PROOF
  <1>1. Init => IInv
    BY InitInv
  <1>2. IInv /\ [Next]_vars => IInv'
    BY NextInv
  <1> QED  BY <1>1, <1>2, PTL DEF Spec

\* IInv bounds every variable.
LEMMA TypesHold ==
  ASSUME IInv
  PROVE  TypeOK
PROOF
  <1>1. IsCircuit(net) /\ TypeInv /\ agenda \in Seq(CallFrames)
    BY NetIsCircuit DEF IInv, CallsInv
  <1>2. \A n \in Ands(net) : st[n] \in AndStates
    BY <1>1, CircuitFacts DEF TypeInv, StateSet
  <1>3. \A n \in Inputs(net) : st[n] \in InputStates
    BY <1>1, CircuitFacts DEF TypeInv, StateSet
  <1>4. agenda \in Seq(Frames)
    <2>1. CallFrames \subseteq Frames
      BY DEF CallFrames
    <2> QED  BY <1>1, <2>1
  <1>5. chg \in Seq([n : Nodes(net), s : States])
    <2> DEFINE D == [n : Nodes(net), s : States]
    <2>1. Changes \subseteq D /\ chg \in Seq(Changes)
      BY <1>1 DEF Changes, TypeInv
    <2> HIDE DEF D
    <2>2. chg \in Seq(D)
      BY <2>1
    <2> QED  BY <2>2 DEF D
  <1> QED  BY <1>1, <1>2, <1>3, <1>4, <1>5 DEF TypeOK, TypeInv

\* Type correctness; in particular no call of the propagation reaches the
\* default branch of a switch over the states of ImpAnd.
THEOREM TypeCorrectness == Spec => []TypeOK
PROOF
  <1>1. IInv => TypeOK
    BY TypesHold
  <1> QED  BY <1>1, Invariance, PTL

\* Every value set on a node or a pin is forced by the asserted literals, and
\* false is returned only for literals no assignment satisfies.
THEOREM Soundness == Spec => []Sound
PROOF
  <1>1. ASSUME IInv  PROVE Sound
    <2>1. \A f \in Models : f \in Consistent(net) /\ Satisfies(f, Len(dec))
      BY DEF Models, Satisfies
    <2>2. \A f \in Models : Agrees(st, f) /\ result # "false"
      BY <1>1, <2>1 DEF IInv, ModelsInv
    <2>3. ASSUME NEW f \in Models, swallowed # 0  PROVE FALSE
      <3>1. ~Satisfies(f, swallowed)
        BY <1>1, <2>1, <2>3 DEF IInv, ModelsInv
      <3>2. swallowed \in 0 .. Len(dec) /\ Len(dec) \in Nat
        BY <1>1, IdleFacts DEF IInv, TypeInv
      <3>3. \A i \in 1 .. swallowed : i \in 1 .. Len(dec)
        BY <3>2
      <3> QED  BY <2>1, <3>1, <3>3 DEF Satisfies
    <2> QED  BY <2>2, <2>3 DEF Sound
  <1> QED  BY <1>1, Invariance, PTL

\* A node marked constant has that value in every assignment.
THEOREM ConstSoundness == Spec => []ConstSound
PROOF
  <1>1. IInv => ConstSound
    BY DEF IInv, LiteralsInv, ConstSound
  <1> QED  BY <1>1, Invariance, PTL

\* What the learners are told by record is implied by the asserted literals.
THEOREM RecordSoundness == Spec => []RecordSound
PROOF
  <1>1. IInv => RecordSound
    BY DEF IInv
  <1> QED  BY <1>1, Invariance, PTL

\* The ASSERT_CONDs of prop_const never fire.
THEOREM AssertionsHold == Spec => []NoAbort
PROOF
  <1>1. IInv => NoAbort
    BY DEF IInv
  <1> QED  BY <1>1, Invariance, PTL

------------------------------------------------------------------------------
(***************************************************************************)
(* Refinement of ImpAbs.                                                   *)
(***************************************************************************)
(***************************************************************************)
(* The open asserts as ImpAbs sees them.                                   *)
(***************************************************************************)
LevelAt(i) == [lit |-> dec[i], old |-> Outputs(RestoredTo(mark[i]))]
Levels     == [i \in 1 .. Len(dec) |-> LevelAt(i)]

LEMMA FunctionIsSeq ==
  ASSUME NEW n \in Nat, NEW s, DOMAIN s = 1 .. n, s = [i \in 1 .. n |-> s[i]]
  PROVE  /\ Len(s) = n
         /\ \A S : (\A i \in 1 .. n : s[i] \in S) => s \in Seq(S)
OBVIOUS

LEMMA LevelsFacts ==
  ASSUME IInv
  PROVE  /\ Len(Levels) = Len(dec) /\ Len(dec) \in Nat /\ Len(dec) = Len(mark)
         /\ \A i \in 1 .. Len(dec) : Levels[i] = LevelAt(i)
         /\ \A S : (\A i \in 1 .. Len(dec) : LevelAt(i) \in S) => Levels \in Seq(S)
         /\ Levels = <<>> <=> dec = <<>>
BY FunctionIsSeq, IdleFacts DEF Levels

\* ImpAbs reads a network as the engine does.
LEMMA SameCircuits ==
  /\ Abs!X = X /\ Abs!Bit = Bit
  /\ \A c : Abs!Nodes(c) = Nodes(c) /\ Abs!Consistent(c) = Consistent(c)
  /\ \A f, lit : Abs!Holds(f, lit) <=> Holds(f, lit)
<1>1. Abs!X = X /\ Abs!Bit = Bit /\ Abs!Pin = Pin /\ \A f, lit : Abs!Holds(f, lit) <=> Holds(f, lit)
  BY DEF Abs!X, X, Abs!Bit, Bit, Abs!Pin, Pin, Abs!Holds, Holds
<1>2. \A c : Abs!Nodes(c) = Nodes(c) /\ Abs!Ands(c) = Ands(c)
  BY DEF Abs!Nodes, Nodes, Abs!Ands, Ands
<1>3. \A c, f, n, p : Abs!PinVal(c, f, n, p) = PinVal(c, f, n, p)
  BY <1>1 DEF Abs!PinVal, PinVal, Abs!Flip, Flip
<1>4. \A c : Abs!Consistent(c) = Consistent(c)
  BY <1>1, <1>2, <1>3 DEF Abs!Consistent, Consistent
<1> QED BY <1>1, <1>2, <1>4

LEMMA SatisfyingIsModels ==
  ASSUME IInv
  PROVE  /\ Abs!Satisfying = Models
         /\ \A f \in Models : f \in Consistent(net) /\ Satisfies(f, Len(dec))
<1>1. Abs!Satisfying = {f \in Consistent(net) : \A i \in 1 .. Len(Levels) : Holds(f, Levels[i].lit)}
  BY SameCircuits DEF Abs!Satisfying, Levels, LevelAt
<1>2. \A i \in 1 .. Len(dec) : Levels[i].lit = dec[i]
  <2> SUFFICES ASSUME NEW i \in 1 .. Len(dec) PROVE Levels[i].lit = dec[i]
    OBVIOUS
  <2>1. Levels[i] = LevelAt(i)
    BY DEF Levels
  <2>2. LevelAt(i).lit = dec[i]
    BY DEF LevelAt
  <2> QED BY <2>1, <2>2
<1>3. Abs!Satisfying = Models
  <2>1. Len(Levels) = Len(dec)
    BY LevelsFacts
  <2> QED BY <1>1, <1>2, <2>1 DEF Models
<1> QED BY <1>3 DEF Models, Satisfies

\* Where the asserts and what they restore stay the same, so do the levels.
LEMMA LevelsKept ==
  ASSUME IInv, UNCHANGED <<net, mark, dec>>,
         \A k \in 1 .. Len(mark) : Restored(st', chg', mark[k]) = Restored(st, chg, mark[k])
  PROVE  Levels' = Levels
<1>1. Len(dec) = Len(mark)
  BY IdleFacts
<1>2. \A i \in 1 .. Len(dec) : LevelAt(i)' = LevelAt(i)
  BY <1>1 DEF LevelAt, RestoredTo, Outputs
<1> QED BY <1>2 DEF Levels
------------------------------------------------------------------------------
(***************************************************************************)
(* A call of assert has not returned, and its own literal is set by the    *)
(* first step of its propagation.                                          *)
(***************************************************************************)
Asserted == dec[Len(dec)]
CallInv ==
  agenda # <<>> /\ dec # <<>> =>
    /\ result = "none"
    /\ agenda = <<Bwd(Asserted[1], Asserted[2], NoNode)>> \/ OutVal(Asserted[1]) = Asserted[2]

RInv == IInv /\ CallInv

\* The values of a node are only ever set.
Grows == \A n \in Nodes(net) : st'[n][Out] = st[n][Out] \/ st[n][Out] = X
KeepsLevels ==
  \A k \in 1 .. Len(mark) : Restored(st', chg', mark[k]) = Restored(st, chg, mark[k])

LEMMA AssertedNode ==
  ASSUME IInv, dec # <<>>
  PROVE  Asserted \in Literals(net) /\ Asserted[1] \in Nodes(net) /\ Asserted[2] \in Bit
<1>1. Len(dec) \in 1 .. Len(dec)
  BY IdleFacts
<1>2. Asserted \in Literals(net)
  BY <1>1, IdleFacts DEF Asserted
<1> QED BY <1>2 DEF Literals

\* Values that are set while a call is running are the ones the asserts force.
LEMMA InferStep ==
  ASSUME IInv, IInv', UNCHANGED <<net, mark, dec, result>>,
         result = "none" \/ dec = <<>>, Grows, KeepsLevels
  PROVE  Abs!Infer
<1>1. Levels' = Levels /\ (Levels = <<>> <=> dec = <<>>)
  BY LevelsKept, LevelsFacts DEF KeepsLevels
<1>2. Outputs(st)' = [n \in Nodes(net) |-> st'[n][Out]]
  BY DEF Outputs
<1>3. ASSUME NEW n \in Nodes(net)
      PROVE  \/ st'[n][Out] = st[n][Out]
             \/ st[n][Out] = X /\ \A f \in Abs!Satisfying : st'[n][Out] = f[n]
  <2>1. \A f \in Abs!Satisfying : st'[n][Out] \in {X, f[n]}
    <3> SUFFICES ASSUME NEW f \in Abs!Satisfying PROVE st'[n][Out] \in {X, f[n]}
      OBVIOUS
    <3>1. f \in Consistent(net) /\ Satisfies(f, Len(dec))
      BY SatisfyingIsModels
    <3>2. Agrees(st, f)'
      BY <3>1 DEF IInv, ModelsInv, Satisfies
    <3> QED BY <3>2 DEF Agrees
  <2> QED BY <2>1 DEF Grows
<1>4. Abs!Forced(Outputs(st)')
  BY <1>2, <1>3, SameCircuits DEF Abs!Forced, Outputs
<1> QED BY <1>1, <1>4 DEF Abs!Infer, Levels, LevelAt

\* assert returns.
LEMMA AcceptStep ==
  ASSUME IInv, UNCHANGED <<net, st, chg, mark, dec>>, result = "none", result' = "true",
         dec # <<>>, OutVal(Asserted[1]) = Asserted[2]
  PROVE  Abs!Accept
<1>1. Levels' = Levels /\ Levels # <<>>
  BY LevelsKept, LevelsFacts
<1>2. Levels[Len(Levels)].lit = Asserted
  <2>1. Len(dec) \in 1 .. Len(dec)
    BY <1>1, IdleFacts
  <2>2. Len(Levels) = Len(dec) /\ Levels[Len(dec)] = LevelAt(Len(dec))
    BY <2>1, LevelsFacts
  <2> QED BY <2>2 DEF LevelAt, Asserted
<1>3. Holds(Outputs(st), Asserted)
  BY AssertedNode DEF Holds, Outputs, OutVal
<1>4. Outputs(st)' = Outputs(st)
  BY DEF Outputs
<1> QED BY <1>1, <1>2, <1>3, <1>4, SameCircuits DEF Abs!Accept, Levels, LevelAt

LEMMA RefuseStep ==
  ASSUME IInv, IInv', UNCHANGED <<net, st, chg, mark, dec>>, result = "none", result' = "false",
         dec # <<>>
  PROVE  Abs!Refuse
<1>1. Levels' = Levels /\ Levels # <<>>
  BY LevelsKept, LevelsFacts
<1>2. \A f \in Consistent(net) : ~Satisfies(f, Len(dec))
  BY DEF IInv, ModelsInv, Satisfies
<1>3. Abs!Satisfying = {}
  BY <1>2, SatisfyingIsModels
<1>4. Outputs(st)' = Outputs(st)
  BY DEF Outputs
<1> QED BY <1>1, <1>3, <1>4 DEF Abs!Refuse, Levels, LevelAt
------------------------------------------------------------------------------
(***************************************************************************)
(* The steps of a propagation.                                             *)
(***************************************************************************)
\* The propagation goes on with the calls, or returns when there are none left.
LEMMA ContinueRefines ==
  ASSUME RInv, IInv', agenda # <<>>, Top.op # "con", Kept, Grows, KeepsLevels,
         NEW calls, Continue(calls), OutVal(Asserted[1])' = Asserted[2],
         calls = <<>> => UNCHANGED <<st, chg>>
  PROVE  (Abs!Infer \/ Abs!Accept) /\ CallInv'
<1>1. dec # <<>> /\ result = "none" /\ UNCHANGED <<net, mark, dec>>
  BY TopFacts DEF RInv, CallInv, Kept
<1>2. CASE calls = <<>>
  <2>1. agenda' = <<>> /\ result' = "true" /\ UNCHANGED <<st, chg>>
    BY <1>2 DEF Continue
  <2>2. OutVal(Asserted[1]) = Asserted[2]
    BY <1>1, <2>1 DEF OutVal, Asserted
  <2> QED BY <1>1, <2>1, <2>2, AcceptStep DEF RInv, CallInv
<1>3. CASE calls # <<>>
  <2>1. agenda' = calls /\ result' = result
    BY <1>3 DEF Continue
  <2>2. CallInv'
    BY <1>1, <2>1 DEF CallInv, Asserted
  <2> QED BY <1>1, <2>1, <2>2, InferStep DEF RInv
<1> QED BY <1>2, <1>3

\* A conflict, whether it reaches assert or stops at an ind_imp call.
LEMMA ConflictRefines ==
  ASSUME RInv, IInv', agenda # <<>>, Top.op # "con", Kept, UNCHANGED <<st, chg>>, Conflict
  PROVE  (Abs!Infer \/ Abs!Accept \/ Abs!Refuse) /\ CallInv'
<1>1. dec # <<>> /\ result = "none" /\ UNCHANGED <<net, mark, dec>> /\ IInv
  BY TopFacts DEF RInv, CallInv, Kept
<1>2. CASE IndCalls = {} /\ agenda' = <<>> /\ result' = "false"
  BY <1>1, <1>2, RefuseStep DEF CallInv
<1>3. ASSUME NEW i \in IndCalls, agenda' = SubSeq(agenda, i + 1, Len(agenda)),
             result' = IF agenda' = <<>> THEN "true" ELSE result
      PROVE  (Abs!Infer \/ Abs!Accept) /\ CallInv'
  <2>1. i \in 1 .. Len(agenda) /\ agenda[i].op = "ind"
    BY <1>3 DEF IndCalls
  <2>2. agenda # <<Bwd(Asserted[1], Asserted[2], NoNode)>>
    <3> SUFFICES ASSUME agenda = <<Bwd(Asserted[1], Asserted[2], NoNode)>> PROVE FALSE
      OBVIOUS
    <3>1. i = 1
      BY <2>1
    <3> QED BY <2>1, <3>1 DEF Bwd
  <2>3. OutVal(Asserted[1]) = Asserted[2]
    BY <1>1, <2>2 DEF RInv, CallInv
  <2>4. Grows /\ KeepsLevels
    BY <1>1 DEF Grows, KeepsLevels
  <2>5. OutVal(Asserted[1])' = Asserted[2] /\ Asserted' = Asserted
    BY <1>1, <2>3 DEF OutVal, Asserted
  <2>6. CASE agenda' = <<>>
    BY <1>1, <1>3, <2>3, <2>6, AcceptStep DEF CallInv
  <2>7. CASE agenda' # <<>>
    <3>1. result' = "none"
      BY <1>1, <1>3, <2>7
    <3>2. CallInv'
      BY <2>5, <3>1 DEF CallInv
    <3> QED BY <1>1, <2>4, <3>1, <3>2, InferStep
  <2> QED BY <2>6, <2>7
<1> QED BY <1>2, <1>3 DEF Conflict

\* What is set stays: the tables never change an output that has a value.
LEMMA OutputsKept ==
  ASSUME NEW s \in AndStates, NEW p \in Pin, NEW v \in Bit
  PROVE  /\ FwdState(s, p, v)[Out] = s[Out] \/ s[Out] = X
         /\ ConstState(s, p, v)[Out] = s[Out] \/ s[Out] = X
<1>1. CASE p = 1
  BY <1>1 DEF AndStates, States, V3, X, Out, Bit, Pin, ConstState, FwdState, Other
<1>2. CASE p = 2
  BY <1>2 DEF AndStates, States, V3, X, Out, Bit, Pin, ConstState, FwdState, Other
<1> QED BY <1>1, <1>2 DEF Pin

\* One state is changed and saved.
LEMMA ChangeOnlyAdds ==
  ASSUME IInv, NEW n \in Nodes(net), NEW t \in StateSet(n), Change(n, t),
         t[Out] = st[n][Out] \/ st[n][Out] = X
  PROVE  Grows /\ KeepsLevels /\ st'[n] = t
<1>1. st \in [Nodes(net) -> States]
  BY DEF IInv, TypeInv
<1>2. st' = [st EXCEPT ![n] = t]
  BY ChangeFacts
<1> QED BY <1>1, <1>2, ChangeFacts DEF Grows, KeepsLevels

\* The literal asserted stays set.
LEMMA AssertedKept ==
  ASSUME IInv, dec # <<>>, Grows, UNCHANGED <<net, dec>>, OutVal(Asserted[1]) = Asserted[2]
  PROVE  OutVal(Asserted[1])' = Asserted[2]
BY AssertedNode DEF Grows, OutVal, Asserted, Bit, X

LEMMA BwdPropRefines ==
  ASSUME RInv, IInv', BwdProp
  PROVE  (Abs!Infer \/ Abs!Accept \/ Abs!Refuse) /\ CallInv'
<1> DEFINE n == Top.n
           v == Top.v
           s == st[n]
           t == BwdState(s, v, n \in Inputs(net))
           pins == IF n \in Inputs(net) THEN {} ELSE BwdPins(s, v)
           calls == FaninCalls(n, pins, v) \o <<Fan(n, v, Top.from)>> \o Callers
<1>1. agenda # <<>> /\ Top.op = "bwd" /\ Kept /\ Top.op # "con" /\ IInv
  BY DEF BwdProp, Kept, RInv
<1>2. n \in Nodes(net) /\ v \in Bit /\ dec # <<>> /\ s \in States
  BY <1>1, TopFacts DEF IInv, TypeInv
<1>3. CASE Conflict /\ UNCHANGED <<st, chg>>
  BY <1>1, <1>3, ConflictRefines
<1>4. CASE ~BwdConflict(s, v) /\ Change(n, t) /\ Continue(calls)
  <2>1. t \in StateSet(n)
    <3>1. CASE n \in Inputs(net)
      <4>1. s \in InputStates /\ BwdState(s, v, TRUE) \in InputStates
        BY <1>1, <1>2, <1>4, <3>1, NodeFacts, InputBwd
      <4>2. t = BwdState(s, v, TRUE)
        BY <3>1 DEF BwdState
      <4> QED BY <3>1, <4>1, <4>2 DEF StateSet
    <3>2. CASE n \notin Inputs(net)
      <4>1. s \in AndStates /\ BwdState(s, v, FALSE) \in AndStates
        BY <1>1, <1>2, <1>4, <3>2, NodeFacts, BwdType
      <4>2. t = BwdState(s, v, FALSE)
        BY <3>2 DEF BwdState
      <4> QED BY <3>2, <4>1, <4>2 DEF StateSet
    <3> QED BY <3>1, <3>2
  <2>2. t[Out] = v /\ (s[Out] = v \/ s[Out] = X)
    <3>1. CASE n \in Inputs(net)
      BY <1>2, <1>4, <3>1 DEF BwdState, BwdConflict, States, Out
    <3>2. CASE n \notin Inputs(net)
      BY <1>2, <1>4, <3>2 DEF BwdState, BwdConflict, States, Out
    <3> QED BY <3>1, <3>2
  <2> HIDE DEF t, calls
  <2>3. Grows /\ KeepsLevels /\ st'[n] = t
    BY <1>1, <1>2, <1>4, <2>1, <2>2, ChangeOnlyAdds
  <2>4. OutVal(Asserted[1])' = Asserted[2]
    <3>1. CASE agenda = <<Bwd(Asserted[1], Asserted[2], NoNode)>>
      <4>1. Top = Bwd(Asserted[1], Asserted[2], NoNode)
        BY <3>1 DEF Top
      <4>2. n = Asserted[1] /\ v = Asserted[2]
        BY <4>1 DEF Bwd
      <4> QED BY <1>1, <2>2, <2>3, <4>2 DEF OutVal, Asserted, Kept
    <3>2. CASE OutVal(Asserted[1]) = Asserted[2]
      BY <1>1, <1>2, <2>3, <3>2, AssertedKept DEF Kept
    <3> QED BY <1>1, <1>2, <3>1, <3>2 DEF RInv, CallInv
  <2>5. calls # <<>>
    <3> DEFINE S == {FaninProp(n, 1, v), FaninProp(n, 2, v)}
               F == Frames \cup S \cup {Fan(n, v, Top.from)}
    <3>1. FaninCalls(n, pins, v) \in Seq(F)
      <4>1. FaninProp(n, 1, v) \in F /\ FaninProp(n, 2, v) \in F
        OBVIOUS
      <4> HIDE DEF F, S
      <4>2. \A r \in F : <<r>> \in Seq(F)
        OBVIOUS
      <4>3. <<>> \in Seq(F)
        OBVIOUS
      <4> QED BY <4>1, <4>2, <4>3, ConcatProperties DEF FaninCalls
    <3>2. Callers \in Seq(F)
      <4>1. CallFrames \subseteq F
        BY DEF CallFrames
      <4>2. Callers \in Seq(CallFrames)
        BY <1>1, StackFacts
      <4> HIDE DEF F
      <4> QED BY <4>1, <4>2
    <3>3. <<Fan(n, v, Top.from)>> \in Seq(F)
      OBVIOUS
    <3> HIDE DEF F
    <3>4. FaninCalls(n, pins, v) \o <<Fan(n, v, Top.from)>> \in Seq(F)
          /\ FaninCalls(n, pins, v) \o <<Fan(n, v, Top.from)>> # <<>>
      BY <3>1, <3>3, ConcatProperties, ConcatEqualIffEmpty
    <3> QED BY <3>2, <3>4, ConcatEqualIffEmpty DEF calls
  <2> QED BY <1>1, <1>4, <2>3, <2>4, <2>5, ContinueRefines
<1> QED BY <1>3, <1>4 DEF BwdProp

\* Any other call is made when the literal asserted is set already.
LEMMA AssertedSet ==
  ASSUME RInv, agenda # <<>>, Top.op \in {"fan", "ind"}
  PROVE  OutVal(Asserted[1]) = Asserted[2] /\ dec # <<>> /\ IInv
<1>1. dec # <<>> /\ IInv
  BY TopFacts DEF RInv
<1>2. agenda # <<Bwd(Asserted[1], Asserted[2], NoNode)>>
  <2> SUFFICES ASSUME agenda = <<Bwd(Asserted[1], Asserted[2], NoNode)>> PROVE FALSE
    OBVIOUS
  <2>1. Top = Bwd(Asserted[1], Asserted[2], NoNode)
    BY DEF Top
  <2> QED BY <2>1 DEF Bwd
<1> QED BY <1>1, <1>2 DEF RInv, CallInv

\* A step that changes no state.
LEMMA QuietRefines ==
  ASSUME RInv, IInv', agenda # <<>>, Top.op \in {"fan", "ind"}, Kept, UNCHANGED <<st, chg>>,
         NEW calls, Continue(calls)
  PROVE  (Abs!Infer \/ Abs!Accept) /\ CallInv'
<1>1. Grows /\ KeepsLevels
  BY DEF Grows, KeepsLevels, Kept
<1>2. OutVal(Asserted[1])' = Asserted[2]
  BY AssertedSet DEF OutVal, Asserted, Kept
<1> QED BY <1>1, <1>2, ContinueRefines

LEMMA FanoutStepRefines ==
  ASSUME RInv, IInv', FanoutStep
  PROVE  (Abs!Infer \/ Abs!Accept \/ Abs!Refuse) /\ CallInv'
<1>1. agenda # <<>> /\ Top.op = "fan" /\ Kept /\ Top.op # "con" /\ IInv
  BY DEF FanoutStep, Kept, RInv
<1>2. PICK e \in Top.todo :
        LET d == e[1]
            p == e[2]
            w == Flip(Top.v, net.inv[d][p])
            s == st[d]
            t == FwdState(s, p, w)
        IN  \/ Continue(TopWithout(e)) /\ UNCHANGED <<st, chg>>
            \/ Conflict /\ UNCHANGED <<st, chg>>
            \/ /\ ~FwdConflict(s, p, w)
               /\ Change(d, t)
               /\ \/ Continue(<<Fan(d, t[Out], NoNode)>> \o TopWithout(e))
                  \/ Continue(<<FaninProp(d, Other(p), 0)>> \o TopWithout(e))
                  \/ Continue(TopWithout(e))
  BY DEF FanoutStep
<1> DEFINE d == e[1]
           p == e[2]
           w == Flip(Top.v, net.inv[d][p])
           s == st[d]
           t == FwdState(s, p, w)
<1>3. CASE Continue(TopWithout(e)) /\ UNCHANGED <<st, chg>>
  BY <1>1, <1>3, QuietRefines
<1>4. CASE Conflict /\ UNCHANGED <<st, chg>>
  BY <1>1, <1>4, ConflictRefines
<1>5. ASSUME ~FwdConflict(s, p, w), Change(d, t),
             NEW calls, calls # <<>>, Continue(calls)
      PROVE  (Abs!Infer \/ Abs!Accept) /\ CallInv'
  <2>1. /\ d \in Ands(net) /\ p \in Pin /\ Top.v \in Bit
    <3>1. Top.todo \subseteq Fanouts(net, Top.n)
      BY <1>1, StackFacts DEF CallFrames
    <3> QED BY <1>1, <3>1, TopFacts DEF Fanouts
  <2>2. /\ w \in Bit /\ d \in Nodes(net) /\ d \notin Inputs(net) /\ s \in AndStates
    <3>1. IsCircuit(net)
      BY <1>1, NetIsCircuit DEF IInv
    <3> QED BY <1>1, <2>1, <3>1, CircuitFacts, FlipBit, NodeFacts
  <2>3. t \in StateSet(d)
    BY <1>5, <2>1, <2>2, FwdType DEF StateSet
  <2>4. t[Out] = s[Out] \/ s[Out] = X
    BY <2>1, <2>2, OutputsKept
  <2> HIDE DEF t
  <2>5. Grows /\ KeepsLevels
    BY <1>1, <1>5, <2>2, <2>3, <2>4, ChangeOnlyAdds
  <2>6. OutVal(Asserted[1])' = Asserted[2]
    BY <1>1, <2>5, AssertedSet, AssertedKept DEF Kept
  <2> QED BY <1>1, <1>5, <2>5, <2>6, ContinueRefines
<1>6. \A r : <<r>> \o TopWithout(e) # <<>>
  <2> SUFFICES ASSUME NEW r PROVE <<r>> \o TopWithout(e) # <<>>
    OBVIOUS
  <2> DEFINE F == CallFrames \cup {r}
  <2>1. TopWithout(e) \in Seq(CallFrames) /\ CallFrames \subseteq F /\ r \in F
    BY <1>1, TopWithoutFacts
  <2> HIDE DEF F
  <2>2. TopWithout(e) \in Seq(F)
    BY <2>1
  <2> QED BY <2>1, <2>2, Push
<1>7. TopWithout(e) # <<>>
  BY <1>1, TopWithoutFacts
<1> HIDE DEF d, p, w, s, t
<1>8. CASE /\ ~FwdConflict(s, p, w)
           /\ Change(d, t)
           /\ \/ Continue(<<Fan(d, t[Out], NoNode)>> \o TopWithout(e))
              \/ Continue(<<FaninProp(d, Other(p), 0)>> \o TopWithout(e))
              \/ Continue(TopWithout(e))
  BY <1>5, <1>6, <1>7, <1>8
<1> QED BY <1>2, <1>3, <1>4, <1>8 DEF d, p, w, s, t

LEMMA OtherCallsRefine ==
  ASSUME RInv, IInv', FanoutEnd \/ IndStep \/ IndEnd
  PROVE  (Abs!Infer \/ Abs!Accept \/ Abs!Refuse) /\ CallInv'
<1>1. agenda # <<>> /\ Top.op \in {"fan", "ind"} /\ Top.op # "con" /\ Kept /\ UNCHANGED <<st, chg>>
  BY DEF FanoutEnd, IndStep, IndEnd, Kept
<1>2. Conflict \/ \E calls : Continue(calls)
  BY DEF FanoutEnd, IndStep, IndEnd
<1> QED BY <1>1, <1>2, ConflictRefines, QuietRefines
------------------------------------------------------------------------------
(***************************************************************************)
(* The clients' calls.                                                     *)
(***************************************************************************)
\* Outside any assert: constants are propagated, implications are learned.
LEMMA OutsideRefines ==
  ASSUME RInv, IInv', dec = <<>>, UNCHANGED <<net, mark, dec, result>>, Grows
  PROVE  Abs!Infer /\ CallInv'
<1>1. KeepsLevels
  BY IdleFacts DEF RInv, KeepsLevels
<1> QED BY <1>1, InferStep DEF RInv, CallInv

LEMMA ConstCallsRefine ==
  ASSUME RInv, IInv', PropConst \/ ConstEnd
  PROVE  Abs!Infer /\ CallInv'
<1>1. agenda # <<>> /\ Top.op = "con" /\ UNCHANGED <<net, mark, dec, result>> /\ IInv
  BY DEF PropConst, ConstEnd, RInv
<1>2. Top.todo \subseteq Fanouts(net, Top.n) /\ Top.v \in Bit /\ Top.n \in Nodes(net) /\ dec = <<>>
  BY <1>1, StackFacts DEF CallFrames, Frames
<1>3. st \in [Nodes(net) -> States]
  BY <1>1 DEF IInv, TypeInv
<1>4. ASSUME NEW e \in Top.todo,
             st' = [st EXCEPT ![e[1]] = ConstState(st[e[1]], e[2], Flip(Top.v, net.inv[e[1]][e[2]]))]
      PROVE  Grows
  <2> DEFINE d == e[1]
             p == e[2]
             w == Flip(Top.v, net.inv[d][p])
             t == ConstState(st[d], p, w)
  <2>1. d \in Ands(net) /\ p \in Pin /\ IsCircuit(net)
    BY <1>1, <1>2, NetIsCircuit DEF Fanouts, IInv
  <2>2. w \in Bit /\ d \in Nodes(net) /\ st[d] \in AndStates
    BY <1>1, <1>2, <2>1, CircuitFacts, FlipBit, NodeFacts
  <2>3. t[Out] = st[d][Out] \/ st[d][Out] = X
    BY <2>1, <2>2, OutputsKept
  <2>4. st' = [st EXCEPT ![d] = t]
    BY <1>4
  <2> HIDE DEF t, d
  <2> QED BY <1>3, <2>2, <2>3, <2>4 DEF Grows
<1>5. CASE PropConst
  <2>1. ~aborted'
    BY DEF IInv, NoAbort
  <2>2. \E e \in Top.todo :
          st' = [st EXCEPT ![e[1]] = ConstState(st[e[1]], e[2], Flip(Top.v, net.inv[e[1]][e[2]]))]
    BY <1>5, <2>1 DEF PropConst
  <2> QED BY <1>1, <1>2, <1>4, <2>2, OutsideRefines
<1>6. CASE ConstEnd
  <2>1. Grows
    BY <1>6 DEF ConstEnd, Grows
  <2> QED BY <1>1, <1>2, <2>1, OutsideRefines
<1> QED BY <1>5, <1>6

LEMMA LearningRefines ==
  ASSUME RInv, IInv', NEW n, NEW v, SetConst(n, v) \/ \E d : SetIndImp(n, v, d)
  PROVE  Abs!Infer /\ CallInv'
<1>1. UNCHANGED <<net, st, mark, dec, result>> /\ mark = <<>>
  BY DEF SetConst, ConstCall, SetIndImp
<1>2. dec = <<>>
  BY <1>1, IdleFacts DEF RInv
<1>3. Grows
  BY <1>1 DEF Grows
<1> QED BY <1>1, <1>2, <1>3, OutsideRefines

LEMMA AssertRefines ==
  ASSUME RInv, IInv', NEW n \in Nodes(net), NEW v \in Bit, NEW r \in BOOLEAN, Assert(n, v, r)
  PROVE  Abs!Decide(n, v) /\ CallInv'
<1> DEFINE L == Len(dec)
           new == [lit |-> <<n, v>>, old |-> Outputs(st)]
<1>1. /\ mark' = Append(mark, Len(chg)) /\ dec' = Append(dec, <<n, v>>)
      /\ agenda' = <<Bwd(n, v, NoNode)>> /\ result' = "none" /\ result # "false"
      /\ UNCHANGED <<net, st, chg>> /\ IInv
  BY DEF Assert, RInv
<1>2. L \in Nat /\ Len(mark) = L /\ Len(chg) \in Nat /\ mark \in Seq(Nat) /\ dec \in Seq(Literals(net))
  BY <1>1, IdleFacts DEF IInv, TypeInv
<1>3. /\ Len(dec') = L + 1 /\ dec'[L + 1] = <<n, v>> /\ \A i \in 1 .. L : dec'[i] = dec[i]
      /\ mark'[L + 1] = Len(chg) /\ \A i \in 1 .. L : mark'[i] = mark[i]
  <2>1. <<n, v>> \in Literals(net)
    BY DEF Literals
  <2> QED BY <1>1, <1>2, <2>1, AppendProperties
<1> HIDE DEF L
<1>4. \A i \in 1 .. L : LevelAt(i)' = LevelAt(i)
  BY <1>1, <1>3 DEF LevelAt, RestoredTo, Outputs
<1>5. ASSUME NEW i, i = L + 1 PROVE LevelAt(i)' = new
  <2>1. Restored(st, chg, Len(chg)) = st
    BY <1>1, <1>2, RestoredNow DEF IInv, TypeInv
  <2> QED BY <1>1, <1>3, <1>5, <2>1 DEF LevelAt, RestoredTo, Outputs
<1>6. Levels' = [i \in 1 .. L + 1 |-> LevelAt(i)']
  BY <1>3 DEF Levels
<1> HIDE DEF new
<1>7. Levels' = Append(Levels, new)
  <2> DEFINE S == {LevelAt(i) : i \in 1 .. L} \cup {new}
  <2>1. Levels \in Seq(S) /\ Len(Levels) = L /\ \A i \in 1 .. L : Levels[i] = LevelAt(i)
    BY <1>1, LevelsFacts DEF L
  <2>2. new \in S /\ \A i \in 1 .. L : LevelAt(i) \in S
    OBVIOUS
  <2> HIDE DEF S
  <2>3. /\ Append(Levels, new) \in Seq(S) /\ Len(Append(Levels, new)) = L + 1
        /\ Append(Levels, new)[L + 1] = new /\ \A i \in 1 .. L : Append(Levels, new)[i] = LevelAt(i)
    BY <2>1, <2>2, AppendProperties
  <2> DEFINE s == [i \in 1 .. L + 1 |-> LevelAt(i)']
  <2>4. \A i \in 1 .. L + 1 : s[i] = IF i = L + 1 THEN new ELSE LevelAt(i)
    <3> SUFFICES ASSUME NEW i \in 1 .. L + 1 PROVE s[i] = IF i = L + 1 THEN new ELSE LevelAt(i)
      OBVIOUS
    <3>1. s[i] = LevelAt(i)'
      OBVIOUS
    <3>2. i = L + 1 \/ i \in 1 .. L
      BY <1>2
    <3>3. i \in 1 .. L => i # L + 1
      BY <1>2
    <3> HIDE DEF s
    <3> QED BY <1>4, <1>5, <3>1, <3>2, <3>3
  <2>5. DOMAIN s = 1 .. L + 1 /\ s = [i \in 1 .. L + 1 |-> s[i]] /\ L + 1 \in Nat
    BY <1>2
  <2> HIDE DEF s
  <2>6. Len(s) = L + 1 /\ ((\A i \in 1 .. L + 1 : s[i] \in S) => s \in Seq(S))
    BY <2>5, FunctionIsSeq
  <2>7. \A i \in 1 .. L + 1 : i = L + 1 \/ i \in 1 .. L
    BY <1>2
  <2>8. s \in Seq(S)
    BY <2>2, <2>4, <2>6, <2>7
  <2>9. s = Append(Levels, new)
    BY <2>3, <2>4, <2>6, <2>7, <2>8, SeqEqual
  <2> QED BY <1>6, <2>9 DEF s
<1>8. Outputs(st)' = Outputs(st)
  BY <1>1 DEF Outputs
<1>9. Abs!Decide(n, v)
  BY <1>1, <1>7, <1>8 DEF Abs!Decide, Levels, LevelAt, new
<1>10. CallInv'
  <2>1. Asserted' = <<n, v>>
    BY <1>3 DEF Asserted
  <2> QED BY <1>1, <2>1 DEF CallInv
<1> QED BY <1>9, <1>10

LEMMA BacktrackRefines ==
  ASSUME RInv, IInv', Backtrack
  PROVE  Abs!Undo /\ CallInv'
<1> DEFINE L == Len(dec)
           pos == mark[L]
<1>1. /\ st' = Restored(st, chg, pos) /\ chg' = SubSeq(chg, 1, pos)
      /\ mark' = SubSeq(mark, 1, L - 1) /\ dec' = SubSeq(dec, 1, L - 1)
      /\ result' = "none" /\ net' = net /\ agenda' = <<>> /\ mark # <<>> /\ IInv
  BY IdleFacts DEF Backtrack, Idle, RestoredTo, RInv
<1>2. /\ L \in Nat /\ L >= 1 /\ Len(mark) = L /\ Len(chg) \in Nat /\ chg \in Seq(Changes)
      /\ mark \in Seq(Nat) /\ dec \in Seq(Literals(net))
      /\ \A i \in 1 .. L : mark[i] \in 0 .. Len(chg) /\ mark[i] <= pos
  <2>1. Len(mark) = L /\ L \in Nat /\ L # 0 /\ Len(chg) \in Nat
    BY <1>1, IdleFacts
  <2>2. L \in 1 .. L /\ L >= 1
    BY <2>1
  <2>3. \A i \in 1 .. L : mark[i] \in 0 .. Len(chg) /\ mark[i] <= pos
    BY <1>1, <2>1, <2>2, IdleFacts
  <2> QED BY <1>1, <2>1, <2>2, <2>3 DEF IInv, TypeInv
<1>3. /\ Len(dec') = L - 1 /\ \A i \in 1 .. L - 1 : dec'[i] = dec[i] /\ mark'[i] = mark[i]
  <2>1. \A i \in 1 .. L - 1 : mark[i] \in Nat /\ dec[i] \in Literals(net)
    BY <1>2, ElementOfSeq
  <2> HIDE DEF L, pos
  <2> QED BY <1>1, <1>2, <2>1, SubSeqProperties
<1>4. pos \in 0 .. Len(chg) /\ L \in 1 .. L
  BY <1>2
<1>5. ASSUME NEW i \in 1 .. L - 1 PROVE LevelAt(i)' = LevelAt(i)
  <2>1. i \in 1 .. L
    BY <1>2
  <2>2. mark[i] \in 0 .. pos
    BY <1>2, <1>4, <2>1
  <2>3. Restored(st', chg', mark'[i]) = Restored(st, chg, mark[i])
    BY <1>1, <1>2, <1>3, <1>4, <2>2, RestoredTwice
  <2> QED BY <1>1, <1>3, <2>3 DEF LevelAt, RestoredTo, Outputs
<1>6. Levels' = [i \in 1 .. L - 1 |-> LevelAt(i)']
  BY <1>3 DEF Levels
<1>7. Levels' = SubSeq(Levels, 1, Len(Levels) - 1) /\ Levels # <<>>
  <2> DEFINE S == {LevelAt(i) : i \in 1 .. L}
             s == [i \in 1 .. L - 1 |-> LevelAt(i)']
  <2>1. Len(Levels) = L /\ \A i \in 1 .. L : Levels[i] = LevelAt(i) /\ LevelAt(i) \in S
    BY <1>1, LevelsFacts
  <2>2. Levels # <<>>
    BY <1>1, <1>2, <2>1, LevelsFacts
  <2>3. DOMAIN s = 1 .. L - 1 /\ s = [i \in 1 .. L - 1 |-> s[i]] /\ L - 1 \in Nat
    BY <1>2
  <2>4. \A i \in 1 .. L - 1 : s[i] = LevelAt(i) /\ Levels[i] = LevelAt(i) /\ LevelAt(i) \in S
    BY <1>2, <1>5, <2>1
  <2> HIDE DEF s, S, L
  <2>5. Len(s) = L - 1 /\ s \in Seq(S)
    BY <2>3, <2>4, FunctionIsSeq
  <2>6. /\ SubSeq(Levels, 1, L - 1) \in Seq(S) /\ Len(SubSeq(Levels, 1, L - 1)) = L - 1
        /\ \A i \in 1 .. L - 1 : SubSeq(Levels, 1, L - 1)[i] = Levels[i]
    BY <1>2, <2>4, SubSeqProperties
  <2>7. s = SubSeq(Levels, 1, L - 1)
    BY <2>4, <2>5, <2>6, SeqEqual
  <2> QED BY <1>6, <2>1, <2>2, <2>7 DEF s
<1>8. Levels[Len(Levels)].old = Outputs(st)'
  <2>1. Len(Levels) = L /\ Levels[L] = LevelAt(L)
    BY <1>1, <1>4, LevelsFacts
  <2> QED BY <1>1, <2>1 DEF LevelAt, Outputs, RestoredTo
<1>9. Abs!Undo
  BY <1>1, <1>7, <1>8 DEF Abs!Undo, Levels, LevelAt
<1> QED BY <1>1, <1>9 DEF CallInv
------------------------------------------------------------------------------
LEMMA StepRefines ==
  ASSUME RInv, [Next]_vars
  PROVE  RInv' /\ [Abs!Next]_(Abs!absvars)
<1>1. IInv'
  BY NextInv DEF RInv
<1>2. CASE Propagate
  <2>1. (Abs!Infer \/ Abs!Accept \/ Abs!Refuse) /\ CallInv'
    BY <1>1, <1>2, BwdPropRefines, FanoutStepRefines, OtherCallsRefine, ConstCallsRefine
       DEF Propagate
  <2> QED BY <1>1, <2>1 DEF RInv, Abs!Next
<1>3. ASSUME NEW n \in Nodes(net), NEW v \in Bit, NEW r \in BOOLEAN, Assert(n, v, r)
      PROVE  RInv' /\ [Abs!Next]_(Abs!absvars)
  BY <1>1, <1>3, AssertRefines, SameCircuits DEF RInv, Abs!Next
<1>4. CASE Backtrack
  BY <1>1, <1>4, BacktrackRefines DEF RInv, Abs!Next
<1>5. ASSUME NEW n, NEW v, SetConst(n, v) \/ \E d : SetIndImp(n, v, d)
      PROVE  RInv' /\ [Abs!Next]_(Abs!absvars)
  BY <1>1, <1>5, LearningRefines DEF RInv, Abs!Next
<1>6. CASE UNCHANGED vars
  <2>1. UNCHANGED <<net, st, chg, mark, dec, agenda, result>>
    BY <1>6 DEF vars
  <2>2. Levels' = Levels
    BY <2>1, LevelsKept DEF RInv
  <2>3. Outputs(st)' = Outputs(st)
    BY <2>1 DEF Outputs
  <2>4. CallInv'
    BY <2>1 DEF RInv, CallInv, Asserted, OutVal
  <2> QED BY <1>1, <2>1, <2>2, <2>3, <2>4 DEF RInv, Abs!absvars, Levels, LevelAt
<1> QED BY <1>2, <1>3, <1>4, <1>5, <1>6 DEF Next, Call

\* The engine implements ImpAbs: values are only ever set when the open asserts
\* force them, true is returned only when the literal asserted is set, false only
\* for literals no assignment satisfies, and backtrack gives back the values of
\* before the assert, whatever was implied and learned in between.
THEOREM EngineRefinement == Spec => ImplementsAbs
<1>1. Init => RInv /\ Abs!Init
  <2> SUFFICES ASSUME Init PROVE RInv /\ Abs!Init
    OBVIOUS
  <2>1. /\ net \in Circuits /\ st = [n \in Nodes(net) |-> Clear] /\ dec = <<>> /\ agenda = <<>>
        /\ result = "none"
    BY DEF Init
  <2>2. RInv
    BY <2>1, InitInv DEF RInv, CallInv
  <2>3. Levels = <<>>
    BY <2>1, <2>2, LevelsFacts DEF RInv
  <2>4. Outputs(st) = [n \in Nodes(net) |-> X]
    BY <2>1 DEF Outputs, Clear, Out
  <2>5. Abs!Init
    BY <2>1, <2>3, <2>4, SameCircuits DEF Abs!Init, Levels, LevelAt
  <2> QED BY <2>2, <2>5
<1>2. RInv /\ [Next]_vars => RInv' /\ [Abs!Next]_(Abs!absvars)
  BY StepRefines
<1> QED BY <1>1, <1>2, PTL DEF Spec, ImplementsAbs, Abs!Spec

------------------------------------------------------------------------------
(***************************************************************************)
(* Completeness.  Two invariants carry it: BaseInv, what holds outside     *)
(* every level (the proofs about the learners use it too), and CompInv,    *)
(* what each edge and each call on the stack owe each other.               *)
(***************************************************************************)
(***************************************************************************)
(* What holds outside every level: what backtrack to the outermost level   *)
(* gives back are constants and nothing else, and every constant has been  *)
(* told to its fanouts unless a call on the stack still has to.            *)
(***************************************************************************)
Base == IF mark = <<>> THEN st ELSE RestoredTo(mark[1])

Told(s, n, p) ==
  \/ s[n][p] = Flip(con[net.src[n][p]], net.inv[n][p])
  \/ s[n][p] = X /\ s[n][Other(p)] = 0

TodoIn(q) == UNION {q[i].todo : i \in 1 .. Len(q)}

BaseInv ==
  /\ mark = <<>> => chg = <<>>
  /\ mark # <<>> => mark[1] = 0
  /\ \A n \in Nodes(net) : Base[n][Out] # X => con[n] = Base[n][Out]
  /\ \A n \in Ands(net), p \in Pin :
       con[net.src[n][p]] # X => Told(Base, n, p) \/ (mark = <<>> /\ <<n, p>> \in TodoIn(agenda))
------------------------------------------------------------------------------
(***************************************************************************)
(* Steps of the engine keep BaseInv.                                       *)
(***************************************************************************)
LEMMA EngineFacts ==
  ASSUME IInv
  PROVE  /\ IsCircuit(net) /\ Consistent(net) # {}
         /\ net \in Circuits
         /\ st \in [Nodes(net) -> States] /\ con \in [Nodes(net) -> V3]
         /\ \A n \in Ands(net) : st[n] \in AndStates
         /\ mark = <<>> <=> dec = <<>>
         /\ agenda \in Seq(CallFrames) /\ Len(agenda) \in Nat
<1>1. IsCircuit(net)
  BY NetIsCircuit DEF IInv
<1>2. \A n \in Ands(net) : st[n] \in AndStates
  BY <1>1, CircuitFacts DEF IInv, TypeInv, StateSet
<1>3. mark = <<>> <=> dec = <<>>
  BY IdleFacts
<1>4. agenda \in Seq(CallFrames) /\ Len(agenda) \in Nat
  BY DEF IInv, CallsInv
<1> QED BY <1>1, <1>2, <1>3, <1>4, ConsistentNonempty DEF IInv, TypeInv

\* A constant is the value of the node in some assignment, the same in all.
LEMMA ConstValue ==
  ASSUME IInv, NEW f \in Consistent(net), NEW n \in Nodes(net), con[n] # X
  PROVE  con[n] = f[n] /\ con[n] \in Bit
BY EngineFacts DEF IInv, LiteralsInv, V3, Bit, X

\* Inside a level only what backtrack leaves alone matters.
LEMMA LevelKept ==
  ASSUME IInv, BaseInv, mark # <<>>, UNCHANGED <<net, mark, con>>,
         \A k \in 1 .. Len(mark) : Restored(st', chg', mark[k]) = Restored(st, chg, mark[k])
  PROVE  BaseInv'
<1>1. 1 \in 1 .. Len(mark)
  BY IdleFacts
<1>2. Base' = Base
  BY <1>1 DEF Base, RestoredTo
<1>3. \A n, p : Told(Base, n, p)' <=> Told(Base, n, p)
  BY <1>2 DEF Told
<1> QED BY <1>2, <1>3 DEF BaseInv

LEMMA InsideKept ==
  ASSUME IInv, BaseInv, BwdProp \/ FanoutStep \/ FanoutEnd \/ IndStep \/ IndEnd
  PROVE  BaseInv'
<1>1. mark # <<>> /\ UNCHANGED <<net, mark, con>>
  BY TopFacts DEF BwdProp, FanoutStep, FanoutEnd, IndStep, IndEnd
<1>2. \A k \in 1 .. Len(mark) : Restored(st', chg', mark[k]) = Restored(st, chg, mark[k])
  <2>1. CASE BwdProp
    <3>1. Top.n \in Nodes(net) /\ Top.v \in Bit
      BY <2>1, TopFacts DEF BwdProp
    <3>2. CASE UNCHANGED <<st, chg>>
      BY <3>2
    <3>3. CASE /\ ~BwdConflict(st[Top.n], Top.v)
               /\ Change(Top.n, BwdState(st[Top.n], Top.v, Top.n \in Inputs(net)))
      <4>1. BwdState(st[Top.n], Top.v, Top.n \in Inputs(net)) \in StateSet(Top.n)
        <5>1. CASE Top.n \in Inputs(net)
          BY <5>1, <3>1, <3>3, InputBwd DEF IInv, TypeInv, StateSet
        <5>2. CASE Top.n \notin Inputs(net)
          <6>1. BwdState(st[Top.n], Top.v, Top.n \in Inputs(net)) = BwdState(st[Top.n], Top.v, FALSE)
            BY <5>2 DEF BwdState
          <6>2. st[Top.n] \in AndStates
            BY <5>2, <3>1 DEF IInv, TypeInv, StateSet
          <6> QED BY <5>2, <6>1, <6>2, <3>1, <3>3, BwdType DEF StateSet
        <5> QED BY <5>1, <5>2
      <4> QED BY <3>1, <3>3, <4>1, ChangeFacts
    <3> QED BY <2>1, <3>2, <3>3 DEF BwdProp
  <2>2. CASE FanoutStep
    <3>1. Top.n \in Nodes(net) /\ Top.v \in Bit /\ Top.todo \subseteq Fanouts(net, Top.n)
      BY <2>2, TopFacts, StackFacts DEF FanoutStep, CallFrames
    <3>2. PICK e \in Top.todo :
            \/ UNCHANGED <<st, chg>>
            \/ LET w == Flip(Top.v, net.inv[e[1]][e[2]])
               IN  /\ ~FwdConflict(st[e[1]], e[2], w)
                   /\ Change(e[1], FwdState(st[e[1]], e[2], w))
      BY <2>2 DEF FanoutStep
    <3>3. CASE UNCHANGED <<st, chg>>
      BY <3>3
    <3>4. CASE LET w == Flip(Top.v, net.inv[e[1]][e[2]])
               IN  /\ ~FwdConflict(st[e[1]], e[2], w)
                   /\ Change(e[1], FwdState(st[e[1]], e[2], w))
      <4> DEFINE w == Flip(Top.v, net.inv[e[1]][e[2]])
      <4>1. e[1] \in Ands(net) /\ e[2] \in Pin
        BY <3>1 DEF Fanouts
      <4>2. e[1] \in Nodes(net) /\ e[1] \notin Inputs(net) /\ w \in Bit
        BY <4>1, <3>1, EngineFacts, CircuitFacts, FlipBit
      <4>3. FwdState(st[e[1]], e[2], w) \in StateSet(e[1])
        BY <3>4, <4>1, <4>2, EngineFacts, FwdType DEF StateSet
      <4> QED BY <3>4, <4>2, <4>3, ChangeFacts
    <3> QED BY <3>2, <3>3, <3>4
  <2>3. CASE FanoutEnd \/ IndStep \/ IndEnd
    BY <2>3 DEF FanoutEnd, IndStep, IndEnd
  <2> QED BY <2>1, <2>2, <2>3
<1> QED BY <1>1, <1>2, LevelKept

LEMMA FirstAppended ==
  ASSUME NEW S, NEW q \in Seq(S), NEW e \in S
  PROVE  /\ Append(q, e) # <<>>
         /\ q = <<>> => Append(q, e)[1] = e
         /\ q # <<>> => Append(q, e)[1] = q[1]
<1>1. CASE q = <<>>
  BY <1>1
<1>2. CASE q # <<>>
  <2>1. 1 \in 1 .. Len(q) /\ Len(q) \in Nat /\ Len(Append(q, e)) = Len(q) + 1
    BY <1>2, EmptySeq
  <2> QED BY <1>2, <2>1, EmptySeq
<1> QED BY <1>1, <1>2

LEMMA AssertKeepsBase ==
  ASSUME IInv, BaseInv, NEW n, NEW v, NEW r, Assert(n, v, r)
  PROVE  BaseInv'
<1>1. /\ mark' = Append(mark, Len(chg)) /\ agenda = <<>>
      /\ UNCHANGED <<net, st, chg, con>>
  BY DEF Assert, Idle
<1>2. mark \in Seq(Nat) /\ Len(chg) \in Nat /\ Len(mark) \in Nat /\ (mark = <<>> <=> Len(mark) = 0)
  BY IdleFacts DEF IInv, TypeInv
<1>3. /\ mark' # <<>>
      /\ mark = <<>> => mark'[1] = Len(chg)
      /\ mark # <<>> => mark'[1] = mark[1]
  BY <1>1, <1>2, FirstAppended
<1>4. mark'[1] = 0
  BY <1>2, <1>3 DEF BaseInv
<1>5. Base' = Base
  <2>1. CASE mark = <<>>
    <3>1. Restored(st, chg, Len(chg)) = st
      BY <1>2, EngineFacts, RestoredNow
    <3> QED BY <2>1, <3>1, <1>1, <1>3 DEF Base, RestoredTo
  <2>2. CASE mark # <<>>
    BY <2>2, <1>1, <1>3 DEF Base, RestoredTo
  <2> QED BY <2>1, <2>2
<1>6. TodoIn(agenda) = {}
  BY <1>1 DEF TodoIn
<1>7. \A m, p : Told(Base, m, p)' <=> Told(Base, m, p)
  BY <1>1, <1>5 DEF Told
<1> QED BY <1>1, <1>3, <1>4, <1>5, <1>6, <1>7 DEF BaseInv

LEMMA BacktrackKeepsBase ==
  ASSUME IInv, BaseInv, Backtrack
  PROVE  BaseInv'
<1>0. PICK L : L = Len(mark)
  OBVIOUS
<1>1. /\ st' = Restored(st, chg, mark[L]) /\ chg' = SubSeq(chg, 1, mark[L])
      /\ mark' = SubSeq(mark, 1, L - 1) /\ mark # <<>> /\ agenda = <<>>
      /\ UNCHANGED <<net, con>>
  BY <1>0 DEF Backtrack, RestoredTo, Idle
<1>2. /\ L \in Nat /\ L >= 1 /\ mark \in Seq(Nat) /\ chg \in Seq(Changes) /\ mark[1] = 0
      /\ \A i \in 1 .. L : mark[i] \in 0 .. Len(chg) /\ mark[1] <= mark[i]
  BY <1>0, <1>1, IdleFacts DEF IInv, TypeInv, BaseInv
<1>3. mark' \in Seq(Nat) /\ Len(mark') = L - 1 /\ \A i \in 1 .. (L - 1) : mark'[i] = mark[i]
  <2>1. \A i \in 1 .. (L - 1) : mark[i] \in Nat
    BY <1>2
  <2>2. L - 1 \in 0 .. L /\ \A i \in 1 .. (L - 1) : i \in 1 .. L
    BY <1>2
  <2>3. \A m \in 0 .. L : SubSeq(mark, 1, m) \in Seq(Nat) /\ Len(SubSeq(mark, 1, m)) = m
            /\ \A i \in 1 .. m : SubSeq(mark, 1, m)[i] = mark[i]
    BY <1>0, <1>2
  <2> QED BY <1>1, <2>2, <2>3
<1>4. CASE L = 1
  <2>1. mark' = <<>>
    BY <1>3, <1>4
  <2>2. chg' = <<>>
    BY <1>1, <1>2, <1>4
  <2>3. Base' = Base
    BY <1>1, <1>4, <2>1 DEF Base, RestoredTo
  <2>4. \A m, p : Told(Base, m, p)' <=> Told(Base, m, p)
    BY <1>1, <2>3 DEF Told
  <2> QED BY <1>1, <2>1, <2>2, <2>3, <2>4 DEF BaseInv
<1>5. CASE L > 1
  <2>1. mark'[1] = 0 /\ mark' # <<>>
    BY <1>2, <1>3, <1>5
  <2>2. Restored(Restored(st, chg, mark[L]), SubSeq(chg, 1, mark[L]), 0) = Restored(st, chg, 0)
    <3>1. mark[L] \in 0 .. Len(chg) /\ 0 \in 0 .. mark[L]
      BY <1>2
    <3> QED BY <1>2, <3>1, RestoredTwice
  <2>3. Base' = Base
    BY <1>1, <1>2, <2>1, <2>2 DEF Base, RestoredTo
  <2>4. \A m, p : Told(Base, m, p)' <=> Told(Base, m, p)
    BY <1>1, <2>3 DEF Told
  <2> QED BY <1>1, <2>1, <2>3, <2>4 DEF BaseInv
<1>6. L = 1 \/ L > 1
  BY <1>2
<1> QED BY <1>4, <1>5, <1>6

\* The edges the calls on a stack have still to visit.
LEMMA TodoFacts ==
  ASSUME NEW S, NEW r \in S, NEW q \in Seq(S)
  PROVE  TodoIn(<<r>> \o q) = r.todo \cup TodoIn(q) /\ TodoIn(<<r>>) = r.todo /\ TodoIn(<<>>) = {}
<1> DEFINE c == <<r>> \o q
<1>1. Len(<<r>>) = 1 /\ Len(q) \in Nat /\ Len(c) = 1 + Len(q) /\ c[1] = r
      /\ \A i \in 1 .. Len(q) : c[i + 1] = q[i]
  <2>1. <<r>> \in Seq(S) /\ Len(<<r>>) = 1 /\ <<r>>[1] = r
    OBVIOUS
  <2> QED BY <2>1, ConcatProperties
<1> HIDE DEF c
<1>2. \A i \in 1 .. Len(c) : i = 1 \/ (i - 1 \in 1 .. Len(q) /\ c[i] = q[i - 1])
  <2> SUFFICES ASSUME NEW i \in 1 .. Len(c), i # 1
               PROVE  i - 1 \in 1 .. Len(q) /\ c[i] = q[i - 1]
    OBVIOUS
  <2>1. i - 1 \in 1 .. Len(q) /\ (i - 1) + 1 = i
    BY <1>1
  <2> QED BY <1>1, <2>1
<1>3. 1 \in 1 .. Len(c) /\ \A i \in 1 .. Len(q) : i + 1 \in 1 .. Len(c)
  BY <1>1
<1>4. TodoIn(c) \subseteq r.todo \cup TodoIn(q)
  BY <1>1, <1>2 DEF TodoIn
<1>5. r.todo \cup TodoIn(q) \subseteq TodoIn(c)
  BY <1>1, <1>3 DEF TodoIn
<1>6. TodoIn(<<r>>) = r.todo
  BY DEF TodoIn
<1>7. TodoIn(<<>>) = {}
  BY DEF TodoIn
<1> QED BY <1>4, <1>5, <1>6, <1>7 DEF c

LEMMA AgendaTodo ==
  ASSUME IInv, agenda # <<>>
  PROVE  /\ TodoIn(agenda) = Top.todo \cup TodoIn(Callers)
         /\ \A e : TodoIn(TopWithout(e)) = (Top.todo \ {e}) \cup TodoIn(Callers)
<1>1. Top \in CallFrames /\ Callers \in Seq(CallFrames) /\ agenda \in Seq(CallFrames)
  BY StackFacts, EngineFacts
<1>2. agenda = <<Top>> \o Callers
  BY <1>1, HeadTailProperties DEF Top, Callers
<1>3. TodoIn(<<Top>> \o Callers) = Top.todo \cup TodoIn(Callers)
  BY <1>1, TodoFacts
<1>4. ASSUME NEW e PROVE TodoIn(TopWithout(e)) = (Top.todo \ {e}) \cup TodoIn(Callers)
  <2> DEFINE r == [Top EXCEPT !.todo = @ \ {e}]
  <2>1. Top \in Frames
    BY <1>1 DEF CallFrames
  <2>2. r \in Frames /\ r.todo = Top.todo \ {e}
    BY <2>1 DEF Frames
  <2>3. Callers \in Seq(Frames)
    <3>1. CallFrames \subseteq Frames
      BY DEF CallFrames
    <3> QED BY <1>1, <3>1
  <2> HIDE DEF r
  <2>4. TodoIn(<<r>> \o Callers) = r.todo \cup TodoIn(Callers)
    BY <2>2, <2>3, TodoFacts
  <2> QED BY <2>2, <2>4 DEF TopWithout, r
<1> QED BY <1>2, <1>3, <1>4

\* What prop_const does to the state of an AND node whose pin p is told v.
LEMMA ConstTold ==
  ASSUME NEW s \in AndStates, NEW p \in Pin, NEW v \in Bit, ~ConstAbort(s, p, v)
  PROVE  LET t == ConstState(s, p, v)
             q == Other(p)
         IN  /\ q \in Pin /\ q # p /\ \A k \in Pin : k = p \/ k = q
             /\ t[p] = v \/ (t[p] = X /\ t[q] = 0)
             /\ \A c \in Bit : s[q] = c \/ (s[q] = X /\ s[p] = 0)
                                 => t[q] = c \/ (t[q] = X /\ t[p] = 0)
             /\ s[Out] # X => t[Out] = s[Out] /\ ConstOut(s, p, v) = X
             /\ s[Out] = X => ConstOut(s, p, v) = t[Out]
<1>1. CASE p = 1
  BY <1>1 DEF AndStates, States, V3, X, Out, Bit, Pin, ConstAbort, ConstState, ConstOut, FwdState, Other
<1>2. CASE p = 2
  BY <1>2 DEF AndStates, States, V3, X, Out, Bit, Pin, ConstAbort, ConstState, ConstOut, FwdState, Other
<1> QED BY <1>1, <1>2 DEF Pin

\* Outside any assert BaseInv speaks of the present states.
LEMMA OutsideBase ==
  ASSUME mark = <<>>
  PROVE  BaseInv <=>
           /\ chg = <<>>
           /\ \A n \in Nodes(net) : st[n][Out] # X => con[n] = st[n][Out]
           /\ \A n \in Ands(net), p \in Pin :
                con[net.src[n][p]] # X => Told(st, n, p) \/ <<n, p>> \in TodoIn(agenda)
BY DEF BaseInv, Base

LEMMA PropConstKeepsBase ==
  ASSUME IInv, IInv', BaseInv, PropConst
  PROVE  BaseInv'
<1>1. /\ agenda # <<>> /\ Top.op = "con" /\ UNCHANGED <<net, chg, mark>>
  BY DEF PropConst
<1>2. PICK e \in Top.todo :
        LET w == Flip(Top.v, net.inv[e[1]][e[2]])
            o == ConstOut(st[e[1]], e[2], w)
        IN  \/ aborted' = TRUE
            \/ /\ ~ConstAbort(st[e[1]], e[2], w)
               /\ st' = [st EXCEPT ![e[1]] = ConstState(st[e[1]], e[2], w)]
               /\ con' = IF o = X THEN con ELSE [con EXCEPT ![e[1]] = o]
               /\ agenda' = (IF o = X THEN <<>> ELSE <<Con(e[1], o)>>) \o TopWithout(e)
  BY DEF PropConst
<1>3. PICK d, p : d = e[1] /\ p = e[2]
  OBVIOUS
<1>4. PICK w : w = Flip(Top.v, net.inv[d][p])
  OBVIOUS
<1>5. PICK q : q = Other(p)
  OBVIOUS
<1>6. PICK s, t, o : s = st[d] /\ t = ConstState(s, p, w) /\ o = ConstOut(s, p, w)
  OBVIOUS
<1>7. /\ d \in Ands(net) /\ p \in Pin /\ e = <<d, p>> /\ net.src[d][p] = Top.n
      /\ Top.n \in Nodes(net) /\ Top.v \in Bit /\ mark = <<>> /\ dec = <<>>
  <2>1. Top \in Frames /\ Top.todo \subseteq Fanouts(net, Top.n) /\ dec = <<>>
    BY <1>1, StackFacts DEF CallFrames
  <2> QED BY <1>2, <1>3, <2>1, EngineFacts DEF Fanouts, Frames
<1>8. d \in Nodes(net) /\ w \in Bit /\ s \in AndStates
  BY <1>4, <1>6, <1>7, EngineFacts, CircuitFacts, FlipBit
<1>9. /\ ~ConstAbort(s, p, w) /\ st' = [st EXCEPT ![d] = t]
      /\ con' = IF o = X THEN con ELSE [con EXCEPT ![d] = o]
      /\ agenda' = (IF o = X THEN <<>> ELSE <<Con(d, o)>>) \o TopWithout(e)
  BY <1>2, <1>3, <1>4, <1>6 DEF IInv, NoAbort
<1>10. /\ q \in Pin /\ q # p /\ \A k \in Pin : k = p \/ k = q
       /\ t[p] = w \/ (t[p] = X /\ t[q] = 0)
       /\ \A c \in Bit : s[q] = c \/ (s[q] = X /\ s[p] = 0) => t[q] = c \/ (t[q] = X /\ t[p] = 0)
       /\ s[Out] # X => t[Out] = s[Out] /\ o = X
       /\ s[Out] = X => o = t[Out]
  BY <1>5, <1>6, <1>7, <1>8, <1>9, ConstTold
<1>11. /\ st \in [Nodes(net) -> States] /\ con \in [Nodes(net) -> V3]
       /\ \A n \in Nodes(net) : n # d => st'[n] = st[n] /\ con'[n] = con[n]
       /\ st'[d] = t /\ st[d] = s /\ con'[d] = (IF o = X THEN con[d] ELSE o)
  BY <1>6, <1>8, <1>9, EngineFacts
<1>12. Other(q) = p
  BY <1>5, <1>7 DEF Pin, Other
<1>13. \A n \in Nodes(net) : st'[n][Out] # X => con'[n] = st'[n][Out]
  <2>1. \A n \in Nodes(net) : st[n][Out] # X => con[n] = st[n][Out]
    BY <1>7, OutsideBase
  <2> QED BY <2>1, <1>8, <1>10, <1>11
<1>14. /\ TodoIn(agenda) \ {e} \subseteq TodoIn(agenda')
       /\ o # X => Fanouts(net, d) \subseteq TodoIn(agenda')
  <2>1. TopWithout(e) \in Seq(CallFrames)
    BY <1>1, TopWithoutFacts
  <2>2. TodoIn(agenda) \ {e} \subseteq TodoIn(TopWithout(e))
    BY <1>1, AgendaTodo
  <2>3. CASE o = X
    <3>1. agenda' = TopWithout(e)
      BY <1>9, <2>1, <2>3
    <3> QED BY <2>2, <2>3, <3>1
  <2>4. CASE o # X
    <3>1. o \in Bit
      BY <2>4, <1>6, <1>7, <1>8, <1>9, ConstType DEF V3, Bit, X
    <3>2. Con(d, o) \in CallFrames /\ Con(d, o).todo = Fanouts(net, d)
      BY <3>1, <1>7, <1>8, ConFrame DEF Con
    <3>3. TodoIn(<<Con(d, o)>> \o TopWithout(e)) = Con(d, o).todo \cup TodoIn(TopWithout(e))
      BY <2>1, <3>2, TodoFacts
    <3>4. agenda' = <<Con(d, o)>> \o TopWithout(e)
      BY <1>9, <2>4
    <3> QED BY <2>2, <3>2, <3>3, <3>4
  <2> QED BY <2>3, <2>4
<1>15. ASSUME NEW n \in Ands(net), NEW k \in Pin, con'[net.src[n][k]] # X
       PROVE  Told(st, n, k)' \/ <<n, k>> \in TodoIn(agenda')
  <2>1. net.src[n][k] \in Nodes(net) /\ net.inv[n][k] \in Bit /\ n \in Nodes(net)
    BY EngineFacts, CircuitFacts
  <2>2. CASE net.src[n][k] = d /\ o # X
    BY <2>2, <1>14 DEF Fanouts
  <2>3. CASE ~(net.src[n][k] = d /\ o # X)
    <3>1. con'[net.src[n][k]] = con[net.src[n][k]] /\ con[net.src[n][k]] # X
      BY <2>1, <2>3, <1>11, <1>15
    <3>2. PICK c : c = Flip(con[net.src[n][k]], net.inv[n][k])
      OBVIOUS
    <3>3. c \in Bit
      BY <2>1, <3>1, <3>2, EngineFacts, ConstValue, FlipBit
    <3>4. Told(st, n, k)' <=> st'[n][k] = c \/ (st'[n][k] = X /\ st'[n][Other(k)] = 0)
      BY <1>1, <3>1, <3>2 DEF Told
    <3>5. Told(st, n, k) <=> st[n][k] = c \/ (st[n][k] = X /\ st[n][Other(k)] = 0)
      BY <3>2 DEF Told
    <3>6. Told(st, n, k) \/ <<n, k>> \in TodoIn(agenda)
      BY <1>7, <3>1, OutsideBase
    <3>7. CASE n # d
      BY <3>4, <3>5, <3>6, <3>7, <2>1, <1>3, <1>11, <1>14
    <3>8. CASE n = d /\ k = q
      <4>1. <<n, k>> # e
        BY <3>8, <1>7, <1>10
      <4> QED BY <3>3, <3>4, <3>5, <3>6, <3>8, <4>1, <1>10, <1>11, <1>12, <1>14
    <3>9. CASE n = d /\ k = p
      <4>1. con[Top.n] = Top.v
        <5>1. PICK f \in Consistent(net) : TRUE
          BY EngineFacts
        <5>2. f[Top.n] = Top.v
          BY <1>1, <1>7, NoLevelFacts, StackFacts DEF TrueFrames
        <5> QED BY <5>2, <3>1, <3>9, <1>7, ConstValue
      <4>2. c = w
        BY <4>1, <3>2, <3>9, <1>4, <1>7
      <4> QED BY <3>4, <3>9, <4>2, <1>5, <1>10, <1>11
    <3> QED BY <3>7, <3>8, <3>9, <1>10
  <2> QED BY <2>2, <2>3
<1>16. chg' = <<>> /\ mark' = <<>>
  BY <1>1, <1>7, OutsideBase
<1> QED BY <1>1, <1>13, <1>15, <1>16 DEF BaseInv, Base

LEMMA ConstEndKeepsBase ==
  ASSUME IInv, BaseInv, ConstEnd
  PROVE  BaseInv'
<1>1. /\ agenda # <<>> /\ Top.op = "con" /\ Top.todo = {} /\ agenda' = Callers
      /\ UNCHANGED <<net, st, con, chg, mark>>
  BY DEF ConstEnd
<1>2. mark = <<>>
  BY <1>1, StackFacts, EngineFacts DEF CallFrames
<1>3. TodoIn(agenda') = TodoIn(agenda)
  BY <1>1, AgendaTodo
<1>4. \A n, p : Told(st, n, p)' <=> Told(st, n, p)
  BY <1>1 DEF Told
<1>5. chg' = <<>> /\ mark' = <<>>
  BY <1>1, <1>2, OutsideBase
<1> QED BY <1>1, <1>2, <1>3, <1>4, <1>5, OutsideBase DEF BaseInv, Base

LEMMA SetConstKeepsBase ==
  ASSUME IInv, IInv', BaseInv, NEW n \in Nodes(net), NEW v \in Bit, SetConst(n, v)
  PROVE  BaseInv'
<1>1. /\ mark = <<>> /\ agenda = <<>> /\ con' = [con EXCEPT ![n] = v] /\ agenda' = <<Con(n, v)>>
      /\ UNCHANGED <<net, st, chg, mark>>
  BY DEF SetConst, ConstCall, Idle
<1>2. TodoIn(agenda') = Fanouts(net, n)
  <2>1. Con(n, v) \in CallFrames /\ Con(n, v).todo = Fanouts(net, n)
    BY <1>1, EngineFacts, ConFrame DEF Con
  <2>2. TodoIn(<<Con(n, v)>>) = Con(n, v).todo
    <3>1. <<>> \in Seq(CallFrames)
      OBVIOUS
    <3> QED BY <2>1, <3>1, TodoFacts
  <2> QED BY <1>1, <2>1, <2>2
<1>3. TodoIn(agenda) = {}
  BY <1>1 DEF TodoIn
<1>4. con \in [Nodes(net) -> V3] /\ con'[n] = v /\ v # X
  BY <1>1, EngineFacts DEF Bit, X
<1>5. \A m \in Nodes(net) : st'[m][Out] # X => con'[m] = st'[m][Out]
  <2>1. \A m \in Nodes(net) : st[m][Out] # X => con[m] = st[m][Out]
    BY <1>1, OutsideBase
  <2>2. con[n] # X => con[n] = v
    <3>1. PICK f \in Consistent(net) : TRUE
      BY EngineFacts
    <3>2. con'[n] \in {X, f[n]}
      BY <1>1 DEF IInv, LiteralsInv
    <3> QED BY <1>4, <3>2, ConstValue
  <2> QED BY <1>1, <1>4, <2>1, <2>2
<1>6. ASSUME NEW m \in Ands(net), NEW p \in Pin, con'[net.src[m][p]] # X
      PROVE  Told(st, m, p)' \/ <<m, p>> \in TodoIn(agenda')
  <2>1. CASE net.src[m][p] = n
    BY <1>2, <2>1 DEF Fanouts
  <2>2. CASE net.src[m][p] # n
    <3>1. net.src[m][p] \in Nodes(net)
      BY EngineFacts, CircuitFacts
    <3>2. con'[net.src[m][p]] = con[net.src[m][p]]
      BY <1>1, <1>4, <2>2, <3>1
    <3>3. Told(st, m, p)
      BY <1>1, <1>3, <1>6, <3>2, OutsideBase
    <3> QED BY <1>1, <3>2, <3>3 DEF Told
  <2> QED BY <2>1, <2>2
<1>7. chg' = <<>> /\ mark' = <<>>
  BY <1>1, OutsideBase
<1> QED BY <1>1, <1>5, <1>6, <1>7 DEF BaseInv, Base

\* A step that leaves networks, states, marks, constants and calls alone.
LEMMA QuietKeepsBase ==
  ASSUME BaseInv, UNCHANGED <<net, st, chg, mark, con, agenda>>
  PROVE  BaseInv'
<1>1. Base' = Base /\ TodoIn(agenda)' = TodoIn(agenda)
  BY DEF Base, RestoredTo
<1>2. \A n, p : Told(Base, n, p)' <=> Told(Base, n, p)
  BY <1>1 DEF Told
<1> QED BY <1>1, <1>2 DEF BaseInv

LEMMA StepKeepsBase ==
  ASSUME IInv, BaseInv, [Next]_vars
  PROVE  IInv' /\ BaseInv'
<1>1. IInv'
  BY NextInv
<1>2. CASE Propagate
  BY <1>1, <1>2, InsideKept, PropConstKeepsBase, ConstEndKeepsBase DEF Propagate
<1>3. CASE \E n \in Nodes(net), v \in Bit, r \in BOOLEAN : Assert(n, v, r)
  BY <1>1, <1>3, AssertKeepsBase
<1>4. CASE Backtrack
  BY <1>1, <1>4, BacktrackKeepsBase
<1>5. CASE \E n \in Nodes(net), v \in Bit : SetConst(n, v)
  BY <1>1, <1>5, SetConstKeepsBase
<1>6. CASE \E n \in Nodes(net), v \in Bit, d \in Literals(net) : SetIndImp(n, v, d)
  BY <1>1, <1>6, QuietKeepsBase DEF SetIndImp
<1>7. CASE UNCHANGED vars
  BY <1>1, <1>7, QuietKeepsBase DEF vars
<1> QED BY <1>1, <1>2, <1>3, <1>4, <1>5, <1>6, <1>7 DEF Next, Call
------------------------------------------------------------------------------
(***************************************************************************)
(* The engine at rest: no call in progress and no level open.              *)
(***************************************************************************)
LEMMA AtRest ==
  ASSUME IInv, BaseInv, mark = <<>>, agenda = <<>>
  PROVE  /\ chg = <<>>
         /\ \A n \in Nodes(net) : st[n][Out] # X => con[n] = st[n][Out]
         /\ \A n \in Ands(net), p \in Pin : con[net.src[n][p]] # X => Told(st, n, p)
<1>1. TodoIn(agenda) = {}
  BY DEF TodoIn
<1> QED BY <1>1, OutsideBase
------------------------------------------------------------------------------
(***************************************************************************)
(* The inductive invariant.  s are the states of the nodes, k the constant *)
(* marks, C the calls on the stack: every edge of the network c carries    *)
(* the value of its driver, unless a call has yet to bring it, or to refute *)
(* it.  An edge whose other pin is 0 is left out when its driver becomes a *)
(* constant (prop_const has nothing to do in the states X0_0 and 0X_0).    *)
(***************************************************************************)
Among(q) == {q[i] : i \in 1 .. Len(q)}

Telling(c, C, n, p) ==
  \E r \in C : /\ r.op = "fan" /\ r.n = c.src[n][p]
               /\ <<n, p>> \in r.todo /\ r.from # n
TellingConst(C, n, p) == \E r \in C : r.op = "con" /\ <<n, p>> \in r.todo
Asking(C, m, v)       == \E r \in C : r.op = "bwd" /\ r.n = m /\ r.v = v

Skipped(s, n, p) == s[n][p] = X /\ s[n][Other(p)] = 0

EdgeDone(c, k, s, C, n, p) ==
  LET m == c.src[n][p]
      i == c.inv[n][p]
  IN  /\ s[m][Out] # X => \/ s[n][p] = Flip(s[m][Out], i)
                          \/ k[m] # X /\ Skipped(s, n, p)
                          \/ Telling(c, C, n, p) \/ TellingConst(C, n, p)
                          \/ Asking(C, m, 1 - s[m][Out])
      /\ s[m][Out] = X /\ k[m] # X => \/ s[n][p] = Flip(k[m], i)
                                      \/ Skipped(s, n, p)
                                      \/ TellingConst(C, n, p)
      /\ s[n][p] # X => \/ s[m][Out] # X \/ k[m] # X
                        \/ Asking(C, m, Flip(s[n][p], i))

Settled(c, k, s, C) == \A n \in Ands(c), p \in Pin : EdgeDone(c, k, s, C, n, p)

\* What a call may rely on: fanout_prop that the node has the value it tells,
\* bwd_prop from an AND node that the pins it came from have theirs.
FrameDone(c, k, s, r) ==
  /\ r.op = "fan" => s[r.n][Out] = r.v
  /\ r.op = "bwd" /\ r.from # NoNode =>
       /\ r.from \in Ands(c)
       /\ \A p \in Pin : c.src[r.from][p] = r.n => s[r.from][p] # X
       /\ s[r.n][Out] # X \/ k[r.n] = X

InOrder(c, k, s, C) == Settled(c, k, s, C) /\ \A r \in C : FrameDone(c, k, s, r)

\* A conflict leaves the edges of its level as they are, so they are in order
\* only while none was reported or discarded; below the level of the first
\* discarded one they are what they were when the level was opened.
CompInv ==
  /\ agenda # <<>> \/ mark = <<>> => result = "none"
  /\ result # "false" /\ swallowed = 0 => InOrder(net, con, st, Among(agenda))
  /\ \A k \in 1 .. Len(mark) :
       swallowed = 0 \/ k <= swallowed => Settled(net, con, Restored(st, chg, mark[k]), {})
  /\ \A n \in Ands(net) : Base[n][Out] = 0 => \E p \in Pin : Base[n][p] = 0
------------------------------------------------------------------------------
(***************************************************************************)
(* The state tables, as the edges see them.                                *)
(***************************************************************************)
LEMMA FwdTold ==
  ASSUME NEW s \in AndStates, NEW p \in Pin, NEW w \in Bit, ~FwdConflict(s, p, w)
  PROVE  LET t == FwdState(s, p, w)
             q == Other(p)
         IN  /\ q \in Pin /\ q # p /\ Other(q) = p /\ \A k \in Pin : k = p \/ k = q
             /\ t[p] = w /\ t[p] # X
             /\ \A k \in 1 .. 3 : s[k] # X => t[k] = s[k]
             /\ t[q] # s[q] => s[q] = X /\ s[p] = X /\ t[q] = 0 /\ t[Out] = s[Out]
             /\ s[q] = X /\ s[p] = 0 => t = s
             /\ t[Out] # s[Out] => s[Out] = X /\ t[Out] \in Bit
<1>1. CASE p = 1
  BY <1>1 DEF AndStates, States, V3, X, Out, Bit, Pin, FwdConflict, FwdState, Other
<1>2. CASE p = 2
  BY <1>2 DEF AndStates, States, V3, X, Out, Bit, Pin, FwdConflict, FwdState, Other
<1> QED BY <1>1, <1>2 DEF Pin

LEMMA BwdTold ==
  ASSUME NEW s \in AndStates, NEW v \in Bit, s[Out] = X
  PROVE  LET t == BwdState(s, v, FALSE)
             P == BwdPins(s, v)
         IN  /\ P \subseteq Pin /\ t[Out] = v
             /\ \A p \in P : s[p] = X /\ t[p] = v /\ t[Other(p)] # X
             /\ \A p \in Pin \ P : t[p] = s[p]
             /\ \A p \in Pin : s[p] # 0 /\ Other(p) \in Pin
<1> DEFINE P == BwdPins(s, v)
<1>1. /\ s \in [1 .. 3 -> V3] /\ s[1] \in {1, X} /\ s[2] \in {1, X} /\ ~(s[1] = 1 /\ s[2] = 1)
  BY DEF AndStates, States, X, Out, V3
<1>2. /\ P \subseteq Pin
      /\ \A p \in Pin : p \in P <=> s[p] = X /\ (v = 1 \/ s[Other(p)] = 1)
  BY DEF BwdPins, Bit
<1>3. BwdState(s, v, FALSE) = [k \in 1 .. 3 |-> IF k = Out \/ k \in P THEN v ELSE s[k]]
  BY DEF BwdState
<1> HIDE DEF P
<1>4. ASSUME NEW t, t = [k \in 1 .. 3 |-> IF k = Out \/ k \in P THEN v ELSE s[k]]
      PROVE  /\ t[Out] = v
             /\ \A p \in P : s[p] = X /\ t[p] = v /\ t[Other(p)] # X
             /\ \A p \in Pin \ P : t[p] = s[p]
  <2>1. t[Out] = v /\ \A p \in Pin : t[p] = IF p \in P THEN v ELSE s[p]
    BY <1>2, <1>4 DEF Out, Pin
  <2>2. v # X /\ \A p \in Pin : Other(p) \in Pin /\ Other(p) # p /\ Other(Other(p)) = p
    BY DEF Bit, X, Pin, Other
  <2>3. ASSUME NEW p \in P PROVE t[Other(p)] # X
    <3>1. p \in Pin /\ s[p] = X /\ (v = 1 \/ s[Other(p)] = 1)
      BY <1>2
    <3>2. s[Other(p)] = 1 \/ (s[Other(p)] = X /\ v = 1)
      BY <1>1, <2>2, <3>1 DEF Pin
    <3>3. s[Other(p)] = 1 => Other(p) \notin P
      BY <1>2, <2>2, <3>1 DEF X
    <3>4. s[Other(p)] = X /\ v = 1 => Other(p) \in P
      BY <1>2, <2>2, <3>1
    <3> QED BY <2>1, <2>2, <3>1, <3>2, <3>3, <3>4 DEF X
  <2> QED BY <1>2, <2>1, <2>3
<1>5. \A p \in Pin : s[p] # 0 /\ Other(p) \in Pin
  BY <1>1 DEF Pin, Other, X
<1> QED BY <1>2, <1>3, <1>4, <1>5 DEF P

\* An edge of a settled AND node: a pin without the value of its driver
\* stands beside a pin that is 0.
LEMMA AndClosed ==
  ASSUME NEW s \in AndStates, NEW p \in Pin
  PROVE  LET q == Other(p)
         IN  /\ q \in Pin /\ Other(q) = p /\ \A k \in Pin : k = p \/ k = q
             /\ s[p] = 0 \/ s[q] = 0 => s[Out] = 0
             /\ s[p] = 1 /\ s[q] = 1 => s[Out] = 1
             /\ s[Out] = 1 => s[p] = 1 /\ s[q] = 1
             /\ s[Out] = 0 /\ s[p] = 1 => s[q] = 0
<1>1. CASE p = 1
  BY <1>1 DEF AndStates, States, V3, X, Out, Bit, Pin, Other
<1>2. CASE p = 2
  BY <1>2 DEF AndStates, States, V3, X, Out, Bit, Pin, Other
<1> QED BY <1>1, <1>2 DEF Pin
------------------------------------------------------------------------------
(***************************************************************************)
(* The calls on a stack, and one edge at a time.                           *)
(***************************************************************************)
LEMMA AmongConcat ==
  ASSUME NEW S, NEW T, NEW a \in Seq(S), NEW b \in Seq(T)
  PROVE  Among(a \o b) = Among(a) \cup Among(b)
<1>1. a \in Seq(S \cup T) /\ b \in Seq(S \cup T)
  OBVIOUS
<1>2. /\ Len(a) \in Nat /\ Len(b) \in Nat /\ Len(a \o b) = Len(a) + Len(b)
      /\ \A i \in 1 .. (Len(a) + Len(b)) : (a \o b)[i] = IF i <= Len(a) THEN a[i] ELSE b[i - Len(a)]
  BY <1>1, ConcatProperties
<1> DEFINE d == a \o b
<1> HIDE DEF d
<1>3. ASSUME NEW i \in 1 .. Len(d) PROVE d[i] \in Among(a) \cup Among(b)
  <2>1. CASE i <= Len(a)
    BY <1>2, <2>1 DEF Among, d
  <2>2. CASE i > Len(a)
    <3>1. i - Len(a) \in 1 .. Len(b) /\ d[i] = b[i - Len(a)]
      BY <1>2, <2>2 DEF d
    <3> QED BY <3>1 DEF Among
  <2> QED BY <1>2, <2>1, <2>2
<1>4. ASSUME NEW i \in 1 .. Len(a) PROVE a[i] \in Among(d)
  <2>1. i \in 1 .. Len(d) /\ d[i] = a[i]
    BY <1>2 DEF d
  <2> QED BY <2>1 DEF Among
<1>5. ASSUME NEW i \in 1 .. Len(b) PROVE b[i] \in Among(d)
  <2>1. i + Len(a) \in 1 .. Len(d) /\ (i + Len(a)) - Len(a) = i /\ ~(i + Len(a) <= Len(a))
    BY <1>2 DEF d
  <2>2. d[i + Len(a)] = b[i]
    BY <1>2, <2>1 DEF d
  <2> QED BY <2>1, <2>2 DEF Among
<1> QED BY <1>3, <1>4, <1>5 DEF Among, d

LEMMA AmongOne == Among(<<>>) = {} /\ \A r : Among(<<r>>) = {r}
BY DEF Among

LEMMA AmongPush ==
  ASSUME NEW r, NEW T, NEW b \in Seq(T)
  PROVE  Among(<<r>> \o b) = {r} \cup Among(b)
<1> DEFINE a == <<r>>
           S == {r}
<1>1. a \in Seq(S)
  OBVIOUS
<1>2. Among(a) = {r}
  BY AmongOne
<1> HIDE DEF a, S
<1>3. Among(a \o b) = Among(a) \cup Among(b)
  BY <1>1, AmongConcat
<1> QED BY <1>2, <1>3 DEF a

\* The stack before a step and the stack whose first call goes on.
LEMMA AgendaCalls ==
  ASSUME IInv, agenda # <<>>
  PROVE  /\ Among(agenda) = {Top} \cup Among(Callers)
         /\ \A e : Among(TopWithout(e)) = {[Top EXCEPT !.todo = @ \ {e}]} \cup Among(Callers)
         /\ Among(agenda) \subseteq CallFrames
         /\ Top.op # "con" => \A r \in Among(agenda) : r.op # "con"
<1>1. Top \in CallFrames /\ Callers \in Seq(CallFrames) /\ agenda \in Seq(CallFrames)
  BY StackFacts, EngineFacts
<1>2. agenda = <<Top>> \o Callers
  BY <1>1, HeadTailProperties DEF Top, Callers
<1>3. Among(<<Top>> \o Callers) = {Top} \cup Among(Callers)
  BY <1>1, AmongPush
<1>4. \A e : Among(TopWithout(e)) = {[Top EXCEPT !.todo = @ \ {e}]} \cup Among(Callers)
  BY <1>1, AmongPush DEF TopWithout
<1>5. Among(agenda) \subseteq CallFrames
  BY <1>1, ElementOfSeq DEF Among
<1>6. Top.op # "con" => \A r \in Among(agenda) : r.op # "con"
  BY <1>1, <1>5 DEF CallFrames
<1> QED BY <1>2, <1>3, <1>4, <1>5, <1>6

\* An edge no step has touched.
LEMMA EdgeSame ==
  ASSUME NEW c, NEW k, NEW s, NEW u, NEW C, NEW D, NEW n, NEW p, EdgeDone(c, k, s, C, n, p),
         NEW m, m = c.src[n][p], s[m][Out] \in V3, s[n][p] \in V3, c.inv[n][p] \in Bit,
         u[n][p] = s[n][p], u[m][Out] = s[m][Out],
         Skipped(s, n, p) => Skipped(u, n, p),
         Telling(c, C, n, p) => Telling(c, D, n, p),
         TellingConst(C, n, p) => TellingConst(D, n, p),
         \A v : v # s[m][Out] /\ Asking(C, m, v) => Asking(D, m, v)
  PROVE  EdgeDone(c, k, u, D, n, p)
<1>1. PICK i : i = c.inv[n][p]
  OBVIOUS
<1>2. s[m][Out] # X => 1 - s[m][Out] # s[m][Out]
  BY DEF V3, X
<1>3. s[n][p] # X => Flip(s[n][p], i) # X
  BY <1>1 DEF V3, X, Bit, Flip
<1> QED BY <1>1, <1>2, <1>3 DEF EdgeDone

\* The driver of an edge has got the value v just now: the call that tells
\* its fanouts is on the stack, or it was the AND node that asked for it.
LEMMA EdgeDriven ==
  ASSUME NEW c, NEW k, NEW u, NEW D, NEW n, NEW p, NEW v \in Bit,
         u[c.src[n][p]][Out] = v, c.inv[n][p] \in Bit, u[n][p] \in V3,
         \/ Telling(c, D, n, p)
         \/ u[n][p] = Flip(v, c.inv[n][p])
         \/ Asking(D, c.src[n][p], 1 - v)
  PROVE  EdgeDone(c, k, u, D, n, p)
BY DEF EdgeDone, Bit, X

\* A pin has got a value and its driver, which was unknown or is asked for the
\* value, is on the stack.
LEMMA EdgeAsked ==
  ASSUME NEW c, NEW k, NEW u, NEW D, NEW n, NEW p,
         u[n][p] \in Bit, c.inv[n][p] \in Bit, u[c.src[n][p]][Out] \in V3,
         u[c.src[n][p]][Out] # X \/ k[c.src[n][p]] = X,
         Asking(D, c.src[n][p], Flip(u[n][p], c.inv[n][p]))
  PROVE  EdgeDone(c, k, u, D, n, p)
<1>1. PICK m, i, o, w : m = c.src[n][p] /\ i = c.inv[n][p] /\ o = u[m][Out] /\ w = u[n][p]
  OBVIOUS
<1>2. o # X => w = Flip(o, i) \/ Flip(w, i) = 1 - o
  BY <1>1 DEF V3, X, Bit, Flip
<1> QED BY <1>1, <1>2 DEF EdgeDone
------------------------------------------------------------------------------
(***************************************************************************)
(* The steps of an assert: what is in order stays so.                      *)
(***************************************************************************)
LEMMA EdgeFacts ==
  ASSUME IInv, NEW n \in Ands(net), NEW p \in Pin
  PROVE  /\ net.src[n][p] \in Nodes(net) /\ net.src[n][p] # n /\ net.inv[n][p] \in Bit
         /\ n \in Nodes(net) /\ n \notin Inputs(net) /\ n # NoNode
         /\ st[n] \in AndStates
         /\ st[n][p] \in V3 /\ st[net.src[n][p]][Out] \in V3 /\ Other(p) \in Pin /\ Out \in 1 .. 3
         /\ Pin \subseteq 1 .. 3
<1>1. IsCircuit(net) /\ st \in [Nodes(net) -> States] /\ st[n] \in AndStates
  BY EngineFacts
<1>2. /\ net.src[n][p] \in Nodes(net) /\ net.inv[n][p] \in Bit
      /\ n \in Nodes(net) /\ n \notin Inputs(net)
  BY <1>1, CircuitFacts
<1>3. n \in Nat /\ net.src[n][p] \in Nat /\ net.src[n][p] < n
  BY <1>1 DEF IsCircuit, Ands
<1>4. Other(p) \in Pin /\ Out \in 1 .. 3 /\ Pin \subseteq 1 .. 3
  BY DEF Pin, Other, Out
<1>5. st[n][p] \in V3 /\ st[net.src[n][p]][Out] \in V3
  BY <1>1, <1>2, <1>4 DEF States
<1> QED BY <1>1, <1>2, <1>3, <1>4, <1>5 DEF NoNode

\* The states only gain values during an assert.
Grown(s, u) == \A x \in Nodes(net), j \in 1 .. 3 : s[x][j] # X => u[x][j] = s[x][j]

LEMMA FrameKept ==
  ASSUME IInv, NEW r \in CallFrames, NEW k, NEW u, FrameDone(net, k, st, r), Grown(st, u)
  PROVE  FrameDone(net, k, u, r)
<1>1. r.n \in Nodes(net) /\ r.v \in Bit /\ Out \in 1 .. 3 /\ Pin \subseteq 1 .. 3
  BY DEF CallFrames, Frames, Out, Pin
<1>2. Ands(net) \subseteq Nodes(net)
  BY EngineFacts, CircuitFacts
<1>3. r.op = "fan" => u[r.n][Out] = r.v
  BY <1>1 DEF FrameDone, Grown, Bit, X
<1>4. CASE r.op = "bwd" /\ r.from # NoNode
  <2>1. /\ r.from \in Ands(net) /\ r.from \in Nodes(net)
        /\ \A p \in Pin : net.src[r.from][p] = r.n => st[r.from][p] # X
        /\ st[r.n][Out] # X \/ k[r.n] = X
    BY <1>2, <1>4 DEF FrameDone
  <2>2. \A p \in Pin : net.src[r.from][p] = r.n => u[r.from][p] # X
    BY <1>1, <2>1 DEF Grown
  <2>3. u[r.n][Out] # X \/ k[r.n] = X
    BY <1>1, <2>1 DEF Grown
  <2> QED BY <1>3, <2>1, <2>2, <2>3 DEF FrameDone
<1> QED BY <1>3, <1>4 DEF FrameDone

\* bwd_prop of a node that has the value already.
LEMMA AskedAlready ==
  ASSUME IInv, agenda # <<>>, Top.op = "bwd", st[Top.n][Out] = Top.v,
         InOrder(net, con, st, Among(agenda)),
         NEW D, D = {Fan(Top.n, Top.v, Top.from)} \cup Among(Callers)
  PROVE  InOrder(net, con, st, D)
<1>1. Among(agenda) = {Top} \cup Among(Callers)
  BY AgendaCalls
<1>2. ASSUME NEW n \in Ands(net), NEW p \in Pin PROVE EdgeDone(net, con, st, D, n, p)
  <2>1. EdgeDone(net, con, st, Among(agenda), n, p)
    BY DEF InOrder, Settled
  <2>2. Telling(net, Among(agenda), n, p) => Telling(net, D, n, p)
    BY <1>1 DEF Telling
  <2>3. TellingConst(Among(agenda), n, p) => TellingConst(D, n, p)
    BY <1>1 DEF TellingConst
  <2>4. PICK m : m = net.src[n][p]
    OBVIOUS
  <2>5. \A v : v # st[m][Out] /\ Asking(Among(agenda), m, v) => Asking(D, m, v)
    BY <1>1, <2>4 DEF Asking
  <2>6. st[m][Out] \in V3 /\ st[n][p] \in V3 /\ net.inv[n][p] \in Bit
    BY <2>4, EdgeFacts
  <2> QED BY <2>1, <2>2, <2>3, <2>4, <2>5, <2>6, EdgeSame
<1>3. FrameDone(net, con, st, Fan(Top.n, Top.v, Top.from))
  BY DEF FrameDone, Fan
<1>4. \A r \in Among(Callers) : FrameDone(net, con, st, r)
  BY <1>1 DEF InOrder
<1> QED BY <1>2, <1>3, <1>4 DEF InOrder, Settled

\* bwd_prop of a node that had no value: the AND node that asked is not told
\* again, and its pin may want the other value only while another call asks.
LEMMA AskedFirst ==
  ASSUME IInv, agenda # <<>>, Top.op = "bwd",
         InOrder(net, con, st, Among(agenda)),
         NEW n, n = Top.n, NEW v, v = Top.v, st[n][Out] = X,
         NEW u, u[n][Out] = v, \A x \in Nodes(net) : x # n => u[x] = st[x],
         NEW P, P \subseteq Pin,
         n \in Inputs(net) => P = {},
         n \notin Inputs(net) =>
            /\ \A p \in P : st[n][p] = X /\ u[n][p] = v /\ u[n][Other(p)] # X
            /\ \A p \in Pin \ P : u[n][p] = st[n][p]
            /\ \A p \in Pin : st[n][p] # 0,
         NEW D,
         Grown(st, u),
         Among(Callers) \subseteq D, Fan(n, v, Top.from) \in D, \A p \in P : FaninProp(n, p, v) \in D,
         \A x \in D : \/ x \in Among(Callers) \/ x = Fan(n, v, Top.from)
                      \/ \E p \in P : x = FaninProp(n, p, v)
  PROVE  InOrder(net, con, u, D)
<1>1. /\ Among(agenda) = {Top} \cup Among(Callers) /\ Among(agenda) \subseteq CallFrames
      /\ \A r \in Among(agenda) : r.op # "con"
  BY AgendaCalls
<1>2. /\ st \in [Nodes(net) -> States] /\ n \in Nodes(net) /\ v \in Bit
      /\ \A x \in Nodes(net) : x # n => u[x] = st[x]
  BY EngineFacts, TopFacts
<1>3. PICK C : C = Among(Callers)
  OBVIOUS
<1>4. C \subseteq D /\ Fan(n, v, Top.from) \in D /\ \A p \in P : FaninProp(n, p, v) \in D
  BY <1>3
<1>5. \A m, p : TellingConst(Among(agenda), m, p) => FALSE
  BY <1>1 DEF TellingConst
<1>6. \A m, w : m # n /\ Asking(Among(agenda), m, w) => Asking(D, m, w)
  BY <1>1, <1>3, <1>4 DEF Asking
<1>7. \A m, p : Telling(net, Among(agenda), m, p) => Telling(net, D, m, p)
  BY <1>1, <1>3, <1>4 DEF Telling
\* What the edges say of the pins that get a value.
<1>8. ASSUME NEW p \in P
      PROVE  /\ n \in Ands(net) /\ p \in Pin /\ st[n][p] = X /\ u[n][p] = v
             /\ Asking(D, net.src[n][p], Flip(v, net.inv[n][p]))
             /\ u[net.src[n][p]][Out] = st[net.src[n][p]][Out]
             /\ st[net.src[n][p]][Out] # X \/ con[net.src[n][p]] = X
  <2>1. n \in Ands(net) /\ p \in Pin /\ n \notin Inputs(net)
    BY <1>2, EngineFacts, CircuitFacts
  <2>2. st[n][p] = X /\ u[n][p] = v /\ st[n][Other(p)] # 0
    BY <2>1, EdgeFacts
  <2>3. Asking(D, net.src[n][p], Flip(v, net.inv[n][p]))
    BY <1>4 DEF Asking, FaninProp, Bwd
  <2>4. u[net.src[n][p]][Out] = st[net.src[n][p]][Out]
    BY <1>2, <2>1, EdgeFacts
  <2>5. st[net.src[n][p]][Out] # X \/ con[net.src[n][p]] = X
    <3> SUFFICES ASSUME st[net.src[n][p]][Out] = X, con[net.src[n][p]] # X PROVE FALSE
      OBVIOUS
    <3>1. EdgeDone(net, con, st, Among(agenda), n, p)
      BY <2>1 DEF InOrder, Settled
    <3>2. st[n][p] = Flip(con[net.src[n][p]], net.inv[n][p])
      BY <3>1, <2>2, <1>5 DEF EdgeDone, Skipped
    <3>3. Flip(con[net.src[n][p]], net.inv[n][p]) \in Bit
      <4>1. PICK f \in Consistent(net) : TRUE
        BY EngineFacts
      <4>2. con[net.src[n][p]] \in Bit /\ net.inv[n][p] \in Bit
        BY <2>1, EdgeFacts, ConstValue
      <4> QED BY <4>2, FlipBit
    <3> QED BY <3>2, <3>3, <2>2 DEF Bit, X
  <2> QED BY <1>2, <2>1, <2>2, <2>3, <2>4, <2>5
<1>9. ASSUME NEW d \in Ands(net), NEW p \in Pin PROVE EdgeDone(net, con, u, D, d, p)
  <2>0. PICK m, i : m = net.src[d][p] /\ i = net.inv[d][p]
    OBVIOUS
  <2>1. /\ m \in Nodes(net) /\ m # d /\ i \in Bit /\ d \in Nodes(net) /\ d # NoNode
        /\ d \notin Inputs(net) /\ st[d] \in AndStates
        /\ st[d][p] \in V3 /\ st[m][Out] \in V3
    BY <2>0, EdgeFacts
  <2>2. EdgeDone(net, con, st, Among(agenda), d, p)
    BY DEF InOrder, Settled
  <2>3. CASE m = n
    <3>1. u[m][Out] = v /\ u[d] = st[d]
      BY <1>2, <2>1, <2>3
    <3>2. CASE Top.from # d
      <4>1. Telling(net, D, d, p)
        <5>1. <<d, p>> \in Fanouts(net, n)
          BY <2>0, <2>3 DEF Fanouts
        <5> QED BY <1>4, <2>0, <2>3, <3>2, <5>1 DEF Telling, Fan
      <4> QED BY <1>2, <2>0, <2>1, <3>1, <4>1, EdgeDriven
    <3>3. CASE Top.from = d
      <4>1. st[d][p] # X /\ con[n] = X
        <5>1. FrameDone(net, con, st, Top)
          BY <1>1 DEF InOrder
        <5> QED BY <5>1, <2>0, <2>1, <2>3, <3>3 DEF FrameDone
      <4>2. PICK w : w = Flip(st[d][p], i) /\ Asking(Among(agenda), n, w)
        BY <2>0, <2>2, <2>3, <4>1 DEF EdgeDone
      <4>3. st[d][p] \in Bit /\ w \in Bit /\ st[d][p] = Flip(w, i)
        <5>1. st[d][p] \in Bit
          BY <2>1, <4>1 DEF V3, Bit
        <5> QED BY <5>1, <2>1, <4>2, FlipBit
      <4>4. CASE w = v
        <5>1. u[d][p] = Flip(v, net.inv[d][p]) /\ u[net.src[d][p]][Out] = v /\ u[d][p] \in V3
          BY <4>3, <4>4, <2>0, <2>1, <3>1, FlipBit
        <5> QED BY <5>1, <1>2, <2>0, <2>1, EdgeDriven
      <4>5. CASE w # v
        <5>1. w = 1 - v
          BY <4>3, <4>5, <1>2 DEF Bit
        <5>2. Asking(D, n, w)
          BY <1>1, <1>3, <1>4, <4>2, <4>5 DEF Asking
        <5> QED BY <5>1, <5>2, <1>2, <2>0, <2>1, <2>3, <3>1, EdgeDriven
      <4> QED BY <4>4, <4>5
    <3> QED BY <3>2, <3>3
  <2>4. CASE m # n /\ d # n
    <3>1. u[d] = st[d] /\ u[m] = st[m]
      BY <1>2, <2>1, <2>4
    <3>2. Skipped(st, d, p) => Skipped(u, d, p)
      BY <3>1 DEF Skipped
    <3>3. TellingConst(Among(agenda), d, p) => TellingConst(D, d, p)
      BY <1>5
    <3>4. \A w : w # st[m][Out] /\ Asking(Among(agenda), m, w) => Asking(D, m, w)
      BY <1>6, <2>4
    <3>5. Telling(net, Among(agenda), d, p) => Telling(net, D, d, p)
      BY <1>7
    <3>6. u[d][p] = st[d][p] /\ u[m][Out] = st[m][Out] /\ net.inv[d][p] \in Bit
      BY <2>0, <2>1, <3>1
    <3> QED BY <3>2, <3>3, <3>4, <3>5, <3>6, <2>0, <2>1, <2>2, EdgeSame
  <2>5. CASE d = n /\ p \in P
    BY <2>0, <2>1, <2>5, <1>2, <1>8, EdgeAsked
  <2>6. CASE d = n /\ p \notin P
    <3>1. u[d][p] = st[d][p] /\ u[m] = st[m] /\ m # n
      BY <1>2, <2>1, <2>6
    <3>2. ~Skipped(st, d, p)
      BY <2>1, <2>6, EdgeFacts DEF Skipped
    <3>3. TellingConst(Among(agenda), d, p) => TellingConst(D, d, p)
      BY <1>5
    <3>4. \A w : w # st[m][Out] /\ Asking(Among(agenda), m, w) => Asking(D, m, w)
      BY <1>6, <3>1
    <3>5. Telling(net, Among(agenda), d, p) => Telling(net, D, d, p)
      BY <1>7
    <3>6. u[d][p] = st[d][p] /\ u[m][Out] = st[m][Out] /\ net.inv[d][p] \in Bit
      BY <2>0, <2>1, <3>1
    <3> QED BY <3>2, <3>3, <3>4, <3>5, <3>6, <2>0, <2>1, <2>2, EdgeSame
  <2> QED BY <2>3, <2>4, <2>5, <2>6
<1>10. ASSUME NEW r \in D PROVE FrameDone(net, con, u, r)
  <2>1. CASE r \in C
    <3>1. r \in CallFrames /\ FrameDone(net, con, st, r)
      BY <1>1, <1>3, <2>1 DEF InOrder
    <3> QED BY <3>1, FrameKept
  <2>2. CASE r = Fan(n, v, Top.from)
    BY <1>2, <2>2 DEF FrameDone, Fan
  <2>3. CASE \E p \in P : r = FaninProp(n, p, v)
    <3>1. PICK p \in P : r = FaninProp(n, p, v)
      BY <2>3
    <3>2. r.op = "bwd" /\ r.from = n /\ r.n = net.src[n][p]
      BY <3>1 DEF FaninProp, Bwd
    <3>3. /\ n \in Ands(net) /\ p \in Pin /\ n \notin Inputs(net)
          /\ \A q \in Pin : q = p \/ q = Other(p)
      <4>1. \A a, b \in Pin : a = b \/ a = Other(b)
        BY DEF Pin, Other
      <4>2. n \in Ands(net) /\ p \in Pin
        BY <1>8
      <4>3. n \notin Inputs(net)
        BY <4>2, EdgeFacts
      <4> QED BY <4>1, <4>2, <4>3
    <3>4. u[n][p] # X /\ u[n][Other(p)] # X
      BY <1>2, <1>8, <3>3 DEF Bit, X
    <3>5. \A q \in Pin : u[n][q] # X
      BY <3>3, <3>4
    <3>6. u[r.n][Out] # X \/ con[r.n] = X
      <4>1. /\ u[net.src[n][p]][Out] = st[net.src[n][p]][Out]
            /\ st[net.src[n][p]][Out] # X \/ con[net.src[n][p]] = X
        BY <1>8
      <4> QED BY <4>1, <3>2
    <3> QED BY <3>2, <3>3, <3>5, <3>6 DEF FrameDone
  <2> QED BY <2>1, <2>2, <2>3, <1>3
<1> QED BY <1>9, <1>10 DEF InOrder, Settled

\* The call that has told the edge e and goes on with the others.
GoingOn(r, e) ==
  /\ r.op = Top.op /\ r.n = Top.n /\ r.v = Top.v /\ r.from = Top.from
  /\ r.todo = Top.todo \ {e} /\ r \in CallFrames

LEMMA TopGoesOn ==
  ASSUME IInv, agenda # <<>>, NEW e
  PROVE  \E r : Among(TopWithout(e)) = {r} \cup Among(Callers) /\ GoingOn(r, e)
<1>0. PICK r : r = [Top EXCEPT !.todo = @ \ {e}]
  OBVIOUS
<1>1. Top \in CallFrames
  BY StackFacts
<1>2. Top \in Frames
  BY <1>1 DEF CallFrames
<1>3. /\ r.op = Top.op /\ r.n = Top.n /\ r.v = Top.v /\ r.from = Top.from
      /\ r.todo = Top.todo \ {e} /\ r \in Frames
  BY <1>0, <1>2 DEF Frames
<1>4. GoingOn(r, e)
  BY <1>1, <1>3 DEF CallFrames, GoingOn
<1>5. Among(TopWithout(e)) = {r} \cup Among(Callers)
  BY <1>0, AgendaCalls
<1> QED BY <1>4, <1>5

\* fanout_prop passes over the AND node it was called from.
LEMMA ToldBefore ==
  ASSUME IInv, agenda # <<>>, Top.op = "fan",
         InOrder(net, con, st, Among(agenda)),
         NEW e \in Top.todo, e[1] = Top.from,
         NEW r, GoingOn(r, e)
  PROVE  InOrder(net, con, st, {r} \cup Among(Callers))
<1>1. Among(agenda) = {Top} \cup Among(Callers) /\ \A x \in Among(agenda) : x.op # "con"
  BY AgendaCalls
<1>2. /\ r.op = Top.op /\ r.n = Top.n /\ r.v = Top.v /\ r.from = Top.from
      /\ r.todo = Top.todo \ {e}
  BY DEF GoingOn
<1>3. PICK D : D = {r} \cup Among(Callers)
  OBVIOUS
<1>4. ASSUME NEW n \in Ands(net), NEW p \in Pin PROVE EdgeDone(net, con, st, D, n, p)
  <2>0. PICK m : m = net.src[n][p]
    OBVIOUS
  <2>1. EdgeDone(net, con, st, Among(agenda), n, p)
    BY DEF InOrder, Settled
  <2>2. Telling(net, Among(agenda), n, p) => Telling(net, D, n, p)
    <3>1. <<n, p>> = e => n = Top.from
      BY e[1] = Top.from
    <3>2. Top.from # n /\ <<n, p>> \in Top.todo => <<n, p>> \in r.todo
      BY <1>2, <3>1
    <3> QED BY <1>1, <1>2, <1>3, <3>2 DEF Telling
  <2>3. TellingConst(Among(agenda), n, p) => TellingConst(D, n, p)
    BY <1>1 DEF TellingConst
  <2>4. \A v : v # st[m][Out] /\ Asking(Among(agenda), m, v) => Asking(D, m, v)
    BY <1>1, <1>2, <1>3 DEF Asking
  <2>5. st[m][Out] \in V3 /\ st[n][p] \in V3 /\ net.inv[n][p] \in Bit
    BY <2>0, EdgeFacts
  <2> QED BY <2>0, <2>1, <2>2, <2>3, <2>4, <2>5, EdgeSame
<1>5. FrameDone(net, con, st, r)
  BY <1>1, <1>2 DEF InOrder, FrameDone
<1>6. \A x \in Among(Callers) : FrameDone(net, con, st, x)
  BY <1>1 DEF InOrder
<1> QED BY <1>3, <1>4, <1>5, <1>6 DEF InOrder, Settled

\* fanout_prop gives pin p of AND node d the value w, which may give the node
\* its value or the other pin a 0.
LEMMA ToldNow ==
  ASSUME IInv, agenda # <<>>, Top.op = "fan",
         InOrder(net, con, st, Among(agenda)),
         NEW e \in Top.todo, NEW d \in Ands(net), NEW p \in Pin, e = <<d, p>>, net.src[d][p] = Top.n,
         NEW w \in Bit, w = Flip(Top.v, net.inv[d][p]), ~FwdConflict(st[d], p, w),
         NEW t, t = FwdState(st[d], p, w), NEW q, q = Other(p),
         NEW u, u[d] = t, \A x \in Nodes(net) : x # d => u[x] = st[x], Grown(st, u),
         NEW r, GoingOn(r, e),
         NEW D, Among(Callers) \subseteq D, r \in D,
         t[Out] # st[d][Out] => Fan(d, t[Out], NoNode) \in D,
         t[Out] = st[d][Out] /\ t[q] # st[d][q] => FaninProp(d, q, 0) \in D,
         \A x \in D : \/ x \in Among(Callers) \/ x = r
                      \/ x = Fan(d, t[Out], NoNode)
                      \/ x = FaninProp(d, q, 0) /\ t[q] # st[d][q]
  PROVE  InOrder(net, con, u, D)
<1>1. /\ Among(agenda) = {Top} \cup Among(Callers) /\ Among(agenda) \subseteq CallFrames
      /\ \A x \in Among(agenda) : x.op # "con"
  BY AgendaCalls
<1>2. /\ r.op = Top.op /\ r.n = Top.n /\ r.v = Top.v /\ r.from = Top.from
      /\ r.todo = Top.todo \ {e} /\ r \in CallFrames
  BY DEF GoingOn
<1>3. Among(Callers) \subseteq D /\ r \in D
  OBVIOUS
<1>4. /\ st \in [Nodes(net) -> States] /\ d \in Nodes(net) /\ st[d] \in AndStates /\ d # NoNode
      /\ u[d] = t /\ \A x \in Nodes(net) : x # d => u[x] = st[x]
  BY EngineFacts, EdgeFacts
<1>5. /\ q \in Pin /\ q # p /\ Other(q) = p /\ \A j \in Pin : j = p \/ j = q
      /\ t[p] = w /\ t[p] # X
      /\ t[q] # st[d][q] => st[d][q] = X /\ st[d][p] = X /\ t[q] = 0 /\ t[Out] = st[d][Out]
      /\ st[d][q] = X /\ st[d][p] = 0 => t = st[d]
      /\ t[Out] # st[d][Out] => st[d][Out] = X /\ t[Out] \in Bit
  BY <1>4, FwdTold
<1>6. Top.n \in Nodes(net) /\ Top.v \in Bit /\ Top.n # d /\ st[Top.n][Out] = Top.v
  <2>1. FrameDone(net, con, st, Top)
    BY <1>1 DEF InOrder
  <2> QED BY <2>1, TopFacts, EdgeFacts DEF FrameDone
<1>7. \A m, k : TellingConst(Among(agenda), m, k) => FALSE
  BY <1>1 DEF TellingConst
<1>8. \A m, v : Asking(Among(agenda), m, v) => Asking(D, m, v)
  BY <1>1, <1>3 DEF Asking
<1>9. \A m, k : <<m, k>> # e /\ Telling(net, Among(agenda), m, k) => Telling(net, D, m, k)
  BY <1>1, <1>2, <1>3 DEF Telling
\* The other pin is 0 only now, and its driver was unknown.
<1>10. ASSUME t[q] # st[d][q]
       PROVE  /\ u[net.src[d][q]][Out] # X \/ con[net.src[d][q]] = X
              /\ Asking(D, net.src[d][q], Flip(t[q], net.inv[d][q]))
              /\ u[net.src[d][q]][Out] \in V3 /\ net.inv[d][q] \in Bit
  <2>1. st[d][q] = X /\ st[d][p] = X /\ t[q] = 0 /\ t[Out] = st[d][Out]
    BY <1>5, <1>10
  <2>2. /\ u[net.src[d][q]] = st[net.src[d][q]] /\ net.inv[d][q] \in Bit
        /\ st[net.src[d][q]][Out] \in V3
    BY <1>4, <1>5, EdgeFacts
  <2>3. st[net.src[d][q]][Out] # X \/ con[net.src[d][q]] = X
    <3> SUFFICES ASSUME st[net.src[d][q]][Out] = X, con[net.src[d][q]] # X PROVE FALSE
      OBVIOUS
    <3>1. EdgeDone(net, con, st, Among(agenda), d, q)
      BY <1>5 DEF InOrder, Settled
    <3>2. st[d][q] = Flip(con[net.src[d][q]], net.inv[d][q])
      BY <3>1, <2>1, <1>5, <1>7 DEF EdgeDone, Skipped, X
    <3>3. Flip(con[net.src[d][q]], net.inv[d][q]) \in Bit
      <4>1. PICK f \in Consistent(net) : TRUE
        BY EngineFacts
      <4>2. con[net.src[d][q]] \in Bit /\ net.inv[d][q] \in Bit
        BY <1>5, EdgeFacts, ConstValue
      <4> QED BY <4>2, FlipBit
    <3> QED BY <3>2, <3>3, <2>1 DEF Bit, X
  <2>4. Asking(D, net.src[d][q], Flip(t[q], net.inv[d][q]))
    <3>1. FaninProp(d, q, 0) \in D
      BY <1>10, <2>1
    <3> QED BY <3>1, <2>1 DEF Asking, FaninProp, Bwd
  <2> QED BY <2>2, <2>3, <2>4
<1>11. ASSUME NEW n \in Ands(net), NEW k \in Pin PROVE EdgeDone(net, con, u, D, n, k)
  <2>0. PICK m : m = net.src[n][k]
    OBVIOUS
  <2>1. /\ m \in Nodes(net) /\ m # n /\ net.inv[n][k] \in Bit /\ n \in Nodes(net) /\ n # NoNode
        /\ st[n] \in AndStates /\ st[n][k] \in V3 /\ st[m][Out] \in V3
    BY <2>0, EdgeFacts
  <2>2. EdgeDone(net, con, st, Among(agenda), n, k)
    BY DEF InOrder, Settled
  <2>3. CASE n = d /\ k = p
    <3>1. u[n][k] = Flip(Top.v, net.inv[n][k]) /\ u[net.src[n][k]][Out] = Top.v /\ u[n][k] \in V3
      BY <2>3, <1>4, <1>5, <1>6 DEF V3, Bit
    <3> QED BY <3>1, <2>1, <1>6, EdgeDriven
  <2>4. CASE n = d /\ k = q /\ t[q] # st[d][q]
    <3>1. u[n][k] = t[q] /\ t[q] \in Bit
      BY <2>4, <1>4, <1>5 DEF Bit
    <3> QED BY <3>1, <2>4, <1>10, EdgeAsked
  <2>5. CASE m = d /\ t[Out] # st[d][Out]
    <3>1. Telling(net, D, n, k)
      <4>1. Fan(d, t[Out], NoNode) \in D
        BY <2>5
      <4>2. <<n, k>> \in Fanouts(net, d)
        BY <2>0, <2>5 DEF Fanouts
      <4> QED BY <4>1, <4>2, <2>0, <2>1, <2>5 DEF Telling, Fan
    <3>2. u[net.src[n][k]][Out] = t[Out] /\ t[Out] \in Bit /\ u[n][k] \in V3
      BY <2>0, <2>1, <2>5, <1>4, <1>5
    <3> QED BY <3>1, <3>2, <2>1, EdgeDriven
  <2>6. CASE /\ ~(n = d /\ k = p)
             /\ n = d => t[q] = st[d][q]
             /\ m = d => t[Out] = st[d][Out]
    <3>1. u[n][k] = st[n][k]
      BY <2>1, <2>6, <1>4, <1>5
    <3>2. u[m][Out] = st[m][Out]
      BY <2>1, <2>6, <1>4
    <3>3. Skipped(st, n, k) => Skipped(u, n, k)
      BY <2>1, <2>6, <1>4, <1>5 DEF Skipped
    <3>4. Telling(net, Among(agenda), n, k) => Telling(net, D, n, k)
      <4>1. <<n, k>> # e
        BY <2>6
      <4> QED BY <4>1, <1>9
    <3>5. \A v : v # st[m][Out] /\ Asking(Among(agenda), m, v) => Asking(D, m, v)
      BY <1>8
    <3>6. TellingConst(Among(agenda), n, k) => TellingConst(D, n, k)
      BY <1>7
    <3> QED BY <3>1, <3>2, <3>3, <3>4, <3>5, <3>6, <2>0, <2>1, <2>2, EdgeSame
  <2>7. n = d /\ k # p => k = q
    BY <1>5
  <2> QED BY <2>3, <2>4, <2>5, <2>6, <2>7
<1>12. ASSUME NEW x \in D PROVE FrameDone(net, con, u, x)
  <2>1. CASE x \in Among(Callers)
    <3>1. x \in CallFrames /\ FrameDone(net, con, st, x)
      BY <1>1, <2>1 DEF InOrder
    <3> QED BY <3>1, FrameKept
  <2>2. CASE x = r
    BY <2>2, <1>2, <1>4, <1>6 DEF FrameDone
  <2>3. CASE x = Fan(d, t[Out], NoNode)
    BY <2>3, <1>4 DEF FrameDone, Fan
  <2>4. CASE x = FaninProp(d, q, 0) /\ t[q] # st[d][q]
    <3>1. x.op = "bwd" /\ x.from = d /\ x.n = net.src[d][q]
      BY <2>4 DEF FaninProp, Bwd
    <3>2. \A j \in Pin : u[d][j] # X
      BY <2>4, <1>4, <1>5 DEF X
    <3>3. u[x.n][Out] # X \/ con[x.n] = X
      BY <2>4, <3>1, <1>10
    <3> QED BY <3>1, <3>2, <3>3 DEF FrameDone
  <2> QED BY <2>1, <2>2, <2>3, <2>4
<1> QED BY <1>11, <1>12 DEF InOrder, Settled
------------------------------------------------------------------------------
(***************************************************************************)
(* Every step keeps CompInv.                                               *)
(***************************************************************************)

\* A step of an assert that goes on with the calls given.
LEMMA GoesOn ==
  ASSUME IInv, CompInv, agenda # <<>>, Top.op # "con", UNCHANGED <<net, mark, con>>,
         \A k \in 1 .. Len(mark) : Restored(st', chg', mark[k]) = Restored(st, chg, mark[k]),
         NEW calls, Continue(calls),
         InOrder(net, con, st, Among(agenda)) => InOrder(net, con, st', Among(calls))
  PROVE  CompInv'
<1>1. mark # <<>> /\ 1 \in 1 .. Len(mark)
  BY TopFacts
<1>2. Base' = Base
  BY <1>1 DEF Base, RestoredTo
<1>3. agenda' = calls /\ swallowed' = swallowed /\ result = "none"
      /\ result' = IF calls = <<>> THEN "true" ELSE result
  BY DEF Continue, CompInv
<1>4. agenda' # <<>> \/ mark' = <<>> => result' = "none"
  BY <1>1, <1>3
<1>5. swallowed' = 0 => InOrder(net, con, st', Among(agenda'))
  BY <1>3 DEF CompInv
<1>6. \A k \in 1 .. Len(mark) :
        swallowed = 0 \/ k <= swallowed => Settled(net, con, Restored(st', chg', mark[k]), {})
  BY DEF CompInv
<1>7. \A n \in Ands(net) : Base[n][Out] = 0 => \E p \in Pin : Base[n][p] = 0
  BY DEF CompInv
<1> QED BY <1>2, <1>3, <1>4, <1>5, <1>6, <1>7 DEF CompInv

\* A conflict, reported or discarded.
LEMMA GivesUp ==
  ASSUME IInv, CompInv, agenda # <<>>, Top.op # "con", UNCHANGED <<net, mark, con, st, chg>>,
         Conflict
  PROVE  CompInv'
<1>1. mark # <<>> /\ Len(mark) \in Nat /\ Len(mark) # 0
  BY TopFacts
<1>2. Base' = Base
  BY DEF Base, RestoredTo
<1>3. result = "none"
  BY DEF CompInv
<1>4. agenda' # <<>> \/ mark' = <<>> => result' = "none"
  BY <1>1, <1>3 DEF Conflict
<1>5. result' = "false" \/ swallowed' # 0
  BY <1>1 DEF Conflict
<1>6. \A k \in 1 .. Len(mark) : swallowed' = 0 \/ k <= swallowed' => swallowed = 0 \/ k <= swallowed
  BY DEF Conflict
<1>7. \A k \in 1 .. Len(mark) :
        swallowed' = 0 \/ k <= swallowed' => Settled(net, con, Restored(st, chg, mark[k]), {})
  BY <1>6 DEF CompInv
<1>8. \A n \in Ands(net) : Base[n][Out] = 0 => \E p \in Pin : Base[n][p] = 0
  BY DEF CompInv
<1> QED BY <1>2, <1>4, <1>5, <1>7, <1>8 DEF CompInv

LEMMA ChangeGrows ==
  ASSUME NEW n, NEW u, \A x \in Nodes(net) : x # n => u[x] = st[x],
         \A j \in 1 .. 3 : st[n][j] # X => u[n][j] = st[n][j]
  PROVE  Grown(st, u)
BY DEF Grown

LEMMA StatesChange ==
  ASSUME IInv, NEW n \in Nodes(net), NEW t \in StateSet(n), Change(n, t)
  PROVE  /\ st' = [st EXCEPT ![n] = t]
         /\ \A k \in 1 .. Len(mark) : Restored(st', chg', mark[k]) = Restored(st, chg, mark[k])
BY ChangeFacts

LEMMA FaninCallsAmong ==
  ASSUME NEW n, NEW v, NEW P, P \subseteq Pin
  PROVE  /\ Among(FaninCalls(n, P, v)) = {FaninProp(n, p, v) : p \in P}
         /\ \E S : FaninCalls(n, P, v) \in Seq(S)
<1> DEFINE a == IF 1 \in P THEN <<FaninProp(n, 1, v)>> ELSE <<>>
           b == IF 2 \in P THEN <<FaninProp(n, 2, v)>> ELSE <<>>
           S == {FaninProp(n, 1, v), FaninProp(n, 2, v)}
<1>1. a \in Seq(S) /\ b \in Seq(S)
  <2>1. \A r \in S : <<r>> \in Seq(S)
    OBVIOUS
  <2>2. <<>> \in Seq(S)
    OBVIOUS
  <2> HIDE DEF S
  <2>3. FaninProp(n, 1, v) \in S /\ FaninProp(n, 2, v) \in S
    BY DEF S
  <2>4. <<FaninProp(n, 1, v)>> \in Seq(S) /\ <<FaninProp(n, 2, v)>> \in Seq(S)
    BY <2>1, <2>3
  <2> QED BY <2>2, <2>4
<1>2. /\ Among(a) = {FaninProp(n, p, v) : p \in P \cap {1}}
      /\ Among(b) = {FaninProp(n, p, v) : p \in P \cap {2}}
  BY AmongOne
<1>3. FaninCalls(n, P, v) = a \o b
  BY DEF FaninCalls
<1> HIDE DEF a, b, S
<1>4. Among(a \o b) = Among(a) \cup Among(b) /\ a \o b \in Seq(S)
  BY <1>1, AmongConcat, ConcatProperties
<1>5. P = (P \cap {1}) \cup (P \cap {2})
  BY DEF Pin
<1> QED BY <1>2, <1>3, <1>4, <1>5

LEMMA BwdPropKeeps ==
  ASSUME IInv, CompInv, BwdProp
  PROVE  CompInv'
<1>1. agenda # <<>> /\ Top.op = "bwd" /\ Top.op # "con" /\ UNCHANGED <<net, mark, con>>
  BY DEF BwdProp
<1>2. PICK n, v, s : n = Top.n /\ v = Top.v /\ s = st[n]
  OBVIOUS
<1>3. /\ n \in Nodes(net) /\ v \in Bit
      /\ n \in Inputs(net) => s \in InputStates
      /\ n \notin Inputs(net) => n \in Ands(net) /\ s \in AndStates
  BY <1>1, <1>2, TopFacts, NodeFacts
<1>4. PICK t, P : /\ t = BwdState(s, v, n \in Inputs(net))
                  /\ P = IF n \in Inputs(net) THEN {} ELSE BwdPins(s, v)
  OBVIOUS
<1>5. CASE Conflict /\ UNCHANGED <<st, chg>>
  BY <1>1, <1>5, GivesUp
<1>6. CASE /\ ~BwdConflict(s, v) /\ Change(n, t)
           /\ Continue(FaninCalls(n, P, v) \o <<Fan(n, v, Top.from)>> \o Callers)
  <2>1. P \subseteq Pin
    BY <1>4 DEF BwdPins
  <2>2. PICK calls : calls = FaninCalls(n, P, v) \o <<Fan(n, v, Top.from)>> \o Callers
    OBVIOUS
  <2>3. Among(calls) = {FaninProp(n, p, v) : p \in P} \cup ({Fan(n, v, Top.from)} \cup Among(Callers))
    <3>1. PICK a, S : a = FaninCalls(n, P, v) /\ a \in Seq(S) /\ Among(a) = {FaninProp(n, p, v) : p \in P}
      BY <2>1, FaninCallsAmong
    <3>2. PICK g : g = Fan(n, v, Top.from)
      OBVIOUS
    <3>3. Callers \in Seq(CallFrames)
      BY <1>1, StackFacts
    <3> DEFINE b == <<g>>
    <3>4. b \in Seq({g}) /\ Among(b) = {g}
      BY AmongOne
    <3> HIDE DEF b
    <3>5. Among(a \o b) = Among(a) \cup Among(b)
      BY <3>1, <3>4, AmongConcat
    <3>6. PICK T : a \o b \in Seq(T)
      <4>1. PICK T : T = S \cup {g}
        OBVIOUS
      <4>2. a \in Seq(T) /\ b \in Seq(T)
        BY <3>1, <3>4, <4>1
      <4> QED BY <4>2, ConcatProperties
    <3>7. Among((a \o b) \o Callers) = Among(a \o b) \cup Among(Callers)
      <4>1. PICK y, z, F : y = a \o b /\ z = Callers /\ F = CallFrames
        OBVIOUS
      <4>2. y \in Seq(T) /\ z \in Seq(F)
        BY <3>3, <3>6, <4>1
      <4>3. Among(y \o z) = Among(y) \cup Among(z)
        BY <4>2, AmongConcat
      <4> QED BY <4>1, <4>3
    <3>8. calls = (a \o b) \o Callers
      BY <2>2, <3>1, <3>2 DEF b
    <3>9. Among(calls) = Among(a) \cup ({g} \cup Among(Callers))
      BY <3>4, <3>5, <3>7, <3>8
    <3> QED BY <3>1, <3>2, <3>9
  <2>4. t \in StateSet(n)
    <3>1. CASE n \in Inputs(net)
      <4>1. BwdState(s, v, n \in Inputs(net)) = BwdState(s, v, TRUE)
        BY <3>1 DEF BwdState
      <4> QED BY <1>3, <1>4, <1>6, <3>1, <4>1, InputBwd DEF StateSet
    <3>2. CASE n \notin Inputs(net)
      <4>1. BwdState(s, v, n \in Inputs(net)) = BwdState(s, v, FALSE)
        BY <3>2 DEF BwdState
      <4> QED BY <1>3, <1>4, <1>6, <3>2, <4>1, BwdType DEF StateSet
    <3> QED BY <3>1, <3>2
  <2>5. /\ st' = [st EXCEPT ![n] = t]
        /\ \A k \in 1 .. Len(mark) : Restored(st', chg', mark[k]) = Restored(st, chg, mark[k])
    BY <1>3, <1>6, <2>4, StatesChange
  <2>6. ASSUME InOrder(net, con, st, Among(agenda))
        PROVE  InOrder(net, con, st', Among(calls))
    <3>1. CASE s[Out] # X
      <4>1. s[Out] = v /\ t = s /\ P = {}
        BY <1>4, <1>6, <3>1 DEF BwdConflict, BwdState, BwdPins
      <4>2. st' = st
        BY <2>5, <4>1, <1>2, EngineFacts
      <4>3. Among(calls) = {Fan(n, v, Top.from)} \cup Among(Callers)
        BY <2>3, <4>1
      <4> QED BY <1>1, <1>2, <2>6, <4>1, <4>2, <4>3, AskedAlready
    <3>2. CASE s[Out] = X
      <4>1. /\ t[Out] = v
            /\ n \notin Inputs(net) =>
                 /\ \A p \in P : s[p] = X /\ t[p] = v /\ t[Other(p)] # X
                 /\ \A p \in Pin \ P : t[p] = s[p]
                 /\ \A p \in Pin : s[p] # 0
            /\ \A j \in 1 .. 3 : s[j] # X => t[j] = s[j]
        <5>1. CASE n \in Inputs(net)
          <6>1. t = [s EXCEPT ![Out] = v] /\ s \in InputStates
            BY <5>1, <1>3, <1>4, <3>2 DEF BwdState
          <6>2. s \in [1 .. 3 -> V3] /\ Out \in 1 .. 3
            BY <6>1 DEF InputStates, States, Out
          <6>3. t[Out] = v /\ \A j \in 1 .. 3 : j # Out => t[j] = s[j]
            BY <6>1, <6>2
          <6> QED BY <5>1, <6>3, <3>2
        <5>2. CASE n \notin Inputs(net)
          <6>1. t = BwdState(s, v, FALSE) /\ P = BwdPins(s, v) /\ s \in AndStates
            BY <5>2, <1>3, <1>4 DEF BwdState
          <6>2. /\ t[Out] = v
                /\ \A p \in P : s[p] = X /\ t[p] = v /\ t[Other(p)] # X
                /\ \A p \in Pin \ P : t[p] = s[p]
                /\ \A p \in Pin : s[p] # 0
            <7>1. /\ BwdState(s, v, FALSE)[Out] = v
                  /\ \A p \in BwdPins(s, v) : /\ s[p] = X /\ BwdState(s, v, FALSE)[p] = v
                                              /\ BwdState(s, v, FALSE)[Other(p)] # X
                  /\ \A p \in Pin \ BwdPins(s, v) : BwdState(s, v, FALSE)[p] = s[p]
                  /\ \A p \in Pin : s[p] # 0
              BY <6>1, <1>3, <3>2, BwdTold
            <7> QED BY <6>1, <7>1
          <6>3. \A j \in 1 .. 3 : j = Out \/ j \in Pin
            BY DEF Out, Pin
          <6>4. ASSUME NEW j \in 1 .. 3, s[j] # X PROVE t[j] = s[j]
            <7>1. j \in Pin /\ j \notin P
              BY <6>2, <6>3, <6>4, <3>2
            <7> QED BY <6>2, <7>1
          <6> QED BY <6>2, <6>4
        <5> QED BY <5>1, <5>2
      <4>2. PICK u, D : u = st' /\ D = Among(calls)
        OBVIOUS
      <4>3. u = [st EXCEPT ![n] = t] /\ st[n] = s
        BY <1>2, <2>5, <4>2
      <4>4. Grown(st, u)
        <5>1. u[n] = t /\ \A x \in Nodes(net) : x # n => u[x] = st[x]
          BY <1>3, <4>3, EngineFacts
        <5>2. \A j \in 1 .. 3 : st[n][j] # X => u[n][j] = st[n][j]
          BY <4>1, <4>3, <5>1
        <5> QED BY <5>1, <5>2, ChangeGrows
      <4>5. n \in Inputs(net) => P = {}
        BY <1>4
      <4>6. /\ st[n][Out] = X
            /\ \A x \in Nodes(net) : x # n => u[x] = st[x]
            /\ n \notin Inputs(net) =>
                 /\ \A p \in P : st[n][p] = X /\ u[n][p] = v /\ u[n][Other(p)] # X
                 /\ \A p \in Pin \ P : u[n][p] = st[n][p]
                 /\ \A p \in Pin : st[n][p] # 0
        <5>1. u[n] = t /\ \A x \in Nodes(net) : x # n => u[x] = st[x]
          BY <1>3, <4>3, EngineFacts
        <5> QED BY <5>1, <3>2, <4>1, <4>3
      <4>7. /\ n = Top.n /\ v = Top.v /\ u[n][Out] = v
            /\ Among(Callers) \subseteq D /\ Fan(n, v, Top.from) \in D
            /\ \A p \in P : FaninProp(n, p, v) \in D
            /\ \A x \in D : \/ x \in Among(Callers) \/ x = Fan(n, v, Top.from)
                            \/ \E p \in P : x = FaninProp(n, p, v)
        <5>1. u[n] = t
          BY <1>3, <4>3, EngineFacts
        <5> QED BY <5>1, <1>2, <2>3, <4>1, <4>2
      <4>8. InOrder(net, con, u, D)
        BY <1>1, <2>1, <2>6, <4>4, <4>5, <4>6, <4>7, AskedFirst
      <4> QED BY <4>2, <4>8
    <3> QED BY <3>1, <3>2
  <2> QED BY <1>1, <1>6, <2>2, <2>5, <2>6, GoesOn
<1> QED BY <1>2, <1>4, <1>5, <1>6 DEF BwdProp

LEMMA PushedAgain ==
  ASSUME IInv, agenda # <<>>, NEW e, NEW x
  PROVE  Among(<<x>> \o TopWithout(e)) = {x} \cup Among(TopWithout(e))
<1>1. PICK y, F : y = TopWithout(e) /\ F = CallFrames
  OBVIOUS
<1>2. y \in Seq(F)
  BY <1>1, TopWithoutFacts
<1>3. Among(<<x>> \o y) = {x} \cup Among(y)
  BY <1>2, AmongPush
<1> QED BY <1>1, <1>3

LEMMA FanoutStepKeeps ==
  ASSUME IInv, CompInv, FanoutStep
  PROVE  CompInv'
<1>1. agenda # <<>> /\ Top.op = "fan" /\ Top.op # "con" /\ UNCHANGED <<net, mark, con>>
  BY DEF FanoutStep
<1>2. PICK e \in Top.todo :
        LET w == Flip(Top.v, net.inv[e[1]][e[2]])
            s == st[e[1]]
            t == FwdState(s, e[2], w)
        IN  \/ e[1] = Top.from /\ Continue(TopWithout(e)) /\ UNCHANGED <<st, chg>>
            \/ Conflict /\ UNCHANGED <<st, chg>>
            \/ /\ ~FwdConflict(s, e[2], w)
               /\ Change(e[1], t)
               /\ IF t[Out] # s[Out]
                  THEN Continue(<<Fan(e[1], t[Out], NoNode)>> \o TopWithout(e))
                  ELSE IF t[Other(e[2])] # s[Other(e[2])]
                  THEN Continue(<<FaninProp(e[1], Other(e[2]), 0)>> \o TopWithout(e))
                  ELSE Continue(TopWithout(e))
  BY DEF FanoutStep
<1>3. PICK d, p : d = e[1] /\ p = e[2]
  OBVIOUS
<1>4. /\ d \in Ands(net) /\ p \in Pin /\ e = <<d, p>> /\ net.src[d][p] = Top.n
      /\ Top.n \in Nodes(net) /\ Top.v \in Bit
  <2>1. Top.todo \subseteq Fanouts(net, Top.n)
    BY <1>1, StackFacts DEF CallFrames
  <2> QED BY <1>1, <1>2, <1>3, <2>1, TopFacts DEF Fanouts
<1>5. PICK w, t, q : w = Flip(Top.v, net.inv[d][p]) /\ t = FwdState(st[d], p, w) /\ q = Other(p)
  OBVIOUS
<1>6. /\ d \in Nodes(net) /\ d \notin Inputs(net) /\ st[d] \in AndStates /\ w \in Bit
  BY <1>4, <1>5, EdgeFacts, FlipBit
<1>7. PICK r : Among(TopWithout(e)) = {r} \cup Among(Callers) /\ GoingOn(r, e)
  BY <1>1, TopGoesOn
<1>8. CASE d = Top.from /\ Continue(TopWithout(e)) /\ UNCHANGED <<st, chg>>
  <2>1. InOrder(net, con, st, Among(agenda)) => InOrder(net, con, st, Among(TopWithout(e)))
    BY <1>1, <1>3, <1>7, <1>8, ToldBefore
  <2>2. st' = st
    BY <1>8
  <2> QED BY <1>1, <1>8, <2>1, <2>2, GoesOn
<1>9. CASE Conflict /\ UNCHANGED <<st, chg>>
  BY <1>1, <1>9, GivesUp
<1>10. CASE /\ ~FwdConflict(st[d], p, w)
            /\ Change(d, t)
            /\ IF t[Out] # st[d][Out]
               THEN Continue(<<Fan(d, t[Out], NoNode)>> \o TopWithout(e))
               ELSE IF t[q] # st[d][q]
               THEN Continue(<<FaninProp(d, q, 0)>> \o TopWithout(e))
               ELSE Continue(TopWithout(e))
  <2>1. PICK calls : /\ Continue(calls)
                     /\ calls = IF t[Out] # st[d][Out] THEN <<Fan(d, t[Out], NoNode)>> \o TopWithout(e)
                                ELSE IF t[q] # st[d][q] THEN <<FaninProp(d, q, 0)>> \o TopWithout(e)
                                ELSE TopWithout(e)
    BY <1>10
  <2>2. PICK D : D = Among(calls)
    OBVIOUS
  <2>3. /\ Among(Callers) \subseteq D /\ r \in D
        /\ t[Out] # st[d][Out] => Fan(d, t[Out], NoNode) \in D
        /\ t[Out] = st[d][Out] /\ t[q] # st[d][q] => FaninProp(d, q, 0) \in D
        /\ \A x \in D : \/ x \in Among(Callers) \/ x = r
                        \/ x = Fan(d, t[Out], NoNode)
                        \/ x = FaninProp(d, q, 0) /\ t[q] # st[d][q]
    <3>1. \A x : Among(<<x>> \o TopWithout(e)) = {x} \cup ({r} \cup Among(Callers))
      BY <1>1, <1>7, PushedAgain
    <3>2. CASE t[Out] # st[d][Out]
      <4>1. D = {Fan(d, t[Out], NoNode)} \cup ({r} \cup Among(Callers))
        BY <2>1, <2>2, <3>1, <3>2
      <4> QED BY <3>2, <4>1
    <3>3. CASE t[Out] = st[d][Out] /\ t[q] # st[d][q]
      <4>1. D = {FaninProp(d, q, 0)} \cup ({r} \cup Among(Callers))
        BY <2>1, <2>2, <3>1, <3>3
      <4> QED BY <3>3, <4>1
    <3>4. CASE t[Out] = st[d][Out] /\ t[q] = st[d][q]
      <4>1. D = {r} \cup Among(Callers)
        BY <2>1, <2>2, <1>7, <3>4
      <4> QED BY <3>4, <4>1
    <3> QED BY <3>2, <3>3, <3>4
  <2>4. t \in StateSet(d)
    BY <1>4, <1>5, <1>6, <1>10, FwdType DEF StateSet
  <2>5. /\ st' = [st EXCEPT ![d] = t]
        /\ \A k \in 1 .. Len(mark) : Restored(st', chg', mark[k]) = Restored(st, chg, mark[k])
    BY <1>6, <1>10, <2>4, StatesChange
  <2>6. PICK u : u = st'
    OBVIOUS
  <2>7. u[d] = t /\ \A x \in Nodes(net) : x # d => u[x] = st[x]
    BY <1>6, <2>5, <2>6, EngineFacts
  <2>8. Grown(st, u)
    <3>1. PICK s : s = st[d] /\ s \in AndStates /\ ~FwdConflict(s, p, w) /\ t = FwdState(s, p, w)
      BY <1>5, <1>6, <1>10
    <3>2. \A j \in 1 .. 3 : s[j] # X => t[j] = s[j]
      <4>1. \A j \in 1 .. 3 : s[j] # X => FwdState(s, p, w)[j] = s[j]
        BY <1>4, <1>6, <3>1, FwdTold
      <4> QED BY <3>1, <4>1
    <3>3. \A j \in 1 .. 3 : st[d][j] # X => u[d][j] = st[d][j]
      BY <2>7, <3>1, <3>2
    <3> QED BY <2>7, <3>3, ChangeGrows
  <2>9. InOrder(net, con, st, Among(agenda)) => InOrder(net, con, u, D)
    BY <1>1, <1>2, <1>4, <1>5, <1>6, <1>7, <1>10, <2>3, <2>7, <2>8, ToldNow
  <2> QED BY <1>1, <2>1, <2>2, <2>5, <2>6, <2>9, GoesOn
<1> QED BY <1>2, <1>3, <1>5, <1>8, <1>9, <1>10

\* A step that ends or begins calls which are neither about an edge nor from
\* an AND node.
LEMMA OtherCalls ==
  ASSUME IInv, agenda # <<>>, InOrder(net, con, st, Among(agenda)),
         Top.op \in {"fan", "ind"}, Top.op = "fan" => Top.todo = {},
         NEW D, Among(Callers) \subseteq D,
         \A x \in D : \/ x \in Among(Callers) \/ x.op = "ind"
                      \/ x.op = "bwd" /\ x.from = NoNode
  PROVE  InOrder(net, con, st, D)
<1>1. Among(agenda) = {Top} \cup Among(Callers)
  BY AgendaCalls
<1>2. ASSUME NEW n \in Ands(net), NEW p \in Pin PROVE EdgeDone(net, con, st, D, n, p)
  <2>1. EdgeDone(net, con, st, Among(agenda), n, p)
    BY DEF InOrder, Settled
  <2>2. Telling(net, Among(agenda), n, p) => Telling(net, D, n, p)
    BY <1>1 DEF Telling
  <2>3. TellingConst(Among(agenda), n, p) => TellingConst(D, n, p)
    BY <1>1 DEF TellingConst
  <2>4. PICK m : m = net.src[n][p]
    OBVIOUS
  <2>5. \A v : v # st[m][Out] /\ Asking(Among(agenda), m, v) => Asking(D, m, v)
    BY <1>1 DEF Asking
  <2>6. st[m][Out] \in V3 /\ st[n][p] \in V3 /\ net.inv[n][p] \in Bit
    BY <2>4, EdgeFacts
  <2> QED BY <2>1, <2>2, <2>3, <2>4, <2>5, <2>6, EdgeSame
<1>3. \A x \in D : FrameDone(net, con, st, x)
  BY <1>1 DEF InOrder, FrameDone
<1> QED BY <1>2, <1>3 DEF InOrder, Settled

LEMMA FanoutEndKeeps ==
  ASSUME IInv, CompInv, FanoutEnd
  PROVE  CompInv'
<1>1. /\ agenda # <<>> /\ Top.op = "fan" /\ Top.op # "con" /\ Top.todo = {}
      /\ UNCHANGED <<net, mark, con, st, chg>>
  BY DEF FanoutEnd
<1>2. PICK calls : Continue(calls) /\ (calls = Callers \/ calls = <<Ind(Top.n, Top.v)>> \o Callers)
  BY DEF FanoutEnd
<1>3. Among(calls) = Among(Callers) \/ Among(calls) = {Ind(Top.n, Top.v)} \cup Among(Callers)
  BY <1>1, <1>2, StackFacts, AmongPush
<1>4. Ind(Top.n, Top.v).op = "ind"
  BY DEF Ind
<1>5. InOrder(net, con, st, Among(agenda)) => InOrder(net, con, st, Among(calls))
  BY <1>1, <1>3, <1>4, OtherCalls
<1> QED BY <1>1, <1>2, <1>5, GoesOn

LEMMA IndStepKeeps ==
  ASSUME IInv, CompInv, IndStep
  PROVE  CompInv'
<1>1. /\ agenda # <<>> /\ Top.op = "ind" /\ Top.op # "con"
      /\ UNCHANGED <<net, mark, con, st, chg>>
  BY DEF IndStep
<1>2. PICK d \in Top.todo :
        \/ Continue(<<Bwd(d[1], d[2], NoNode)>> \o TopWithout(d))
        \/ Continue(TopWithout(d))
        \/ Conflict
  BY DEF IndStep
<1>3. CASE Conflict
  BY <1>1, <1>3, GivesUp
<1>4. CASE ~Conflict
  <2>1. PICK calls : /\ Continue(calls)
                     /\ calls = TopWithout(d) \/ calls = <<Bwd(d[1], d[2], NoNode)>> \o TopWithout(d)
    BY <1>2, <1>4
  <2>2. PICK r : Among(TopWithout(d)) = {r} \cup Among(Callers) /\ GoingOn(r, d)
    BY <1>1, TopGoesOn
  <2>4. \/ Among(calls) = {r} \cup Among(Callers)
        \/ Among(calls) = {Bwd(d[1], d[2], NoNode)} \cup ({r} \cup Among(Callers))
    BY <1>1, <2>1, <2>2, PushedAgain
  <2>5. r.op = "ind" /\ Bwd(d[1], d[2], NoNode).op = "bwd" /\ Bwd(d[1], d[2], NoNode).from = NoNode
    BY <1>1, <2>2 DEF GoingOn, Bwd
  <2>6. InOrder(net, con, st, Among(agenda)) => InOrder(net, con, st, Among(calls))
    BY <1>1, <2>4, <2>5, OtherCalls
  <2> QED BY <1>1, <2>1, <2>6, GoesOn
<1> QED BY <1>3, <1>4

LEMMA IndEndKeeps ==
  ASSUME IInv, CompInv, IndEnd
  PROVE  CompInv'
<1>1. /\ agenda # <<>> /\ Top.op = "ind" /\ Top.op # "con" /\ Continue(Callers)
      /\ UNCHANGED <<net, mark, con, st, chg>>
  BY DEF IndEnd
<1>2. InOrder(net, con, st, Among(agenda)) => InOrder(net, con, st, Among(Callers))
  BY <1>1, OtherCalls
<1> QED BY <1>1, <1>2, GoesOn

LEMMA AssertKeeps ==
  ASSUME IInv, BaseInv, CompInv, NEW n, NEW v, NEW r, Assert(n, v, r)
  PROVE  CompInv'
<1>1. /\ mark' = Append(mark, Len(chg)) /\ agenda = <<>> /\ agenda' = <<Bwd(n, v, NoNode)>>
      /\ result # "false" /\ result' = "none"
      /\ UNCHANGED <<net, st, chg, con, swallowed>>
  BY DEF Assert, Idle
<1>2. mark \in Seq(Nat) /\ Len(chg) \in Nat /\ Len(mark) \in Nat /\ (mark = <<>> <=> Len(mark) = 0)
      /\ swallowed \in 0 .. Len(mark)
  BY IdleFacts DEF IInv, TypeInv
<1>3. /\ Len(mark') = Len(mark) + 1 /\ mark'[Len(mark) + 1] = Len(chg)
      /\ \A k \in 1 .. Len(mark) : mark'[k] = mark[k]
      /\ mark' # <<>>
  BY <1>1, <1>2, AppendProperties, FirstAppended
<1>4. Restored(st, chg, Len(chg)) = st
  BY <1>2, EngineFacts, RestoredNow
<1>5. Among(agenda) = {} /\ Among(agenda') = {Bwd(n, v, NoNode)}
  BY <1>1, AmongOne
<1>6. Base' = Base
  <2>1. CASE mark = <<>>
    <3>1. mark'[1] = Len(chg)
      BY <1>2, <1>3, <2>1
    <3> QED BY <2>1, <3>1, <1>1, <1>3, <1>4 DEF Base, RestoredTo
  <2>2. CASE mark # <<>>
    <3>1. mark'[1] = mark[1]
      BY <1>2, <1>3, <2>2
    <3> QED BY <2>2, <3>1, <1>1, <1>3 DEF Base, RestoredTo
  <2> QED BY <2>1, <2>2
<1>7. swallowed = 0 => Settled(net, con, st, {})
  BY <1>1, <1>5 DEF CompInv, InOrder
<1>8. swallowed' = 0 => InOrder(net, con, st, {Bwd(n, v, NoNode)})
  <2> SUFFICES ASSUME swallowed = 0 PROVE InOrder(net, con, st, {Bwd(n, v, NoNode)})
    BY <1>1
  <2>1. PICK g : g = Bwd(n, v, NoNode)
    OBVIOUS
  <2>2. ASSUME NEW d \in Ands(net), NEW p \in Pin PROVE EdgeDone(net, con, st, {g}, d, p)
    <3>1. EdgeDone(net, con, st, {}, d, p)
      BY <1>7 DEF Settled
    <3> QED BY <3>1 DEF EdgeDone, Telling, TellingConst, Asking
  <2>3. FrameDone(net, con, st, g)
    BY <2>1 DEF FrameDone, Bwd
  <2> QED BY <2>1, <2>2, <2>3 DEF InOrder, Settled
<1>9. ASSUME NEW k \in 1 .. Len(mark'), swallowed = 0 \/ k <= swallowed
      PROVE  Settled(net, con, Restored(st, chg, mark'[k]), {})
  <2>1. CASE k \in 1 .. Len(mark)
    BY <2>1, <1>3, <1>9 DEF CompInv
  <2>2. CASE k = Len(mark) + 1
    <3>1. swallowed = 0
      BY <1>2, <1>9, <2>2
    <3> QED BY <3>1, <2>2, <1>3, <1>4, <1>7
  <2> QED BY <1>2, <1>3, <2>1, <2>2
<1>10. \A x \in Ands(net) : Base[x][Out] = 0 => \E p \in Pin : Base[x][p] = 0
  BY DEF CompInv
<1> QED BY <1>1, <1>3, <1>5, <1>6, <1>8, <1>9, <1>10 DEF CompInv

LEMMA BacktrackKeeps ==
  ASSUME IInv, BaseInv, CompInv, Backtrack
  PROVE  CompInv'
<1>0. PICK L : L = Len(mark)
  OBVIOUS
<1>1. /\ st' = Restored(st, chg, mark[L]) /\ chg' = SubSeq(chg, 1, mark[L])
      /\ mark' = SubSeq(mark, 1, L - 1) /\ mark # <<>> /\ agenda = <<>> /\ agenda' = <<>>
      /\ result' = "none" /\ swallowed' = IF swallowed = L THEN 0 ELSE swallowed
      /\ UNCHANGED <<net, con>>
  BY <1>0 DEF Backtrack, RestoredTo, Idle
<1>2. /\ L \in Nat /\ L >= 1 /\ mark \in Seq(Nat) /\ chg \in Seq(Changes) /\ mark[1] = 0
      /\ swallowed \in 0 .. L
      /\ \A i, j \in 1 .. L : j <= i => mark[i] \in 0 .. Len(chg) /\ mark[j] \in 0 .. mark[i]
  <2>1. \A i \in 1 .. L : mark[i] \in 0 .. Len(chg) /\ \A j \in 1 .. i : mark[j] <= mark[i]
    BY <1>0, <1>1, IdleFacts DEF IInv, TypeInv, MarksOrdered
  <2>2. \A i \in 1 .. L : mark[i] \in Nat
    BY <1>0 DEF IInv, TypeInv
  <2>3. L \in Nat /\ L >= 1 /\ mark \in Seq(Nat) /\ chg \in Seq(Changes) /\ mark[1] = 0
        /\ swallowed \in 0 .. L
    BY <1>0, <1>1, IdleFacts DEF IInv, TypeInv, BaseInv
  <2> QED BY <2>1, <2>2, <2>3
<1>3. mark' \in Seq(Nat) /\ Len(mark') = L - 1 /\ \A i \in 1 .. (L - 1) : mark'[i] = mark[i]
  <2>1. L - 1 \in 0 .. L
    BY <1>2
  <2>2. \A m \in 0 .. L : SubSeq(mark, 1, m) \in Seq(Nat) /\ Len(SubSeq(mark, 1, m)) = m
            /\ \A i \in 1 .. m : SubSeq(mark, 1, m)[i] = mark[i]
    BY <1>0, <1>2
  <2> QED BY <1>1, <2>1, <2>2
<1>4. \A k \in 1 .. (L - 1) : Restored(st', chg', mark'[k]) = Restored(st, chg, mark[k])
  <2> SUFFICES ASSUME NEW k \in 1 .. (L - 1)
               PROVE  Restored(st', chg', mark'[k]) = Restored(st, chg, mark[k])
    OBVIOUS
  <2>1. k \in 1 .. L /\ L \in 1 .. L /\ k <= L
    BY <1>2
  <2>2. mark[L] \in 0 .. Len(chg) /\ mark[k] \in 0 .. mark[L]
    BY <1>2, <2>1
  <2>3. PICK S, q, pos : S = Changes /\ q = mark[L] /\ pos = mark[k]
    OBVIOUS
  <2>4. Restored(Restored(st, chg, q), SubSeq(chg, 1, q), pos) = Restored(st, chg, pos)
    BY <1>2, <2>2, <2>3, RestoredTwice
  <2> QED BY <1>1, <1>3, <2>3, <2>4
<1>5. swallowed' = 0 => Settled(net, con, st', {})
  <2>1. swallowed' = 0 => swallowed = 0 \/ L <= swallowed
    BY <1>1, <1>2
  <2>2. L \in 1 .. L
    BY <1>2
  <2> QED BY <1>0, <1>1, <2>1, <2>2 DEF CompInv
<1>6. swallowed' = 0 => InOrder(net, con, st', Among(agenda'))
  BY <1>1, <1>5, AmongOne DEF InOrder
<1>7. ASSUME NEW k \in 1 .. Len(mark'), swallowed' = 0 \/ k <= swallowed'
      PROVE  Settled(net, con, Restored(st', chg', mark'[k]), {})
  <2>1. k \in 1 .. (L - 1) /\ k \in 1 .. L
    BY <1>2, <1>3
  <2>2. swallowed = 0 \/ k <= swallowed
    BY <1>1, <1>2, <1>7, <2>1
  <2>3. Settled(net, con, Restored(st, chg, mark[k]), {})
    BY <1>0, <2>1, <2>2 DEF CompInv
  <2> QED BY <1>4, <2>1, <2>3
<1>8. Base' = Base
  <2>1. CASE L = 1
    <3>1. mark' = <<>>
      BY <1>3, <2>1
    <3> QED BY <1>1, <2>1, <3>1 DEF Base, RestoredTo
  <2>2. CASE L > 1
    <3>1. mark' # <<>> /\ 1 \in 1 .. (L - 1)
      BY <1>2, <1>3, <2>2
    <3> QED BY <1>1, <1>4, <3>1 DEF Base, RestoredTo
  <2> QED BY <1>2, <2>1, <2>2
<1>9. \A x \in Ands(net) : Base[x][Out] = 0 => \E p \in Pin : Base[x][p] = 0
  BY DEF CompInv
<1> QED BY <1>1, <1>6, <1>7, <1>8, <1>9 DEF CompInv

\* Outside every level the edges are in order because of BaseInv, if no pin
\* has a value that its driver has not.
PinsKnown == \A n \in Ands(net), p \in Pin : st[n][p] # X => con[net.src[n][p]] # X
ZerosKnown == \A n \in Ands(net) : st[n][Out] = 0 => \E p \in Pin : st[n][p] = 0

LEMMA OutsideOrder ==
  IInv /\ BaseInv /\ mark = <<>> => (CompInv <=> PinsKnown /\ ZerosKnown /\ result = "none")
<1> SUFFICES ASSUME IInv, BaseInv, mark = <<>>
             PROVE  CompInv <=> PinsKnown /\ ZerosKnown /\ result = "none"
  OBVIOUS
<1>1. /\ swallowed = 0 /\ Base = st
      /\ \A r \in Among(agenda) : r.op = "con" /\ r.op # "fan" /\ r.op # "bwd"
  <2>1. swallowed = 0
    BY DEF IInv, TypeInv
  <2>2. agenda \in Seq(CallFrames) /\ dec = <<>>
    BY EngineFacts
  <2>3. \A r \in Among(agenda) : r \in CallFrames
    BY <2>2, ElementOfSeq DEF Among
  <2>4. \A r \in Among(agenda) : r.op = "con"
    BY <2>2, <2>3 DEF CallFrames
  <2> QED BY <2>1, <2>4 DEF Base
<1>2. \A n \in Nodes(net) : st[n][Out] # X => con[n] = st[n][Out]
  BY OutsideBase
<1>3. ASSUME NEW n \in Ands(net), NEW p \in Pin
      PROVE  EdgeDone(net, con, st, Among(agenda), n, p) <=> (st[n][p] # X => con[net.src[n][p]] # X)
  <2>1. PICK m : m = net.src[n][p]
    OBVIOUS
  <2>2. m \in Nodes(net)
    BY <2>1, EdgeFacts
  <2>3. con[m] # X => Told(st, n, p) \/ TellingConst(Among(agenda), n, p)
    <3>1. con[m] # X => Told(st, n, p) \/ <<n, p>> \in TodoIn(agenda)
      BY <2>1, OutsideBase
    <3>2. <<n, p>> \in TodoIn(agenda) => TellingConst(Among(agenda), n, p)
      BY <1>1 DEF TodoIn, TellingConst, Among
    <3> QED BY <3>1, <3>2
  <2>4. \A v : ~Asking(Among(agenda), m, v)
    BY <1>1 DEF Asking
  <2>5. st[m][Out] # X => con[m] = st[m][Out] /\ con[m] # X
    BY <1>2, <2>2
  <2>6. (con[m] # X /\ Told(st, n, p)) => \/ st[n][p] = Flip(con[m], net.inv[n][p])
                                          \/ Skipped(st, n, p)
    BY <2>1 DEF Told, Skipped
  <2> QED BY <2>1, <2>3, <2>4, <2>5, <2>6 DEF EdgeDone
<1>4. InOrder(net, con, st, Among(agenda)) <=> PinsKnown
  BY <1>1, <1>3 DEF InOrder, Settled, FrameDone, PinsKnown
<1>5. 1 .. Len(mark) = {}
  BY mark = <<>>
<1> QED BY <1>1, <1>4, <1>5 DEF CompInv, ZerosKnown

LEMMA OutsideOrderNext ==
  (IInv /\ BaseInv /\ mark = <<>> => (CompInv <=> PinsKnown /\ ZerosKnown /\ result = "none"))'
BY OutsideOrder, PTL

\* Only constants are told by set_const.
ConsMarked == \A r \in Among(agenda) : r.op = "con" => con[r.n] # X

LEMMA InsideNoConsts == IInv /\ mark # <<>> => ConsMarked
<1> SUFFICES ASSUME IInv, mark # <<>> PROVE ConsMarked
  OBVIOUS
<1>1. agenda \in Seq(CallFrames) /\ dec # <<>>
  BY EngineFacts
<1>2. \A r \in Among(agenda) : r \in CallFrames
  BY <1>1, ElementOfSeq DEF Among
<1> QED BY <1>1, <1>2 DEF ConsMarked, CallFrames

LEMMA InsideNoConstsNext == (IInv /\ mark # <<>> => ConsMarked)'
BY InsideNoConsts, PTL

LEMMA ConsKept ==
  ASSUME IInv, IInv', ConsMarked, [Next]_vars
  PROVE  ConsMarked'
<1>1. CASE mark' # <<>>
  BY <1>1, InsideNoConstsNext
<1>2. CASE Backtrack
  BY <1>2, AmongOne DEF Backtrack, Idle, ConsMarked
<1>3. CASE \E n \in Nodes(net), v \in Bit : SetConst(n, v)
  <2>1. PICK n \in Nodes(net), v \in Bit : agenda' = <<Con(n, v)>> /\ con' = [con EXCEPT ![n] = v]
    BY <1>3 DEF SetConst, ConstCall
  <2>2. con'[n] # X /\ Con(n, v).n = n
    BY <2>1, EngineFacts DEF Con, Bit, X
  <2>3. Among(agenda') = {Con(n, v)}
    BY <2>1, AmongOne
  <2> QED BY <2>2, <2>3 DEF ConsMarked
<1>4. CASE PropConst
  <2>1. PICK e \in Top.todo :
          \/ aborted' = TRUE
          \/ \E o : /\ con' = IF o = X THEN con ELSE [con EXCEPT ![e[1]] = o]
                   /\ agenda' = (IF o = X THEN <<>> ELSE <<Con(e[1], o)>>) \o TopWithout(e)
    BY <1>4 DEF PropConst
  <2>2. agenda # <<>>
    BY <1>4 DEF PropConst
  <2>3. PICK r : Among(TopWithout(e)) = {r} \cup Among(Callers) /\ GoingOn(r, e)
    BY <2>2, TopGoesOn
  <2>4. \A x \in {r} \cup Among(Callers) : x.op = "con" => con[x.n] # X
    BY <2>2, <2>3, AgendaCalls DEF ConsMarked, GoingOn
  <2>5. \A x \in {r} \cup Among(Callers) : x.n \in Nodes(net)
    BY <2>2, <2>3, AgendaCalls DEF GoingOn, CallFrames, Frames
  <2>6. TopWithout(e) \in Seq(CallFrames)
    BY <2>2, TopWithoutFacts
  <2>7. PICK o : /\ con' = IF o = X THEN con ELSE [con EXCEPT ![e[1]] = o]
                 /\ agenda' = (IF o = X THEN <<>> ELSE <<Con(e[1], o)>>) \o TopWithout(e)
    BY <2>1 DEF IInv, NoAbort
  <2>8. CASE o = X
    <3>1. con' = con /\ agenda' = TopWithout(e)
      BY <2>6, <2>7, <2>8
    <3> QED BY <2>3, <2>4, <3>1 DEF ConsMarked
  <2>9. CASE o # X
    <3>1. agenda' = <<Con(e[1], o)>> \o TopWithout(e) /\ con' = [con EXCEPT ![e[1]] = o]
      BY <2>7, <2>9
    <3>2. Among(agenda') = {Con(e[1], o)} \cup ({r} \cup Among(Callers))
      BY <2>2, <2>3, <3>1, PushedAgain
    <3>3. e[1] \in Nodes(net) /\ Con(e[1], o).n = e[1]
      <4>1. Top \in CallFrames /\ Top.op = "con"
        BY <2>2, <1>4, StackFacts DEF PropConst
      <4>2. e \in Fanouts(net, Top.n)
        BY <4>1 DEF CallFrames
      <4> QED BY <4>2, EdgeFacts DEF Fanouts, Con
    <3>4. con'[e[1]] = o /\ \A n \in Nodes(net) : n # e[1] => con'[n] = con[n]
      BY <3>1, <3>3, EngineFacts
    <3> QED BY <2>4, <2>5, <2>9, <3>2, <3>3, <3>4 DEF ConsMarked
  <2> QED BY <2>8, <2>9
<1>5. CASE ConstEnd
  <2>1. agenda # <<>> /\ agenda' = Callers /\ con' = con
    BY <1>5 DEF ConstEnd
  <2> QED BY <2>1, AgendaCalls DEF ConsMarked
<1>6. CASE (\E n \in Nodes(net), v \in Bit, d \in Literals(net) : SetIndImp(n, v, d)) \/ UNCHANGED vars
  <2>1. agenda' = agenda /\ con' = con
    BY <1>6 DEF SetIndImp, vars
  <2> QED BY <2>1 DEF ConsMarked
<1>7. CASE BwdProp \/ FanoutStep \/ FanoutEnd \/ IndStep \/ IndEnd
  <2>1. mark' # <<>>
    BY <1>7, TopFacts DEF BwdProp, FanoutStep, FanoutEnd, IndStep, IndEnd
  <2> QED BY <2>1, <1>1
<1>8. CASE \E n \in Nodes(net), v \in Bit, r \in BOOLEAN : Assert(n, v, r)
  <2>1. PICK n, v, r : Assert(n, v, r)
    BY <1>8
  <2>2. mark' = Append(mark, Len(chg)) /\ mark \in Seq(Nat) /\ Len(chg) \in Nat
    BY <2>1, IdleFacts DEF Assert, IInv, TypeInv
  <2> QED BY <2>2, <1>1, FirstAppended
<1> QED BY <1>2, <1>3, <1>4, <1>5, <1>6, <1>7, <1>8 DEF Next, Propagate, Call

LEMMA OutsideKeeps ==
  ASSUME IInv, IInv', BaseInv, BaseInv', CompInv, mark = <<>>, mark' = <<>>, result' = result,
         (PinsKnown /\ ZerosKnown) => (PinsKnown' /\ ZerosKnown')
  PROVE  CompInv'
<1>1. PinsKnown /\ ZerosKnown /\ result = "none"
  BY OutsideOrder
<1>2. CompInv' <=> PinsKnown' /\ ZerosKnown' /\ result' = "none"
  BY OutsideOrderNext
<1> QED BY <1>1, <1>2

\* What prop_const does to a state whose output is 0 only beside a 0.
LEMMA ConstPins ==
  ASSUME NEW s \in AndStates, NEW p \in Pin, NEW v \in Bit, ~ConstAbort(s, p, v),
         s[Out] = 0 => s[1] = 0 \/ s[2] = 0
  PROVE  LET t == ConstState(s, p, v)
         IN  /\ \A q \in Pin : t[q] # X => s[q] # X \/ q = p
             /\ t[Out] = 0 => t[1] = 0 \/ t[2] = 0
<1>1. CASE p = 1
  BY <1>1 DEF AndStates, States, V3, X, Out, Bit, Pin, ConstAbort, ConstState, FwdState, Other
<1>2. CASE p = 2
  BY <1>2 DEF AndStates, States, V3, X, Out, Bit, Pin, ConstAbort, ConstState, FwdState, Other
<1> QED BY <1>1, <1>2 DEF Pin

LEMMA PropConstKeeps ==
  ASSUME IInv, IInv', BaseInv, BaseInv', CompInv, ConsMarked, PropConst
  PROVE  CompInv'
<1>1. /\ agenda # <<>> /\ Top.op = "con" /\ UNCHANGED <<net, chg, mark, result>>
  BY DEF PropConst
<1>2. PICK e \in Top.todo :
        LET w == Flip(Top.v, net.inv[e[1]][e[2]])
            o == ConstOut(st[e[1]], e[2], w)
        IN  \/ aborted' = TRUE
            \/ /\ ~ConstAbort(st[e[1]], e[2], w)
               /\ st' = [st EXCEPT ![e[1]] = ConstState(st[e[1]], e[2], w)]
               /\ con' = IF o = X THEN con ELSE [con EXCEPT ![e[1]] = o]
  BY DEF PropConst
<1>3. PICK d, p : d = e[1] /\ p = e[2]
  OBVIOUS
<1>4. PICK w : w = Flip(Top.v, net.inv[d][p])
  OBVIOUS
<1>5. PICK t, o : t = ConstState(st[d], p, w) /\ o = ConstOut(st[d], p, w)
  OBVIOUS
<1>6. /\ d \in Ands(net) /\ p \in Pin /\ net.src[d][p] = Top.n
      /\ Top.n \in Nodes(net) /\ Top.v \in Bit /\ mark = <<>> /\ dec = <<>>
  <2>1. Top \in Frames /\ Top.todo \subseteq Fanouts(net, Top.n) /\ dec = <<>>
    BY <1>1, StackFacts DEF CallFrames
  <2> QED BY <1>2, <1>3, <2>1, EngineFacts DEF Fanouts, Frames
<1>7. d \in Nodes(net) /\ w \in Bit /\ st[d] \in AndStates
  BY <1>4, <1>6, EdgeFacts, FlipBit
<1>8. /\ ~ConstAbort(st[d], p, w) /\ st' = [st EXCEPT ![d] = t]
      /\ con' = IF o = X THEN con ELSE [con EXCEPT ![d] = o]
  BY <1>2, <1>3, <1>4, <1>5 DEF IInv, NoAbort
<1>9. /\ st'[d] = t /\ \A n \in Nodes(net) : n # d => st'[n] = st[n]
      /\ \A n \in Nodes(net) : con[n] # X => con'[n] # X
  BY <1>7, <1>8, EngineFacts
<1>10. con'[Top.n] # X
  BY <1>1, <1>6, <1>9, AgendaCalls DEF ConsMarked
<1>11. ASSUME PinsKnown, ZerosKnown
       PROVE  PinsKnown' /\ ZerosKnown'
  <2>1. st[d][Out] = 0 => st[d][1] = 0 \/ st[d][2] = 0
    BY <1>6, <1>11 DEF ZerosKnown, Pin
  <2>2. /\ \A q \in Pin : t[q] # X => st[d][q] # X \/ q = p
        /\ t[Out] = 0 => t[1] = 0 \/ t[2] = 0
    BY <1>5, <1>6, <1>7, <1>8, <2>1, ConstPins
  <2>3. ASSUME NEW n \in Ands(net), NEW q \in Pin, st'[n][q] # X
        PROVE  con'[net.src[n][q]] # X
    <3>1. net.src[n][q] \in Nodes(net) /\ n \in Nodes(net)
      BY EdgeFacts
    <3>2. CASE n = d /\ q = p
      BY <3>2, <1>6, <1>10
    <3>3. CASE ~(n = d /\ q = p)
      <4>1. st[n][q] # X
        BY <2>2, <2>3, <3>1, <3>3, <1>9
      <4> QED BY <4>1, <3>1, <1>9, <1>11 DEF PinsKnown
    <3> QED BY <3>2, <3>3
  <2>4. ASSUME NEW n \in Ands(net), st'[n][Out] = 0
        PROVE  \E q \in Pin : st'[n][q] = 0
    <3>1. n \in Nodes(net) /\ 1 \in Pin /\ 2 \in Pin
      BY EngineFacts, CircuitFacts DEF Pin
    <3>2. CASE n = d
      BY <3>1, <3>2, <2>2, <2>4, <1>9
    <3>3. CASE n # d
      BY <3>1, <3>3, <2>4, <1>9, <1>11 DEF ZerosKnown
    <3> QED BY <3>2, <3>3
  <2> QED BY <1>1, <2>3, <2>4 DEF PinsKnown, ZerosKnown
<1> QED BY <1>1, <1>6, <1>11, OutsideKeeps

LEMMA SetConstKeeps ==
  ASSUME IInv, IInv', BaseInv, BaseInv', CompInv, NEW n \in Nodes(net), NEW v \in Bit, SetConst(n, v)
  PROVE  CompInv'
<1>1. mark = <<>> /\ con' = [con EXCEPT ![n] = v] /\ UNCHANGED <<net, st, mark, result>>
  BY DEF SetConst, ConstCall
<1>2. \A m \in Nodes(net) : con[m] # X => con'[m] # X
  BY <1>1, EngineFacts DEF Bit, X
<1>3. \A m \in Ands(net), p \in Pin : net.src[m][p] \in Nodes(net)
  BY EdgeFacts
<1>4. PinsKnown => PinsKnown'
  BY <1>1, <1>2, <1>3 DEF PinsKnown
<1>5. ZerosKnown => ZerosKnown'
  BY <1>1 DEF ZerosKnown
<1> QED BY <1>1, <1>4, <1>5, OutsideKeeps

LEMMA ConstEndKeeps ==
  ASSUME IInv, IInv', BaseInv, BaseInv', CompInv, ConstEnd
  PROVE  CompInv'
<1>1. agenda # <<>> /\ Top.op = "con" /\ UNCHANGED <<net, st, con, mark, result>>
  BY DEF ConstEnd
<1>2. mark = <<>>
  BY <1>1, StackFacts, EngineFacts DEF CallFrames
<1>3. (PinsKnown /\ ZerosKnown) => (PinsKnown' /\ ZerosKnown')
  BY <1>1 DEF PinsKnown, ZerosKnown
<1> QED BY <1>1, <1>2, <1>3, OutsideKeeps

LEMMA QuietKeeps ==
  ASSUME CompInv, UNCHANGED <<net, st, chg, mark, con, agenda, result, swallowed>>
  PROVE  CompInv'
<1>1. Base' = Base
  BY DEF Base, RestoredTo
<1> QED BY <1>1 DEF CompInv

FullInv == IInv /\ BaseInv /\ CompInv /\ ConsMarked

LEMMA StepKeepsFull ==
  ASSUME FullInv, [Next]_vars
  PROVE  FullInv'
<1>0. IInv /\ BaseInv /\ CompInv /\ ConsMarked
  BY DEF FullInv
<1>1. IInv' /\ BaseInv' /\ ConsMarked'
  BY <1>0, StepKeepsBase, ConsKept
<1>2. CompInv'
  <2>1. CASE BwdProp \/ FanoutStep \/ FanoutEnd \/ IndStep \/ IndEnd
    BY <1>0, <2>1, BwdPropKeeps, FanoutStepKeeps, FanoutEndKeeps, IndStepKeeps, IndEndKeeps
  <2>2. CASE PropConst \/ ConstEnd
    BY <1>0, <1>1, <2>2, PropConstKeeps, ConstEndKeeps
  <2>3. CASE \E n \in Nodes(net), v \in Bit, r \in BOOLEAN : Assert(n, v, r)
    BY <1>0, <2>3, AssertKeeps
  <2>4. CASE Backtrack
    BY <1>0, <2>4, BacktrackKeeps
  <2>5. CASE \E n \in Nodes(net), v \in Bit : SetConst(n, v)
    BY <1>0, <1>1, <2>5, SetConstKeeps
  <2>6. CASE \E n \in Nodes(net), v \in Bit, d \in Literals(net) : SetIndImp(n, v, d)
    BY <1>0, <2>6, QuietKeeps DEF SetIndImp
  <2>7. CASE UNCHANGED vars
    BY <1>0, <2>7, QuietKeeps DEF vars
  <2> QED BY <2>1, <2>2, <2>3, <2>4, <2>5, <2>6, <2>7 DEF Next, Propagate, Call
<1> QED BY <1>1, <1>2 DEF FullInv

LEMMA StartFull ==
  ASSUME Init
  PROVE  FullInv
<1>1. IInv
  BY InitInv
<1>2. /\ mark = <<>> /\ chg = <<>> /\ agenda = <<>> /\ result = "none"
      /\ \A n \in Nodes(net) : st[n] = Clear /\ con[n] = X
  BY DEF Init
<1>3. \A n \in Nodes(net), j \in 1 .. 3 : st[n][j] = X
  BY <1>2 DEF Clear
<1>4. \A n \in Ands(net), p \in Pin : n \in Nodes(net) /\ net.src[n][p] \in Nodes(net)
                                     /\ Pin \subseteq 1 .. 3 /\ Out \in 1 .. 3
  BY <1>1, EdgeFacts
<1>5. Out \in 1 .. 3 /\ 1 \in Pin
  BY DEF Out, Pin
<1>6. BaseInv
  BY <1>2, <1>3, <1>4, <1>5 DEF BaseInv, Base
<1>7. PinsKnown
  BY <1>3, <1>4 DEF PinsKnown
<1>8. ZerosKnown
  BY <1>3, <1>4, <1>5 DEF ZerosKnown, X
<1>9. CompInv
  BY <1>1, <1>2, <1>6, <1>7, <1>8, OutsideOrder
<1>10. ConsMarked
  BY <1>2, AmongOne DEF ConsMarked
<1> QED BY <1>1, <1>6, <1>9, <1>10 DEF FullInv

\* Once no call is left, what the edges say makes every AND node closed under
\* its direct implications.
LEMMA SettledIsComplete ==
  ASSUME IInv, Settled(net, con, st, {}), NEW n \in Ands(net)
  PROVE  /\ 0 \in {KnownPin(n, 1), KnownPin(n, 2)} => Known(n) = 0
         /\ KnownPin(n, 1) = 1 /\ KnownPin(n, 2) = 1 => Known(n) = 1
         /\ OutVal(n) = 1 => KnownPin(n, 1) = 1 /\ KnownPin(n, 2) = 1
         /\ \A p \in Pin : OutVal(n) = 0 /\ KnownPin(n, p) = 1 => KnownPin(n, Other(p)) = 0
<1>1. PICK s : s = st[n] /\ s \in AndStates
  BY EdgeFacts DEF Pin
<1>2. ASSUME NEW p \in Pin
      PROVE  /\ s[p] # X => KnownPin(n, p) = s[p]
             /\ KnownPin(n, p) # X => s[p] = KnownPin(n, p) \/ (s[p] = X /\ s[Other(p)] = 0)
  <2>1. PICK m, i : m = net.src[n][p] /\ i = net.inv[n][p]
    OBVIOUS
  <2>2. EdgeDone(net, con, st, {}, n, p)
    BY DEF Settled
  <2>3. ~Telling(net, {}, n, p) /\ ~TellingConst({}, n, p) /\ \A v : ~Asking({}, m, v)
    BY DEF Telling, TellingConst, Asking
  <2>4. PICK y : y = Known(m)
    OBVIOUS
  <2>5. KnownPin(n, p) = Flip(y, i)
    BY <2>1, <2>4 DEF KnownPin
  <2>6. y = IF st[m][Out] # X THEN st[m][Out] ELSE con[m]
    BY <2>4 DEF Known, OutVal
  <2>7. y # X => s[p] = Flip(y, i) \/ (s[p] = X /\ s[Other(p)] = 0)
    BY <1>1, <2>1, <2>2, <2>3, <2>6 DEF EdgeDone, Skipped
  <2>8. s[p] # X => y # X
    BY <1>1, <2>1, <2>2, <2>3, <2>6 DEF EdgeDone
  <2>9. y = X => Flip(y, i) = X
    BY DEF Flip
  <2> QED BY <2>5, <2>7, <2>8, <2>9
<1>3. s[Out] # X => Known(n) = s[Out]
  BY <1>1 DEF Known, OutVal
<1>4. PICK a, b : a = KnownPin(n, 1) /\ b = KnownPin(n, 2)
  OBVIOUS
<1>5. /\ s[1] # X => a = s[1]
      /\ a # X => s[1] = a \/ (s[1] = X /\ s[2] = 0)
      /\ s[2] # X => b = s[2]
      /\ b # X => s[2] = b \/ (s[2] = X /\ s[1] = 0)
  BY <1>2, <1>4 DEF Pin, Other
<1>6. /\ 0 \in {a, b} => s[Out] = 0
      /\ a = 1 /\ b = 1 => s[Out] = 1
      /\ s[Out] = 1 => a = 1 /\ b = 1
      /\ s[Out] = 0 /\ a = 1 => b = 0
      /\ s[Out] = 0 /\ b = 1 => a = 0
  BY <1>1, <1>5 DEF AndStates, States, V3, X, Out
<1> QED BY <1>1, <1>3, <1>4, <1>6 DEF OutVal, Pin, Other, X
------------------------------------------------------------------------------
(***************************************************************************)
(* ImpMgr::assert: when it has returned true and bwd_prop and fanout_prop  *)
(* threw no conflict of an indirect implication away, every AND node is    *)
(* closed under its direct implications, constants included.               *)
(***************************************************************************)
THEOREM Completeness == Spec => []Complete
<1>1. Init => FullInv
  BY StartFull
<1>2. FullInv /\ [Next]_vars => FullInv'
  BY StepKeepsFull
<1>3. FullInv => Complete
  <2> SUFFICES ASSUME FullInv, result = "true", swallowed = 0, NEW n \in Ands(net)
               PROVE  /\ 0 \in {KnownPin(n, 1), KnownPin(n, 2)} => Known(n) = 0
                      /\ KnownPin(n, 1) = 1 /\ KnownPin(n, 2) = 1 => Known(n) = 1
                      /\ OutVal(n) = 1 => KnownPin(n, 1) = 1 /\ KnownPin(n, 2) = 1
                      /\ \A p \in Pin : OutVal(n) = 0 /\ KnownPin(n, p) = 1
                                            => KnownPin(n, Other(p)) = 0
    BY DEF Complete
  <2>1. agenda = <<>>
    BY DEF FullInv, CompInv
  <2>2. Settled(net, con, st, {})
    BY <2>1, AmongOne DEF FullInv, CompInv, InOrder
  <2> QED BY <2>2, SettledIsComplete DEF FullInv
<1> QED BY <1>1, <1>2, <1>3, PTL DEF Spec

------------------------------------------------------------------------------
(***************************************************************************)
(* The learners.                                                           *)
(***************************************************************************)
Learners   == {"str", "const", "contra", "rl"} \cup NaJobs
WithoutSat == Pipelines \subseteq Seq(Learners)

------------------------------------------------------------------------------
(***************************************************************************)
(* The inductive invariant, on top of the engine's IInv and BaseInv: what  *)
(* the engine has done outside every level is what the learners rely on    *)
(* between two asserts.                                                    *)
(***************************************************************************)

\* Where the learners are: between two asserts no level is open, during one
\* it is the only one, and the literal it refuted is the current one.
Passing == {"forward", "backward", "contra", "build"}
Asserts == {"run", "finalrun"}
Consts  == {"const", "finalconst"}

ControlInv ==
  /\ jobs \in Seq(Learners)
  /\ pc \in {"loop", "final"} \cup Passing \cup Asserts \cup Consts
  /\ jobs # <<>> /\ Job \notin NaJobs => pc \in {"loop", "run", "const"}
  /\ cur \in 0 .. (2 * net.nn)
  /\ pc \notin Asserts => mark = <<>>
  /\ pc \in Passing \cup Consts => agenda = <<>>
  /\ pc \in Asserts => /\ cur < 2 * net.nn /\ dec = << <<Id, Val>> >>
                       /\ agenda = <<>> => result # "none"
  /\ pc \in Consts => cur < 2 * net.nn /\ <<Id, Val>> \in refuted

PassInv ==
  /\ pc = "forward" => work \subseteq ForwardWork
  /\ \A e \in edges : e[1] \in Ands(net) /\ e[2] \in Pin /\ e[3] \in Bit

\* What has been learned, as implications and as conditions.
ListTypes ==
  /\ info  \in [Nodes(net) -> [Bit -> SUBSET Literals(net)]]
  /\ lists \in [Nodes(net) -> [Bit -> SUBSET Literals(net)]]

InfoHolds(f) == \A n \in Nodes(net), v \in Bit : \A d \in info[n][v] : f[n] = v => Holds(f, d)
ListsHold(f) == \A n \in Nodes(net), v \in Bit : \A d \in lists[n][v] : Holds(f, d) => f[n] = v

FactsInv == \A f \in Consistent(net) : InfoHolds(f) /\ ListsHold(f)

LearnInv == /\ IInv /\ BaseInv
            /\ ControlInv /\ PassInv /\ ListTypes /\ FactsInv /\ ContraClosed
------------------------------------------------------------------------------
(***************************************************************************)
(* AND nodes the engine at rest leaves without a value.                    *)
(***************************************************************************)
LEMMA FreeState ==
  ASSUME NEW s \in AndStates, s[Out] = X, NEW p \in Pin, NEW c \in Bit,
         s[p] = c \/ (s[p] = X /\ s[Other(p)] = 0)
  PROVE  c = 1 /\ s[p] = 1 /\ s[Other(p)] = X /\ Other(p) \in Pin /\ Other(Other(p)) = p
<1>1. CASE p = 1
  BY <1>1 DEF AndStates, States, V3, X, Out, Bit, Pin, Other
<1>2. CASE p = 2
  BY <1>2 DEF AndStates, States, V3, X, Out, Bit, Pin, Other
<1> QED BY <1>1, <1>2 DEF Pin

\* A node that is not constant has at most one constant fanin, and its pin is 1:
\* the assertion of NaImp's forward pass holds.
LEMMA FreeNode ==
  ASSUME IInv, BaseInv, mark = <<>>, agenda = <<>>,
         NEW n \in Ands(net), con[n] = X, NEW p \in Pin, con[net.src[n][p]] # X
  PROVE  /\ Flip(con[net.src[n][p]], net.inv[n][p]) = 1
         /\ con[net.src[n][Other(p)]] = X
<1>1. \A q \in Pin : net.src[n][q] \in Nodes(net) /\ net.inv[n][q] \in Bit
  BY EngineFacts, CircuitFacts
<1>2. ASSUME NEW q \in Pin, con[net.src[n][q]] # X
      PROVE  Flip(con[net.src[n][q]], net.inv[n][q]) \in Bit
  BY <1>1, <1>2, EngineFacts, ConstValue, FlipBit
<1>3. n \in Nodes(net) /\ st[n] \in AndStates /\ st[n][Out] = X
  BY EngineFacts, CircuitFacts, AtRest
<1>4. ASSUME NEW q \in Pin, con[net.src[n][q]] # X
      PROVE  /\ Flip(con[net.src[n][q]], net.inv[n][q]) = 1
             /\ st[n][q] = 1 /\ st[n][Other(q)] = X /\ Other(q) \in Pin /\ Other(Other(q)) = q
  <2> DEFINE c == Flip(con[net.src[n][q]], net.inv[n][q])
  <2>1. st[n][q] = c \/ (st[n][q] = X /\ st[n][Other(q)] = 0)
    BY <1>4, AtRest DEF Told
  <2>2. c \in Bit
    BY <1>2, <1>4
  <2> HIDE DEF c
  <2>3. c = 1 /\ st[n][q] = 1 /\ st[n][Other(q)] = X /\ Other(q) \in Pin /\ Other(Other(q)) = q
    BY <1>3, <2>1, <2>2, FreeState
  <2> QED BY <2>3 DEF c
<1>5. Flip(con[net.src[n][p]], net.inv[n][p]) = 1 /\ st[n][Other(p)] = X
      /\ Other(p) \in Pin
  BY <1>4
<1>6. CASE con[net.src[n][Other(p)]] # X
  <2>1. st[n][Other(p)] = 1
    BY <1>4, <1>5, <1>6
  <2> QED BY <1>5, <2>1 DEF X
<1> QED BY <1>5, <1>6

\* The literal of the loop, and where the loop goes.
LEMMA LoopFacts ==
  ASSUME IInv, ControlInv, cur < 2 * net.nn
  PROVE  /\ Id \in Nodes(net) /\ Val \in Bit /\ <<Id, Val>> \in Literals(net)
         /\ 1 - Val \in Bit /\ 1 - (1 - Val) = Val
         /\ cur + 1 \in 0 .. (2 * net.nn) /\ 2 * (Id + 1) \in 0 .. (2 * net.nn)
         /\ Val = 0 => cur + 2 \in 0 .. (2 * net.nn)
<1>1. net.nn \in Nat /\ cur \in Nat /\ cur < 2 * net.nn
  BY EngineFacts DEF IsCircuit, ControlInv
<1>2. ASSUME NEW m \in Nat, NEW c \in Nat, c < 2 * m
      PROVE  /\ c \div 2 \in 0 .. (m - 1) /\ c % 2 \in {0, 1}
             /\ c + 1 \in 0 .. (2 * m) /\ 2 * (c \div 2 + 1) \in 0 .. (2 * m)
             /\ c % 2 = 0 => c + 2 \in 0 .. (2 * m)
  <2>1. c = 2 * (c \div 2) + (c % 2) /\ c % 2 \in 0 .. 1 /\ c \div 2 \in Int
    BY <1>2
  <2>2. PICK k \in Int, r \in 0 .. 1 : k = c \div 2 /\ r = c % 2 /\ c = 2 * k + r
    BY <2>1
  <2> QED BY <1>2, <2>2
<1>3. Id \in Nodes(net) /\ Val \in Bit
  BY <1>1, <1>2 DEF Id, Val, Nodes, Bit
<1>4. 1 - Val \in Bit /\ 1 - (1 - Val) = Val
  BY <1>3 DEF Bit
<1> QED BY <1>1, <1>2, <1>3, <1>4 DEF Id, Val, Literals

\* Implications that hold in every assignment may be handed over at rest.
LEMMA ImplStep ==
  ASSUME IInv, agenda = <<>>,
         impl' \in [Nodes(net) -> [Bit -> SUBSET Literals(net)]],
         \A f \in Consistent(net), n \in Nodes(net), v \in Bit : \A d \in impl'[n][v] :
            f[n] = v => Holds(f, d),
         UNCHANGED <<net, st, chg, mark, con, agenda, recording, recs, result, dec,
                     swallowed, refuted, aborted>>
  PROVE  IInv'
<1>1. TypeInv'
  BY DEF IInv, TypeInv, Changes, StateSet
<1>2. MarksOrdered'
  BY DEF IInv, MarksOrdered
<1>3. CallsInv'
  BY DEF CallsInv
<1>4. LiteralsInv'
  BY DEF IInv, LiteralsInv
<1>5. ModelsInv'
  <2>1. \A f, k : Satisfies(f, k)' <=> Satisfies(f, k)
    BY DEF Satisfies
  <2>2. \A f, k : /\ Agrees(st, f)' <=> Agrees(st, f)
                  /\ Agrees(Restored(st, chg, mark[k]), f)'
                       <=> Agrees(Restored(st, chg, mark[k]), f)
    BY DEF Agrees
  <2>3. \A f : agenda' \in Seq(TrueFrames(f)')
    OBVIOUS
  <2> QED BY <2>1, <2>2, <2>3 DEF IInv, ModelsInv, Satisfies
<1>6. RecordSound' /\ NoAbort'
  BY DEF IInv, RecordSound, NoAbort, Models
<1> QED BY <1>1, <1>2, <1>3, <1>4, <1>5, <1>6 DEF IInv
------------------------------------------------------------------------------
(***************************************************************************)
(* The steps of the learners other than SatImp.                            *)
(***************************************************************************)
OtherSteps == LSkip \/ LAssert \/ LBacktrack \/ LSetConst \/ LNextJob

LEMMA JobFacts ==
  ASSUME ControlInv, jobs # <<>>
  PROVE  Job \in Learners /\ Job # "sat" /\ Tail(jobs) \in Seq(Learners)
<1>1. Job \in Learners /\ Tail(jobs) \in Seq(Learners)
  BY HeadTailProperties DEF ControlInv, Job
<1> QED BY <1>1 DEF Learners, NaJobs

LEMMA LearnSteps ==
  ASSUME ControlInv, NNext
  PROVE  \/ LPropagate /\ UNCHANGED nvars
         \/ /\ jobs # <<>> /\ Job \notin NaJobs /\ pc \in {"loop", "run", "const"}
            /\ OtherSteps /\ UNCHANGED nvars
         \/ jobs # <<>> /\ Job \in NaJobs /\ NaSteps
<1>1. CASE NaSteps
  BY <1>1 DEF NaSteps, NAssert, NBacktrack, NSetConst, NCollect, NForward, NTurn, NReset, NBackward,
              NRound, NContra, NBuild, NFinalSkip, NFinalAssert, NFinalBacktrack, NNextJob, Running
<1>2. CASE jobs # <<>> /\ Job \notin NaJobs /\ LNext /\ UNCHANGED nvars
  <2>1. Job # "sat" /\ pc \in {"loop", "run", "const"}
    BY <1>2, JobFacts DEF ControlInv
  <2>2. ~LProve /\ ~LFinalConst /\ ~LFinalBacktrack
    BY <2>1 DEF LProve, LFinalConst, LFinalBacktrack
  <2> QED BY <1>2, <2>1, <2>2 DEF LNext, OtherSteps
<1> QED BY <1>1, <1>2 DEF NNext

\* An assert that has come to its end returns a value.
LEMMA AssertReturns ==
  ASSUME IInv, dec # <<>>, Propagate
  PROVE  /\ UNCHANGED <<net, mark, dec, refuted>>
         /\ agenda' = <<>> => result' # "none"
<1>1. agenda # <<>> /\ Top.op # "con"
  <2>1. agenda # <<>>
    BY DEF Propagate, BwdProp, FanoutStep, FanoutEnd, IndStep, IndEnd, PropConst, ConstEnd
  <2> QED BY <2>1, StackFacts DEF CallFrames
<1>2. BwdProp \/ FanoutStep \/ FanoutEnd \/ IndStep \/ IndEnd
  BY <1>1 DEF Propagate, PropConst, ConstEnd
<1>3. UNCHANGED <<net, mark, dec, refuted>>
  BY <1>2 DEF BwdProp, FanoutStep, FanoutEnd, IndStep, IndEnd
<1>4. Conflict => (agenda' = <<>> => result' # "none")
  BY DEF Conflict
<1>5. \A calls : Continue(calls) => (agenda' = <<>> => result' # "none")
  BY DEF Continue
<1>6. Conflict \/ \E calls : Continue(calls)
  BY <1>2 DEF BwdProp, FanoutStep, FanoutEnd, IndStep, IndEnd
<1> QED BY <1>3, <1>4, <1>5, <1>6

\* Each step is one of the engine or, for NBuild, hands over implications.
LEMMA EngineSide ==
  ASSUME LearnInv, NNext
  PROVE  [Next]_vars \/ NBuild
<1> USE DEF LearnInv
<1>1. \A n \in Nodes(net), v \in Bit, r \in BOOLEAN : Assert(n, v, r) => Next
  BY DEF Next, Call
<1>2. Backtrack => Next
  BY DEF Next, Call
<1>3. pc \in Consts /\ ConstCall(Id, 1 - Val) => Next
  <2> SUFFICES ASSUME pc \in Consts, ConstCall(Id, 1 - Val) PROVE Next
    OBVIOUS
  <2>1. cur < 2 * net.nn /\ <<Id, Val>> \in refuted /\ mark = <<>>
    BY DEF ControlInv, Consts, Asserts
  <2>2. Id \in Nodes(net) /\ 1 - Val \in Bit /\ 1 - (1 - Val) = Val
    BY <2>1, LoopFacts
  <2>3. SetConst(Id, 1 - Val)
    BY <2>1, <2>2 DEF SetConst
  <2> QED BY <2>2, <2>3 DEF Next, Call
<1>4. cur < 2 * net.nn => Id \in Nodes(net) /\ Val \in Bit
  BY LoopFacts
<1>5. CASE LPropagate
  BY <1>5 DEF LPropagate, Next
<1>6. CASE pc \in {"loop", "run", "const"} /\ OtherSteps
  <2>1. CASE LSkip \/ LNextJob
    BY <2>1 DEF LSkip, LNextJob
  <2>2. CASE LAssert
    <3>1. Assert(Id, Val, TRUE) \/ Assert(Id, Val, FALSE)
      <4>1. (pc = "loop" /\ Job # "const") \in BOOLEAN
        OBVIOUS
      <4>2. CASE pc = "loop" /\ Job # "const"
        BY <2>2, <4>2 DEF LAssert, Assert
      <4>3. CASE ~(pc = "loop" /\ Job # "const")
        BY <2>2, <4>3 DEF LAssert, Assert
      <4> QED BY <4>2, <4>3
    <3> QED BY <1>1, <1>4, <2>2, <3>1 DEF LAssert, More
  <2>3. CASE LBacktrack
    BY <1>2, <2>3 DEF LBacktrack
  <2>4. CASE LSetConst
    BY <1>3, <2>4 DEF LSetConst, Consts
  <2> QED BY <1>6, <2>1, <2>2, <2>3, <2>4 DEF OtherSteps
<1>7. CASE NaSteps
  <2>1. CASE NAssert
    BY <1>1, <1>4, <2>1 DEF NAssert, More
  <2>2. CASE NBacktrack
    BY <1>2, <2>2 DEF NBacktrack
  <2>3. CASE NSetConst
    BY <1>3, <2>3 DEF NSetConst, Running, Consts
  <2>4. CASE NForward
    <3>1. PICK lit \in work :
            LET n == lit[1]
            IN  (con[net.src[n][1]] = X \/ con[net.src[n][2]] = X) => UNCHANGED aborted
      BY <2>4 DEF NForward
    <3>2. /\ UNCHANGED <<net, st, chg, mark, con, impl, agenda, recording, recs, result,
                         dec, swallowed, refuted>>
          /\ pc = "forward" /\ mark = <<>> /\ agenda = <<>> /\ work \subseteq ForwardWork
      BY <2>4 DEF NForward, Running, ControlInv, PassInv, Passing, Asserts
    <3>3. lit[1] \in Ands(net) /\ con[lit[1]] = X
      BY <3>1, <3>2 DEF ForwardWork
    <3>4. con[net.src[lit[1]][1]] = X \/ con[net.src[lit[1]][Other(1)]] = X
      BY <3>2, <3>3, FreeNode DEF Pin
    <3>5. UNCHANGED aborted
      BY <3>1, <3>4 DEF Other
    <3> QED BY <3>2, <3>5 DEF vars
  <2>5. CASE NCollect \/ NTurn \/ NReset \/ NBackward \/ NRound \/ NContra \/ NFinalSkip \/ NNextJob
    BY <2>5 DEF NCollect, NTurn, NReset, NBackward, NRound, NContra, NFinalSkip, NNextJob
  <2>6. CASE NFinalAssert
    BY <1>1, <1>4, <2>6 DEF NFinalAssert, More
  <2>7. CASE NFinalBacktrack
    BY <1>2, <2>7 DEF NFinalBacktrack
  <2> QED BY <1>7, <2>1, <2>2, <2>3, <2>4, <2>5, <2>6, <2>7 DEF NaSteps
<1> QED BY <1>5, <1>6, <1>7, LearnSteps

\* What the end of the only level leaves behind.
LEMMA LevelEnds ==
  ASSUME IInv, ControlInv, pc \in Asserts, Backtrack
  PROVE  /\ mark' = <<>> /\ agenda' = <<>> /\ agenda = <<>> /\ net' = net
         /\ result \in {"true", "false"}
         /\ result = "false" => <<Id, Val>> \in refuted'
<1>1. /\ dec = << <<Id, Val>> >> /\ agenda = <<>> /\ agenda' = <<>> /\ net' = net
      /\ result # "none" /\ mark # <<>>
      /\ mark' = SubSeq(mark, 1, Len(mark) - 1)
      /\ refuted' = IF result = "false" /\ Len(dec) = 1 THEN {dec[1]} ELSE {}
  BY DEF Backtrack, Idle, ControlInv
<1>2. Len(dec) = 1 /\ dec[1] = <<Id, Val>>
  BY <1>1
<1>3. Len(mark) = 1 /\ mark \in Seq(Nat)
  BY <1>2, IdleFacts DEF IInv, TypeInv
<1>4. mark' = <<>>
  BY <1>1, <1>3
<1>5. result \in {"true", "false"}
  BY <1>1 DEF IInv, TypeInv
<1> QED BY <1>1, <1>2, <1>4, <1>5

LEMMA LevelStarts ==
  ASSUME IInv, mark = <<>>, NEW n, NEW v, NEW r, Assert(n, v, r)
  PROVE  dec' = << <<n, v>> >> /\ agenda' # <<>> /\ net' = net
<1>1. dec = <<>> /\ dec' = Append(dec, <<n, v>>) /\ agenda' = <<Bwd(n, v, NoNode)>> /\ net' = net
  BY EngineFacts DEF Assert
<1> QED BY <1>1

LEMMA ControlKept ==
  ASSUME LearnInv, NNext
  PROVE  ControlInv'
<1> USE DEF LearnInv
<1>1. /\ jobs \in Seq(Learners) /\ cur \in 0 .. (2 * net.nn)
      /\ pc \in {"loop", "final"} \cup Passing \cup Asserts \cup Consts
      /\ pc \notin Asserts => mark = <<>>
      /\ net.nn \in Nat
  BY EngineFacts DEF ControlInv, IsCircuit
<1>2. CASE LPropagate /\ UNCHANGED nvars
  <2>1. Propagate /\ UNCHANGED <<jobs, pc, cur, info>>
    BY <1>2 DEF LPropagate
  <2>2. agenda # <<>>
    BY <2>1 DEF Propagate, BwdProp, FanoutStep, FanoutEnd, IndStep, IndEnd, PropConst, ConstEnd
  <2>3. net' = net /\ mark' = mark
    BY <2>1 DEF Propagate, BwdProp, FanoutStep, FanoutEnd, IndStep, IndEnd, PropConst, ConstEnd
  <2>4. pc \notin Passing \cup Consts
    BY <2>2 DEF ControlInv
  <2>5. pc \in Asserts => dec' = dec /\ (agenda' = <<>> => result' # "none")
    <3> SUFFICES ASSUME pc \in Asserts PROVE dec' = dec /\ (agenda' = <<>> => result' # "none")
      OBVIOUS
    <3>1. dec = << <<Id, Val>> >>
      BY DEF ControlInv
    <3>2. Len(dec) = 1 /\ Len(<<>>) = 0
      BY <3>1
    <3> QED BY <2>1, <3>2, AssertReturns
  <2> QED BY <2>1, <2>3, <2>4, <2>5 DEF ControlInv, Job, Id, Val
<1>3. CASE /\ jobs # <<>> /\ Job \notin NaJobs /\ pc \in {"loop", "run", "const"}
           /\ OtherSteps /\ UNCHANGED nvars
  <2>0. pc \notin Passing /\ (pc # "run" => mark = <<>>)
    BY <1>1, <1>3 DEF Passing, Asserts
  <2>1. CASE LSkip
    <3>1. UNCHANGED <<vars, jobs, pc>> /\ cur' = cur + 2 /\ pc \in {"loop", "final"} /\ cur < 2 * net.nn
          /\ Val = 0 /\ mark = <<>>
      BY <2>1 DEF LSkip, More, Skips
    <3>2. cur + 2 \in 0 .. (2 * net.nn)
      BY <3>1, LoopFacts
    <3> QED BY <3>1, <3>2 DEF ControlInv, Job, vars, Asserts, Consts, Passing
  <2>2. CASE LAssert
    <3>1. PICK r : Assert(Id, Val, r)
      BY <2>2 DEF LAssert
    <3>2. pc = "loop" /\ pc' = "run" /\ UNCHANGED <<jobs, cur>> /\ cur < 2 * net.nn /\ mark = <<>>
      BY <1>3, <2>2 DEF LAssert, More
    <3>3. dec' = << <<Id, Val>> >> /\ agenda' # <<>> /\ net' = net
      BY <3>1, <3>2, LevelStarts
    <3> QED BY <1>1, <3>2, <3>3 DEF ControlInv, Job, Id, Val, Asserts, Consts, Passing
  <2>3. CASE LBacktrack
    <3>1. pc = "run" /\ Backtrack /\ jobs' = jobs /\ pc \in Asserts /\ cur < 2 * net.nn
          /\ IF result = "false" THEN pc' = "const" /\ cur' = cur ELSE pc' = "loop" /\ cur' = cur + 1
      BY <2>3 DEF LBacktrack, ControlInv, Asserts
    <3>2. mark' = <<>> /\ agenda' = <<>> /\ (result = "false" => <<Id, Val>> \in refuted') /\ net' = net
      BY <3>1, LevelEnds
    <3>3. cur + 1 \in 0 .. (2 * net.nn)
      BY <3>1, LoopFacts
    <3> QED BY <1>1, <3>1, <3>2, <3>3 DEF ControlInv, Job, Id, Val, Asserts, Consts, Passing
  <2>4. CASE LSetConst
    <3>1. pc = "const" /\ pc' = "loop" /\ cur' = cur + 1 /\ UNCHANGED <<net, mark, jobs>>
      BY <2>4 DEF LSetConst, ConstCall
    <3>2. cur + 1 \in 0 .. (2 * net.nn)
      BY <3>1, LoopFacts DEF ControlInv, Consts
    <3> QED BY <1>1, <2>0, <3>1, <3>2 DEF ControlInv, Job, Asserts, Consts, Passing
  <2>5. CASE LNextJob
    <3>1. jobs' = Tail(jobs) /\ pc' = "loop" /\ cur' = 0 /\ UNCHANGED vars /\ agenda = <<>> /\ pc = "loop"
      BY <1>3, <2>5, JobFacts DEF LNextJob, Idle
    <3>2. jobs' \in Seq(Learners)
      BY <1>3, <3>1, JobFacts
    <3> QED BY <1>1, <2>0, <3>1, <3>2 DEF ControlInv, vars, Asserts, Consts, Passing
  <2> QED BY <1>3, <2>1, <2>2, <2>3, <2>4, <2>5 DEF OtherSteps
<1>4. CASE jobs # <<>> /\ Job \in NaJobs /\ NaSteps
  <2>1. CASE NAssert
    <3>1. Assert(Id, Val, TRUE) /\ pc = "loop" /\ pc' = "run" /\ UNCHANGED <<jobs, cur>>
          /\ cur < 2 * net.nn /\ mark = <<>>
      BY <2>1 DEF NAssert, More, Running
    <3>2. dec' = << <<Id, Val>> >> /\ agenda' # <<>> /\ net' = net
      BY <3>1, LevelStarts
    <3> QED BY <1>1, <3>1, <3>2 DEF ControlInv, Job, Id, Val, Asserts, Consts, Passing
  <2>2. CASE NBacktrack \/ NFinalBacktrack
    <3>1. /\ pc \in Asserts /\ Backtrack /\ jobs' = jobs /\ cur < 2 * net.nn
          /\ IF result = "false" THEN pc' \in Consts /\ cur' = cur
                                 ELSE pc' \in {"loop", "final"} /\ cur' = cur + 1
      BY <2>2 DEF NBacktrack, NFinalBacktrack, Running, ControlInv, Asserts, Consts
    <3>2. mark' = <<>> /\ agenda' = <<>> /\ (result = "false" => <<Id, Val>> \in refuted') /\ net' = net
      BY <3>1, LevelEnds
    <3>3. cur + 1 \in 0 .. (2 * net.nn)
      BY <3>1, LoopFacts
    <3> QED BY <1>1, <1>4, <3>1, <3>2, <3>3 DEF ControlInv, Job, Id, Val, Asserts, Consts, Passing
  <2>3. CASE NSetConst
    <3>1. pc \in Consts /\ pc' \in {"loop", "final"} /\ cur' = 2 * (Id + 1) /\ UNCHANGED <<net, mark, jobs>>
      BY <2>3 DEF NSetConst, ConstCall, Running, Consts
    <3>2. 2 * (Id + 1) \in 0 .. (2 * net.nn) /\ mark = <<>>
      BY <3>1, LoopFacts DEF ControlInv, Consts, Asserts
    <3> QED BY <1>1, <1>4, <3>1, <3>2 DEF ControlInv, Job, Asserts, Consts, Passing
  <2>4. CASE NCollect
    BY <1>1, <1>4, <2>4 DEF NCollect, ControlInv, Running, Idle, Job, vars, Asserts, Consts, Passing
  <2>5. CASE NForward
    BY <1>1, <1>4, <2>5 DEF NForward, ControlInv, Running, Job, Asserts, Consts, Passing
  <2>6. CASE NTurn \/ NReset \/ NBackward \/ NRound \/ NContra
    BY <1>1, <1>4, <2>6 DEF NTurn, NReset, NBackward, NRound, NContra, ControlInv, Running, Job, vars,
                            Asserts, Consts, Passing
  <2>7. CASE NBuild
    BY <1>1, <1>4, <2>7 DEF NBuild, ControlInv, Running, Job, Asserts, Consts, Passing
  <2>8. CASE NFinalSkip
    <3>1. UNCHANGED <<vars, jobs, pc>> /\ cur' = cur + 2 /\ pc = "final" /\ cur < 2 * net.nn /\ Val = 0
      BY <2>8 DEF NFinalSkip, More, Running
    <3>2. cur + 2 \in 0 .. (2 * net.nn)
      BY <3>1, LoopFacts
    <3> QED BY <3>1, <3>2 DEF ControlInv, Job, vars, Asserts, Consts, Passing
  <2>9. CASE NFinalAssert
    <3>1. Assert(Id, Val, FALSE) /\ pc = "final" /\ pc' = "finalrun" /\ UNCHANGED <<jobs, cur>>
          /\ cur < 2 * net.nn /\ mark = <<>>
      BY <1>1, <2>9 DEF NFinalAssert, More, Running, Asserts
    <3>2. dec' = << <<Id, Val>> >> /\ agenda' # <<>> /\ net' = net
      BY <3>1, LevelStarts
    <3> QED BY <1>1, <1>4, <3>1, <3>2 DEF ControlInv, Job, Id, Val, Asserts, Consts, Passing
  <2>10. CASE NNextJob
    <3>1. jobs' = Tail(jobs) /\ pc' = "loop" /\ cur' = 0 /\ UNCHANGED vars /\ pc = "final"
      BY <2>10 DEF NNextJob, Running
    <3>2. jobs' \in Seq(Learners)
      BY <1>4, <3>1, JobFacts
    <3> QED BY <1>1, <3>1, <3>2 DEF ControlInv, vars, Asserts, Consts, Passing
  <2> QED BY <1>4, <2>1, <2>2, <2>3, <2>4, <2>5, <2>6, <2>7, <2>8, <2>9, <2>10 DEF NaSteps
<1> QED BY <1>2, <1>3, <1>4, LearnSteps

LEMMA PassKept ==
  ASSUME LearnInv, NNext
  PROVE  PassInv'
<1> USE DEF LearnInv
<1>0. /\ pc = "forward" => work \subseteq ForwardWork /\ agenda = <<>>
      /\ \A e \in edges : e[1] \in Ands(net) /\ e[2] \in Pin /\ e[3] \in Bit
  BY DEF PassInv, ControlInv, Passing
<1>1. net' = net
  <2>1. [Next]_vars => net' = net
    BY DEF Next, Propagate, Call, BwdProp, FanoutStep, FanoutEnd, IndStep, IndEnd, PropConst, ConstEnd,
           Assert, Backtrack, SetConst, ConstCall, SetIndImp, vars
  <2>2. NBuild => net' = net
    BY DEF NBuild
  <2> QED BY <2>1, <2>2, EngineSide
<1>2. con' = con => ForwardWork' = ForwardWork
  BY <1>1 DEF ForwardWork
<1>3. CASE LPropagate /\ UNCHANGED nvars
  <2>1. agenda # <<>> /\ pc' = pc /\ UNCHANGED nvars
    BY <1>3 DEF LPropagate, Propagate, BwdProp, FanoutStep, FanoutEnd, IndStep, IndEnd, PropConst, ConstEnd
  <2> QED BY <1>0, <1>1, <2>1 DEF PassInv, nvars, passvars
<1>4. CASE pc \in {"loop", "run", "const"} /\ OtherSteps /\ UNCHANGED nvars
  <2>1. pc' # "forward"
    BY <1>4 DEF OtherSteps, LSkip, LAssert, LBacktrack, LSetConst, LNextJob
  <2> QED BY <1>0, <1>1, <1>4, <2>1 DEF PassInv, nvars, passvars
<1>5. CASE NaSteps
  <2>1. CASE NAssert \/ NBacktrack \/ NSetConst \/ NFinalSkip \/ NFinalAssert \/ NFinalBacktrack \/ NNextJob
             \/ NBuild \/ NTurn \/ NBackward
    BY <1>0, <1>1, <2>1 DEF NAssert, NBacktrack, NSetConst, NFinalSkip, NFinalAssert, NFinalBacktrack,
       NNextJob, NBuild, NTurn, NBackward, Running, PassInv, nvars, passvars
  <2>2. CASE NCollect
    BY <1>0, <1>1, <1>2, <2>2 DEF NCollect, PassInv, vars
  <2>3. CASE NForward
    BY <1>0, <1>1, <1>2, <2>3 DEF NForward, PassInv, Running
  <2>4. CASE NReset
    <3>1. PICK n : edges' = EdgeWork(n) /\ pc' = "backward"
      BY <2>4 DEF NReset, Running
    <3>2. \A e \in EdgeWork(n) : e[1] \in Ands(net) /\ e[2] \in Pin /\ e[3] \in Bit
      BY DEF EdgeWork, Fanouts
    <3> QED BY <1>1, <3>1, <3>2 DEF PassInv
  <2>5. CASE NRound \/ NContra
    BY <1>0, <1>1, <1>2, <2>5 DEF NRound, NContra, PassInv, vars
  <2> QED BY <1>5, <2>1, <2>2, <2>3, <2>4, <2>5 DEF NaSteps
<1> QED BY <1>3, <1>4, <1>5, LearnSteps
------------------------------------------------------------------------------
(***************************************************************************)
(* What the learners keep.                                                 *)
(***************************************************************************)
LEMMA NetKept ==
  ASSUME LearnInv, NNext
  PROVE  net' = net
<1>1. [Next]_vars => net' = net
  BY DEF Next, Propagate, Call, BwdProp, FanoutStep, FanoutEnd, IndStep, IndEnd, PropConst, ConstEnd,
         Assert, Backtrack, SetConst, ConstCall, SetIndImp, vars
<1>2. NBuild => net' = net
  BY DEF NBuild
<1> QED BY <1>1, <1>2, EngineSide

LEMMA BitFacts ==
  ASSUME NEW f \in Consistent(net)
  PROVE  /\ \A n \in Nodes(net) : f[n] \in Bit
         /\ \A v \in Bit : 1 - v \in Bit /\ 1 - (1 - v) = v
         /\ \A x, v \in Bit : x # v <=> x = 1 - v
         /\ \A d \in Literals(net) : /\ d[1] \in Nodes(net) /\ d[2] \in Bit /\ d = <<d[1], d[2]>>
                                     /\ Neg(d) \in Literals(net) /\ Neg(Neg(d)) = d
                                     /\ Holds(f, Neg(d)) <=> ~Holds(f, d)
<1>1. \A n \in Nodes(net) : f[n] \in Bit
  BY DEF Consistent
<1>2. /\ \A v \in Bit : 1 - v \in Bit /\ 1 - (1 - v) = v
      /\ \A x, v \in Bit : x # v <=> x = 1 - v
  BY DEF Bit
<1> QED BY <1>1, <1>2 DEF Literals, Neg, Holds

\* When an assert of a learner ends, what was recorded holds wherever the
\* asserted literal does; if it returned false the literal holds nowhere.
LEMMA RecordedHolds ==
  ASSUME IInv, ControlInv, pc \in Asserts, Backtrack,
         NEW f \in Consistent(net), Holds(f, <<Id, Val>>)
  PROVE  result = "true" /\ \A d \in recs : Holds(f, d)
<1>1. dec = << <<Id, Val>> >> /\ mark # <<>> /\ result \in {"true", "false"}
  BY LevelEnds DEF ControlInv, Backtrack
<1>2. \A i \in 1 .. Len(dec) : Holds(f, dec[i])
  BY <1>1
<1>3. f \in Models /\ Satisfies(f, Len(dec))
  BY <1>2 DEF Models, Satisfies
<1>4. result = "true"
  BY <1>1, <1>3 DEF IInv, ModelsInv
<1> QED BY <1>1, <1>3, <1>4 DEF IInv, RecordSound

\* Adding lit => d and its contrapositive, when every d follows from lit.
LEMMA AddSound ==
  ASSUME IInv, ListTypes, NEW f \in Consistent(net), InfoHolds(f),
         NEW lit \in Literals(net), NEW ds, ds \subseteq Literals(net),
         Holds(f, lit) => \A d \in ds : Holds(f, d),
         NEW n \in Nodes(net), NEW v \in Bit, f[n] = v
  PROVE  /\ \A d \in AddImplications(lit, ds, FALSE)[n][v] : Holds(f, d)
         /\ \A d \in AddImplications(lit, ds, TRUE)[n][v] : Holds(f, d)
<1>1. \A d \in info[n][v] : Holds(f, d)
  BY DEF InfoHolds
<1>2. <<n, v>> = lit => \A d \in ds : Holds(f, d)
  BY DEF Holds
<1>3. <<n, 1 - v>> \in ds => Holds(f, Neg(lit))
  <2> SUFFICES ASSUME <<n, 1 - v>> \in ds PROVE Holds(f, Neg(lit))
    OBVIOUS
  <2>1. ~Holds(f, <<n, 1 - v>>)
    BY DEF Holds, Bit
  <2> QED BY <2>1, BitFacts
<1> QED BY <1>1, <1>2, <1>3 DEF AddImplications

LEMMA AddTyped ==
  ASSUME ListTypes, NEW lit \in Literals(net), NEW ds, ds \subseteq Literals(net)
  PROVE  /\ AddImplications(lit, ds, FALSE) \in [Nodes(net) -> [Bit -> SUBSET Literals(net)]]
         /\ AddImplications(lit, ds, TRUE) \in [Nodes(net) -> [Bit -> SUBSET Literals(net)]]
<1>1. Neg(lit) \in Literals(net)
  BY DEF Neg, Literals, Bit
<1> QED BY <1>1 DEF AddImplications, ListTypes

LEMMA AddClosed ==
  ASSUME ListTypes, NEW lit \in Literals(net), NEW ds, ds \subseteq Literals(net),
         \A n \in Nodes(net), v \in Bit : \A d \in info[n][v] : <<n, 1 - v>> \in info[d[1]][1 - d[2]]
  PROVE  LET new == AddImplications(lit, ds, TRUE)
         IN  \A n \in Nodes(net), v \in Bit : \A d \in new[n][v] : <<n, 1 - v>> \in new[d[1]][1 - d[2]]
<1> DEFINE new == AddImplications(lit, ds, TRUE)
<1>0. \A n \in Nodes(net), v \in Bit :
        new[n][v] = info[n][v] \cup (IF <<n, v>> = lit THEN ds ELSE {})
                               \cup (IF <<n, 1 - v>> \in ds THEN {Neg(lit)} ELSE {})
  BY DEF AddImplications
<1> HIDE DEF new
<1>a. \A m \in Nodes(net), w \in Bit : info[m][w] \subseteq new[m][w]
  BY <1>0
<1>1. ASSUME NEW n \in Nodes(net), NEW v \in Bit, NEW d \in new[n][v]
      PROVE  <<n, 1 - v>> \in new[d[1]][1 - d[2]]
  <2>1. /\ lit = <<lit[1], lit[2]>> /\ lit[1] \in Nodes(net) /\ lit[2] \in Bit
        /\ Neg(lit) = <<lit[1], 1 - lit[2]>> /\ 1 - lit[2] \in Bit /\ 1 - (1 - lit[2]) = lit[2]
    BY DEF Literals, Neg, Bit
  <2>2. CASE d \in info[n][v]
    <3>1. d[1] \in Nodes(net) /\ 1 - d[2] \in Bit
      BY <2>2 DEF ListTypes, Literals, Bit
    <3>2. <<n, 1 - v>> \in info[d[1]][1 - d[2]]
      BY <2>2
    <3>3. info[d[1]][1 - d[2]] \subseteq new[d[1]][1 - d[2]]
      BY <3>1, <1>a
    <3> QED BY <3>2, <3>3
  <2>3. CASE <<n, v>> = lit /\ d \in ds
    <3>1. d[1] \in Nodes(net) /\ 1 - d[2] \in Bit /\ <<d[1], 1 - (1 - d[2])>> = d
      BY <2>3 DEF Literals, Bit
    <3> QED BY <2>1, <2>3, <3>1, <1>0
  <2>4. CASE <<n, 1 - v>> \in ds /\ d = Neg(lit)
    <3>1. d[1] = lit[1] /\ 1 - d[2] = lit[2]
      BY <2>1, <2>4
    <3> QED BY <2>1, <2>4, <3>1, <1>0
  <2> QED BY <1>0, <2>2, <2>3, <2>4
<1> QED BY <1>1 DEF new
------------------------------------------------------------------------------
(***************************************************************************)
(* The lists of NaImp: the literals of l are conditions of lit.            *)
(***************************************************************************)
Implied(f, l, lit) == \A d \in l : Holds(f, d) => Holds(f, lit)

LEMMA ListImplied ==
  ASSUME ListTypes, NEW f \in Consistent(net), ListsHold(f), NEW lit \in Literals(net)
  PROVE  Implied(f, ListOf(lit), lit) /\ ListOf(lit) \subseteq Literals(net)
<1>1. lit[1] \in Nodes(net) /\ lit[2] \in Bit
  BY DEF Literals
<1> QED BY <1>1 DEF ListTypes, ListsHold, ListOf, Implied, Holds

\* What two literals that together imply lit have in common are conditions of
\* lit; and when a condition of lit and one of the first are opposed, those of
\* the second are.
LEMMA CapMergeSound ==
  ASSUME NEW f \in Consistent(net), NEW dst, NEW l, NEW m, NEW lit, NEW a, NEW b, NEW cap2,
         Implied(f, dst, lit), Implied(f, l, a), Implied(f, m, b),
         Holds(f, a) /\ Holds(f, b) => Holds(f, lit)
  PROVE  Implied(f, CapMerge(dst, l, m, cap2), lit)
<1>1. ASSUME NEW n \in Nodes(net), NEW g,
             Has(dst, n), Has(g, n), (<<n, 0>> \in dst) # (<<n, 0>> \in g),
             NEW e, Implied(f, g, e)
      PROVE  Holds(f, lit) \/ Holds(f, e)
  <2>1. f[n] \in Bit
    BY DEF Consistent
  <2>2. \/ <<n, 0>> \in dst /\ <<n, 1>> \in g
        \/ <<n, 1>> \in dst /\ <<n, 0>> \in g
    BY <1>1 DEF Has, Bit
  <2>3. Holds(f, <<n, 0>>) \/ Holds(f, <<n, 1>>)
    BY <2>1 DEF Holds, Bit
  <2>4. /\ \A x \in dst : Holds(f, x) => Holds(f, lit)
        /\ \A x \in g : Holds(f, x) => Holds(f, e)
    BY <1>1 DEF Implied
  <2> QED BY <2>2, <2>3, <2>4
<1>2. Opposed(dst, l) => Holds(f, lit) \/ Holds(f, a)
  BY <1>1 DEF Opposed
<1>3. Opposed(dst, m) => Holds(f, lit) \/ Holds(f, b)
  BY <1>1 DEF Opposed
<1> QED BY <1>2, <1>3 DEF CapMerge, Implied

LEMMA PinFacts ==
  ASSUME IInv, NEW f \in Consistent(net), NEW n \in Ands(net)
  PROVE  /\ \A p \in Pin, v \in Bit :
              /\ PinLit(n, p, v) \in Literals(net)
              /\ Holds(f, PinLit(n, p, v)) <=> PinVal(net, f, n, p) = v
         /\ \A p \in Pin : PinVal(net, f, n, p) \in Bit
         /\ \A v \in Bit : <<n, v>> \in Literals(net) /\ (Holds(f, <<n, v>>) <=> f[n] = v)
         /\ f[n] = IF PinVal(net, f, n, 1) = 1 /\ PinVal(net, f, n, 2) = 1 THEN 1 ELSE 0
<1>1. \A p \in Pin : /\ net.src[n][p] \in Nodes(net) /\ net.inv[n][p] \in Bit
                     /\ f[net.src[n][p]] \in Bit
  BY EngineFacts, CircuitFacts DEF Consistent
<1>2. \A p \in Pin, v \in Bit :
         /\ PinLit(n, p, v) \in Literals(net)
         /\ Holds(f, PinLit(n, p, v)) <=> PinVal(net, f, n, p) = v
  <2> SUFFICES ASSUME NEW p \in Pin, NEW v \in Bit
               PROVE  /\ PinLit(n, p, v) \in Literals(net)
                      /\ Holds(f, PinLit(n, p, v)) <=> PinVal(net, f, n, p) = v
    OBVIOUS
  <2>1. Flip(v, net.inv[n][p]) \in Bit
    BY <1>1, FlipBit
  <2>2. Flip(f[net.src[n][p]], net.inv[n][p]) = v <=> f[net.src[n][p]] = Flip(v, net.inv[n][p])
    <3>1. PICK x, i : x = f[net.src[n][p]] /\ i = net.inv[n][p]
      OBVIOUS
    <3>2. x \in Bit /\ i \in Bit
      BY <3>1, <1>1
    <3>3. Flip(x, i) = v <=> x = Flip(v, i)
      BY <3>2, FlipBit
    <3> QED BY <3>1, <3>3
  <2> QED BY <1>1, <2>1, <2>2 DEF PinLit, Literals, Holds, PinVal
<1>3. \A p \in Pin : PinVal(net, f, n, p) \in Bit
  BY EngineFacts, RowFacts
<1>4. f[n] = IF PinVal(net, f, n, 1) = 1 /\ PinVal(net, f, n, 2) = 1 THEN 1 ELSE 0
  BY DEF Consistent
<1>5. \A v \in Bit : <<n, v>> \in Literals(net) /\ (Holds(f, <<n, v>>) <=> f[n] = v)
  BY EngineFacts, CircuitFacts DEF Literals, Holds
<1> QED BY <1>2, <1>3, <1>4, <1>5

\* Beside a constant fanin an AND node that is not constant is its other fanin.
LEMMA BesideConstant ==
  ASSUME IInv, BaseInv, mark = <<>>, agenda = <<>>, NEW f \in Consistent(net),
         NEW n \in Ands(net), con[n] = X, NEW p \in Pin, con[net.src[n][p]] # X
  PROVE  Other(p) \in Pin /\ f[n] = PinVal(net, f, n, Other(p))
<1>1. PinVal(net, f, n, p) = 1
  <2>1. net.src[n][p] \in Nodes(net)
    BY EngineFacts, CircuitFacts
  <2>2. con[net.src[n][p]] = f[net.src[n][p]]
    BY <2>1, ConstValue
  <2> QED BY <2>2, FreeNode DEF PinVal
<1>2. /\ f[n] = IF PinVal(net, f, n, 1) = 1 /\ PinVal(net, f, n, 2) = 1 THEN 1 ELSE 0
      /\ PinVal(net, f, n, 1) \in Bit /\ PinVal(net, f, n, 2) \in Bit
  BY PinFacts DEF Pin
<1>3. CASE p = 1
  <2>1. Other(p) = 2
    BY <1>3 DEF Other
  <2> QED BY <1>1, <1>2, <1>3, <2>1 DEF Pin, Bit
<1>4. CASE p = 2
  <2>1. Other(p) = 1
    BY <1>4 DEF Other
  <2> QED BY <1>1, <1>2, <1>4, <2>1 DEF Pin, Bit
<1> QED BY <1>3, <1>4 DEF Pin

LEMMA MeetSound ==
  ASSUME ListTypes, NEW f \in Consistent(net), ListsHold(f), NEW changed,
         NEW lit \in Literals(net), NEW a \in Literals(net), NEW b \in Literals(net),
         Holds(f, a) /\ Holds(f, b) => Holds(f, lit)
  PROVE  /\ Implied(f, MeetOf(lit, a, b, changed), lit)
         /\ MeetOf(lit, a, b, changed) \subseteq Literals(net)
<1>1. /\ Implied(f, ListOf(lit), lit) /\ Implied(f, ListOf(a), a) /\ Implied(f, ListOf(b), b)
      /\ ListOf(lit) \subseteq Literals(net) /\ ListOf(a) \subseteq Literals(net)
      /\ ListOf(b) \subseteq Literals(net)
  BY ListImplied
<1>2. Implied(f, CapMerge(ListOf(lit), ListOf(a), ListOf(b), UseCapMerge2(Job)), lit)
  BY <1>1, CapMergeSound
<1>3. CapMerge(ListOf(lit), ListOf(a), ListOf(b), UseCapMerge2(Job)) \subseteq Literals(net)
  BY <1>1 DEF CapMerge
<1> QED BY <1>1, <1>2, <1>3 DEF MeetOf

LEMMA ForwardSound ==
  ASSUME IInv, BaseInv, mark = <<>>, agenda = <<>>, ListTypes,
         NEW f \in Consistent(net), ListsHold(f),
         NEW n \in Ands(net), con[n] = X, NEW v \in Bit, NEW changed
  PROVE  /\ Implied(f, ForwardList(n, v, changed), <<n, v>>)
         /\ ForwardList(n, v, changed) \subseteq Literals(net)
<1>1. /\ <<n, v>> \in Literals(net)
      /\ \A p \in Pin : PinLit(n, p, v) \in Literals(net)
  BY PinFacts
<1>2. /\ Implied(f, ListOf(<<n, v>>), <<n, v>>) /\ ListOf(<<n, v>>) \subseteq Literals(net)
      /\ \A p \in Pin : /\ Implied(f, ListOf(PinLit(n, p, v)), PinLit(n, p, v))
                        /\ ListOf(PinLit(n, p, v)) \subseteq Literals(net)
  BY <1>1, ListImplied
<1>3. CASE ConstFanin(n) # 0
  <2>1. PICK p \in Pin : ConstFanin(n) = p /\ con[net.src[n][p]] # X
    BY <1>3 DEF ConstFanin, Pin
  <2>2. Other(p) \in Pin /\ f[n] = PinVal(net, f, n, Other(p))
    BY <2>1, BesideConstant
  <2>3. Holds(f, PinLit(n, Other(p), v)) => Holds(f, <<n, v>>)
    BY <2>2, PinFacts
  <2>4. ForwardList(n, v, changed) = ListOf(<<n, v>>) \cup ListOf(PinLit(n, Other(p), v))
    BY <1>3, <2>1 DEF ForwardList
  <2> QED BY <1>2, <2>2, <2>3, <2>4 DEF Implied
<1>4. CASE ConstFanin(n) = 0 /\ v = 0
  <2>1. \A p \in Pin : Holds(f, PinLit(n, p, v)) => Holds(f, <<n, v>>)
    BY <1>4, PinFacts DEF Pin, Bit
  <2>2. ForwardList(n, v, changed) = ListOf(<<n, v>>) \cup IfChanged(PinLit(n, 1, v), changed)
                                                      \cup IfChanged(PinLit(n, 2, v), changed)
    BY <1>4 DEF ForwardList
  <2>3. \A p \in Pin : IfChanged(PinLit(n, p, v), changed) \subseteq ListOf(PinLit(n, p, v))
    BY DEF IfChanged
  <2>4. 1 \in Pin /\ 2 \in Pin
    BY DEF Pin
  <2> QED BY <1>2, <2>1, <2>2, <2>3, <2>4 DEF Implied
<1>5. CASE ConstFanin(n) = 0 /\ v = 1
  <2>1. Holds(f, PinLit(n, 1, v)) /\ Holds(f, PinLit(n, 2, v)) => Holds(f, <<n, v>>)
    BY <1>5, PinFacts DEF Pin
  <2>2. ForwardList(n, v, changed) = MeetOf(<<n, v>>, PinLit(n, 1, v), PinLit(n, 2, v), changed)
    BY <1>5 DEF ForwardList
  <2>3. PICK a, b : a = PinLit(n, 1, v) /\ b = PinLit(n, 2, v)
    OBVIOUS
  <2>4. a \in Literals(net) /\ b \in Literals(net)
    BY <1>1, <2>3 DEF Pin
  <2>5. PICK lit : lit = <<n, v>>
    OBVIOUS
  <2>6. /\ Implied(f, MeetOf(lit, a, b, changed), lit)
        /\ MeetOf(lit, a, b, changed) \subseteq Literals(net)
    BY <1>1, <2>1, <2>3, <2>4, <2>5, MeetSound
  <2> QED BY <2>2, <2>3, <2>5, <2>6
<1> QED BY <1>3, <1>4, <1>5 DEF Bit

LEMMA BackwardSound ==
  ASSUME IInv, BaseInv, mark = <<>>, agenda = <<>>, ListTypes,
         NEW f \in Consistent(net), ListsHold(f),
         NEW o \in Ands(net), NEW p \in Pin, NEW v \in Bit, NEW changed
  PROVE  /\ PinLit(o, p, v) \in Literals(net)
         /\ Implied(f, BackwardList(o, p, v, changed), PinLit(o, p, v))
         /\ BackwardList(o, p, v, changed) \subseteq Literals(net)
<1>1. PICK lit, q : lit = PinLit(o, p, v) /\ q = Other(p)
  OBVIOUS
<1>2. /\ lit \in Literals(net) /\ \A w \in Bit : <<o, w>> \in Literals(net)
      /\ q \in Pin /\ PinLit(o, q, 1) \in Literals(net) /\ Other(q) = p
      /\ (p = 1 /\ q = 2) \/ (p = 2 /\ q = 1)
  <2>1. q \in Pin /\ Other(q) = p /\ ((p = 1 /\ q = 2) \/ (p = 2 /\ q = 1))
    <3>1. CASE p = 1
      BY <1>1, <3>1 DEF Other, Pin
    <3>2. CASE p = 2
      BY <1>1, <3>2 DEF Other, Pin
    <3> QED BY <3>1, <3>2 DEF Pin
  <2>2. 1 \in Bit
    BY DEF Bit
  <2> QED BY <1>1, <2>1, <2>2, PinFacts
<1>3. /\ Implied(f, ListOf(lit), lit) /\ ListOf(lit) \subseteq Literals(net)
      /\ \A w \in Bit : Implied(f, ListOf(<<o, w>>), <<o, w>>) /\ ListOf(<<o, w>>) \subseteq Literals(net)
  BY <1>2, ListImplied
<1>4. CASE con[o] # X
  BY <1>1, <1>2, <1>3, <1>4 DEF BackwardList
<1>5. CASE con[o] = X /\ SideConst1(o, p)
  <2>1. con[net.src[o][q]] # X
    BY <1>1, <1>5 DEF SideConst1, X
  <2>2. f[o] = PinVal(net, f, o, p)
    BY <1>2, <1>5, <2>1, BesideConstant
  <2>3. Holds(f, <<o, v>>) => Holds(f, lit)
    BY <1>1, <2>2, PinFacts
  <2>4. BackwardList(o, p, v, changed) = ListOf(lit) \cup ListOf(<<o, v>>)
    BY <1>1, <1>5 DEF BackwardList
  <2> QED BY <1>1, <1>2, <1>3, <2>3, <2>4 DEF Implied
<1>6. CASE con[o] = X /\ ~SideConst1(o, p) /\ v = 0
  <2>1. Holds(f, <<o, 0>>) /\ Holds(f, PinLit(o, q, 1)) => Holds(f, lit)
    BY <1>1, <1>2, <1>6, PinFacts DEF Bit, Pin
  <2>2. BackwardList(o, p, v, changed) = MeetOf(lit, <<o, 0>>, PinLit(o, q, 1), changed)
    BY <1>1, <1>6 DEF BackwardList
  <2>3. PICK a, b : a = <<o, 0>> /\ b = PinLit(o, q, 1)
    OBVIOUS
  <2>4. a \in Literals(net) /\ b \in Literals(net)
    BY <1>2, <2>3 DEF Bit
  <2>5. /\ Implied(f, MeetOf(lit, a, b, changed), lit)
        /\ MeetOf(lit, a, b, changed) \subseteq Literals(net)
    BY <1>2, <2>1, <2>3, <2>4, MeetSound
  <2> QED BY <1>1, <1>2, <2>2, <2>3, <2>5
<1>7. CASE con[o] = X /\ ~SideConst1(o, p) /\ v = 1
  <2>1. Holds(f, <<o, 1>>) => Holds(f, lit)
    BY <1>1, <1>2, <1>7, PinFacts DEF Bit, Pin
  <2>2. BackwardList(o, p, v, changed) = ListOf(lit) \cup IfChanged(<<o, 1>>, changed)
    BY <1>1, <1>7 DEF BackwardList
  <2>3. IfChanged(<<o, 1>>, changed) \subseteq ListOf(<<o, 1>>)
    BY DEF IfChanged
  <2> QED BY <1>1, <1>2, <1>3, <2>1, <2>2, <2>3 DEF Implied, Bit
<1> QED BY <1>4, <1>5, <1>6, <1>7 DEF Bit
------------------------------------------------------------------------------
(***************************************************************************)
(* Every step keeps what has been learned sound.                           *)
(***************************************************************************)
LEMMA LearnedSound ==
  ASSUME LearnInv, jobs # <<>>, Job \notin NaJobs, pc \in Asserts, Backtrack
  PROVE  /\ Learned \in [Nodes(net) -> [Bit -> SUBSET Literals(net)]]
         /\ \A f \in Consistent(net), n \in Nodes(net), v \in Bit :
              \A d \in Learned[n][v] : f[n] = v => Holds(f, d)
         /\ Job # "str" => \A n \in Nodes(net), v \in Bit : \A d \in Learned[n][v] :
                              <<n, 1 - v>> \in Learned[d[1]][1 - d[2]]
<1> USE DEF LearnInv
<1>1. PICK lit : lit = <<Id, Val>>
  OBVIOUS
<1>2. lit \in Literals(net) /\ recs \subseteq Literals(net)
  BY <1>1, LoopFacts DEF ControlInv, IInv, TypeInv
<1>3. ListTypes /\ \A f \in Consistent(net) : InfoHolds(f) /\ (Holds(f, lit) => \A d \in recs : Holds(f, d))
  BY <1>1, RecordedHolds DEF FactsInv
<1>4. Job # "str" => \A n \in Nodes(net), v \in Bit : \A d \in info[n][v] :
                        <<n, 1 - v>> \in info[d[1]][1 - d[2]]
  BY DEF ContraClosed
<1>5. Job \in {"str", "const", "contra", "rl"}
  BY JobFacts DEF Learners
<1>6. CASE Job = "str"
  <2>1. Learned = AddImplications(lit, recs, FALSE)
    BY <1>1, <1>6 DEF Learned
  <2>2. \A f \in Consistent(net), n \in Nodes(net), v \in Bit :
          f[n] = v => \A d \in AddImplications(lit, recs, FALSE)[n][v] : Holds(f, d)
    BY <1>2, <1>3, AddSound
  <2> QED BY <1>2, <1>3, <1>6, <2>1, <2>2, AddTyped
<1>7. CASE Learned = AddImplications(lit, recs, TRUE) /\ Job # "str"
  <2>1. \A f \in Consistent(net), n \in Nodes(net), v \in Bit :
          f[n] = v => \A d \in AddImplications(lit, recs, TRUE)[n][v] : Holds(f, d)
    BY <1>2, <1>3, AddSound
  <2>2. \A n \in Nodes(net), v \in Bit : \A d \in Learned[n][v] :
            <<n, 1 - v>> \in Learned[d[1]][1 - d[2]]
    BY <1>2, <1>3, <1>4, <1>7, AddClosed
  <2>3. Learned \in [Nodes(net) -> [Bit -> SUBSET Literals(net)]]
    BY <1>2, <1>3, <1>7, AddTyped
  <2> QED BY <1>7, <2>1, <2>2, <2>3
<1>8. CASE Learned = info
  <2>1. \A f \in Consistent(net), n \in Nodes(net), v \in Bit :
          \A d \in Learned[n][v] : f[n] = v => Holds(f, d)
    BY <1>3, <1>8 DEF InfoHolds
  <2> QED BY <1>3, <1>4, <1>8, <2>1 DEF ListTypes
<1>9. \/ Job = "str"
      \/ Learned = AddImplications(lit, recs, TRUE) /\ Job # "str"
      \/ Learned = info
  <2>1. Job = "const" => Learned = info
    BY DEF Learned
  <2>2. Job = "contra" => Learned = AddImplications(lit, recs, TRUE)
    BY <1>1 DEF Learned
  <2>3. Job = "rl" /\ result = "true" => Learned = AddImplications(lit, recs, TRUE)
    BY <1>1 DEF Learned
  <2>4. Job = "rl" /\ result # "true" => Learned = info
    BY DEF Learned
  <2>5. CASE Job = "contra"
    BY <2>2, <2>5
  <2>6. CASE Job = "rl"
    BY <2>3, <2>4, <2>6
  <2> QED BY <1>5, <2>1, <2>5, <2>6
<1> QED BY <1>6, <1>7, <1>8, <1>9

\* The implications NaImp builds from its lists.
Built(n, v) == {d \in Literals(net) : d[1] # n /\ (<<n, v>> \in ListOf(d) \/ Neg(d) \in lists[n][1 - v])}

LEMMA BuiltSound ==
  ASSUME LearnInv
  PROVE  LET new == [n \in Nodes(net) |-> [v \in Bit |-> Built(n, v)]]
         IN  /\ new \in [Nodes(net) -> [Bit -> SUBSET Literals(net)]]
             /\ \A f \in Consistent(net), n \in Nodes(net), v \in Bit :
                  \A d \in new[n][v] : f[n] = v => Holds(f, d)
             /\ \A n \in Nodes(net), v \in Bit : \A d \in new[n][v] :
                  <<n, 1 - v>> \in new[d[1]][1 - d[2]]
<1> DEFINE new == [n \in Nodes(net) |-> [v \in Bit |-> Built(n, v)]]
<1>1. new \in [Nodes(net) -> [Bit -> SUBSET Literals(net)]]
  BY DEF Built
<1>2. \A n \in Nodes(net), v \in Bit : new[n][v] = Built(n, v)
  OBVIOUS
<1> HIDE DEF new
<1>3. ASSUME NEW f \in Consistent(net), NEW n \in Nodes(net), NEW v \in Bit,
             NEW d \in Built(n, v), f[n] = v
      PROVE  Holds(f, d)
  <2>1. d \in Literals(net) /\ d[1] \in Nodes(net) /\ d[2] \in Bit /\ 1 - v \in Bit /\ 1 - v # v
    BY DEF Built, Literals, Bit
  <2>2. ListsHold(f)
    BY DEF LearnInv, FactsInv
  <2>3. CASE <<n, v>> \in lists[d[1]][d[2]]
    BY <1>3, <2>1, <2>2, <2>3 DEF ListsHold, Holds
  <2>4. CASE Neg(d) \in lists[n][1 - v]
    BY <1>3, <2>1, <2>2, <2>4, BitFacts DEF ListsHold
  <2> QED BY <2>3, <2>4 DEF Built, ListOf
<1>4. ASSUME NEW n \in Nodes(net), NEW v \in Bit, NEW d \in Built(n, v)
      PROVE  <<n, 1 - v>> \in Built(d[1], 1 - d[2]) /\ d[1] \in Nodes(net) /\ 1 - d[2] \in Bit
  <2>1. /\ d[1] \in Nodes(net) /\ 1 - d[2] \in Bit /\ 1 - (1 - d[2]) = d[2]
        /\ <<n, 1 - v>> \in Literals(net) /\ 1 - (1 - v) = v
    BY DEF Built, Literals, Bit
  <2>2. d[1] # n /\ (<<n, v>> \in lists[d[1]][d[2]] \/ <<d[1], 1 - d[2]>> \in lists[n][1 - v])
    BY DEF Built, ListOf, Neg
  <2> QED BY <2>1, <2>2 DEF Built, ListOf, Neg
<1> QED BY <1>1, <1>2, <1>3, <1>4 DEF new

LEMMA NoInfoFacts ==
  /\ NoInfo \in [Nodes(net) -> [Bit -> SUBSET Literals(net)]]
  /\ \A n \in Nodes(net), v \in Bit : NoInfo[n][v] = {}
BY DEF NoInfo

LEMMA BuildFacts ==
  ASSUME NBuild
  PROVE  /\ impl' = info' /\ info' = [n \in Nodes(net) |-> [v \in Bit |-> Built(n, v)]]
         /\ jobs' = jobs
BY DEF NBuild, Built

LEMMA InfoKept ==
  ASSUME LearnInv, NNext
  PROVE  /\ info' \in [Nodes(net) -> [Bit -> SUBSET Literals(net)]]
         /\ \A f \in Consistent(net) : InfoHolds(f)'
         /\ ContraClosed'
<1>1. CASE UNCHANGED <<info, jobs>>
  BY <1>1, NetKept DEF LearnInv, ListTypes, FactsInv, InfoHolds, ContraClosed, Job
<1>2. CASE info' = info /\ jobs' = Tail(jobs) /\ Len(jobs) = 1
  <2>1. jobs' = <<>>
    <3>1. jobs \in Seq(Learners)
      BY DEF LearnInv, ControlInv
    <3> QED BY <1>2, <3>1
  <2> QED BY <1>2, <2>1, NetKept DEF LearnInv, ListTypes, FactsInv, InfoHolds, ContraClosed
<1>3. CASE info' = NoInfo
  BY <1>3, NetKept, NoInfoFacts DEF InfoHolds, ContraClosed
<1>4. CASE LBacktrack /\ jobs # <<>> /\ Job \notin NaJobs
  <2>1. info' = Learned /\ pc \in Asserts /\ Backtrack /\ jobs' = jobs
    BY <1>4 DEF LBacktrack, Asserts
  <2> QED BY <1>4, <2>1, NetKept, LearnedSound DEF InfoHolds, ContraClosed, Job
<1>5. CASE NBuild
  BY <1>5, NetKept, BuildFacts, BuiltSound DEF InfoHolds, ContraClosed
<1>6. \/ UNCHANGED <<info, jobs>>
      \/ info' = info /\ jobs' = Tail(jobs) /\ Len(jobs) = 1
      \/ info' = NoInfo
      \/ LBacktrack /\ jobs # <<>> /\ Job \notin NaJobs
      \/ NBuild
  <2>1. CASE LPropagate /\ UNCHANGED nvars
    BY <2>1 DEF LPropagate
  <2>2. CASE jobs # <<>> /\ Job \notin NaJobs /\ OtherSteps /\ UNCHANGED nvars
    BY <2>2 DEF OtherSteps, LSkip, LAssert, LSetConst, LNextJob
  <2>3. CASE NaSteps
    BY <2>3 DEF NaSteps, NAssert, NBacktrack, NSetConst, NCollect, NForward, NTurn, NReset, NBackward,
                NRound, NContra, NFinalSkip, NFinalAssert, NFinalBacktrack, NNextJob
  <2> QED BY <2>1, <2>2, <2>3, LearnSteps DEF LearnInv
<1> QED BY <1>1, <1>2, <1>3, <1>4, <1>5, <1>6

\* One list becomes a set of conditions of its literal.
LEMMA BecomesSound ==
  ASSUME LearnInv, net' = net, NEW lit \in Literals(net), NEW new, new \subseteq Literals(net),
         \A f \in Consistent(net) : Implied(f, new, lit),
         lists' = [lists EXCEPT ![lit[1]][lit[2]] = new]
  PROVE  /\ lists' \in [Nodes(net) -> [Bit -> SUBSET Literals(net)]]
         /\ \A f \in Consistent(net) : ListsHold(f)'
<1>1. lit[1] \in Nodes(net) /\ lit[2] \in Bit /\ lists \in [Nodes(net) -> [Bit -> SUBSET Literals(net)]]
  BY DEF Literals, LearnInv, ListTypes
<1>2. \A n \in Nodes(net), v \in Bit :
         lists'[n][v] = IF n = lit[1] /\ v = lit[2] THEN new ELSE lists[n][v]
  BY <1>1
<1>3. lists' \in [Nodes(net) -> [Bit -> SUBSET Literals(net)]]
  BY <1>1
<1>4. ASSUME NEW f \in Consistent(net), NEW n \in Nodes(net), NEW v \in Bit,
             NEW d \in lists'[n][v], Holds(f, d)
      PROVE  f[n] = v
  BY <1>2, <1>4 DEF LearnInv, FactsInv, ListsHold, Implied, Holds
<1> QED BY <1>3, <1>4 DEF ListsHold

\* What the recorder of the first phase adds.
LEMMA RecordedSound ==
  ASSUME LearnInv, pc \in Asserts, Backtrack
  PROVE  LET new == Recorded(<<Id, Val>>, recs)
         IN  /\ new \in [Nodes(net) -> [Bit -> SUBSET Literals(net)]]
             /\ \A f \in Consistent(net), n \in Nodes(net), v \in Bit :
                  \A d \in new[n][v] : Holds(f, d) => f[n] = v
<1> USE DEF LearnInv
<1>1. PICK lit : lit = <<Id, Val>>
  OBVIOUS
<1>2. lit \in Literals(net) /\ recs \subseteq Literals(net) /\ Neg(lit) \in Literals(net)
  BY <1>1, LoopFacts, BitFacts, EngineFacts DEF ControlInv, IInv, TypeInv
<1>3. \A d \in recs : Neg(d) \in Literals(net)
  BY <1>2, BitFacts, EngineFacts
<1>4. PICK new : new = Recorded(lit, recs)
  OBVIOUS
<1>5. \A n \in Nodes(net), v \in Bit :
        new[n][v] = lists[n][v] \cup (IF <<n, v>> \in recs THEN {lit} ELSE {})
                                \cup (IF <<n, v>> = Neg(lit) THEN {Neg(d) : d \in recs} ELSE {})
  BY <1>4 DEF Recorded
<1>6. new \in [Nodes(net) -> [Bit -> SUBSET Literals(net)]]
  <2>1. \A n \in Nodes(net), v \in Bit :
          lists[n][v] \cup (IF <<n, v>> \in recs THEN {lit} ELSE {})
                      \cup (IF <<n, v>> = Neg(lit) THEN {Neg(d) : d \in recs} ELSE {})
            \in SUBSET Literals(net)
    BY <1>2, <1>3 DEF ListTypes
  <2> QED BY <1>4, <2>1 DEF Recorded
<1>7. ASSUME NEW f \in Consistent(net), NEW n \in Nodes(net), NEW v \in Bit,
             NEW d \in new[n][v], Holds(f, d)
      PROVE  Holds(f, <<n, v>>)
  <2>1. Holds(f, lit) => \A x \in recs : Holds(f, x)
    BY <1>1, RecordedHolds
  <2>2. CASE d \in lists[n][v]
    BY <1>7, <2>2 DEF FactsInv, ListsHold, Holds
  <2>3. CASE <<n, v>> \in recs /\ d = lit
    BY <1>7, <2>1, <2>3
  <2>4. CASE <<n, v>> = Neg(lit) /\ \E x \in recs : d = Neg(x)
    <3>1. PICK x \in recs : d = Neg(x)
      BY <2>4
    <3>2. ~Holds(f, x)
      BY <1>2, <1>7, <3>1, BitFacts
    <3>3. ~Holds(f, lit)
      BY <2>1, <3>2
    <3> QED BY <1>2, <2>4, <3>3, BitFacts
  <2> QED BY <1>5, <2>2, <2>3, <2>4
<1> QED BY <1>1, <1>4, <1>6, <1>7 DEF Holds

LEMMA ListsKept ==
  ASSUME LearnInv, NNext
  PROVE  /\ lists' \in [Nodes(net) -> [Bit -> SUBSET Literals(net)]]
         /\ \A f \in Consistent(net) : ListsHold(f)'
<1>0. net' = net
  BY NetKept
<1>1. CASE lists' = lists
  BY <1>0, <1>1 DEF LearnInv, ListTypes, FactsInv, ListsHold
<1>2. CASE NBacktrack
  <2>1. lists' = Recorded(<<Id, Val>>, recs) /\ pc \in Asserts /\ Backtrack
    BY <1>2 DEF NBacktrack, Running, Asserts
  <2>2. PICK new : new = Recorded(<<Id, Val>>, recs)
    OBVIOUS
  <2>3. /\ new \in [Nodes(net) -> [Bit -> SUBSET Literals(net)]]
        /\ \A f \in Consistent(net), n \in Nodes(net), v \in Bit :
             \A d \in new[n][v] : Holds(f, d) => f[n] = v
    BY <2>1, <2>2, RecordedSound
  <2> QED BY <1>0, <2>1, <2>2, <2>3 DEF ListsHold
<1>3. CASE NCollect
  <2>1. \A n \in Nodes(net), v \in Bit : FirstList(n, v) \subseteq lists[n][v] \cup {<<n, v>>}
    BY DEF FirstList, Free
  <2>2. lists' = [n \in Nodes(net) |-> [v \in Bit |-> FirstList(n, v)]]
    BY <1>3 DEF NCollect
  <2>3. \A n \in Nodes(net), v \in Bit : FirstList(n, v) \in SUBSET Literals(net)
    BY <2>1 DEF LearnInv, ListTypes, Literals
  <2>4. \A n \in Nodes(net), v \in Bit : lists'[n][v] \subseteq lists[n][v] \cup {<<n, v>>}
    BY <2>1, <2>2
  <2>5. \A f \in Consistent(net), n \in Nodes(net), v \in Bit :
          \A d \in lists'[n][v] : Holds(f, d) => f[n] = v
    BY <2>4 DEF LearnInv, FactsInv, ListsHold, Holds
  <2> QED BY <1>0, <2>2, <2>3, <2>5 DEF ListsHold
<1>4. CASE NForward
  <2>1. /\ pc = "forward" /\ mark = <<>> /\ agenda = <<>> /\ work \subseteq ForwardWork
    BY <1>4 DEF NForward, Running, LearnInv, ControlInv, PassInv, Passing, Asserts
  <2>2. PICK lit \in work :
          \/ lists' = lists
          \/ lists' = [lists EXCEPT ![lit[1]][lit[2]] = ForwardList(lit[1], lit[2], ChangedLits)]
    BY <1>4 DEF NForward, Becomes
  <2>3. lit[1] \in Ands(net) /\ lit[2] \in Bit /\ con[lit[1]] = X /\ lit = <<lit[1], lit[2]>>
    BY <2>1 DEF ForwardWork
  <2>4. lit \in Literals(net)
    BY <2>3, EngineFacts, CircuitFacts DEF Literals, LearnInv
  <2>5. PICK new : new = ForwardList(lit[1], lit[2], ChangedLits)
    OBVIOUS
  <2>6. /\ new \subseteq Literals(net)
        /\ \A f \in Consistent(net) : Implied(f, new, lit)
    <3>1. \A f \in Consistent(net) : new \subseteq Literals(net) /\ Implied(f, new, lit)
      BY <2>1, <2>3, <2>5, ForwardSound DEF LearnInv, FactsInv
    <3> QED BY <3>1, EngineFacts DEF LearnInv
  <2> QED BY <1>0, <1>1, <2>2, <2>4, <2>5, <2>6, BecomesSound
<1>5. CASE NBackward
  <2>1. mark = <<>> /\ agenda = <<>>
    BY <1>5 DEF NBackward, Running, LearnInv, ControlInv, Passing, Asserts
  <2>2. PICK e \in edges :
          LET lit == PinLit(e[1], e[2], e[3])
          IN  lists' = [lists EXCEPT ![lit[1]][lit[2]] = BackwardList(e[1], e[2], e[3], ChangedLits)]
    BY <1>5 DEF NBackward, Becomes
  <2>3. e[1] \in Ands(net) /\ e[2] \in Pin /\ e[3] \in Bit
    BY DEF LearnInv, PassInv
  <2>4. PICK new, lit : new = BackwardList(e[1], e[2], e[3], ChangedLits) /\ lit = PinLit(e[1], e[2], e[3])
    OBVIOUS
  <2>5. \A f \in Consistent(net) : lit \in Literals(net) /\ new \subseteq Literals(net) /\ Implied(f, new, lit)
    BY <2>1, <2>3, <2>4, BackwardSound DEF LearnInv, FactsInv
  <2>6. lit \in Literals(net) /\ new \subseteq Literals(net)
    BY <2>5, EngineFacts DEF LearnInv
  <2>7. lists' = [lists EXCEPT ![lit[1]][lit[2]] = new]
    BY <2>2, <2>4
  <2> QED BY <1>0, <2>5, <2>6, <2>7, BecomesSound
<1>6. CASE NContra
  <2>1. lists' = [n \in Nodes(net) |-> [v \in Bit |->
                    lists[n][v] \cup (Contrapositives(<<n, v>>) \ lists[n][v])]]
    BY <1>6 DEF NContra
  <2>2. \A n \in Nodes(net), v \in Bit : lists'[n][v] = lists[n][v] \cup Contrapositives(<<n, v>>)
    BY <2>1
  <2>3. lists' \in [Nodes(net) -> [Bit -> SUBSET Literals(net)]]
    BY <2>1 DEF Contrapositives, LearnInv, ListTypes
  <2>4. ASSUME NEW f \in Consistent(net), NEW n \in Nodes(net), NEW v \in Bit,
               NEW d \in Contrapositives(<<n, v>>), Holds(f, d)
        PROVE  f[n] = v
    <3>1. /\ d \in Literals(net) /\ Neg(<<n, v>>) \in lists[d[1]][1 - d[2]]
          /\ d[1] \in Nodes(net) /\ 1 - d[2] \in Bit /\ 1 - d[2] # d[2] /\ <<n, v>> \in Literals(net)
      BY DEF Contrapositives, Literals, Bit
    <3>2. Holds(f, Neg(<<n, v>>)) => f[d[1]] = 1 - d[2]
      BY <3>1 DEF LearnInv, FactsInv, ListsHold
    <3>3. Holds(f, <<n, v>>)
      BY <2>4, <3>1, <3>2, BitFacts DEF Holds
    <3> QED BY <3>3 DEF Holds
  <2>5. \A f \in Consistent(net), n \in Nodes(net), v \in Bit :
          \A d \in lists'[n][v] : Holds(f, d) => f[n] = v
    <3> SUFFICES ASSUME NEW f \in Consistent(net), NEW n \in Nodes(net), NEW v \in Bit,
                        NEW d \in lists'[n][v], Holds(f, d)
                 PROVE  f[n] = v
      OBVIOUS
    <3>1. d \in lists[n][v] => f[n] = v
      BY DEF LearnInv, FactsInv, ListsHold
    <3>2. d \in lists[n][v] \/ d \in Contrapositives(<<n, v>>)
      BY <2>2
    <3> QED BY <2>4, <3>1, <3>2
  <2> QED BY <1>0, <2>3, <2>5 DEF ListsHold
<1>7. CASE lists' = NoInfo
  BY <1>0, <1>7, NoInfoFacts DEF ListsHold
<1>8. lists' = lists \/ NBacktrack \/ NCollect \/ NForward \/ NBackward \/ NContra \/ lists' = NoInfo
  BY LearnSteps DEF LearnInv, nvars, NaSteps, NAssert, NSetConst, NTurn, NReset, NRound, NBuild,
                    NFinalSkip, NFinalAssert, NFinalBacktrack, NNextJob
<1> QED BY <1>1, <1>2, <1>3, <1>4, <1>5, <1>6, <1>7, <1>8
------------------------------------------------------------------------------
(***************************************************************************)
(* The invariant and what it says.                                         *)
(***************************************************************************)
LEMMA EngineKept ==
  ASSUME LearnInv, NNext
  PROVE  IInv' /\ BaseInv'
<1>1. CASE [Next]_vars
  BY <1>1, StepKeepsBase DEF LearnInv
<1>2. CASE NBuild
  <2>1. /\ agenda = <<>> /\ impl' = info'
        /\ UNCHANGED <<net, st, chg, mark, con, agenda, recording, recs, result, dec,
                       swallowed, refuted, aborted>>
    BY <1>2 DEF NBuild, Running, LearnInv, ControlInv, Passing
  <2>2. /\ impl' \in [Nodes(net) -> [Bit -> SUBSET Literals(net)]]
        /\ \A f \in Consistent(net), n \in Nodes(net), v \in Bit : \A d \in impl'[n][v] :
              f[n] = v => Holds(f, d)
    BY <2>1, InfoKept DEF InfoHolds
  <2>3. IInv'
    BY <2>1, <2>2, ImplStep DEF LearnInv
  <2>4. BaseInv'
    BY <2>1, QuietKeepsBase DEF LearnInv
  <2> QED BY <2>3, <2>4
<1> QED BY <1>1, <1>2, EngineSide

LEMMA LearnStep ==
  ASSUME LearnInv, [NNext]_allvars
  PROVE  LearnInv'
<1>1. CASE NNext
  <2>1. Consistent(net)' = Consistent(net) /\ Nodes(net)' = Nodes(net) /\ Literals(net)' = Literals(net)
    BY <1>1, NetKept
  <2>2. ListTypes' /\ FactsInv'
    BY <1>1, <2>1, InfoKept, ListsKept DEF ListTypes, FactsInv
  <2> QED BY <1>1, <2>2, EngineKept, ControlKept, PassKept, InfoKept DEF LearnInv
<1>2. CASE UNCHANGED allvars
  <2>1. UNCHANGED vars /\ UNCHANGED <<jobs, pc, cur, info, lists, flags, work, edges, grew>>
    BY <1>2 DEF allvars, lvars, nvars, passvars
  <2>2. IInv' /\ BaseInv'
    BY <2>1, StepKeepsBase DEF LearnInv
  <2>3. ControlInv' /\ PassInv'
    BY <2>1 DEF vars, LearnInv, ControlInv, PassInv, Job, Id, Val, ForwardWork
  <2>4. ListTypes' /\ FactsInv' /\ ContraClosed'
    BY <2>1 DEF vars, LearnInv, ListTypes, FactsInv, InfoHolds, ListsHold, ContraClosed, Job
  <2> QED BY <2>2, <2>3, <2>4 DEF LearnInv
<1> QED BY <1>1, <1>2

LEMMA LearnStart ==
  ASSUME WithoutSat, NInit
  PROVE  LearnInv
<1>1. Init /\ jobs \in Seq(Learners) /\ pc = "loop" /\ cur = 0 /\ info = NoInfo
      /\ lists = NoInfo /\ edges = {} /\ mark = <<>> /\ chg = <<>> /\ agenda = <<>>
  BY DEF NInit, LInit, WithoutSat, Init
<1>2. IInv
  BY <1>1, InitInv
<1>3. BaseInv
  <2>1. /\ \A n \in Nodes(net) : st[n] = Clear /\ con[n] = X
        /\ Clear[Out] = X
    BY <1>1 DEF Init, Clear, Out
  <2>2. \A n \in Ands(net), p \in Pin : net.src[n][p] \in Nodes(net)
    BY <1>2, EngineFacts, CircuitFacts
  <2> QED BY <1>1, <2>1, <2>2, OutsideBase
<1>4. ControlInv /\ PassInv
  <2>1. 0 \in 0 .. (2 * net.nn)
    BY <1>2, EngineFacts DEF IsCircuit
  <2> QED BY <1>1, <2>1 DEF ControlInv, PassInv, Passing, Asserts, Consts
<1>5. ListTypes /\ FactsInv /\ ContraClosed
  BY <1>1, NoInfoFacts DEF ListTypes, FactsInv, InfoHolds, ListsHold, ContraClosed
<1> QED BY <1>2, <1>3, <1>4, <1>5 DEF LearnInv

\* The invariant behind the theorems below holds in every state of every
\* sequence of learners other than SatImp: the code of StrImp, ConstImp,
\* ContraImp, RlImp and NaImp never calls the engine but as it expects.
THEOREM LearnInvariance ==
  ASSUME WithoutSat
  PROVE  NSpec => []LearnInv
<1>1. NInit => LearnInv
  BY LearnStart
<1>2. LearnInv /\ [NNext]_allvars => LearnInv'
  BY LearnStep
<1> QED BY <1>1, <1>2, PTL DEF NSpec

\* verify() of ImpInfo.cc reports no error whatever the network and whichever
\* learners filled the list, in any order.
THEOREM LearnedIsSound ==
  ASSUME WithoutSat
  PROVE  NSpec => []InfoSound
<1>1. LearnInv => InfoSound
  <2>1. LearnInv => net \in Circuits
    BY EngineFacts DEF LearnInv
  <2> QED BY <2>1 DEF InfoSound, Assignments, LearnInv, FactsInv, InfoHolds
<1> QED BY <1>1, LearnInvariance, PTL

\* At any moment of the passes of NaImp every literal a list holds implies the
\* literal of the list, also where cap_merge2 takes a list over whole.
THEOREM PassesAreSound ==
  ASSUME WithoutSat
  PROVE  NSpec => []ConditionsSound
<1>1. LearnInv => ConditionsSound
  <2>1. LearnInv => net \in Circuits
    BY EngineFacts DEF LearnInv
  <2> QED BY <2>1 DEF ConditionsSound, Assignments, LearnInv, FactsInv, ListsHold
<1> QED BY <1>1, LearnInvariance, PTL

\* ContraImp, RlImp and NaImp give no implication without its contrapositive.
THEOREM ContrapositivesGiven ==
  ASSUME WithoutSat
  PROVE  NSpec => []ContraClosed
<1>1. LearnInv => ContraClosed
  BY DEF LearnInv
<1> QED BY <1>1, LearnInvariance, PTL

\* Between two literals of a learner's loop the change stack is empty and the
\* values left on the nodes are those of constants.
THEOREM NothingLeftOver ==
  ASSUME WithoutSat
  PROVE  NSpec => []CleanLoop
<1>1. ASSUME LearnInv PROVE CleanLoop
  <2>1. LTypeOK
    BY <1>1, TypesHold DEF LTypeOK, LearnInv, ControlInv, ListTypes
  <2>2. ASSUME pc \in {"loop", "final"}, Idle
        PROVE  chg = <<>> /\ \A n \in Nodes(net) : OutVal(n) # X => con[n] = OutVal(n)
    <3>1. mark = <<>> /\ agenda = <<>>
      BY <1>1, <2>2 DEF LearnInv, ControlInv, Asserts, Idle
    <3> QED BY <1>1, <3>1, AtRest DEF LearnInv, OutVal
  <2> QED BY <2>1, <2>2 DEF CleanLoop
<1> QED BY <1>1, LearnInvariance, PTL

\* set_const tells a constant to every fanout it can still concern, through
\* all the nodes it makes constant, before the learner goes on.
THEOREM ConstantsReachFanouts ==
  ASSUME WithoutSat
  PROVE  NSpec => []ConstPropagated
<1>1. ASSUME LearnInv PROVE ConstPropagated
  <2>1. ASSUME pc \in {"loop", "final"}, Idle
        PROVE  \A n \in Ands(net), p \in Pin : con[net.src[n][p]] # X => Told(st, n, p)
    <3>1. mark = <<>> /\ agenda = <<>>
      BY <1>1, <2>1 DEF LearnInv, ControlInv, Asserts, Idle
    <3> QED BY <1>1, <3>1, AtRest DEF LearnInv
  <2> QED BY <2>1 DEF ConstPropagated, Told
<1> QED BY <1>1, LearnInvariance, PTL

\* No assertion fires: not those of ImpAnd::prop_const and not the one of
\* NaImp's forward pass, that no AND node has two constant fanins.
THEOREM NoAssertionFires ==
  ASSUME WithoutSat
  PROVE  NSpec => []NoAbort
<1>1. LearnInv => NoAbort
  BY DEF LearnInv, IInv
<1> QED BY <1>1, LearnInvariance, PTL
=============================================================================
