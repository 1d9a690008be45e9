---------------------------- MODULE ThBddProofs ----------------------------
(***************************************************************************)
(* For every array of weights, every threshold, every word behind the      *)
(* array and every width of the intervals that abort. The second part is   *)
(* about weights that are not negative.                                    *)
(*                                                                         *)
(* The trees of ItvlList stay AVL trees: a node a search ends at has free  *)
(* place for one more, adding it there and rotating on the way back keeps  *)
(* the order and the balance, and adds exactly the node.                   *)
(*                                                                         *)
(* ThBddGen builds the threshold function, unless it fails. The invariant  *)
(* GInv says that every stored or returned interval is the exact one of    *)
(* its function: from the largest sum of a set outside the function, where *)
(* the word behind the array may count, to the smallest of one in it. Two  *)
(* exact intervals of a level that share a slack are one, and the list of  *)
(* a waiting activation has no interval with its slack: so what it adds    *)
(* afterwards overlaps nothing, unless the word behind the array is below  *)
(* 0. The slack at hand is the threshold less the weights on the path to   *)
(* it: so an interval that is too narrow lies between two sums of weights  *)
(* near the threshold. Last, a set of indices of the array given and the   *)
(* set of their positions have the same sum.                               *)
(***************************************************************************)
EXTENDS ThBddGen, FiniteSetTheorems, SequenceTheorems, NaturalsInduction,
        WellFoundedInduction, TLAPS

------------------------------------------------------------------------------
(***************************************************************************)
(* Positions.                                                              *)
(***************************************************************************)
Positions == Seq(Turns)

LEMMA RootPosition == Root \in Positions /\ Len(Root) = 0
BY DEF Positions, Root

LEMMA TurnPositions ==
  /\ Left \in Positions /\ Right \in Positions
  /\ Len(Left) = 1 /\ Len(Right) = 1 /\ Left[1] = 0 /\ Right[1] = 1
  /\ \A d \in Turns : <<d>> \in Positions /\ Len(<<d>>) = 1 /\ <<d>>[1] = d
BY DEF Positions, Left, Right, Turns

LEMMA LenNat ==
  ASSUME NEW p \in Positions
  PROVE  Len(p) \in Nat /\ (Len(p) = 0 <=> p = Root) /\ \A i \in 1 .. Len(p) : p[i] \in Turns
BY LenProperties, EmptySeq, ElementOfSeq DEF Positions, Root

LEMMA ConcatFacts ==
  ASSUME NEW p \in Positions, NEW q \in Positions
  PROVE  /\ p \o q \in Positions /\ Len(p \o q) = Len(p) + Len(q)
         /\ \A i \in 1 .. Len(p) : (p \o q)[i] = p[i]
         /\ \A i \in 1 .. Len(q) : (p \o q)[Len(p) + i] = q[i]
<1>1. Len(p) \in Nat /\ Len(q) \in Nat
  BY LenNat
<1>2. /\ p \o q \in Positions /\ Len(p \o q) = Len(p) + Len(q)
      /\ \A i \in 1 .. Len(p) + Len(q) : (p \o q)[i] = IF i <= Len(p) THEN p[i] ELSE q[i - Len(p)]
  BY ConcatProperties DEF Positions
<1> HIDE DEF Positions
<1>3. \A i \in 1 .. Len(p) : (p \o q)[i] = p[i]
  BY <1>1, <1>2
<1>4. ASSUME NEW i \in 1 .. Len(q) PROVE (p \o q)[Len(p) + i] = q[i]
  <2>1. Len(p) + i \in 1 .. Len(p) + Len(q) /\ ~ (Len(p) + i <= Len(p)) /\ (Len(p) + i) - Len(p) = i
    BY <1>1
  <2> QED BY <1>2, <2>1
<1> QED BY <1>2, <1>3, <1>4

LEMMA SamePosition ==
  ASSUME NEW p \in Positions, NEW q \in Positions, Len(p) = Len(q),
         \A i \in 1 .. Len(p) : p[i] = q[i]
  PROVE  p = q
BY SeqEqual DEF Positions

LEMMA ConcatRoot ==
  ASSUME NEW p \in Positions
  PROVE  p \o Root = p /\ Root \o p = p
BY ConcatEmptySeq DEF Positions, Root

LEMMA ConcatAssoc ==
  ASSUME NEW p \in Positions, NEW q \in Positions, NEW r \in Positions
  PROVE  p \o (q \o r) = (p \o q) \o r
BY ConcatAssociative DEF Positions

LEMMA ConcatSame ==
  ASSUME NEW p \in Positions, NEW q \in Positions, NEW r \in Positions, p \o q = p \o r
  PROVE  q = r
<1>1. Len(p) \in Nat /\ Len(q) \in Nat /\ Len(r) \in Nat
  BY LenNat
<1>2. Len(p) + Len(q) = Len(p) + Len(r)
  BY ConcatFacts
<1>3. \A i \in 1 .. Len(q) : q[i] = r[i]
  BY <1>1, <1>2, ConcatFacts
<1> QED BY <1>1, <1>2, <1>3, SamePosition

LEMMA Parts ==
  ASSUME NEW r \in Positions, NEW k \in 0 .. Len(r)
  PROVE  /\ SubSeq(r, 1, k) \in Positions /\ Len(SubSeq(r, 1, k)) = k
         /\ SubSeq(r, k + 1, Len(r)) \in Positions
         /\ Len(SubSeq(r, k + 1, Len(r))) = Len(r) - k
         /\ \A i \in 1 .. k : SubSeq(r, 1, k)[i] = r[i]
         /\ \A i \in 1 .. Len(r) - k : SubSeq(r, k + 1, Len(r))[i] = r[k + i]
         /\ r = SubSeq(r, 1, k) \o SubSeq(r, k + 1, Len(r))
<1> DEFINE p == SubSeq(r, 1, k)
           q == SubSeq(r, k + 1, Len(r))
<1>1. Len(r) \in Nat /\ k \in Int /\ k + 1 \in Int /\ \A i \in 1 .. Len(r) : r[i] \in Turns
  BY LenNat
<1>2. \A i \in 1 .. k : r[i] \in Turns
  BY <1>1
<1>3. /\ p \in Seq(Turns) /\ Len(p) = IF 1 <= k THEN k - 1 + 1 ELSE 0
      /\ \A i \in 1 .. k - 1 + 1 : p[i] = r[1 + i - 1]
  BY <1>1, <1>2, SubSeqProperties
<1>4. \A i \in k + 1 .. Len(r) : r[i] \in Turns
  BY <1>1
<1>5. /\ q \in Seq(Turns) /\ Len(q) = IF k + 1 <= Len(r) THEN Len(r) - (k + 1) + 1 ELSE 0
      /\ \A i \in 1 .. Len(r) - (k + 1) + 1 : q[i] = r[(k + 1) + i - 1]
  BY <1>1, <1>4, SubSeqProperties
<1> HIDE DEF p, q
<1>6. Len(p) = k /\ \A i \in 1 .. k : p[i] = r[i]
  BY <1>1, <1>3
<1>7. Len(q) = Len(r) - k
  BY <1>1, <1>5
<1>8. ASSUME NEW i \in 1 .. Len(r) - k PROVE q[i] = r[k + i]
  <2>1. i \in 1 .. Len(r) - (k + 1) + 1 /\ (k + 1) + i - 1 = k + i
    BY <1>1
  <2> QED BY <1>5, <2>1
<1>9. p \in Positions /\ q \in Positions
  BY <1>3, <1>5 DEF Positions
<1>10. /\ p \o q \in Positions /\ Len(p \o q) = Len(r)
       /\ \A i \in 1 .. k : (p \o q)[i] = p[i]
       /\ \A i \in 1 .. Len(r) - k : (p \o q)[k + i] = q[i]
  <2>1. Len(p) + Len(q) = Len(r)
    BY <1>1, <1>6, <1>7
  <2>2. /\ p \o q \in Positions /\ Len(p \o q) = Len(p) + Len(q)
        /\ \A i \in 1 .. Len(p) : (p \o q)[i] = p[i]
        /\ \A i \in 1 .. Len(q) : (p \o q)[Len(p) + i] = q[i]
    BY <1>9, ConcatFacts
  <2> QED BY <1>6, <1>7, <2>1, <2>2
<1>11. ASSUME NEW i \in 1 .. Len(r) PROVE (p \o q)[i] = r[i]
  <2>1. CASE i \in 1 .. k
    BY <1>6, <1>10, <2>1
  <2>2. CASE i \notin 1 .. k
    <3>1. i - k \in 1 .. Len(r) - k /\ k + (i - k) = i
      BY <1>1, <2>2
    <3> QED BY <1>8, <1>10, <3>1
  <2> QED BY <2>1, <2>2
<1>12. p \o q = r
  BY <1>10, <1>11, SamePosition
<1> QED BY <1>6, <1>7, <1>8, <1>9, <1>12 DEF p, q

LEMMA FirstPart ==
  ASSUME NEW p \in Positions, NEW q \in Positions
  PROVE  /\ SubSeq(p \o q, 1, Len(p)) = p
         /\ SubSeq(p \o q, Len(p) + 1, Len(p \o q)) = q
<1>1. Len(p) \in Nat /\ Len(q) \in Nat
  BY LenNat
<1>2. p \o q \in Positions /\ Len(p \o q) = Len(p) + Len(q) /\ \A i \in 1 .. Len(p) : (p \o q)[i] = p[i]
  BY ConcatFacts
<1>3. PICK r \in Positions : r = p \o q
  BY <1>2
<1>4. Len(p) \in 0 .. Len(r)
  BY <1>1, <1>2, <1>3
<1>5. /\ SubSeq(r, 1, Len(p)) \in Positions /\ Len(SubSeq(r, 1, Len(p))) = Len(p)
      /\ SubSeq(r, Len(p) + 1, Len(r)) \in Positions
      /\ \A i \in 1 .. Len(p) : SubSeq(r, 1, Len(p))[i] = r[i]
      /\ r = SubSeq(r, 1, Len(p)) \o SubSeq(r, Len(p) + 1, Len(r))
  BY <1>4, Parts
<1>6. SubSeq(r, 1, Len(p)) = p
  BY <1>2, <1>3, <1>5, SamePosition
<1>7. p \o SubSeq(r, Len(p) + 1, Len(r)) = p \o q
  BY <1>3, <1>5, <1>6
<1>8. SubSeq(r, Len(p) + 1, Len(r)) = q
  BY <1>5, <1>7, ConcatSame
<1> QED BY <1>3, <1>6, <1>8

LEMMA TurnAndRest ==
  ASSUME NEW d \in Turns, NEW q \in Positions
  PROVE  /\ <<d>> \o q \in Positions /\ <<d>> \o q # Root
         /\ Head(<<d>> \o q) = d /\ Tail(<<d>> \o q) = q
<1>1. <<d>> \in Positions /\ Len(<<d>>) = 1 /\ <<d>>[1] = d
  BY TurnPositions
<1>2. Len(q) \in Nat
  BY LenNat
<1>3. /\ <<d>> \o q \in Positions /\ Len(<<d>> \o q) = 1 + Len(q) /\ (<<d>> \o q)[1] = d
      /\ \A i \in 1 .. Len(q) : (<<d>> \o q)[1 + i] = q[i]
  BY <1>1, <1>2, ConcatFacts
<1>4. <<d>> \o q # Root
  BY <1>2, <1>3, RootPosition
<1>5. PICK r \in Positions : r = <<d>> \o q
  BY <1>3
<1>6. /\ Tail(r) \in Seq(Turns) /\ Len(Tail(r)) = Len(r) - 1
      /\ \A i \in 1 .. Len(Tail(r)) : Tail(r)[i] = r[i + 1]
  BY <1>4, <1>5, HeadTailProperties DEF Positions, Root
<1>7. Tail(r) = q
  <2>1. Len(Tail(r)) = Len(q)
    BY <1>2, <1>3, <1>5, <1>6
  <2>2. \A i \in 1 .. Len(q) : Tail(r)[i] = q[i]
    <3>1. \A i \in 1 .. Len(q) : 1 + i = i + 1
      BY <1>2
    <3> QED BY <1>3, <1>5, <1>6, <2>1, <3>1
  <2> QED BY <1>6, <2>1, <2>2, SamePosition DEF Positions
<1>8. Head(r) = d
  <2>1. Head(r) = r[1]
    BY <1>5, <1>4 DEF Positions, Root
  <2> QED BY <1>3, <1>5, <2>1
<1> QED BY <1>3, <1>4, <1>5, <1>7, <1>8

LEMMA RootOrTurn ==
  ASSUME NEW p \in Positions, p # Root
  PROVE  \E d \in Turns, q \in Positions : p = <<d>> \o q
<1>1. Len(p) \in Nat /\ Len(p) # 0
  BY LenNat
<1>2. 1 \in 0 .. Len(p)
  BY <1>1
<1>3. /\ SubSeq(p, 1, 1) \in Positions /\ Len(SubSeq(p, 1, 1)) = 1
      /\ SubSeq(p, 2, Len(p)) \in Positions
      /\ p = SubSeq(p, 1, 1) \o SubSeq(p, 2, Len(p))
  <2>1. 1 + 1 = 2
    OBVIOUS
  <2> QED BY <1>2, <2>1, Parts
<1>4. PICK h \in Positions : h = SubSeq(p, 1, 1)
  BY <1>3
<1>5. h[1] \in Turns /\ Len(h) = 1
  <2>1. Len(h) = 1 /\ 1 \in 1 .. Len(h)
    BY <1>3, <1>4
  <2> QED BY <2>1, LenNat
<1>6. h = << h[1] >>
  <2>1. << h[1] >> \in Positions /\ Len(<< h[1] >>) = 1 /\ << h[1] >>[1] = h[1]
    BY <1>5, TurnPositions
  <2>2. \A i \in 1 .. Len(h) : h[i] = << h[1] >>[i]
    BY <1>5, <2>1
  <2> QED BY <1>5, <2>1, <2>2, SamePosition
<1> QED BY <1>3, <1>4, <1>5, <1>6

------------------------------------------------------------------------------
(***************************************************************************)
(* Trees: their positions are those on the way to another one, and none is *)
(* deeper than some bound.                                                 *)
(***************************************************************************)
IsInterval(n) == n.mLb \in Int /\ n.mUb \in Int

IsTree(t) ==
  /\ DOMAIN t \subseteq Positions /\ t = [p \in DOMAIN t |-> t[p]]
  /\ \E h \in Nat : \A p \in DOMAIN t : Len(p) < h
  /\ \A p, q \in Positions : p \o q \in DOMAIN t => p \in DOMAIN t
  /\ \A p \in DOMAIN t :
       /\ t[p] = [node |-> t[p].node, mBalance |-> t[p].mBalance]
       /\ t[p].mBalance \in Int /\ IsInterval(t[p].node)

LEMMA SameTree ==
  ASSUME NEW t, NEW u, IsTree(t), IsTree(u), DOMAIN t = DOMAIN u,
         \A p \in DOMAIN t : t[p] = u[p]
  PROVE  t = u
<1>1. t = [p \in DOMAIN t |-> t[p]] /\ u = [p \in DOMAIN u |-> u[p]]
  BY DEF IsTree
<1>2. [p \in DOMAIN t |-> t[p]] = [p \in DOMAIN u |-> u[p]]
  OBVIOUS
<1> QED BY <1>1, <1>2, Zenon

LEMMA NilTree == IsTree(Nil) /\ DOMAIN Nil = {} /\ Nodes(Nil) = {} /\ IsAvl(Nil)
<1>1. DOMAIN Nil = {}
  BY DEF Nil
<1>2. Nil = [p \in DOMAIN Nil |-> Nil[p]]
  BY DEF Nil
<1>3. \E h \in Nat : \A p \in DOMAIN Nil : Len(p) < h
  BY <1>1
<1> QED BY <1>1, <1>2, <1>3 DEF IsTree, Nodes, IsAvl

LEMMA NoPositions ==
  ASSUME NEW t, IsTree(t), DOMAIN t = {}
  PROVE  t = Nil
BY NilTree, SameTree

LEMMA SubDomain ==
  ASSUME NEW t, IsTree(t), NEW p \in Positions
  PROVE  /\ DOMAIN Sub(t, p) = {q \in Positions : p \o q \in DOMAIN t}
         /\ Sub(t, p) = [q \in DOMAIN Sub(t, p) |-> t[p \o q]]
<1> DEFINE Beyonds == {q \in DOMAIN t : Len(q) >= Len(p) /\ SubSeq(q, 1, Len(p)) = p}
           Rests == {SubSeq(r, Len(p) + 1, Len(r)) : r \in Beyonds}
<1>1. Sub(t, p) = [q \in Rests |-> t[p \o q]]
  BY DEF Sub
<1>2. ASSUME NEW q \in Rests PROVE q \in Positions /\ p \o q \in DOMAIN t
  <2>1. PICK r \in Beyonds : q = SubSeq(r, Len(p) + 1, Len(r))
    OBVIOUS
  <2>2. r \in Positions /\ Len(p) \in 0 .. Len(r)
    <3>1. r \in Positions
      BY DEF IsTree
    <3> QED BY <3>1, LenNat
  <2>3. q \in Positions /\ r = SubSeq(r, 1, Len(p)) \o q
    BY <2>1, <2>2, Parts
  <2> QED BY <2>3
<1>3. ASSUME NEW q \in Positions, p \o q \in DOMAIN t PROVE q \in Rests
  <2>1. /\ SubSeq(p \o q, 1, Len(p)) = p
        /\ SubSeq(p \o q, Len(p) + 1, Len(p \o q)) = q
    BY FirstPart
  <2>2. Len(p \o q) >= Len(p)
    <3>1. Len(p \o q) = Len(p) + Len(q) /\ Len(p) \in Nat /\ Len(q) \in Nat
      BY LenNat, ConcatFacts
    <3> QED BY <3>1
  <2>3. p \o q \in Beyonds
    BY <1>3, <2>1, <2>2
  <2> QED BY <2>1, <2>3
<1>4. Rests = {q \in Positions : p \o q \in DOMAIN t}
  <2> HIDE DEF Rests
  <2> QED BY <1>2, <1>3
<1> HIDE DEF Rests
<1>5. DOMAIN Sub(t, p) = Rests
  BY <1>1
<1> QED BY <1>1, <1>4, <1>5

LEMMA SubTree ==
  ASSUME NEW t, IsTree(t), NEW p \in Positions
  PROVE  /\ IsTree(Sub(t, p)) /\ DOMAIN Sub(t, p) = {q \in Positions : p \o q \in DOMAIN t}
         /\ \A q \in DOMAIN Sub(t, p) : Sub(t, p)[q] = t[p \o q]
<1>1. PICK s : s = Sub(t, p)
  OBVIOUS
<1>2. DOMAIN s = {q \in Positions : p \o q \in DOMAIN t} /\ s = [q \in DOMAIN s |-> t[p \o q]]
  BY <1>1, SubDomain
<1>3. \A q \in DOMAIN s : s[q] = t[p \o q] /\ p \o q \in DOMAIN t
  BY <1>2
<1>4. s = [q \in DOMAIN s |-> s[q]]
  BY <1>2
<1>5. \E h \in Nat : \A q \in DOMAIN s : Len(q) < h
  <2>1. PICK h \in Nat : \A q \in DOMAIN t : Len(q) < h
    BY DEF IsTree
  <2>2. ASSUME NEW q \in DOMAIN s PROVE Len(q) < h
    <3>1. Len(p \o q) < h /\ Len(p \o q) = Len(p) + Len(q) /\ Len(p) \in Nat /\ Len(q) \in Nat
      BY <1>2, <2>1, LenNat, ConcatFacts
    <3> QED BY <3>1
  <2> QED BY <2>2
<1>6. ASSUME NEW q \in Positions, NEW r \in Positions, q \o r \in DOMAIN s PROVE q \in DOMAIN s
  <2>1. p \o (q \o r) \in DOMAIN t /\ p \o (q \o r) = (p \o q) \o r /\ p \o q \in Positions
    BY <1>2, <1>6, ConcatAssoc, ConcatFacts
  <2>2. p \o q \in DOMAIN t
    BY <2>1 DEF IsTree
  <2> QED BY <1>2, <2>2
<1>7. ASSUME NEW q \in DOMAIN s
      PROVE  /\ s[q] = [node |-> s[q].node, mBalance |-> s[q].mBalance]
             /\ s[q].mBalance \in Int /\ IsInterval(s[q].node)
  BY <1>3 DEF IsTree
<1>8. DOMAIN s \subseteq Positions
  BY <1>2
<1>9. IsTree(s)
  BY <1>4, <1>5, <1>6, <1>7, <1>8 DEF IsTree
<1> QED BY <1>1, <1>2, <1>3, <1>9

LEMMA SubSub ==
  ASSUME NEW t, IsTree(t), NEW p \in Positions, NEW q \in Positions
  PROVE  Sub(Sub(t, p), q) = Sub(t, p \o q)
<1>1. PICK s : s = Sub(t, p)
  OBVIOUS
<1>2. /\ IsTree(s) /\ DOMAIN s = {r \in Positions : p \o r \in DOMAIN t}
      /\ \A r \in DOMAIN s : s[r] = t[p \o r]
  BY <1>1, SubTree
<1>3. PICK u : u = Sub(s, q)
  OBVIOUS
<1>4. /\ IsTree(u) /\ DOMAIN u = {r \in Positions : q \o r \in DOMAIN s}
      /\ \A r \in DOMAIN u : u[r] = s[q \o r]
  BY <1>2, <1>3, SubTree
<1>5. p \o q \in Positions
  BY ConcatFacts
<1>6. PICK v : v = Sub(t, p \o q)
  OBVIOUS
<1>7. /\ IsTree(v) /\ DOMAIN v = {r \in Positions : (p \o q) \o r \in DOMAIN t}
      /\ \A r \in DOMAIN v : v[r] = t[(p \o q) \o r]
  BY <1>5, <1>6, SubTree
<1>8. \A r \in Positions : q \o r \in Positions /\ p \o (q \o r) = (p \o q) \o r
  BY ConcatFacts, ConcatAssoc
<1>9. DOMAIN u = DOMAIN v
  BY <1>2, <1>4, <1>7, <1>8
<1>10. \A r \in DOMAIN u : u[r] = v[r]
  BY <1>2, <1>4, <1>7, <1>8, <1>9
<1>11. u = v
  BY <1>4, <1>7, <1>9, <1>10, SameTree
<1> QED BY <1>1, <1>3, <1>6, <1>11

LEMMA SubRoot ==
  ASSUME NEW t, IsTree(t)
  PROVE  Sub(t, Root) = t
<1>1. /\ IsTree(Sub(t, Root)) /\ DOMAIN Sub(t, Root) = {q \in Positions : Root \o q \in DOMAIN t}
      /\ \A q \in DOMAIN Sub(t, Root) : Sub(t, Root)[q] = t[Root \o q]
  BY RootPosition, SubTree
<1>2. DOMAIN t \subseteq Positions /\ \A q \in Positions : Root \o q = q
  BY ConcatRoot DEF IsTree
<1> QED BY <1>1, <1>2, SameTree

LEMMA SubEmpty ==
  ASSUME NEW t, IsTree(t), NEW p \in Positions, p \notin DOMAIN t
  PROVE  Sub(t, p) = Nil
<1>1. IsTree(Sub(t, p)) /\ DOMAIN Sub(t, p) = {q \in Positions : p \o q \in DOMAIN t}
  BY SubTree
<1>2. DOMAIN Sub(t, p) = {}
  BY <1>1 DEF IsTree
<1> QED BY <1>1, <1>2, NoPositions

LEMMA RootThere ==
  ASSUME NEW t, IsTree(t), DOMAIN t # {}
  PROVE  Root \in DOMAIN t
<1>1. PICK p \in DOMAIN t : TRUE
  OBVIOUS
<1>2. p \in Positions /\ Root \in Positions /\ Root \o p = p
  BY RootPosition, ConcatRoot DEF IsTree
<1>3. Root \o p \in DOMAIN t => Root \in DOMAIN t
  BY <1>2 DEF IsTree
<1> QED BY <1>1, <1>2, <1>3

------------------------------------------------------------------------------
(***************************************************************************)
(* Heights.                                                                *)
(***************************************************************************)
LEMMA LeastNumber ==
  ASSUME NEW S, S \subseteq Nat, S # {}
  PROVE  \E i \in S : \A j \in S : i <= j
<1> DEFINE Less == {q \in Nat \X Nat : q[1] < q[2]}
<1>1. IsWellFoundedOn(Less, Nat)
  BY NatLessThanWellFounded, Zenon DEF OpToRel
<1>2. PICK i \in S : \A j \in S : <<j, i>> \notin Less
  <2> HIDE DEF Less
  <2> QED BY <1>1, WFMin
<1>3. \A x, y \in Nat : <<x, y>> \notin Less => y <= x
  OBVIOUS
<1>4. \A j \in S : i <= j
  <2> HIDE DEF Less
  <2> QED BY <1>2, <1>3
<1> QED BY <1>4

LEMMA HeightFacts ==
  ASSUME NEW t, IsTree(t)
  PROVE  /\ Height(t) \in Nat /\ (Height(t) = 0 <=> DOMAIN t = {})
         /\ \A p \in DOMAIN t : Len(p) < Height(t)
         /\ DOMAIN t # {} => \E p \in DOMAIN t : Len(p) + 1 = Height(t)
<1>1. CASE DOMAIN t = {}
  BY <1>1 DEF Height, IsNil
<1>2. CASE DOMAIN t # {}
  <2> DEFINE Bounds0 == {h \in Nat : \A p \in DOMAIN t : Len(p) < h}
             Lens == {Len(p) : p \in DOMAIN t}
  <2>1. \A p \in DOMAIN t : Len(p) \in Nat
    BY LenNat DEF IsTree
  <2>2. PICK h \in Bounds0 : \A k \in Bounds0 : h <= k
    <3>1. Bounds0 # {} /\ Bounds0 \subseteq Nat
      BY DEF IsTree
    <3> HIDE DEF Bounds0
    <3> QED BY <3>1, LeastNumber
  <2>3. h # 0
    BY <1>2, <2>1
  <2>4. \E p \in DOMAIN t : Len(p) + 1 = h
    <3>1. SUFFICES ASSUME \A p \in DOMAIN t : Len(p) + 1 # h PROVE FALSE
      OBVIOUS
    <3>2. h - 1 \in Bounds0
      <4>1. h - 1 \in Nat
        BY <2>3
      <4>2. \A p \in DOMAIN t : Len(p) < h - 1
        BY <2>1, <3>1
      <4> QED BY <4>1, <4>2
    <3> QED BY <2>2, <3>2
  <2>5. h - 1 \in Lens /\ \A x \in Lens : h - 1 >= x
    BY <2>1, <2>4
  <2>6. \A x \in Lens : x \in Nat
    BY <2>1
  <2>7. Max(Lens) \in Lens /\ \A x \in Lens : Max(Lens) >= x
    <3> HIDE DEF Lens
    <3> QED BY <2>5, Zenon DEF Max
  <2>8. Max(Lens) = h - 1
    <3> HIDE DEF Lens
    <3> QED BY <2>5, <2>6, <2>7
  <2>9. Height(t) = h
    BY <1>2, <2>8 DEF Height, IsNil
  <2> QED BY <1>2, <2>3, <2>4, <2>9
<1> QED BY <1>1, <1>2

LEMMA HeightIs ==
  ASSUME NEW t, IsTree(t), NEW h \in Nat, \A p \in DOMAIN t : Len(p) < h,
         NEW p \in DOMAIN t, Len(p) + 1 = h
  PROVE  Height(t) = h
<1>1. \A q \in DOMAIN t : Len(q) \in Nat
  BY LenNat DEF IsTree
<1>2. /\ Height(t) \in Nat /\ Len(p) < Height(t)
      /\ \E q \in DOMAIN t : Len(q) + 1 = Height(t)
  BY HeightFacts
<1> QED BY <1>1, <1>2

------------------------------------------------------------------------------
(***************************************************************************)
(* Join: every tree with a root is the join of its node and its subtrees.  *)
(***************************************************************************)
LEMMA TwoSides ==
  ASSUME NEW p \in Positions
  PROVE  \/ p = Root
         \/ \E q \in Positions : p = Left \o q
         \/ \E q \in Positions : p = Right \o q
BY RootOrTurn DEF Turns, Left, Right

LEMMA Apart ==
  ASSUME NEW q \in Positions
  PROVE  /\ Left \o q \in Positions /\ Left \o q # Root
         /\ Head(Left \o q) = 0 /\ Tail(Left \o q) = q /\ Len(Left \o q) = Len(q) + 1
         /\ Right \o q \in Positions /\ Right \o q # Root
         /\ Head(Right \o q) = 1 /\ Head(Right \o q) # 0 /\ Tail(Right \o q) = q /\ Len(Right \o q) = Len(q) + 1
<1>1. 0 \in Turns /\ 1 \in Turns
  BY DEF Turns
<1>2. Len(Left \o q) = Len(q) + 1 /\ Len(Right \o q) = Len(q) + 1
  <2>1. Len(q) \in Nat /\ Left \in Positions /\ Right \in Positions /\ Len(Left) = 1 /\ Len(Right) = 1
    BY LenNat, TurnPositions
  <2>2. Len(Left \o q) = Len(Left) + Len(q) /\ Len(Right \o q) = Len(Right) + Len(q)
    BY <2>1, ConcatFacts
  <2> QED BY <2>1, <2>2
<1>3. Head(<<1>> \o q) # 0
  <2>1. \A h : h = 1 => h # 0
    OBVIOUS
  <2>2. Head(<<1>> \o q) = 1
    BY <1>1, TurnAndRest
  <2> QED BY <2>1, <2>2, Zenon
<1> QED BY <1>1, <1>2, <1>3, TurnAndRest DEF Left, Right

LEMMA JoinRoot ==
  ASSUME NEW l, NEW r, NEW n, NEW b
  PROVE  Join(n, b, l, r)[Root] = [node |-> n, mBalance |-> b]
BY Zenon DEF Join

LEMMA JoinDomain ==
  ASSUME NEW l, NEW r, IsTree(l), IsTree(r), NEW n, NEW b
  PROVE  LET j == Join(n, b, l, r)
         IN  /\ DOMAIN j \subseteq Positions /\ j = [p \in DOMAIN j |-> j[p]]
             /\ Root \in DOMAIN j /\ j[Root].node = n /\ j[Root].mBalance = b
             /\ \A q \in Positions : Left \o q \in DOMAIN j <=> q \in DOMAIN l
             /\ \A q \in Positions : Right \o q \in DOMAIN j <=> q \in DOMAIN r
             /\ \A q \in DOMAIN l : j[Left \o q] = l[q]
             /\ \A q \in DOMAIN r : j[Right \o q] = r[q]
<1> DEFINE D == {Root} \cup {Left \o q : q \in DOMAIN l} \cup {Right \o q : q \in DOMAIN r}
           Val(p) == IF p = Root THEN [node |-> n, mBalance |-> b]
                     ELSE IF Head(p) = 0 THEN l[Tail(p)] ELSE r[Tail(p)]
<1>1. DOMAIN l \subseteq Positions /\ DOMAIN r \subseteq Positions
  BY DEF IsTree
<1>2. PICK j : j = Join(n, b, l, r)
  OBVIOUS
<1>3. j = [p \in D |-> Val(p)]
  BY <1>2 DEF Join
<1>4. D \subseteq Positions
  BY <1>1, Apart, RootPosition
<1>5. \A q \in Positions : Left \o q \in D <=> q \in DOMAIN l
  <2>1. ASSUME NEW q \in Positions, Left \o q \in D PROVE q \in DOMAIN l
    <3>1. Left \o q # Root /\ Head(Left \o q) = 0 /\ Tail(Left \o q) = q
      BY Apart
    <3>2. \A x \in DOMAIN r : Head(Right \o x) = 1
      BY <1>1, Apart
    <3>3. \A x \in DOMAIN l : Tail(Left \o x) = x
      BY <1>1, Apart
    <3>4. \A x \in DOMAIN r : Left \o q # Right \o x
      <4>1. 0 # 1
        OBVIOUS
      <4> QED BY <3>1, <3>2, <4>1, Zenon
    <3>5. PICK x \in DOMAIN l : Left \o q = Left \o x
      BY <2>1, <3>1, <3>4
    <3> QED BY <3>1, <3>3, <3>5
  <2> QED BY <2>1
<1>6. \A q \in Positions : Right \o q \in D <=> q \in DOMAIN r
  <2>1. ASSUME NEW q \in Positions, Right \o q \in D PROVE q \in DOMAIN r
    <3>1. Right \o q # Root /\ Head(Right \o q) = 1 /\ Tail(Right \o q) = q
      BY Apart
    <3>2. \A x \in DOMAIN l : Head(Left \o x) = 0
      BY <1>1, Apart
    <3>3. \A x \in DOMAIN r : Tail(Right \o x) = x
      BY <1>1, Apart
    <3>4. \A x \in DOMAIN l : Right \o q # Left \o x
      <4>1. 0 # 1
        OBVIOUS
      <4> QED BY <3>1, <3>2, <4>1, Zenon
    <3>5. PICK x \in DOMAIN r : Right \o q = Right \o x
      BY <2>1, <3>1, <3>4
    <3> QED BY <3>1, <3>3, <3>5
  <2> QED BY <2>1
<1>7. Root \in D /\ Val(Root) = [node |-> n, mBalance |-> b]
  OBVIOUS
<1>8. ASSUME NEW q \in DOMAIN l PROVE Left \o q \in D /\ Val(Left \o q) = l[q]
  <2>1. Left \o q # Root /\ Head(Left \o q) = 0 /\ Tail(Left \o q) = q
    BY <1>1, Apart
  <2> QED BY <2>1
<1>9. ASSUME NEW q \in DOMAIN r PROVE Right \o q \in D /\ Val(Right \o q) = r[q]
  <2>1. Right \o q # Root /\ Head(Right \o q) = 1 /\ Tail(Right \o q) = q
    BY <1>1, Apart
  <2>2. Head(Right \o q) # 0
    BY <1>1, Apart
  <2>3. Right \o q \in D
    OBVIOUS
  <2> QED BY <2>1, <2>2, <2>3, Zenon
<1> HIDE DEF D, Val
<1>10. DOMAIN j = D /\ \A p \in D : j[p] = Val(p)
  BY <1>3
<1>11. j = [p \in DOMAIN j |-> j[p]]
  BY <1>3
<1> QED BY <1>2, <1>4, <1>5, <1>6, <1>7, <1>8, <1>9, <1>10, <1>11

\* The tree has this root and these subtrees.
HasParts(j, n, b, l, r) ==
  /\ IsTree(j) /\ Root \in DOMAIN j /\ j[Root].node = n /\ j[Root].mBalance = b
  /\ Sub(j, Left) = l /\ Sub(j, Right) = r

LEMMA JoinTree ==
  ASSUME NEW l, NEW r, IsTree(l), IsTree(r), NEW n, IsInterval(n), NEW b, b \in Int
  PROVE  HasParts(Join(n, b, l, r), n, b, l, r)
<1>0. PICK j : j = Join(n, b, l, r)
  OBVIOUS
<1>1. /\ DOMAIN j \subseteq Positions /\ j = [p \in DOMAIN j |-> j[p]]
      /\ Root \in DOMAIN j /\ j[Root].node = n /\ j[Root].mBalance = b
      /\ \A q \in Positions : Left \o q \in DOMAIN j <=> q \in DOMAIN l
      /\ \A q \in Positions : Right \o q \in DOMAIN j <=> q \in DOMAIN r
      /\ \A q \in DOMAIN l : j[Left \o q] = l[q]
      /\ \A q \in DOMAIN r : j[Right \o q] = r[q]
  BY <1>0, JoinDomain
<1>2. /\ DOMAIN l \subseteq Positions /\ DOMAIN r \subseteq Positions
      /\ Left \in Positions /\ Right \in Positions
  BY TurnPositions DEF IsTree
<1>3. ASSUME NEW p \in DOMAIN j
      PROVE  \/ p = Root
             \/ \E q \in DOMAIN l : p = Left \o q
             \/ \E q \in DOMAIN r : p = Right \o q
  BY <1>1, TwoSides
<1>4. \E h \in Nat : \A p \in DOMAIN j : Len(p) < h
  <2>1. PICK h \in Nat : \A q \in DOMAIN l : Len(q) < h
    BY DEF IsTree
  <2>2. PICK k \in Nat : \A q \in DOMAIN r : Len(q) < k
    BY DEF IsTree
  <2>3. ASSUME NEW p \in DOMAIN j PROVE Len(p) < h + k + 1
    <3>1. CASE p = Root
      BY <3>1, RootPosition
    <3>2. CASE \E q \in DOMAIN l : p = Left \o q
      <4>1. PICK q \in DOMAIN l : p = Left \o q
        BY <3>2
      <4>2. Len(p) = Len(q) + 1 /\ Len(q) \in Nat /\ Len(q) < h
        BY <1>2, <2>1, <4>1, Apart, LenNat
      <4> QED BY <4>2
    <3>3. CASE \E q \in DOMAIN r : p = Right \o q
      <4>1. PICK q \in DOMAIN r : p = Right \o q
        BY <3>3
      <4>2. Len(p) = Len(q) + 1 /\ Len(q) \in Nat /\ Len(q) < k
        BY <1>2, <2>2, <4>1, Apart, LenNat
      <4> QED BY <4>2
    <3> QED BY <1>3, <3>1, <3>2, <3>3
  <2> QED BY <2>3
<1>5. ASSUME NEW p \in Positions, NEW q \in Positions, p \o q \in DOMAIN j PROVE p \in DOMAIN j
  <2>1. CASE p = Root
    BY <1>1, <2>1
  <2>2. ASSUME NEW x \in Positions, p = Left \o x PROVE p \in DOMAIN j
    <3>1. Left \o (x \o q) = (Left \o x) \o q /\ x \o q \in Positions
      <4>1. x \o q \in Positions
        BY ConcatFacts
      <4> QED BY <1>2, <4>1, ConcatAssoc
    <3>2. x \o q \in DOMAIN l
      BY <1>1, <1>5, <2>2, <3>1
    <3>3. x \in DOMAIN l
      BY <3>2 DEF IsTree
    <3> QED BY <1>1, <2>2, <3>3
  <2>3. ASSUME NEW x \in Positions, p = Right \o x PROVE p \in DOMAIN j
    <3>1. Right \o (x \o q) = (Right \o x) \o q /\ x \o q \in Positions
      <4>1. x \o q \in Positions
        BY ConcatFacts
      <4> QED BY <1>2, <4>1, ConcatAssoc
    <3>2. x \o q \in DOMAIN r
      BY <1>1, <1>5, <2>3, <3>1
    <3>3. x \in DOMAIN r
      BY <3>2 DEF IsTree
    <3> QED BY <1>1, <2>3, <3>3
  <2> QED BY <2>1, <2>2, <2>3, TwoSides
<1>6. ASSUME NEW p \in DOMAIN j
      PROVE  /\ j[p] = [node |-> j[p].node, mBalance |-> j[p].mBalance]
             /\ j[p].mBalance \in Int /\ IsInterval(j[p].node)
  <2>1. CASE p = Root
    <3>0. j[Root] = [node |-> n, mBalance |-> b]
      BY <1>0, JoinRoot
    <3>1. j[Root] = [node |-> j[Root].node, mBalance |-> j[Root].mBalance]
      BY <1>1, <3>0
    <3> QED BY <1>1, <2>1, <3>1
  <2>2. CASE \E q \in DOMAIN l : p = Left \o q
    BY <1>1, <2>2 DEF IsTree
  <2>3. CASE \E q \in DOMAIN r : p = Right \o q
    BY <1>1, <2>3 DEF IsTree
  <2> QED BY <1>3, <2>1, <2>2, <2>3
<1>7. IsTree(j)
  BY <1>1, <1>4, <1>5, <1>6 DEF IsTree
<1>8. Sub(j, Left) = l
  <2>1. /\ IsTree(Sub(j, Left)) /\ DOMAIN Sub(j, Left) = {q \in Positions : Left \o q \in DOMAIN j}
        /\ \A q \in DOMAIN Sub(j, Left) : Sub(j, Left)[q] = j[Left \o q]
    BY <1>2, <1>7, SubTree
  <2>2. DOMAIN Sub(j, Left) = DOMAIN l
    BY <1>1, <1>2, <2>1
  <2> QED BY <1>1, <2>1, <2>2, SameTree
<1>9. Sub(j, Right) = r
  <2>1. /\ IsTree(Sub(j, Right)) /\ DOMAIN Sub(j, Right) = {q \in Positions : Right \o q \in DOMAIN j}
        /\ \A q \in DOMAIN Sub(j, Right) : Sub(j, Right)[q] = j[Right \o q]
    BY <1>2, <1>7, SubTree
  <2>2. DOMAIN Sub(j, Right) = DOMAIN r
    BY <1>1, <1>2, <2>1
  <2> QED BY <1>1, <2>1, <2>2, SameTree
<1> QED BY <1>0, <1>1, <1>7, <1>8, <1>9 DEF HasParts

LEMMA TreeIsJoin ==
  ASSUME NEW t, IsTree(t), Root \in DOMAIN t
  PROVE  /\ t = Join(t[Root].node, t[Root].mBalance, Sub(t, Left), Sub(t, Right))
         /\ IsInterval(t[Root].node) /\ t[Root].mBalance \in Int
         /\ IsTree(Sub(t, Left)) /\ IsTree(Sub(t, Right))
<1>1. PICK l : l = Sub(t, Left)
  OBVIOUS
<1>2. PICK r : r = Sub(t, Right)
  OBVIOUS
<1>3. /\ IsTree(l) /\ DOMAIN l = {q \in Positions : Left \o q \in DOMAIN t}
      /\ \A q \in DOMAIN l : l[q] = t[Left \o q]
  BY <1>1, SubTree, TurnPositions
<1>4. /\ IsTree(r) /\ DOMAIN r = {q \in Positions : Right \o q \in DOMAIN t}
      /\ \A q \in DOMAIN r : r[q] = t[Right \o q]
  BY <1>2, SubTree, TurnPositions
<1>5. PICK n, b : n = t[Root].node /\ b = t[Root].mBalance
  OBVIOUS
<1>6. IsInterval(n) /\ b \in Int /\ t[Root] = [node |-> n, mBalance |-> b]
  BY <1>5 DEF IsTree
<1>7. PICK j : j = Join(n, b, l, r)
  OBVIOUS
<1>8. /\ IsTree(j) /\ Root \in DOMAIN j
      /\ DOMAIN j \subseteq Positions
      /\ \A q \in Positions : Left \o q \in DOMAIN j <=> q \in DOMAIN l
      /\ \A q \in Positions : Right \o q \in DOMAIN j <=> q \in DOMAIN r
      /\ \A q \in DOMAIN l : j[Left \o q] = l[q]
      /\ \A q \in DOMAIN r : j[Right \o q] = r[q]
  <2>1. IsTree(j)
    BY <1>3, <1>4, <1>6, <1>7, JoinTree DEF HasParts
  <2> QED BY <1>3, <1>4, <1>7, <2>1, JoinDomain
<1>8a. j[Root] = t[Root]
  BY <1>6, <1>7, JoinRoot
<1>9. DOMAIN t \subseteq Positions
  BY DEF IsTree
<1>10. ASSUME NEW p \in Positions
       PROVE  (p \in DOMAIN t <=> p \in DOMAIN j) /\ (p \in DOMAIN t => t[p] = j[p])
  <2>1. CASE p = Root
    BY <1>8, <1>8a, <2>1
  <2>2. CASE \E q \in Positions : p = Left \o q
    BY <1>3, <1>8, <2>2
  <2>3. CASE \E q \in Positions : p = Right \o q
    BY <1>4, <1>8, <2>3
  <2> QED BY <2>1, <2>2, <2>3, TwoSides
<1>11. DOMAIN t = DOMAIN j /\ \A p \in DOMAIN t : t[p] = j[p]
  BY <1>8, <1>9, <1>10
<1>12. t = j
  BY <1>8, <1>11, SameTree
<1> QED BY <1>1, <1>2, <1>3, <1>4, <1>5, <1>6, <1>7, <1>12

LEMMA JoinNodes ==
  ASSUME NEW l, NEW r, IsTree(l), IsTree(r), NEW n, NEW b
  PROVE  Nodes(Join(n, b, l, r)) = {n} \cup Nodes(l) \cup Nodes(r)
<1>1. PICK j : j = Join(n, b, l, r)
  OBVIOUS
<1>2. /\ DOMAIN j \subseteq Positions
      /\ Root \in DOMAIN j /\ j[Root].node = n /\ j[Root].mBalance = b
      /\ \A q \in Positions : Left \o q \in DOMAIN j <=> q \in DOMAIN l
      /\ \A q \in Positions : Right \o q \in DOMAIN j <=> q \in DOMAIN r
      /\ \A q \in DOMAIN l : j[Left \o q] = l[q]
      /\ \A q \in DOMAIN r : j[Right \o q] = r[q]
  BY <1>1, JoinDomain
<1>3. DOMAIN l \subseteq Positions /\ DOMAIN r \subseteq Positions
  BY DEF IsTree
<1>4. j[Root].node = n
  BY <1>2
<1>5. ASSUME NEW p \in DOMAIN j PROVE j[p].node \in {n} \cup Nodes(l) \cup Nodes(r)
  <2>1. CASE p = Root
    BY <1>4, <2>1
  <2>2. CASE \E q \in Positions : p = Left \o q
    BY <1>2, <2>2 DEF Nodes
  <2>3. CASE \E q \in Positions : p = Right \o q
    BY <1>2, <2>3 DEF Nodes
  <2> QED BY <1>2, <2>1, <2>2, <2>3, TwoSides
<1>6. Nodes(l) \subseteq Nodes(j)
  BY <1>2, <1>3 DEF Nodes
<1>7. Nodes(r) \subseteq Nodes(j)
  BY <1>2, <1>3 DEF Nodes
<1>8. n \in Nodes(j)
  BY <1>2, <1>4 DEF Nodes
<1>9. Nodes(j) \subseteq {n} \cup Nodes(l) \cup Nodes(r)
  BY <1>5 DEF Nodes
<1> QED BY <1>1, <1>6, <1>7, <1>8, <1>9

LEMMA JoinHeight ==
  ASSUME NEW l, NEW r, IsTree(l), IsTree(r), NEW n, IsInterval(n), NEW b, b \in Int
  PROVE  Height(Join(n, b, l, r)) = 1 + (IF Height(l) > Height(r) THEN Height(l) ELSE Height(r))
<1>1. PICK j : j = Join(n, b, l, r)
  OBVIOUS
<1>2. IsTree(j)
  BY <1>1, JoinTree DEF HasParts
<1>3. /\ DOMAIN j \subseteq Positions /\ Root \in DOMAIN j
      /\ \A q \in Positions : Left \o q \in DOMAIN j <=> q \in DOMAIN l
      /\ \A q \in Positions : Right \o q \in DOMAIN j <=> q \in DOMAIN r
  BY <1>1, JoinDomain
<1>4. DOMAIN l \subseteq Positions /\ DOMAIN r \subseteq Positions
  BY DEF IsTree
<1>5. PICK h, k : h = Height(l) /\ k = Height(r)
  OBVIOUS
<1>6. /\ h \in Nat /\ (h = 0 <=> DOMAIN l = {})
      /\ \A p \in DOMAIN l : Len(p) < h
      /\ DOMAIN l # {} => \E p \in DOMAIN l : Len(p) + 1 = h
  BY <1>5, HeightFacts
<1>7. /\ k \in Nat /\ (k = 0 <=> DOMAIN r = {})
      /\ \A p \in DOMAIN r : Len(p) < k
      /\ DOMAIN r # {} => \E p \in DOMAIN r : Len(p) + 1 = k
  BY <1>5, HeightFacts
<1>8. PICK m \in Nat : m = 1 + (IF h > k THEN h ELSE k)
  BY <1>6, <1>7
<1>9. ASSUME NEW p \in DOMAIN j PROVE Len(p) < m
  <2>1. CASE p = Root
    BY <1>6, <1>7, <1>8, <2>1, RootPosition
  <2>2. ASSUME NEW q \in Positions, p = Left \o q PROVE Len(p) < m
    <3>1. Len(p) = Len(q) + 1 /\ Len(q) \in Nat /\ Len(q) < h
      BY <1>3, <1>6, <2>2, Apart, LenNat
    <3> QED BY <1>6, <1>7, <1>8, <3>1
  <2>3. ASSUME NEW q \in Positions, p = Right \o q PROVE Len(p) < m
    <3>1. Len(p) = Len(q) + 1 /\ Len(q) \in Nat /\ Len(q) < k
      BY <1>3, <1>7, <2>3, Apart, LenNat
    <3> QED BY <1>6, <1>7, <1>8, <3>1
  <2> QED BY <1>3, <2>1, <2>2, <2>3, TwoSides
<1>10. \E p \in DOMAIN j : Len(p) + 1 = m
  <2>1. CASE h > k
    <3>0. h # 0
      BY <1>6, <1>7, <2>1
    <3>1. PICK q \in DOMAIN l : Len(q) + 1 = h
      BY <1>6, <3>0
    <3>2. Left \o q \in DOMAIN j /\ Len(Left \o q) = Len(q) + 1 /\ Len(q) \in Nat
      BY <1>3, <1>4, Apart, LenNat
    <3>3. m = 1 + h
      BY <1>6, <1>7, <1>8, <2>1
    <3>4. Len(Left \o q) + 1 = m
      BY <3>1, <3>2, <3>3
    <3> QED BY <3>2, <3>4
  <2>2. CASE ~ (h > k) /\ k > 0
    <3>0. k # 0
      BY <2>2
    <3>1. PICK q \in DOMAIN r : Len(q) + 1 = k
      BY <1>7, <3>0
    <3>2. Right \o q \in DOMAIN j /\ Len(Right \o q) = Len(q) + 1 /\ Len(q) \in Nat
      BY <1>3, <1>4, Apart, LenNat
    <3>3. m = 1 + k
      BY <1>6, <1>7, <1>8, <2>2
    <3>4. Len(Right \o q) + 1 = m
      BY <3>1, <3>2, <3>3
    <3> QED BY <3>2, <3>4
  <2>3. CASE h = 0 /\ k = 0
    BY <1>3, <1>8, <2>3, RootPosition
  <2> QED BY <1>6, <1>7, <2>1, <2>2, <2>3
<1>11. Height(j) = m
  BY <1>2, <1>9, <1>10, HeightIs
<1> QED BY <1>1, <1>5, <1>8, <1>11

------------------------------------------------------------------------------
(***************************************************************************)
(* AVL trees: what an insertion into a subtree makes of its parent.        *)
(***************************************************************************)
Higher(l, r) == IF Height(l) > Height(r) THEN Height(l) ELSE Height(r)

Fits(n, b, l, r) ==
  /\ n.mLb < n.mUb
  /\ \A m \in Nodes(l) : m.mUb <= n.mLb
  /\ \A m \in Nodes(r) : n.mUb <= m.mLb
  /\ b = Height(r) - Height(l) /\ b \in {-1, 0, 1}

LEMMA JoinAvl ==
  ASSUME NEW l, NEW r, IsTree(l), IsTree(r), NEW n, IsInterval(n), NEW b, b \in Int
  PROVE  IsAvl(Join(n, b, l, r)) <=> IsAvl(l) /\ IsAvl(r) /\ Fits(n, b, l, r)
<1> DEFINE Good(t, p) == Fits(t[p].node, t[p].mBalance, Sub(t, p \o Left), Sub(t, p \o Right))
<1>1. \A t : IsAvl(t) <=> \A p \in DOMAIN t : Good(t, p)
  BY DEF IsAvl, Fits
<1> HIDE DEF Good
<1>2. PICK j : j = Join(n, b, l, r)
  OBVIOUS
<1>3. /\ IsTree(j) /\ Root \in DOMAIN j /\ j[Root].node = n /\ j[Root].mBalance = b
      /\ Sub(j, Left) = l /\ Sub(j, Right) = r
  <2>1. HasParts(Join(n, b, l, r), n, b, l, r)
    BY JoinTree
  <2> QED BY <1>2, <2>1 DEF HasParts
<1>4. /\ DOMAIN j \subseteq Positions
      /\ \A q \in Positions : Left \o q \in DOMAIN j <=> q \in DOMAIN l
      /\ \A q \in Positions : Right \o q \in DOMAIN j <=> q \in DOMAIN r
      /\ \A q \in DOMAIN l : j[Left \o q] = l[q]
      /\ \A q \in DOMAIN r : j[Right \o q] = r[q]
  BY <1>2, JoinDomain
<1>5. Left \in Positions /\ Right \in Positions /\ DOMAIN l \subseteq Positions /\ DOMAIN r \subseteq Positions
  BY TurnPositions DEF IsTree
<1>6. Root \o Left = Left /\ Root \o Right = Right
  BY <1>5, ConcatRoot
<1>7. Good(j, Root) <=> Fits(n, b, l, r)
  BY <1>3, <1>6 DEF Good
<1>8. ASSUME NEW q \in DOMAIN l PROVE Good(j, Left \o q) <=> Good(l, q)
  <2>1. q \in Positions /\ q \o Left \in Positions /\ q \o Right \in Positions
    BY <1>5, ConcatFacts
  <2>2. (Left \o q) \o Left = Left \o (q \o Left) /\ (Left \o q) \o Right = Left \o (q \o Right)
    BY <1>5, <2>1, ConcatAssoc
  <2>3. /\ Sub(j, Left \o (q \o Left)) = Sub(l, q \o Left)
        /\ Sub(j, Left \o (q \o Right)) = Sub(l, q \o Right)
    BY <1>3, <1>5, <2>1, SubSub
  <2> QED BY <1>4, <2>2, <2>3 DEF Good
<1>9. ASSUME NEW q \in DOMAIN r PROVE Good(j, Right \o q) <=> Good(r, q)
  <2>1. q \in Positions /\ q \o Left \in Positions /\ q \o Right \in Positions
    BY <1>5, ConcatFacts
  <2>2. (Right \o q) \o Left = Right \o (q \o Left) /\ (Right \o q) \o Right = Right \o (q \o Right)
    BY <1>5, <2>1, ConcatAssoc
  <2>3. /\ Sub(j, Right \o (q \o Left)) = Sub(r, q \o Left)
        /\ Sub(j, Right \o (q \o Right)) = Sub(r, q \o Right)
    BY <1>3, <1>5, <2>1, SubSub
  <2> QED BY <1>4, <2>2, <2>3 DEF Good
<1>10. (\A p \in DOMAIN j : Good(j, p))
         <=> (\A q \in DOMAIN l : Good(l, q)) /\ (\A q \in DOMAIN r : Good(r, q)) /\ Good(j, Root)
  <2>1. ASSUME NEW p \in DOMAIN j
        PROVE  \/ p = Root
               \/ \E q \in DOMAIN l : p = Left \o q
               \/ \E q \in DOMAIN r : p = Right \o q
    BY <1>4, TwoSides
  <2>2. /\ \A q \in DOMAIN l : Left \o q \in DOMAIN j
        /\ \A q \in DOMAIN r : Right \o q \in DOMAIN j
    BY <1>4, <1>5
  <2>3. ASSUME \A p \in DOMAIN j : Good(j, p)
        PROVE  (\A q \in DOMAIN l : Good(l, q)) /\ (\A q \in DOMAIN r : Good(r, q)) /\ Good(j, Root)
    <3>1. \A q \in DOMAIN l : Good(l, q)
      BY <1>8, <2>2, <2>3, Zenon
    <3>2. \A q \in DOMAIN r : Good(r, q)
      BY <1>9, <2>2, <2>3, Zenon
    <3>3. Good(j, Root)
      BY <1>3, <2>3
    <3> QED BY <3>1, <3>2, <3>3
  <2>4. ASSUME \A q \in DOMAIN l : Good(l, q), \A q \in DOMAIN r : Good(r, q), Good(j, Root),
               NEW p \in DOMAIN j
        PROVE  Good(j, p)
    <3>1. CASE p = Root
      BY <2>4, <3>1
    <3>2. CASE \E q \in DOMAIN l : p = Left \o q
      BY <1>8, <2>4, <3>2, Zenon
    <3>3. CASE \E q \in DOMAIN r : p = Right \o q
      BY <1>9, <2>4, <3>3, Zenon
    <3> QED BY <2>1, <3>1, <3>2, <3>3
  <2> QED BY <2>3, <2>4, Zenon
<1> QED BY <1>1, <1>2, <1>7, <1>10

LEMMA NodeIntervals ==
  ASSUME NEW t, IsTree(t)
  PROVE  \A m \in Nodes(t) : IsInterval(m)
BY DEF IsTree, Nodes

LEMMA Joined ==
  ASSUME NEW l, NEW r, IsTree(l), IsTree(r), NEW n, IsInterval(n), NEW b, b \in Int
  PROVE  LET j == Join(n, b, l, r)
         IN  /\ IsTree(j) /\ Root \in DOMAIN j /\ j[Root].node = n /\ j[Root].mBalance = b
             /\ Sub(j, Left) = l /\ Sub(j, Right) = r
             /\ Nodes(j) = {n} \cup Nodes(l) \cup Nodes(r)
             /\ Height(j) = 1 + Higher(l, r)
             /\ IsAvl(j) <=> IsAvl(l) /\ IsAvl(r) /\ Fits(n, b, l, r)
<1>0. PICK j : j = Join(n, b, l, r)
  OBVIOUS
<1>1. /\ IsTree(j) /\ Root \in DOMAIN j /\ j[Root].node = n /\ j[Root].mBalance = b
      /\ Sub(j, Left) = l /\ Sub(j, Right) = r
  <2>1. HasParts(Join(n, b, l, r), n, b, l, r)
    BY JoinTree
  <2> QED BY <1>0, <2>1 DEF HasParts
<1>2. Nodes(j) = {n} \cup Nodes(l) \cup Nodes(r)
  BY <1>0, JoinNodes
<1>3. Height(j) = 1 + Higher(l, r)
  BY <1>0, JoinHeight DEF Higher
<1>4. IsAvl(j) <=> IsAvl(l) /\ IsAvl(r) /\ Fits(n, b, l, r)
  BY <1>0, JoinAvl
<1> QED BY <1>0, <1>1, <1>2, <1>3, <1>4

IsBalance(b) == b \in {-1, 0, 1}

LEMMA JoinedAvl ==
  ASSUME NEW l, NEW r, IsTree(l), IsTree(r), IsAvl(l), IsAvl(r), NEW n, IsInterval(n),
         NEW b, IsBalance(b), Fits(n, b, l, r)
  PROVE  LET j == Join(n, b, l, r)
         IN  /\ IsTree(j) /\ IsAvl(j) /\ j[Root].mBalance = b
             /\ Nodes(j) = {n} \cup Nodes(l) \cup Nodes(r)
             /\ Height(j) = 1 + Higher(l, r)
<1>1. b \in Int
  BY DEF IsBalance
<1>2. PICK j : j = Join(n, b, l, r)
  OBVIOUS
<1>3. /\ IsTree(j) /\ j[Root].mBalance = b
      /\ Nodes(j) = {n} \cup Nodes(l) \cup Nodes(r)
      /\ Height(j) = 1 + Higher(l, r)
  BY <1>1, <1>2, Joined
<1>4. IsAvl(j)
  BY <1>1, <1>2, Joined
<1> QED BY <1>2, <1>3, <1>4

LEMMA HeightNat ==
  ASSUME NEW t, IsTree(t)
  PROVE  Height(t) \in Nat /\ (Height(t) = 0 <=> DOMAIN t = {})
BY HeightFacts

LEMMA AvlParts ==
  ASSUME NEW t, IsTree(t), IsAvl(t), Root \in DOMAIN t,
         NEW n, n = t[Root].node, NEW b, b = t[Root].mBalance,
         NEW l, l = Sub(t, Left), NEW r, r = Sub(t, Right)
  PROVE  /\ IsInterval(n) /\ b \in Int /\ IsTree(l) /\ IsTree(r) /\ IsAvl(l) /\ IsAvl(r)
         /\ Fits(n, b, l, r) /\ Nodes(t) = {n} \cup Nodes(l) \cup Nodes(r)
         /\ Height(t) = 1 + Higher(l, r)
<1>1. t = Join(n, b, l, r) /\ IsInterval(n) /\ b \in Int /\ IsTree(l) /\ IsTree(r)
  BY TreeIsJoin
<1> QED BY <1>1, Joined

\* What a subtree becomes by an insertion.
Grows(t, node, new) ==
  /\ IsTree(new.t) /\ IsAvl(new.t) /\ new.chg \in BOOLEAN
  /\ Nodes(new.t) = Nodes(t) \cup {node}
  /\ Height(new.t) = Height(t) + (IF new.chg THEN 1 ELSE 0)
  /\ new.chg => new.t[Root].mBalance # 0 \/ Height(new.t) = 1

LEMMA LeftGrows ==
  ASSUME NEW t, IsTree(t), IsAvl(t), Root \in DOMAIN t, NEW node, IsInterval(node),
         node.mUb <= t[Root].node.mLb, NEW new, Grows(Sub(t, Left), node, new)
  PROVE  Grows(t, node, GrownLeft(t, new))
<1>1. PICK n, b, l, r : /\ n = t[Root].node /\ b = t[Root].mBalance
                        /\ l = Sub(t, Left) /\ r = Sub(t, Right)
  OBVIOUS
<1>2. PICK s, chg : s = new.t /\ chg = new.chg
  OBVIOUS
<1>3. /\ IsInterval(n) /\ b \in Int /\ IsTree(l) /\ IsTree(r) /\ IsAvl(l) /\ IsAvl(r)
      /\ Fits(n, b, l, r) /\ Nodes(t) = {n} \cup Nodes(l) \cup Nodes(r)
      /\ Height(t) = 1 + Higher(l, r)
  BY <1>1, AvlParts
<1>4. /\ IsTree(s) /\ IsAvl(s) /\ chg \in BOOLEAN /\ Nodes(s) = Nodes(l) \cup {node}
      /\ Height(s) = Height(l) + (IF chg THEN 1 ELSE 0)
      /\ chg => s[Root].mBalance # 0 \/ Height(s) = 1
  BY <1>1, <1>2 DEF Grows
<1>5. Height(l) \in Nat /\ Height(r) \in Nat /\ Height(s) \in Nat
  BY <1>3, <1>4, HeightNat
<1>6. \A m \in Nodes(s) : IsInterval(m) /\ m.mUb <= n.mLb
  BY <1>1, <1>3, <1>4, NodeIntervals DEF Fits
<1>7. \A m \in Nodes(r) : IsInterval(m) /\ n.mUb <= m.mLb
  BY <1>3, NodeIntervals DEF Fits
<1>8. n.mLb < n.mUb /\ n.mLb \in Int /\ n.mUb \in Int
  BY <1>3 DEF Fits, IsInterval
<1>9. b = Height(r) - Height(l) /\ b \in {-1, 0, 1}
  BY <1>3 DEF Fits
<1>10. PICK g : g = GrownLeft(t, new)
  OBVIOUS
<1>11. g = IF ~chg THEN Result(Join(n, b, s, r), FALSE)
           ELSE IF b = 1 THEN Result(Join(n, 0, s, r), FALSE)
           ELSE IF b = 0 THEN Result(Join(n, -1, s, r), TRUE)
           ELSE IF s[Root].mBalance = -1 THEN Result(RotateLL(n, s, r), FALSE)
           ELSE Result(RotateLR(n, s, r), FALSE)
  BY <1>1, <1>2, <1>10 DEF GrownLeft
<1>12. \A c \in {-1, 0, 1} : c = Height(r) - Height(s) => Fits(n, c, s, r)
  BY <1>6, <1>7, <1>8 DEF Fits
<1>13. ASSUME NEW c \in {-1, 0, 1}, c = Height(r) - Height(s), NEW j, j = Join(n, c, s, r)
       PROVE  /\ IsTree(j) /\ IsAvl(j) /\ Nodes(j) = Nodes(t) \cup {node}
              /\ Height(j) = 1 + Higher(s, r) /\ j[Root].mBalance = c
  <2>1. Fits(n, c, s, r) /\ IsBalance(c)
    BY <1>12, <1>13 DEF IsBalance
  <2>2. Nodes(j) = {n} \cup Nodes(s) \cup Nodes(r) /\ IsTree(j) /\ IsAvl(j)
        /\ Height(j) = 1 + Higher(s, r) /\ j[Root].mBalance = c
    <3>1. IsTree(s) /\ IsTree(r) /\ IsAvl(s) /\ IsAvl(r) /\ IsInterval(n) /\ j = Join(n, c, s, r)
      BY <1>3, <1>4, <1>13
    <3> QED BY <2>1, <3>1, JoinedAvl
  <2> QED BY <1>3, <1>4, <2>2
<1>14. \A x : Result(x, TRUE).t = x /\ Result(x, FALSE).t = x
              /\ Result(x, TRUE).chg = TRUE /\ Result(x, FALSE).chg = FALSE
  BY DEF Result
<1>15. CASE ~chg
  <2>1. PICK j : j = Join(n, b, s, r)
    OBVIOUS
  <2>2. b = Height(r) - Height(s) /\ Height(s) = Height(l)
    BY <1>4, <1>5, <1>9, <1>15
  <2>3. /\ IsTree(j) /\ IsAvl(j) /\ Nodes(j) = Nodes(t) \cup {node}
        /\ Height(j) = 1 + Higher(s, r)
    BY <1>9, <1>13, <2>1, <2>2
  <2>4. g.t = j /\ g.chg = FALSE
    BY <1>11, <1>14, <1>15, <2>1
  <2>5. Height(g.t) = Height(t) + 0
    BY <1>3, <1>5, <2>2, <2>3, <2>4 DEF Higher
  <2>6. Grows(t, node, g)
    BY <2>3, <2>4, <2>5 DEF Grows
  <2> QED BY <1>10, <2>6
<1>16. CASE chg /\ b = 1
  <2>1. PICK j : j = Join(n, 0, s, r)
    OBVIOUS
  <2>2. 0 = Height(r) - Height(s) /\ Height(s) = Height(l) + 1 /\ Height(r) = Height(l) + 1
    BY <1>4, <1>5, <1>9, <1>16
  <2>3. /\ IsTree(j) /\ IsAvl(j) /\ Nodes(j) = Nodes(t) \cup {node}
        /\ Height(j) = 1 + Higher(s, r)
    BY <1>13, <2>1, <2>2
  <2>4. g.t = j /\ g.chg = FALSE
    BY <1>11, <1>14, <1>16, <2>1
  <2>5. Height(g.t) = Height(t) + 0
    BY <1>3, <1>5, <2>2, <2>3, <2>4 DEF Higher
  <2>6. Grows(t, node, g)
    BY <2>3, <2>4, <2>5 DEF Grows
  <2> QED BY <1>10, <2>6
<1>17. CASE chg /\ b = 0
  <2>1. PICK j : j = Join(n, -1, s, r)
    OBVIOUS
  <2>2. -1 = Height(r) - Height(s) /\ Height(s) = Height(l) + 1 /\ Height(r) = Height(l)
    BY <1>4, <1>5, <1>9, <1>17
  <2>3. /\ IsTree(j) /\ IsAvl(j) /\ Nodes(j) = Nodes(t) \cup {node}
        /\ Height(j) = 1 + Higher(s, r) /\ j[Root].mBalance = -1
    BY <1>13, <2>1, <2>2
  <2>4. g.t = j /\ g.chg = TRUE
    <3>1. b # 1 /\ b = 0 /\ chg
      BY <1>17
    <3> QED BY <1>11, <1>14, <2>1, <3>1, Zenon
  <2>5. Height(g.t) = Height(t) + 1
    BY <1>3, <1>5, <2>2, <2>3, <2>4 DEF Higher
  <2>6. g.t[Root].mBalance # 0
    <3>1. \A x : x = -1 => x # 0
      OBVIOUS
    <3> QED BY <2>3, <2>4, <3>1, Zenon
  <2>7. Grows(t, node, g)
    BY <2>3, <2>4, <2>5, <2>6 DEF Grows
  <2> QED BY <1>10, <2>7
<1>18. CASE chg /\ b = -1
  <2>1. Height(s) = Height(r) + 2 /\ Height(l) = Height(r) + 1 /\ Height(t) = Height(r) + 2
    BY <1>3, <1>4, <1>5, <1>9, <1>18 DEF Higher
  <2>2. Root \in DOMAIN s
    <3>1. Height(s) # 0
      BY <1>5, <2>1
    <3> QED BY <1>4, <3>1, HeightNat, RootThere
  <2>3. PICK n1, b1, l1, r1 : /\ n1 = s[Root].node /\ b1 = s[Root].mBalance
                              /\ l1 = Sub(s, Left) /\ r1 = Sub(s, Right)
    OBVIOUS
  <2>4. /\ IsInterval(n1) /\ b1 \in Int /\ IsTree(l1) /\ IsTree(r1) /\ IsAvl(l1) /\ IsAvl(r1)
        /\ Fits(n1, b1, l1, r1) /\ Nodes(s) = {n1} \cup Nodes(l1) \cup Nodes(r1)
        /\ Height(s) = 1 + Higher(l1, r1)
    BY <1>4, <2>2, <2>3, AvlParts
  <2>5. Height(l1) \in Nat /\ Height(r1) \in Nat
    BY <2>4, HeightNat
  <2>6. b1 # 0
    BY <1>4, <1>5, <1>18, <2>1, <2>3
  <2>7. /\ b1 = Height(r1) - Height(l1) /\ b1 \in {-1, 0, 1} /\ n1.mLb < n1.mUb
        /\ n1.mLb \in Int /\ n1.mUb \in Int /\ n1.mUb <= n.mLb
        /\ \A m \in Nodes(l1) : IsInterval(m) /\ m.mUb <= n1.mLb
        /\ \A m \in Nodes(r1) : IsInterval(m) /\ n1.mUb <= m.mLb /\ m.mUb <= n.mLb
    BY <1>6, <2>4 DEF Fits, IsInterval
  <2>8. \A m \in Nodes(r) : n1.mUb <= m.mLb
    BY <1>7, <1>8, <2>7 DEF IsInterval
  <2>9. CASE b1 = -1
    <3>1. PICK u : u = Join(n, 0, r1, r)
      OBVIOUS
    <3>2. PICK j : j = Join(n1, 0, l1, u)
      OBVIOUS
    <3>3. Height(l1) = Height(r) + 1 /\ Height(r1) = Height(r)
      BY <1>5, <2>1, <2>4, <2>5, <2>7, <2>9 DEF Higher
    <3>4. Fits(n, 0, r1, r)
      BY <1>5, <1>7, <1>8, <2>7, <3>3 DEF Fits
    <3>5. /\ IsTree(u) /\ IsAvl(u) /\ Nodes(u) = {n} \cup Nodes(r1) \cup Nodes(r)
          /\ Height(u) = 1 + Higher(r1, r)
      BY <1>3, <2>4, <3>1, <3>4, Joined
    <3>6. Height(u) = Height(r) + 1
      BY <1>5, <3>3, <3>5 DEF Higher
    <3>7. Fits(n1, 0, l1, u)
      BY <1>5, <2>7, <2>8, <3>3, <3>5, <3>6 DEF Fits
    <3>8. /\ IsTree(j) /\ IsAvl(j) /\ Nodes(j) = {n1} \cup Nodes(l1) \cup Nodes(u)
          /\ Height(j) = 1 + Higher(l1, u)
      BY <2>4, <3>2, <3>5, <3>7, Joined
    <3>9. Height(j) = Height(t)
      BY <1>5, <2>1, <3>3, <3>6, <3>8 DEF Higher
    <3>10. Nodes(j) = Nodes(t) \cup {node}
      BY <1>3, <1>4, <2>4, <3>5, <3>8
    <3>11. g.t = j /\ g.chg = FALSE
      <4>1. RotateLL(n, s, r) = j
        BY <2>3, <3>1, <3>2, Zenon DEF RotateLL
      <4>2. b # 1 /\ b # 0 /\ chg
        BY <1>18
      <4> QED BY <1>11, <1>14, <2>3, <2>9, <4>1, <4>2, Zenon
    <3>12. Height(g.t) = Height(t) + 0
      BY <2>1, <1>5, <3>9, <3>11
    <3>13. Grows(t, node, g)
      BY <3>8, <3>10, <3>11, <3>12 DEF Grows
    <3> QED BY <1>10, <3>13
  <2>10. CASE b1 = 1
    <3>1. Height(l1) = Height(r) /\ Height(r1) = Height(r) + 1
      BY <1>5, <2>1, <2>4, <2>5, <2>7, <2>10 DEF Higher
    <3>2. Root \in DOMAIN r1
      <4>1. Height(r1) # 0
        BY <1>5, <3>1
      <4> QED BY <2>4, <4>1, HeightNat, RootThere
    <3>3. PICK n2, b2, l2, r2 : /\ n2 = r1[Root].node /\ b2 = r1[Root].mBalance
                                /\ l2 = Sub(r1, Left) /\ r2 = Sub(r1, Right)
      OBVIOUS
    <3>4. /\ IsInterval(n2) /\ b2 \in Int /\ IsTree(l2) /\ IsTree(r2) /\ IsAvl(l2) /\ IsAvl(r2)
          /\ Fits(n2, b2, l2, r2) /\ Nodes(r1) = {n2} \cup Nodes(l2) \cup Nodes(r2)
          /\ Height(r1) = 1 + Higher(l2, r2)
      BY <2>4, <3>2, <3>3, AvlParts
    <3>5. Height(l2) \in Nat /\ Height(r2) \in Nat
      BY <3>4, HeightNat
    <3>6. /\ b2 = Height(r2) - Height(l2) /\ b2 \in {-1, 0, 1} /\ n2.mLb < n2.mUb
          /\ n2.mLb \in Int /\ n2.mUb \in Int /\ n2.mUb <= n.mLb /\ n1.mUb <= n2.mLb
          /\ \A m \in Nodes(l2) : IsInterval(m) /\ m.mUb <= n2.mLb /\ n1.mUb <= m.mLb
          /\ \A m \in Nodes(r2) : IsInterval(m) /\ n2.mUb <= m.mLb /\ m.mUb <= n.mLb
      BY <2>7, <3>4 DEF Fits, IsInterval
    <3>7. PICK bl, br : /\ bl = (IF b2 = 1 THEN -1 ELSE 0) /\ br = (IF b2 = -1 THEN 1 ELSE 0)
      OBVIOUS
    <3>8. bl \in {-1, 0, 1} /\ br \in {-1, 0, 1} /\ IsBalance(bl) /\ IsBalance(br)
      BY <3>7 DEF IsBalance
    <3>9. bl = Height(l2) - Height(l1) /\ br = Height(r) - Height(r2)
      BY <1>5, <3>1, <3>4, <3>5, <3>6, <3>7 DEF Higher
    <3>10. PICK u : u = Join(n1, bl, l1, l2)
      OBVIOUS
    <3>11. PICK v : v = Join(n, br, r2, r)
      OBVIOUS
    <3>12. PICK j : j = Join(n2, 0, u, v)
      OBVIOUS
    <3>13. Fits(n1, bl, l1, l2)
      BY <2>7, <3>6, <3>8, <3>9 DEF Fits
    <3>14. Fits(n, br, r2, r)
      BY <1>7, <1>8, <3>6, <3>8, <3>9 DEF Fits
    <3>14a. IsBalance(bl) /\ IsBalance(br)
      BY <3>8
    <3>15. /\ IsTree(u) /\ IsAvl(u) /\ Nodes(u) = {n1} \cup Nodes(l1) \cup Nodes(l2)
           /\ Height(u) = 1 + Higher(l1, l2)
      BY <2>4, <3>4, <3>10, <3>13, <3>14a, JoinedAvl
    <3>16. /\ IsTree(v) /\ IsAvl(v) /\ Nodes(v) = {n} \cup Nodes(r2) \cup Nodes(r)
           /\ Height(v) = 1 + Higher(r2, r)
      BY <1>3, <3>4, <3>11, <3>14, <3>14a, JoinedAvl
    <3>17. Height(u) = Height(r) + 1 /\ Height(v) = Height(r) + 1
      BY <1>5, <3>1, <3>4, <3>5, <3>6, <3>15, <3>16 DEF Higher
    <3>18. \A m \in Nodes(u) : m.mUb <= n2.mLb
      BY <2>7, <3>6, <3>15 DEF IsInterval
    <3>19. \A m \in Nodes(v) : n2.mUb <= m.mLb
      BY <1>7, <1>8, <3>6, <3>16 DEF IsInterval
    <3>20. Fits(n2, 0, u, v)
      BY <1>5, <3>6, <3>17, <3>18, <3>19 DEF Fits
    <3>21. /\ IsTree(j) /\ IsAvl(j) /\ Nodes(j) = {n2} \cup Nodes(u) \cup Nodes(v)
           /\ Height(j) = 1 + Higher(u, v)
      BY <3>4, <3>12, <3>15, <3>16, <3>20, Joined
    <3>22. Height(j) = Height(t)
      BY <1>5, <2>1, <3>17, <3>21 DEF Higher
    <3>23. Nodes(j) = Nodes(t) \cup {node}
      BY <1>3, <1>4, <2>4, <3>4, <3>15, <3>16, <3>21
    <3>24. RotateLR(n, s, r) = j
      BY <2>3, <3>3, <3>7, <3>10, <3>11, <3>12 DEF RotateLR
    <3>25. g.t = j /\ g.chg = FALSE
      <4>1. b # 1 /\ b # 0 /\ chg /\ b1 # -1
        BY <1>18, <2>10
      <4> QED BY <1>11, <1>14, <2>3, <3>24, <4>1, Zenon
    <3>26. Height(g.t) = Height(t) + 0
      BY <2>1, <1>5, <3>22, <3>25
    <3>27. Grows(t, node, g)
      BY <3>21, <3>23, <3>25, <3>26 DEF Grows
    <3> QED BY <1>10, <3>27
  <2> QED BY <2>6, <2>7, <2>9, <2>10
<1> QED BY <1>4, <1>9, <1>15, <1>16, <1>17, <1>18

LEMMA RightGrows ==
  ASSUME NEW t, IsTree(t), IsAvl(t), Root \in DOMAIN t, NEW node, IsInterval(node),
         t[Root].node.mUb <= node.mLb, NEW new, Grows(Sub(t, Right), node, new)
  PROVE  Grows(t, node, GrownRight(t, new))
<1>1. PICK n, b, r, l : /\ n = t[Root].node /\ b = t[Root].mBalance
                        /\ r = Sub(t, Right) /\ l = Sub(t, Left)
  OBVIOUS
<1>2. PICK s, chg : s = new.t /\ chg = new.chg
  OBVIOUS
<1>3. /\ IsInterval(n) /\ b \in Int /\ IsTree(r) /\ IsTree(l) /\ IsAvl(r) /\ IsAvl(l)
      /\ Fits(n, b, l, r) /\ Nodes(t) = {n} \cup Nodes(r) \cup Nodes(l)
      /\ Height(t) = 1 + Higher(l, r)
  BY <1>1, AvlParts
<1>4. /\ IsTree(s) /\ IsAvl(s) /\ chg \in BOOLEAN /\ Nodes(s) = Nodes(r) \cup {node}
      /\ Height(s) = Height(r) + (IF chg THEN 1 ELSE 0)
      /\ chg => s[Root].mBalance # 0 \/ Height(s) = 1
  BY <1>1, <1>2 DEF Grows
<1>5. Height(r) \in Nat /\ Height(l) \in Nat /\ Height(s) \in Nat
  BY <1>3, <1>4, HeightNat
<1>6. \A m \in Nodes(s) : IsInterval(m) /\ n.mUb <= m.mLb
  BY <1>1, <1>3, <1>4, NodeIntervals DEF Fits
<1>7. \A m \in Nodes(l) : IsInterval(m) /\ m.mUb <= n.mLb
  BY <1>3, NodeIntervals DEF Fits
<1>8. n.mLb < n.mUb /\ n.mLb \in Int /\ n.mUb \in Int
  BY <1>3 DEF Fits, IsInterval
<1>9. b = Height(r) - Height(l) /\ b \in {-1, 0, 1}
  BY <1>3 DEF Fits
<1>10. PICK g : g = GrownRight(t, new)
  OBVIOUS
<1>11. g = IF ~chg THEN Result(Join(n, b, l, s), FALSE)
           ELSE IF b = -1 THEN Result(Join(n, 0, l, s), FALSE)
           ELSE IF b = 0 THEN Result(Join(n, 1, l, s), TRUE)
           ELSE IF s[Root].mBalance = 1 THEN Result(RotateRR(n, l, s), FALSE)
           ELSE Result(RotateRL(n, l, s), FALSE)
  BY <1>1, <1>2, <1>10 DEF GrownRight
<1>12. \A c \in {-1, 0, 1} : c = Height(s) - Height(l) => Fits(n, c, l, s)
  BY <1>6, <1>7, <1>8 DEF Fits
<1>13. ASSUME NEW c \in {-1, 0, 1}, c = Height(s) - Height(l), NEW j, j = Join(n, c, l, s)
       PROVE  /\ IsTree(j) /\ IsAvl(j) /\ Nodes(j) = Nodes(t) \cup {node}
              /\ Height(j) = 1 + Higher(l, s) /\ j[Root].mBalance = c
  <2>1. Fits(n, c, l, s) /\ IsBalance(c)
    BY <1>12, <1>13 DEF IsBalance
  <2>2. Nodes(j) = {n} \cup Nodes(l) \cup Nodes(s) /\ IsTree(j) /\ IsAvl(j)
        /\ Height(j) = 1 + Higher(l, s) /\ j[Root].mBalance = c
    <3>1. IsTree(s) /\ IsTree(l) /\ IsAvl(s) /\ IsAvl(l) /\ IsInterval(n) /\ j = Join(n, c, l, s)
      BY <1>3, <1>4, <1>13
    <3> QED BY <2>1, <3>1, JoinedAvl
  <2> QED BY <1>3, <1>4, <2>2
<1>14. \A x : Result(x, TRUE).t = x /\ Result(x, FALSE).t = x
              /\ Result(x, TRUE).chg = TRUE /\ Result(x, FALSE).chg = FALSE
  BY DEF Result
<1>15. CASE ~chg
  <2>1. PICK j : j = Join(n, b, l, s)
    OBVIOUS
  <2>2. b = Height(s) - Height(l) /\ Height(s) = Height(r)
    BY <1>4, <1>5, <1>9, <1>15
  <2>3. /\ IsTree(j) /\ IsAvl(j) /\ Nodes(j) = Nodes(t) \cup {node}
        /\ Height(j) = 1 + Higher(l, s)
    BY <1>9, <1>13, <2>1, <2>2
  <2>4. g.t = j /\ g.chg = FALSE
    BY <1>11, <1>14, <1>15, <2>1
  <2>5. Height(g.t) = Height(t) + 0
    BY <1>3, <1>5, <2>2, <2>3, <2>4 DEF Higher
  <2>6. Grows(t, node, g)
    BY <2>3, <2>4, <2>5 DEF Grows
  <2> QED BY <1>10, <2>6
<1>16. CASE chg /\ b = -1
  <2>1. PICK j : j = Join(n, 0, l, s)
    OBVIOUS
  <2>2. 0 = Height(s) - Height(l) /\ Height(s) = Height(r) + 1 /\ Height(l) = Height(r) + 1
    BY <1>4, <1>5, <1>9, <1>16
  <2>3. /\ IsTree(j) /\ IsAvl(j) /\ Nodes(j) = Nodes(t) \cup {node}
        /\ Height(j) = 1 + Higher(l, s)
    BY <1>13, <2>1, <2>2
  <2>4. g.t = j /\ g.chg = FALSE
    BY <1>11, <1>14, <1>16, <2>1
  <2>5. Height(g.t) = Height(t) + 0
    BY <1>3, <1>5, <2>2, <2>3, <2>4 DEF Higher
  <2>6. Grows(t, node, g)
    BY <2>3, <2>4, <2>5 DEF Grows
  <2> QED BY <1>10, <2>6
<1>17. CASE chg /\ b = 0
  <2>1. PICK j : j = Join(n, 1, l, s)
    OBVIOUS
  <2>2. 1 = Height(s) - Height(l) /\ Height(s) = Height(r) + 1 /\ Height(l) = Height(r)
    BY <1>4, <1>5, <1>9, <1>17
  <2>3. /\ IsTree(j) /\ IsAvl(j) /\ Nodes(j) = Nodes(t) \cup {node}
        /\ Height(j) = 1 + Higher(l, s) /\ j[Root].mBalance = 1
    BY <1>13, <2>1, <2>2
  <2>4. g.t = j /\ g.chg = TRUE
    <3>1. b # -1 /\ b = 0 /\ chg
      BY <1>17
    <3> QED BY <1>11, <1>14, <2>1, <3>1, Zenon
  <2>5. Height(g.t) = Height(t) + 1
    BY <1>3, <1>5, <2>2, <2>3, <2>4 DEF Higher
  <2>6. g.t[Root].mBalance # 0
    <3>1. \A x : x = 1 => x # 0
      OBVIOUS
    <3> QED BY <2>3, <2>4, <3>1, Zenon
  <2>7. Grows(t, node, g)
    BY <2>3, <2>4, <2>5, <2>6 DEF Grows
  <2> QED BY <1>10, <2>7
<1>18. CASE chg /\ b = 1
  <2>1. Height(s) = Height(l) + 2 /\ Height(r) = Height(l) + 1 /\ Height(t) = Height(l) + 2
    BY <1>3, <1>4, <1>5, <1>9, <1>18 DEF Higher
  <2>2. Root \in DOMAIN s
    <3>1. Height(s) # 0
      BY <1>5, <2>1
    <3> QED BY <1>4, <3>1, HeightNat, RootThere
  <2>3. PICK n1, b1, r1, l1 : /\ n1 = s[Root].node /\ b1 = s[Root].mBalance
                              /\ r1 = Sub(s, Right) /\ l1 = Sub(s, Left)
    OBVIOUS
  <2>4. /\ IsInterval(n1) /\ b1 \in Int /\ IsTree(r1) /\ IsTree(l1) /\ IsAvl(r1) /\ IsAvl(l1)
        /\ Fits(n1, b1, l1, r1) /\ Nodes(s) = {n1} \cup Nodes(r1) \cup Nodes(l1)
        /\ Height(s) = 1 + Higher(l1, r1)
    BY <1>4, <2>2, <2>3, AvlParts
  <2>5. Height(r1) \in Nat /\ Height(l1) \in Nat
    BY <2>4, HeightNat
  <2>6. b1 # 0
    BY <1>4, <1>5, <1>18, <2>1, <2>3
  <2>7. /\ b1 = Height(r1) - Height(l1) /\ b1 \in {-1, 0, 1} /\ n1.mLb < n1.mUb
        /\ n1.mLb \in Int /\ n1.mUb \in Int /\ n.mUb <= n1.mLb
        /\ \A m \in Nodes(r1) : IsInterval(m) /\ n1.mUb <= m.mLb
        /\ \A m \in Nodes(l1) : IsInterval(m) /\ m.mUb <= n1.mLb /\ n.mUb <= m.mLb
    BY <1>6, <2>4 DEF Fits, IsInterval
  <2>8. \A m \in Nodes(l) : m.mUb <= n1.mLb
    BY <1>7, <1>8, <2>7 DEF IsInterval
  <2>9. CASE b1 = 1
    <3>1. PICK u : u = Join(n, 0, l, l1)
      OBVIOUS
    <3>2. PICK j : j = Join(n1, 0, u, r1)
      OBVIOUS
    <3>3. Height(r1) = Height(l) + 1 /\ Height(l1) = Height(l)
      BY <1>5, <2>1, <2>4, <2>5, <2>7, <2>9 DEF Higher
    <3>4. Fits(n, 0, l, l1)
      BY <1>5, <1>7, <1>8, <2>7, <3>3 DEF Fits
    <3>5. /\ IsTree(u) /\ IsAvl(u) /\ Nodes(u) = {n} \cup Nodes(l1) \cup Nodes(l)
          /\ Height(u) = 1 + Higher(l, l1)
      BY <1>3, <2>4, <3>1, <3>4, Joined
    <3>6. Height(u) = Height(l) + 1
      BY <1>5, <3>3, <3>5 DEF Higher
    <3>7. Fits(n1, 0, u, r1)
      BY <1>5, <2>7, <2>8, <3>3, <3>5, <3>6 DEF Fits
    <3>8. /\ IsTree(j) /\ IsAvl(j) /\ Nodes(j) = {n1} \cup Nodes(r1) \cup Nodes(u)
          /\ Height(j) = 1 + Higher(u, r1)
      BY <2>4, <3>2, <3>5, <3>7, Joined
    <3>9. Height(j) = Height(t)
      BY <1>5, <2>1, <3>3, <3>6, <3>8 DEF Higher
    <3>10. Nodes(j) = Nodes(t) \cup {node}
      BY <1>3, <1>4, <2>4, <3>5, <3>8
    <3>11. g.t = j /\ g.chg = FALSE
      <4>1. RotateRR(n, l, s) = j
        BY <2>3, <3>1, <3>2, Zenon DEF RotateRR
      <4>2. b # -1 /\ b # 0 /\ chg
        BY <1>18
      <4> QED BY <1>11, <1>14, <2>3, <2>9, <4>1, <4>2, Zenon
    <3>12. Height(g.t) = Height(t) + 0
      BY <2>1, <1>5, <3>9, <3>11
    <3>13. Grows(t, node, g)
      BY <3>8, <3>10, <3>11, <3>12 DEF Grows
    <3> QED BY <1>10, <3>13
  <2>10. CASE b1 = -1
    <3>1. Height(r1) = Height(l) /\ Height(l1) = Height(l) + 1
      BY <1>5, <2>1, <2>4, <2>5, <2>7, <2>10 DEF Higher
    <3>2. Root \in DOMAIN l1
      <4>1. Height(l1) # 0
        BY <1>5, <3>1
      <4> QED BY <2>4, <4>1, HeightNat, RootThere
    <3>3. PICK n2, b2, r2, l2 : /\ n2 = l1[Root].node /\ b2 = l1[Root].mBalance
                                /\ r2 = Sub(l1, Right) /\ l2 = Sub(l1, Left)
      OBVIOUS
    <3>4. /\ IsInterval(n2) /\ b2 \in Int /\ IsTree(r2) /\ IsTree(l2) /\ IsAvl(r2) /\ IsAvl(l2)
          /\ Fits(n2, b2, l2, r2) /\ Nodes(l1) = {n2} \cup Nodes(r2) \cup Nodes(l2)
          /\ Height(l1) = 1 + Higher(l2, r2)
      BY <2>4, <3>2, <3>3, AvlParts
    <3>5. Height(r2) \in Nat /\ Height(l2) \in Nat
      BY <3>4, HeightNat
    <3>6. /\ b2 = Height(r2) - Height(l2) /\ b2 \in {-1, 0, 1} /\ n2.mLb < n2.mUb
          /\ n2.mLb \in Int /\ n2.mUb \in Int /\ n.mUb <= n2.mLb /\ n2.mUb <= n1.mLb
          /\ \A m \in Nodes(r2) : IsInterval(m) /\ n2.mUb <= m.mLb /\ m.mUb <= n1.mLb
          /\ \A m \in Nodes(l2) : IsInterval(m) /\ m.mUb <= n2.mLb /\ n.mUb <= m.mLb
      BY <2>7, <3>4 DEF Fits, IsInterval
    <3>7. PICK br, bl : /\ br = (IF b2 = -1 THEN 1 ELSE 0) /\ bl = (IF b2 = 1 THEN -1 ELSE 0)
      OBVIOUS
    <3>8. br \in {-1, 0, 1} /\ bl \in {-1, 0, 1} /\ IsBalance(br) /\ IsBalance(bl)
      BY <3>7 DEF IsBalance
    <3>9. br = Height(r1) - Height(r2) /\ bl = Height(l2) - Height(l)
      BY <1>5, <3>1, <3>4, <3>5, <3>6, <3>7 DEF Higher
    <3>10. PICK u : u = Join(n1, br, r2, r1)
      OBVIOUS
    <3>11. PICK v : v = Join(n, bl, l, l2)
      OBVIOUS
    <3>12. PICK j : j = Join(n2, 0, v, u)
      OBVIOUS
    <3>13. Fits(n1, br, r2, r1)
      BY <2>7, <3>6, <3>8, <3>9 DEF Fits
    <3>14. Fits(n, bl, l, l2)
      BY <1>7, <1>8, <3>6, <3>8, <3>9 DEF Fits
    <3>14a. IsBalance(br) /\ IsBalance(bl)
      BY <3>8
    <3>15. /\ IsTree(u) /\ IsAvl(u) /\ Nodes(u) = {n1} \cup Nodes(r1) \cup Nodes(r2)
           /\ Height(u) = 1 + Higher(r2, r1)
      BY <2>4, <3>4, <3>10, <3>13, <3>14a, JoinedAvl
    <3>16. /\ IsTree(v) /\ IsAvl(v) /\ Nodes(v) = {n} \cup Nodes(l2) \cup Nodes(l)
           /\ Height(v) = 1 + Higher(l, l2)
      BY <1>3, <3>4, <3>11, <3>14, <3>14a, JoinedAvl
    <3>17. Height(u) = Height(l) + 1 /\ Height(v) = Height(l) + 1
      BY <1>5, <3>1, <3>4, <3>5, <3>6, <3>15, <3>16 DEF Higher
    <3>18. \A m \in Nodes(u) : n2.mUb <= m.mLb
      BY <2>7, <3>6, <3>15 DEF IsInterval
    <3>19. \A m \in Nodes(v) : m.mUb <= n2.mLb
      BY <1>7, <1>8, <3>6, <3>16 DEF IsInterval
    <3>20. Fits(n2, 0, v, u)
      BY <1>5, <3>6, <3>17, <3>18, <3>19 DEF Fits
    <3>21. /\ IsTree(j) /\ IsAvl(j) /\ Nodes(j) = {n2} \cup Nodes(u) \cup Nodes(v)
           /\ Height(j) = 1 + Higher(v, u)
      BY <3>4, <3>12, <3>15, <3>16, <3>20, Joined
    <3>22. Height(j) = Height(t)
      BY <1>5, <2>1, <3>17, <3>21 DEF Higher
    <3>23. Nodes(j) = Nodes(t) \cup {node}
      BY <1>3, <1>4, <2>4, <3>4, <3>15, <3>16, <3>21
    <3>24. RotateRL(n, l, s) = j
      BY <2>3, <3>3, <3>7, <3>10, <3>11, <3>12 DEF RotateRL
    <3>25. g.t = j /\ g.chg = FALSE
      <4>1. b # -1 /\ b # 0 /\ chg /\ b1 # 1
        BY <1>18, <2>10
      <4> QED BY <1>11, <1>14, <2>3, <3>24, <4>1, Zenon
    <3>26. Height(g.t) = Height(t) + 0
      BY <2>1, <1>5, <3>22, <3>25
    <3>27. Grows(t, node, g)
      BY <3>21, <3>23, <3>25, <3>26 DEF Grows
    <3> QED BY <1>10, <3>27
  <2> QED BY <2>6, <2>7, <2>9, <2>10
<1> QED BY <1>4, <1>9, <1>15, <1>16, <1>17, <1>18

------------------------------------------------------------------------------
(***************************************************************************)
(* Searches: the positions reached, and what is found there.               *)
(***************************************************************************)
LEMMA SubAvl ==
  ASSUME NEW t, IsTree(t), IsAvl(t), NEW p \in Positions
  PROVE  IsAvl(Sub(t, p))
<1> DEFINE Good(u, q) == Fits(u[q].node, u[q].mBalance, Sub(u, q \o Left), Sub(u, q \o Right))
<1>1. \A u : IsAvl(u) <=> \A q \in DOMAIN u : Good(u, q)
  BY DEF IsAvl, Fits
<1> HIDE DEF Good
<1>2. PICK s : s = Sub(t, p)
  OBVIOUS
<1>3. /\ DOMAIN s = {q \in Positions : p \o q \in DOMAIN t}
      /\ \A q \in DOMAIN s : s[q] = t[p \o q]
  BY <1>2, SubTree
<1>4. ASSUME NEW q \in DOMAIN s PROVE Good(s, q)
  <2>1. /\ q \in Positions /\ p \o q \in DOMAIN t /\ s[q] = t[p \o q]
        /\ Left \in Positions /\ Right \in Positions
    BY <1>3, TurnPositions
  <2>2. q \o Left \in Positions /\ q \o Right \in Positions
    BY <2>1, ConcatFacts
  <2>3. (p \o q) \o Left = p \o (q \o Left) /\ (p \o q) \o Right = p \o (q \o Right)
    BY <2>1, ConcatAssoc
  <2>4. /\ Sub(s, q \o Left) = Sub(t, p \o (q \o Left))
        /\ Sub(s, q \o Right) = Sub(t, p \o (q \o Right))
    BY <1>2, <2>2, SubSub
  <2>5. Good(t, p \o q)
    BY <1>1, <2>1
  <2> QED BY <2>1, <2>3, <2>4, <2>5 DEF Good
<1> QED BY <1>1, <1>2, <1>4

\* A node, those below it and its interval.
LEMMA SubParts ==
  ASSUME NEW t, IsTree(t), IsAvl(t), NEW p \in DOMAIN t
  PROVE  /\ p \in Positions /\ IsInterval(t[p].node) /\ t[p].node.mLb < t[p].node.mUb
         /\ IsTree(Sub(t, p)) /\ IsAvl(Sub(t, p))
         /\ Root \in DOMAIN Sub(t, p) /\ Sub(t, p)[Root] = t[p]
         /\ \A q \in Positions : p \o Left \o q \in DOMAIN t => t[p \o Left \o q].node.mUb <= t[p].node.mLb
         /\ \A q \in Positions : p \o Right \o q \in DOMAIN t => t[p].node.mUb <= t[p \o Right \o q].node.mLb
<1>1. /\ p \in Positions /\ IsInterval(t[p].node)
      /\ Left \in Positions /\ Right \in Positions /\ Root \in Positions
  BY TurnPositions, RootPosition DEF IsTree
<1>2. /\ t[p].node.mLb < t[p].node.mUb
      /\ \A m \in Nodes(Sub(t, p \o Left)) : m.mUb <= t[p].node.mLb
      /\ \A m \in Nodes(Sub(t, p \o Right)) : t[p].node.mUb <= m.mLb
  BY DEF IsAvl
<1>3. p \o Left \in Positions /\ p \o Right \in Positions /\ p \o Root = p
  BY <1>1, ConcatFacts, ConcatRoot
<1>4. /\ IsTree(Sub(t, p)) /\ DOMAIN Sub(t, p) = {q \in Positions : p \o q \in DOMAIN t}
      /\ \A q \in DOMAIN Sub(t, p) : Sub(t, p)[q] = t[p \o q]
  BY <1>1, SubTree
<1>5. Root \in DOMAIN Sub(t, p) /\ Sub(t, p)[Root] = t[p]
  BY <1>1, <1>3, <1>4
<1>6. ASSUME NEW u \in Positions, NEW q \in Positions, u \o q \in DOMAIN t
      PROVE  t[u \o q].node \in Nodes(Sub(t, u))
  <2>1. /\ DOMAIN Sub(t, u) = {x \in Positions : u \o x \in DOMAIN t}
        /\ \A x \in DOMAIN Sub(t, u) : Sub(t, u)[x] = t[u \o x]
    BY SubTree
  <2>2. q \in DOMAIN Sub(t, u) /\ Sub(t, u)[q] = t[u \o q]
    BY <1>6, <2>1
  <2> QED BY <2>2, Zenon DEF Nodes
<1>7. IsAvl(Sub(t, p))
  BY <1>1, SubAvl
<1>8. \A q \in Positions : p \o Left \o q \in DOMAIN t => t[p \o Left \o q].node.mUb <= t[p].node.mLb
  BY <1>2, <1>3, <1>6
<1>9. \A q \in Positions : p \o Right \o q \in DOMAIN t => t[p].node.mUb <= t[p \o Right \o q].node.mLb
  BY <1>2, <1>3, <1>6
<1> QED BY <1>1, <1>2, <1>4, <1>5, <1>7, <1>8, <1>9

\* The turn of a position after k turns.
LEMMA TurnAt ==
  ASSUME NEW p \in Positions, NEW k \in 0 .. Len(p) - 1
  PROVE  /\ k + 1 \in 1 .. Len(p) /\ k \in 0 .. Len(p) /\ k + 1 \in 0 .. Len(p) /\ p[k + 1] \in Turns
         /\ SubSeq(p, 1, k) \in Positions
         /\ SubSeq(p, 1, k + 1) = SubSeq(p, 1, k) \o << p[k + 1] >>
         /\ \E q \in Positions : p = SubSeq(p, 1, k) \o << p[k + 1] >> \o q
<1>1. /\ Len(p) \in Nat /\ k + 1 \in 1 .. Len(p) /\ k \in 0 .. Len(p) /\ k + 1 \in 0 .. Len(p)
      /\ p[k + 1] \in Turns /\ k \in Nat
  BY LenNat
<1>2. PICK d \in Turns : d = p[k + 1]
  BY <1>1
<1>3. PICK u : u = SubSeq(p, 1, k)
  OBVIOUS
<1>4. u \in Positions /\ Len(u) = k /\ \A i \in 1 .. k : u[i] = p[i]
  BY <1>1, <1>3, Parts
<1>5. PICK v : v = SubSeq(p, 1, k + 1)
  OBVIOUS
<1>6. v \in Positions /\ Len(v) = k + 1 /\ \A i \in 1 .. k + 1 : v[i] = p[i]
  BY <1>1, <1>5, Parts
<1>7. <<d>> \in Positions /\ Len(<<d>>) = 1 /\ <<d>>[1] = d
  BY TurnPositions
<1>8. /\ u \o <<d>> \in Positions /\ Len(u \o <<d>>) = k + 1
      /\ \A i \in 1 .. k : (u \o <<d>>)[i] = u[i]
      /\ (u \o <<d>>)[k + 1] = d
  <2>1. /\ u \o <<d>> \in Positions /\ Len(u \o <<d>>) = Len(u) + Len(<<d>>)
        /\ \A i \in 1 .. Len(u) : (u \o <<d>>)[i] = u[i]
        /\ \A i \in 1 .. Len(<<d>>) : (u \o <<d>>)[Len(u) + i] = <<d>>[i]
    BY <1>4, <1>7, ConcatFacts
  <2>2. 1 \in 1 .. Len(<<d>>)
    BY <1>7
  <2> QED BY <1>4, <1>7, <2>1, <2>2
<1>9. ASSUME NEW i \in 1 .. Len(v) PROVE v[i] = (u \o <<d>>)[i]
  <2>1. i \in 1 .. k \/ i = k + 1
    BY <1>1, <1>6
  <2> QED BY <1>1, <1>2, <1>4, <1>6, <1>8, <2>1
<1>10. v = u \o <<d>>
  BY <1>6, <1>8, <1>9, SamePosition
<1>11. PICK q \in Positions : p = v \o q
  BY <1>1, <1>5, Parts
<1> QED BY <1>1, <1>2, <1>3, <1>4, <1>5, <1>10, <1>11

LEMMA InReached ==
  ASSUME NEW t, NEW lefts, NEW rights, NEW p
  PROVE  p \in Reached(t, lefts, rights)
           <=> /\ p = Root \/ \E q \in DOMAIN t : p = q \o Left \/ p = q \o Right
               /\ \A i \in 1 .. Len(p) :
                    LET q == SubSeq(p, 1, i - 1)
                    IN  q \in DOMAIN t /\ IF t[q].node \in lefts THEN p[i] = 0
                                          ELSE t[q].node \in rights /\ p[i] = 1
<1> DEFINE All == {Root} \cup {q \o Left : q \in DOMAIN t} \cup {q \o Right : q \in DOMAIN t}
           Way(x) == \A i \in 1 .. Len(x) :
                       LET q == SubSeq(x, 1, i - 1)
                       IN  q \in DOMAIN t /\ IF t[q].node \in lefts THEN x[i] = 0
                                             ELSE t[q].node \in rights /\ x[i] = 1
<1>1. Reached(t, lefts, rights) = {x \in All : Way(x)}
  BY DEF Reached
<1>2. p \in All <=> p = Root \/ \E q \in DOMAIN t : p = q \o Left \/ p = q \o Right
  OBVIOUS
<1> HIDE DEF All
<1>3. Way(p) <=> \A i \in 1 .. Len(p) :
                    LET q == SubSeq(p, 1, i - 1)
                    IN  q \in DOMAIN t /\ IF t[q].node \in lefts THEN p[i] = 0
                                          ELSE t[q].node \in rights /\ p[i] = 1
  OBVIOUS
<1> HIDE DEF Way
<1>4. p \in Reached(t, lefts, rights) <=> p \in All /\ Way(p)
  BY <1>1
<1> QED BY <1>2, <1>3, <1>4, Zenon

LEMMA ReachedPositions ==
  ASSUME NEW t, IsTree(t), NEW lefts, NEW rights, NEW p \in Reached(t, lefts, rights)
  PROVE  /\ p \in Positions
         /\ \A k \in 0 .. Len(p) - 1 :
              LET q == SubSeq(p, 1, k)
              IN  q \in DOMAIN t /\ IF t[q].node \in lefts THEN p[k + 1] = 0
                                    ELSE t[q].node \in rights /\ p[k + 1] = 1
<1>1. p = Root \/ \E q \in DOMAIN t : p = q \o Left \/ p = q \o Right
  BY InReached
<1>2. p \in Positions
  <2>1. DOMAIN t \subseteq Positions /\ Left \in Positions /\ Right \in Positions
    BY TurnPositions DEF IsTree
  <2> QED BY <1>1, <2>1, RootPosition, ConcatFacts
<1>3. ASSUME NEW k \in 0 .. Len(p) - 1
      PROVE  LET q == SubSeq(p, 1, k)
             IN  q \in DOMAIN t /\ IF t[q].node \in lefts THEN p[k + 1] = 0
                                   ELSE t[q].node \in rights /\ p[k + 1] = 1
  <2>1. k + 1 \in 1 .. Len(p) /\ (k + 1) - 1 = k
    BY <1>2, LenNat
  <2>2. \A i \in 1 .. Len(p) :
          LET q == SubSeq(p, 1, i - 1)
          IN  q \in DOMAIN t /\ IF t[q].node \in lefts THEN p[i] = 0
                                ELSE t[q].node \in rights /\ p[i] = 1
    BY InReached
  <2> QED BY <2>1, <2>2
<1> QED BY <1>2, <1>3

\* A search finds the node whose interval holds the value, if there is one.
LEMMA FindExact ==
  ASSUME NEW t, IsTree(t), IsAvl(t), NEW val \in Int
  PROVE  find_node(val, t) = {m \in Nodes(t) : m.mLb <= val /\ val < m.mUb}
<1>1. ASSUME NEW m \in find_node(val, t) PROVE m \in Nodes(t) /\ m.mLb <= val /\ val < m.mUb
  BY DEF find_node, Nodes
<1>2. ASSUME NEW m \in Nodes(t), m.mLb <= val, val < m.mUb PROVE m \in find_node(val, t)
  <2>1. PICK p \in DOMAIN t : m = t[p].node
    BY DEF Nodes
  <2>2. p \in Positions /\ IsInterval(m)
    BY <2>1, SubParts
  <2> DEFINE lefts == {n \in Nodes(t) : n.mLb > val}
             rights == {n \in Nodes(t) : n.mUb <= val}
  <2>3. ASSUME NEW k \in 0 .. Len(p) - 1
        PROVE  LET q == SubSeq(p, 1, k)
               IN  q \in DOMAIN t /\ IF t[q].node \in lefts THEN p[k + 1] = 0
                                     ELSE t[q].node \in rights /\ p[k + 1] = 1
    <3>1. PICK q : q = SubSeq(p, 1, k)
      OBVIOUS
    <3>2. PICK x \in Positions : p = q \o << p[k + 1] >> \o x
      BY <2>2, <3>1, TurnAt
    <3>3. p[k + 1] \in Turns /\ q \in Positions /\ << p[k + 1] >> \in Positions
      BY <2>2, <3>1, TurnAt, TurnPositions
    <3>4. p = q \o (<< p[k + 1] >> \o x) /\ << p[k + 1] >> \o x \in Positions
      BY <3>2, <3>3, ConcatAssoc, ConcatFacts
    <3>5. q \in DOMAIN t
      BY <3>3, <3>4 DEF IsTree
    <3>6. PICK n : n = t[q].node
      OBVIOUS
    <3>7. IsInterval(n) /\ n.mLb < n.mUb /\ n \in Nodes(t)
      BY <3>5, <3>6, SubParts DEF Nodes
    <3>8. CASE p[k + 1] = 0
      <4>1. p = q \o Left \o x
        BY <3>2, <3>8 DEF Left
      <4>2. m.mUb <= n.mLb
        BY <2>1, <3>5, <3>6, <4>1, SubParts
      <4>3. n.mLb > val
        BY <1>2, <2>2, <3>7, <4>2 DEF IsInterval
      <4> QED BY <3>1, <3>5, <3>6, <3>7, <3>8, <4>3
    <3>9. CASE p[k + 1] = 1
      <4>1. p = q \o Right \o x
        BY <3>2, <3>9 DEF Right
      <4>2. n.mUb <= m.mLb
        BY <2>1, <3>5, <3>6, <4>1, SubParts
      <4>3. n.mUb <= val /\ ~ (n.mLb > val)
        BY <1>2, <2>2, <3>7, <4>2 DEF IsInterval
      <4> QED BY <3>1, <3>5, <3>6, <3>7, <3>9, <4>3
    <3> QED BY <3>3, <3>8, <3>9 DEF Turns
  <2> HIDE DEF lefts, rights
  <2>4. \A i \in 1 .. Len(p) :
          LET q == SubSeq(p, 1, i - 1)
          IN  q \in DOMAIN t /\ IF t[q].node \in lefts THEN p[i] = 0
                                ELSE t[q].node \in rights /\ p[i] = 1
    <3>1. ASSUME NEW i \in 1 .. Len(p)
          PROVE  LET q == SubSeq(p, 1, i - 1)
                 IN  q \in DOMAIN t /\ IF t[q].node \in lefts THEN p[i] = 0
                                       ELSE t[q].node \in rights /\ p[i] = 1
      <4>1. PICK k : k = i - 1
        OBVIOUS
      <4>2. k \in 0 .. Len(p) - 1 /\ k + 1 = i
        BY <2>2, <4>1, LenNat
      <4> QED BY <2>3, <4>1, <4>2
    <3> QED BY <3>1
  <2>5. p = Root \/ \E q \in DOMAIN t : p = q \o Left \/ p = q \o Right
    <3>1. CASE Len(p) = 0
      BY <2>2, <3>1, LenNat
    <3>2. CASE Len(p) # 0
      <4>1. PICK k : k = Len(p) - 1
        OBVIOUS
      <4>2. k \in 0 .. Len(p) - 1 /\ k + 1 = Len(p) /\ Len(p) \in 0 .. Len(p)
        BY <2>2, <3>2, <4>1, LenNat
      <4>3. /\ p[k + 1] \in Turns
            /\ SubSeq(p, 1, Len(p)) = SubSeq(p, 1, k) \o << p[k + 1] >>
        BY <2>2, <4>2, TurnAt
      <4>4. SubSeq(p, 1, Len(p)) = p
        BY <2>2, SubSeqFull DEF Positions
      <4>5. SubSeq(p, 1, k) \in DOMAIN t
        BY <2>3, <4>2
      <4> QED BY <4>3, <4>4, <4>5 DEF Turns, Left, Right
    <3> QED BY <3>1, <3>2
  <2>6. p \in Reached(t, lefts, rights)
    BY <2>4, <2>5, InReached
  <2> QED BY <1>2, <2>1, <2>6 DEF find_node, lefts, rights
<1> QED BY <1>1, <1>2

------------------------------------------------------------------------------
(***************************************************************************)
(* Insertion: where a node that overlaps no other goes, and the tree that  *)
(* it makes.                                                               *)
(***************************************************************************)
LEMMA PlacesThere ==
  ASSUME NEW t, IsTree(t), NEW node,
         \A m \in Nodes(t) : node.mUb <= m.mLb \/ m.mUb <= node.mLb
  PROVE  Places(node, t) # {}
<1> DEFINE lefts == {n \in Nodes(t) : node.mUb <= n.mLb}
           rights == {n \in Nodes(t) : n.mUb <= node.mLb}
<1>1. Places(node, t) = Reached(t, lefts, rights) \ DOMAIN t
  BY DEF Places
<1>2. \A m \in Nodes(t) : m \in lefts \/ m \in rights
  OBVIOUS
<1> HIDE DEF lefts, rights
<1>3. SUFFICES ASSUME Reached(t, lefts, rights) \subseteq DOMAIN t PROVE FALSE
  BY <1>1
<1>4. PICK h \in Nat : \A p \in DOMAIN t : Len(p) < h
  BY DEF IsTree
<1> DEFINE Rest == {k \in Nat : \E p \in Reached(t, lefts, rights) : Len(p) + k = h}
<1>5. Root \in Reached(t, lefts, rights)
  <2>1. \A i \in 1 .. Len(Root) : FALSE
    BY RootPosition
  <2> QED BY <2>1, InReached
<1>6. Rest # {}
  <2>1. h \in Rest
    BY <1>5, RootPosition
  <2> QED BY <2>1
<1>7. PICK k \in Rest : \A j \in Rest : k <= j
  <2>1. Rest \subseteq Nat
    OBVIOUS
  <2> HIDE DEF Rest
  <2> QED BY <1>6, <2>1, LeastNumber
<1>8. PICK p \in Reached(t, lefts, rights) : Len(p) + k = h
  OBVIOUS
<1>9. p \in DOMAIN t /\ p \in Positions /\ Len(p) \in Nat
  BY <1>3, LenNat DEF IsTree
<1>10. PICK d \in Turns : IF t[p].node \in lefts THEN d = 0 ELSE t[p].node \in rights /\ d = 1
  <2>1. t[p].node \in lefts \/ t[p].node \in rights
    BY <1>2, <1>9 DEF Nodes
  <2> QED BY <2>1 DEF Turns
<1>11. PICK r : r = p \o <<d>>
  OBVIOUS
<1>12. /\ r \in Positions /\ Len(r) = Len(p) + 1 /\ r[Len(p) + 1] = d
       /\ \A i \in 1 .. Len(p) : r[i] = p[i]
  <2>1. <<d>> \in Positions /\ Len(<<d>>) = 1 /\ <<d>>[1] = d /\ 1 \in 1 .. Len(<<d>>)
    BY TurnPositions
  <2> QED BY <1>9, <1>11, <2>1, ConcatFacts
<1>13. ASSUME NEW i \in 1 .. Len(r)
       PROVE  LET q == SubSeq(r, 1, i - 1)
              IN  q \in DOMAIN t /\ IF t[q].node \in lefts THEN r[i] = 0
                                    ELSE t[q].node \in rights /\ r[i] = 1
  <2>1. PICK j : j = i - 1
    OBVIOUS
  <2>2. j \in 0 .. Len(r) /\ j \in 0 .. Len(p)
    BY <1>9, <1>12, <2>1
  <2>3. SubSeq(r, 1, j) = SubSeq(p, 1, j)
    <3>1. /\ SubSeq(r, 1, j) \in Positions /\ Len(SubSeq(r, 1, j)) = j
          /\ \A x \in 1 .. j : SubSeq(r, 1, j)[x] = r[x]
      BY <1>12, <2>2, Parts
    <3>2. /\ SubSeq(p, 1, j) \in Positions /\ Len(SubSeq(p, 1, j)) = j
          /\ \A x \in 1 .. j : SubSeq(p, 1, j)[x] = p[x]
      BY <1>9, <2>2, Parts
    <3>3. \A x \in 1 .. j : r[x] = p[x]
      BY <1>9, <1>12, <2>2
    <3> QED BY <3>1, <3>2, <3>3, SamePosition
  <2>4. CASE i = Len(p) + 1
    <3>1. SubSeq(p, 1, j) = p
      <4>1. j = Len(p)
        BY <1>9, <2>1, <2>4
      <4> QED BY <1>9, <4>1, SubSeqFull DEF Positions
    <3> QED BY <1>9, <1>10, <1>12, <2>1, <2>3, <2>4, <3>1
  <2>5. CASE i # Len(p) + 1
    <3>1. j \in 0 .. Len(p) - 1 /\ j + 1 = i /\ i \in 1 .. Len(p)
      BY <1>9, <1>12, <2>1, <2>5
    <3>2. LET q == SubSeq(p, 1, j)
          IN  q \in DOMAIN t /\ IF t[q].node \in lefts THEN p[j + 1] = 0
                                ELSE t[q].node \in rights /\ p[j + 1] = 1
      BY <3>1, ReachedPositions
    <3> QED BY <1>12, <2>1, <2>3, <3>1, <3>2
  <2> QED BY <2>4, <2>5
<1>14. r = p \o Left \/ r = p \o Right
  BY <1>11 DEF Turns, Left, Right
<1>15. r \in Reached(t, lefts, rights)
  <2>1. \A i \in 1 .. Len(r) :
          LET q == SubSeq(r, 1, i - 1)
          IN  q \in DOMAIN t /\ IF t[q].node \in lefts THEN r[i] = 0
                                ELSE t[q].node \in rights /\ r[i] = 1
    BY <1>13
  <2>2. r = Root \/ \E q \in DOMAIN t : r = q \o Left \/ r = q \o Right
    BY <1>9, <1>14
  <2> QED BY <2>1, <2>2, InReached
<1>16. Len(r) < h
  BY <1>3, <1>4, <1>15
<1>17. k - 1 \in Rest
  BY <1>8, <1>9, <1>12, <1>15, <1>16
<1> QED BY <1>7, <1>17

\* The results of the activations of add_node, the deepest first.
TurnedBack(t, place, k, new) ==
  LET s == Sub(t, SubSeq(place, 1, k))
  IN  IF place[k + 1] = 0 THEN GrownLeft(s, new) ELSE GrownRight(s, new)

Results(n, t, place, start) ==
  CHOOSE f : f = [k \in 0 .. n |-> IF k = n THEN start ELSE TurnedBack(t, place, k, f[k + 1])]

LEMMA ResultsThere ==
  ASSUME NEW n \in Nat, NEW t, NEW place, NEW start
  PROVE  /\ Results(n, t, place, start)[n] = start
         /\ \A k \in 0 .. n - 1 :
              Results(n, t, place, start)[k] = TurnedBack(t, place, k, Results(n, t, place, start)[k + 1])
<1>0. SUFFICES \E f : f = [k \in 0 .. n |-> IF k = n THEN start ELSE TurnedBack(t, place, k, f[k + 1])]
  <2>1. PICK r : r = Results(n, t, place, start)
    OBVIOUS
  <2>2. r = [k \in 0 .. n |-> IF k = n THEN start ELSE TurnedBack(t, place, k, r[k + 1])]
    BY <1>0, <2>1 DEF Results
  <2>3. r[n] = start
    BY <2>2
  <2>4. \A k \in 0 .. n - 1 : k \in 0 .. n /\ k # n
    OBVIOUS
  <2>5. \A k \in 0 .. n - 1 : r[k] = TurnedBack(t, place, k, r[k + 1])
    BY <2>2, <2>4
  <2> QED BY <2>1, <2>3, <2>5
<1> DEFINE Part(j) == \E f : f = [k \in n - j .. n |-> IF k = n THEN start ELSE TurnedBack(t, place, k, f[k + 1])]
           Missing == {j \in Nat : j <= n /\ ~Part(j)}
<1>1. SUFFICES Missing = {}
  <2>1. Part(n)
    <3> HIDE DEF Part
    <3> QED BY <1>1
  <2>2. n - n = 0
    OBVIOUS
  <2> QED BY <2>1, <2>2
<1>2. SUFFICES ASSUME Missing # {} PROVE FALSE
  OBVIOUS
<1>3. PICK j \in Missing : \A i \in Missing : j <= i
  <2>1. Missing \subseteq Nat
    OBVIOUS
  <2> HIDE DEF Missing
  <2> QED BY <1>2, <2>1, LeastNumber
<1>4. Part(0)
  <2>1. PICK f : f = [k \in n - 0 .. n |-> start]
    OBVIOUS
  <2>2. \A k \in n - 0 .. n : k = n
    OBVIOUS
  <2>3. f = [k \in n - 0 .. n |-> IF k = n THEN start ELSE TurnedBack(t, place, k, f[k + 1])]
    BY <2>1, <2>2
  <2> QED BY <2>3
<1>5. j \in Nat /\ j <= n /\ ~Part(j)
  OBVIOUS
<1>6. j # 0
  BY <1>4, <1>5
<1>7. Part(j - 1)
  <2>1. j - 1 \in Nat /\ j - 1 <= n /\ ~ (j <= j - 1)
    BY <1>5, <1>6
  <2>2. j - 1 \notin Missing
    BY <1>3, <2>1
  <2> QED BY <2>1, <2>2
<1>8. PICK f : f = [k \in n - (j - 1) .. n |-> IF k = n THEN start ELSE TurnedBack(t, place, k, f[k + 1])]
  BY <1>7
<1>9. PICK g : g = [k \in n - j .. n |-> IF k = n THEN start
                                         ELSE IF k = n - j THEN TurnedBack(t, place, k, f[k + 1]) ELSE f[k]]
  OBVIOUS
<1>10. \A k \in n - (j - 1) .. n : g[k] = f[k]
  BY <1>5, <1>8, <1>9
<1>11. ASSUME NEW k \in n - j .. n
       PROVE  g[k] = IF k = n THEN start ELSE TurnedBack(t, place, k, g[k + 1])
  <2>1. CASE k = n
    BY <1>9, <2>1
  <2>2. CASE k # n
    <3>1. k + 1 \in n - (j - 1) .. n
      BY <1>5, <2>2
    <3>2. g[k + 1] = f[k + 1]
      BY <1>10, <3>1
    <3>3. CASE k = n - j
      BY <1>9, <2>2, <3>2, <3>3
    <3>4. CASE k # n - j
      <4>1. k \in n - (j - 1) .. n
        BY <1>5, <3>4
      <4>2. f[k] = TurnedBack(t, place, k, f[k + 1])
        BY <1>8, <2>2, <4>1
      <4> QED BY <1>10, <2>2, <3>2, <4>1, <4>2
    <3> QED BY <3>3, <3>4
  <2> QED BY <2>1, <2>2
<1>12. g = [k \in n - j .. n |-> g[k]]
  BY <1>9
<1>13. g = [k \in n - j .. n |-> IF k = n THEN start ELSE TurnedBack(t, place, k, g[k + 1])]
  BY <1>11, <1>12
<1>14. Part(j)
  BY <1>13
<1> QED BY <1>5, <1>14

LEMMA NewTree ==
  ASSUME NEW node, IsInterval(node), node.mLb < node.mUb
  PROVE  Grows(Nil, node, Result(Join(node, 0, Nil, Nil), TRUE))
<1>1. IsTree(Nil) /\ IsAvl(Nil) /\ Nodes(Nil) = {} /\ Height(Nil) = 0
  BY NilTree, HeightNat
<1>2. Fits(node, 0, Nil, Nil) /\ IsBalance(0)
  BY <1>1 DEF Fits, IsBalance
<1>3. PICK j : j = Join(node, 0, Nil, Nil)
  OBVIOUS
<1>4. /\ IsTree(j) /\ IsAvl(j) /\ Nodes(j) = {node} \cup Nodes(Nil) \cup Nodes(Nil)
      /\ Height(j) = 1 + Higher(Nil, Nil)
  BY <1>1, <1>2, <1>3, JoinedAvl
<1>5. Height(j) = 1
  BY <1>1, <1>4 DEF Higher
<1>6. Result(j, TRUE).t = j /\ Result(j, TRUE).chg = TRUE
  BY DEF Result
<1>7. Nodes(j) = Nodes(Nil) \cup {node} /\ Height(j) = Height(Nil) + 1
  BY <1>1, <1>4, <1>5
<1>8. PICK r : r = Result(j, TRUE)
  OBVIOUS
<1>9. r.t = j /\ r.chg = TRUE
  BY <1>6, <1>8
<1>10. Grows(Nil, node, r)
  BY <1>4, <1>5, <1>7, <1>9 DEF Grows
<1> QED BY <1>3, <1>8, <1>10

LEMMA NodeAdded ==
  ASSUME NEW t, IsTree(t), IsAvl(t), NEW node, IsInterval(node), node.mLb < node.mUb,
         NEW place \in Places(node, t)
  PROVE  LET a == add_node(node, t, place)
         IN  IsTree(a) /\ IsAvl(a) /\ Nodes(a) = Nodes(t) \cup {node}
<1> DEFINE lefts == {n \in Nodes(t) : node.mUb <= n.mLb}
           rights == {n \in Nodes(t) : n.mUb <= node.mLb}
           start == Result(Join(node, 0, Nil, Nil), TRUE)
<1>1. place \in Reached(t, lefts, rights) /\ place \notin DOMAIN t
  BY DEF Places
<1>2. /\ \A m \in lefts : node.mUb <= m.mLb
      /\ \A m \in rights : m.mUb <= node.mLb
  OBVIOUS
<1> HIDE DEF lefts, rights
<1>3. /\ place \in Positions
      /\ \A k \in 0 .. Len(place) - 1 :
           LET q == SubSeq(place, 1, k)
           IN  q \in DOMAIN t /\ IF t[q].node \in lefts THEN place[k + 1] = 0
                                 ELSE t[q].node \in rights /\ place[k + 1] = 1
  BY <1>1, ReachedPositions
<1>4. PICK n \in Nat : n = Len(place)
  BY <1>3, LenNat
<1>5. PICK new : new = Results(n, t, place, start)
  OBVIOUS
<1>6. add_node(node, t, place) = new[0].t
  BY <1>4, <1>5, Zenon DEF add_node, TurnedBack, Results
<1>7. new[n] = start /\ \A k \in 0 .. n - 1 : new[k] = TurnedBack(t, place, k, new[k + 1])
  <2> HIDE DEF start
  <2> QED BY <1>5, ResultsThere
<1> HIDE DEF start
<1> DEFINE Good(k) == Grows(Sub(t, SubSeq(place, 1, k)), node, new[k])
<1>9. Good(n)
  <2>1. SubSeq(place, 1, n) = place
    BY <1>3, <1>4, SubSeqFull DEF Positions
  <2>2. Sub(t, place) = Nil
    BY <1>1, <1>3, SubEmpty
  <2> QED BY <1>7, <2>1, <2>2, NewTree DEF start
<1>10. ASSUME NEW k \in 0 .. n - 1, Good(k + 1) PROVE Good(k)
  <2>1. PICK q : q = SubSeq(place, 1, k)
    OBVIOUS
  <2>2. /\ q \in DOMAIN t
        /\ IF t[q].node \in lefts THEN place[k + 1] = 0
           ELSE t[q].node \in rights /\ place[k + 1] = 1
    BY <1>3, <1>4, <2>1
  <2>3. PICK s : s = Sub(t, q)
    OBVIOUS
  <2>4. q \in Positions /\ IsTree(s) /\ IsAvl(s) /\ Root \in DOMAIN s /\ s[Root] = t[q]
    BY <2>2, <2>3, SubParts
  <2>5. SubSeq(place, 1, k + 1) = q \o << place[k + 1] >>
    BY <1>3, <1>4, <2>1, TurnAt
  <2>6. Left \in Positions /\ Right \in Positions
    BY TurnPositions
  <2>7. PICK m : m = new[k + 1]
    OBVIOUS
  <2>8. new[k] = TurnedBack(t, place, k, m)
    BY <1>7, <2>7
  <2>9. CASE t[q].node \in lefts
    <3>1. place[k + 1] = 0
      BY <2>2, <2>9
    <3>2. SubSeq(place, 1, k + 1) = q \o Left
      BY <2>5, <3>1 DEF Left
    <3>3. Sub(t, SubSeq(place, 1, k + 1)) = Sub(s, Left)
      <4>1. Sub(Sub(t, q), Left) = Sub(t, q \o Left)
        BY <2>4, <2>6, SubSub
      <4> QED BY <2>3, <3>2, <4>1
    <3>4. Grows(Sub(s, Left), node, m)
      BY <1>10, <2>7, <3>3
    <3>5. node.mUb <= s[Root].node.mLb
      BY <1>2, <2>4, <2>9
    <3>6. new[k] = GrownLeft(s, m)
      BY <2>1, <2>3, <2>8, <3>1 DEF TurnedBack
    <3>7. Grows(s, node, GrownLeft(s, m))
      BY <2>4, <3>4, <3>5, LeftGrows
    <3> QED BY <2>1, <2>3, <3>6, <3>7
  <2>10. CASE t[q].node \notin lefts
    <3>1. place[k + 1] = 1 /\ t[q].node \in rights
      BY <2>2, <2>10
    <3>2. SubSeq(place, 1, k + 1) = q \o Right
      BY <2>5, <3>1 DEF Right
    <3>3. Sub(t, SubSeq(place, 1, k + 1)) = Sub(s, Right)
      <4>1. Sub(Sub(t, q), Right) = Sub(t, q \o Right)
        BY <2>4, <2>6, SubSub
      <4> QED BY <2>3, <3>2, <4>1
    <3>4. Grows(Sub(s, Right), node, m)
      BY <1>10, <2>7, <3>3
    <3>5. s[Root].node.mUb <= node.mLb
      BY <1>2, <2>4, <3>1
    <3>6. new[k] = GrownRight(s, m)
      BY <2>1, <2>3, <2>8, <3>1 DEF TurnedBack
    <3>7. Grows(s, node, GrownRight(s, m))
      BY <2>4, <3>4, <3>5, RightGrows
    <3> QED BY <2>1, <2>3, <3>6, <3>7
  <2> QED BY <2>9, <2>10
<1> HIDE DEF Good
<1>11. Good(0)
  <2> DEFINE Ks == {k \in Nat : k <= n /\ Good(k)}
  <2>1. n \in Ks
    BY <1>9
  <2>2. PICK k \in Ks : \A j \in Ks : k <= j
    <3>1. Ks \subseteq Nat /\ Ks # {}
      BY <2>1
    <3> HIDE DEF Ks
    <3> QED BY <3>1, LeastNumber
  <2>3. k = 0
    <3>1. SUFFICES ASSUME k # 0 PROVE FALSE
      OBVIOUS
    <3>2. k - 1 \in 0 .. n - 1 /\ (k - 1) + 1 = k
      BY <3>1
    <3>3. Good(k - 1)
      BY <1>10, <3>2
    <3>4. k - 1 \in Ks
      BY <3>2, <3>3
    <3> QED BY <2>2, <3>4
  <2> QED BY <2>3
<1>12. SubSeq(place, 1, 0) = Root
  BY SubSeqEmpty DEF Root
<1>13. Sub(t, Root) = t
  BY SubRoot
<1>14. Grows(t, node, new[0])
  BY <1>11, <1>12, <1>13 DEF Good
<1> QED BY <1>6, <1>14 DEF Grows

------------------------------------------------------------------------------
(***************************************************************************)
(* Sums of weights.                                                        *)
(***************************************************************************)
LEMMA UpTo ==
  ASSUME NEW n \in Nat, NEW S, 0 \in S, \A k \in 0 .. n - 1 : k \in S => k + 1 \in S
  PROVE  \A k \in 0 .. n : k \in S
<1> DEFINE Out == {k \in 0 .. n : k \notin S}
<1>1. SUFFICES ASSUME Out # {} PROVE FALSE
  OBVIOUS
<1>2. PICK k \in Out : \A j \in Out : k <= j
  <2>1. Out \subseteq Nat
    OBVIOUS
  <2> HIDE DEF Out
  <2> QED BY <1>1, <2>1, LeastNumber
<1>3. k # 0 /\ k - 1 \in 0 .. n - 1 /\ (k - 1) + 1 = k
  OBVIOUS
<1>4. k - 1 \notin Out
  BY <1>2, <1>3
<1> QED BY <1>3, <1>4

\* What position k adds to the sum.
Share(w, ps, k) == IF k \in ps THEN w[k + 1] ELSE 0

Sums(w, ps) ==
  CHOOSE f : f = [k \in 0 .. Len(w) |-> IF k = 0 THEN 0 ELSE f[k - 1] + Share(w, ps, k - 1)]

Sum(w, ps) == Sums(w, ps)[Len(w)]

LEMMA SumsThere ==
  ASSUME NEW w, Len(w) \in Nat, NEW ps
  PROVE  /\ Sums(w, ps)[0] = 0
         /\ \A k \in 0 .. Len(w) - 1 : Sums(w, ps)[k + 1] = Sums(w, ps)[k] + Share(w, ps, k)
<1> DEFINE n == Len(w)
           Part(j) == \E f : f = [k \in 0 .. j |-> IF k = 0 THEN 0 ELSE f[k - 1] + Share(w, ps, k - 1)]
           S == {j \in 0 .. n : Part(j)}
<1>1. Part(0)
  <2>1. PICK f : f = [k \in 0 .. 0 |-> 0]
    OBVIOUS
  <2>2. f = [k \in 0 .. 0 |-> IF k = 0 THEN 0 ELSE f[k - 1] + Share(w, ps, k - 1)]
    BY <2>1
  <2> QED BY <2>2
<1>2. ASSUME NEW j \in 0 .. n - 1, Part(j) PROVE Part(j + 1)
  <2>1. PICK f : f = [k \in 0 .. j |-> IF k = 0 THEN 0 ELSE f[k - 1] + Share(w, ps, k - 1)]
    BY <1>2
  <2>2. PICK g : g = [k \in 0 .. j + 1 |-> IF k = j + 1 THEN f[k - 1] + Share(w, ps, k - 1) ELSE f[k]]
    OBVIOUS
  <2>3. \A k \in 0 .. j : g[k] = f[k]
    BY <2>2
  <2>4. ASSUME NEW k \in 0 .. j + 1
        PROVE  g[k] = IF k = 0 THEN 0 ELSE g[k - 1] + Share(w, ps, k - 1)
    <3>1. CASE k = 0
      BY <2>1, <2>2, <3>1
    <3>2. CASE k # 0
      <4>1. k - 1 \in 0 .. j /\ g[k - 1] = f[k - 1]
        BY <2>3, <3>2
      <4>2. CASE k = j + 1
        BY <2>2, <3>2, <4>1, <4>2
      <4>3. CASE k # j + 1
        <5>1. k \in 0 .. j /\ g[k] = f[k]
          BY <2>3, <4>3
        <5> QED BY <2>1, <3>2, <4>1, <5>1
      <4> QED BY <4>2, <4>3
    <3> QED BY <3>1, <3>2
  <2>5. g = [k \in 0 .. j + 1 |-> g[k]]
    BY <2>2
  <2>6. g = [k \in 0 .. j + 1 |-> IF k = 0 THEN 0 ELSE g[k - 1] + Share(w, ps, k - 1)]
    BY <2>4, <2>5
  <2> QED BY <2>6
<1>3. Part(n)
  <2> HIDE DEF Part
  <2>1. 0 \in S /\ \A k \in 0 .. n - 1 : k \in S => k + 1 \in S
    BY <1>1, <1>2
  <2> HIDE DEF S
  <2>2. \A k \in 0 .. n : k \in S
    BY <2>1, UpTo
  <2> QED BY <2>2 DEF S
<1>4. PICK s : s = Sums(w, ps)
  OBVIOUS
<1>5. s = [k \in 0 .. n |-> IF k = 0 THEN 0 ELSE s[k - 1] + Share(w, ps, k - 1)]
  BY <1>3, <1>4 DEF Sums
<1>6. s[0] = 0
  BY <1>5
<1>7. \A k \in 0 .. n - 1 : k + 1 \in 0 .. n /\ k + 1 # 0 /\ (k + 1) - 1 = k
  OBVIOUS
<1>8. \A k \in 0 .. n - 1 : s[k + 1] = s[k] + Share(w, ps, k)
  BY <1>5, <1>7
<1> QED BY <1>4, <1>6, <1>8

LEMMA SumInt ==
  ASSUME NEW w \in Seq(Int), NEW ps
  PROVE  Len(w) \in Nat /\ Sum(w, ps) \in Int
<1>1. Len(w) \in Nat
  BY LenProperties
<1>2. ASSUME NEW k \in 0 .. Len(w) - 1 PROVE Share(w, ps, k) \in Int
  <2>1. k + 1 \in 1 .. Len(w)
    BY <1>1
  <2>2. w[k + 1] \in Int
    BY <2>1, ElementOfSeq
  <2> QED BY <2>2 DEF Share
<1> DEFINE S == {k \in 0 .. Len(w) : Sums(w, ps)[k] \in Int}
<1>3. 0 \in S
  BY <1>1, SumsThere
<1>4. ASSUME NEW k \in 0 .. Len(w) - 1, k \in S PROVE k + 1 \in S
  BY <1>1, <1>2, <1>4, SumsThere
<1>5. \A k \in 0 .. Len(w) : k \in S
  <2> HIDE DEF S
  <2> QED BY <1>1, <1>3, <1>4, UpTo
<1> QED BY <1>1, <1>5 DEF Sum

LEMMA ShareNat ==
  ASSUME NEW w \in Seq(Nat), NEW ps, NEW k \in 0 .. Len(w) - 1
  PROVE  Share(w, ps, k) \in Nat /\ w[k + 1] \in Nat
<1>1. Len(w) \in Nat /\ k + 1 \in 1 .. Len(w)
  BY LenProperties
<1>2. w[k + 1] \in Nat
  BY <1>1, ElementOfSeq
<1> QED BY <1>2 DEF Share

LEMMA SumNat ==
  ASSUME NEW w \in Seq(Nat), NEW ps
  PROVE  /\ Len(w) \in Nat /\ Sum(w, ps) \in Nat
         /\ \A k \in 0 .. Len(w) : Sums(w, ps)[k] \in Nat
<1>1. Len(w) \in Nat
  BY LenProperties
<1> DEFINE S == {k \in 0 .. Len(w) : Sums(w, ps)[k] \in Nat}
<1>2. 0 \in S
  BY <1>1, SumsThere
<1>3. ASSUME NEW k \in 0 .. Len(w) - 1, k \in S PROVE k + 1 \in S
  BY <1>1, <1>3, SumsThere, ShareNat
<1>4. \A k \in 0 .. Len(w) : k \in S
  <2> HIDE DEF S
  <2> QED BY <1>1, <1>2, <1>3, UpTo
<1> QED BY <1>1, <1>4 DEF Sum

LEMMA SumNone ==
  ASSUME NEW w \in Seq(Nat)
  PROVE  Sum(w, {}) = 0
<1>1. Len(w) \in Nat
  BY LenProperties
<1> DEFINE S == {k \in 0 .. Len(w) : Sums(w, {})[k] = 0}
<1>2. 0 \in S
  BY <1>1, SumsThere
<1>3. ASSUME NEW k \in 0 .. Len(w) - 1, k \in S PROVE k + 1 \in S
  BY <1>1, <1>3, SumsThere DEF Share
<1>4. \A k \in 0 .. Len(w) : k \in S
  <2> HIDE DEF S
  <2> QED BY <1>1, <1>2, <1>3, UpTo
<1> QED BY <1>1, <1>4 DEF Sum

LEMMA SumAdd ==
  ASSUME NEW w \in Seq(Nat), NEW ps, NEW p \in 0 .. Len(w) - 1, p \notin ps
  PROVE  Sum(w, ps \cup {p}) = Sum(w, ps) + w[p + 1]
<1>1. Len(w) \in Nat /\ w[p + 1] \in Nat
  BY LenProperties, ShareNat
<1>2. PICK qs : qs = ps \cup {p}
  OBVIOUS
<1> DEFINE S == {k \in 0 .. Len(w) :
                   Sums(w, qs)[k] = Sums(w, ps)[k] + (IF p < k THEN w[p + 1] ELSE 0)}
<1>3. 0 \in S
  BY <1>1, SumsThere
<1>4. ASSUME NEW k \in 0 .. Len(w) - 1, k \in S PROVE k + 1 \in S
  <2>1. /\ Sums(w, qs)[k + 1] = Sums(w, qs)[k] + Share(w, qs, k)
        /\ Sums(w, ps)[k + 1] = Sums(w, ps)[k] + Share(w, ps, k)
    BY <1>1, SumsThere
  <2>2. /\ Sums(w, ps)[k] \in Nat /\ Share(w, ps, k) \in Nat /\ k + 1 \in 0 .. Len(w)
        /\ Sums(w, qs)[k] \in Nat /\ Share(w, qs, k) \in Nat
    BY <1>1, SumNat, ShareNat
  <2>3. CASE k = p
    <3>1. Share(w, qs, k) = w[p + 1] /\ Share(w, ps, k) = 0
      BY <1>2, <2>3 DEF Share
    <3> QED BY <1>1, <1>4, <2>1, <2>2, <2>3, <3>1
  <2>4. CASE k # p
    <3>1. Share(w, qs, k) = Share(w, ps, k)
      BY <1>2, <2>4 DEF Share
    <3>2. p < k + 1 <=> p < k
      BY <2>4
    <3>3. PICK x \in Nat : x = IF p < k THEN w[p + 1] ELSE 0
      BY <1>1
    <3>4. x = IF p < k + 1 THEN w[p + 1] ELSE 0
      BY <3>2, <3>3
    <3>5. Sums(w, qs)[k] = Sums(w, ps)[k] + x
      BY <1>4, <3>3
    <3>6. Sums(w, qs)[k + 1] = Sums(w, ps)[k + 1] + x
      BY <2>1, <2>2, <3>1, <3>5
    <3> QED BY <2>2, <3>4, <3>6
  <2> QED BY <2>3, <2>4
<1>5. \A k \in 0 .. Len(w) : k \in S
  <2> HIDE DEF S
  <2> QED BY <1>1, <1>3, <1>4, UpTo
<1>6. Sums(w, qs)[Len(w)] = Sums(w, ps)[Len(w)] + w[p + 1]
  <2>1. Len(w) \in 0 .. Len(w) /\ p < Len(w)
    BY <1>1
  <2> QED BY <1>5, <2>1
<1> QED BY <1>2, <1>6 DEF Sum

LEMMA SumMore ==
  ASSUME NEW w \in Seq(Nat), NEW ps, NEW qs, ps \subseteq qs
  PROVE  Sum(w, ps) <= Sum(w, qs)
<1>1. Len(w) \in Nat
  BY LenProperties
<1> DEFINE S == {k \in 0 .. Len(w) : Sums(w, ps)[k] <= Sums(w, qs)[k]}
<1>2. 0 \in S
  BY <1>1, SumsThere
<1>3. ASSUME NEW k \in 0 .. Len(w) - 1, k \in S PROVE k + 1 \in S
  <2>1. /\ Sums(w, qs)[k + 1] = Sums(w, qs)[k] + Share(w, qs, k)
        /\ Sums(w, ps)[k + 1] = Sums(w, ps)[k] + Share(w, ps, k)
    BY <1>1, SumsThere
  <2>2. /\ Sums(w, ps)[k] \in Nat /\ Share(w, ps, k) \in Nat /\ k + 1 \in 0 .. Len(w)
        /\ Sums(w, qs)[k] \in Nat /\ Share(w, qs, k) \in Nat
    BY <1>1, SumNat, ShareNat
  <2>3. Share(w, ps, k) <= Share(w, qs, k)
    BY <2>2 DEF Share
  <2> QED BY <1>3, <2>1, <2>2, <2>3
<1>4. \A k \in 0 .. Len(w) : k \in S
  <2> HIDE DEF S
  <2> QED BY <1>1, <1>2, <1>3, UpTo
<1> QED BY <1>1, <1>4 DEF Sum

LEMMA SumBound ==
  ASSUME NEW w \in Seq(Nat), NEW ps, NEW m \in Nat, \A i \in 1 .. Len(w) : w[i] <= m
  PROVE  Sum(w, ps) <= Len(w) * m
<1>1. Len(w) \in Nat
  BY LenProperties
<1> DEFINE S == {k \in 0 .. Len(w) : Sums(w, ps)[k] <= k * m}
<1>2. 0 \in S
  BY <1>1, SumsThere
<1>3. ASSUME NEW k \in 0 .. Len(w) - 1, k \in S PROVE k + 1 \in S
  <2>1. Sums(w, ps)[k + 1] = Sums(w, ps)[k] + Share(w, ps, k)
    BY <1>1, SumsThere
  <2>2. /\ Sums(w, ps)[k] \in Nat /\ Share(w, ps, k) \in Nat /\ k + 1 \in 0 .. Len(w)
        /\ k + 1 \in 1 .. Len(w)
    BY <1>1, SumNat, ShareNat
  <2>3. Share(w, ps, k) <= m
    BY <2>2 DEF Share
  <2>4. (k + 1) * m = k * m + m /\ k * m \in Nat
    OBVIOUS
  <2> QED BY <1>3, <2>1, <2>2, <2>3, <2>4
<1>4. \A k \in 0 .. Len(w) : k \in S
  <2> HIDE DEF S
  <2> QED BY <1>1, <1>2, <1>3, UpTo
<1> QED BY <1>1, <1>4 DEF Sum

LEMMA SumOfIsSum ==
  \A w, ps : SumOf(w, ps) = Sum(w, ps)
BY Zenon DEF SumOf, Sum, Sums, Share, At

LEMMA TotalIsSum ==
  \A ps : Total(ps) = Sum(mWeightArray, ps)
BY SumOfIsSum, Zenon DEF Total

------------------------------------------------------------------------------
(***************************************************************************)
(* Sorting: every place of the sorted array is taken by one weight.        *)
(***************************************************************************)
Earlier(a, i) == {j \in 1 .. Len(a) : a[j] > a[i] \/ (a[j] = a[i] /\ j < i)}

LEMMA EarlierGrows ==
  ASSUME NEW a \in Seq(Int), NEW i \in 1 .. Len(a), NEW j \in 1 .. Len(a), i \in Earlier(a, j)
  PROVE  Earlier(a, i) \subseteq Earlier(a, j) /\ i \notin Earlier(a, i)
<1>1. Len(a) \in Nat /\ \A k \in 1 .. Len(a) : a[k] \in Int
  BY LenProperties, ElementOfSeq
<1>2. ASSUME NEW k \in Earlier(a, i) PROVE k \in Earlier(a, j)
  <2>1. /\ k \in 1 .. Len(a) /\ (a[k] > a[i] \/ (a[k] = a[i] /\ k < i))
        /\ (a[i] > a[j] \/ (a[i] = a[j] /\ i < j))
    BY <1>2 DEF Earlier
  <2>2. a[k] > a[j] \/ (a[k] = a[j] /\ k < j)
    BY <1>1, <2>1
  <2> QED BY <2>1, <2>2 DEF Earlier
<1>3. i \notin Earlier(a, i)
  BY <1>1 DEF Earlier
<1> QED BY <1>2, <1>3

LEMMA RankGrows ==
  ASSUME NEW a \in Seq(Int), NEW i \in 1 .. Len(a), NEW j \in 1 .. Len(a), i \in Earlier(a, j)
  PROVE  Cardinality(Earlier(a, i)) < Cardinality(Earlier(a, j))
<1>1. Len(a) \in Nat
  BY LenProperties
<1>2. \A k \in 1 .. Len(a) : Earlier(a, k) \in SUBSET (1 .. Len(a))
  BY DEF Earlier
<1>3. \A k \in 1 .. Len(a) : IsFiniteSet(Earlier(a, k)) /\ Cardinality(Earlier(a, k)) \in Nat
  <2>1. IsFiniteSet(1 .. Len(a))
    BY <1>1, FS_Interval
  <2> QED BY <1>2, <2>1, FS_Subset, FS_CardinalityType
<1>4. Earlier(a, i) \subseteq Earlier(a, j) /\ i \notin Earlier(a, i)
  BY EarlierGrows
<1>5. /\ Cardinality(Earlier(a, i)) <= Cardinality(Earlier(a, j))
      /\ Cardinality(Earlier(a, i)) = Cardinality(Earlier(a, j)) => Earlier(a, j) = Earlier(a, i)
  BY <1>3, <1>4, FS_Subset
<1> QED BY <1>3, <1>4, <1>5

LEMMA Ranks ==
  ASSUME NEW a \in Seq(Int)
  PROVE  /\ \A k \in 1 .. Len(a) : \E i \in 1 .. Len(a) : Cardinality(Earlier(a, i)) = k - 1
         /\ \A i \in 1 .. Len(a) : Cardinality(Earlier(a, i)) \in 0 .. Len(a) - 1
         /\ \A i, j \in 1 .. Len(a) : Cardinality(Earlier(a, i)) = Cardinality(Earlier(a, j)) => i = j
<1>1. Len(a) \in Nat /\ \A i \in 1 .. Len(a) : a[i] \in Int
  BY LenProperties, ElementOfSeq
<1> DEFINE n == Len(a)
<1>0. PICK rank : rank = [i \in 1 .. n |-> Cardinality(Earlier(a, i))]
  OBVIOUS
<1>01. \A i \in 1 .. n : rank[i] = Cardinality(Earlier(a, i))
  BY <1>0
<1>5. /\ IsFiniteSet(1 .. n) /\ Cardinality(1 .. n) = n
      /\ IsFiniteSet(0 .. n - 1) /\ Cardinality(0 .. n - 1) = n
  <2>1. PICK m \in Nat : m = n
    BY <1>1
  <2>2. m - 1 \in Int /\ 1 \in Int /\ 0 \in Int /\ m \in Int
    OBVIOUS
  <2>3. /\ IsFiniteSet(1 .. m) /\ Cardinality(1 .. m) = IF 1 > m THEN 0 ELSE m - 1 + 1
        /\ IsFiniteSet(0 .. m - 1) /\ Cardinality(0 .. m - 1) = IF 0 > m - 1 THEN 0 ELSE (m - 1) - 0 + 1
    BY ONLY <2>2, FS_Interval
  <2>4. /\ (IF 1 > m THEN 0 ELSE m - 1 + 1) = m
        /\ (IF 0 > m - 1 THEN 0 ELSE (m - 1) - 0 + 1) = m
    OBVIOUS
  <2> QED BY <2>1, <2>3, <2>4
<1>2. ASSUME NEW i \in 1 .. n PROVE rank[i] \in 0 .. n - 1
  <2>1. i \notin Earlier(a, i) /\ Earlier(a, i) \subseteq 1 .. n
    BY <1>1 DEF Earlier
  <2>3. Earlier(a, i) \in SUBSET ((1 .. n) \ {i})
    BY <2>1
  <2>4. IsFiniteSet((1 .. n) \ {i}) /\ Cardinality((1 .. n) \ {i}) = n - 1
    BY <1>5, FS_RemoveElement
  <2>5. IsFiniteSet(Earlier(a, i)) /\ Cardinality(Earlier(a, i)) <= n - 1
    BY <2>3, <2>4, FS_Subset
  <2>6. Cardinality(Earlier(a, i)) \in Nat
    BY <2>5, FS_CardinalityType
  <2>7. \A c \in Nat : c <= n - 1 => c \in 0 .. n - 1
    BY <1>1
  <2>8. Cardinality(Earlier(a, i)) \in 0 .. n - 1
    BY <2>5, <2>6, <2>7
  <2> QED BY <1>01, <2>8
<1>3. ASSUME NEW i \in 1 .. n, NEW j \in 1 .. n, rank[i] = rank[j] PROVE i = j
  <2>1. i = j \/ i \in Earlier(a, j) \/ j \in Earlier(a, i)
    BY <1>1 DEF Earlier
  <2>2. rank[i] \in Int /\ rank[j] \in Int
    BY <1>1, <1>2
  <2>3. /\ i \in Earlier(a, j) => rank[i] < rank[j]
        /\ j \in Earlier(a, i) => rank[j] < rank[i]
    BY <1>01, RankGrows
  <2> QED BY <1>3, <2>1, <2>2, <2>3
<1>4. rank \in Injection(1 .. n, 0 .. n - 1)
  <2>1. rank \in [1 .. n -> 0 .. n - 1] /\ DOMAIN rank = 1 .. n
    BY <1>0, <1>2
  <2>2. IsInjective(rank)
    BY <1>3, <2>1 DEF IsInjective
  <2> QED BY <2>1, <2>2, Zenon DEF Injection
<1>6. rank \in Surjection(1 .. n, 0 .. n - 1)
  <2> HIDE DEF n
  <2> QED BY <1>4, <1>5, FS_Injection
<1>7. ASSUME NEW k \in 1 .. n PROVE \E i \in 1 .. n : rank[i] = k - 1
  <2>1. k - 1 \in 0 .. n - 1
    BY <1>1
  <2> QED BY <1>6, <2>1 DEF Surjection
<1> QED BY <1>01, <1>2, <1>3, <1>7

\* mIdx numbers the weights, and the sorted array has the weight of every number.
IsOrder(idx, n) ==
  /\ idx \in [1 .. n -> 0 .. n - 1]
  /\ \A k, l \in 1 .. n : idx[k] = idx[l] => k = l
  /\ \A i \in 0 .. n - 1 : \E k \in 1 .. n : idx[k] = i

LEMMA SortedFacts ==
  ASSUME NEW a \in Seq(Int)
  PROVE  /\ Sorted(a) \in Seq(Int) /\ Len(Sorted(a)) = Len(a) /\ IsOrder(Order(a), Len(a))
         /\ \A k \in 1 .. Len(a) : Sorted(a)[k] = a[Order(a)[k] + 1]
<1>1. Len(a) \in Nat /\ \A i \in 1 .. Len(a) : a[i] \in Int
  BY LenProperties, ElementOfSeq
<1> DEFINE n == Len(a)
           Rank(i) == Cardinality(Earlier(a, i))
           Place(k) == CHOOSE i \in 1 .. n : Rank(i) = k - 1
<1>2. PICK idx : idx = Order(a)
  OBVIOUS
<1>3. idx = [k \in 1 .. n |-> Place(k) - 1]
  BY <1>2 DEF Order, Earlier
<1>4. \A k \in 1 .. n : Place(k) \in 1 .. n /\ Rank(Place(k)) = k - 1
  BY Ranks
<1>5. \A i \in 1 .. n : Rank(i) \in 0 .. n - 1
  BY Ranks
<1>6. \A i, j \in 1 .. n : Rank(i) = Rank(j) => i = j
  BY Ranks
<1> HIDE DEF Place, Rank
<1>7. idx \in [1 .. n -> 0 .. n - 1]
  <2>1. \A k \in 1 .. n : Place(k) - 1 \in 0 .. n - 1
    BY <1>1, <1>4
  <2> QED BY <1>3, <2>1
<1>8. ASSUME NEW k \in 1 .. n PROVE idx[k] + 1 = Place(k)
  BY <1>1, <1>3, <1>4
<1>9. ASSUME NEW k \in 1 .. n, NEW l \in 1 .. n, idx[k] = idx[l] PROVE k = l
  <2>1. Place(k) = Place(l)
    BY <1>8, <1>9
  <2>2. k - 1 = l - 1
    BY <1>4, <2>1
  <2> QED BY <2>2
<1>10. ASSUME NEW i \in 0 .. n - 1 PROVE \E k \in 1 .. n : idx[k] = i
  <2>1. i + 1 \in 1 .. n
    BY <1>1
  <2>2. PICK k \in 1 .. n : k - 1 = Rank(i + 1)
    <3>1. Rank(i + 1) \in 0 .. n - 1
      BY <1>5, <2>1
    <3>2. Rank(i + 1) + 1 \in 1 .. n /\ (Rank(i + 1) + 1) - 1 = Rank(i + 1)
      BY <1>1, <3>1
    <3> QED BY <3>2
  <2>3. Place(k) = i + 1
    BY <1>4, <1>6, <2>1, <2>2
  <2>4. idx[k] = i
    BY <1>3, <2>3
  <2> QED BY <2>4
<1>11. IsOrder(idx, n)
  BY <1>7, <1>9, <1>10 DEF IsOrder
<1>12. Sorted(a) = [k \in 1 .. n |-> a[idx[k] + 1]]
  BY <1>2 DEF Sorted
<1>13. \A k \in 1 .. n : a[idx[k] + 1] \in Int
  BY <1>1, <1>4, <1>8
<1>14. Sorted(a) \in [1 .. n -> Int]
  BY <1>12, <1>13
<1>15. Sorted(a) \in Seq(Int) /\ Len(Sorted(a)) = n
  BY <1>1, <1>14
<1> QED BY <1>2, <1>11, <1>12, <1>15

------------------------------------------------------------------------------
(***************************************************************************)
(* The types of the state, and that every list is an AVL tree.             *)
(***************************************************************************)
Families  == SUBSET SUBSET Nat
BddSet    == [kind : {"bdd"}, f : Families, lb : Int, ub : Int]
NodeSet   == [mLb : Int, mUb : Int, mF : Families]
FrameSet  == [pos : Nat, slack : Int, without : {Failed("none")} \cup BddSet]

IsList(t) == IsTree(t) /\ IsAvl(t) /\ Nodes(t) \subseteq NodeSet

\* A result, or a call of one of n + 1 positions.
IsReturn(r, n) ==
  /\ r.kind = "call" => r.pos \in 0 .. n /\ r.slack \in Int
  /\ r.kind = "bdd" => r \in BddSet

\* mIdx leads from the places of the sorted weights to those of the array given.
OrderInv ==
  /\ weight_array \in Seq(Int) /\ Len(weight_array) = Len(mWeightArray)
  /\ IsOrder(mIdx, Len(mWeightArray))
  /\ \A k \in 1 .. Len(mWeightArray) : mWeightArray[k] = weight_array[mIdx[k] + 1]
InputInv ==
  /\ mWeightArray \in Seq(Int) /\ mThreshold \in Int
  /\ beyond \in Int /\ -DblMax < beyond /\ DblMax \in Nat
  /\ OrderInv
ListInv ==
  /\ DOMAIN mItvlList = 0 .. Len(mWeightArray) - 1
  /\ \A p \in 0 .. Len(mWeightArray) - 1 : IsList(mItvlList[p])
StackInv ==
  /\ stack \in Seq(FrameSet)
  /\ \A i \in 1 .. Len(stack) : stack[i].pos \in 0 .. Len(mWeightArray) - 1

TInv == InputInv /\ ListInv /\ StackInv /\ IsReturn(ret, Len(mWeightArray))

LEMMA Kinds ==
  /\ \A f, lb, ub : /\ Bdd(f, lb, ub).kind = "bdd"
                    /\ (f \in Families /\ lb \in Int /\ ub \in Int <=> Bdd(f, lb, ub) \in BddSet)
                    /\ Bdd(f, lb, ub).f = f /\ Bdd(f, lb, ub).lb = lb /\ Bdd(f, lb, ub).ub = ub
  /\ \A pos, slack : Call(pos, slack).kind = "call" /\ Call(pos, slack).pos = pos /\ Call(pos, slack).slack = slack
  /\ \A how : Failed(how).kind = how
  /\ \A r \in BddSet : r.kind = "bdd" /\ r.f \in Families /\ r.lb \in Int /\ r.ub \in Int
BY DEF Bdd, Call, Failed, BddSet

LEMMA Returns ==
  ASSUME NEW n \in Nat
  PROVE  /\ \A f \in Families, lb \in Int, ub \in Int : IsReturn(Bdd(f, lb, ub), n)
         /\ \A pos \in 0 .. n, slack \in Int : IsReturn(Call(pos, slack), n)
         /\ \A how \in {"crashed", "aborted", "overlap"} : IsReturn(Failed(how), n)
BY DEF Bdd, Call, Failed, BddSet, IsReturn

LEMMA FrameParts ==
  ASSUME StackInv, stack # <<>>
  PROVE  /\ Len(stack) \in Nat \ {0} /\ Len(stack) \in 1 .. Len(stack)
         /\ Caller \in FrameSet /\ Caller.pos \in 0 .. Len(mWeightArray) - 1 /\ Caller.slack \in Int
         /\ Caller.without.kind = "none" \/ Caller.without \in BddSet
         /\ SubSeq(stack, 1, Len(stack) - 1) \in Seq(FrameSet)
         /\ Len(SubSeq(stack, 1, Len(stack) - 1)) = Len(stack) - 1
         /\ \A i \in 1 .. Len(stack) - 1 : SubSeq(stack, 1, Len(stack) - 1)[i] = stack[i]
<1>1. stack \in Seq(FrameSet)
  BY DEF StackInv
<1>2. Len(stack) \in Nat \ {0} /\ Len(stack) \in 1 .. Len(stack)
  BY <1>1, EmptySeq
<1>3. Caller \in FrameSet
  BY <1>1, <1>2, ElementOfSeq DEF Caller
<1>4. Caller.slack \in Int /\ Caller.without \in {Failed("none")} \cup BddSet
  BY <1>3 DEF FrameSet
<1>5. Caller.pos \in 0 .. Len(mWeightArray) - 1
  BY <1>2 DEF StackInv, Caller
<1>6. Caller.without.kind = "none" \/ Caller.without \in BddSet
  BY <1>4 DEF Failed
<1>7. \A i \in 1 .. Len(stack) - 1 : stack[i] \in FrameSet
  BY <1>1, <1>2, ElementOfSeq
<1>8. PICK n \in Nat : n + 1 = Len(stack) /\ n = Len(stack) - 1
  BY <1>2
<1>9. /\ SubSeq(stack, 1, n) \in Seq(FrameSet) /\ Len(SubSeq(stack, 1, n)) = n
      /\ \A i \in 1 .. n : SubSeq(stack, 1, n)[i] = stack[i]
  <2>1. 1 \in Int /\ n \in Int /\ \A i \in 1 .. n : stack[i] \in FrameSet
    BY <1>7, <1>8
  <2>2. /\ SubSeq(stack, 1, n) \in Seq(FrameSet)
        /\ Len(SubSeq(stack, 1, n)) = IF 1 <= n THEN n - 1 + 1 ELSE 0
        /\ \A i \in 1 .. n - 1 + 1 : SubSeq(stack, 1, n)[i] = stack[1 + i - 1]
    BY ONLY <2>1, SubSeqProperties
  <2>3. (IF 1 <= n THEN n - 1 + 1 ELSE 0) = n /\ n - 1 + 1 = n /\ \A i \in 1 .. n : 1 + i - 1 = i
    OBVIOUS
  <2> QED BY <2>2, <2>3
<1> QED BY <1>2, <1>3, <1>4, <1>5, <1>6, <1>8, <1>9

LEMMA WeightInt ==
  ASSUME InputInv
  PROVE  /\ Len(mWeightArray) \in Nat /\ mNv = Len(mWeightArray)
         /\ \A p \in 0 .. Len(mWeightArray) - 1 : Weight(p) = mWeightArray[p + 1] /\ Weight(p) \in Int
         /\ \A ps : Total(ps) \in Int
         /\ \A p : Acc(p) \in Int
<1>1. mWeightArray \in Seq(Int) /\ mNv = Len(mWeightArray) /\ beyond \in Int
  BY DEF InputInv, mNv
<1>2. Len(mWeightArray) \in Nat
  BY <1>1, LenProperties
<1>3. ASSUME NEW p \in 0 .. Len(mWeightArray) - 1
      PROVE  Weight(p) = mWeightArray[p + 1] /\ Weight(p) \in Int
  <2>1. p + 1 \in 1 .. Len(mWeightArray)
    BY <1>2
  <2>2. mWeightArray[p + 1] \in Int
    BY <1>1, <2>1, ElementOfSeq
  <2> QED BY <2>2 DEF Weight, At
<1>4. \A ps : Total(ps) \in Int
  BY <1>1, TotalIsSum, SumInt
<1>5. \A p : Acc(p) \in Int
  BY <1>1, <1>4 DEF Acc
<1> QED BY <1>1, <1>2, <1>3, <1>4, <1>5

LEMMA NatSeq ==
  ASSUME NEW w \in Seq(Int), \A i \in 1 .. Len(w) : w[i] \in Nat
  PROVE  w \in Seq(Nat)
<1>1. Len(w) \in Nat /\ w \in [1 .. Len(w) -> Int]
  BY LenProperties
<1>2. w \in [1 .. Len(w) -> Nat]
  BY <1>1
<1> QED BY <1>1, <1>2

\* What GInv is about: no weight is negative, so the sums grow with the sets.
LEMMA NaturalWeights ==
  ASSUME InputInv, NonNegative
  PROVE  mWeightArray \in Seq(Nat) /\ weight_array \in Seq(Nat)
<1>1. mWeightArray \in Seq(Int) /\ Len(mWeightArray) \in Nat /\ mNv = Len(mWeightArray)
  BY WeightInt DEF InputInv
<1>2. \A k \in 1 .. Len(mWeightArray) : mWeightArray[k] \in Nat
  <2>1. ASSUME NEW k \in 1 .. Len(mWeightArray) PROVE mWeightArray[k] \in Nat
    <3>1. k - 1 \in 0 .. Len(mWeightArray) - 1 /\ (k - 1) + 1 = k
      BY <1>1
    <3>2. Weight(k - 1) >= 0
      BY <1>1, <3>1 DEF NonNegative, Below
    <3>3. Weight(k - 1) = mWeightArray[k] /\ Weight(k - 1) \in Int
      BY <3>1, WeightInt
    <3> QED BY <3>2, <3>3
  <2> QED BY <2>1
<1>3. mWeightArray \in Seq(Nat)
  BY <1>1, <1>2, NatSeq
<1>4. weight_array \in Seq(Int) /\ Len(weight_array) = Len(mWeightArray)
  BY DEF InputInv, OrderInv
<1>5. \A i \in 1 .. Len(weight_array) : weight_array[i] \in Nat
  <2>1. ASSUME NEW i \in 1 .. Len(mWeightArray) PROVE weight_array[i] \in Nat
    <3>1. i - 1 \in 0 .. Len(mWeightArray) - 1 /\ (i - 1) + 1 = i
      BY <1>1
    <3>2. PICK k \in 1 .. Len(mWeightArray) : mIdx[k] = i - 1
      BY <3>1 DEF InputInv, OrderInv, IsOrder
    <3>3. mWeightArray[k] = weight_array[mIdx[k] + 1]
      BY DEF InputInv, OrderInv
    <3> QED BY <1>2, <3>1, <3>2, <3>3
  <2> QED BY <1>4, <2>1
<1>6. weight_array \in Seq(Nat)
  BY <1>4, <1>5, NatSeq
<1> QED BY <1>3, <1>6

LEMMA TInit == Init => TInv
<1> SUFFICES ASSUME Init PROVE TInv
  OBVIOUS
<1>1. mWeightArray = Sorted(weight_array) /\ mIdx = Order(weight_array)
  BY DEF Init
<1>2. weight_array \in Seq(Int) /\ DblMax \in Nat
  BY WeightsAssumption DEF Init
<1>3. mWeightArray \in Seq(Int) /\ OrderInv /\ Len(mWeightArray) \in Nat
  <2>1. /\ mWeightArray \in Seq(Int) /\ Len(mWeightArray) = Len(weight_array)
        /\ IsOrder(mIdx, Len(weight_array))
        /\ \A k \in 1 .. Len(weight_array) : mWeightArray[k] = weight_array[mIdx[k] + 1]
    BY <1>1, <1>2, SortedFacts
  <2>2. Len(weight_array) \in Nat
    BY <1>2, LenProperties
  <2> QED BY <1>2, <2>1, <2>2 DEF OrderInv
<1>4. mThreshold \in Int /\ beyond \in Int /\ -DblMax < beyond
  <2>1. beyond \in Int /\ -DblMax < beyond
    BY WeightsAssumption DEF Init
  <2>2. mThreshold \in (1 - DblMax) .. (DblMax - 1)
    BY WeightsAssumption DEF Init
  <2> QED BY <1>2, <2>1, <2>2
<1>5. mItvlList = [p \in 0 .. Len(mWeightArray) - 1 |-> Nil]
  BY DEF Init, Below, mNv
<1>6. IsList(Nil)
  BY NilTree DEF IsList
<1>7. ListInv
  BY <1>5, <1>6 DEF ListInv
<1>8. StackInv
  <2>1. stack = <<>>
    BY DEF Init
  <2>2. stack \in Seq(FrameSet) /\ Len(stack) = 0
    BY <2>1, EmptySeq
  <2> QED BY <2>2 DEF StackInv
<1>9. IsReturn(ret, Len(mWeightArray))
  <2>1. ret = Call(0, mThreshold) /\ 0 \in 0 .. Len(mWeightArray)
    BY <1>3 DEF Init
  <2> QED BY <1>3, <1>4, <2>1, Returns
<1> QED BY <1>2, <1>3, <1>4, <1>7, <1>8, <1>9 DEF TInv, InputInv

LEMMA Frame ==
  ASSUME NEW pos, NEW slack, NEW without
  PROVE  LET fr == [pos |-> pos, slack |-> slack, without |-> without]
         IN  /\ fr.pos = pos /\ fr.slack = slack /\ fr.without = without
             /\ pos \in Nat /\ slack \in Int /\ without \in {Failed("none")} \cup BddSet => fr \in FrameSet
BY DEF FrameSet

\* The bounds that are returned are those of one of the two calls.
LEMMA BoundsInt ==
  ASSUME NEW r0 \in BddSet, NEW r1 \in BddSet, NEW w \in Int
  PROVE  LET b == Bounds(r0, r1, w)
         IN  /\ b.lb \in Int /\ b.ub \in Int
             /\ b.lb = IF r1.lb # DblMin /\ r0.lb < r1.lb + w THEN r1.lb + w ELSE r0.lb
             /\ b.ub = IF r1.ub # DblMax /\ r0.ub > r1.ub + w THEN r1.ub + w ELSE r0.ub
<1>1. r0.lb \in Int /\ r1.lb \in Int /\ r0.ub \in Int /\ r1.ub \in Int
  BY Kinds
<1> DEFINE lb == IF r1.lb # DblMin /\ r0.lb < r1.lb + w THEN r1.lb + w ELSE r0.lb
           ub == IF r1.ub # DblMax /\ r0.ub > r1.ub + w THEN r1.ub + w ELSE r0.ub
<1>2. lb \in Int /\ ub \in Int
  BY <1>1
<1>3. Bounds(r0, r1, w) = Bdd({}, lb, ub)
  BY DEF Bounds
<1> HIDE DEF lb, ub
<1>4. Bounds(r0, r1, w).lb = lb /\ Bounds(r0, r1, w).ub = ub
  BY <1>3, Kinds
<1> QED BY <1>2, <1>4 DEF lb, ub

LEMMA MadeBdd ==
  ASSUME NEW f0 \in Families, NEW f1 \in Families, NEW pos \in Nat
  PROVE  MakeBdd(pos, f0, f1) \in Families
<1>1. \A s \in f1 : s \cup {pos} \in SUBSET Nat
  BY DEF Families
<1>2. f0 \subseteq SUBSET Nat
  BY DEF Families
<1>3. {s \cup {pos} : s \in f1} \subseteq SUBSET Nat
  BY <1>1
<1>4. f0 \cup {s \cup {pos} : s \in f1} \subseteq SUBSET Nat
  BY <1>2, <1>3, Zenon
<1> QED BY <1>4 DEF MakeBdd, Families

LEMMA NewNode ==
  ASSUME NEW lb \in Int, NEW ub \in Int, NEW f \in Families
  PROVE  LET n == Node(lb, ub, f)
         IN  n \in NodeSet /\ IsInterval(n) /\ n.mLb = lb /\ n.mUb = ub /\ n.mF = f
BY DEF Node, NodeSet, IsInterval

LEMMA StoreType ==
  ASSUME TInv, Store
  PROVE  ListInv' /\ StackInv' /\ IsReturn(ret', Len(mWeightArray))
<1> DEFINE n == Len(mWeightArray)
<1>1. /\ stack # <<>> /\ ret.kind = "bdd" /\ Caller.without.kind # "none"
      /\ stack' = SubSeq(stack, 1, Len(stack) - 1) /\ mWeightArray' = mWeightArray
  BY DEF Store, Back, ForFirst, input
<1>2. ret \in BddSet /\ Caller.without \in BddSet /\ Caller.pos \in 0 .. n - 1
  BY <1>1, FrameParts DEF TInv, IsReturn
<1>3. n \in Nat /\ Weight(Caller.pos) \in Int
  BY <1>2, WeightInt DEF TInv
<1> DEFINE pos == Caller.pos
           b == Bounds(Caller.without, ret, Weight(pos))
           f == MakeBdd(pos, Caller.without.f, ret.f)
           new == Node(b.lb, b.ub, f)
<1>4. b.lb \in Int /\ b.ub \in Int
  BY <1>2, <1>3, BoundsInt
<1>5. f \in Families
  <2>1. Caller.without.f \in Families /\ ret.f \in Families /\ pos \in Nat
    BY <1>2, <1>3, Kinds
  <2> QED BY <2>1, MadeBdd
<1>6. StackInv'
  <2>1. Len(stack) \in Nat \ {0}
    BY <1>1, FrameParts DEF TInv
  <2>2. stack' \in Seq(FrameSet) /\ Len(stack') = Len(stack) - 1
        /\ \A i \in 1 .. Len(stack) - 1 : stack'[i] = stack[i]
    BY <1>1, FrameParts DEF TInv
  <2>3. \A i \in 1 .. Len(stack) : stack[i].pos \in 0 .. n - 1
    BY DEF TInv, StackInv
  <2>4. \A i \in 1 .. Len(stack') : stack'[i].pos \in 0 .. n - 1
    <3>1. \A i \in 1 .. Len(stack) - 1 : i \in 1 .. Len(stack)
      BY <2>1
    <3> QED BY <2>2, <2>3, <3>1
  <2> QED BY <1>1, <2>2, <2>4 DEF StackInv
<1>7. DOMAIN mItvlList = 0 .. n - 1 /\ \A p \in 0 .. n - 1 : IsList(mItvlList[p])
  BY DEF TInv, ListInv
<1>8. /\ (b.ub - b.lb < MinGap => ret' = Failed("aborted") /\ mItvlList' = mItvlList)
      /\ (~ (b.ub - b.lb < MinGap) /\ Places(new, mItvlList[pos]) = {} =>
            ret' = Failed("overlap") /\ mItvlList' = mItvlList)
      /\ (~ (b.ub - b.lb < MinGap) /\ Places(new, mItvlList[pos]) # {} =>
            /\ \E p \in Places(new, mItvlList[pos]) :
                 mItvlList' = [mItvlList EXCEPT ![pos] = add_node(new, mItvlList[pos], p)]
            /\ ret' = Bdd(f, b.lb, b.ub))
  BY DEF Store
<1> HIDE DEF b, f
<1>9. IsReturn(ret', n)
  BY <1>3, <1>4, <1>5, <1>8, Returns
<1>10. ListInv'
  <2>1. CASE mItvlList' = mItvlList
    BY <1>1, <1>7, <2>1 DEF ListInv
  <2>2. CASE mItvlList' # mItvlList
    <3>1. b.lb < b.ub /\ Places(new, mItvlList[pos]) # {}
      <4>1. ~ (b.ub - b.lb < MinGap) /\ Places(new, mItvlList[pos]) # {}
        BY <1>8, <2>2
      <4>2. MinGap \in Nat \ {0}
        BY WeightsAssumption
      <4>3. \A x, y \in Int : ~ (x - y < MinGap) => y < x
        BY <4>2
      <4> HIDE DEF b, new
      <4> QED BY <1>4, <4>1, <4>3
    <3>2. PICK p \in Places(new, mItvlList[pos]) :
            mItvlList' = [mItvlList EXCEPT ![pos] = add_node(new, mItvlList[pos], p)]
      BY <1>8, <2>2
    <3>3. new \in NodeSet /\ IsInterval(new) /\ new.mLb < new.mUb
      BY <1>4, <1>5, <3>1, NewNode
    <3>4. IsTree(mItvlList[pos]) /\ IsAvl(mItvlList[pos]) /\ Nodes(mItvlList[pos]) \subseteq NodeSet
      BY <1>2, <1>7 DEF IsList
    <3> HIDE DEF new
    <3>5. IsList(add_node(new, mItvlList[pos], p))
      BY <3>3, <3>4, NodeAdded DEF IsList
    <3>6. DOMAIN mItvlList' = 0 .. n - 1 /\ \A q \in 0 .. n - 1 : IsList(mItvlList'[q])
      BY <1>7, <3>2, <3>5
    <3> QED BY <1>1, <3>6 DEF ListInv
  <2> QED BY <2>1, <2>2
<1> QED BY <1>6, <1>9, <1>10

LEMMA TNext ==
  ASSUME TInv, [Next]_vars
  PROVE  TInv'
<1> DEFINE n == Len(mWeightArray)
<1>1. input' = input
  BY DEF Next, vars, One, Zero, Crash, Found, Descend, WithWeight, Store, input
<1>2. InputInv' /\ mWeightArray' = mWeightArray
  BY <1>1 DEF TInv, InputInv, OrderInv, input
<1>3. n \in Nat
  BY WeightInt DEF TInv
<1>4. ASSUME UNCHANGED <<mItvlList, stack>> PROVE ListInv' /\ StackInv'
  BY <1>2, <1>4 DEF TInv, ListInv, StackInv
<1>5. ASSUME Calls PROVE ret.pos \in 0 .. n /\ ret.slack \in Int
  BY <1>5 DEF Calls, TInv, IsReturn
<1>6. \A p \in 0 .. n : Below(p) \subseteq Nat
  BY <1>3 DEF Below, mNv
<1>7. DblMax \in Int /\ DblMin \in Int
  BY WeightsAssumption DEF DblMin
<1>8. CASE One
  <2>1. ret' = Bdd(SUBSET Below(ret.pos), DblMin, 0) /\ UNCHANGED <<mItvlList, stack>>
    BY <1>8 DEF One
  <2>2. SUBSET Below(ret.pos) \in Families
    BY <1>5, <1>6, <1>8 DEF One, Families
  <2>3. IsReturn(ret', n)
    BY <1>3, <1>7, <2>1, <2>2, Returns
  <2> QED BY <1>2, <1>4, <2>1, <2>3 DEF TInv
<1>9. CASE Zero
  <2>1. ret' = Bdd({}, Acc(ret.pos), DblMax) /\ UNCHANGED <<mItvlList, stack>>
    BY <1>9 DEF Zero
  <2>2. {} \in Families /\ Acc(ret.pos) \in Int
    BY WeightInt DEF Families, TInv
  <2>3. IsReturn(ret', n)
    BY <1>3, <1>7, <2>1, <2>2, Returns
  <2> QED BY <1>2, <1>4, <2>1, <2>3 DEF TInv
<1>10. CASE Crash
  <2>1. ret' = Failed("crashed") /\ UNCHANGED <<mItvlList, stack>>
    BY <1>10 DEF Crash
  <2>2. IsReturn(ret', n)
    BY <1>3, <2>1, Returns
  <2> QED BY <1>2, <1>4, <2>1, <2>2 DEF TInv
<1>11. CASE Found
  <2>1. PICK m \in InList : ret' = Bdd(m.mF, m.mLb, m.mUb)
    BY <1>11 DEF Found
  <2>2. ret.pos \in 0 .. n - 1
    BY <1>3, <1>5, <1>11 DEF Found, Between, mNv
  <2>3. Nodes(mItvlList[ret.pos]) \subseteq NodeSet
    BY <2>2 DEF TInv, ListInv, IsList
  <2>4. m \in NodeSet
    BY <2>3 DEF InList, find_node, Nodes
  <2>5. m.mF \in Families /\ m.mLb \in Int /\ m.mUb \in Int
    BY <2>4 DEF NodeSet
  <2>6. IsReturn(ret', n)
    BY <1>3, <2>1, <2>5, Returns
  <2>7. UNCHANGED <<mItvlList, stack>>
    BY <1>11 DEF Found
  <2> QED BY <1>2, <1>4, <2>6, <2>7 DEF TInv
<1>12. CASE Descend
  <2>1. /\ stack' = Append(stack, [pos |-> ret.pos, slack |-> ret.slack, without |-> Failed("none")])
        /\ ret' = Call(ret.pos + 1, ret.slack) /\ mItvlList' = mItvlList
    BY <1>12 DEF Descend
  <2>2. ret.pos \in 0 .. n - 1 /\ ret.pos + 1 \in 0 .. n /\ ret.slack \in Int /\ ret.pos \in Nat
    BY <1>3, <1>5, <1>12 DEF Descend, Between, mNv
  <2>3. IsReturn(ret', n)
    BY <1>3, <2>1, <2>2, Returns
  <2>4. PICK fr : fr = [pos |-> ret.pos, slack |-> ret.slack, without |-> Failed("none")]
    OBVIOUS
  <2>5. fr \in FrameSet /\ fr.pos = ret.pos
    BY <2>2, <2>4, Frame
  <2>6. stack \in Seq(FrameSet) /\ \A i \in 1 .. Len(stack) : stack[i].pos \in 0 .. n - 1
    BY DEF TInv, StackInv
  <2>7. stack' \in Seq(FrameSet) /\ Len(stack') = Len(stack) + 1 /\ Len(stack) \in Nat
        /\ stack'[Len(stack) + 1] = fr /\ \A i \in 1 .. Len(stack) : stack'[i] = stack[i]
    BY <2>1, <2>4, <2>5, <2>6, AppendProperties, LenProperties
  <2>8. \A i \in 1 .. Len(stack') : stack'[i].pos \in 0 .. n - 1
    <3>1. \A i \in 1 .. Len(stack') : i \in 1 .. Len(stack) \/ i = Len(stack) + 1
      BY <2>7
    <3> QED BY <2>2, <2>5, <2>6, <2>7, <3>1
  <2>9. StackInv'
    BY <1>2, <2>7, <2>8 DEF StackInv
  <2>10. ListInv'
    BY <1>2, <2>1 DEF ListInv, TInv
  <2> QED BY <1>2, <2>3, <2>9, <2>10 DEF TInv
<1>13. CASE WithWeight
  <2>1. /\ stack # <<>> /\ ret.kind = "bdd" /\ mItvlList' = mItvlList
        /\ stack' = [stack EXCEPT ![Len(stack)].without = ret]
        /\ ret' = Call(Caller.pos + 1, Caller.slack - Weight(Caller.pos))
    BY <1>13 DEF WithWeight, ForFirst, Back
  <2>2. /\ Len(stack) \in 1 .. Len(stack) /\ Caller \in FrameSet
        /\ Caller.pos \in 0 .. n - 1 /\ Caller.slack \in Int
    BY <2>1, FrameParts DEF TInv
  <2>3. Weight(Caller.pos) \in Int
    BY <2>2, WeightInt DEF TInv
  <2>4. IsReturn(ret', n)
    <3>1. Caller.pos + 1 \in 0 .. n /\ Caller.slack - Weight(Caller.pos) \in Int
      BY <1>3, <2>2, <2>3
    <3> QED BY <1>3, <2>1, <3>1, Returns
  <2>5. PICK fr : fr = [Caller EXCEPT !.without = ret]
    OBVIOUS
  <2>6. fr \in FrameSet /\ fr.pos = Caller.pos
    <3>1. ret \in BddSet
      BY <2>1 DEF TInv, IsReturn
    <3> QED BY <2>2, <2>5, <3>1 DEF FrameSet
  <2>7. stack' = [stack EXCEPT ![Len(stack)] = fr]
    BY <2>1, <2>5 DEF Caller
  <2>8. stack \in Seq(FrameSet) /\ \A i \in 1 .. Len(stack) : stack[i].pos \in 0 .. n - 1
    BY DEF TInv, StackInv
  <2>9. /\ stack' \in Seq(FrameSet) /\ Len(stack') = Len(stack)
        /\ \A i \in 1 .. Len(stack) : stack'[i] = IF i = Len(stack) THEN fr ELSE stack[i]
    BY <2>2, <2>6, <2>7, <2>8, ExceptSeq
  <2>10. \A i \in 1 .. Len(stack') : stack'[i].pos \in 0 .. n - 1
    BY <2>2, <2>6, <2>8, <2>9
  <2>11. StackInv'
    BY <1>2, <2>9, <2>10 DEF StackInv
  <2>12. ListInv'
    BY <1>2, <2>1 DEF ListInv, TInv
  <2> QED BY <1>2, <2>4, <2>11, <2>12 DEF TInv
<1>14. CASE Store
  BY <1>2, <1>14, StoreType DEF TInv
<1>15. CASE UNCHANGED vars
  <2>1. UNCHANGED <<mItvlList, stack>> /\ ret' = ret
    BY <1>15 DEF vars
  <2> QED BY <1>2, <1>4, <2>1 DEF TInv
<1> QED BY <1>8, <1>9, <1>10, <1>11, <1>12, <1>13, <1>14, <1>15 DEF Next

\* For every array of weights of any sign, at every step of gen_bdd: the lists of
\* the levels are trees with heights and nodes in order, the stack, the call and
\* the result have the shape their frames say, and the positions hold the weights
\* of the array given, each index once.
THEOREM Types == Spec => []TInv
<1>1. Init => TInv
  BY TInit
<1>2. TInv /\ [Next]_vars => TInv'
  BY TNext
<1> QED BY <1>1, <1>2, PTL DEF Spec

\* ListsBalanced holds for every array of weights of any sign: at every step of gen_bdd
\* the list of each level is an AVL tree, ItvlList::add_node and the rotations
\* having left no node out of order and none with subtrees two levels apart.
THEOREM EveryListBalanced == Spec => []ListsBalanced
<1>1. TInv => ListsBalanced
  BY WeightInt DEF TInv, ListInv, IsList, ListsBalanced, Below
<1> QED BY <1>1, Types, PTL

------------------------------------------------------------------------------
(***************************************************************************)
(* What an interval of slacks says of its function: mLb is the largest sum *)
(* that is not to exceed the slack, mUb the smallest that is. The word     *)
(* behind the array is added to the sum of a set without the last weight   *)
(* when the set with it is in the function.                                *)
(***************************************************************************)
Sets(w, p) == SUBSET (p .. Len(w) - 1)

More(w, p, s) == {x \in Sets(w, p) : Sum(w, x) > s}

IsExtra(w, p, f, x) ==
  p = Len(w) \/ (Len(w) - 1 \notin x /\ x \cup {Len(w) - 1} \in f)
Cost(w, b, p, f, x) == Sum(w, x) + (IF IsExtra(w, p, f, x) THEN b ELSE 0)

IsLow(w, b, p, f, lb) ==
  IF f = Sets(w, p) THEN lb = DblMin
  ELSE /\ \E x \in Sets(w, p) \ f : lb = Cost(w, b, p, f, x)
       /\ \A x \in Sets(w, p) \ f : Cost(w, b, p, f, x) <= lb
IsHigh(w, p, f, ub) ==
  IF f = {} THEN ub = DblMax
  ELSE (\E x \in f : ub = Sum(w, x)) /\ \A x \in f : ub <= Sum(w, x)

Exact(w, b, p, f, lb, ub) ==
  /\ f \subseteq Sets(w, p) /\ lb \in Int /\ ub \in Int
  /\ IsLow(w, b, p, f, lb) /\ IsHigh(w, p, f, ub)

ExactAt(w, b, p, f, lb, ub, s) == Exact(w, b, p, f, lb, ub) /\ lb <= s /\ s < ub

LEMMA CostNat ==
  ASSUME NEW w \in Seq(Nat), NEW b \in Nat, NEW p, NEW f, NEW x
  PROVE  Sum(w, x) \in Nat /\ Cost(w, b, p, f, x) \in Nat /\ Cost(w, b, p, f, x) >= Sum(w, x)
<1>1. Sum(w, x) \in Nat
  BY SumNat
<1> QED BY <1>1 DEF Cost

\* The word behind the array may be below 0, but not as low as DBL_MIN.
IsWord(b) == -DblMax < b

LEMMA CostInt ==
  ASSUME NEW w \in Seq(Nat), NEW b \in Int, NEW p, NEW f, NEW x
  PROVE  /\ Sum(w, x) \in Nat /\ Cost(w, b, p, f, x) \in Int
         /\ b < 0 => Cost(w, b, p, f, x) >= b
         /\ b >= 0 => Cost(w, b, p, f, x) >= 0
         /\ Cost(w, b, p, f, x) <= Sum(w, x) + (IF b > 0 THEN b ELSE 0)
<1>1. Sum(w, x) \in Nat
  BY SumNat
<1> QED BY <1>1 DEF Cost

LEMMA ExactIsMore ==
  ASSUME NEW w \in Seq(Nat), NEW b \in Nat, NEW p, NEW f, NEW lb, NEW ub, NEW s \in Int,
         ExactAt(w, b, p, f, lb, ub, s)
  PROVE  f = More(w, p, s)
<1>1. f \subseteq Sets(w, p) /\ lb \in Int /\ ub \in Int /\ lb <= s /\ s < ub
  BY DEF ExactAt, Exact
<1>2. ASSUME NEW x \in f PROVE Sum(w, x) > s
  <2>1. ub <= Sum(w, x)
    BY <1>2 DEF ExactAt, Exact, IsHigh
  <2>2. Sum(w, x) \in Nat
    BY SumNat
  <2> QED BY <1>1, <2>1, <2>2
<1>3. ASSUME NEW x \in Sets(w, p) \ f PROVE ~ (Sum(w, x) > s)
  <2>1. f # Sets(w, p)
    BY <1>3
  <2>2. Cost(w, b, p, f, x) <= lb
    BY <1>3, <2>1 DEF ExactAt, Exact, IsLow
  <2>3. Sum(w, x) \in Nat /\ Cost(w, b, p, f, x) \in Nat /\ Cost(w, b, p, f, x) >= Sum(w, x)
    BY CostNat
  <2> QED BY <1>1, <2>2, <2>3
<1> QED BY <1>1, <1>2, <1>3 DEF More

\* Two intervals with a slack in common are one.
LEMMA OneInterval ==
  ASSUME NEW w \in Seq(Nat), NEW b \in Nat, NEW p, NEW s \in Int,
         NEW f, NEW lb, NEW ub, ExactAt(w, b, p, f, lb, ub, s),
         NEW g, NEW lc, NEW uc, ExactAt(w, b, p, g, lc, uc, s)
  PROVE  f = g /\ lb = lc /\ ub = uc
<1>1. f = g
  BY ExactIsMore
<1>2. lb \in Int /\ ub \in Int /\ lc \in Int /\ uc \in Int
  BY DEF ExactAt, Exact
<1>3. lb = lc
  <2>1. IsLow(w, b, p, f, lb) /\ IsLow(w, b, p, f, lc)
    BY <1>1 DEF ExactAt, Exact
  <2>2. CASE f = Sets(w, p)
    BY <2>1, <2>2 DEF IsLow
  <2>3. CASE f # Sets(w, p)
    <3>1. lb <= lc /\ lc <= lb
      BY <2>1, <2>3 DEF IsLow
    <3> QED BY <1>2, <3>1
  <2> QED BY <2>2, <2>3
<1>4. ub = uc
  <2>1. IsHigh(w, p, f, ub) /\ IsHigh(w, p, f, uc)
    BY <1>1 DEF ExactAt, Exact
  <2>2. CASE f = {}
    BY <2>1, <2>2 DEF IsHigh
  <2>3. CASE f # {}
    <3>1. ub <= uc /\ uc <= ub
      BY <2>1, <2>3 DEF IsHigh
    <3> QED BY <1>2, <3>1
  <2> QED BY <2>2, <2>3
<1> QED BY <1>1, <1>3, <1>4

\* All sets exceed a negative slack.
LEMMA OneExact ==
  ASSUME NEW w \in Seq(Nat), NEW b \in Int, NEW p \in 0 .. Len(w), NEW s \in Int,
         DblMax \in Nat, - DblMax <= s, s < 0
  PROVE  ExactAt(w, b, p, Sets(w, p), DblMin, 0, s)
<1>1. DblMin \in Int /\ DblMin <= s
  BY DEF DblMin
<1>2. {} \in Sets(w, p) /\ Sum(w, {}) = 0
  BY SumNone DEF Sets
<1>3. \A x \in Sets(w, p) : 0 <= Sum(w, x)
  BY SumNat
<1>4. IsHigh(w, p, Sets(w, p), 0)
  BY <1>2, <1>3 DEF IsHigh
<1>5. IsLow(w, b, p, Sets(w, p), DblMin)
  BY DEF IsLow
<1> QED BY <1>1, <1>4, <1>5 DEF ExactAt, Exact

\* No set exceeds the sum of all weights left; at the position behind the
\* array, where no weight is left, the word there.
LEMMA ZeroExact ==
  ASSUME NEW w \in Seq(Nat), NEW b \in Int, NEW p \in 0 .. Len(w), NEW s \in Int, NEW acc,
         acc = IF p < Len(w) THEN Sum(w, p .. Len(w) - 1) ELSE b,
         DblMax \in Nat, acc <= s, s < DblMax
  PROVE  ExactAt(w, b, p, {}, acc, DblMax, s)
<1>1. Len(w) \in Nat
  BY LenProperties
<1>2. acc \in Int
  BY SumNat
<1>3. IsHigh(w, p, {}, DblMax)
  BY DEF IsHigh
<1>4. {} # Sets(w, p)
  BY DEF Sets
<1>5. CASE p < Len(w)
  <2>1. \A x : ~ IsExtra(w, p, {}, x)
    BY <1>1, <1>5 DEF IsExtra
  <2>2. \A x : Cost(w, b, p, {}, x) = Sum(w, x)
    <3>1. \A x : Sum(w, x) \in Nat
      BY SumNat
    <3> QED BY <2>1, <3>1 DEF Cost
  <2>3. p .. Len(w) - 1 \in Sets(w, p) /\ acc = Sum(w, p .. Len(w) - 1)
    BY <1>5 DEF Sets
  <2>4. \A x \in Sets(w, p) : Sum(w, x) <= acc
    BY <2>3, SumMore DEF Sets
  <2>5. IsLow(w, b, p, {}, acc)
    BY <1>4, <2>2, <2>3, <2>4 DEF IsLow
  <2> QED BY <1>2, <1>3, <2>5 DEF ExactAt, Exact
<1>6. CASE ~ (p < Len(w))
  <2>1. p = Len(w)
    BY <1>1, <1>6
  <2>2. Sets(w, p) = {{}}
    <3>1. p .. Len(w) - 1 = {}
      BY <1>1, <2>1
    <3> QED BY <3>1 DEF Sets
  <2>3. Cost(w, b, p, {}, {}) = b
    <3>1. IsExtra(w, p, {}, {}) /\ Sum(w, {}) = 0
      BY <2>1, SumNone DEF IsExtra
    <3> QED BY <3>1 DEF Cost
  <2>4. IsLow(w, b, p, {}, acc)
    <3>1. acc = b
      BY <1>6
    <3>2. \A x \in Sets(w, p) \ {} : x = {}
      BY <2>2
    <3>3. {} \in Sets(w, p) \ {}
      BY <2>2
    <3>4. acc = Cost(w, b, p, {}, {}) /\ Cost(w, b, p, {}, {}) <= acc
      BY <1>2, <2>3, <3>1
    <3> QED BY <1>4, <3>2, <3>3, <3>4, Zenon DEF IsLow
  <2> QED BY <1>2, <1>3, <2>4 DEF ExactAt, Exact
<1> QED BY <1>5, <1>6

------------------------------------------------------------------------------
(***************************************************************************)
(* The interval gen_bdd gives the function it makes of the results of its  *)
(* two calls.                                                              *)
(***************************************************************************)
LEMMA SetsSplit ==
  ASSUME NEW w \in Seq(Nat), NEW p \in 0 .. Len(w) - 1
  PROVE  /\ \A y \in Sets(w, p + 1) :
              /\ y \in Sets(w, p) /\ p \notin y
              /\ y \cup {p} \in Sets(w, p) /\ (y \cup {p}) \ {p} = y
              /\ Sum(w, y \cup {p}) = Sum(w, y) + w[p + 1]
         /\ \A x \in Sets(w, p) :
              /\ p \notin x => x \in Sets(w, p + 1)
              /\ p \in x => /\ x \ {p} \in Sets(w, p + 1) /\ (x \ {p}) \cup {p} = x
                            /\ Sum(w, x) = Sum(w, x \ {p}) + w[p + 1]
<1>1. Len(w) \in Nat
  BY LenProperties
<1>2. \A q : q \in p .. Len(w) - 1 <=> q = p \/ q \in p + 1 .. Len(w) - 1
  BY <1>1
<1>3. p \notin p + 1 .. Len(w) - 1
  OBVIOUS
<1>4. ASSUME NEW y \in Sets(w, p + 1)
      PROVE  /\ y \in Sets(w, p) /\ p \notin y
             /\ y \cup {p} \in Sets(w, p) /\ (y \cup {p}) \ {p} = y
  BY <1>2, <1>3 DEF Sets
<1>5. ASSUME NEW y \in Sets(w, p + 1) PROVE Sum(w, y \cup {p}) = Sum(w, y) + w[p + 1]
  BY <1>4, SumAdd
<1>6. ASSUME NEW x \in Sets(w, p)
      PROVE  /\ p \notin x => x \in Sets(w, p + 1)
             /\ p \in x => x \ {p} \in Sets(w, p + 1) /\ (x \ {p}) \cup {p} = x
  BY <1>2, <1>3 DEF Sets
<1>7. ASSUME NEW x \in Sets(w, p), p \in x PROVE Sum(w, x) = Sum(w, x \ {p}) + w[p + 1]
  BY <1>5, <1>6, <1>7
<1> QED BY <1>4, <1>5, <1>6, <1>7

LEMMA InMade ==
  ASSUME NEW w \in Seq(Nat), NEW p \in 0 .. Len(w) - 1,
         NEW f0, f0 \subseteq Sets(w, p + 1), NEW f1, f1 \subseteq Sets(w, p + 1)
  PROVE  /\ MakeBdd(p, f0, f1) \subseteq Sets(w, p)
         /\ \A y \in Sets(w, p + 1) : /\ y \in MakeBdd(p, f0, f1) <=> y \in f0
                                      /\ y \cup {p} \in MakeBdd(p, f0, f1) <=> y \in f1
<1>1. PICK f : f = MakeBdd(p, f0, f1)
  OBVIOUS
<1>2. \A x : x \in f <=> x \in f0 \/ \E y \in f1 : x = y \cup {p}
  BY <1>1 DEF MakeBdd
<1>3. \A y \in Sets(w, p + 1) : /\ y \in Sets(w, p) /\ p \notin y
                                /\ y \cup {p} \in Sets(w, p) /\ (y \cup {p}) \ {p} = y
  BY SetsSplit
<1>4. f \subseteq Sets(w, p)
  <2>1. ASSUME NEW x \in f PROVE x \in Sets(w, p)
    <3>1. CASE x \in f0
      BY <1>3, <3>1
    <3>2. CASE \E y \in f1 : x = y \cup {p}
      <4>1. PICK y \in f1 : x = y \cup {p}
        BY <3>2
      <4>2. y \in Sets(w, p + 1)
        OBVIOUS
      <4>3. y \cup {p} \in Sets(w, p)
        BY <1>3, <4>2
      <4> QED BY <4>1, <4>3
    <3> QED BY <1>2, <3>1, <3>2
  <2> QED BY <2>1
<1>5. ASSUME NEW y \in Sets(w, p + 1) PROVE y \in f <=> y \in f0
  <2>1. \A z : y # z \cup {p}
    BY <1>3
  <2> QED BY <1>2, <2>1
<1>6. ASSUME NEW y \in Sets(w, p + 1) PROVE y \cup {p} \in f <=> y \in f1
  <2>1. y \cup {p} \notin f0
    <3>1. p \in y \cup {p}
      OBVIOUS
    <3> QED BY <1>3, <3>1
  <2>2. ASSUME NEW z \in f1, y \cup {p} = z \cup {p} PROVE y = z
    <3>1. (y \cup {p}) \ {p} = y /\ (z \cup {p}) \ {p} = z
      BY <1>3
    <3> QED BY <2>2, <3>1
  <2> QED BY <1>2, <2>1, <2>2
<1> QED BY <1>1, <1>4, <1>5, <1>6

\* Below the last weight the word behind the array is added to the same sets.
LEMMA CostWithout ==
  ASSUME NEW w \in Seq(Nat), NEW b \in Int, NEW p \in 0 .. Len(w) - 2,
         NEW f0, f0 \subseteq Sets(w, p + 1), NEW f1, f1 \subseteq Sets(w, p + 1),
         NEW y \in Sets(w, p + 1)
  PROVE  Cost(w, b, p, MakeBdd(p, f0, f1), y) = Cost(w, b, p + 1, f0, y)
<1>1. PICK f : f = MakeBdd(p, f0, f1)
  OBVIOUS
<1>2. Len(w) \in Nat /\ p \in 0 .. Len(w) - 1 /\ p # Len(w) /\ p + 1 # Len(w) /\ p # Len(w) - 1
      /\ p + 1 \in 1 .. Len(w)
  <2>1. Len(w) \in Nat
    BY LenProperties
  <2> QED BY <2>1
<1>3. PICK last : last = Len(w) - 1
  OBVIOUS
<1>4. last \in p + 1 .. Len(w) - 1 /\ p # last
  BY <1>2, <1>3
<1>5. y \cup {last} \in Sets(w, p + 1)
  BY <1>3, <1>4 DEF Sets
<1>6. \A z \in Sets(w, p + 1) : (z \in f <=> z \in f0) /\ (z \cup {p} \in f <=> z \in f1)
  BY <1>1, <1>2, InMade
<1>7. IsExtra(w, p, f, y) <=> IsExtra(w, p + 1, f0, y)
  BY <1>2, <1>3, <1>5, <1>6 DEF IsExtra
<1> QED BY <1>1, <1>7 DEF Cost

LEMMA CostWith ==
  ASSUME NEW w \in Seq(Nat), NEW b \in Int, NEW p \in 0 .. Len(w) - 2,
         NEW f0, f0 \subseteq Sets(w, p + 1), NEW f1, f1 \subseteq Sets(w, p + 1),
         NEW y \in Sets(w, p + 1)
  PROVE  Cost(w, b, p, MakeBdd(p, f0, f1), y \cup {p}) = Cost(w, b, p + 1, f1, y) + w[p + 1]
<1>1. PICK f : f = MakeBdd(p, f0, f1)
  OBVIOUS
<1>2. Len(w) \in Nat /\ p \in 0 .. Len(w) - 1 /\ p # Len(w) /\ p + 1 # Len(w) /\ p # Len(w) - 1
      /\ p + 1 \in 1 .. Len(w)
  <2>1. Len(w) \in Nat
    BY LenProperties
  <2> QED BY <2>1
<1>3. PICK last : last = Len(w) - 1
  OBVIOUS
<1>4. last \in p + 1 .. Len(w) - 1 /\ p # last
  BY <1>2, <1>3
<1>5. y \cup {last} \in Sets(w, p + 1)
  BY <1>3, <1>4 DEF Sets
<1>6. \A z \in Sets(w, p + 1) : (z \in f <=> z \in f0) /\ (z \cup {p} \in f <=> z \in f1)
  BY <1>1, <1>2, InMade
<1>8. IsExtra(w, p, f, y \cup {p}) <=> IsExtra(w, p + 1, f1, y)
  <2>1. (y \cup {p}) \cup {last} = (y \cup {last}) \cup {p} /\ (last \in y \cup {p} <=> last \in y)
    BY <1>4
  <2>2. (y \cup {p}) \cup {last} \in f <=> y \cup {last} \in f1
    BY <1>5, <1>6, <2>1
  <2> QED BY <1>2, <1>3, <2>1, <2>2 DEF IsExtra
<1>9. Sum(w, y \cup {p}) = Sum(w, y) + w[p + 1]
  BY <1>2, SetsSplit
<1>10. Sum(w, y) \in Nat /\ w[p + 1] \in Nat
  BY <1>2, SumNat, ShareNat
<1>12. Cost(w, b, p, f, y \cup {p}) = Cost(w, b, p + 1, f1, y) + w[p + 1]
  <2>1. CASE IsExtra(w, p + 1, f1, y)
    <3>1. Cost(w, b, p, f, y \cup {p}) = Sum(w, y \cup {p}) + b /\ Cost(w, b, p + 1, f1, y) = Sum(w, y) + b
      BY <1>8, <2>1 DEF Cost
    <3> QED BY <1>9, <1>10, <3>1
  <2>2. CASE ~ IsExtra(w, p + 1, f1, y)
    <3>1. Cost(w, b, p, f, y \cup {p}) = Sum(w, y \cup {p}) + 0 /\ Cost(w, b, p + 1, f1, y) = Sum(w, y) + 0
      BY <1>8, <2>2 DEF Cost
    <3> QED BY <1>9, <1>10, <3>1
  <2> QED BY <2>1, <2>2
<1> QED BY <1>1, <1>12

CostsAgree(w, b, p, f, f0, f1) ==
  \A y \in Sets(w, p + 1) :
    /\ Cost(w, b, p, f, y) = Cost(w, b, p + 1, f0, y)
    /\ Cost(w, b, p, f, y \cup {p}) = Cost(w, b, p + 1, f1, y) + w[p + 1]

LEMMA CostsMade ==
  ASSUME NEW w \in Seq(Nat), NEW b \in Int, NEW p \in 0 .. Len(w) - 2,
         NEW f0, f0 \subseteq Sets(w, p + 1), NEW f1, f1 \subseteq Sets(w, p + 1)
  PROVE  CostsAgree(w, b, p, MakeBdd(p, f0, f1), f0, f1)
<1>1. ASSUME NEW y \in Sets(w, p + 1)
      PROVE  Cost(w, b, p, MakeBdd(p, f0, f1), y) = Cost(w, b, p + 1, f0, y)
  BY CostWithout
<1>2. ASSUME NEW y \in Sets(w, p + 1)
      PROVE  Cost(w, b, p, MakeBdd(p, f0, f1), y \cup {p}) = Cost(w, b, p + 1, f1, y) + w[p + 1]
  BY CostWith
<1> QED BY <1>1, <1>2 DEF CostsAgree

LEMMA MadeHigh ==
  ASSUME NEW w \in Seq(Nat), NEW p \in 0 .. Len(w) - 1, DblMax \in Nat, \A ps : Sum(w, ps) < DblMax,
         NEW f0, f0 \subseteq Sets(w, p + 1), NEW u0 \in Int, IsHigh(w, p + 1, f0, u0),
         NEW f1, f1 \subseteq Sets(w, p + 1), NEW u1 \in Int, IsHigh(w, p + 1, f1, u1), f1 # {}
  PROVE  LET ub == IF u1 # DblMax /\ u0 > u1 + w[p + 1] THEN u1 + w[p + 1] ELSE u0
         IN  IsHigh(w, p, MakeBdd(p, f0, f1), ub)
<1>1. PICK f : f = MakeBdd(p, f0, f1)
  OBVIOUS
<1>2. PICK v \in Int : v = u1 + w[p + 1]
  BY ShareNat
<1>3. PICK ub : ub = IF u1 # DblMax /\ u0 > u1 + w[p + 1] THEN u1 + w[p + 1] ELSE u0
  OBVIOUS
<1>4. /\ f \subseteq Sets(w, p)
      /\ \A y \in Sets(w, p + 1) : (y \in f <=> y \in f0) /\ (y \cup {p} \in f <=> y \in f1)
  BY <1>1, InMade
<1>5. \A y \in Sets(w, p + 1) : Sum(w, y \cup {p}) = Sum(w, y) + w[p + 1]
  BY SetsSplit
<1>6. \A y : Sum(w, y) \in Nat
  BY SumNat
<1>7. PICK x1 \in f1 : u1 = Sum(w, x1)
  BY DEF IsHigh
<1>8. x1 \in Sets(w, p + 1) /\ x1 \cup {p} \in f /\ v = Sum(w, x1 \cup {p})
  BY <1>2, <1>4, <1>5, <1>7
<1>9. u1 # DblMax /\ v < DblMax
  BY <1>7, <1>8
<1>10. ub = (IF u0 > v THEN v ELSE u0) /\ ub <= v /\ ub <= u0
  BY <1>2, <1>3, <1>9
<1>11. \E x \in f : ub = Sum(w, x)
  <2>1. CASE ub = v
    BY <1>8, <2>1
  <2>2. CASE ub # v
    <3>1. ub = u0 /\ ~ (u0 > v)
      BY <1>10, <2>2
    <3>2. u0 # DblMax
      BY <1>2, <1>9, <3>1
    <3>3. PICK x \in f0 : u0 = Sum(w, x)
      BY <3>2 DEF IsHigh
    <3> QED BY <1>4, <3>1, <3>3
  <2> QED BY <2>1, <2>2
<1>12. ASSUME NEW x \in f PROVE ub <= Sum(w, x)
  <2>1. x \in Sets(w, p)
    BY <1>4
  <2>2. CASE p \notin x
    <3>1. x \in Sets(w, p + 1)
      BY <2>1, <2>2, SetsSplit
    <3>2. x \in f0
      BY <1>4, <3>1
    <3>3. u0 <= Sum(w, x)
      BY <3>2 DEF IsHigh
    <3> QED BY <1>2, <1>6, <1>10, <3>3
  <2>3. CASE p \in x
    <3>1. PICK y \in Sets(w, p + 1) : x = y \cup {p} /\ Sum(w, x) = Sum(w, y) + w[p + 1]
      <4>1. /\ x \ {p} \in Sets(w, p + 1) /\ (x \ {p}) \cup {p} = x
            /\ Sum(w, x) = Sum(w, x \ {p}) + w[p + 1]
        BY <2>1, <2>3, SetsSplit
      <4> QED BY <4>1
    <3>2. y \in f1
      BY <1>4, <3>1
    <3>3. u1 <= Sum(w, y)
      BY <3>2 DEF IsHigh
    <3>4. v <= Sum(w, x) /\ Sum(w, x) \in Int
      <4>1. Sum(w, y) \in Nat /\ w[p + 1] \in Nat
        BY <1>6, ShareNat
      <4> QED BY <1>2, <3>1, <3>3, <4>1
    <3> QED BY <1>2, <1>10, <3>4
  <2> QED BY <2>2, <2>3
<1>13. f # {}
  BY <1>8
<1> QED BY <1>1, <1>3, <1>11, <1>12, <1>13 DEF IsHigh

LEMMA MadeLow ==
  ASSUME NEW w \in Seq(Nat), NEW b \in Int, NEW p \in 0 .. Len(w) - 2, DblMax \in Nat \ {0}, IsWord(b),
         NEW f0, f0 \subseteq Sets(w, p + 1), NEW l0 \in Int, IsLow(w, b, p + 1, f0, l0), {} \notin f0,
         NEW f1, f1 \subseteq Sets(w, p + 1), NEW l1 \in Int, IsLow(w, b, p + 1, f1, l1)
  PROVE  LET lb == IF l1 # DblMin /\ l0 < l1 + w[p + 1] THEN l1 + w[p + 1] ELSE l0
         IN  IsLow(w, b, p, MakeBdd(p, f0, f1), lb)
<1>1. PICK f : f = MakeBdd(p, f0, f1)
  OBVIOUS
<1>2. p \in 0 .. Len(w) - 1 /\ w[p + 1] \in Nat
  <2>1. p \in 0 .. Len(w) - 1
    BY LenProperties
  <2> QED BY <2>1, ShareNat
<1>3. PICK v \in Int : v = l1 + w[p + 1]
  BY <1>2
<1>4. PICK lb : lb = IF l1 # DblMin /\ l0 < l1 + w[p + 1] THEN l1 + w[p + 1] ELSE l0
  OBVIOUS
<1>5. \A y \in Sets(w, p + 1) : (y \in f <=> y \in f0) /\ (y \cup {p} \in f <=> y \in f1)
  BY <1>1, <1>2, InMade
<1>6. \A y \in Sets(w, p + 1) :
        /\ Cost(w, b, p, f, y) = Cost(w, b, p + 1, f0, y)
        /\ Cost(w, b, p, f, y \cup {p}) = Cost(w, b, p + 1, f1, y) + w[p + 1]
  <2>1. CostsAgree(w, b, p, MakeBdd(p, f0, f1), f0, f1)
    BY CostsMade
  <2>2. CostsAgree(w, b, p, f, f0, f1)
    BY <1>1, <2>1
  <2> QED BY ONLY <2>2 DEF CostsAgree
<1>7. \A y \in Sets(w, p + 1) : y \in Sets(w, p) /\ y \cup {p} \in Sets(w, p)
  BY <1>2, SetsSplit
<1>8. {} \in Sets(w, p + 1) /\ f0 # Sets(w, p + 1)
  BY DEF Sets
<1>9. f # Sets(w, p)
  BY <1>5, <1>7, <1>8
<1>10. l1 # DblMin <=> f1 # Sets(w, p + 1)
  <2>1. ASSUME f1 # Sets(w, p + 1) PROVE l1 # DblMin
    <3>1. PICK y \in Sets(w, p + 1) \ f1 : l1 = Cost(w, b, p + 1, f1, y)
      BY <2>1 DEF IsLow
    <3>2. /\ Cost(w, b, p + 1, f1, y) \in Int
          /\ b < 0 => Cost(w, b, p + 1, f1, y) >= b
          /\ b >= 0 => Cost(w, b, p + 1, f1, y) >= 0
      BY CostInt
    <3>3. - DblMax < l1
      BY <3>1, <3>2 DEF IsWord
    <3> QED BY <3>3 DEF DblMin
  <2> QED BY <2>1 DEF IsLow
<1>11. /\ lb \in Int /\ l0 <= lb /\ (f1 # Sets(w, p + 1) => v <= lb)
       /\ lb = l0 \/ (lb = v /\ f1 # Sets(w, p + 1))
  BY <1>3, <1>4, <1>10
<1>12. \E x \in Sets(w, p) \ f : lb = Cost(w, b, p, f, x)
  <2>1. CASE lb = l0
    <3>1. PICK y \in Sets(w, p + 1) \ f0 : l0 = Cost(w, b, p + 1, f0, y)
      BY <1>8 DEF IsLow
    <3> QED BY <1>5, <1>6, <1>7, <2>1, <3>1
  <2>2. CASE lb = v /\ f1 # Sets(w, p + 1)
    <3>1. PICK y \in Sets(w, p + 1) \ f1 : l1 = Cost(w, b, p + 1, f1, y)
      BY <2>2 DEF IsLow
    <3>2. y \cup {p} \in Sets(w, p) \ f
      BY <1>5, <1>7, <3>1
    <3>3. lb = Cost(w, b, p, f, y \cup {p})
      BY <1>3, <1>6, <2>2, <3>1
    <3> QED BY <3>2, <3>3
  <2> QED BY <1>11, <2>1, <2>2
<1>13. ASSUME NEW x \in Sets(w, p) \ f PROVE Cost(w, b, p, f, x) <= lb
  <2>1. CASE p \notin x
    <3>1. x \in Sets(w, p + 1)
      BY <1>2, <2>1, SetsSplit
    <3>2. x \in Sets(w, p + 1) \ f0
      BY <1>5, <3>1
    <3>3. Cost(w, b, p + 1, f0, x) <= l0 /\ Cost(w, b, p, f, x) = Cost(w, b, p + 1, f0, x)
      BY <1>6, <1>8, <3>2 DEF IsLow
    <3>4. Cost(w, b, p, f, x) \in Int
      BY CostInt
    <3> QED BY <1>11, <3>3, <3>4
  <2>2. CASE p \in x
    <3>1. PICK y \in Sets(w, p + 1) : x = y \cup {p}
      <4>1. x \ {p} \in Sets(w, p + 1) /\ (x \ {p}) \cup {p} = x
        BY <1>2, <2>2, SetsSplit
      <4> QED BY <4>1
    <3>2. y \in Sets(w, p + 1) \ f1 /\ f1 # Sets(w, p + 1)
      BY <1>5, <3>1
    <3>3. Cost(w, b, p + 1, f1, y) <= l1
      BY <3>2 DEF IsLow
    <3>4. Cost(w, b, p, f, x) = Cost(w, b, p + 1, f1, y) + w[p + 1] /\ Cost(w, b, p + 1, f1, y) \in Int
      BY <1>6, <3>1, CostInt
    <3> QED BY <1>2, <1>3, <1>11, <3>2, <3>3, <3>4
  <2> QED BY <2>1, <2>2
<1> QED BY <1>1, <1>4, <1>9, <1>12, <1>13 DEF IsLow

LEMMA LastSets ==
  ASSUME NEW w \in Seq(Nat), NEW p \in 0 .. Len(w) - 1, p + 1 = Len(w)
  PROVE  Sets(w, p + 1) = {{}} /\ Sets(w, p) = {{}, {p}}
<1>1. Len(w) \in Nat /\ p \in Nat /\ p = Len(w) - 1
  <2>1. Len(w) \in Nat
    BY LenProperties
  <2> QED BY <2>1
<1>2. p + 1 .. Len(w) - 1 = {}
  BY <1>1
<1>3. p .. Len(w) - 1 = {p}
  BY <1>1
<1>4. SUBSET {} = {{}} /\ SUBSET {p} = {{}, {p}}
  OBVIOUS
<1> QED BY <1>2, <1>3, <1>4, Zenon DEF Sets

\* At the last weight one call gives no set and the other the empty one.
LEMMA LastLow ==
  ASSUME NEW w \in Seq(Nat), NEW b \in Int, NEW p \in 0 .. Len(w) - 1, p + 1 = Len(w),
         NEW f0, f0 = {}, NEW l0 \in Int, IsLow(w, b, p + 1, f0, l0),
         NEW f1, f1 = Sets(w, p + 1), NEW l1 \in Int, IsLow(w, b, p + 1, f1, l1)
  PROVE  LET lb == IF l1 # DblMin /\ l0 < l1 + w[p + 1] THEN l1 + w[p + 1] ELSE l0
         IN  IsLow(w, b, p, MakeBdd(p, f0, f1), lb)
<1>1. PICK f : f = MakeBdd(p, f0, f1)
  OBVIOUS
<1>2. Len(w) \in Nat /\ p \in Nat /\ p = Len(w) - 1 /\ p # Len(w)
  <2>1. Len(w) \in Nat
    BY LenProperties
  <2> QED BY <2>1
<1>3. Sets(w, p + 1) = {{}} /\ Sets(w, p) = {{}, {p}}
  BY LastSets
<1>4. l1 = DblMin
  BY DEF IsLow
<1>5. l0 = b
  <2>1. f0 # Sets(w, p + 1)
    BY <1>3
  <2>2. l0 = Cost(w, b, p + 1, f0, {})
    BY <1>3, <2>1 DEF IsLow
  <2>3. IsExtra(w, p + 1, f0, {}) /\ Sum(w, {}) = 0
    BY SumNone DEF IsExtra
  <2> QED BY <2>2, <2>3 DEF Cost
<1>6. f = {{p}}
  <2>1. f = {} \cup {s \cup {p} : s \in {{}}}
    BY <1>1, <1>3 DEF MakeBdd
  <2> QED BY <2>1
<1>7. Cost(w, b, p, f, {}) = b
  <2>1. {} \cup {Len(w) - 1} \in f
    BY <1>2, <1>6
  <2>2. IsExtra(w, p, f, {}) /\ Sum(w, {}) = 0
    BY <2>1, SumNone DEF IsExtra
  <2> QED BY <2>2 DEF Cost
<1>8. /\ f # Sets(w, p) /\ {} \in Sets(w, p) \ f
      /\ \A x \in Sets(w, p) \ f : x = {}
  BY <1>3, <1>6
<1>9. IsLow(w, b, p, f, l0)
  <2>1. l0 = Cost(w, b, p, f, {}) /\ Cost(w, b, p, f, {}) <= l0
    BY <1>5, <1>7
  <2> QED BY <1>8, <2>1, Zenon DEF IsLow
<1>10. (IF l1 # DblMin /\ l0 < l1 + w[p + 1] THEN l1 + w[p + 1] ELSE l0) = l0
  BY <1>4
<1> QED BY <1>1, <1>9, <1>10

\* A slack below 0 gives all sets, whatever the word behind the array is.
ResultAt(w, b, p, f, lb, ub, s) == ExactAt(w, b, p, f, lb, ub, s) /\ (s < 0 => f = Sets(w, p))

\* A caller waits for slacks that its weight and those after it exceed.
WaitsFor(w, p, s) == s \in Nat /\ s < Sum(w, p .. Len(w) - 1)

SumsSmall(w) == DblMax \in Nat /\ \A ps : Sum(w, ps) < DblMax

\* The call without the weight cannot give the empty set.
LEMMA NotEmptySet ==
  ASSUME NEW w \in Seq(Nat), NEW b, NEW p, NEW f, NEW lb, NEW ub, NEW s \in Nat,
         ExactAt(w, b, p, f, lb, ub, s)
  PROVE  {} \notin f
<1>1. SUFFICES ASSUME {} \in f PROVE FALSE
  OBVIOUS
<1>2. ub \in Int /\ s < ub /\ ub <= Sum(w, {})
  BY <1>1 DEF ExactAt, Exact, IsHigh
<1> QED BY <1>2, SumNone

\* The call with the weight gives the set of all the others.
LEMMA AllGiven ==
  ASSUME NEW w \in Seq(Nat), NEW b \in Int, NEW p \in 0 .. Len(w) - 1, NEW s, WaitsFor(w, p, s),
         NEW f, NEW lb, NEW ub, ResultAt(w, b, p + 1, f, lb, ub, s - w[p + 1])
  PROVE  p + 1 .. Len(w) - 1 \in f
<1>1. Len(w) \in Nat /\ w[p + 1] \in Nat
  BY LenProperties, ShareNat
<1>2. s \in Nat /\ s < Sum(w, p .. Len(w) - 1)
  BY DEF WaitsFor
<1>3. PICK all : all = p + 1 .. Len(w) - 1
  OBVIOUS
<1>4. PICK q : q = p + 1
  OBVIOUS
<1>5. all \in Sets(w, q)
  BY <1>3, <1>4 DEF Sets
<1>6. p \notin all /\ all \cup {p} = p .. Len(w) - 1
  BY <1>1, <1>3
<1>7. Sum(w, all \cup {p}) = Sum(w, all) + w[q]
  BY <1>4, <1>6, SumAdd
<1>8. Sum(w, all) \in Nat
  BY SumNat
<1>9. PICK t \in Int : t = s - w[q]
  BY <1>1, <1>2, <1>4
<1>10. t < Sum(w, all)
  <2>1. PICK x \in Nat : x = w[q]
    BY <1>1, <1>4
  <2>2. s < Sum(w, all) + x
    BY <1>2, <1>6, <1>7, <2>1
  <2>3. t = s - x
    BY <1>9, <2>1
  <2> QED BY <1>2, <1>8, <1>9, <2>1, <2>2, <2>3
<1>11. ResultAt(w, b, q, f, lb, ub, t)
  BY <1>4, <1>9
<1>12. IsLow(w, b, q, f, lb) /\ lb \in Int /\ lb <= t /\ (t < 0 => f = Sets(w, q))
  BY <1>11 DEF ResultAt, ExactAt, Exact
<1>13. SUFFICES ASSUME all \notin f PROVE FALSE
  BY <1>3
<1>14. f # Sets(w, q) /\ ~ (t < 0)
  BY <1>5, <1>12, <1>13
<1>15. Cost(w, b, q, f, all) <= lb
  BY <1>5, <1>12, <1>13, <1>14 DEF IsLow
<1>16. q # Len(w)
  <2>1. SUFFICES ASSUME q = Len(w) PROVE FALSE
    OBVIOUS
  <2>2. all = {}
    BY <1>1, <1>3, <1>4, <2>1
  <2>3. Sum(w, all) = 0
    BY <2>2, SumNone
  <2> QED BY <1>10, <1>14, <2>3
<1>17. Len(w) - 1 \in all
  BY <1>1, <1>3, <1>4, <1>16
<1>18. Cost(w, b, q, f, all) = Sum(w, all)
  BY <1>8, <1>16, <1>17 DEF Cost, IsExtra
<1> QED BY <1>8, <1>10, <1>12, <1>15, <1>18

LEMMA MadeExact ==
  ASSUME NEW w \in Seq(Nat), NEW b \in Int, IsWord(b), SumsSmall(w),
         NEW p \in 0 .. Len(w) - 1, NEW s, WaitsFor(w, p, s),
         NEW f0, NEW l0, NEW u0, ExactAt(w, b, p + 1, f0, l0, u0, s),
         NEW f1, NEW l1, NEW u1, ResultAt(w, b, p + 1, f1, l1, u1, s - w[p + 1]),
         NEW lb, lb = IF l1 # DblMin /\ l0 < l1 + w[p + 1] THEN l1 + w[p + 1] ELSE l0,
         NEW ub, ub = IF u1 # DblMax /\ u0 > u1 + w[p + 1] THEN u1 + w[p + 1] ELSE u0
  PROVE  ExactAt(w, b, p, MakeBdd(p, f0, f1), lb, ub, s)
<1>1. Len(w) \in Nat /\ w[p + 1] \in Nat
  BY LenProperties, ShareNat
<1>2. DblMax \in Nat \ {0} /\ \A ps : Sum(w, ps) < DblMax
  <2>1. Sum(w, {}) = 0 /\ Sum(w, {}) < DblMax
    BY SumNone DEF SumsSmall
  <2> QED BY <2>1 DEF SumsSmall
<1>3. s \in Nat
  BY DEF WaitsFor
<1>4. /\ f0 \subseteq Sets(w, p + 1) /\ l0 \in Int /\ u0 \in Int /\ l0 <= s /\ s < u0
      /\ IsLow(w, b, p + 1, f0, l0) /\ IsHigh(w, p + 1, f0, u0)
  BY DEF ExactAt, Exact
<1>5. /\ f1 \subseteq Sets(w, p + 1) /\ l1 \in Int /\ u1 \in Int
      /\ l1 <= s - w[p + 1] /\ s - w[p + 1] < u1
      /\ IsLow(w, b, p + 1, f1, l1) /\ IsHigh(w, p + 1, f1, u1)
  BY DEF ResultAt, ExactAt, Exact
<1>6. {} \notin f0
  BY <1>3, NotEmptySet
<1>7. p + 1 .. Len(w) - 1 \in f1
  BY AllGiven
<1>8. lb \in Int /\ ub \in Int /\ lb <= s /\ s < ub
  <2>1. PICK x \in Nat : x = w[p + 1]
    BY <1>1
  <2>2. l1 \in Int /\ u1 \in Int /\ l1 <= s - x /\ s - x < u1
    BY <1>5, <2>1
  <2>3. l1 + x \in Int /\ u1 + x \in Int /\ l1 + x <= s /\ s < u1 + x
    BY <1>3, <2>2
  <2>4. lb = IF l1 # DblMin /\ l0 < l1 + x THEN l1 + x ELSE l0
    BY <2>1
  <2>5. ub = IF u1 # DblMax /\ u0 > u1 + x THEN u1 + x ELSE u0
    BY <2>1
  <2>6. l0 \in Int /\ u0 \in Int /\ l0 <= s /\ s < u0
    BY <1>4
  <2> QED BY <1>3, <2>3, <2>4, <2>5, <2>6
<1>9. IsHigh(w, p, MakeBdd(p, f0, f1), ub)
  <2>1. f1 # {}
    BY <1>7
  <2> QED BY <1>2, <1>4, <1>5, <2>1, MadeHigh
<1>10. IsLow(w, b, p, MakeBdd(p, f0, f1), lb)
  <2>1. CASE p + 1 # Len(w)
    <3>1. p \in 0 .. Len(w) - 2
      BY <1>1, <2>1
    <3> QED BY <1>2, <1>4, <1>5, <1>6, <3>1, MadeLow
  <2>2. CASE p + 1 = Len(w)
    <3>1. Sets(w, p + 1) = {{}}
      BY <2>2, LastSets
    <3>2. f0 = {}
      BY <1>4, <1>6, <3>1
    <3>3. f1 = Sets(w, p + 1)
      <4>1. p + 1 .. Len(w) - 1 = {}
        BY <1>1, <2>2
      <4> QED BY <1>5, <1>7, <3>1, <4>1
    <3> QED BY <1>4, <1>5, <2>2, <3>2, <3>3, LastLow
  <2> QED BY <2>1, <2>2
<1>11. MakeBdd(p, f0, f1) \subseteq Sets(w, p)
  BY <1>4, <1>5, InMade
<1> QED BY <1>8, <1>9, <1>10, <1>11 DEF ExactAt, Exact

------------------------------------------------------------------------------
(***************************************************************************)
(* Every result and every node stored is exact. The call or the result at  *)
(* hand is for the slack its caller waits for; a caller waits for slacks   *)
(* its list has no interval for.                                           *)
(***************************************************************************)
\* The slack that what the first i activations wait for is called with.
Want(w, threshold, st, i) ==
  IF i = 0 THEN threshold
  ELSE IF st[i].without.kind = "none" THEN st[i].slack ELSE st[i].slack - w[i]

ExactNodes(w, b, p, t) == \A m \in Nodes(t) : Exact(w, b, p, m.mF, m.mLb, m.mUb)
NotThere(t, s) == \A m \in Nodes(t) : ~ (m.mLb <= s /\ s < m.mUb)

FrameRight(w, b, i, fr, t) ==
  /\ fr.pos = i - 1 /\ 0 <= fr.slack /\ fr.slack < Sum(w, i - 1 .. Len(w) - 1)
  /\ NotThere(t, fr.slack)
  /\ fr.without.kind # "none" =>
       ExactAt(w, b, i, fr.without.f, fr.without.lb, fr.without.ub, fr.slack)

\* The slack is between two sums that are too close.
TooNear(w, b, i, s) ==
  \E x, y \in Sets(w, i) :
    /\ s < Sum(w, y) /\ (Sum(w, x) <= s \/ b <= s - Sum(w, x))
    /\ Sum(w, y) - Sum(w, x) < MinGap + (IF b > 0 THEN b ELSE 0)

RetRight(w, b, i, r, s) ==
  /\ r.kind = "call" => r.pos = i /\ r.slack = s /\ - DblMax <= s /\ s < DblMax
  /\ r.kind = "bdd" => ResultAt(w, b, i, r.f, r.lb, r.ub, s)
  /\ r.kind = "crashed" => i \in 0 .. Len(w) /\ 0 <= s /\ (Len(w) = 0 \/ s < b)
  /\ r.kind = "overlap" => b < 0
  /\ r.kind = "aborted" => TooNear(w, b, i, s)

SmallInv == mWeightArray \in Seq(Nat) /\ SumsSmall(mWeightArray)
ExactInv == \A p \in 0 .. Len(mWeightArray) - 1 : ExactNodes(mWeightArray, beyond, p, mItvlList[p])
FramesInv ==
  \A i \in 1 .. Len(stack) :
    /\ FrameRight(mWeightArray, beyond, i, stack[i], mItvlList[i - 1])
    /\ stack[i].slack = Want(mWeightArray, mThreshold, stack, i - 1)
RetInv ==
  RetRight(mWeightArray, beyond, Len(stack), ret, Want(mWeightArray, mThreshold, stack, Len(stack)))

GInv == NonNegative => SmallInv /\ ExactInv /\ FramesInv /\ RetInv

LEMMA GInit == Init => GInv
<1> SUFFICES ASSUME Init, NonNegative PROVE SmallInv /\ ExactInv /\ FramesInv /\ RetInv
  BY DEF GInv
<1>1. InputInv /\ weight_array \in WeightArrays
  BY TInit DEF TInv, Init
<1>2. \E m \in 0 .. DblMax : /\ Len(weight_array) * m < DblMax
                             /\ \A i \in 1 .. Len(weight_array) : weight_array[i] <= m
  BY <1>1, WeightsAssumption
<1>3. PICK m \in 0 .. DblMax : /\ Len(weight_array) * m < DblMax
                               /\ \A i \in 1 .. Len(weight_array) : weight_array[i] <= m
  BY <1>2
<1>4. /\ mWeightArray \in Seq(Nat) /\ Len(mWeightArray) = Len(weight_array) /\ Len(mWeightArray) \in Nat
      /\ mIdx \in [1 .. Len(mWeightArray) -> 0 .. Len(mWeightArray) - 1]
      /\ \A k \in 1 .. Len(mWeightArray) : mWeightArray[k] = weight_array[mIdx[k] + 1]
  BY <1>1, NaturalWeights, LenProperties DEF InputInv, OrderInv, IsOrder
<1>5. \A k \in 1 .. Len(mWeightArray) : mWeightArray[k] <= m
  <2>1. ASSUME NEW k \in 1 .. Len(mWeightArray) PROVE mIdx[k] + 1 \in 1 .. Len(weight_array)
    <3>1. mIdx[k] \in 0 .. Len(mWeightArray) - 1
      BY <1>4
    <3> QED BY <1>4, <3>1
  <2> QED BY <1>3, <1>4, <2>1
<1>6. DblMax \in Nat /\ m \in Nat
  BY WeightsAssumption
<1>7. SmallInv
  <2>1. ASSUME NEW ps PROVE Sum(mWeightArray, ps) < DblMax
    <3>1. Sum(mWeightArray, ps) <= Len(mWeightArray) * m
      BY <1>4, <1>5, <1>6, SumBound
    <3>2. Sum(mWeightArray, ps) \in Nat /\ Len(mWeightArray) \in Nat
      BY <1>4, SumNat
    <3>3. Len(mWeightArray) * m < DblMax
      BY <1>3, <1>4
    <3>4. Len(mWeightArray) * m \in Nat
      BY <1>6, <3>2
    <3> QED BY <1>6, <3>1, <3>2, <3>3, <3>4
  <2> QED BY <1>4, <1>6, <2>1 DEF SmallInv, SumsSmall
<1>8. ExactInv
  <2>1. mItvlList = [p \in 0 .. Len(mWeightArray) - 1 |-> Nil]
    BY DEF Init, Below, mNv
  <2> QED BY <2>1, NilTree DEF ExactInv, ExactNodes
<1>9. stack = <<>> /\ Len(stack) = 0
  BY DEF Init
<1>10. FramesInv
  BY <1>9 DEF FramesInv
<1>11. RetInv
  <2>1. ret = Call(0, mThreshold) /\ mThreshold \in (1 - DblMax) .. (DblMax - 1)
    BY WeightsAssumption DEF Init
  <2>2. - DblMax <= mThreshold /\ mThreshold < DblMax
    BY <1>6, <2>1
  <2>3. Want(mWeightArray, mThreshold, stack, Len(stack)) = mThreshold
    BY <1>9 DEF Want
  <2>4. RetRight(mWeightArray, beyond, 0, ret, mThreshold)
    BY <2>1, <2>2 DEF RetRight, Call
  <2> QED BY <1>9, <2>3, <2>4 DEF RetInv
<1> QED BY <1>7, <1>8, <1>10, <1>11

\* A step that changes the call or the result only.
LEMMA NewRet ==
  ASSUME SmallInv, ExactInv, FramesInv, input' = input, UNCHANGED <<mItvlList, stack>>,
         RetRight(mWeightArray, beyond, Len(stack), ret',
                  Want(mWeightArray, mThreshold, stack, Len(stack)))
  PROVE  (SmallInv /\ ExactInv /\ FramesInv /\ RetInv)'
<1>1. /\ mWeightArray' = mWeightArray /\ beyond' = beyond /\ mThreshold' = mThreshold
      /\ mItvlList' = mItvlList /\ stack' = stack
  BY DEF input
<1> QED BY <1>1 DEF SmallInv, SumsSmall, ExactInv, FramesInv, RetInv

\* The position of the last call, and the slack of the call at hand.
LEMMA CallSlack ==
  ASSUME TInv, RetInv, Calls
  PROVE  LET s == Want(mWeightArray, mThreshold, stack, Len(stack))
         IN  /\ ret.pos = Len(stack) /\ ret.slack = s /\ s \in Int /\ - DblMax <= s /\ s < DblMax
             /\ Len(stack) \in 0 .. Len(mWeightArray)
BY DEF TInv, RetInv, RetRight, Calls, IsReturn

LEMMA StepOne ==
  ASSUME TInv, SmallInv, ExactInv, FramesInv, RetInv, One
  PROVE  (SmallInv /\ ExactInv /\ FramesInv /\ RetInv)'
<1> DEFINE d == Len(stack)
           s == Want(mWeightArray, mThreshold, stack, d)
<1>1. /\ Calls /\ ret.slack < 0 /\ ret' = Bdd(SUBSET Below(ret.pos), DblMin, 0)
      /\ input' = input /\ UNCHANGED <<mItvlList, stack>>
  BY DEF One, input
<1>2. /\ ret.pos = d /\ ret.slack = s /\ s \in Int /\ - DblMax <= s /\ s < DblMax
      /\ d \in 0 .. Len(mWeightArray)
  BY <1>1, CallSlack
<1> HIDE DEF s
<1>3. mWeightArray \in Seq(Nat) /\ beyond \in Int /\ DblMax \in Nat
  BY DEF TInv, InputInv, SmallInv, SumsSmall
<1>4. ExactAt(mWeightArray, beyond, d, Sets(mWeightArray, d), DblMin, 0, s)
  <2>1. s < 0
    BY <1>1, <1>2
  <2> QED BY <1>2, <1>3, <2>1, OneExact
<1>5. PICK f : f = Sets(mWeightArray, d)
  OBVIOUS
<1>6. /\ ret'.kind = "bdd" /\ ret'.f = f /\ ret'.lb = DblMin /\ ret'.ub = 0
  <2>1. f = SUBSET Below(ret.pos)
    BY <1>2, <1>5 DEF Below, Sets, mNv
  <2>2. ret' = Bdd(f, DblMin, 0)
    BY <1>1, <2>1, Zenon
  <2> QED BY <2>2, Kinds
<1>7. RetRight(mWeightArray, beyond, d, ret', s)
  BY <1>4, <1>5, <1>6 DEF RetRight, ResultAt
<1> QED BY <1>1, <1>7, NewRet DEF s

LEMMA StepZero ==
  ASSUME TInv, SmallInv, ExactInv, FramesInv, RetInv, Zero
  PROVE  (SmallInv /\ ExactInv /\ FramesInv /\ RetInv)'
<1> DEFINE d == Len(stack)
           s == Want(mWeightArray, mThreshold, stack, d)
<1>1. /\ Calls /\ ret.slack >= 0 /\ ret.slack >= Acc(ret.pos) /\ ret' = Bdd({}, Acc(ret.pos), DblMax)
      /\ input' = input /\ UNCHANGED <<mItvlList, stack>>
  BY DEF Zero, input
<1>2. /\ ret.pos = d /\ ret.slack = s /\ s \in Int /\ - DblMax <= s /\ s < DblMax
      /\ d \in 0 .. Len(mWeightArray)
  BY <1>1, CallSlack
<1> HIDE DEF s
<1>3. mWeightArray \in Seq(Nat) /\ beyond \in Int /\ DblMax \in Nat
  BY DEF TInv, InputInv, SmallInv, SumsSmall
<1>4. PICK acc : acc = Acc(d)
  OBVIOUS
<1>5. acc = IF d < Len(mWeightArray) THEN Sum(mWeightArray, d .. Len(mWeightArray) - 1) ELSE beyond
  BY <1>4, TotalIsSum DEF Acc, Below, mNv
<1>6. ExactAt(mWeightArray, beyond, d, {}, acc, DblMax, s)
  <2>1. acc <= s
    <3>1. s >= acc /\ acc \in Int
      BY <1>1, <1>2, <1>4, WeightInt DEF TInv
    <3> QED BY <1>2, <3>1
  <2> QED BY <1>2, <1>3, <1>5, <2>1, ZeroExact
<1>7. ret'.kind = "bdd" /\ ret'.f = {} /\ ret'.lb = acc /\ ret'.ub = DblMax
  BY <1>1, <1>2, <1>4, Kinds
<1>8. RetRight(mWeightArray, beyond, d, ret', s)
  <2>1. ~ (s < 0)
    BY <1>1, <1>2
  <2> QED BY <1>6, <1>7, <2>1 DEF RetRight, ResultAt
<1> QED BY <1>1, <1>8, NewRet DEF s

LEMMA StepCrash ==
  ASSUME TInv, SmallInv, ExactInv, FramesInv, RetInv, Crash
  PROVE  (SmallInv /\ ExactInv /\ FramesInv /\ RetInv)'
<1>1. /\ Calls /\ ret.slack >= 0 /\ (mNv = 0 \/ ret.slack < Acc(ret.pos)) /\ ret.pos = mNv
      /\ ret' = Failed("crashed") /\ input' = input /\ UNCHANGED <<mItvlList, stack>>
  BY DEF Crash, input
<1>2. /\ ret.pos = Len(stack) /\ ret.slack = Want(mWeightArray, mThreshold, stack, Len(stack))
      /\ Len(stack) \in 0 .. Len(mWeightArray)
  BY <1>1, CallSlack
<1>3. Acc(ret.pos) = beyond
  <2>1. mNv \in Int
    BY WeightInt DEF TInv
  <2> QED BY <1>1, <2>1 DEF Acc
<1>4. ret.slack \in Int /\ beyond \in Int
  BY <1>1 DEF TInv, InputInv, IsReturn, Calls
<1>5. PICK s \in Int : s = ret.slack
  BY <1>4
<1>6. 0 <= s /\ (Len(mWeightArray) = 0 \/ s < beyond) /\ ret'.kind = "crashed"
  BY <1>1, <1>3, <1>4, <1>5, Kinds DEF mNv
<1>7. RetRight(mWeightArray, beyond, Len(stack), ret', s)
  BY <1>2, <1>6 DEF RetRight, ResultAt
<1> QED BY <1>1, <1>2, <1>5, <1>7, NewRet

LEMMA StepFound ==
  ASSUME TInv, SmallInv, ExactInv, FramesInv, RetInv, Found
  PROVE  (SmallInv /\ ExactInv /\ FramesInv /\ RetInv)'
<1> DEFINE d == Len(stack)
           s == Want(mWeightArray, mThreshold, stack, d)
<1>1. /\ Calls /\ ret.slack >= 0 /\ ret.pos < mNv /\ input' = input /\ UNCHANGED <<mItvlList, stack>>
  BY DEF Found, Between, input
<1>2. /\ ret.pos = d /\ ret.slack = s /\ s \in Int /\ d \in 0 .. Len(mWeightArray)
  BY <1>1, CallSlack
<1> HIDE DEF s
<1>3. d \in 0 .. Len(mWeightArray) - 1
  BY <1>1, <1>2, WeightInt DEF TInv
<1>4. PICK m \in find_node(s, mItvlList[d]) : ret' = Bdd(m.mF, m.mLb, m.mUb)
  BY <1>2 DEF Found, InList
<1>5. IsTree(mItvlList[d]) /\ IsAvl(mItvlList[d])
  BY <1>3 DEF TInv, ListInv, IsList
<1>6. m \in Nodes(mItvlList[d]) /\ m.mLb <= s /\ s < m.mUb
  <2>1. find_node(s, mItvlList[d]) = {k \in Nodes(mItvlList[d]) : k.mLb <= s /\ s < k.mUb}
    BY <1>2, <1>5, FindExact
  <2> QED BY <1>4, <2>1
<1>7. ExactAt(mWeightArray, beyond, d, m.mF, m.mLb, m.mUb, s)
  BY <1>3, <1>6 DEF ExactInv, ExactNodes, ExactAt
<1>8. ret'.kind = "bdd" /\ ret'.f = m.mF /\ ret'.lb = m.mLb /\ ret'.ub = m.mUb
  BY <1>4, Kinds
<1>9. RetRight(mWeightArray, beyond, d, ret', s)
  <2>1. ~ (s < 0)
    BY <1>1, <1>2
  <2> QED BY <1>7, <1>8, <2>1 DEF RetRight, ResultAt
<1> QED BY <1>1, <1>9, NewRet DEF s

LEMMA SameWant ==
  ASSUME NEW w, NEW threshold, NEW st, NEW su, NEW i, i # 0 => st[i] = su[i]
  PROVE  Want(w, threshold, st, i) = Want(w, threshold, su, i)
BY DEF Want

LEMMA StepDescend ==
  ASSUME TInv, SmallInv, ExactInv, FramesInv, RetInv, Descend
  PROVE  (SmallInv /\ ExactInv /\ FramesInv /\ RetInv)'
<1> DEFINE d == Len(stack)
           w == mWeightArray
           s == Want(w, mThreshold, stack, d)
<1>1. /\ Calls /\ ret.slack >= 0 /\ ret.slack < Acc(ret.pos) /\ ret.pos < mNv /\ InList = {}
      /\ stack' = Append(stack, [pos |-> ret.pos, slack |-> ret.slack, without |-> Failed("none")])
      /\ ret' = Call(ret.pos + 1, ret.slack)
      /\ mWeightArray' = w /\ beyond' = beyond /\ mThreshold' = mThreshold /\ mItvlList' = mItvlList
  BY DEF Descend, Between, input
<1>2. /\ ret.pos = d /\ ret.slack = s /\ s \in Int /\ - DblMax <= s /\ s < DblMax
      /\ d \in 0 .. Len(w)
  BY <1>1, CallSlack
<1> HIDE DEF s
<1>3. d \in Nat /\ d \in 0 .. Len(w) - 1 /\ Len(w) \in Nat
  BY <1>1, <1>2, WeightInt DEF TInv
<1>4. s >= 0 /\ s < Sum(w, d .. Len(w) - 1)
  <2>1. Acc(d) = Sum(w, d .. Len(w) - 1)
    BY <1>1, <1>2, TotalIsSum DEF Acc, Below, mNv
  <2> QED BY <1>1, <1>2, <2>1
<1>5. NotThere(mItvlList[d], s)
  <2>1. IsTree(mItvlList[d]) /\ IsAvl(mItvlList[d])
    BY <1>3 DEF TInv, ListInv, IsList
  <2>2. find_node(s, mItvlList[d]) = {}
    BY <1>1, <1>2 DEF InList
  <2>3. {m \in Nodes(mItvlList[d]) : m.mLb <= s /\ s < m.mUb} = {}
    BY <1>2, <2>1, <2>2, FindExact
  <2> QED BY <2>3 DEF NotThere
<1>6. PICK fr : fr = [pos |-> d, slack |-> s, without |-> Failed("none")]
  OBVIOUS
<1>7. fr \in FrameSet /\ fr.pos = d /\ fr.slack = s /\ fr.without.kind = "none"
  <2>1. fr.pos = d /\ fr.slack = s /\ fr.without = Failed("none") /\ fr \in FrameSet
    BY <1>2, <1>3, <1>6, Frame
  <2> QED BY <2>1, Kinds
<1>8. /\ Len(stack') = d + 1 /\ stack'[d + 1] = fr
      /\ \A i \in 1 .. d : stack'[i] = stack[i]
  <2>1. stack \in Seq(FrameSet) /\ stack' = Append(stack, fr)
    BY <1>1, <1>2, <1>6 DEF TInv, StackInv
  <2> QED BY <1>7, <2>1, AppendProperties
<1>9. FrameRight(w, beyond, d + 1, fr, mItvlList[d])
  <2>1. (d + 1) - 1 = d
    BY <1>3
  <2> QED BY <1>4, <1>5, <1>7, <2>1 DEF FrameRight
<1>10. \A i \in 0 .. d : Want(w, mThreshold, stack', i) = Want(w, mThreshold, stack, i)
  <2>1. \A i \in 0 .. d : i # 0 => stack'[i] = stack[i]
    BY <1>3, <1>8
  <2> QED BY <2>1, SameWant
<1>11. FramesInv'
  <2>1. ASSUME NEW i \in 1 .. d + 1
        PROVE  /\ FrameRight(w, beyond, i, stack'[i], mItvlList[i - 1])
               /\ stack'[i].slack = Want(w, mThreshold, stack', i - 1)
    <3>1. CASE i = d + 1
      <4>1. i - 1 = d /\ d \in 0 .. d
        BY <1>3, <3>1
      <4>2. stack'[i] = fr /\ Want(w, mThreshold, stack', d) = s
        BY <1>8, <1>10, <3>1, <4>1 DEF s
      <4> QED BY <1>7, <1>9, <3>1, <4>1, <4>2
    <3>2. CASE i # d + 1
      <4>1. i \in 1 .. d /\ i - 1 \in 0 .. d
        BY <1>3, <3>2
      <4>2. /\ FrameRight(w, beyond, i, stack[i], mItvlList[i - 1])
            /\ stack[i].slack = Want(w, mThreshold, stack, i - 1)
        BY <4>1 DEF FramesInv
      <4> QED BY <1>8, <1>10, <4>1, <4>2
    <3> QED BY <3>1, <3>2
  <2> QED BY <1>1, <1>8, <2>1 DEF FramesInv
<1>12. RetInv'
  <2>1. Want(w, mThreshold, stack', d + 1) = s
    <3>1. d + 1 # 0
      BY <1>3
    <3> QED BY <1>7, <1>8, <3>1 DEF Want
  <2>2. ret'.kind = "call" /\ ret'.pos = d + 1 /\ ret'.slack = s
    BY <1>1, <1>2, Kinds
  <2>3. RetRight(w, beyond, d + 1, ret', s)
    BY <1>2, <2>2 DEF RetRight
  <2> QED BY <1>1, <1>8, <2>1, <2>3 DEF RetInv
<1>13. SmallInv' /\ ExactInv'
  BY <1>1 DEF SmallInv, ExactInv
<1> QED BY <1>11, <1>12, <1>13

LEMMA StepWithWeight ==
  ASSUME TInv, SmallInv, ExactInv, FramesInv, RetInv, WithWeight
  PROVE  (SmallInv /\ ExactInv /\ FramesInv /\ RetInv)'
<1> DEFINE d == Len(stack)
           w == mWeightArray
<1>1. /\ stack # <<>> /\ ret.kind = "bdd" /\ Caller.without.kind = "none"
      /\ stack' = [stack EXCEPT ![Len(stack)].without = ret]
      /\ ret' = Call(Caller.pos + 1, Caller.slack - Weight(Caller.pos))
      /\ mWeightArray' = w /\ beyond' = beyond /\ mThreshold' = mThreshold /\ mItvlList' = mItvlList
  BY DEF WithWeight, ForFirst, Back, input
<1>2. /\ d \in Nat \ {0} /\ d \in 1 .. d /\ Caller \in FrameSet /\ Caller = stack[d]
      /\ Caller.pos \in 0 .. Len(w) - 1 /\ Caller.slack \in Int
  BY <1>1, FrameParts DEF TInv, Caller
<1>3. PICK s \in Int : s = Caller.slack
  BY <1>2
<1>4. /\ FrameRight(w, beyond, d, Caller, mItvlList[d - 1])
      /\ s = Want(w, mThreshold, stack, d - 1)
  BY <1>2, <1>3 DEF FramesInv
<1>5. Caller.pos = d - 1 /\ 0 <= s /\ s < Sum(w, d - 1 .. Len(w) - 1) /\ NotThere(mItvlList[d - 1], s)
  BY <1>3, <1>4 DEF FrameRight
<1>6. d - 1 \in 0 .. Len(w) - 1 /\ (d - 1) + 1 = d /\ w \in Seq(Nat)
  BY <1>2, <1>5 DEF SmallInv, SumsSmall
<1>7. w[d] \in Nat /\ w[d] < DblMax /\ s < DblMax /\ DblMax \in Nat
  <2>1. w[d] \in Nat
    BY <1>6, ShareNat
  <2>2. Sum(w, {} \cup {d - 1}) = Sum(w, {}) + w[d] /\ Sum(w, {}) = 0
    BY <1>6, SumAdd, SumNone
  <2>3. Sum(w, {} \cup {d - 1}) < DblMax /\ Sum(w, d - 1 .. Len(w) - 1) < DblMax /\ DblMax \in Nat
    BY DEF SmallInv, SumsSmall
  <2>4. Sum(w, d - 1 .. Len(w) - 1) \in Nat
    BY <1>6, SumNat
  <2>5. w[d] < DblMax
    BY <2>1, <2>2, <2>3
  <2> QED BY <1>5, <2>1, <2>3, <2>4, <2>5
<1>8. ExactAt(w, beyond, d, ret.f, ret.lb, ret.ub, s)
  <2>1. Want(w, mThreshold, stack, d) = s
    BY <1>1, <1>2, <1>3 DEF Want
  <2> QED BY <1>1, <2>1 DEF RetInv, RetRight, ResultAt
<1>9. PICK fr : fr = [Caller EXCEPT !.without = ret]
  OBVIOUS
<1>10. fr \in FrameSet /\ fr.pos = d - 1 /\ fr.slack = s /\ fr.without = ret
  <2>1. ret \in BddSet
    BY <1>1 DEF TInv, IsReturn
  <2> QED BY <1>2, <1>3, <1>5, <1>9, <2>1 DEF FrameSet
<1>11. /\ Len(stack') = d
       /\ \A i \in 1 .. d : stack'[i] = IF i = d THEN fr ELSE stack[i]
  <2>1. stack' = [stack EXCEPT ![d] = fr] /\ stack \in Seq(FrameSet)
    BY <1>1, <1>9 DEF Caller, TInv, StackInv
  <2> QED BY <1>2, <1>10, <2>1, ExceptSeq
<1>12. FrameRight(w, beyond, d, fr, mItvlList[d - 1])
  BY <1>5, <1>8, <1>10 DEF FrameRight
<1>13. \A i \in 0 .. d - 1 : Want(w, mThreshold, stack', i) = Want(w, mThreshold, stack, i)
  <2>1. \A i \in 0 .. d - 1 : i # 0 => stack'[i] = stack[i]
    BY <1>2, <1>11
  <2> QED BY <2>1, SameWant
<1>14. FramesInv'
  <2>1. ASSUME NEW i \in 1 .. d
        PROVE  /\ FrameRight(w, beyond, i, stack'[i], mItvlList[i - 1])
               /\ stack'[i].slack = Want(w, mThreshold, stack', i - 1)
    <3>1. i - 1 \in 0 .. d - 1
      BY <1>2
    <3>2. CASE i = d
      <4>1. stack'[i] = fr /\ Want(w, mThreshold, stack', i - 1) = s
        BY <1>4, <1>11, <1>13, <3>1, <3>2
      <4> QED BY <1>10, <1>12, <3>2, <4>1
    <3>3. CASE i # d
      <4>1. /\ FrameRight(w, beyond, i, stack[i], mItvlList[i - 1])
            /\ stack[i].slack = Want(w, mThreshold, stack, i - 1)
        BY DEF FramesInv
      <4> QED BY <1>11, <1>13, <3>1, <3>3, <4>1
    <3> QED BY <3>2, <3>3
  <2> QED BY <1>1, <1>11, <2>1 DEF FramesInv
<1>15. RetInv'
  <2>1. Want(w, mThreshold, stack', d) = s - w[d]
    <3>1. stack'[d] = fr /\ fr.without.kind # "none" /\ d # 0
      BY <1>1, <1>2, <1>10, <1>11
    <3> QED BY <1>10, <3>1 DEF Want
  <2>2. ret'.kind = "call" /\ ret'.pos = d /\ ret'.slack = s - w[d]
    <3>1. Caller.pos + 1 = d /\ Caller.slack - Weight(Caller.pos) = s - w[d]
      BY <1>3, <1>5, <1>6, WeightInt DEF TInv
    <3>2. ret' = Call(d, s - w[d])
      BY <1>1, <3>1, Zenon
    <3> QED BY <3>2, Kinds
  <2>3. - DblMax <= s - w[d] /\ s - w[d] < DblMax
    BY <1>5, <1>7
  <2>4. RetRight(w, beyond, d, ret', s - w[d])
    BY <2>2, <2>3 DEF RetRight
  <2> QED BY <1>1, <1>11, <2>1, <2>4 DEF RetInv
<1>16. SmallInv' /\ ExactInv'
  BY <1>1 DEF SmallInv, ExactInv
<1> QED BY <1>14, <1>15, <1>16

\* An interval around a slack that no node holds has a place in the list.
LEMMA PlaceFound ==
  ASSUME NEW w \in Seq(Nat), NEW b \in Nat, NEW p, NEW t, IsTree(t), IsAvl(t), ExactNodes(w, b, p, t),
         NEW s \in Int, NotThere(t, s), NEW f, NEW lb, NEW ub, ExactAt(w, b, p, f, lb, ub, s)
  PROVE  Places(Node(lb, ub, f), t) # {}
<1>1. lb \in Int /\ ub \in Int /\ lb <= s /\ s < ub /\ Exact(w, b, p, f, lb, ub)
  BY DEF ExactAt, Exact
<1>2. PICK new : new = Node(lb, ub, f)
  OBVIOUS
<1>3. new.mLb = lb /\ new.mUb = ub
  BY <1>2 DEF Node
<1>4. ASSUME NEW m \in Nodes(t) PROVE new.mUb <= m.mLb \/ m.mUb <= new.mLb
  <2>1. m.mLb \in Int /\ m.mUb \in Int /\ m.mLb < m.mUb
    <3>1. m.mLb < m.mUb
      BY DEF IsAvl, Nodes
    <3> QED BY <3>1, NodeIntervals DEF IsInterval
  <2>2. SUFFICES ASSUME m.mLb < ub, lb < m.mUb PROVE FALSE
    BY <1>1, <1>3, <2>1
  <2>3. PICK x \in Int : lb <= x /\ x < ub /\ m.mLb <= x /\ x < m.mUb
    <3>1. CASE lb <= m.mLb
      BY <1>1, <2>1, <2>2, <3>1
    <3>2. CASE ~ (lb <= m.mLb)
      <4>1. lb <= lb /\ lb < ub /\ m.mLb <= lb /\ lb < m.mUb
        BY <1>1, <2>1, <2>2, <3>2
      <4> QED BY <1>1, <4>1
    <3> QED BY <3>1, <3>2
  <2>4. ExactAt(w, b, p, m.mF, m.mLb, m.mUb, x) /\ ExactAt(w, b, p, f, lb, ub, x)
    BY <1>1, <2>3 DEF ExactNodes, ExactAt
  <2>5. m.mLb = lb /\ m.mUb = ub
    BY <2>4, OneInterval
  <2> QED BY <1>1, <2>5 DEF NotThere
<1>5. Places(new, t) # {}
  BY <1>4, PlacesThere
<1> QED BY <1>2, <1>5

\* A narrow interval: its bounds are the weights of two sets, or nearly.
LEMMA NarrowTooNear ==
  ASSUME NEW w \in Seq(Nat), NEW b \in Int, NEW p \in 0 .. Len(w) - 1,
         NEW s \in Nat, s < Sum(w, p .. Len(w) - 1),
         NEW f, NEW lb, NEW ub, ExactAt(w, b, p, f, lb, ub, s), ub - lb < MinGap
  PROVE  TooNear(w, b, p, s)
<1>1. /\ f \subseteq Sets(w, p) /\ lb \in Int /\ ub \in Int /\ lb <= s /\ s < ub
      /\ IsLow(w, b, p, f, lb) /\ IsHigh(w, p, f, ub)
  BY DEF ExactAt, Exact
<1>2. Len(w) \in Nat /\ MinGap \in Nat /\ p # Len(w)
  BY LenProperties, WeightsAssumption
<1>3. f # Sets(w, p)
  <2>1. SUFFICES ASSUME f = Sets(w, p) PROVE FALSE
    OBVIOUS
  <2>2. {} \in f
    BY <2>1 DEF Sets
  <2>3. ub <= Sum(w, {})
    BY <1>1, <2>2 DEF IsHigh
  <2> QED BY <1>1, <2>3, SumNone
<1>4. f # {}
  <2>1. SUFFICES ASSUME f = {} PROVE FALSE
    OBVIOUS
  <2>2. PICK all : all = p .. Len(w) - 1
    OBVIOUS
  <2>3. all \in Sets(w, p) \ f
    BY <2>1, <2>2 DEF Sets
  <2>4. Cost(w, b, p, f, all) <= lb
    BY <1>1, <1>3, <2>3 DEF IsLow
  <2>5. ~ IsExtra(w, p, f, all)
    BY <1>2, <2>1 DEF IsExtra
  <2>6. Cost(w, b, p, f, all) = Sum(w, all) /\ Sum(w, all) \in Nat
    <3>1. Sum(w, all) \in Nat
      BY SumNat
    <3> QED BY <2>5, <3>1 DEF Cost
  <2> QED BY <1>1, <2>2, <2>4, <2>6
<1>5. PICK x \in Sets(w, p) \ f : lb = Cost(w, b, p, f, x)
  BY <1>1, <1>3 DEF IsLow
<1>6. PICK y \in f : ub = Sum(w, y)
  BY <1>1, <1>4 DEF IsHigh
<1>7. Sum(w, x) \in Nat /\ lb <= Sum(w, x) + (IF b > 0 THEN b ELSE 0)
  BY <1>5, CostInt
<1>8. Sum(w, x) <= s \/ b <= s - Sum(w, x)
  <2>1. lb = Sum(w, x) \/ lb = Sum(w, x) + b
    BY <1>5, <1>7 DEF Cost
  <2> QED BY <1>1, <1>7, <2>1
<1>9. Sum(w, y) - Sum(w, x) < MinGap + (IF b > 0 THEN b ELSE 0)
  BY <1>1, <1>2, <1>6, <1>7
<1>10. s < Sum(w, y) /\ x \in Sets(w, p) /\ y \in Sets(w, p)
  BY <1>1, <1>6
<1> QED BY <1>8, <1>9, <1>10 DEF TooNear

LEMMA StepStore ==
  ASSUME TInv, SmallInv, ExactInv, FramesInv, RetInv, Store
  PROVE  (SmallInv /\ ExactInv /\ FramesInv /\ RetInv)'
<1> DEFINE d == Len(stack)
           w == mWeightArray
           r0 == Caller.without
           b == Bounds(Caller.without, ret, Weight(Caller.pos))
           f == MakeBdd(Caller.pos, Caller.without.f, ret.f)
           new == Node(b.lb, b.ub, f)
<1>1. /\ stack # <<>> /\ ret.kind = "bdd" /\ Caller.without.kind # "none"
      /\ stack' = SubSeq(stack, 1, Len(stack) - 1)
      /\ mWeightArray' = w /\ beyond' = beyond /\ mThreshold' = mThreshold
  BY DEF Store, Back, ForFirst, input
<1>2. /\ d \in Nat \ {0} /\ d \in 1 .. d /\ Caller = stack[d]
      /\ Caller.pos \in 0 .. Len(w) - 1 /\ Caller.slack \in Int /\ r0 \in BddSet /\ ret \in BddSet
  BY <1>1, FrameParts DEF TInv, Caller, IsReturn
<1>3. PICK s \in Int : s = Caller.slack
  BY <1>2
<1>4. /\ FrameRight(w, beyond, d, Caller, mItvlList[d - 1])
      /\ s = Want(w, mThreshold, stack, d - 1)
  BY <1>2, <1>3 DEF FramesInv
<1>5. /\ Caller.pos = d - 1 /\ 0 <= s /\ s < Sum(w, d - 1 .. Len(w) - 1)
      /\ NotThere(mItvlList[d - 1], s)
      /\ ExactAt(w, beyond, d, r0.f, r0.lb, r0.ub, s)
  BY <1>1, <1>3, <1>4 DEF FrameRight
<1>6. /\ d - 1 \in 0 .. Len(w) - 1 /\ (d - 1) + 1 = d /\ w \in Seq(Nat)
      /\ beyond \in Int /\ s \in Nat
  BY <1>2, <1>5 DEF TInv, InputInv, SmallInv
<1>7. ResultAt(w, beyond, d, ret.f, ret.lb, ret.ub, s - w[d])
  <2>1. Want(w, mThreshold, stack, d) = s - w[d]
    <3>1. d # 0
      BY <1>2
    <3> QED BY <1>1, <1>2, <1>3, <3>1 DEF Want
  <2> QED BY <1>1, <2>1 DEF RetInv, RetRight
<1>8. /\ b.lb \in Int /\ b.ub \in Int
      /\ b.lb = IF ret.lb # DblMin /\ r0.lb < ret.lb + w[d] THEN ret.lb + w[d] ELSE r0.lb
      /\ b.ub = IF ret.ub # DblMax /\ r0.ub > ret.ub + w[d] THEN ret.ub + w[d] ELSE r0.ub
  <2>1. Weight(Caller.pos) = w[d] /\ w[d] \in Int
    BY <1>5, <1>6, WeightInt DEF TInv
  <2>2. PICK x \in Int : x = Weight(Caller.pos) /\ x = w[d]
    BY <2>1
  <2>3. b = Bounds(r0, ret, x)
    BY <2>2
  <2> QED BY <1>2, <2>2, <2>3, BoundsInt
<1>9. ExactAt(w, beyond, d - 1, f, b.lb, b.ub, s)
  <2>1. PICK p : p = d - 1
    OBVIOUS
  <2>2. p \in 0 .. Len(w) - 1 /\ p + 1 = d /\ Caller.pos = p
    BY <1>5, <1>6, <2>1
  <2>3. IsWord(beyond) /\ SumsSmall(w) /\ WaitsFor(w, p, s)
    BY <1>5, <1>6, <2>1 DEF SmallInv, TInv, InputInv, IsWord, WaitsFor
  <2>4. /\ ExactAt(w, beyond, p + 1, r0.f, r0.lb, r0.ub, s)
        /\ ResultAt(w, beyond, p + 1, ret.f, ret.lb, ret.ub, s - w[p + 1])
    BY <1>5, <1>7, <2>2
  <2>5. PICK lb, ub : lb = b.lb /\ ub = b.ub
    OBVIOUS
  <2> HIDE DEF b
  <2>6. /\ lb = IF ret.lb # DblMin /\ r0.lb < ret.lb + w[p + 1] THEN ret.lb + w[p + 1] ELSE r0.lb
        /\ ub = IF ret.ub # DblMax /\ r0.ub > ret.ub + w[p + 1] THEN ret.ub + w[p + 1] ELSE r0.ub
    BY <1>8, <2>2, <2>5
  <2>7. ExactAt(w, beyond, p, MakeBdd(p, r0.f, ret.f), lb, ub, s)
    BY <1>6, <2>2, <2>3, <2>4, <2>6, MadeExact
  <2> QED BY <2>1, <2>2, <2>5, <2>7
<1>10. b.lb <= s /\ s < b.ub
  BY <1>8, <1>9 DEF ExactAt
<1>11. /\ DOMAIN mItvlList = 0 .. Len(w) - 1 /\ ExactNodes(w, beyond, d - 1, mItvlList[d - 1])
       /\ IsTree(mItvlList[d - 1]) /\ IsAvl(mItvlList[d - 1])
  BY <1>6 DEF TInv, ListInv, IsList, ExactInv
<1>12. \/ b.ub - b.lb < MinGap /\ ret' = Failed("aborted") /\ mItvlList' = mItvlList
       \/ Places(new, mItvlList[d - 1]) = {} /\ ret' = Failed("overlap") /\ mItvlList' = mItvlList
       \/ /\ \E q \in Places(new, mItvlList[d - 1]) :
               mItvlList' = [mItvlList EXCEPT ![d - 1] = add_node(new, mItvlList[d - 1], q)]
          /\ ret' = Bdd(f, b.lb, b.ub)
  <2>1. Caller.pos = d - 1
    BY <1>5
  <2>2. \/ b.ub - b.lb < MinGap /\ ret' = Failed("aborted") /\ mItvlList' = mItvlList
        \/ Places(new, mItvlList[Caller.pos]) = {} /\ ret' = Failed("overlap") /\ mItvlList' = mItvlList
        \/ /\ \E q \in Places(new, mItvlList[Caller.pos]) :
                mItvlList' = [mItvlList EXCEPT ![Caller.pos] = add_node(new, mItvlList[Caller.pos], q)]
           /\ ret' = Bdd(f, b.lb, b.ub)
    BY DEF Store
  <2> HIDE DEF b, f, new
  <2> QED BY <2>1, <2>2
<1> HIDE DEF b, f
<1> DEFINE Kept ==
      /\ ExactInv' /\ RetRight(w, beyond, d - 1, ret', s)
      /\ \A p \in 0 .. Len(w) - 1 : p # d - 1 => mItvlList'[p] = mItvlList[p]
<1>13. ASSUME b.ub - b.lb < MinGap /\ ret' = Failed("aborted") /\ mItvlList' = mItvlList
       PROVE  Kept
  <2>1. TooNear(w, beyond, d - 1, s)
    BY <1>5, <1>6, <1>9, <1>13, NarrowTooNear
  <2>2. ret'.kind = "aborted"
    BY <1>13, Kinds
  <2> QED BY <1>1, <1>13, <2>1, <2>2 DEF RetRight, ExactInv
<1>14. ASSUME Places(new, mItvlList[d - 1]) = {} /\ ret' = Failed("overlap") /\ mItvlList' = mItvlList
       PROVE  Kept
  <2>1. beyond < 0
    <3>1. SUFFICES ASSUME beyond \in Nat PROVE FALSE
      BY <1>6
    <3>2. Places(new, mItvlList[d - 1]) # {}
      BY <1>5, <1>6, <1>9, <1>11, <3>1, PlaceFound
    <3> QED BY <1>14, <3>2
  <2>2. ret'.kind = "overlap"
    BY <1>14, Kinds
  <2> QED BY <1>1, <1>14, <2>1, <2>2 DEF RetRight, ExactInv
<1>15. ASSUME /\ \E q \in Places(new, mItvlList[d - 1]) :
                   mItvlList' = [mItvlList EXCEPT ![d - 1] = add_node(new, mItvlList[d - 1], q)]
              /\ ret' = Bdd(f, b.lb, b.ub)
       PROVE  Kept
  <2>1. PICK q \in Places(new, mItvlList[d - 1]) :
          mItvlList' = [mItvlList EXCEPT ![d - 1] = add_node(new, mItvlList[d - 1], q)]
    BY <1>15
  <2>2. IsInterval(new) /\ new.mLb = b.lb /\ new.mUb = b.ub /\ new.mF = f /\ new.mLb < new.mUb
    BY <1>8, <1>10 DEF Node, IsInterval
  <2> HIDE DEF new
  <2>3. Nodes(add_node(new, mItvlList[d - 1], q)) = Nodes(mItvlList[d - 1]) \cup {new}
    BY <1>11, <2>1, <2>2, NodeAdded
  <2>4. /\ mItvlList'[d - 1] = add_node(new, mItvlList[d - 1], q)
        /\ \A p \in 0 .. Len(w) - 1 : p # d - 1 => mItvlList'[p] = mItvlList[p]
    BY <1>6, <1>11, <2>1
  <2>5. ASSUME NEW p \in 0 .. Len(w) - 1 PROVE ExactNodes(w, beyond, p, mItvlList'[p])
    <3>1. CASE p # d - 1
      BY <2>4, <3>1 DEF ExactInv
    <3>2. CASE p = d - 1
      <4>1. Exact(w, beyond, p, new.mF, new.mLb, new.mUb)
        BY <1>9, <2>2, <3>2 DEF ExactAt
      <4>2. Nodes(mItvlList'[p]) = Nodes(mItvlList[d - 1]) \cup {new}
        BY <2>3, <2>4, <3>2
      <4> QED BY <1>11, <3>2, <4>1, <4>2 DEF ExactNodes
    <3> QED BY <3>1, <3>2
  <2>6. ret'.kind = "bdd" /\ ret'.f = f /\ ret'.lb = b.lb /\ ret'.ub = b.ub
    BY <1>15, Kinds
  <2>7. RetRight(w, beyond, d - 1, ret', s)
    BY <1>6, <1>9, <2>6 DEF RetRight, ResultAt
  <2> QED BY <1>1, <2>4, <2>5, <2>7 DEF ExactInv
<1> HIDE DEF new
<1>18. Kept
  <2> HIDE DEF Kept
  <2> QED BY <1>12, <1>13, <1>14, <1>15
<1>19. Len(stack') = d - 1 /\ \A i \in 1 .. d - 1 : stack'[i] = stack[i]
  BY <1>1, FrameParts DEF TInv
<1>20. \A i \in 0 .. d - 1 : Want(w, mThreshold, stack', i) = Want(w, mThreshold, stack, i)
  <2>1. \A i \in 0 .. d - 1 : i # 0 => stack'[i] = stack[i]
    BY <1>2, <1>19
  <2> QED BY <2>1, SameWant
<1>21. FramesInv'
  <2>1. ASSUME NEW i \in 1 .. d - 1
        PROVE  /\ FrameRight(w, beyond, i, stack'[i], mItvlList'[i - 1])
               /\ stack'[i].slack = Want(w, mThreshold, stack', i - 1)
    <3>1. i \in 1 .. d /\ i - 1 \in 0 .. d - 1 /\ i - 1 \in 0 .. Len(w) - 1 /\ i - 1 # d - 1
      <4>1. Len(w) \in Nat
        BY <1>6, LenProperties
      <4>2. i \in 1 .. d /\ i - 1 \in 0 .. d - 1 /\ i - 1 # d - 1 /\ i - 1 < d - 1
        BY <1>2
      <4>3. d - 1 <= Len(w) - 1
        BY <1>6
      <4>4. i - 1 \in 0 .. Len(w) - 1
        BY <1>2, <4>1, <4>2, <4>3
      <4> QED BY <4>2, <4>4
    <3>2. /\ FrameRight(w, beyond, i, stack[i], mItvlList[i - 1])
          /\ stack[i].slack = Want(w, mThreshold, stack, i - 1)
      BY <3>1 DEF FramesInv
    <3> QED BY <1>18, <1>19, <1>20, <3>1, <3>2
  <2> QED BY <1>1, <1>19, <2>1 DEF FramesInv
<1>22. RetInv'
  <2>1. Want(w, mThreshold, stack', d - 1) = s
    <3>1. d - 1 \in 0 .. d - 1
      BY <1>2
    <3> QED BY <1>4, <1>20, <3>1
  <2> QED BY <1>1, <1>18, <1>19, <2>1 DEF RetInv
<1>23. SmallInv'
  BY <1>1 DEF SmallInv
<1> QED BY <1>18, <1>21, <1>22, <1>23

LEMMA GNext ==
  ASSUME TInv, GInv, [Next]_vars
  PROVE  GInv'
<1>1. mWeightArray' = mWeightArray
  BY DEF Next, vars, One, Zero, Crash, Found, Descend, WithWeight, Store, input
<1>2. NonNegative' => NonNegative
  BY <1>1 DEF NonNegative, Below, mNv, Weight, At
<1>3. SUFFICES ASSUME NonNegative PROVE (SmallInv /\ ExactInv /\ FramesInv /\ RetInv)'
  BY <1>2 DEF GInv
<1>4. SmallInv /\ ExactInv /\ FramesInv /\ RetInv
  BY <1>3 DEF GInv
<1>5. CASE UNCHANGED vars
  BY <1>4, <1>5 DEF vars, input, SmallInv, ExactInv, FramesInv, RetInv
<1> QED BY <1>4, <1>5, StepOne, StepZero, StepCrash, StepFound, StepDescend, StepWithWeight,
           StepStore DEF Next


------------------------------------------------------------------------------
(***************************************************************************)
(* The slack at hand is the threshold less a sum of weights, so what the   *)
(* invariant says of a failure says it of the threshold and sums of        *)
(* weights.                                                                *)
(***************************************************************************)
LEMMA SumDisjoint ==
  ASSUME NEW w \in Seq(Nat), NEW xs, NEW ys, xs \cap ys = {}
  PROVE  Sum(w, xs \cup ys) = Sum(w, xs) + Sum(w, ys)
<1>1. Len(w) \in Nat
  BY LenProperties
<1>2. PICK zs : zs = xs \cup ys
  OBVIOUS
<1> DEFINE S == {k \in 0 .. Len(w) : Sums(w, zs)[k] = Sums(w, xs)[k] + Sums(w, ys)[k]}
<1>3. 0 \in S
  BY <1>1, SumsThere
<1>4. ASSUME NEW k \in 0 .. Len(w) - 1, k \in S PROVE k + 1 \in S
  <2>1. /\ Sums(w, zs)[k + 1] = Sums(w, zs)[k] + Share(w, zs, k)
        /\ Sums(w, xs)[k + 1] = Sums(w, xs)[k] + Share(w, xs, k)
        /\ Sums(w, ys)[k + 1] = Sums(w, ys)[k] + Share(w, ys, k)
    BY <1>1, SumsThere
  <2>2. /\ Sums(w, xs)[k] \in Nat /\ Share(w, xs, k) \in Nat /\ k + 1 \in 0 .. Len(w)
        /\ Sums(w, ys)[k] \in Nat /\ Share(w, ys, k) \in Nat
    BY <1>1, SumNat, ShareNat
  <2>3. Share(w, zs, k) = Share(w, xs, k) + Share(w, ys, k)
    <3>1. w[k + 1] \in Nat
      BY ShareNat
    <3>2. k \in zs <=> k \in xs \/ k \in ys
      BY <1>2
    <3> QED BY <3>1, <3>2 DEF Share
  <2> QED BY <1>4, <2>1, <2>2, <2>3
<1>5. \A k \in 0 .. Len(w) : k \in S
  <2> HIDE DEF S
  <2> QED BY <1>1, <1>3, <1>4, UpTo
<1>6. Sums(w, zs)[Len(w)] = Sums(w, xs)[Len(w)] + Sums(w, ys)[Len(w)]
  <2>1. Len(w) \in 0 .. Len(w)
    BY <1>1
  <2> QED BY <1>5, <2>1
<1>7. Sum(w, zs) = Sum(w, xs) + Sum(w, ys)
  BY <1>6 DEF Sum
<1> QED BY <1>2, <1>7

\* What the activations that wait leave of the threshold.
LEMMA PathSum ==
  ASSUME TInv, SmallInv, FramesInv
  PROVE  \E z \in SUBSET (0 .. Len(stack) - 1) :
           Want(mWeightArray, mThreshold, stack, Len(stack)) = mThreshold - Sum(mWeightArray, z)
<1> DEFINE w == mWeightArray
           d == Len(stack)
           Gap(i) == Want(w, mThreshold, stack, i)
           Path(i) == \E z \in SUBSET (0 .. i - 1) : Gap(i) = mThreshold - Sum(w, z)
           S == {i \in 0 .. d : Path(i)}
<1>1. w \in Seq(Nat) /\ mThreshold \in Int /\ Len(w) \in Nat /\ d \in Nat
  BY LenProperties DEF TInv, InputInv, SmallInv, StackInv
<1>2. 0 \in S
  <2>1. Sum(w, {}) = 0 /\ Gap(0) = mThreshold
    BY <1>1, SumNone DEF Want
  <2>2. {} \in SUBSET (0 .. 0 - 1) /\ Gap(0) = mThreshold - Sum(w, {})
    BY <1>1, <2>1
  <2> QED BY <1>1, <2>2
<1>3. ASSUME NEW i \in 0 .. d - 1, i \in S PROVE i + 1 \in S
  <2>1. PICK z \in SUBSET (0 .. i - 1) : Gap(i) = mThreshold - Sum(w, z)
    BY <1>3
  <2>2. PICK j : j = i + 1
    OBVIOUS
  <2>3. j \in 1 .. d /\ j # 0 /\ j - 1 = i /\ j \in 0 .. d /\ i \notin z /\ i \in 0 .. j - 1
    BY <1>1, <2>2
  <2>4. stack[j].pos = i /\ stack[j].slack = Gap(i)
    BY <2>3 DEF FramesInv, FrameRight
  <2>5. i \in 0 .. Len(w) - 1
    BY <2>3, <2>4 DEF TInv, StackInv
  <2>6. z \in SUBSET (0 .. j - 1) /\ z \cup {i} \in SUBSET (0 .. j - 1)
    BY <2>3
  <2>7. CASE stack[j].without.kind = "none"
    <3>1. Gap(j) = mThreshold - Sum(w, z)
      BY <2>1, <2>3, <2>4, <2>7 DEF Want
    <3> QED BY <2>2, <2>3, <2>6, <3>1
  <2>8. CASE stack[j].without.kind # "none"
    <3>1. Gap(j) = Gap(i) - w[j]
      BY <2>3, <2>4, <2>8 DEF Want
    <3>2. Sum(w, z \cup {i}) = Sum(w, z) + w[j]
      BY <1>1, <2>2, <2>3, <2>5, SumAdd
    <3>3. Sum(w, z) \in Nat /\ w[j] \in Nat
      BY <1>1, <2>2, <2>5, SumNat, ShareNat
    <3>4. Gap(j) = mThreshold - Sum(w, z \cup {i})
      BY <1>1, <2>1, <3>1, <3>2, <3>3
    <3> QED BY <2>2, <2>3, <2>6, <3>4
  <2> QED BY <2>7, <2>8
<1>4. \A i \in 0 .. d : i \in S
  <2> HIDE DEF S
  <2> QED BY <1>1, <1>2, <1>3, UpTo
<1>5. d \in 0 .. d
  BY <1>1
<1> QED BY <1>4, <1>5

LEMMA CrashMisled ==
  ASSUME TInv, SmallInv, FramesInv, RetInv, ret.kind = "crashed"
  PROVE  mNv = 0 \/ (beyond > 0 /\ Misled)
<1> SUFFICES ASSUME mNv # 0 PROVE beyond > 0 /\ Misled
  OBVIOUS
<1> DEFINE w == mWeightArray
           d == Len(stack)
<1>1. PICK z \in SUBSET (0 .. d - 1) :
        Want(w, mThreshold, stack, d) = mThreshold - Sum(w, z)
  BY PathSum
<1>2. PICK s : s = mThreshold - Sum(w, z)
  OBVIOUS
<1>3. d \in 0 .. Len(w) /\ 0 <= s /\ s < beyond
  BY <1>1, <1>2 DEF RetInv, RetRight, mNv
<1>4. s \in Int /\ beyond \in Int /\ Len(w) \in Nat
  <2>1. Sum(w, z) \in Nat
    BY SumNat DEF SmallInv
  <2> QED BY <1>2, <2>1, WeightInt DEF TInv, InputInv
<1>5. beyond > 0
  BY <1>3, <1>4
<1>6. z \in SUBSET Below(0)
  BY <1>3, <1>4, WeightInt DEF Below, TInv
<1>7. mThreshold - Total(z) = s
  BY <1>2, TotalIsSum
<1>8. Misled
  BY <1>3, <1>6, <1>7 DEF Misled
<1> QED BY <1>5, <1>8

LEMMA AbortClose ==
  ASSUME TInv, SmallInv, FramesInv, RetInv, ret.kind = "aborted", beyond >= 0 \/ ~ Misled
  PROVE  CloseSums
<1> DEFINE w == mWeightArray
           d == Len(stack)
<1>1. PICK z \in SUBSET (0 .. d - 1) :
        Want(w, mThreshold, stack, d) = mThreshold - Sum(w, z)
  BY PathSum
<1>2. PICK s : s = mThreshold - Sum(w, z)
  OBVIOUS
<1>3. PICK x \in Sets(w, d), y \in Sets(w, d) :
        /\ s < Sum(w, y) /\ (Sum(w, x) <= s \/ beyond <= s - Sum(w, x))
        /\ Sum(w, y) - Sum(w, x) < MinGap + (IF beyond > 0 THEN beyond ELSE 0)
  BY <1>1, <1>2 DEF RetInv, RetRight, TooNear
<1>4. /\ w \in Seq(Nat) /\ Len(w) \in Nat /\ d \in Nat /\ mThreshold \in Int /\ beyond \in Int
      /\ mNv = Len(w)
  BY LenProperties DEF TInv, InputInv, SmallInv, StackInv, mNv
<1>5. /\ z \cap x = {} /\ z \cap y = {}
  BY <1>4 DEF Sets
<1>6. z \cup x \in SUBSET Below(0) /\ z \cup y \in SUBSET Below(0)
  <2>1. d - 1 <= Len(w) - 1
    <3>1. CASE d = 0
      BY <1>4, <3>1
    <3>2. CASE d # 0
      <4>1. d \in 1 .. d /\ stack[d].pos = d - 1
        BY <1>4, <3>2 DEF FramesInv, FrameRight
      <4>2. d - 1 \in 0 .. Len(w) - 1
        BY <4>1 DEF TInv, StackInv
      <4> QED BY <1>4, <4>2
    <3> QED BY <3>1, <3>2
  <2>2. 0 .. d - 1 \subseteq 0 .. Len(w) - 1 /\ d .. Len(w) - 1 \subseteq 0 .. Len(w) - 1
    BY <1>4, <2>1
  <2> QED BY <1>4, <2>2 DEF Sets, Below
<1>7. PICK sz \in Nat, sx \in Nat, sy \in Nat :
        sz = Sum(w, z) /\ sx = Sum(w, x) /\ sy = Sum(w, y)
  BY <1>4, SumNat
<1>8. Total(z \cup x) = sz + sx /\ Total(z \cup y) = sz + sy
  BY <1>4, <1>5, <1>7, SumDisjoint, TotalIsSum
<1>9. PICK extra : extra = IF beyond > 0 THEN beyond ELSE 0
  OBVIOUS
<1>10. /\ s = mThreshold - sz /\ s < sy /\ (sx <= s \/ beyond <= s - sx)
       /\ sy - sx < MinGap + extra
  BY <1>2, <1>3, <1>7, <1>9
<1>11. sx <= s
  <2>1. SUFFICES ASSUME ~ (sx <= s) PROVE FALSE
    OBVIOUS
  <2>2. s \in Int /\ beyond <= s - sx /\ s - sx < 0
    BY <1>4, <1>7, <1>10, <2>1
  <2>3. mThreshold - Total(z \cup x) = s - sx
    BY <1>4, <1>7, <1>8, <1>10
  <2>4. Misled
    BY <1>6, <2>2, <2>3 DEF Misled
  <2>5. ~ (beyond >= 0)
    BY <1>4, <2>2
  <2> QED BY <2>4, <2>5
<1>12. /\ Total(z \cup x) <= mThreshold /\ mThreshold < Total(z \cup y)
       /\ Total(z \cup y) - Total(z \cup x) < MinGap + extra
  <2>1. (sz + sy) - (sz + sx) = sy - sx
    OBVIOUS
  <2>2. sz + sx <= mThreshold /\ mThreshold < sz + sy
    BY <1>4, <1>10, <1>11
  <2> QED BY <1>8, <1>10, <2>1, <2>2
<1> QED BY <1>6, <1>9, <1>12 DEF CloseSums

------------------------------------------------------------------------------
(***************************************************************************)
(* The array given and the sorted one: a set of indices and the set of     *)
(* their positions have the same weight, and every set of positions is one *)
(* of a set of indices.                                                    *)
(***************************************************************************)
LEMMA PlacesOfSets ==
  ASSUME InputInv
  PROVE  /\ \A s : PlacesOf(s) = {p \in 0 .. Len(mWeightArray) - 1 : mIdx[p + 1] \in s}
         /\ \A x \in Sets(mWeightArray, 0) :
              \E s \in SUBSET (0 .. Len(mWeightArray) - 1) : x = PlacesOf(s)
<1> DEFINE n == Len(mWeightArray)
<1>1. n \in Nat /\ mNv = n /\ IsOrder(mIdx, n)
  BY WeightInt DEF InputInv, OrderInv
<1>2. \A s : PlacesOf(s) = {p \in 0 .. n - 1 : mIdx[p + 1] \in s}
  BY <1>1 DEF PlacesOf, Below, At
<1>3. ASSUME NEW x \in Sets(mWeightArray, 0)
      PROVE  \E s \in SUBSET (0 .. n - 1) : x = PlacesOf(s)
  <2>1. x \subseteq 0 .. n - 1
    BY DEF Sets
  <2>2. PICK s : s = {mIdx[p + 1] : p \in x}
    OBVIOUS
  <2>3. \A p \in 0 .. n - 1 : p + 1 \in 1 .. n
    BY <1>1
  <2>4. s \in SUBSET (0 .. n - 1)
    BY <1>1, <2>1, <2>2, <2>3 DEF IsOrder
  <2>5. ASSUME NEW p \in 0 .. n - 1 PROVE p \in x <=> mIdx[p + 1] \in s
    <3>1. ASSUME NEW q \in x, mIdx[p + 1] = mIdx[q + 1] PROVE p = q
      <4>1. q \in 0 .. n - 1 /\ p + 1 \in 1 .. n /\ q + 1 \in 1 .. n
        BY <2>1, <2>3
      <4>2. p + 1 = q + 1
        BY <1>1, <3>1, <4>1 DEF IsOrder
      <4> QED BY <4>1, <4>2
    <3> QED BY <2>2, <3>1
  <2>6. x = PlacesOf(s)
    BY <1>2, <2>1, <2>5
  <2> QED BY <2>4, <2>6
<1> QED BY <1>2, <1>3

LEMMA SumPlaces ==
  ASSUME InputInv, NonNegative, NEW s \in SUBSET (0 .. Len(mWeightArray) - 1)
  PROVE  SumOf(weight_array, s) = Sum(mWeightArray, PlacesOf(s))
<1> DEFINE w == mWeightArray
           a == weight_array
           n == Len(mWeightArray)
           Part(k) == {i \in s : i < k}
           S == {k \in 0 .. n : Sum(a, Part(k)) = Sum(w, PlacesOf(Part(k)))}
<1>1. /\ w \in Seq(Nat) /\ a \in Seq(Nat) /\ n \in Nat /\ Len(a) = n /\ IsOrder(mIdx, n)
      /\ \A k \in 1 .. n : w[k] = a[mIdx[k] + 1]
  BY NaturalWeights, LenProperties DEF InputInv, OrderInv
<1>2. \A t : PlacesOf(t) = {p \in 0 .. n - 1 : mIdx[p + 1] \in t}
  BY PlacesOfSets
<1>3. 0 \in S
  <2>1. Part(0) = {}
    <3>1. \A i \in s : ~ (i < 0)
      <4>1. \A i \in s : i \in 0 .. n - 1
        OBVIOUS
      <4> QED BY <1>1, <4>1
    <3> QED BY <3>1, Zenon
  <2>2. PlacesOf({}) = {}
    BY <1>2, Zenon
  <2>3. Sum(a, {}) = 0 /\ Sum(w, {}) = 0
    BY <1>1, SumNone
  <2>4. Sum(a, Part(0)) = Sum(w, PlacesOf(Part(0)))
    BY <2>1, <2>2, <2>3
  <2>5. 0 \in 0 .. n
    BY <1>1
  <2> QED BY <2>4, <2>5
<1>4. ASSUME NEW k \in 0 .. n - 1, k \in S PROVE k + 1 \in S
  <2>1. \A i \in s : i < k + 1 <=> i < k \/ i = k
    BY <1>1
  <2>2. k + 1 \in 0 .. n /\ k \notin Part(k)
    BY <1>1
  <2>3. CASE k \notin s
    <3>1. Part(k + 1) = Part(k)
      BY <2>1, <2>3
    <3> QED BY <1>4, <2>2, <3>1
  <2>4. CASE k \in s
    <3>1. PICK old : old = Part(k)
      OBVIOUS
    <3>2. Part(k + 1) = old \cup {k} /\ k \notin old /\ Sum(a, old) = Sum(w, PlacesOf(old))
      BY <1>4, <2>1, <2>2, <2>4, <3>1
    <3> HIDE DEF Part
    <3>3. PICK j \in 1 .. n : mIdx[j] = k
      BY <1>1 DEF IsOrder
    <3>4. PICK p : p = j - 1
      OBVIOUS
    <3>5. p \in 0 .. n - 1 /\ p + 1 = j
      BY <1>1, <3>4
    <3>6. p \notin PlacesOf(old)
      BY <1>2, <3>2, <3>3, <3>5
    <3>7. PlacesOf(old \cup {k}) = PlacesOf(old) \cup {p}
      <4>1. ASSUME NEW q \in 0 .. n - 1 PROVE mIdx[q + 1] = k <=> q = p
        <5>1. q + 1 \in 1 .. n
          BY <1>1
        <5>2. mIdx[q + 1] = mIdx[j] => q + 1 = j
          BY <1>1, <5>1 DEF IsOrder
        <5> QED BY <3>3, <3>5, <5>1, <5>2
      <4>2. PlacesOf(old \cup {k}) = {q \in 0 .. n - 1 : mIdx[q + 1] \in old \cup {k}}
        BY <1>2
      <4>3. PlacesOf(old) = {q \in 0 .. n - 1 : mIdx[q + 1] \in old}
        BY <1>2
      <4> QED BY <3>5, <4>1, <4>2, <4>3
    <3>8. Sum(a, old \cup {k}) = Sum(a, old) + a[k + 1]
      BY <1>1, <3>2, SumAdd
    <3>9. Sum(w, PlacesOf(old) \cup {p}) = Sum(w, PlacesOf(old)) + w[p + 1]
      BY <1>1, <3>5, <3>6, SumAdd
    <3>10. w[p + 1] = a[k + 1]
      BY <1>1, <3>3, <3>5
    <3>11. Sum(a, Part(k + 1)) = Sum(w, PlacesOf(Part(k + 1)))
      BY <3>2, <3>7, <3>8, <3>9, <3>10
    <3> QED BY <2>2, <3>11
  <2> QED BY <2>3, <2>4
<1>5. \A k \in 0 .. n : k \in S
  <2> HIDE DEF S
  <2> QED BY <1>1, <1>3, <1>4, UpTo
<1>6. Part(n) = s
  <2>1. \A i \in s : i < n
    <3>1. \A i \in s : i \in 0 .. n - 1
      OBVIOUS
    <3> QED BY <1>1, <3>1
  <2> QED BY <2>1
<1>7. n \in S
  <2>1. n \in 0 .. n
    BY <1>1
  <2> QED BY <1>5, <2>1
<1>8. Sum(a, s) = Sum(w, PlacesOf(s))
  BY <1>6, <1>7
<1> QED BY <1>8, SumOfIsSum

LEMMA PromisedPlaces ==
  ASSUME InputInv, NonNegative
  PROVE  {PlacesOf(s) : s \in Promised} = More(mWeightArray, 0, mThreshold)
<1> DEFINE w == mWeightArray
           n == Len(mWeightArray)
<1>1. Len(weight_array) = n
  BY DEF InputInv, OrderInv
<1>2. \A s : s \in Promised <=> s \in SUBSET (0 .. n - 1) /\ SumOf(weight_array, s) > mThreshold
  BY <1>1 DEF Promised
<1>3. \A s \in SUBSET (0 .. n - 1) : SumOf(weight_array, s) = Sum(w, PlacesOf(s))
  BY SumPlaces
<1>4. ASSUME NEW s \in Promised PROVE PlacesOf(s) \in More(w, 0, mThreshold)
  <2>1. PlacesOf(s) \in Sets(w, 0)
    BY PlacesOfSets DEF Sets
  <2> QED BY <1>2, <1>3, <2>1 DEF More
<1>5. ASSUME NEW x \in More(w, 0, mThreshold) PROVE \E s \in Promised : x = PlacesOf(s)
  <2>1. x \in Sets(w, 0) /\ Sum(w, x) > mThreshold
    BY DEF More
  <2>2. PICK s \in SUBSET (0 .. n - 1) : x = PlacesOf(s)
    BY <2>1, PlacesOfSets
  <2> QED BY <1>2, <1>3, <2>1, <2>2
<1> QED BY <1>4, <1>5

------------------------------------------------------------------------------
LEMMA WantInt ==
  ASSUME TInv, SmallInv, FramesInv
  PROVE  Want(mWeightArray, mThreshold, stack, Len(stack)) \in Int
<1> DEFINE w == mWeightArray
           d == Len(stack)
<1>1. w \in Seq(Nat) /\ mThreshold \in Int
  BY DEF TInv, InputInv, SmallInv
<1>2. CASE d = 0
  BY <1>1, <1>2 DEF Want
<1>3. CASE d # 0
  <2>1. stack # <<>>
    BY <1>3
  <2>2. /\ d \in 1 .. d /\ d \in Nat \ {0} /\ stack[d].slack \in Int
        /\ stack[d].pos \in 0 .. Len(w) - 1
    BY <2>1, FrameParts DEF TInv, Caller
  <2>3. stack[d].pos = d - 1
    BY <2>2 DEF FramesInv, FrameRight
  <2>4. d - 1 \in 0 .. Len(w) - 1 /\ (d - 1) + 1 = d
    BY <2>2, <2>3
  <2>5. w[d] \in Nat
    BY <1>1, <2>4, ShareNat
  <2> QED BY <1>3, <2>2, <2>5 DEF Want
<1> QED BY <1>2, <1>3

\* What an exact interval says of the slacks at its bounds.
LEMMA ExactHolds ==
  ASSUME TInv, SmallInv, FramesInv, RetInv, ret.kind = "bdd", beyond >= 0
  PROVE  Holds(Len(stack), ret)
<1> DEFINE w == mWeightArray
           d == Len(stack)
<1>1. w \in Seq(Nat) /\ beyond \in Nat
  BY DEF TInv, InputInv, SmallInv
<1>2. \A p, x : Above(p, x) = More(w, p, x)
  BY TotalIsSum DEF Above, More, Sets, Below, mNv
<1>3. PICK s \in Int : s = Want(w, mThreshold, stack, d)
  BY WantInt
<1>4. ExactAt(w, beyond, d, ret.f, ret.lb, ret.ub, s)
  BY <1>3 DEF RetInv, RetRight, ResultAt
<1>5. PICK f, lb, ub : f = ret.f /\ lb = ret.lb /\ ub = ret.ub
  OBVIOUS
<1>6. /\ Exact(w, beyond, d, f, lb, ub) /\ lb <= s /\ s < ub /\ lb \in Int /\ ub \in Int
      /\ IsLow(w, beyond, d, f, lb) /\ IsHigh(w, d, f, ub)
  BY <1>4, <1>5 DEF ExactAt, Exact
<1>7. \A x \in Int : lb <= x /\ x < ub => f = More(w, d, x)
  BY <1>1, <1>6, ExactIsMore DEF ExactAt
<1>8. ASSUME lb # DblMin PROVE f = Above(d, lb) /\ (beyond = 0 => f # Above(d, lb - 1))
  <2>1. lb <= lb /\ lb < ub
    BY <1>3, <1>6
  <2>2. ASSUME beyond = 0 PROVE f # More(w, d, lb - 1)
    <3>1. PICK x \in Sets(w, d) \ f : lb = Cost(w, beyond, d, f, x)
      BY <1>6, <1>8 DEF IsLow
    <3>2. lb = Sum(w, x) /\ Sum(w, x) \in Nat
      <4>1. Sum(w, x) \in Nat
        BY <1>1, SumNat
      <4> QED BY <2>2, <3>1, <4>1 DEF Cost
    <3>3. Sum(w, x) > lb - 1
      BY <3>2
    <3> QED BY <3>1, <3>3 DEF More
  <2> QED BY <1>2, <1>6, <1>7, <2>1, <2>2
<1>9. ASSUME ub # DblMax PROVE f = Above(d, ub - 1) /\ f # Above(d, ub)
  <2>1. ub - 1 \in Int /\ lb <= ub - 1 /\ ub - 1 < ub
    BY <1>3, <1>6
  <2>2. f # More(w, d, ub)
    <3>1. CASE f = {}
      BY <1>6, <1>9, <3>1 DEF IsHigh
    <3>2. CASE f # {}
      <4>1. PICK x \in f : ub = Sum(w, x)
        BY <1>6, <3>2 DEF IsHigh
      <4> QED BY <1>6, <4>1 DEF More
    <3> QED BY <3>1, <3>2
  <2> QED BY <1>2, <1>7, <2>1, <2>2
<1>10. Holds(d, ret)
  BY <1>5, <1>8, <1>9 DEF Holds
<1> QED BY <1>10

\* The function of the array, unless the word behind it misleads the walk.
LEMMA FinalPromised ==
  ASSUME TInv, SmallInv, RetInv, ret.kind = "bdd", stack = <<>>, beyond >= 0 \/ ~ Misled
  PROVE  ret.f = More(mWeightArray, 0, mThreshold)
<1>1. /\ mWeightArray \in Seq(Nat) /\ mThreshold \in Int /\ beyond \in Int
      /\ mNv = Len(mWeightArray)
  BY DEF TInv, InputInv, SmallInv, mNv
<1>2. PICK w : w = mWeightArray
  OBVIOUS
<1>3. PICK f, lb, ub : f = ret.f /\ lb = ret.lb /\ ub = ret.ub
  OBVIOUS
<1>4. ExactAt(w, beyond, 0, f, lb, ub, mThreshold)
  <2>1. Len(stack) = 0 /\ Want(mWeightArray, mThreshold, stack, 0) = mThreshold
    BY DEF Want
  <2> QED BY <1>2, <1>3, <2>1 DEF RetInv, RetRight, ResultAt
<1>5. /\ f \subseteq Sets(w, 0) /\ lb \in Int /\ ub \in Int /\ lb <= mThreshold /\ mThreshold < ub
      /\ IsLow(w, beyond, 0, f, lb) /\ IsHigh(w, 0, f, ub)
  BY <1>4 DEF ExactAt, Exact
<1>6. \A x : Sum(w, x) \in Nat
  BY <1>1, <1>2, SumNat
<1>7. ASSUME NEW x \in f PROVE Sum(w, x) > mThreshold
  <2>1. ub <= Sum(w, x)
    BY <1>5 DEF IsHigh
  <2> QED BY <1>1, <1>5, <1>6, <2>1
<1>8. ASSUME NEW x \in Sets(w, 0) \ f PROVE ~ (Sum(w, x) > mThreshold)
  <2>1. f # Sets(w, 0)
    OBVIOUS
  <2>2. Cost(w, beyond, 0, f, x) <= lb
    BY <1>5, <2>1 DEF IsLow
  <2>3. Cost(w, beyond, 0, f, x) = Sum(w, x) \/ Cost(w, beyond, 0, f, x) = Sum(w, x) + beyond
    BY <1>6 DEF Cost
  <2>4. PICK sx \in Nat : sx = Sum(w, x)
    BY <1>6
  <2>5. sx <= mThreshold \/ sx + beyond <= mThreshold
    BY <1>1, <1>5, <2>2, <2>3, <2>4
  <2>6. SUFFICES ASSUME sx > mThreshold PROVE FALSE
    BY <2>4
  <2>7. beyond < 0 /\ beyond <= mThreshold - sx /\ mThreshold - sx < 0
    BY <1>1, <2>5, <2>6
  <2>8. x \in SUBSET Below(0) /\ mThreshold - Total(x) = mThreshold - sx
    BY <1>1, <1>2, <2>4, TotalIsSum DEF Sets, Below
  <2>9. Misled
    BY <2>7, <2>8 DEF Misled
  <2> QED BY <1>1, <2>7, <2>9
<1>9. f = More(w, 0, mThreshold)
  BY <1>5, <1>7, <1>8 DEF More
<1> QED BY <1>2, <1>3, <1>9

\* GenIsThreshold holds for every array of weights, sorted or not, every
\* threshold, every word behind the array and every width of the intervals that
\* abort. If no weight is negative, what ThBddGen::operator() returns is the
\* threshold function of the array given, over the positions of the sorted one,
\* whenever the word behind the array and 0 treat the slacks alike or it is above
\* 0; the walk leaves the array only if that word makes it, or no weight is given;
\* and gen_bdd aborts only if the threshold is between two sums of weights too
\* close to each other, unless a word below 0 decides.
THEOREM ThresholdGenerated == Spec => []GenIsThreshold
<1>1. Init => TInv /\ GInv
  BY TInit, GInit
<1>2. TInv /\ GInv /\ [Next]_vars => TInv' /\ GInv'
  BY TNext, GNext
<1>3. TInv /\ GInv => GenIsThreshold
  <2>1. SUFFICES ASSUME TInv, GInv, NonNegative
                 PROVE  /\ ret.kind = "bdd" /\ beyond >= 0 => Holds(Len(stack), ret)
                        /\ ret.kind = "crashed" => mNv = 0 \/ (beyond > 0 /\ Misled)
                        /\ ret.kind = "overlap" => beyond < 0
                        /\ beyond >= 0 \/ ~ Misled =>
                             /\ ret.kind = "bdd" /\ stack = <<>> => ret.f = {PlacesOf(s) : s \in Promised}
                             /\ ret.kind = "aborted" => CloseSums
    BY DEF GenIsThreshold
  <2>2. SmallInv /\ FramesInv /\ RetInv /\ InputInv
    BY <2>1 DEF GInv, TInv
  <2>3. ret.kind = "overlap" => beyond < 0
    BY <2>2 DEF RetInv, RetRight
  <2>4. {PlacesOf(s) : s \in Promised} = More(mWeightArray, 0, mThreshold)
    BY <2>1, <2>2, PromisedPlaces
  <2> QED BY <2>1, <2>2, <2>3, <2>4, ExactHolds, CrashMisled, AbortClose, FinalPromised
<1> QED BY <1>1, <1>2, <1>3, PTL DEF Spec
=============================================================================
