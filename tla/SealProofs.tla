----------------------------- MODULE SealProofs -----------------------------
(***************************************************************************)
(* Proofs about the simulators of seal and their event queue.              *)
(*                                                                         *)
(* EventQ, for every finite set of nodes, every assignment of levels the   *)
(* array reaches and both contents of the unwritten cell: it is a priority *)
(* queue. What init(), put() and get() do to a queue are lemmas about any  *)
(* queue, which the proofs about the simulators use.                       *)
(*                                                                         *)
(* CalcCvf and CalcSvf, for every set of networks and of vectors, every    *)
(* number of time frames and every sequence of calls: the copies CalcSvf   *)
(* makes are a network, every event is taken once and in the order of the  *)
(* levels, nothing of one simulation is left for the next, the DSS of a    *)
(* region cuts it off from the outputs, calc_exact is exact, calc_max      *)
(* bounds it and calc_pseudo_min is right where paths do not meet.         *)
(*                                                                         *)
(* The functions of the model that are defined by recursion (levels,       *)
(* regions, words, paths, the queue after several put()) are handled by    *)
(* one lemma, RankRecursion: a function may be defined by what it does at  *)
(* lower ranks.                                                            *)
(***************************************************************************)
EXTENDS CalcSvf, EventQSpec, FiniteSetTheorems, SequenceTheorems, WellFoundedInduction, TLAPS

(***************************************************************************)
(* Numbers and recursion                                                   *)
(***************************************************************************)
\* A set of numbers has a least one.
LEMMA LeastNumber ==
  ASSUME NEW S, S \subseteq Nat, S # {}
  PROVE  \E i \in S : \A j \in S : i <= j
<1> DEFINE Less == {p \in Nat \X Nat : p[1] < p[2]}
<1>1. IsWellFoundedOn(Less, Nat)
  BY NatLessThanWellFounded, Zenon DEF OpToRel
<1>2. PICK i \in S : \A j \in S : <<j, i>> \notin Less
  <2> HIDE DEF Less
  <2> QED BY <1>1, WFMin
<1>3. \A x, y \in Nat : <<x, y>> \notin Less => y <= x
  OBVIOUS
<1>4. \A j \in S : i <= j
  <2> HIDE DEF Less
  <2> QED BY <1>2, <1>3
<1> QED BY <1>4

\* What holds of an element when it holds of all of lower rank holds of all.
LEMMA RankInduction ==
  ASSUME NEW D, NEW rank, \A n \in D : rank[n] \in Nat, NEW T,
         \A n \in D : (\A m \in D : rank[m] < rank[n] => m \in T) => n \in T
  PROVE  D \subseteq T
<1> SUFFICES ASSUME D \ T # {} PROVE FALSE
  OBVIOUS
<1> DEFINE R == {rank[n] : n \in D \ T}
<1>1. R \subseteq Nat /\ R # {}
  OBVIOUS
<1>2. PICK i \in R : \A j \in R : i <= j
  <2> HIDE DEF R
  <2> QED BY <1>1, LeastNumber
<1>3. PICK n \in D \ T : i = rank[n]
  OBVIOUS
<1>4. ASSUME NEW m \in D, rank[m] < rank[n] PROVE m \in T
  <2>1. m \notin T => rank[m] \in R
    OBVIOUS
  <2>2. rank[m] \in Nat /\ rank[n] \in Nat
    OBVIOUS
  <2> HIDE DEF R
  <2> QED BY <1>2, <1>3, <1>4, <2>1, <2>2
<1> QED BY <1>3, <1>4

\* F determines the value at an element by those at lower ranks.
IsRecursion(D, V, rank, F) ==
  /\ V # {}
  /\ \E K \in Nat : \A n \in D : rank[n] \in 0 .. K
  /\ F \in [[D -> V] -> [D -> V]]
  /\ \A f, g \in [D -> V] : \A n \in D :
       (\A m \in D : rank[m] < rank[n] => f[m] = g[m]) => F[f][n] = F[g][n]

\* Such a definition has a solution.
LEMMA RankRecursion ==
  ASSUME NEW D, NEW V, NEW rank, NEW F, IsRecursion(D, V, rank, F)
  PROVE  \E f \in [D -> V] : f = F[f]
<1>a. PICK K \in Nat : \A n \in D : rank[n] \in 0 .. K
  BY DEF IsRecursion
<1>b. /\ V # {} /\ F \in [[D -> V] -> [D -> V]] /\ \A n \in D : rank[n] \in Nat
      /\ \A f, g \in [D -> V] : \A n \in D :
           (\A m \in D : rank[m] < rank[n] => f[m] = g[m]) => F[f][n] = F[g][n]
  BY <1>a DEF IsRecursion
<1> DEFINE Upto(k) == \E f \in [D -> V] : \A n \in D : rank[n] < k => f[n] = F[f][n]
           S == {k \in Nat : ~Upto(k)}
<1>0. ASSUME S = {} PROVE \E f \in [D -> V] : f = F[f]
  <2>1. K + 1 \in Nat /\ Upto(K + 1)
    <3>1. K + 1 \in Nat /\ K + 1 \notin S
      <4> HIDE DEF S
      <4> QED BY <1>0
    <3> HIDE DEF Upto
    <3> QED BY <3>1
  <2>2. \A n \in D : rank[n] < K + 1
    BY <1>a
  <2>3. PICK f \in [D -> V] : \A n \in D : rank[n] < K + 1 => f[n] = F[f][n]
    BY <2>1
  <2>4. F[f] \in [D -> V]
    BY <1>b
  <2>5. f = F[f]
    BY <2>2, <2>3, <2>4
  <2> QED BY <2>5
<1>1. SUFFICES ASSUME S # {} PROVE FALSE
  <2> HIDE DEF S
  <2> QED BY <1>0
<1>2. PICK k \in S : \A j \in S : k <= j
  <2>1. S \subseteq Nat
    OBVIOUS
  <2> HIDE DEF S
  <2> QED BY <1>1, <2>1, LeastNumber
<1>3. k \in Nat /\ ~Upto(k)
  OBVIOUS
<1>4. Upto(0)
  <2>1. PICK v \in V : TRUE
    BY <1>b
  <2>2. [n \in D |-> v] \in [D -> V] /\ \A n \in D : ~(rank[n] < 0)
    BY <1>b
  <2> QED BY <2>2
<1>5. k - 1 \in Nat /\ Upto(k - 1)
  <2>1. k # 0
    BY <1>3, <1>4
  <2>2. k - 1 \in Nat /\ ~(k <= k - 1)
    BY <1>3, <2>1
  <2>3. k - 1 \notin S
    <3> HIDE DEF S
    <3> QED BY <1>2, <2>2
  <2> QED BY <2>2, <2>3
<1>6. PICK f \in [D -> V] : \A n \in D : rank[n] < k - 1 => f[n] = F[f][n]
  BY <1>5
<1>7. PICK h \in [D -> V] : h = F[f]
  BY <1>b
<1> DEFINE g == [n \in D |-> IF rank[n] = k - 1 THEN h[n] ELSE f[n]]
<1>8. g \in [D -> V]
  OBVIOUS
<1>9. \A m \in D : rank[m] < k - 1 => f[m] = g[m]
  BY <1>5
<1>10. ASSUME NEW n \in D, rank[n] < k PROVE g[n] = F[g][n]
  <2>1. rank[n] \in Nat /\ rank[n] <= k - 1
    BY <1>b, <1>3, <1>10
  <2>2. \A m \in D : rank[m] < rank[n] => f[m] = g[m]
    <3> HIDE DEF g
    <3>1. \A m \in D : rank[m] \in Nat
      BY <1>b
    <3> QED BY <1>5, <1>9, <2>1, <3>1
  <2>3. F[f][n] = F[g][n]
    <3> HIDE DEF g
    <3> QED BY <1>b, <1>8, <2>2
  <2>4. g[n] = F[f][n]
    BY <1>5, <1>6, <1>7, <2>1
  <2> QED BY <2>3, <2>4
<1> HIDE DEF g, S
<1>11. Upto(k)
  BY <1>8, <1>10
<1> QED BY <1>3, <1>11
------------------------------------------------------------------------------
(***************************************************************************)
(* EventQ                                                                  *)
(***************************************************************************)
\* What a list may hold.
Entry(nodes) == nodes \cup {Junk}

\* Nodes at levels an array up to top has cells for.
Levelled(nodes, level, top) ==
  /\ top \in Nat /\ IsFiniteSet(nodes) /\ Junk \notin nodes
  /\ \A n \in nodes : level[n] \in 0 .. top

------------------------------------------------------------------------------
\* What putting a node at the head of a list gives.
LEMMA Prepend ==
  ASSUME NEW E, NEW n \in E, NEW s \in Seq(E)
  PROVE  /\ <<n>> \o s \in Seq(E)
         /\ Len(<<n>> \o s) = Len(s) + 1
         /\ (<<n>> \o s)[1] = n
         /\ \A i \in 1 .. Len(s) : (<<n>> \o s)[i + 1] = s[i]
         /\ \A i \in 1 .. Len(s) + 1 : i = 1 \/ (i - 1 \in 1 .. Len(s) /\ (<<n>> \o s)[i] = s[i - 1])
<1>1. <<n>> \in Seq(E) /\ Len(<<n>>) = 1 /\ <<n>>[1] = n
  OBVIOUS
<1>2. Len(s) \in Nat
  OBVIOUS
<1>3. /\ <<n>> \o s \in Seq(E)
      /\ Len(<<n>> \o s) = 1 + Len(s)
      /\ \A i \in 1 .. 1 + Len(s) : (<<n>> \o s)[i] = IF i <= 1 THEN <<n>>[i] ELSE s[i - 1]
  BY <1>1, ConcatProperties, Zenon
<1> QED  BY <1>1, <1>2, <1>3

\* What taking the head of a list leaves.
LEMMA Rest ==
  ASSUME NEW E, NEW s \in Seq(E), s # <<>>
  PROVE  /\ Head(s) = s[1] /\ 1 \in 1 .. Len(s)
         /\ Tail(s) \in Seq(E)
         /\ Len(Tail(s)) = Len(s) - 1
         /\ \A i \in 1 .. Len(s) - 1 : Tail(s)[i] = s[i + 1] /\ i + 1 \in 1 .. Len(s)
<1>1. Len(s) \in Nat /\ Len(s) # 0
  BY EmptySeq
<1>2. Head(s) = s[1]
  OBVIOUS
<1> QED  BY <1>1, <1>2, HeadTailProperties

\* The nodes are finitely many and have levels inside the array.
LEMMA Levels ==
  ASSUME NEW nodes, NEW level, NEW top, Levelled(nodes, level, top)
  PROVE  /\ 0 .. top \subseteq Nat /\ IsFiniteSet(0 .. top) /\ top \in Nat
         /\ \A n \in nodes : level[n] \in 0 .. top /\ n # Junk
         /\ \A S : S \subseteq nodes => IsFiniteSet(S)
<1>1. top \in Nat
  BY DEF Levelled
<1>2. IsFiniteSet(0 .. top)
  BY <1>1, FS_Interval
<1> QED  BY <1>1, <1>2, FS_Subset DEF Levelled

\* mNum tells whether anything is queued.
LEMMA EmptyQueue ==
  ASSUME NEW nodes, NEW level, NEW top, Levelled(nodes, level, top),
         NEW r, IsQueue(r, nodes, level, top)
  PROVE  r.mNum \in Nat /\ (r.mNum = 0 <=> r.inQueue = {})
<1>1. IsFiniteSet(r.inQueue) /\ Cardinality(r.inQueue) = r.mNum /\ r.mNum \in Nat
  BY Levels DEF IsQueue, Shaped, Counted
<1> QED  BY <1>1, FS_EmptySet

\* The search of a queue with nodes: it ends at the lowest list that holds
\* anything, and what it finds there is a queued node of that level.
LEMMA SearchEnds ==
  ASSUME NEW nodes, NEW level, NEW top, Levelled(nodes, level, top),
         NEW r, IsQueue(r, nodes, level, top), r.mNum > 0
  PROVE  /\ Filled(r) # {} /\ Filled(r) \subseteq 0 .. top
         /\ Lowest(r) \in Filled(r) /\ \A k \in Filled(r) : Lowest(r) <= k
         /\ First(r) = r.mArray[Lowest(r)][1]
         /\ First(r) \in r.inQueue /\ level[First(r)] = Lowest(r)
         /\ \A n \in r.inQueue : Lowest(r) <= level[n]
<1>1. /\ r.mArray \in [0 .. top -> Seq(Entry(nodes))] /\ r.inQueue \subseteq nodes
      /\ DOMAIN r.mArray = 0 .. top
  BY DEF IsQueue, Shaped, Entry
<1>2. r.inQueue # {}
  BY <1>1, Levels, FS_EmptySet DEF IsQueue, Counted
<1>3. ASSUME NEW n \in r.inQueue PROVE level[n] \in Filled(r)
  <2>1. n \in nodes /\ level[n] \in 0 .. top /\ r.mCurLevel <= level[n]
    BY <1>1, Levels DEF IsQueue, Ahead
  <2>2. PICK i \in 1 .. Len(r.mArray[level[n]]) : r.mArray[level[n]][i] = n
    BY DEF IsQueue, Flagged
  <2>3. r.mArray[level[n]] # <<>>
    BY <2>2
  <2> QED  BY <1>1, <2>1, <2>3 DEF Filled
<1>4. Filled(r) # {} /\ Filled(r) \subseteq 0 .. top
  BY <1>1, <1>2, <1>3 DEF Filled
<1>5. Lowest(r) \in Filled(r) /\ \A k \in Filled(r) : Lowest(r) <= k
  <2>1. \E l \in Filled(r) : \A k \in Filled(r) : l <= k
    <3>1. IsFiniteSet(Filled(r)) /\ Filled(r) \subseteq Nat
      BY <1>4, Levels, FS_Subset
    <3>2. ASSUME NEW T, T \subseteq Nat, T # {}, IsFiniteSet(T)
          PROVE  \E l \in T : \A k \in T : l <= k
      BY <3>2, LeastNumber
    <3> QED  BY <1>4, <3>1, <3>2
  <2> QED  BY <2>1, Zenon DEF Lowest
<1>6. /\ r.mArray[Lowest(r)] \in Seq(Entry(nodes)) /\ r.mArray[Lowest(r)] # <<>>
      /\ Lowest(r) \in 0 .. top
  BY <1>1, <1>4, <1>5 DEF Filled
<1>7. /\ First(r) = r.mArray[Lowest(r)][1]
      /\ 1 \in 1 .. Len(r.mArray[Lowest(r)])
  <2>1. /\ Head(r.mArray[Lowest(r)]) = r.mArray[Lowest(r)][1]
        /\ 1 \in 1 .. Len(r.mArray[Lowest(r)])
    BY <1>6, Rest
  <2> QED  BY <2>1 DEF First
<1>8. First(r) \in r.inQueue /\ level[First(r)] = Lowest(r)
  <2>1. \/ First(r) \in r.inQueue /\ level[First(r)] = Lowest(r)
        \/ First(r) = Junk /\ Lowest(r) = top /\ 1 = Len(r.mArray[Lowest(r)])
    <3>1. \A l \in 0 .. top : \A i \in 1 .. Len(r.mArray[l]) :
            \/ r.mArray[l][i] \in r.inQueue /\ level[r.mArray[l][i]] = l
            \/ r.mArray[l][i] = Junk /\ l = top /\ i = Len(r.mArray[l])
      BY DEF IsQueue, Listed
    <3> HIDE DEF IsQueue
    <3>2. LET f == r.mArray[Lowest(r)][1]
          IN  \/ f \in r.inQueue /\ level[f] = Lowest(r)
              \/ f = Junk /\ Lowest(r) = top /\ 1 = Len(r.mArray[Lowest(r)])
      BY <1>6, <1>7, <3>1
    <3> QED  BY <1>7, <3>2
  <2>2. ASSUME First(r) = Junk, Lowest(r) = top, 1 = Len(r.mArray[Lowest(r)])
        PROVE  FALSE
    <3>1. PICK n \in r.inQueue : n \in nodes /\ n # Junk /\ level[n] \in 0 .. top
      BY <1>1, <1>2, Levels
    <3>2. level[n] = Lowest(r)
      <4>1. Lowest(r) <= level[n] /\ level[n] \in 0 .. top
        BY <1>3, <1>5, <3>1
      <4>2. top \in Nat
        BY Levels
      <4> QED  BY <2>2, <4>1, <4>2
    <3>3. PICK i \in 1 .. Len(r.mArray[level[n]]) : r.mArray[level[n]][i] = n
      BY DEF IsQueue, Flagged
    <3>4. i = 1
      BY <2>2, <3>2, <3>3
    <3> QED  BY <1>7, <2>2, <3>1, <3>2, <3>3, <3>4
  <2> QED  BY <2>1, <2>2
<1> QED  BY <1>3, <1>4, <1>5, <1>7, <1>8

------------------------------------------------------------------------------
\* The queue init() returns.
LEMMA CreatedIsQueue ==
  ASSUME NEW nodes, NEW level, NEW max_level, Levelled(nodes, level, Top(max_level)),
         NEW r \in Created(max_level)
  PROVE  IsQueue(r, nodes, level, Top(max_level)) /\ r.mNum = 0 /\ r.inQueue = {}
<1>0. PICK top \in Nat : top = Top(max_level) /\ Levelled(nodes, level, top)
  BY DEF Levelled
<1>1. PICK tail \in {<<>>, <<Junk>>} :
        r = [mArray |-> [l \in 0 .. top |-> IF l = top THEN tail ELSE <<>>],
             mCurLevel |-> 0, mNum |-> 0, inQueue |-> {}]
  BY <1>0 DEF Created
<1>2. /\ tail \in Seq(Entry(nodes)) /\ Len(tail) \in {0, 1}
      /\ \A i \in 1 .. Len(tail) : tail[i] = Junk /\ i = 1 /\ Len(tail) = 1
  <2>1. CASE tail = <<>>
    BY <2>1
  <2>2. CASE tail = <<Junk>>
    <3>1. /\ <<Junk>> \in Seq(Entry(nodes)) /\ Len(<<Junk>>) = 1 /\ <<Junk>>[1] = Junk
      BY DEF Entry
    <3> QED  BY <2>2, <3>1
  <2> QED  BY <2>1, <2>2
<1>3. Shaped(r, nodes, top)
  <2>1. 0 \in 0 .. top
    BY <1>0
  <2>2. r.mArray \in [0 .. top -> Seq(Entry(nodes))]
    BY <1>1, <1>2
  <2> QED  BY <1>1, <2>1, <2>2 DEF Shaped, Entry
<1>4. ASSUME NEW l \in 0 .. top, NEW i \in 1 .. Len(r.mArray[l])
      PROVE  r.mArray[l][i] = Junk /\ l = top /\ i = 1 /\ Len(r.mArray[l]) = 1
  <2>1. r.mArray[l] = IF l = top THEN tail ELSE <<>>
    BY <1>1
  <2>2. CASE l = top
    BY <1>2, <2>1, <2>2
  <2>3. CASE l # top
    BY <2>1, <2>3
  <2> QED  BY <2>2, <2>3
<1>5. Listed(r, level, top) /\ NoRepeats(r, top)
  BY <1>4 DEF Listed, NoRepeats
<1>6. Flagged(r, level) /\ Counted(r) /\ Ahead(r, level)
  BY <1>1, FS_EmptySet DEF Flagged, Counted, Ahead
<1> QED  BY <1>0, <1>1, <1>3, <1>5, <1>6 DEF IsQueue

\* put() keeps flags, lists, mNum and mCurLevel in agreement.
LEMMA PutPreserves ==
  ASSUME NEW nodes, NEW level, NEW top, Levelled(nodes, level, top),
         NEW r, IsQueue(r, nodes, level, top), NEW n \in nodes
  PROVE  IsQueue(Put(r, n, level[n]), nodes, level, top)
<1> DEFINE L == level[n]
           old == r.mArray[L]
           new == <<n>> \o old
<1>0. PICK s : s = Put(r, n, level[n])
  OBVIOUS
<1>1. /\ r.mArray \in [0 .. top -> Seq(Entry(nodes))] /\ r.inQueue \subseteq nodes
      /\ r.mNum \in Nat /\ r.mCurLevel \in 0 .. top
  BY DEF IsQueue, Shaped, Entry
<1>2. L \in 0 .. top /\ n # Junk /\ n \in Entry(nodes) /\ old \in Seq(Entry(nodes))
  BY <1>1, Levels DEF Entry
<1>3. CASE n \in r.inQueue
  <2>1. s = r
    BY <1>0, <1>3 DEF Put
  <2> QED  BY <1>0, <2>1
<1>4. CASE n \notin r.inQueue
  <2>1. /\ s.mArray = [r.mArray EXCEPT ![L] = new]
        /\ s.mCurLevel = IF r.mNum = 0 \/ r.mCurLevel > L THEN L ELSE r.mCurLevel
        /\ s.mNum = r.mNum + 1
        /\ s.inQueue = r.inQueue \cup {n}
        /\ s = [mArray |-> s.mArray, mCurLevel |-> s.mCurLevel,
                 mNum |-> s.mNum, inQueue |-> s.inQueue]
    BY <1>0, <1>4 DEF Put
  <2>2. /\ new \in Seq(Entry(nodes)) /\ Len(new) = Len(old) + 1 /\ new[1] = n
        /\ \A i \in 1 .. Len(old) : new[i + 1] = old[i]
        /\ \A i \in 1 .. Len(old) + 1 : i = 1 \/ (i - 1 \in 1 .. Len(old) /\ new[i] = old[i - 1])
        /\ Len(old) \in Nat
    BY <1>2, Prepend
  <2> HIDE DEF new, old
  <2>3. /\ s.mArray[L] = new /\ r.mArray[L] = old
        /\ \A l \in 0 .. top : l # L => s.mArray[l] = r.mArray[l]
        /\ s.mArray \in [0 .. top -> Seq(Entry(nodes))]
    BY <1>1, <1>2, <2>1, <2>2 DEF old
  <2> HIDE DEF L
  <2>4. Shaped(s, nodes, top)
    <3>1. /\ s.mNum \in Nat /\ s.inQueue \in SUBSET nodes /\ s.mCurLevel \in 0 .. top
      BY <1>1, <1>2, <2>1
    <3>2. s.mArray \in [0 .. top -> Seq(nodes \cup {Junk})]
      BY <2>3 DEF Entry
    <3> QED  BY <2>1, <3>1, <3>2 DEF Shaped
  <2>5. Listed(s, level, top)
    <3> SUFFICES ASSUME NEW l \in 0 .. top, NEW i \in 1 .. Len(s.mArray[l])
                 PROVE \/ s.mArray[l][i] \in s.inQueue /\ level[s.mArray[l][i]] = l
                       \/ s.mArray[l][i] = Junk /\ l = top /\ i = Len(s.mArray[l])
      BY DEF Listed
    <3>1. CASE l # L
      BY <2>1, <2>3, <3>1 DEF IsQueue, Listed
    <3>2. CASE l = L /\ i = 1
      BY <2>1, <2>2, <2>3, <3>2 DEF L
    <3>3. CASE l = L /\ i # 1
      <4>1. /\ i - 1 \in 1 .. Len(old) /\ s.mArray[l][i] = old[i - 1]
            /\ Len(s.mArray[l]) = Len(old) + 1
        BY <2>2, <2>3, <3>3
      <4>2. \/ old[i - 1] \in r.inQueue /\ level[old[i - 1]] = L
            \/ old[i - 1] = Junk /\ L = top /\ i - 1 = Len(old)
        BY <1>2, <2>3, <4>1 DEF IsQueue, Listed
      <4> QED  BY <2>1, <2>2, <3>3, <4>1, <4>2
    <3> QED  BY <3>1, <3>2, <3>3
  <2>6. Flagged(s, level)
    <3> SUFFICES ASSUME NEW m \in s.inQueue
                 PROVE  \E i \in 1 .. Len(s.mArray[level[m]]) : s.mArray[level[m]][i] = m
      BY DEF Flagged
    <3>1. CASE m = n
      BY <2>2, <2>3, <3>1 DEF L
    <3>2. CASE m # n
      <4>1. m \in r.inQueue /\ m \in nodes /\ level[m] \in 0 .. top
        BY <1>1, <2>1, <3>2, Levels
      <4>2. PICK i \in 1 .. Len(r.mArray[level[m]]) : r.mArray[level[m]][i] = m
        BY <4>1 DEF IsQueue, Flagged
      <4>3. CASE level[m] = L
        <5>1. i \in 1 .. Len(old) /\ old[i] = m
          BY <2>3, <4>2, <4>3
        <5>2. i + 1 \in 1 .. Len(new) /\ new[i + 1] = m
          BY <2>2, <5>1
        <5> QED  BY <2>3, <4>3, <5>2
      <4>4. CASE level[m] # L
        BY <2>3, <4>1, <4>2, <4>4
      <4> QED  BY <4>3, <4>4
    <3> QED  BY <3>1, <3>2
  <2>7. NoRepeats(s, top)
    <3> SUFFICES ASSUME NEW l \in 0 .. top, NEW i \in 1 .. Len(s.mArray[l]),
                        NEW j \in 1 .. Len(s.mArray[l]), s.mArray[l][i] = s.mArray[l][j]
                 PROVE  i = j
      BY DEF NoRepeats
    <3>1. CASE l # L
      BY <2>3, <3>1 DEF IsQueue, NoRepeats
    <3>2. CASE l = L
      <4>1. \A k \in 1 .. Len(old) : old[k] # n
        BY <1>2, <1>4, <2>3 DEF IsQueue, Listed
      <4>2. \A k, h \in 1 .. Len(old) : old[k] = old[h] => k = h
        BY <1>2, <2>3 DEF IsQueue, NoRepeats
      <4>3. /\ i \in 1 .. Len(old) + 1 /\ j \in 1 .. Len(old) + 1
            /\ new[i] = new[j]
        BY <2>2, <2>3, <3>2
      <4>4. ASSUME NEW k \in 1 .. Len(old) + 1, k # 1
            PROVE  k - 1 \in 1 .. Len(old) /\ new[k] = old[k - 1] /\ new[k] # n
        BY <2>2, <4>1, <4>4
      <4>5. CASE i = 1 \/ j = 1
        BY <2>2, <4>3, <4>4, <4>5
      <4>6. CASE i # 1 /\ j # 1
        <5>1. /\ i - 1 \in 1 .. Len(old) /\ j - 1 \in 1 .. Len(old)
              /\ old[i - 1] = old[j - 1]
          BY <4>3, <4>4, <4>6
        <5>2. i - 1 = j - 1
          BY <4>2, <5>1
        <5> QED  BY <4>3, <5>2
      <4> QED  BY <4>5, <4>6
    <3> QED  BY <3>1, <3>2
  <2>8. Counted(s)
    <3>1. IsFiniteSet(r.inQueue)
      BY <1>1, Levels
    <3> QED  BY <1>4, <2>1, <3>1, FS_AddElement DEF IsQueue, Counted
  <2>9. Ahead(s, level)
    <3>1. r.mNum = 0 => r.inQueue = {}
      BY <1>1, Levels, FS_EmptySet DEF IsQueue, Counted
    <3> SUFFICES ASSUME NEW m \in s.inQueue PROVE s.mCurLevel <= level[m]
      BY DEF Ahead
    <3>2. /\ m = n \/ (m \in r.inQueue /\ r.mCurLevel <= level[m])
          /\ m \in nodes /\ level[m] \in Nat /\ L \in Nat /\ r.mCurLevel \in Nat
      BY <1>1, <1>2, <2>1, Levels DEF IsQueue, Ahead
    <3> QED  BY <2>1, <3>1, <3>2 DEF L
  <2> QED  BY <1>0, <2>4, <2>5, <2>6, <2>7, <2>8, <2>9 DEF IsQueue
<1> QED  BY <1>3, <1>4

\* get() of a queue with nodes keeps it.
LEMMA PopPreserves ==
  ASSUME NEW nodes, NEW level, NEW top, Levelled(nodes, level, top),
         NEW r, IsQueue(r, nodes, level, top), r.mNum > 0
  PROVE  IsQueue(Pop(r), nodes, level, top)
<1> DEFINE L == Lowest(r)
           n == First(r)
           old == r.mArray[L]
           new == Tail(old)
<1>1. /\ r.mArray \in [0 .. top -> Seq(Entry(nodes))] /\ r.inQueue \subseteq nodes
      /\ r.mNum \in Nat /\ r.mNum > 0
  BY DEF IsQueue, Shaped, Entry
<1>2. /\ L \in 0 .. top /\ old # <<>> /\ old \in Seq(Entry(nodes)) /\ n = old[1]
      /\ n \in r.inQueue /\ level[n] = L /\ \A m \in r.inQueue : L <= level[m]
  <2>1. L \in Filled(r) /\ L \in 0 .. top
    BY <1>1, SearchEnds
  <2> QED  BY <1>1, <2>1, SearchEnds DEF Filled
<1>0. PICK s : s = Pop(r)
  OBVIOUS
<1>3. /\ s.mArray = [r.mArray EXCEPT ![L] = new]
      /\ s.mCurLevel = L
      /\ s.mNum = r.mNum - 1
      /\ s.inQueue = r.inQueue \ {n}
      /\ s = [mArray |-> s.mArray, mCurLevel |-> s.mCurLevel,
               mNum |-> s.mNum, inQueue |-> s.inQueue]
  BY <1>0 DEF Pop
<1>4. /\ new \in Seq(Entry(nodes)) /\ Len(new) = Len(old) - 1 /\ Len(old) \in Nat \ {0}
      /\ \A i \in 1 .. Len(old) - 1 : new[i] = old[i + 1] /\ i + 1 \in 1 .. Len(old)
  <2> HIDE DEF old
  <2>1. Len(old) \in Nat \ {0}
    BY <1>2, EmptySeq
  <2> QED  BY <1>2, <2>1, Rest
<1> HIDE DEF new, n
<1>5. /\ s.mArray[L] = new
      /\ \A l \in 0 .. top : l # L => s.mArray[l] = r.mArray[l]
      /\ s.mArray \in [0 .. top -> Seq(Entry(nodes))]
  BY <1>1, <1>2, <1>3, <1>4
<1> HIDE DEF L
<1>6. Shaped(s, nodes, top)
  <2>1. /\ r.mNum - 1 \in Nat /\ s.inQueue \in SUBSET nodes
        /\ s.mCurLevel \in 0 .. top
    BY <1>1, <1>2, <1>3
  <2>2. s.mArray \in [0 .. top -> Seq(nodes \cup {Junk})]
    BY <1>5 DEF Entry
  <2> HIDE DEF n
  <2> QED  BY <1>3, <2>1, <2>2 DEF Shaped
<1>7. \A k, h \in 1 .. Len(old) : old[k] = old[h] => k = h
  BY <1>2 DEF IsQueue, NoRepeats
<1>8. Listed(s, level, top)
  <2> SUFFICES ASSUME NEW l \in 0 .. top, NEW i \in 1 .. Len(s.mArray[l])
               PROVE \/ s.mArray[l][i] \in s.inQueue /\ level[s.mArray[l][i]] = l
                     \/ s.mArray[l][i] = Junk /\ l = top /\ i = Len(s.mArray[l])
    BY DEF Listed
  <2>1. CASE l # L
    <3>1. s.mArray[l] = r.mArray[l]
      BY <1>5, <2>1
    <3>2. \/ r.mArray[l][i] \in r.inQueue /\ level[r.mArray[l][i]] = l
          \/ r.mArray[l][i] = Junk /\ l = top /\ i = Len(r.mArray[l])
      BY <3>1 DEF IsQueue, Listed
    <3> QED  BY <1>2, <1>3, <2>1, <3>1, <3>2
  <2>2. CASE l = L
    <3>1. i \in 1 .. Len(old) - 1 /\ s.mArray[l][i] = old[i + 1] /\ i + 1 \in 1 .. Len(old)
      BY <1>4, <1>5, <2>2
    <3>2. \/ old[i + 1] \in r.inQueue /\ level[old[i + 1]] = L
          \/ old[i + 1] = Junk /\ L = top /\ i + 1 = Len(old)
      BY <1>2, <3>1 DEF IsQueue, Listed
    <3>3. old[i + 1] # n
      <4>1. 1 \in 1 .. Len(old) /\ i + 1 # 1
        BY <1>4, <3>1
      <4> QED  BY <1>2, <1>7, <3>1, <4>1
    <3> HIDE DEF old
    <3> QED  BY <1>3, <1>4, <1>5, <2>2, <3>1, <3>2, <3>3
  <2> QED  BY <2>1, <2>2
<1>9. Flagged(s, level)
  <2> SUFFICES ASSUME NEW m \in s.inQueue
               PROVE  \E i \in 1 .. Len(s.mArray[level[m]]) : s.mArray[level[m]][i] = m
    BY DEF Flagged
  <2>1. m \in r.inQueue /\ m # n /\ m \in nodes /\ level[m] \in 0 .. top
    BY <1>1, <1>3, Levels
  <2>2. PICK i \in 1 .. Len(r.mArray[level[m]]) : r.mArray[level[m]][i] = m
    BY <2>1 DEF IsQueue, Flagged
  <2>3. CASE level[m] = L
    <3>1. i \in 1 .. Len(old) /\ old[i] = m
      BY <2>2, <2>3
    <3>2. i # 1
      BY <1>2, <2>1, <3>1
    <3>3. i - 1 \in 1 .. Len(new) /\ new[i - 1] = m
      <4>1. i - 1 \in 1 .. Len(old) - 1 /\ (i - 1) + 1 = i
        BY <1>4, <3>1, <3>2
      <4>2. new[i - 1] = old[(i - 1) + 1]
        BY <1>4, <4>1
      <4> QED  BY <1>4, <3>1, <4>1, <4>2
    <3> QED  BY <1>5, <2>3, <3>3
  <2>4. CASE level[m] # L
    BY <1>5, <2>1, <2>2, <2>4
  <2> QED  BY <2>3, <2>4
<1>10. NoRepeats(s, top)
  <2> SUFFICES ASSUME NEW l \in 0 .. top, NEW i \in 1 .. Len(s.mArray[l]),
                      NEW j \in 1 .. Len(s.mArray[l]), s.mArray[l][i] = s.mArray[l][j]
               PROVE  i = j
    BY DEF NoRepeats
  <2>1. CASE l # L
    BY <1>5, <2>1 DEF IsQueue, NoRepeats
  <2>2. CASE l = L
    <3>1. i \in 1 .. Len(old) - 1 /\ j \in 1 .. Len(old) - 1 /\ new[i] = new[j]
      BY <1>4, <1>5, <2>2
    <3>2. /\ i + 1 \in 1 .. Len(old) /\ j + 1 \in 1 .. Len(old)
          /\ old[i + 1] = old[j + 1]
      BY <1>4, <3>1
    <3>3. i + 1 = j + 1
      BY <1>7, <3>2
    <3> QED  BY <3>1, <3>3
  <2> QED  BY <2>1, <2>2
<1>11. Counted(s)
  <2>1. IsFiniteSet(r.inQueue)
    BY <1>1, Levels
  <2>2. ASSUME NEW x \in r.inQueue
        PROVE  Cardinality(r.inQueue \ {x}) = Cardinality(r.inQueue) - 1
    BY <2>1, FS_RemoveElement
  <2>3. Cardinality(r.inQueue \ {n}) = Cardinality(r.inQueue) - 1
    BY <1>2, <2>2
  <2> QED  BY <1>3, <2>3 DEF IsQueue, Counted
<1>12. Ahead(s, level)
  BY <1>2, <1>3 DEF Ahead
<1> QED  BY <1>0, <1>6, <1>8, <1>9, <1>10, <1>11, <1>12 DEF IsQueue

------------------------------------------------------------------------------
\* The assumption on the constants is the one the lemmas need.
LEMMA NodesLevelled == Levelled(Node, LevelOf, Top(MaxLevel))
  BY QueueAssumption, DefaultAssumption DEF Levelled, Top

\* In every reachable state put() and get() find flags, lists, mNum and
\* mCurLevel in agreement.
THEOREM QueueInvariance == QSpec => []QInv
<1>1. QInit => QInv
  BY NodesLevelled, CreatedIsQueue DEF QInit, QInv
<1>2. QInv /\ [QNext]_qVars => QInv'
  <2> SUFFICES ASSUME QInv, [QNext]_qVars PROVE QInv'
    OBVIOUS
  <2>1. IsQueue(q, Node, LevelOf, Top(MaxLevel))
    BY DEF QInv
  <2>2. ASSUME NEW n \in Node, PutNode(n) PROVE QInv'
    <3>1. IsQueue(Put(q, n, LevelOf[n]), Node, LevelOf, Top(MaxLevel))
      BY <2>1, NodesLevelled, PutPreserves
    <3> QED  BY <2>2, <3>1 DEF PutNode, QInv
  <2>3. CASE GetNode
    <3>1. q.mNum > 0 /\ q' = Pop(q) /\ got' = First(q)
      BY <2>3 DEF GetNode
    <3>2. IsQueue(Pop(q), Node, LevelOf, Top(MaxLevel))
      BY <2>1, <3>1, NodesLevelled, PopPreserves
    <3>3. First(q) \in q.inQueue /\ q.inQueue \subseteq Node
      BY <2>1, <3>1, NodesLevelled, SearchEnds DEF IsQueue, Shaped
    <3> QED  BY <3>1, <3>2, <3>3 DEF QInv
  <2>4. CASE UNCHANGED q /\ got' \in Node \cup {NULL}
    BY <2>1, <2>4 DEF QInv
  <2>5. UNCHANGED qVars => UNCHANGED q /\ got' \in Node \cup {NULL}
    BY DEF QInv, qVars
  <2>6. GetNull => UNCHANGED q /\ got' \in Node \cup {NULL}
    BY DEF GetNull
  <2> QED  BY <2>2, <2>3, <2>4, <2>5, <2>6 DEF QNext
<1> QED  BY <1>1, <1>2, PTL DEF QSpec

\* get() of a queue with nodes ends its search inside the array, at a queued
\* node, whatever the cell that init() leaves unwritten holds.
THEOREM SearchInBounds == QSpec => []NoOverflow
<1>1. QInv => NoOverflow
  BY NodesLevelled, SearchEnds DEF QInv, NoOverflow
<1> QED  BY <1>1, QueueInvariance, PTL

\* EventQ implements PrioQ: get() takes a node of the lowest level out of the
\* set of nodes that were put and not yet taken, and returns NULL only when
\* there is none.
THEOREM QueueRefinement == QSpec => LowestFirst
<1>1. QInit => PQ!Init
  BY DEF QInit, Created, PQ!Init
<1>2. ASSUME QInv, [QNext]_qVars PROVE [PQ!Next]_<<q.inQueue, got>>
  <2>0. IsQueue(q, Node, LevelOf, Top(MaxLevel))
    BY <1>2 DEF QInv
  <2>1. ASSUME NEW n \in Node, PutNode(n) PROVE PQ!Put(n)
    BY <2>1 DEF PutNode, Put, PQ!Put
  <2>2. CASE GetNode
    <3>1. /\ First(q) \in q.inQueue /\ LevelOf[First(q)] = Lowest(q)
          /\ \A m \in q.inQueue : Lowest(q) <= LevelOf[m]
      BY <2>0, <2>2, NodesLevelled, SearchEnds DEF GetNode
    <3>2. q'.inQueue = q.inQueue \ {First(q)} /\ got' = First(q)
      BY <2>2 DEF GetNode, Pop
    <3> QED  BY <3>1, <3>2 DEF PQ!Next, PQ!Get
  <2>3. CASE GetNull
    <3>1. q.inQueue = {}
      BY <2>0, <2>3, NodesLevelled, EmptyQueue DEF GetNull
    <3> QED  BY <2>3, <3>1 DEF GetNull, PQ!Next, PQ!GetNull
  <2>4. CASE UNCHANGED qVars
    BY <2>4 DEF qVars
  <2> QED  BY <1>2, <2>1, <2>2, <2>3, <2>4 DEF QNext, PQ!Next
<1>3. QSpec => PQ!Spec
  BY <1>1, <1>2, QueueInvariance, PTL DEF QSpec, PQ!Spec
<1> QED  BY <1>3 DEF LowestFirst
------------------------------------------------------------------------------
(***************************************************************************)
(* What set_network derives from a network                                 *)
(***************************************************************************)
\* A function from 1 .. k is a sequence of length k.
LEMMA AsSeq ==
  ASSUME NEW S, NEW k \in Nat, NEW f \in [1 .. k -> S]
  PROVE  f \in Seq(S) /\ Len(f) = k
  OBVIOUS

\* The numbers of a finite set, in order.
LEMMA SortedFacts ==
  ASSUME NEW S, S \subseteq Nat, IsFiniteSet(S)
  PROVE  /\ Sorted(S) \in Seq(S) /\ Len(Sorted(S)) = Cardinality(S)
         /\ \A n \in S : \E i \in 1 .. Len(Sorted(S)) : Sorted(S)[i] = n
         /\ \A i, j \in 1 .. Len(Sorted(S)) : i < j => Sorted(S)[i] < Sorted(S)[j]
<1> DEFINE Below(n) == {m \in S : m < n}
           pos == [n \in S |-> Cardinality(Below(n)) + 1]
           k == Cardinality(S)
<1>1. k \in Nat
  BY FS_CardinalityType
<1>2. ASSUME NEW n \in S PROVE IsFiniteSet(Below(n)) /\ Cardinality(Below(n)) \in 0 .. k - 1
  <2>1. Below(n) \subseteq S /\ n \notin Below(n)
    OBVIOUS
  <2> HIDE DEF Below
  <2>2. IsFiniteSet(Below(n)) /\ Cardinality(Below(n)) <= k /\ Cardinality(Below(n)) \in Nat
        /\ (Cardinality(Below(n)) = k => Below(n) = S)
    BY <2>1, FS_Subset, FS_CardinalityType
  <2> QED BY <1>1, <2>1, <2>2
<1>3. ASSUME NEW n \in S, NEW m \in S, m < n
      PROVE  Cardinality(Below(m)) < Cardinality(Below(n))
  <2>1. Below(m) \subseteq Below(n) /\ m \in Below(n) /\ m \notin Below(m)
    <3>1. m \in Nat /\ n \in Nat /\ \A j \in S : j \in Nat
      OBVIOUS
    <3>2. \A j \in S : j < m => j < n
      BY <1>3, <3>1
    <3>3. m \in S /\ ~(m < m)
      BY <3>1
    <3> QED BY <1>3, <3>2, <3>3
  <2>2. IsFiniteSet(Below(n)) /\ Cardinality(Below(m)) \in Nat /\ Cardinality(Below(n)) \in Nat
    BY <1>2
  <2> HIDE DEF Below
  <2> QED BY <2>1, <2>2, FS_Subset
<1>4. pos \in Injection(S, 1 .. k)
  <2>1. \A n \in S : Cardinality(Below(n)) + 1 \in 1 .. k
    BY <1>1, <1>2
  <2>2. pos \in [S -> 1 .. k]
    BY <2>1
  <2>3. ASSUME NEW n \in S, NEW m \in S, pos[n] = pos[m] PROVE n = m
    <3>1. Cardinality(Below(n)) = Cardinality(Below(m))
      <4>1. Cardinality(Below(n)) + 1 = Cardinality(Below(m)) + 1
        BY <2>3
      <4> QED BY <1>2, <4>1
    <3>2. n \in Nat /\ m \in Nat /\ (n < m \/ m < n \/ n = m)
      OBVIOUS
    <3>3. Cardinality(Below(n)) \in Nat /\ Cardinality(Below(m)) \in Nat
      BY <1>2
    <3> HIDE DEF Below
    <3> QED BY <1>3, <3>1, <3>2, <3>3
  <2> HIDE DEF pos
  <2> QED BY <2>2, <2>3 DEF Injection, IsInjective
<1>5. \A i \in 1 .. k : \E n \in S : pos[n] = i
  <2>1. pos \in Surjection(S, 1 .. k)
    <3>1. IsFiniteSet(1 .. k) /\ Cardinality(1 .. k) = k
      BY <1>1, FS_Interval
    <3> HIDE DEF pos
    <3> QED BY <1>4, <3>1, FS_Injection
  <2> HIDE DEF pos
  <2> QED BY <2>1 DEF Surjection
<1>6. /\ Sorted(S) = [i \in 1 .. k |-> Sorted(S)[i]]
      /\ \A i \in 1 .. k : Sorted(S)[i] \in S /\ Cardinality(Below(Sorted(S)[i])) = i - 1
  <2>1. Sorted(S) = [i \in 1 .. k |-> CHOOSE n \in S : Cardinality(Below(n)) = i - 1]
    BY DEF Sorted
  <2>2. ASSUME NEW i \in 1 .. k PROVE \E n \in S : Cardinality(Below(n)) = i - 1
    <3>1. PICK n \in S : Cardinality(Below(n)) + 1 = i
      BY <1>5
    <3>2. Cardinality(Below(n)) \in Nat
      BY <1>2
    <3> HIDE DEF Below
    <3> QED BY <3>1, <3>2
  <2>3. \A i \in 1 .. k : Sorted(S)[i] \in S /\ Cardinality(Below(Sorted(S)[i])) = i - 1
    <3> HIDE DEF Below, k
    <3> QED BY <2>1, <2>2
  <2> QED BY <2>1, <2>3
<1>7. Sorted(S) \in Seq(S) /\ Len(Sorted(S)) = k
  <2>1. Sorted(S) \in [1 .. k -> S]
    <3> HIDE DEF k
    <3> QED BY <1>6
  <2> HIDE DEF k
  <2> QED BY <1>1, <2>1, AsSeq
<1>8. ASSUME NEW n \in S PROVE pos[n] \in 1 .. k /\ Sorted(S)[pos[n]] = n
  <2>1. pos[n] \in 1 .. k /\ pos[n] - 1 = Cardinality(Below(n))
    BY <1>1, <1>2
  <2>2. PICK m \in S : m = Sorted(S)[pos[n]] /\ Cardinality(Below(m)) = pos[n] - 1
    <3> HIDE DEF k, pos, Below
    <3> QED BY <1>6, <2>1
  <2>3. m = n
    <3>1. m \in Nat /\ n \in Nat /\ Cardinality(Below(n)) \in Nat
      BY <1>2
    <3>2. ~(m < n) /\ ~(n < m)
      <4> HIDE DEF k, pos, Below
      <4> QED BY <1>3, <2>1, <2>2, <3>1
    <3> QED BY <3>1, <3>2
  <2> QED BY <2>1, <2>2, <2>3
<1> HIDE DEF pos
<1>9. ASSUME NEW i \in 1 .. k, NEW j \in 1 .. k, i < j
      PROVE  Sorted(S)[i] < Sorted(S)[j]
  <2>1. PICK n \in S : n = Sorted(S)[i] /\ Cardinality(Below(n)) = i - 1
    BY <1>6
  <2>2. PICK m \in S : m = Sorted(S)[j] /\ Cardinality(Below(m)) = j - 1
    BY <1>6
  <2>3. n \in Nat /\ m \in Nat /\ i \in Nat /\ j \in Nat
    BY <1>1
  <2> HIDE DEF Below, k
  <2>4. ~(m < n) /\ m # n
    BY <1>3, <1>9, <2>1, <2>2, <2>3
  <2> QED BY <2>1, <2>2, <2>3, <2>4
<1> QED BY <1>7, <1>8, <1>9
------------------------------------------------------------------------------
\* One of finitely many numbers is the greatest.
LEMMA Greatest ==
  ASSUME NEW k \in Nat \ {0}, NEW f, \A i \in 1 .. k : f[i] \in Nat
  PROVE  \E i \in 1 .. k : \A j \in 1 .. k : f[j] <= f[i]
<1> DEFINE D == 1 .. k
           rank == [j \in D |-> j]
           T == {j \in D : \E i \in 1 .. j : \A h \in 1 .. j : f[h] <= f[i]}
<1>1. ASSUME NEW n \in D, \A m \in D : rank[m] < rank[n] => m \in T
      PROVE  n \in T
  <2>1. CASE n = 1
    BY <2>1
  <2>2. CASE n # 1
    <3>1. n - 1 \in D /\ n - 1 \in Nat /\ n \in Nat /\ rank[n - 1] < rank[n]
      BY <2>2
    <3>2. PICK i \in 1 .. n - 1 : \A h \in 1 .. n - 1 : f[h] <= f[i]
      BY <1>1, <3>1
    <3>3. f[i] \in Nat /\ f[n] \in Nat /\ i \in 1 .. n /\ n \in 1 .. n
      BY <3>1
    <3>4. \A h \in 1 .. n : h = n \/ h \in 1 .. n - 1
      BY <3>1
    <3>5. \A h \in 1 .. n : f[h] \in Nat
      BY <3>1
    <3>6. CASE f[i] <= f[n]
      BY <3>2, <3>3, <3>4, <3>5, <3>6
    <3>7. CASE ~(f[i] <= f[n])
      BY <3>2, <3>3, <3>4, <3>5, <3>7
    <3> QED BY <3>6, <3>7
  <2> QED BY <2>1, <2>2
<1>2. \A n \in D : rank[n] \in Nat
  OBVIOUS
<1>3. D \subseteq T
  <2> HIDE DEF T, rank, D
  <2> QED BY <1>1, <1>2, RankInduction
<1>4. k \in D
  OBVIOUS
<1> QED BY <1>3, <1>4

\* What IsNet says, node by node.
LEMMA NetFacts ==
  ASSUME NEW nt, IsNet(nt)
  PROVE  /\ Len(nt.type) \in Nat /\ DOMAIN nt.type = 1 .. Len(nt.type)
         /\ DOMAIN nt.type \subseteq Nat \ {0} /\ IsFiniteSet(DOMAIN nt.type)
         /\ \A n \in DOMAIN nt.type :
              /\ nt.fanin[n] \in Seq(1 .. n - 1)
              /\ Len(nt.fanin[n]) \in Nat /\ DOMAIN nt.fanin[n] = 1 .. Len(nt.fanin[n])
              /\ \A i \in DOMAIN nt.fanin[n] : /\ nt.fanin[n][i] \in DOMAIN nt.type
                                               /\ nt.fanin[n][i] < n
              /\ nt.type[n] # "input" => /\ nt.type[n] \in Gates
                                         /\ 1 \in DOMAIN nt.fanin[n]
                                         /\ DOMAIN nt.fanin[n] \subseteq 1 .. MaxFanin
              /\ nt.type[n] = "input" => DOMAIN nt.fanin[n] = {}
              /\ nt.type[n] \in {"buf", "not"} => DOMAIN nt.fanin[n] = {1}
<1>1. Len(nt.type) \in Nat /\ DOMAIN nt.type = 1 .. Len(nt.type)
  BY LenProperties DEF IsNet
<1>2. IsFiniteSet(DOMAIN nt.type)
  BY <1>1, FS_Interval
<1>3. ASSUME NEW n \in DOMAIN nt.type
      PROVE  /\ nt.fanin[n] \in Seq(1 .. n - 1)
             /\ Len(nt.fanin[n]) \in Nat /\ DOMAIN nt.fanin[n] = 1 .. Len(nt.fanin[n])
             /\ \A i \in DOMAIN nt.fanin[n] : nt.fanin[n][i] \in 1 .. n - 1
             /\ nt.type[n] # "input" => nt.type[n] \in Gates /\ Len(nt.fanin[n]) \in 1 .. MaxFanin
             /\ nt.type[n] = "input" => nt.fanin[n] = <<>>
             /\ nt.type[n] \in {"buf", "not"} => Len(nt.fanin[n]) = 1
  <2>1. nt.fanin[n] \in Seq(1 .. n - 1)
    BY <1>3 DEF IsNet
  <2>2. nt.type[n] # "input" => nt.type[n] \in Gates
    <3>1. nt.type \in Seq(Gates \cup {"input"}) /\ n \in 1 .. Len(nt.type)
      BY <1>1 DEF IsNet
    <3>2. nt.type[n] \in Gates \cup {"input"}
      BY <3>1, ElementOfSeq
    <3> QED BY <3>2
  <2>3. /\ nt.type[n] # "input" => Len(nt.fanin[n]) \in 1 .. MaxFanin
        /\ nt.type[n] = "input" => nt.fanin[n] = <<>>
        /\ nt.type[n] \in {"buf", "not"} => Len(nt.fanin[n]) = 1
    <3>1. IF nt.type[n] = "input" THEN nt.fanin[n] = <<>>
          ELSE Len(nt.fanin[n]) \in 1 .. (IF nt.type[n] \in {"buf", "not"} THEN 1 ELSE MaxFanin)
      BY DEF IsNet
    <3>2. CASE nt.type[n] \in {"buf", "not"}
      <4>1. nt.type[n] # "input"
        BY <3>2
      <4>2. Len(nt.fanin[n]) \in 1 .. 1
        BY <3>1, <3>2, <4>1
      <4> QED BY <4>1, <4>2 DEF MaxFanin
    <3>3. CASE nt.type[n] \notin {"buf", "not"}
      BY <3>1, <3>3
    <3> QED BY <3>2, <3>3
  <2>4. /\ Len(nt.fanin[n]) \in Nat /\ DOMAIN nt.fanin[n] = 1 .. Len(nt.fanin[n])
        /\ \A i \in DOMAIN nt.fanin[n] : nt.fanin[n][i] \in 1 .. n - 1
    BY <2>1, LenProperties, ElementOfSeq
  <2> QED BY <2>1, <2>2, <2>3, <2>4
<1>4. ASSUME NEW n \in DOMAIN nt.type
      PROVE  /\ \A i \in DOMAIN nt.fanin[n] : /\ nt.fanin[n][i] \in DOMAIN nt.type
                                              /\ nt.fanin[n][i] < n
             /\ nt.type[n] # "input" => /\ 1 \in DOMAIN nt.fanin[n]
                                        /\ DOMAIN nt.fanin[n] \subseteq 1 .. MaxFanin
             /\ nt.type[n] = "input" => DOMAIN nt.fanin[n] = {}
             /\ nt.type[n] \in {"buf", "not"} => DOMAIN nt.fanin[n] = {1}
  <2>1. n \in 1 .. Len(nt.type)
    BY <1>1
  <2>2. \A i \in 1 .. n - 1 : i \in 1 .. Len(nt.type) /\ i < n
    BY <1>1, <2>1
  <2>3. \A i \in DOMAIN nt.fanin[n] : nt.fanin[n][i] \in DOMAIN nt.type /\ nt.fanin[n][i] < n
    BY <1>1, <1>3, <2>2
  <2>4. nt.type[n] # "input" => 1 \in DOMAIN nt.fanin[n] /\ DOMAIN nt.fanin[n] \subseteq 1 .. MaxFanin
    BY <1>3 DEF MaxFanin
  <2>5. /\ nt.type[n] = "input" => DOMAIN nt.fanin[n] = {}
        /\ nt.type[n] \in {"buf", "not"} => DOMAIN nt.fanin[n] = {1}
    BY <1>3
  <2> QED BY <2>3, <2>4, <2>5
<1> QED BY <1>1, <1>2, <1>3, <1>4

\* The greatest of the numbers on a sequence of nodes.
LEMMA MaxOfSeq ==
  ASSUME NEW k \in Nat \ {0}, NEW s, DOMAIN s = 1 .. k, NEW f, \A i \in 1 .. k : f[s[i]] \in Nat
  PROVE  /\ Max({f[m] : m \in ToSet(s)}) \in Nat
         /\ \A i \in 1 .. k : f[s[i]] <= Max({f[m] : m \in ToSet(s)})
<1> DEFINE S == {f[m] : m \in ToSet(s)}
           h == [i \in 1 .. k |-> f[s[i]]]
<1>1. \A i \in 1 .. k : h[i] \in Nat
  OBVIOUS
<1>2. PICK i \in 1 .. k : \A j \in 1 .. k : h[j] <= h[i]
  <2> HIDE DEF h
  <2> QED BY <1>1, Greatest
<1>3. S = {h[j] : j \in 1 .. k} /\ \A j \in 1 .. k : h[j] = f[s[j]]
  BY DEF ToSet
<1>4. \E x \in S : \A y \in S : x >= y
  <2> HIDE DEF S, h
  <2> QED BY <1>1, <1>2, <1>3
<1>5. Max(S) \in S /\ \A y \in S : Max(S) >= y
  <2> HIDE DEF S
  <2> QED BY <1>4 DEF Max
<1> HIDE DEF S, h
<1>6. Max(S) \in Nat /\ \A j \in 1 .. k : f[s[j]] <= Max(S)
  BY <1>1, <1>3, <1>5
<1> QED BY <1>6 DEF S

\* Every node is at a higher level than its fanins.
LEMMA LevelFacts ==
  ASSUME NEW nt, IsNet(nt)
  PROVE  /\ Level(nt) \in [DOMAIN nt.type -> Nat]
         /\ \A n \in DOMAIN nt.type : \A i \in DOMAIN nt.fanin[n] :
              Level(nt)[nt.fanin[n][i]] < Level(nt)[n]
<1> DEFINE D == DOMAIN nt.type
           rank == [n \in D |-> n]
           M(f, n) == Max({f[m] : m \in ToSet(nt.fanin[n])})
           Body(f) == [n \in D |-> IF nt.fanin[n] = <<>> THEN 0
                                   ELSE 1 + M(f, n)]
           lv == CHOOSE f : f = Body(f)
<1>1. \A n \in D : rank[n] = n /\ rank[n] \in 0 .. Len(nt.type) /\ rank[n] \in Nat
  BY NetFacts
<1>2. ASSUME NEW n \in D, nt.fanin[n] # <<>>, NEW f, \A m \in D : m < n => f[m] \in Nat
      PROVE  /\ M(f, n) \in Nat
             /\ \A i \in DOMAIN nt.fanin[n] : f[nt.fanin[n][i]] <= M(f, n)
  <2>1. /\ Len(nt.fanin[n]) \in Nat \ {0} /\ DOMAIN nt.fanin[n] = 1 .. Len(nt.fanin[n])
        /\ \A i \in 1 .. Len(nt.fanin[n]) : f[nt.fanin[n][i]] \in Nat
    <3>1. nt.fanin[n] \in Seq(1 .. n - 1)
      BY NetFacts
    <3>2. Len(nt.fanin[n]) \in Nat \ {0}
      BY <1>2, <3>1, EmptySeq
    <3> QED BY <1>2, <3>2, NetFacts
  <2> QED BY <2>1, MaxOfSeq
<1>3. \E f : f = Body(f)
  <2> DEFINE F == [f \in [D -> Nat] |-> Body(f)]
  <2>1. ASSUME NEW f \in [D -> Nat] PROVE Body(f) \in [D -> Nat]
    <3>1. ASSUME NEW n \in D
          PROVE  nt.fanin[n] = <<>> \/ 1 + M(f, n) \in Nat
      <4> HIDE DEF M
      <4> QED BY <1>2
    <3> HIDE DEF M
    <3> QED BY <3>1
  <2>2. F \in [[D -> Nat] -> [D -> Nat]]
    <3> HIDE DEF Body
    <3> QED BY <2>1
  <2>3. ASSUME NEW f \in [D -> Nat], NEW g \in [D -> Nat], NEW n \in D,
               \A m \in D : rank[m] < rank[n] => f[m] = g[m]
        PROVE  F[f][n] = F[g][n]
    <3>1. \A m \in ToSet(nt.fanin[n]) : m \in D /\ rank[m] < rank[n]
      BY <1>1, NetFacts DEF ToSet
    <3>2. {f[m] : m \in ToSet(nt.fanin[n])} = {g[m] : m \in ToSet(nt.fanin[n])}
      BY <2>3, <3>1
    <3> QED BY <3>2
  <2>4. IsRecursion(D, Nat, rank, F)
    <3>1. \E K \in Nat : \A n \in D : rank[n] \in 0 .. K
      BY <1>1, NetFacts
    <3>2. Nat # {}
      OBVIOUS
    <3> HIDE DEF F, D, rank
    <3> QED BY <2>2, <2>3, <3>1, <3>2 DEF IsRecursion
  <2>5. \E f \in [D -> Nat] : f = F[f]
    <3> HIDE DEF F, D, rank
    <3> QED BY <2>4, RankRecursion
  <2> HIDE DEF Body
  <2> QED BY <2>5
<1>4. lv = Body(lv)
  <2> HIDE DEF Body
  <2> QED BY <1>3
<1>5. Level(nt) = lv
  BY DEF Level
<1> HIDE DEF lv, M
<1>6. \A n \in D : lv[n] = IF nt.fanin[n] = <<>> THEN 0
                           ELSE 1 + M(lv, n)
  BY <1>4
<1>7. \A n \in D : lv[n] \in Nat
  <2> DEFINE T == {n \in D : lv[n] \in Nat}
  <2>1. ASSUME NEW n \in D, \A m \in D : rank[m] < rank[n] => m \in T PROVE n \in T
    <3>1. \A m \in D : m < n => lv[m] \in Nat
      BY <1>1, <2>1
    <3>2. nt.fanin[n] # <<>> => M(lv, n) \in Nat
      BY <1>2, <3>1
    <3>3. lv[n] \in Nat
      BY <1>6, <3>2
    <3> QED BY <3>3
  <2>2. D \subseteq T
    <3> HIDE DEF D, rank, T
    <3> QED BY <1>1, <2>1, RankInduction
  <2> QED BY <2>2
<1>8. \A n \in D : \A i \in DOMAIN nt.fanin[n] : lv[nt.fanin[n][i]] < lv[n]
  <2> SUFFICES ASSUME NEW n \in D, NEW i \in DOMAIN nt.fanin[n]
               PROVE  lv[nt.fanin[n][i]] < lv[n]
    OBVIOUS
  <2>1. nt.fanin[n] # <<>> /\ nt.fanin[n][i] \in D
    BY NetFacts
  <2>2. /\ M(lv, n) \in Nat
        /\ lv[nt.fanin[n][i]] <= M(lv, n)
    BY <1>2, <1>7, <2>1
  <2> QED BY <1>6, <1>7, <2>1, <2>2
<1>9. lv \in [D -> Nat]
  BY <1>4, <1>7
<1> QED BY <1>5, <1>8, <1>9

\* The greatest of a set of numbers that has a bound.
LEMMA MaxOfSet ==
  ASSUME NEW K \in Nat, NEW S, S \subseteq 0 .. K, S # {}
  PROVE  Max(S) \in S /\ \A y \in S : y <= Max(S)
<1> DEFINE Bounds == {k \in Nat : \A y \in S : y <= k}
<1>1. PICK b \in Bounds : \A k \in Bounds : b <= k
  <2>1. Bounds \subseteq Nat /\ K \in Bounds
    OBVIOUS
  <2> HIDE DEF Bounds
  <2> QED BY <2>1, LeastNumber
<1>2. b \in Nat /\ \A y \in S : y \in Nat /\ y <= b
  OBVIOUS
<1>3. b \in S
  <2> SUFFICES ASSUME b \notin S PROVE FALSE
    OBVIOUS
  <2>1. b - 1 \in Nat /\ \A y \in S : y <= b - 1
    <3>1. \A y \in S : y # b
      OBVIOUS
    <3>2. \A y \in S : y <= b - 1
      BY <1>2, <3>1
    <3>3. PICK y \in S : TRUE
      OBVIOUS
    <3> QED BY <1>2, <3>2, <3>3
  <2>2. b - 1 \in Bounds
    BY <2>1
  <2>3. b <= b - 1
    <3> HIDE DEF Bounds
    <3> QED BY <1>1, <2>2
  <2> QED BY <1>2, <2>3
<1>4. \E x \in S : \A y \in S : x >= y
  BY <1>2, <1>3
<1>5. Max(S) \in S /\ \A y \in S : Max(S) >= y
  BY <1>4 DEF Max
<1> QED BY <1>2, <1>5

\* The level init() is given.
LEMMA QueueTop ==
  ASSUME NEW nt, IsNet(nt), NEW r, r.out \subseteq DOMAIN nt.type,
         NEW s, s.level = Level(nt)
  PROVE  MaxOutputLevel(r, s) \in Nat
<1> DEFINE lv == Level(nt)
           k == Len(nt.type)
           S == {lv[n] : n \in r.out}
<1>1. CASE r.out = {}
  BY <1>1 DEF MaxOutputLevel
<1>2. CASE r.out # {}
  <2>1. k \in Nat \ {0} /\ \A i \in 1 .. k : lv[i] \in Nat
    BY <1>2, NetFacts, LevelFacts
  <2>2. PICK i \in 1 .. k : \A j \in 1 .. k : lv[j] <= lv[i]
    <3> HIDE DEF lv, k
    <3> QED BY <2>1, Greatest
  <2>3. S \subseteq 0 .. lv[i] /\ S # {} /\ lv[i] \in Nat
    <3>1. \A n \in r.out : n \in 1 .. k
      BY NetFacts
    <3> HIDE DEF lv, k
    <3> QED BY <1>2, <2>1, <2>2, <3>1
  <2>4. Max(S) \in S
    <3> HIDE DEF S
    <3> QED BY <2>3, MaxOfSet
  <2>5. MaxOutputLevel(r, s) = Max(S)
    BY <1>2 DEF MaxOutputLevel
  <2> HIDE DEF S, lv
  <2>6. \A y \in S : y \in Nat
    BY <2>3
  <2>7. Max(S) \in Nat
    BY <2>4, <2>6
  <2> QED BY <2>5, <2>7
<1> QED BY <1>1, <1>2

\* The gates a node drives come after it and are above it.
LEMMA FanoutFacts ==
  ASSUME NEW nt, IsNet(nt), NEW n \in DOMAIN nt.type
  PROVE  /\ \A p \in Pins(nt, n) :
              /\ p[1] \in Fanouts(nt, n) /\ p[2] \in DOMAIN nt.fanin[p[1]]
         /\ \A m \in Fanouts(nt, n) :
              /\ m \in DOMAIN nt.type /\ n < m /\ nt.type[m] # "input"
              /\ Level(nt)[n] < Level(nt)[m]
         /\ Nfo(nt, n) = 1 => Fanouts(nt, n) # {}
         /\ Pins(nt, n) # {} <=> Fanouts(nt, n) # {}
<1>1. ASSUME NEW p \in Pins(nt, n)
      PROVE  /\ p[1] \in DOMAIN nt.type /\ p[2] \in DOMAIN nt.fanin[p[1]]
             /\ nt.fanin[p[1]][p[2]] = n
  BY DEF Pins
<1>2. ASSUME NEW m \in Fanouts(nt, n)
      PROVE  /\ m \in DOMAIN nt.type /\ n < m /\ nt.type[m] # "input"
             /\ Level(nt)[n] < Level(nt)[m]
  <2>1. PICK p \in Pins(nt, n) : m = p[1]
    BY DEF Fanouts
  <2>2. m \in DOMAIN nt.type /\ p[2] \in DOMAIN nt.fanin[m] /\ nt.fanin[m][p[2]] = n
    BY <1>1, <2>1
  <2>3. DOMAIN nt.fanin[m] # {}
    BY <2>2
  <2> QED BY <2>2, <2>3, NetFacts, LevelFacts
<1>3. Nfo(nt, n) = 1 => Pins(nt, n) # {}
  BY FS_EmptySet DEF Nfo
<1>4. Pins(nt, n) # {} <=> Fanouts(nt, n) # {}
  BY DEF Fanouts
<1>5. \A p \in Pins(nt, n) : p[1] \in Fanouts(nt, n)
  BY DEF Fanouts
<1> QED BY <1>1, <1>2, <1>3, <1>4, <1>5

\* The fanout that a node with one pin to drive follows.
NextOf(nt, n) == CHOOSE m \in DOMAIN nt.type : m \in Fanouts(nt, n)

\* It is one of the fanouts.
LEMMA NextFacts ==
  ASSUME NEW nt, IsNet(nt), NEW n \in DOMAIN nt.type, Fanouts(nt, n) # {}
  PROVE  NextOf(nt, n) \in Fanouts(nt, n)
<1>1. \E m \in DOMAIN nt.type : m \in Fanouts(nt, n)
  BY FanoutFacts
<1> QED BY <1>1 DEF NextOf

\* The nodes from the last to the first.
Downward(nt) == [n \in DOMAIN nt.type |-> Len(nt.type) - n]

\* A recursion over the fanouts ends.
LEMMA DownwardFacts ==
  ASSUME NEW nt, IsNet(nt)
  PROVE  /\ \E K \in Nat : \A n \in DOMAIN nt.type : Downward(nt)[n] \in 0 .. K
         /\ \A n \in DOMAIN nt.type : Downward(nt)[n] \in Nat
         /\ \A n, m \in DOMAIN nt.type : n < m => Downward(nt)[m] < Downward(nt)[n]
<1> DEFINE k == Len(nt.type)
<1>1. k \in Nat /\ DOMAIN nt.type = 1 .. k
  BY NetFacts
<1>2. \A n \in 1 .. k : Downward(nt)[n] = k - n
  BY <1>1 DEF Downward
<1> HIDE DEF k
<1>3. /\ \A n \in 1 .. k : Downward(nt)[n] \in 0 .. k /\ Downward(nt)[n] \in Nat
      /\ \A n, m \in 1 .. k : n < m => Downward(nt)[m] < Downward(nt)[n]
  BY <1>1, <1>2
<1> QED BY <1>1, <1>3

\* What the definitions of the regions have in common: E are the nodes that end
\* a region of their own, Z the nodes that are in none.
RegionBody(nt, E, Z, rt) ==
  [n \in DOMAIN nt.type |-> IF n \in Z THEN 0 ELSE IF n \in E THEN n ELSE rt[NextOf(nt, n)]]

\* The region of a node: its own, none, or that of its fanout.
IsRoots(nt, rt) ==
  /\ DOMAIN rt = DOMAIN nt.type
  /\ \A n \in DOMAIN nt.type :
       /\ rt[n] \in DOMAIN nt.type \cup {0}
       /\ rt[n] \notin {n, 0} => Fanouts(nt, n) # {} /\ rt[n] = rt[NextOf(nt, n)]

\* The functions of CalcCvf and of CalcSvf exist and give every node its region.
LEMMA Regions ==
  ASSUME NEW nt, IsNet(nt), NEW E, NEW Z,
         \A n \in DOMAIN nt.type : n \notin E \cup Z => Nfo(nt, n) = 1
  PROVE  /\ \E rt : rt = RegionBody(nt, E, Z, rt)
         /\ \A rt : rt = RegionBody(nt, E, Z, rt) =>
              IsRoots(nt, rt) /\ (Z = {} => \A n \in DOMAIN nt.type : rt[n] # 0)
<1> DEFINE D == DOMAIN nt.type
           V == D \cup {0}
           rank == Downward(nt)
           Body(f) == RegionBody(nt, E, Z, f)
           F == [f \in [D -> V] |-> Body(f)]
<1>1. ASSUME NEW n \in D, n \notin E \cup Z
      PROVE  /\ Fanouts(nt, n) # {} /\ NextOf(nt, n) \in D /\ n < NextOf(nt, n)
             /\ rank[NextOf(nt, n)] < rank[n]
  BY <1>1, FanoutFacts, NextFacts, DownwardFacts
<1>2. ASSUME NEW f \in [D -> V] PROVE Body(f) \in [D -> V]
  BY <1>1 DEF RegionBody
<1>3. F \in [[D -> V] -> [D -> V]]
  <2> HIDE DEF Body
  <2> QED BY <1>2
<1>4. ASSUME NEW f \in [D -> V], NEW g \in [D -> V], NEW n \in D,
             \A m \in D : rank[m] < rank[n] => f[m] = g[m]
      PROVE  F[f][n] = F[g][n]
  BY <1>1, <1>4 DEF RegionBody
<1>5. IsRecursion(D, V, rank, F)
  <2> HIDE DEF F, D, rank
  <2>1. V # {}
    OBVIOUS
  <2>2. \E K \in Nat : \A n \in D : rank[n] \in 0 .. K
    BY DownwardFacts DEF D, rank
  <2> QED BY <1>3, <1>4, <2>1, <2>2 DEF IsRecursion
<1>6. \E rt \in [D -> V] : rt = F[rt]
  <2> HIDE DEF F, D, rank, V
  <2> QED BY <1>5, RankRecursion
<1>7. \E rt : rt = Body(rt)
  <2> HIDE DEF Body
  <2> QED BY <1>6
<1>8. ASSUME NEW rt, rt = Body(rt)
      PROVE  IsRoots(nt, rt) /\ (Z = {} => \A n \in D : rt[n] # 0)
  <2>1. DOMAIN rt = D /\ \A n \in D : rt[n] = IF n \in Z THEN 0 ELSE IF n \in E THEN n
                                              ELSE rt[NextOf(nt, n)]
    BY <1>8 DEF RegionBody
  <2> DEFINE T == {n \in D : rt[n] \in V /\ (Z = {} => rt[n] # 0)}
  <2>2. ASSUME NEW n \in D, \A m \in D : rank[m] < rank[n] => m \in T PROVE n \in T
    <3>1. n \in E \cup Z \/ NextOf(nt, n) \in T
      <4> HIDE DEF T, rank
      <4> QED BY <1>1, <2>2
    <3>2. n # 0
      BY NetFacts
    <3> QED BY <2>1, <3>1, <3>2
  <2>3. D \subseteq T
    <3>1. \A n \in D : rank[n] \in Nat
      BY DownwardFacts
    <3> HIDE DEF D, rank, T
    <3> QED BY <2>2, <3>1, RankInduction
  <2>4. \A n \in D : rt[n] \in V /\ (Z = {} => rt[n] # 0)
    BY <2>3
  <2>5. ASSUME NEW n \in D, rt[n] \notin {n, 0}
        PROVE  Fanouts(nt, n) # {} /\ rt[n] = rt[NextOf(nt, n)]
    <3>1. n \notin E \cup Z
      BY <2>1, <2>5
    <3> QED BY <1>1, <2>1, <3>1
  <2> QED BY <2>1, <2>4, <2>5 DEF IsRoots
<1> QED BY <1>7, <1>8

\* What set_network of CalcCvf makes of a network.
LEMMA RootFacts ==
  ASSUME NEW nt, IsNet(nt)
  PROVE  /\ IsRoots(nt, Root(nt)) /\ \A n \in DOMAIN nt.type : Root(nt)[n] # 0
         /\ \A n \in DOMAIN nt.type :
              Root(nt)[n] = IF n \in nt.out \/ Nfo(nt, n) # 1 THEN n ELSE Root(nt)[NextOf(nt, n)]
<1> DEFINE E == {n \in DOMAIN nt.type : n \in nt.out \/ Nfo(nt, n) # 1}
           Body(f) == [n \in DOMAIN nt.type |->
                         IF n \in nt.out \/ Nfo(nt, n) # 1 THEN n
                         ELSE f[CHOOSE m \in DOMAIN nt.type : m \in Fanouts(nt, n)]]
<1>1. ASSUME NEW f PROVE Body(f) = RegionBody(nt, E, {}, f)
  BY DEF RegionBody, NextOf
<1>2. \A n \in DOMAIN nt.type : n \notin E \cup {} => Nfo(nt, n) = 1
  OBVIOUS
<1> HIDE DEF E
<1>3. /\ \E rt : rt = RegionBody(nt, E, {}, rt)
      /\ \A rt : rt = RegionBody(nt, E, {}, rt) =>
           IsRoots(nt, rt) /\ ({} = {} => \A n \in DOMAIN nt.type : rt[n] # 0)
  BY <1>2, Regions
<1>4. Root(nt) = CHOOSE f : f = Body(f)
  BY DEF Root
<1>5. Root(nt) = Body(Root(nt))
  <2> HIDE DEF Body
  <2> QED BY <1>1, <1>3, <1>4
<1>6. \A n \in DOMAIN nt.type :
        Root(nt)[n] = IF n \in nt.out \/ Nfo(nt, n) # 1 THEN n ELSE Root(nt)[NextOf(nt, n)]
  BY <1>5 DEF NextOf
<1> HIDE DEF Body
<1> QED BY <1>1, <1>3, <1>5, <1>6

\* What set_network of CalcSvf makes of one.
LEMMA SvfRootFacts ==
  ASSUME NEW nt, IsNet(nt), NEW s
  PROVE  /\ IsRoots(nt, SvfRoot(nt, s))
         /\ \A n \in DOMAIN nt.type :
              SvfRoot(nt, s)[n] = IF n > Size(s) THEN 0
                                  ELSE IF n \in Output1(s) \/ Nfo(nt, n) # 1 THEN n
                                  ELSE SvfRoot(nt, s)[NextOf(nt, n)]
<1> DEFINE E == {n \in DOMAIN nt.type : n \in Output1(s) \/ Nfo(nt, n) # 1}
           Z == {n \in DOMAIN nt.type : n > Size(s)}
           Body(f) == [n \in DOMAIN nt.type |->
                         IF n > Size(s) THEN 0
                         ELSE IF n \in Output1(s) \/ Nfo(nt, n) # 1 THEN n
                         ELSE f[CHOOSE m \in DOMAIN nt.type : m \in Fanouts(nt, n)]]
<1>1. ASSUME NEW f PROVE Body(f) = RegionBody(nt, E, Z, f)
  BY DEF RegionBody, NextOf
<1>2. \A n \in DOMAIN nt.type : n \notin E \cup Z => Nfo(nt, n) = 1
  OBVIOUS
<1> HIDE DEF E, Z
<1>3. /\ \E rt : rt = RegionBody(nt, E, Z, rt)
      /\ \A rt : rt = RegionBody(nt, E, Z, rt) => IsRoots(nt, rt)
  BY <1>2, Regions
<1>4. SvfRoot(nt, s) = CHOOSE f : f = Body(f)
  BY DEF SvfRoot
<1>5. SvfRoot(nt, s) = Body(SvfRoot(nt, s))
  <2> HIDE DEF Body
  <2> QED BY <1>1, <1>3, <1>4
<1>6. \A n \in DOMAIN nt.type :
        SvfRoot(nt, s)[n] = IF n > Size(s) THEN 0
                            ELSE IF n \in Output1(s) \/ Nfo(nt, n) # 1 THEN n
                            ELSE SvfRoot(nt, s)[NextOf(nt, n)]
  BY <1>5 DEF NextOf
<1> HIDE DEF Body
<1> QED BY <1>1, <1>3, <1>5, <1>6

------------------------------------------------------------------------------
\* A gate makes words of words.
LEMMA OutputType ==
  ASSUME NEW t \in Gates, NEW v, 1 \in DOMAIN v, \A i \in DOMAIN v : v[i] \subseteq Pats
  PROVE  Output(t, v) \subseteq Pats
<1>1. AndValue(v) \subseteq Pats /\ XorValue(v) \subseteq Pats
  BY DEF AndValue, XorValue
<1>2. OrValue(v) \subseteq Pats /\ BufValue(v) \subseteq Pats
  BY DEF OrValue, BufValue
<1> DEFINE w == CASE t \in {"and", "nand"} -> AndValue(v)
                  [] t \in {"or", "nor"}   -> OrValue(v)
                  [] t \in {"xor", "xnor"} -> XorValue(v)
                  [] t \in {"buf", "not"}  -> BufValue(v)
<1>3. t \in {"and", "nand"} \/ t \in {"or", "nor"} \/ t \in {"xor", "xnor"} \/ t \in {"buf", "not"}
  BY DEF Gates
<1>4. w \subseteq Pats
  BY <1>1, <1>2, <1>3
<1> HIDE DEF w
<1>5. Pats \ w \subseteq Pats
  OBVIOUS
<1>6. Output(t, v) = IF t \in Inverted THEN Pats \ w ELSE w
  BY DEF Output, w
<1> QED BY <1>4, <1>5, <1>6

\* calc_gval gives every node a word.
LEMMA GoodValuesType ==
  ASSUME IsNet(net), NEW batch, \A n \in Inputs : batch[n] \subseteq Pats
  PROVE  GoodValues(batch) \in [Nodes -> SUBSET Pats]
<1> DEFINE V == SUBSET Pats
           rank == [n \in Nodes |-> n]
           In(f, n) == [i \in DOMAIN net.fanin[n] |-> f[net.fanin[n][i]]]
           Body(f) == [n \in Nodes |-> IF IsInput(n) THEN batch[n]
                                       ELSE Output(net.type[n], In(f, n))]
           F == [f \in [Nodes -> V] |-> Body(f)]
           gv == CHOOSE f : f = Body(f)
<1>1. \A n \in Nodes : rank[n] = n /\ rank[n] \in 0 .. Len(net.type) /\ rank[n] \in Nat
  BY NetFacts DEF Nodes
<1>2. \A n \in Nodes : \A i \in DOMAIN net.fanin[n] : net.fanin[n][i] \in Nodes /\ net.fanin[n][i] < n
  BY NetFacts DEF Nodes
<1>3. ASSUME NEW n \in Nodes, NEW f, \A m \in Nodes : m < n => f[m] \in V
      PROVE  (IF IsInput(n) THEN batch[n] ELSE Output(net.type[n], In(f, n))) \in V
  <2>1. CASE IsInput(n)
    BY <2>1 DEF Inputs
  <2>2. CASE ~IsInput(n)
    <3>1. net.type[n] \in Gates /\ 1 \in DOMAIN net.fanin[n]
      BY <2>2, NetFacts DEF Nodes, IsInput
    <3>2. \A i \in DOMAIN net.fanin[n] : f[net.fanin[n][i]] \subseteq Pats
      BY <1>2, <1>3
    <3>3. /\ 1 \in DOMAIN In(f, n)
          /\ \A i \in DOMAIN In(f, n) : In(f, n)[i] \subseteq Pats
      BY <3>1, <3>2
    <3>4. Output(net.type[n], In(f, n)) \subseteq Pats
      <4> HIDE DEF In
      <4> QED BY <3>1, <3>3, OutputType
    <3> QED BY <2>2, <3>4
  <2> QED BY <2>1, <2>2
<1>4. ASSUME NEW f \in [Nodes -> V] PROVE Body(f) \in [Nodes -> V]
  <2>1. \A n \in Nodes : (IF IsInput(n) THEN batch[n] ELSE Output(net.type[n], In(f, n))) \in V
    <3>1. \A m \in Nodes : f[m] \in V
      OBVIOUS
    <3> HIDE DEF In, V
    <3> QED BY <1>3, <3>1
  <2> HIDE DEF In, V
  <2> QED BY <2>1
<1>5. F \in [[Nodes -> V] -> [Nodes -> V]]
  <2> HIDE DEF Body
  <2> QED BY <1>4
<1>6. ASSUME NEW f \in [Nodes -> V], NEW g \in [Nodes -> V], NEW n \in Nodes,
             \A m \in Nodes : rank[m] < rank[n] => f[m] = g[m]
      PROVE  F[f][n] = F[g][n]
  <2>1. \A i \in DOMAIN net.fanin[n] : f[net.fanin[n][i]] = g[net.fanin[n][i]]
    BY <1>1, <1>2, <1>6
  <2>2. In(f, n) = In(g, n)
    BY <2>1
  <2>3. F[f] = Body(f) /\ F[g] = Body(g)
    <3> HIDE DEF Body
    <3> QED OBVIOUS
  <2>4. Body(f)[n] = Body(g)[n]
    <3> HIDE DEF In
    <3> QED BY <2>2
  <2> HIDE DEF F, Body
  <2> QED BY <2>3, <2>4
<1>7. IsRecursion(Nodes, V, rank, F)
  <2>1. V # {}
    OBVIOUS
  <2>2. \E K \in Nat : \A n \in Nodes : rank[n] \in 0 .. K
    BY <1>1, NetFacts
  <2> HIDE DEF F, rank, V
  <2> QED BY <1>5, <1>6, <2>1, <2>2 DEF IsRecursion
<1>8. \E f \in [Nodes -> V] : f = F[f]
  <2> HIDE DEF F, rank, V
  <2> QED BY <1>7, RankRecursion
<1>9. gv = Body(gv)
  <2> HIDE DEF Body
  <2> QED BY <1>8
<1>10. GoodValues(batch) = gv
  BY DEF GoodValues
<1> HIDE DEF gv
<1>11. /\ gv = [n \in Nodes |-> gv[n]]
       /\ \A n \in Nodes : gv[n] = IF IsInput(n) THEN batch[n]
                                   ELSE Output(net.type[n], In(gv, n))
  <2> HIDE DEF In
  <2> QED BY <1>9
<1> DEFINE T == {n \in Nodes : gv[n] \in V}
<1>12. ASSUME NEW n \in Nodes, \A m \in Nodes : rank[m] < rank[n] => m \in T PROVE n \in T
  <2>1. \A m \in Nodes : m < n => gv[m] \in V
    BY <1>1, <1>12
  <2>2. gv[n] \in V
    <3> HIDE DEF In, V
    <3> QED BY <1>3, <1>11, <2>1
  <2> QED BY <2>2
<1>13. Nodes \subseteq T
  <2> HIDE DEF rank, T
  <2> QED BY <1>1, <1>12, RankInduction
<1> QED BY <1>10, <1>11, <1>13
------------------------------------------------------------------------------
\* What holds of the network and of what set_network derives from it in both
\* programs.
SimOK ==
  /\ IsNet(net)
  /\ sim.level = Level(net)
  /\ sim.pins = [n \in Nodes |-> Pins(net, n)]
  /\ sim.fanout = [n \in Nodes |-> Fanouts(net, n)]
  /\ sim.order = [n \in Nodes |-> Sorted(Fanouts(net, n))]
  /\ IsRoots(net, sim.root)
  /\ mode # "none" => \A n \in Nodes : sim.root[n] # 0

\* It read through the fields of sim.
LEMMA SimFacts ==
  ASSUME SimOK
  PROVE  /\ Nodes \subseteq Nat \ {0} /\ IsFiniteSet(Nodes) /\ Logic \subseteq Nodes
         /\ \A n \in Nodes : sim.level[n] \in Nat /\ sim.root[n] \in Nodes \cup {0}
         /\ Roots \subseteq Nodes
         /\ \A n \in Nodes : \A p \in sim.pins[n] :
              p[1] \in sim.fanout[n] /\ p[2] \in DOMAIN net.fanin[p[1]]
         /\ \A n \in Nodes : \A m \in sim.fanout[n] :
              m \in Logic /\ m \in Nodes /\ n < m /\ sim.level[n] < sim.level[m]
         /\ \A n \in Nodes : sim.root[n] \notin {n, 0} =>
              /\ sim.pins[n] # {} /\ sim.fanout[n] # {}
              /\ NextOf(net, n) \in sim.fanout[n]
              /\ sim.root[n] = sim.root[NextOf(net, n)]
<1>1. Nodes \subseteq Nat \ {0} /\ IsFiniteSet(Nodes) /\ Logic \subseteq Nodes /\ Roots \subseteq Nodes
  BY NetFacts DEF SimOK, Nodes, Logic, Roots
<1>2. \A n \in Nodes : sim.level[n] \in Nat /\ sim.root[n] \in Nodes \cup {0}
  BY LevelFacts DEF SimOK, Nodes, IsRoots
<1>3. \A n \in Nodes : sim.pins[n] = Pins(net, n) /\ sim.fanout[n] = Fanouts(net, n)
  BY DEF SimOK
<1>4. ASSUME NEW n \in Nodes
      PROVE  /\ \A p \in sim.pins[n] : p[1] \in sim.fanout[n] /\ p[2] \in DOMAIN net.fanin[p[1]]
             /\ \A m \in sim.fanout[n] :
                  m \in Logic /\ m \in Nodes /\ n < m /\ sim.level[n] < sim.level[m]
  BY <1>3, FanoutFacts DEF SimOK, Nodes, Logic, Inputs, IsInput
<1>5. ASSUME NEW n \in Nodes, sim.root[n] \notin {n, 0}
      PROVE  /\ sim.pins[n] # {} /\ sim.fanout[n] # {}
             /\ NextOf(net, n) \in sim.fanout[n]
             /\ sim.root[n] = sim.root[NextOf(net, n)]
  <2>1. Fanouts(net, n) # {} /\ sim.root[n] = sim.root[NextOf(net, n)]
    BY <1>5 DEF SimOK, IsRoots, Nodes
  <2>2. Pins(net, n) # {} /\ NextOf(net, n) \in Fanouts(net, n)
    BY <2>1, FanoutFacts, NextFacts DEF SimOK, Nodes
  <2> QED BY <1>3, <2>1, <2>2
<1> QED BY <1>1, <1>2, <1>4, <1>5

------------------------------------------------------------------------------
\* calc_iobs gives every node a word: inside the region what its one pin lets
\* through, outside what it had.
LEMMA SpreadType ==
  ASSUME SimOK, obs \in [Nodes -> SUBSET Pats], NEW r \in Roots, NEW o, o \subseteq Pats
  PROVE  /\ Spread(r, o) \in [Nodes -> SUBSET Pats]
         /\ Spread(r, o)[r] = o
         /\ \A n \in Nodes : sim.root[n] # r => Spread(r, o)[n] = obs[n]
         /\ \A n \in Nodes \ {r} : sim.root[n] = r =>
              \E p \in sim.pins[n] :
                Spread(r, o)[n] = Spread(r, o)[p[1]] \cap Sensitive(p[1], p[2], gval)
<1> DEFINE V == SUBSET Pats
           rank == Downward(net)
           Pin(n) == CHOOSE p \in sim.pins[n] : TRUE
           Sens(n) == Sensitive(Pin(n)[1], Pin(n)[2], gval)
           Body(f) == [n \in Nodes |->
                         IF n = r THEN o
                         ELSE IF sim.root[n] # r THEN obs[n]
                         ELSE f[Pin(n)[1]] \cap Sens(n)]
           F == [f \in [Nodes -> V] |-> Body(f)]
           ob == CHOOSE f : f = Body(f)
<1>1. ASSUME NEW n \in Nodes, n # r, sim.root[n] = r
      PROVE  Pin(n)[1] \in Nodes /\ rank[Pin(n)[1]] < rank[n]
  <2>1. sim.root[n] \notin {n, 0}
    BY <1>1, SimFacts
  <2>2. Pin(n) \in sim.pins[n]
    BY <2>1, SimFacts
  <2>3. Pin(n)[1] \in Nodes /\ n < Pin(n)[1]
    <3> HIDE DEF Pin
    <3> QED BY <2>2, SimFacts
  <2> HIDE DEF Pin
  <2> QED BY <2>3, DownwardFacts DEF SimOK, Nodes
<1>2. \A n \in Nodes : Sens(n) \subseteq Pats
  BY DEF Sensitive, AllPass
<1>a. \A n \in Nodes : Sens(n) = Sensitive(Pin(n)[1], Pin(n)[2], gval)
  OBVIOUS
<1>b. \A n \in Nodes : n # r /\ sim.root[n] = r => Pin(n) \in sim.pins[n]
  <2> SUFFICES ASSUME NEW n \in Nodes, n # r, sim.root[n] = r PROVE Pin(n) \in sim.pins[n]
    OBVIOUS
  <2>1. sim.root[n] \notin {n, 0}
    BY SimFacts
  <2> QED BY <2>1, SimFacts
<1>c. r \in Nodes /\ sim.root[r] = r
  BY DEF Roots
<1> HIDE DEF Pin, Sens
<1>3. ASSUME NEW f PROVE Body(f) \in [Nodes -> V]
  <2>1. ASSUME NEW n \in Nodes
        PROVE  (IF n = r THEN o
                ELSE IF sim.root[n] # r THEN obs[n]
                ELSE f[Pin(n)[1]] \cap Sens(n)) \in V
    <3>1. obs[n] \in V /\ o \in V /\ f[Pin(n)[1]] \cap Sens(n) \in V
      BY <1>2
    <3> QED BY <3>1
  <2> HIDE DEF V
  <2> QED BY <2>1
<1>4. F \in [[Nodes -> V] -> [Nodes -> V]]
  <2> HIDE DEF Body
  <2> QED BY <1>3
<1>5. ASSUME NEW f \in [Nodes -> V], NEW g \in [Nodes -> V], NEW n \in Nodes,
             \A m \in Nodes : rank[m] < rank[n] => f[m] = g[m]
      PROVE  F[f][n] = F[g][n]
  <2>1. n # r /\ sim.root[n] = r => f[Pin(n)[1]] = g[Pin(n)[1]]
    <3> HIDE DEF rank
    <3> QED BY <1>1, <1>5
  <2> QED BY <2>1
<1>6. IsRecursion(Nodes, V, rank, F)
  <2>1. V # {}
    OBVIOUS
  <2>2. \E K \in Nat : \A n \in Nodes : rank[n] \in 0 .. K
    BY DownwardFacts DEF SimOK, Nodes
  <2> HIDE DEF F, rank, V
  <2> QED BY <1>4, <1>5, <2>1, <2>2 DEF IsRecursion
<1>7. \E f \in [Nodes -> V] : f = F[f]
  <2> HIDE DEF F, rank, V
  <2> QED BY <1>6, RankRecursion
<1>8. ob = Body(ob)
  <2> HIDE DEF Body
  <2> QED BY <1>7
<1>9. Spread(r, o) = ob
  BY DEF Spread, Pin, Sens
<1>10. /\ ob[r] = o
       /\ \A n \in Nodes : sim.root[n] # r => ob[n] = obs[n]
       /\ \A n \in Nodes \ {r} : sim.root[n] = r => ob[n] = ob[Pin(n)[1]] \cap Sens(n)
  <2> HIDE DEF ob
  <2>1. \A n \in Nodes : ob[n] = IF n = r THEN o ELSE IF sim.root[n] # r THEN obs[n]
                                 ELSE ob[Pin(n)[1]] \cap Sens(n)
    BY <1>8
  <2> QED BY <1>c, <2>1
<1> HIDE DEF ob, Body
<1>11. \A n \in Nodes \ {r} : sim.root[n] = r =>
         \E p \in sim.pins[n] : ob[n] = ob[p[1]] \cap Sensitive(p[1], p[2], gval)
  BY <1>10, <1>a, <1>b
<1> QED BY <1>3, <1>8, <1>9, <1>10, <1>11

\* So does a backward pass, which gives it what its fanouts pass down.
LEMMA BackwardType ==
  ASSUME SimOK, NEW base \in [Nodes -> SUBSET Pats],
         NEW share, \A p \in AllPins : share[p] \subseteq Pats
  PROVE  /\ Backward(base, share) \in [Nodes -> SUBSET Pats]
         /\ \A n \in Nodes :
              Backward(base, share)[n] =
                base[n] \cup UNION {Backward(base, share)[p[1]] \cap share[p] : p \in sim.pins[n]}
<1> DEFINE V == SUBSET Pats
           rank == Downward(net)
           From(f, n) == UNION {f[p[1]] \cap share[p] : p \in sim.pins[n]}
           Body(f) == [n \in Nodes |-> base[n] \cup From(f, n)]
           F == [f \in [Nodes -> V] |-> Body(f)]
           ob == CHOOSE f : f = Body(f)
<1>1. ASSUME NEW n \in Nodes, NEW p \in sim.pins[n]
      PROVE  p[1] \in Nodes /\ rank[p[1]] < rank[n] /\ share[p] \subseteq Pats
  <2>1. p[1] \in Nodes /\ n < p[1]
    BY SimFacts
  <2>2. p \in AllPins
    BY DEF AllPins
  <2> QED BY <2>1, <2>2, DownwardFacts DEF SimOK, Nodes
<1>2. ASSUME NEW f PROVE Body(f) \in [Nodes -> V]
  <2>1. ASSUME NEW n \in Nodes PROVE base[n] \cup From(f, n) \in V
    <3>1. From(f, n) \subseteq Pats
      BY <1>1
    <3> HIDE DEF From
    <3> QED BY <3>1
  <2> HIDE DEF V, From
  <2> QED BY <2>1
<1>3. F \in [[Nodes -> V] -> [Nodes -> V]]
  <2> HIDE DEF Body
  <2> QED BY <1>2
<1>4. ASSUME NEW f \in [Nodes -> V], NEW g \in [Nodes -> V], NEW n \in Nodes,
             \A m \in Nodes : rank[m] < rank[n] => f[m] = g[m]
      PROVE  F[f][n] = F[g][n]
  <2>1. \A p \in sim.pins[n] : f[p[1]] = g[p[1]]
    <3> HIDE DEF rank
    <3> QED BY <1>1, <1>4
  <2>2. From(f, n) = From(g, n)
    BY <2>1
  <2> HIDE DEF From
  <2> QED BY <2>2
<1>5. IsRecursion(Nodes, V, rank, F)
  <2>1. V # {}
    OBVIOUS
  <2>2. \E K \in Nat : \A n \in Nodes : rank[n] \in 0 .. K
    BY DownwardFacts DEF SimOK, Nodes
  <2> HIDE DEF F, rank, V
  <2> QED BY <1>3, <1>4, <2>1, <2>2 DEF IsRecursion
<1>6. \E f \in [Nodes -> V] : f = F[f]
  <2> HIDE DEF F, rank, V
  <2> QED BY <1>5, RankRecursion
<1>7. ob = Body(ob)
  <2> HIDE DEF Body
  <2> QED BY <1>6
<1>8. Backward(base, share) = ob
  BY DEF Backward
<1> HIDE DEF ob
<1>9. \A n \in Nodes : ob[n] = base[n] \cup From(ob, n)
  <2> HIDE DEF From
  <2> QED BY <1>7
<1> HIDE DEF Body
<1> QED BY <1>2, <1>7, <1>8, <1>9

\* The path of a node ends at the root of its region.
LEMMA PathFacts ==
  ASSUME SimOK, mode # "none", NEW x \in Nodes
  PROVE  /\ sim.root[x] \in PathOf(x)
         /\ PathOf(x) = IF sim.root[x] = x THEN {x} ELSE {x} \cup PathOf(NextOf(net, x))
<1> DEFINE V == SUBSET Nodes
           rank == Downward(net)
           Body(f) == [n \in Nodes |->
                         IF sim.root[n] = n THEN {n}
                         ELSE {n} \cup f[CHOOSE m \in Nodes : m \in sim.fanout[n]]]
           F == [f \in [Nodes -> V] |-> Body(f)]
           path == CHOOSE f : f = Body(f)
<1>1. ASSUME NEW n \in Nodes
      PROVE  (CHOOSE m \in Nodes : m \in sim.fanout[n]) = NextOf(net, n)
  <2>1. sim.fanout[n] = Fanouts(net, n)
    BY DEF SimOK
  <2> QED BY <2>1 DEF NextOf, Nodes
<1>2. ASSUME NEW n \in Nodes, sim.root[n] # n
      PROVE  /\ NextOf(net, n) \in Nodes /\ rank[NextOf(net, n)] < rank[n]
             /\ sim.root[n] = sim.root[NextOf(net, n)]
  <2>1. sim.root[n] \notin {n, 0}
    BY <1>2 DEF SimOK
  <2>2. /\ NextOf(net, n) \in Nodes /\ n < NextOf(net, n)
        /\ sim.root[n] = sim.root[NextOf(net, n)]
    BY <2>1, SimFacts
  <2> QED BY <2>2, DownwardFacts DEF SimOK, Nodes
<1>3. ASSUME NEW f PROVE Body(f) = [n \in Nodes |-> IF sim.root[n] = n THEN {n}
                                                    ELSE {n} \cup f[NextOf(net, n)]]
  BY <1>1
<1>4. ASSUME NEW f \in [Nodes -> V] PROVE Body(f) \in [Nodes -> V]
  <2> HIDE DEF Body
  <2> QED BY <1>2, <1>3
<1>5. F \in [[Nodes -> V] -> [Nodes -> V]]
  <2> HIDE DEF Body
  <2> QED BY <1>4
<1>6. ASSUME NEW f \in [Nodes -> V], NEW g \in [Nodes -> V], NEW n \in Nodes,
             \A m \in Nodes : rank[m] < rank[n] => f[m] = g[m]
      PROVE  F[f][n] = F[g][n]
  <2>1. sim.root[n] # n => f[NextOf(net, n)] = g[NextOf(net, n)]
    <3> HIDE DEF rank
    <3> QED BY <1>2, <1>6
  <2>2. F[f] = Body(f) /\ F[g] = Body(g)
    <3> HIDE DEF Body
    <3> QED OBVIOUS
  <2>3. Body(f)[n] = Body(g)[n]
    <3> HIDE DEF Body
    <3> QED BY <1>3, <2>1
  <2> HIDE DEF F, Body
  <2> QED BY <2>2, <2>3
<1>7. IsRecursion(Nodes, V, rank, F)
  <2>1. V # {}
    OBVIOUS
  <2>2. \E K \in Nat : \A n \in Nodes : rank[n] \in 0 .. K
    BY DownwardFacts DEF SimOK, Nodes
  <2> HIDE DEF F, rank, V
  <2> QED BY <1>5, <1>6, <2>1, <2>2 DEF IsRecursion
<1>8. \E f \in [Nodes -> V] : f = F[f]
  <2> HIDE DEF F, rank, V
  <2> QED BY <1>7, RankRecursion
<1>9. path = Body(path)
  <2> HIDE DEF Body
  <2> QED BY <1>8
<1>10. \A n : PathOf(n) = path[n]
  BY DEF PathOf
<1> HIDE DEF path
<1>11. \A n \in Nodes : path[n] = IF sim.root[n] = n THEN {n} ELSE {n} \cup path[NextOf(net, n)]
  <2>1. path = [n \in Nodes |-> IF sim.root[n] = n THEN {n} ELSE {n} \cup path[NextOf(net, n)]]
    <3> HIDE DEF Body
    <3> QED BY <1>3, <1>9
  <2> QED BY <2>1
<1> DEFINE T == {n \in Nodes : sim.root[n] \in path[n]}
<1>12. ASSUME NEW n \in Nodes, \A m \in Nodes : rank[m] < rank[n] => m \in T PROVE n \in T
  <2>1. CASE sim.root[n] = n
    BY <1>11, <2>1
  <2>2. CASE sim.root[n] # n
    <3>1. sim.root[NextOf(net, n)] \in path[NextOf(net, n)]
      <4> HIDE DEF rank
      <4> QED BY <1>2, <1>12, <2>2
    <3> QED BY <1>2, <1>11, <2>2, <3>1
  <2> QED BY <2>1, <2>2
<1>13. \A n \in Nodes : rank[n] \in Nat
  BY DownwardFacts DEF SimOK, Nodes
<1>14. Nodes \subseteq T
  <2> HIDE DEF rank, T
  <2> QED BY <1>12, <1>13, RankInduction
<1> QED BY <1>10, <1>11, <1>14

\* Nodes of one region have a first common dominator.
LEMMA MeetFacts ==
  ASSUME SimOK, mode # "none", NEW m \in Nodes,
         NEW X, X \subseteq Nodes, \A x \in X : sim.root[x] = sim.root[m]
  PROVE  Meet(X) \in Nodes /\ \A x \in X : Meet(X) \in PathOf(x)
<1> DEFINE common == {n \in Nodes : \A x \in X : n \in PathOf(x)}
           L == {sim.level[n] : n \in common}
<1>1. sim.root[m] \in common
  <2>1. sim.root[m] \in Nodes
    BY SimFacts DEF SimOK
  <2>2. \A x \in X : sim.root[m] \in PathOf(x)
    BY PathFacts
  <2> QED BY <2>1, <2>2
<1>2. PICK i \in L : \A j \in L : i <= j
  <2>1. L # {} /\ L \subseteq Nat
    BY <1>1, SimFacts
  <2> HIDE DEF L
  <2> QED BY <2>1, LeastNumber
<1>3. \E n \in common : \A k \in common : sim.level[n] <= sim.level[k]
  <2>1. PICK n \in common : i = sim.level[n]
    OBVIOUS
  <2>2. \A k \in common : sim.level[k] \in L
    OBVIOUS
  <2> HIDE DEF common, L
  <2> QED BY <1>2, <2>1, <2>2
<1> HIDE DEF L
<1>4. Meet(X) \in common
  BY <1>3 DEF Meet
<1> QED BY <1>4

\* Putting the fanouts of a node keeps the queue one and adds them, and nothing else.
LEMMA PutFanoutsFacts ==
  ASSUME SimOK, NEW n \in Nodes, NEW top, Levelled(Logic, sim.level, top),
         NEW q0, IsQueue(q0, Logic, sim.level, top)
  PROVE  /\ IsQueue(PutFanouts(q0, n), Logic, sim.level, top)
         /\ PutFanouts(q0, n).inQueue = q0.inQueue \cup sim.fanout[n]
<1> DEFINE fo == sim.order[n]
           D == 0 .. Len(fo)
           rank == [i \in D |-> i]
           Good(r) == IsQueue(r, Logic, sim.level, top)
                        /\ r.inQueue \subseteq q0.inQueue \cup sim.fanout[n]
           V == {r \in [mArray : [0 .. top -> Seq(Logic \cup {Junk})], mCurLevel : 0 .. top,
                        mNum : Nat, inQueue : SUBSET Logic] : Good(r)}
           One(r, i) == Put(r, fo[i], sim.level[fo[i]])
           Body(f) == [i \in D |-> IF i = 0 THEN q0 ELSE One(f[i - 1], i)]
           F == [f \in [D -> V] |-> Body(f)]
           put == CHOOSE f : f = Body(f)
<1>1. /\ Len(fo) \in Nat
      /\ \A i \in 1 .. Len(fo) : fo[i] \in sim.fanout[n] /\ fo[i] \in Logic
      /\ \A m \in sim.fanout[n] : \E i \in 1 .. Len(fo) : fo[i] = m
  <2>1. sim.fanout[n] \subseteq Nat /\ IsFiniteSet(sim.fanout[n]) /\ sim.fanout[n] \subseteq Logic
    BY SimFacts, FS_Subset
  <2>2. fo = Sorted(sim.fanout[n])
    BY DEF SimOK
  <2>3. fo \in Seq(sim.fanout[n]) /\ \A m \in sim.fanout[n] : \E i \in 1 .. Len(fo) : fo[i] = m
    <3> HIDE DEF fo
    <3> QED BY <2>1, <2>2, SortedFacts
  <2>4. Len(fo) \in Nat /\ \A i \in 1 .. Len(fo) : fo[i] \in sim.fanout[n]
    <3> HIDE DEF fo
    <3> QED BY <2>3, LenProperties, ElementOfSeq
  <2> QED BY <2>1, <2>3, <2>4
<1> HIDE DEF fo
<1>2. ASSUME NEW r, Good(r), NEW i \in 1 .. Len(fo) PROVE Good(One(r, i))
  <2>1. IsQueue(One(r, i), Logic, sim.level, top)
    BY <1>1, <1>2, PutPreserves
  <2>2. One(r, i).inQueue \subseteq r.inQueue \cup {fo[i]}
    BY DEF Put
  <2> HIDE DEF One
  <2> QED BY <1>1, <1>2, <2>1, <2>2
<1>3. ASSUME NEW r PROVE r \in V <=> Good(r)
  BY DEF IsQueue, Shaped
<1>a. ASSUME NEW r, Good(r), NEW i \in 1 .. Len(fo)
      PROVE  fo[i] \in One(r, i).inQueue /\ r.inQueue \subseteq One(r, i).inQueue
  <2>1. r.inQueue \subseteq Logic
    BY <1>a DEF IsQueue, Shaped
  <2> QED BY DEF Put
<1> HIDE DEF V, Good, One
<1>4. q0 \in V
  <2>1. Good(q0)
    BY DEF Good
  <2> QED BY <1>3, <2>1
<1>5. ASSUME NEW i \in D, i # 0 PROVE i - 1 \in D /\ i \in 1 .. Len(fo) /\ rank[i - 1] < rank[i]
  BY <1>1, <1>5
<1>6. ASSUME NEW f \in [D -> V] PROVE Body(f) \in [D -> V]
  <2>1. ASSUME NEW i \in D PROVE (IF i = 0 THEN q0 ELSE One(f[i - 1], i)) \in V
    <3>1. CASE i = 0
      BY <1>4, <3>1
    <3>2. CASE i # 0
      <4>1. i \in 1 .. Len(fo) /\ f[i - 1] \in V
        <5> HIDE DEF D, rank
        <5> QED BY <1>5, <3>2
      <4>2. One(f[i - 1], i) \in V
        BY <1>2, <1>3, <4>1
      <4> QED BY <3>2, <4>2
    <3> QED BY <3>1, <3>2
  <2> HIDE DEF D
  <2> QED BY <2>1
<1>7. F \in [[D -> V] -> [D -> V]]
  <2> HIDE DEF Body
  <2> QED BY <1>6
<1>8. ASSUME NEW f \in [D -> V], NEW g \in [D -> V], NEW i \in D,
             \A j \in D : rank[j] < rank[i] => f[j] = g[j]
      PROVE  F[f][i] = F[g][i]
  <2>1. i # 0 => f[i - 1] = g[i - 1]
    <3> HIDE DEF D, rank
    <3> QED BY <1>5, <1>8
  <2> HIDE DEF D
  <2> QED BY <2>1
<1>9. IsRecursion(D, V, rank, F)
  <2>1. V # {}
    BY <1>4
  <2>2. \E K \in Nat : \A i \in D : rank[i] \in 0 .. K
    BY <1>1
  <2> HIDE DEF F, rank, D
  <2> QED BY <1>7, <1>8, <2>1, <2>2 DEF IsRecursion
<1>10. \E f \in [D -> V] : f = F[f]
  <2> HIDE DEF F, rank, D
  <2> QED BY <1>9, RankRecursion
<1>11. put = Body(put)
  <2> HIDE DEF Body
  <2> QED BY <1>10
<1>12. PutFanouts(q0, n) = put[Len(fo)]
  BY DEF PutFanouts, fo, One
<1> HIDE DEF put
<1> DEFINE T == {i \in D : /\ put[i] \in V /\ q0.inQueue \subseteq put[i].inQueue
                          /\ \A j \in 1 .. i : fo[j] \in put[i].inQueue}
<1>13. ASSUME NEW i \in D, \A j \in D : rank[j] < rank[i] => j \in T PROVE i \in T
  <2>1. put[i] = IF i = 0 THEN q0 ELSE One(put[i - 1], i)
    <3> HIDE DEF D
    <3> QED BY <1>11
  <2>2. CASE i = 0
    BY <1>4, <2>1, <2>2
  <2>3. CASE i # 0
    <3>1. i - 1 \in T /\ i \in 1 .. Len(fo)
      <4> HIDE DEF D, rank, T
      <4> QED BY <1>5, <1>13, <2>3
    <3>2. put[i] \in V
      BY <1>2, <1>3, <2>1, <2>3, <3>1
    <3>3. fo[i] \in put[i].inQueue /\ put[i - 1].inQueue \subseteq put[i].inQueue
      BY <1>3, <1>a, <2>1, <2>3, <3>1
    <3>4. \A j \in 1 .. i : j = i \/ j \in 1 .. i - 1
      BY <3>1, <1>1
    <3> QED BY <3>1, <3>2, <3>3, <3>4
  <2> QED BY <2>2, <2>3
<1>14. D \subseteq T
  <2>1. \A i \in D : rank[i] \in Nat
    OBVIOUS
  <2> HIDE DEF D, rank, T
  <2> QED BY <1>13, <2>1, RankInduction
<1>15. /\ put[Len(fo)] \in V /\ q0.inQueue \subseteq put[Len(fo)].inQueue
       /\ \A j \in 1 .. Len(fo) : fo[j] \in put[Len(fo)].inQueue
  <2>1. Len(fo) \in D
    BY <1>1
  <2> HIDE DEF D
  <2> QED BY <1>14, <2>1
<1>16. sim.fanout[n] \subseteq put[Len(fo)].inQueue
  BY <1>1, <1>15
<1>17. IsQueue(put[Len(fo)], Logic, sim.level, top) /\ put[Len(fo)].inQueue \subseteq q0.inQueue \cup sim.fanout[n]
  BY <1>3, <1>15 DEF Good
<1> QED BY <1>12, <1>15, <1>16, <1>17

------------------------------------------------------------------------------
(***************************************************************************)
(* The inductive invariant                                                 *)
(***************************************************************************)
\* The level the queue reaches.
QTop == Top(IF CvfRuns THEN MaxOutputLevel(net, sim) ELSE FrameLevel(seq))

\* The nodes whose words a call sets.
Settled == IF CvfRuns THEN Nodes ELSE Nodes \ Later

\* What no step changes.
Context ==
  /\ SimOK
  /\ Levelled(Logic, sim.level, QTop)
  /\ \A b \in Batches : \A n \in Inputs \cap Settled : b[n] \subseteq Pats

\* Between simulations there are no marks, no events and nothing to clear; during
\* one of calc_exact the region's root is to be cleared and its DSS is marked.
Control ==
  /\ todo \in Seq(Roots)
  /\ pc = "dss" => todo # <<>> /\ mode # "none"
  /\ pc \in {"ffr", "sim"} => op = "exact"
  /\ pc = "sim" => /\ todo # <<>>
                   /\ target = dss[Head(todo)] /\ Head(todo) \in clear
  /\ pc # "sim" => clear = {} /\ target = {} /\ seen = {} /\ eq.inQueue = {}

\* The nodes on mClearArray are behind the queue.
Past == \A c \in clear, m \in eq.inQueue : c # m /\ sim.level[c] <= sim.level[m]

\* The nodes whose two words differ are to be cleared.
Differing == \A n \in Settled : fval[n] # gval[n] => n \in clear

CalcInv ==
  /\ Context /\ CvfTypeOK /\ IsQueue(eq, Logic, sim.level, QTop)
  /\ Control /\ Past /\ Differing

\* A step that is not part of a simulation.
Quiet ==
  /\ UNCHANGED <<netVars, svfVars, simVars>>
  /\ pc # "sim" /\ pc' \in {"dss", "idle", "ffr", "max"} /\ op' \in {"none", "exact", "min", "max"}
  /\ gval' \in [Nodes -> SUBSET Pats] /\ fval' \in [Nodes -> SUBSET Pats]
  /\ obs' \in [Nodes -> SUBSET Pats] /\ obs2' \in [Nodes -> SUBSET Pats]
  /\ dss' \in [Roots -> SUBSET Nodes] /\ cur' \subseteq Nodes /\ acc' \subseteq Nodes
  /\ left' \in 0 .. Samples
  /\ todo' \in Seq(Roots) /\ (pc' = "dss" => todo' # <<>> /\ mode # "none")
  /\ pc' = "ffr" => op' = "exact"
  /\ \A n \in Settled : fval'[n] = gval'[n]

\* What is built from the network keeps its value with it.
LEMMA SameNet ==
  ASSUME UNCHANGED <<netVars, svfVars>>
  PROVE  /\ Nodes' = Nodes /\ Logic' = Logic /\ Roots' = Roots /\ Inputs' = Inputs
         /\ QTop' = QTop /\ Settled' = Settled /\ sim' = sim /\ mode' = mode
         /\ Context => Context'
<1>1. net' = net /\ sim' = sim /\ mode' = mode /\ seq' = seq /\ frames' = frames
  BY DEF netVars, svfVars
<1>2. Nodes' = Nodes /\ Logic' = Logic /\ Roots' = Roots /\ Inputs' = Inputs
  BY <1>1 DEF Nodes, Logic, Roots, Inputs, IsInput
<1>3. QTop' = QTop
  BY <1>1 DEF QTop, CvfRuns
<1>4. Settled' = Settled
  BY <1>1, <1>2 DEF Settled, CvfRuns, Later
<1>5. Context => Context'
  BY <1>1, <1>2, <1>3, <1>4 DEF Context, SimOK
<1> QED BY <1>1, <1>2, <1>3, <1>4, <1>5

\* Such a step keeps the invariant.
LEMMA QuietStep ==
  ASSUME CalcInv, Quiet
  PROVE  CalcInv'
<1>1. UNCHANGED <<netVars, svfVars>> /\ target' = target /\ seen' = seen /\ clear' = clear /\ eq' = eq
  BY DEF Quiet, simVars
<1>2. /\ Nodes' = Nodes /\ Logic' = Logic /\ Roots' = Roots /\ QTop' = QTop
      /\ Settled' = Settled /\ sim' = sim /\ mode' = mode /\ Context'
  BY <1>1, SameNet DEF CalcInv
<1>3. CvfTypeOK'
  BY <1>1, <1>2 DEF CalcInv, CvfTypeOK, Quiet
<1>4. IsQueue(eq, Logic, sim.level, QTop)'
  BY <1>1, <1>2 DEF CalcInv
<1>5. Control'
  BY <1>1, <1>2 DEF CalcInv, Control, Quiet
<1>6. Past'
  BY <1>1, <1>2 DEF CalcInv, Past
<1>7. Differing'
  BY <1>2 DEF Differing, Quiet
<1> QED BY <1>2, <1>3, <1>4, <1>5, <1>6, <1>7 DEF CalcInv

\* A sequence of nodes from the last to the first.
Descending(s) == \A i, j \in DOMAIN s : i < j => s[j] < s[i]

\* The regions in the order of mFFRArray.
LEMMA RootSeqType ==
  ASSUME SimOK
  PROVE  /\ RootSeq(sim) \in Seq(Roots) /\ Descending(RootSeq(sim))
         /\ \A r \in Roots : \E i \in DOMAIN RootSeq(sim) : RootSeq(sim)[i] = r
<1>1. Roots = {n \in DOMAIN sim.root : sim.root[n] = n}
  BY DEF Roots, SimOK, IsRoots, Nodes
<1>2. Roots \subseteq Nat /\ IsFiniteSet(Roots)
  BY SimFacts, FS_Subset
<1>3. /\ Sorted(Roots) \in Seq(Roots)
      /\ \A n \in Roots : \E i \in 1 .. Len(Sorted(Roots)) : Sorted(Roots)[i] = n
      /\ \A i, j \in 1 .. Len(Sorted(Roots)) : i < j => Sorted(Roots)[i] < Sorted(Roots)[j]
  BY <1>2, SortedFacts
<1>4. PICK s \in Seq(Roots) :
        /\ s = Sorted(Roots)
        /\ \A n \in Roots : \E i \in 1 .. Len(s) : s[i] = n
        /\ \A i, j \in 1 .. Len(s) : i < j => s[i] < s[j]
  BY <1>3
<1>5. Len(s) \in Nat /\ \A i \in 1 .. Len(s) : s[i] \in Roots
  BY <1>4, LenProperties, ElementOfSeq
<1>6. Reverse(s) \in [1 .. Len(s) -> Roots]
  <2>1. \A i \in 1 .. Len(s) : Len(s) - i + 1 \in 1 .. Len(s)
    BY <1>5
  <2>2. \A i \in 1 .. Len(s) : s[Len(s) - i + 1] \in Roots
    BY <1>5, <2>1
  <2> QED BY <2>2 DEF Reverse
<1>7. Reverse(s) \in Seq(Roots)
  BY <1>5, <1>6, AsSeq
<1>8. DOMAIN Reverse(s) = 1 .. Len(s) /\ \A i \in 1 .. Len(s) : Reverse(s)[i] = s[Len(s) - i + 1]
  BY DEF Reverse
<1>9. Descending(Reverse(s))
  <2> SUFFICES ASSUME NEW i \in 1 .. Len(s), NEW j \in 1 .. Len(s), i < j
               PROVE  s[Len(s) - j + 1] < s[Len(s) - i + 1]
    BY <1>8 DEF Descending
  <2>1. /\ Len(s) - j + 1 \in 1 .. Len(s) /\ Len(s) - i + 1 \in 1 .. Len(s)
        /\ Len(s) - j + 1 < Len(s) - i + 1
    BY <1>5
  <2> QED BY <1>4, <2>1
<1>10. ASSUME NEW r \in Roots PROVE \E i \in DOMAIN Reverse(s) : Reverse(s)[i] = r
  <2>1. PICK j \in 1 .. Len(s) : s[j] = r
    BY <1>4
  <2>2. /\ Len(s) - j + 1 \in 1 .. Len(s)
        /\ Len(s) - (Len(s) - j + 1) + 1 = j
    BY <1>5
  <2> QED BY <1>8, <2>1, <2>2
<1>11. RootSeq(sim) = Reverse(s)
  BY <1>1, <1>4 DEF RootSeq
<1> QED BY <1>7, <1>9, <1>10, <1>11

\* What is left of the regions once the first is done.
LEMMA TodoRest ==
  ASSUME NEW S, NEW s \in Seq(S), s # <<>>
  PROVE  Head(s) \in S /\ Tail(s) \in Seq(S)
BY HeadTailProperties

------------------------------------------------------------------------------
\* The steps of find_dss keep cur_set and the DSSs sets of nodes.
LEMMA DssQuiet ==
  ASSUME CalcInv, UNCHANGED svfVars, DssDone \/ DssOld \/ DssLocal \/ DssGlobal
  PROVE  Quiet
<1>1. /\ SimOK /\ CvfTypeOK /\ pc = "dss" /\ mode # "none" /\ todo # <<>>
      /\ Head(todo) \in Roots /\ Tail(todo) \in Seq(Roots)
  <2>1. pc = "dss"
    BY DEF DssDone, DssOld, DssLocal, DssGlobal
  <2> QED BY <2>1, TodoRest DEF CalcInv, Context, Control
<1>2. /\ \A n \in Nodes : sim.fanout[n] \subseteq Nodes /\ sim.root[n] \in Nodes
      /\ Roots \subseteq Nodes
  BY <1>1, SimFacts DEF SimOK
<1>3. /\ cur \subseteq Nodes /\ acc \subseteq Nodes /\ dss \in [Roots -> SUBSET Nodes]
      /\ Shared \subseteq cur
  BY <1>1 DEF CvfTypeOK, Shared
<1>4. \A n \in Settled : fval[n] = gval[n]
  BY <1>1 DEF CalcInv, Differing, Control
<1>5. ASSUME DssDone PROVE Quiet
  <2>1. /\ dss' = [dss EXCEPT ![Head(todo)] = acc \cup cur] /\ acc' = {}
        /\ todo' = Tail(todo)
        /\ cur' = IF todo' = <<>> THEN {} ELSE sim.fanout[Head(todo')]
        /\ pc' = IF todo' = <<>> THEN "idle" ELSE "dss"
        /\ UNCHANGED <<netVars, op, gval, fval, obs, obs2, simVars, left>>
    BY <1>5 DEF DssDone
  <2>2. dss' \in [Roots -> SUBSET Nodes]
    BY <1>1, <1>3, <2>1
  <2>3. todo' \in Seq(Roots) /\ (todo' # <<>> => Head(todo') \in Roots)
    BY <1>1, <2>1, TodoRest
  <2>4. cur' \subseteq Nodes /\ acc' \subseteq Nodes
    BY <1>2, <2>1, <2>3
  <2>5. pc' \in {"dss", "idle"} /\ (pc' = "dss" => todo' # <<>>)
    BY <2>1
  <2> QED BY <1>1, <1>4, <2>1, <2>2, <2>3, <2>4, <2>5 DEF Quiet, CvfTypeOK
<1>6. ASSUME NEW cur1, NEW acc1, cur1 \subseteq Nodes, acc1 \subseteq Nodes, DssStep(cur1, acc1)
      PROVE  Quiet
  <2>1. /\ cur' = cur1 /\ acc' = acc \cup (cur \ Shared) \cup acc1
        /\ UNCHANGED <<netVars, dss, todo, pc, op, gval, fval, obs, obs2, simVars, left>>
    BY <1>6 DEF DssStep
  <2>2. cur' \subseteq Nodes /\ acc' \subseteq Nodes
    BY <1>3, <1>6, <2>1
  <2>3. todo \in Seq(Roots)
    BY DEF CalcInv, Control
  <2> QED BY <1>1, <1>4, <2>1, <2>2, <2>3 DEF Quiet, CvfTypeOK
<1>7. \A m \in MinNodes : m \in Shared /\ m \in Nodes
  BY <1>3 DEF MinNodes
<1>8. ASSUME DssOld PROVE Quiet
  <2>1. PICK m \in MinNodes : DssStep((Shared \ {m}) \cup sim.fanout[m], {})
    BY <1>8 DEF DssOld
  <2>2. (Shared \ {m}) \cup sim.fanout[m] \subseteq Nodes /\ {} \subseteq Nodes
    BY <1>2, <1>3, <1>7
  <2> HIDE DEF Quiet
  <2> QED BY <1>6, <2>1, <2>2
<1>9. ASSUME DssLocal PROVE Quiet
  <2>1. PICK m \in MinNodes : DssStep(Shared \ SameFFR(m), {Meet(SameFFR(m))})
    BY <1>9 DEF DssLocal
  <2>2. SameFFR(m) \subseteq Nodes /\ \A x \in SameFFR(m) : sim.root[x] = sim.root[m]
    BY <1>3 DEF SameFFR
  <2>3. Meet(SameFFR(m)) \in Nodes
    BY <1>1, <1>7, <2>2, MeetFacts
  <2>4. Shared \ SameFFR(m) \subseteq Nodes /\ {Meet(SameFFR(m))} \subseteq Nodes
    BY <1>3, <2>3
  <2> QED BY <1>6, <2>1, <2>4
<1>10. ASSUME DssGlobal PROVE Quiet
  <2>1. PICK m \in MinNodes : DssStep(Advance(m), {})
    BY <1>10 DEF DssGlobal
  <2>2. \A x \in Others(m) : x \in Nodes /\ sim.root[x] \in Nodes
    BY <1>2, <1>3 DEF Others
  <2>3. (IF m \in Roots THEN dss[m] ELSE {sim.root[m]}) \subseteq Nodes
    BY <1>2, <1>3, <1>7
  <2>4. Shared \subseteq Nodes
    BY <1>3
  <2>5. Advance(m) \subseteq Nodes /\ {} \subseteq Nodes
    BY <2>2, <2>3, <2>4 DEF Advance
  <2> QED BY <1>6, <2>1, <2>5
<1> QED BY <1>5, <1>8, <1>9, <1>10

\* The steps outside find_dss that simulate nothing.
LEMMA LoopQuiet ==
  ASSUME CalcInv, UNCHANGED svfVars,
         FfrOutput \/ EndExact \/ (\E o \in Orders : MaxRound(o)) \/ EndMax
  PROVE  Quiet
<1>1. SimOK /\ CvfTypeOK /\ pc # "sim" /\ todo \in Seq(Roots)
  BY DEF CalcInv, Context, Control, FfrOutput, EndExact, MaxRound, EndMax
<1>a. pc = "ffr" => op = "exact"
  BY DEF CalcInv, Control
<1>2. \A n \in Settled : fval[n] = gval[n]
  BY <1>1 DEF CalcInv, Differing, Control
<1>3. ASSUME FfrOutput PROVE Quiet
  <2>1. /\ pc = "ffr" /\ todo # <<>> /\ obs' = Spread(Head(todo), Pats) /\ todo' = Tail(todo)
        /\ UNCHANGED <<netVars, dssVars, pc, op, gval, fval, obs2, simVars, left>>
    BY <1>3 DEF FfrOutput
  <2>2. Head(todo) \in Roots /\ todo' \in Seq(Roots)
    BY <1>1, <2>1, TodoRest
  <2>3. obs' \in [Nodes -> SUBSET Pats]
    BY <1>1, <2>1, <2>2, SpreadType DEF CvfTypeOK
  <2> QED BY <1>1, <1>a, <1>2, <2>1, <2>2, <2>3 DEF Quiet, CvfTypeOK, dssVars
<1>4. ASSUME EndExact PROVE Quiet
  BY <1>1, <1>2, <1>4 DEF EndExact, Quiet, CvfTypeOK, dssVars
<1>5. ASSUME NEW o, MaxRound(o) PROVE Quiet
  <2>1. PICK ob : obs' = [n \in Nodes |-> obs[n] \cap ob[n]]
    BY <1>5 DEF MaxRound
  <2>2. obs' \in [Nodes -> SUBSET Pats]
    BY <1>1, <2>1 DEF CvfTypeOK
  <2>3. /\ obs2' = [n \in Nodes |-> {}] /\ left > 0 /\ left' = left - 1 /\ pc = "max"
        /\ UNCHANGED <<netVars, dssVars, todo, pc, op, gval, fval, simVars>>
    BY <1>5 DEF MaxRound
  <2>4. obs2' \in [Nodes -> SUBSET Pats]
    BY <2>3
  <2>5. left' \in 0 .. Samples
    BY <1>1, <2>3, CvfAssumption DEF CvfTypeOK
  <2> QED BY <1>1, <1>2, <2>2, <2>3, <2>4, <2>5 DEF Quiet, CvfTypeOK, dssVars
<1>6. ASSUME EndMax PROVE Quiet
  BY <1>1, <1>2, <1>6 DEF EndMax, Quiet, CvfTypeOK, dssVars
<1> QED BY <1>3, <1>4, <1>5, <1>6

\* The first words of a call of either program, and what its backward pass makes
\* of them.
LEMMA PassType ==
  ASSUME SimOK, NEW share, \A p \in AllPins : share[p] \subseteq Pats
  PROVE  /\ [n \in Nodes |-> {}] \in [Nodes -> SUBSET Pats]
         /\ Backward(StartOutputs([n \in Nodes |-> {}]), share) \in [Nodes -> SUBSET Pats]
<1>1. StartOutputs([n \in Nodes |-> {}]) \in [Nodes -> SUBSET Pats]
  BY DEF StartOutputs
<1>2. Backward(StartOutputs([n \in Nodes |-> {}]), share) \in [Nodes -> SUBSET Pats]
  BY <1>1, BackwardType
<1>3. [n \in Nodes |-> {}] \in [Nodes -> SUBSET Pats]
  OBVIOUS
<1> QED BY <1>2, <1>3

\* The start of a call of CalcCvf, and calc_pseudo_min as a whole.
LEMMA CvfCallQuiet ==
  ASSUME CalcInv, UNCHANGED svfVars, CvfRuns, Call
  PROVE  Quiet
<1>1. SimOK /\ CvfTypeOK /\ todo \in Seq(Roots)
  BY DEF CalcInv, Context, Control
<1>2. PICK b \in Batches : StartExact(b) \/ CalcPseudoMin(b) \/ StartMax(b)
  BY DEF Call
<1>3. pc = "idle" /\ CalcGval(b) /\ UNCHANGED <<netVars, dssVars, obs2, simVars>>
  BY <1>2 DEF StartExact, CalcPseudoMin, StartMax
<1>4. gval' \in [Nodes -> SUBSET Pats] /\ fval' = gval'
  <2>1. \A n \in Inputs : b[n] \subseteq Pats
    BY DEF CalcInv, Context, Settled, Inputs
  <2> QED BY <1>1, <1>3, <2>1, GoodValuesType DEF SimOK, CalcGval
<1>5. CASE StartExact(b)
  <2>1. /\ obs' = [n \in Nodes |-> {}] /\ op' = "exact" /\ todo' = RootSeq(sim) /\ pc' = "ffr"
        /\ left' = left
    BY <1>5 DEF StartExact
  <2>2. obs' \in [Nodes -> SUBSET Pats] /\ todo' \in Seq(Roots)
    BY <1>1, <2>1, RootSeqType
  <2> QED BY <1>1, <1>3, <1>4, <2>1, <2>2 DEF Quiet, CvfTypeOK, dssVars
<1>6. CASE CalcPseudoMin(b)
  <2> DEFINE share == [p \in AllPins |-> Sensitive(p[1], p[2], gval')]
  <2>1. /\ obs' = Backward(StartOutputs([n \in Nodes |-> {}]), share) /\ op' = "min"
        /\ UNCHANGED <<todo, pc, left>>
    BY <1>6 DEF CalcPseudoMin
  <2>2. \A p \in AllPins : share[p] \subseteq Pats
    BY DEF Sensitive, AllPass
  <2>3. obs' \in [Nodes -> SUBSET Pats]
    <3> HIDE DEF share
    <3> QED BY <1>1, <2>1, <2>2, PassType
  <2> QED BY <1>1, <1>3, <1>4, <2>1, <2>3 DEF Quiet, CvfTypeOK, dssVars
<1>7. CASE StartMax(b)
  <2>1. /\ obs' = [n \in Nodes |-> Pats] /\ op' = "max" /\ left' = Samples /\ pc' = "max"
        /\ todo' = todo
    BY <1>7 DEF StartMax
  <2>2. obs' \in [Nodes -> SUBSET Pats] /\ left' \in 0 .. Samples
    BY <2>1, CvfAssumption
  <2> QED BY <1>1, <1>3, <1>4, <2>1, <2>2 DEF Quiet, CvfTypeOK, dssVars
<1> QED BY <1>2, <1>5, <1>6, <1>7

\* The same for CalcSvf, whose later inputs keep their words.
LEMMA SvfCallQuiet ==
  ASSUME CalcInv, UNCHANGED svfVars, ~CvfRuns, SvfCall
  PROVE  Quiet
<1>1. SimOK /\ CvfTypeOK /\ todo \in Seq(Roots)
  BY DEF CalcInv, Context, Control
<1>2. PICK b \in Batches : SvfExactCall(b) \/ SvfPseudoMin(b) \/ SvfMax(b)
  BY DEF SvfCall
<1>3. pc = "idle" /\ SvfGval(b) /\ UNCHANGED <<netVars, dssVars, obs2, simVars, left>>
  BY <1>2 DEF SvfExactCall, SvfPseudoMin, SvfMax
<1>4. /\ gval' \in [Nodes -> SUBSET Pats] /\ fval' \in [Nodes -> SUBSET Pats]
      /\ \A n \in Settled : fval'[n] = gval'[n]
  <2> DEFINE words == [n \in Inputs |-> IF n \in Later THEN gval[n] ELSE b[n]]
  <2>1. \A n \in Inputs : words[n] \subseteq Pats
    BY <1>1 DEF CalcInv, Context, Settled, Inputs, CvfTypeOK
  <2>2. gval' = GoodValues(words) /\ fval' = [n \in Nodes |-> IF n \in Later THEN fval[n] ELSE gval'[n]]
    BY <1>3 DEF SvfGval
  <2>3. gval' \in [Nodes -> SUBSET Pats]
    <3> HIDE DEF words
    <3> QED BY <1>1, <2>1, <2>2, GoodValuesType DEF SimOK
  <2> QED BY <1>1, <2>2, <2>3 DEF CvfTypeOK, Settled
<1>5. CASE SvfExactCall(b)
  <2>1. obs' = [n \in Nodes |-> {}] /\ op' = "exact" /\ todo' = RootSeq(sim) /\ pc' = "ffr"
    BY <1>5 DEF SvfExactCall
  <2>2. obs' \in [Nodes -> SUBSET Pats] /\ todo' \in Seq(Roots)
    BY <1>1, <2>1, RootSeqType
  <2> QED BY <1>1, <1>3, <1>4, <2>1, <2>2 DEF Quiet, CvfTypeOK, dssVars
<1>6. CASE SvfPseudoMin(b)
  <2> DEFINE share == [p \in AllPins |-> Sensitive(p[1], p[2], gval')]
  <2>1. /\ obs' = Backward(StartOutputs([n \in Nodes |-> {}]), share) /\ op' = "min"
        /\ UNCHANGED <<todo, pc>>
    BY <1>6 DEF SvfPseudoMin
  <2>2. \A p \in AllPins : share[p] \subseteq Pats
    BY DEF Sensitive, AllPass
  <2>3. obs' \in [Nodes -> SUBSET Pats]
    <3> HIDE DEF share
    <3> QED BY <1>1, <2>1, <2>2, PassType
  <2> QED BY <1>1, <1>3, <1>4, <2>1, <2>3 DEF Quiet, CvfTypeOK, dssVars
<1>7. CASE SvfMax(b)
  <2> DEFINE share == [p \in AllPins |-> SvfShare(p[1], p[2], gval')]
  <2>1. /\ obs' = Backward(StartOutputs([n \in Nodes |-> {}]), share) /\ op' = "max"
        /\ UNCHANGED <<todo, pc>>
    BY <1>7 DEF SvfMax
  <2>2. \A p \in AllPins : share[p] \subseteq Pats
    BY DEF SvfShare, AllPass
  <2>3. obs' \in [Nodes -> SUBSET Pats]
    <3> HIDE DEF share
    <3> QED BY <1>1, <2>1, <2>2, PassType
  <2> QED BY <1>1, <1>3, <1>4, <2>1, <2>3 DEF Quiet, CvfTypeOK, dssVars
<1> QED BY <1>2, <1>5, <1>6, <1>7

------------------------------------------------------------------------------
\* A change of a region's root is put into an empty queue.
LEMMA FfrStartStep ==
  ASSUME CalcInv, UNCHANGED svfVars, FfrStart
  PROVE  CalcInv'
<1> DEFINE r == Head(todo)
<1>1. /\ SimOK /\ CvfTypeOK /\ Control /\ Levelled(Logic, sim.level, QTop)
      /\ IsQueue(eq, Logic, sim.level, QTop)
      /\ pc = "ffr" /\ op = "exact" /\ todo # <<>> /\ todo \in Seq(Roots)
      /\ clear = {} /\ target = {} /\ seen = {} /\ eq.inQueue = {}
  BY DEF CalcInv, Context, Control, FfrStart
<1>2. r \in Roots /\ r \in Nodes
  BY <1>1, TodoRest, SimFacts
<1>3. /\ target' = dss[r] /\ fval' = [fval EXCEPT ![r] = Xor(gval[r], Request(r))]
      /\ clear' = {r} /\ eq' = PutFanouts(eq, r) /\ seen' = {} /\ pc' = "sim"
      /\ UNCHANGED <<netVars, dssVars, todo, op, gval, obs, obs2, left>>
  BY DEF FfrStart
<1>4. UNCHANGED <<netVars, svfVars>> /\ UNCHANGED <<dss, cur, acc>>
  BY <1>3 DEF dssVars
<1>5. /\ Nodes' = Nodes /\ Logic' = Logic /\ Roots' = Roots /\ QTop' = QTop
      /\ Settled' = Settled /\ sim' = sim /\ mode' = mode /\ Context'
  BY <1>4, SameNet DEF CalcInv
<1>6. Request(r) \subseteq Pats
  BY <1>1, <1>2 DEF Request, CvfTypeOK
<1>7. fval' \in [Nodes -> SUBSET Pats] /\ \A n \in Nodes : n # r => fval'[n] = fval[n]
  <2>1. Xor(gval[r], Request(r)) \subseteq Pats
    BY <1>1, <1>2, <1>6 DEF Xor, CvfTypeOK
  <2> HIDE DEF r
  <2> QED BY <1>1, <1>3, <2>1 DEF CvfTypeOK
<1>8. /\ IsQueue(eq', Logic, sim.level, QTop) /\ eq'.inQueue \subseteq sim.fanout[r]
      /\ eq'.inQueue \subseteq Logic
  <2>1. /\ IsQueue(PutFanouts(eq, r), Logic, sim.level, QTop)
        /\ PutFanouts(eq, r).inQueue \subseteq eq.inQueue \cup sim.fanout[r]
    BY <1>1, <1>2, PutFanoutsFacts
  <2> QED BY <1>1, <1>3, <2>1, SimFacts, <1>2
<1> HIDE DEF r
<1>9. CvfTypeOK'
  <2>1. dss[r] \subseteq Nodes
    BY <1>1, <1>2 DEF CvfTypeOK
  <2> QED BY <1>1, <1>2, <1>3, <1>4, <1>5, <1>7, <1>8, <2>1 DEF CvfTypeOK
<1>10. IsQueue(eq, Logic, sim.level, QTop)'
  BY <1>5, <1>8
<1>11. Control'
  BY <1>1, <1>3, <1>4, <1>5 DEF Control, r
<1>12. Past'
  <2>1. \A m \in eq'.inQueue : r < m /\ sim.level[r] < sim.level[m]
                               /\ r \in Nat /\ sim.level[r] \in Nat /\ sim.level[m] \in Nat
    BY <1>1, <1>2, <1>8, SimFacts
  <2>2. \A m \in eq'.inQueue : r # m /\ sim.level[r] <= sim.level[m]
    BY <2>1
  <2> QED BY <1>3, <1>5, <2>2 DEF Past
<1>13. Differing'
  <2>1. \A n \in Settled : n \in Nodes /\ fval[n] = gval[n]
    BY <1>1 DEF CalcInv, Differing, Settled
  <2> QED BY <1>3, <1>5, <1>7, <2>1 DEF Differing
<1> QED BY <1>5, <1>9, <1>10, <1>11, <1>12, <1>13 DEF CalcInv

\* What an event leaves in the queue is not below it, and it was not evaluated
\* before.
LEMMA EventFacts ==
  ASSUME CalcInv, UNCHANGED svfVars, Event
  PROVE  /\ First(eq) \in Logic /\ First(eq) \in Nodes /\ First(eq) \notin clear
         /\ \A c \in clear : sim.level[c] <= sim.level[First(eq)]
         /\ IsQueue(eq', Logic, sim.level, QTop)
         /\ \A m \in eq'.inQueue :
              /\ m \in Nodes /\ m # First(eq) /\ sim.level[First(eq)] <= sim.level[m]
              /\ m \in eq.inQueue
                   \/ (Diff(First(eq)) # {} /\ sim.level[First(eq)] < sim.level[m])
<1> DEFINE n == First(eq)
           d == Diff(n)
<1>1. /\ SimOK /\ Levelled(Logic, sim.level, QTop) /\ IsQueue(eq, Logic, sim.level, QTop)
      /\ eq.mNum > 0
  BY DEF CalcInv, Context, Event
<1>2. n \in eq.inQueue /\ sim.level[n] = Lowest(eq)
  BY <1>1, SearchEnds
<1>3. eq.inQueue \subseteq Logic /\ Logic \subseteq Nodes
  BY <1>1, SimFacts DEF IsQueue, Shaped
<1>4. IsQueue(Pop(eq), Logic, sim.level, QTop)
  BY <1>1, PopPreserves
<1>5. \A m \in Pop(eq).inQueue : m \in eq.inQueue /\ m # n /\ sim.level[n] <= sim.level[m]
  <2>1. Pop(eq).mCurLevel = Lowest(eq) /\ Pop(eq).inQueue = eq.inQueue \ {n}
    BY DEF Pop
  <2> HIDE DEF n
  <2> QED BY <1>2, <1>4, <2>1 DEF IsQueue, Ahead
<1> HIDE DEF n
<1>6. n \notin clear /\ \A c \in clear : sim.level[c] <= sim.level[n]
  BY <1>2 DEF CalcInv, Past
<1>7. eq' = After(n, d)
  BY DEF Event, n
<1> HIDE DEF d
<1>8. CASE d = {} \/ eq' = Pop(eq)
  <2>1. eq' = Pop(eq)
    BY <1>7, <1>8 DEF After
  <2> QED BY <1>2, <1>3, <1>4, <1>5, <1>6, <2>1 DEF n
<1>9. CASE ~(d = {} \/ eq' = Pop(eq))
  <2>1. eq' = PutFanouts(Pop(eq), n) /\ d # {}
    BY <1>7, <1>9 DEF After
  <2>2. n \in Nodes
    BY <1>2, <1>3
  <2>3. /\ IsQueue(eq', Logic, sim.level, QTop)
        /\ eq'.inQueue \subseteq Pop(eq).inQueue \cup sim.fanout[n]
    BY <1>1, <1>4, <2>1, <2>2, PutFanoutsFacts
  <2>4. \A m \in sim.fanout[n] :
          m \in Nodes /\ m # n /\ sim.level[n] <= sim.level[m] /\ sim.level[n] < sim.level[m]
    <3>1. \A m \in sim.fanout[n] :
            m \in Nodes /\ n < m /\ sim.level[n] < sim.level[m]
              /\ sim.level[n] \in Nat /\ sim.level[m] \in Nat /\ n \in Nat /\ m \in Nat
      BY <1>1, <2>2, SimFacts
    <3>2. \A x, y \in Nat : x < y => x <= y /\ x # y
      OBVIOUS
    <3> QED BY <3>1, <3>2
  <2>5. \A m \in eq'.inQueue :
          /\ m \in Nodes /\ m # n /\ sim.level[n] <= sim.level[m]
          /\ m \in eq.inQueue \/ sim.level[n] < sim.level[m]
    BY <1>3, <1>5, <2>3, <2>4
  <2> QED BY <1>2, <1>3, <1>6, <2>1, <2>3, <2>5 DEF n, d
<1> QED BY <1>8, <1>9

\* An event toggles what differs and marks it to be cleared.
LEMMA EventStep ==
  ASSUME CalcInv, UNCHANGED svfVars, Event
  PROVE  CalcInv'
<1> DEFINE n == First(eq)
           d == Diff(n)
<1>1. /\ SimOK /\ CvfTypeOK /\ Control /\ pc = "sim" /\ op = "exact"
      /\ todo # <<>> /\ todo \in Seq(Roots) /\ target = dss[Head(todo)] /\ Head(todo) \in clear
  BY DEF CalcInv, Context, Control, Event
<1>2. /\ fval' = [fval EXCEPT ![n] = Xor(@, d)]
      /\ clear' = Cleared(n, d) /\ seen' = seen \cup Found(n, d)
      /\ UNCHANGED <<netVars, dssVars, todo, pc, op, gval, obs, obs2, target, left>>
  BY DEF Event
<1>3. UNCHANGED <<netVars, svfVars>> /\ UNCHANGED <<dss, cur, acc>>
  BY <1>2 DEF dssVars
<1>4. /\ Nodes' = Nodes /\ Logic' = Logic /\ Roots' = Roots /\ QTop' = QTop
      /\ Settled' = Settled /\ sim' = sim /\ mode' = mode /\ Context'
  BY <1>3, SameNet DEF CalcInv
<1>5. /\ n \in Logic /\ n \in Nodes /\ n \notin clear
      /\ \A c \in clear : sim.level[c] <= sim.level[n]
      /\ IsQueue(eq', Logic, sim.level, QTop)
      /\ \A m \in eq'.inQueue :
           /\ m \in Nodes /\ m # n /\ sim.level[n] <= sim.level[m]
           /\ m \in eq.inQueue \/ (d # {} /\ sim.level[n] < sim.level[m])
  BY EventFacts
<1> HIDE DEF n
<1>6. d \subseteq Pats
  <2> DEFINE v == [i \in DOMAIN net.fanin[n] |-> fval[net.fanin[n][i]]]
  <2>1. net.type[n] \in Gates /\ 1 \in DOMAIN net.fanin[n]
        /\ \A i \in DOMAIN net.fanin[n] : net.fanin[n][i] \in Nodes
    BY <1>1, <1>5, NetFacts DEF SimOK, Nodes, Logic, Inputs, IsInput
  <2>2. 1 \in DOMAIN v /\ \A i \in DOMAIN v : v[i] \subseteq Pats
    BY <1>1, <2>1 DEF CvfTypeOK
  <2>3. Output(net.type[n], v) \subseteq Pats
    <3> HIDE DEF v
    <3> QED BY <2>1, <2>2, OutputType
  <2>4. d = Xor(gval[n], Output(net.type[n], v)) \ seen
    BY DEF Diff
  <2>5. gval[n] \subseteq Pats
    BY <1>1, <1>5 DEF CvfTypeOK
  <2> HIDE DEF d, v
  <2> QED BY <2>3, <2>4, <2>5 DEF Xor
<1> HIDE DEF d
<1>7. /\ clear \subseteq clear' /\ clear' \subseteq clear \cup {n}
      /\ d # {} => n \in clear'
      /\ d = {} => clear' = clear
  BY <1>2 DEF Cleared
<1>8. seen' \subseteq Pats
  BY <1>1, <1>2, <1>6 DEF Found, CvfTypeOK
<1>9. /\ fval' \in [Nodes -> SUBSET Pats] /\ \A m \in Nodes : m # n => fval'[m] = fval[m]
      /\ d = {} => fval'[n] = fval[n]
  <2>1. Xor(fval[n], d) \subseteq Pats /\ (d = {} => Xor(fval[n], d) = fval[n])
    BY <1>1, <1>5, <1>6 DEF Xor, CvfTypeOK
  <2> QED BY <1>1, <1>2, <1>5, <2>1 DEF CvfTypeOK
<1>10. CvfTypeOK'
  <2>1. eq'.inQueue \subseteq Logic
    BY <1>5 DEF IsQueue, Shaped
  <2>2. clear' \subseteq Nodes
    BY <1>1, <1>5, <1>7 DEF CvfTypeOK
  <2> QED BY <1>1, <1>2, <1>3, <1>4, <1>8, <1>9, <2>1, <2>2 DEF CvfTypeOK
<1>11. IsQueue(eq, Logic, sim.level, QTop)'
  BY <1>4, <1>5
<1>12. Control'
  BY <1>1, <1>2, <1>3, <1>4, <1>7 DEF Control
<1>13. Past'
  <2> SUFFICES ASSUME NEW c \in clear', NEW m \in eq'.inQueue
               PROVE  c # m /\ sim.level[c] <= sim.level[m]
    BY <1>4 DEF Past
  <2>0. /\ m \in Nodes /\ m # n /\ sim.level[n] <= sim.level[m]
        /\ m \in eq.inQueue \/ (d # {} /\ sim.level[n] < sim.level[m])
    BY <1>5
  <2>1. CASE c \in clear /\ m \in eq.inQueue
    BY <2>1 DEF CalcInv, Past
  <2>2. CASE c \in clear /\ m \notin eq.inQueue
    <3>1. /\ sim.level[c] <= sim.level[n] /\ sim.level[n] < sim.level[m]
          /\ sim.level[c] \in Nat /\ sim.level[n] \in Nat /\ sim.level[m] \in Nat
      BY <1>1, <1>5, <2>0, <2>2, SimFacts DEF CvfTypeOK
    <3> QED BY <3>1
  <2>3. CASE c \notin clear
    BY <1>7, <2>0, <2>3
  <2> QED BY <2>1, <2>2, <2>3
<1>14. Differing'
  <2>1. \A m \in Settled : m \in Nodes /\ (fval[m] # gval[m] => m \in clear)
    BY <1>1 DEF CalcInv, Differing, Settled
  <2> QED BY <1>2, <1>4, <1>7, <1>9, <2>1 DEF Differing
<1> QED BY <1>4, <1>10, <1>11, <1>12, <1>13, <1>14 DEF CalcInv

\* The end of a simulation restores what is to be cleared.
LEMMA FfrEndStep ==
  ASSUME CalcInv, UNCHANGED svfVars, FfrEnd
  PROVE  CalcInv'
<1>1. /\ SimOK /\ CvfTypeOK /\ Control /\ pc = "sim" /\ op = "exact"
      /\ todo # <<>> /\ todo \in Seq(Roots) /\ target = dss[Head(todo)]
      /\ Head(todo) \in Roots /\ Tail(todo) \in Seq(Roots)
  BY TodoRest DEF CalcInv, Context, Control, FfrEnd
<1>2. /\ eq.mNum = 0 /\ fval' = Restored(clear) /\ target' = target \ dss[Head(todo)]
      /\ obs' = Spread(Head(todo), seen) /\ todo' = Tail(todo)
      /\ pc' = "ffr" /\ seen' = {} /\ clear' = {}
      /\ UNCHANGED <<netVars, dssVars, op, gval, obs2, eq, left>>
  BY DEF FfrEnd
<1>3. UNCHANGED <<netVars, svfVars>> /\ UNCHANGED <<dss, cur, acc>>
  BY <1>2 DEF dssVars
<1>4. /\ Nodes' = Nodes /\ Logic' = Logic /\ Roots' = Roots /\ QTop' = QTop
      /\ Settled' = Settled /\ sim' = sim /\ mode' = mode /\ Context'
  BY <1>3, SameNet DEF CalcInv
<1>5. eq.inQueue = {}
  BY <1>2, EmptyQueue DEF CalcInv, Context
<1>6. fval' \in [Nodes -> SUBSET Pats]
  BY <1>1, <1>2 DEF Restored, CvfTypeOK
<1>7. obs' \in [Nodes -> SUBSET Pats]
  BY <1>1, <1>2, SpreadType DEF CvfTypeOK
<1>8. CvfTypeOK'
  BY <1>1, <1>2, <1>3, <1>4, <1>6, <1>7 DEF CvfTypeOK
<1>9. IsQueue(eq, Logic, sim.level, QTop)'
  BY <1>2, <1>4 DEF CalcInv
<1>10. Control'
  BY <1>1, <1>2, <1>4, <1>5 DEF Control
<1>11. Past'
  BY <1>2 DEF Past
<1>12. Differing'
  <2>1. \A m \in Settled : m \in Nodes /\ (fval[m] # gval[m] => m \in clear)
    BY <1>1 DEF CalcInv, Differing, Settled
  <2>2. \A m \in Nodes : fval'[m] = IF m \in clear THEN gval[m] ELSE fval[m]
    BY <1>2 DEF Restored
  <2> QED BY <1>2, <1>4, <2>1, <2>2 DEF Differing
<1> QED BY <1>4, <1>8, <1>9, <1>10, <1>11, <1>12 DEF CalcInv

\* Every step of either program keeps the invariant.
LEMMA CalcStep ==
  ASSUME CalcInv, [CalcNext]_<<vars, svfVars>>
  PROVE  CalcInv'
<1>1. CASE UNCHANGED <<vars, svfVars>>
  <2>1. UNCHANGED <<netVars, svfVars>>
    BY <1>1 DEF vars
  <2>2. /\ Nodes' = Nodes /\ Logic' = Logic /\ Roots' = Roots /\ QTop' = QTop
        /\ Settled' = Settled /\ sim' = sim /\ mode' = mode /\ Context'
    BY <2>1, SameNet DEF CalcInv
  <2>3. /\ UNCHANGED <<netVars, dssVars, todo, pc, op, gval, fval, obs, obs2, simVars, left>>
        /\ UNCHANGED <<dss, cur, acc>> /\ UNCHANGED <<target, seen, clear, eq>>
    BY <1>1 DEF vars, dssVars, simVars
  <2>4. CvfTypeOK'
    BY <2>2, <2>3 DEF CalcInv, CvfTypeOK
  <2>5. IsQueue(eq, Logic, sim.level, QTop)'
    BY <2>2, <2>3 DEF CalcInv
  <2>6. Control' /\ Past' /\ Differing'
    BY <2>2, <2>3 DEF CalcInv, Control, Past, Differing
  <2> QED BY <2>2, <2>4, <2>5, <2>6 DEF CalcInv
<1>2. CASE CalcNext
  <2>1. UNCHANGED svfVars /\ ((CvfRuns /\ Call) \/ (~CvfRuns /\ SvfCall) \/ Work)
    BY <1>2 DEF CalcNext, Next, SvfNext
  <2>2. CASE (CvfRuns /\ Call) \/ (~CvfRuns /\ SvfCall)
    BY <2>1, <2>2, CvfCallQuiet, SvfCallQuiet, QuietStep
  <2>3. CASE Work
    <3>1. CASE DssDone \/ DssOld \/ DssLocal \/ DssGlobal
      BY <2>1, <3>1, DssQuiet, QuietStep
    <3>2. CASE FfrOutput \/ EndExact \/ (\E o \in Orders : MaxRound(o)) \/ EndMax
      BY <2>1, <3>2, LoopQuiet, QuietStep
    <3>3. CASE FfrStart
      BY <2>1, <3>3, FfrStartStep
    <3>4. CASE Event
      BY <2>1, <3>4, EventStep
    <3>5. CASE FfrEnd
      BY <2>1, <3>5, FfrEndStep
    <3> QED BY <2>3, <3>1, <3>2, <3>3, <3>4, <3>5 DEF Work
  <2> QED BY <2>1, <2>2, <2>3
<1> QED BY <1>1, <1>2

------------------------------------------------------------------------------
(***************************************************************************)
(* The copies CalcSvf makes of a sequential network are a network          *)
(***************************************************************************)
\* A set of numbers between two is no larger than their distance.
LEMMA Between ==
  ASSUME NEW a \in Int, NEW b \in Int, a <= b + 1, NEW S, S \subseteq a .. b
  PROVE  IsFiniteSet(S) /\ Cardinality(S) \in Nat /\ Cardinality(S) <= b - a + 1
<1>1. IsFiniteSet(a .. b) /\ Cardinality(a .. b) = b - a + 1
  BY FS_Interval
<1>2. IsFiniteSet(S) /\ Cardinality(S) <= Cardinality(a .. b)
  BY <1>1, FS_Subset
<1>3. Cardinality(S) \in Nat
  BY <1>2, FS_CardinalityType
<1> QED BY <1>1, <1>2, <1>3

\* Inputs first, then flip-flops, then gates: leaving the flip-flops out, the
\* other nodes get the numbers from 1 on, in their order.
Moved(s, n) == IF n \in TrueInputs(s) THEN n ELSE n - Cardinality(FlipFlops(s))

\* The new numbers are those up to the number of copies in a frame.
LEMMA MovedFacts ==
  ASSUME NEW s, IsSeqNet(s)
  PROVE  /\ Size(s) \in Nat /\ PerFrame(s) \in Nat /\ DOMAIN s.type = 1 .. Size(s)
         /\ PerFrame(s) = Size(s) - Cardinality(FlipFlops(s))
         /\ Cardinality(FlipFlops(s)) \in Nat
         /\ \A n \in DOMAIN s.type \ FlipFlops(s) : Moved(s, n) \in 1 .. PerFrame(s)
         /\ \A m, n \in DOMAIN s.type \ FlipFlops(s) :
              m < n /\ s.type[n] # "input" => Moved(s, m) < Moved(s, n)
         /\ \A r \in 1 .. PerFrame(s) :
              \E n \in DOMAIN s.type \ FlipFlops(s) : Moved(s, n) = r
<1> DEFINE Sz == Size(s)
           FF == FlipFlops(s)
           F == Cardinality(FF)
           TI == TrueInputs(s)
           D == DOMAIN s.type
<1>1. Sz \in Nat /\ D = 1 .. Sz
  BY NetFacts DEF IsSeqNet, Size
<1>2. /\ FF \subseteq D /\ TI \subseteq D /\ TI \cap FF = {}
      /\ \A f \in FF : s.type[f] = "input"
      /\ \A n \in D : s.type[n] = "input" => n \in TI \cup FF
      /\ \A n \in TI : s.type[n] = "input"
      /\ \A f \in FF : (\A n \in TI : n < f) /\ (\A n \in D : s.type[n] # "input" => f < n)
  BY DEF IsSeqNet, TrueInputs
<1>3. F \in Nat /\ F <= Sz /\ IsFiniteSet(FF)
  BY <1>1, <1>2, Between
<1>4. PerFrame(s) = Sz - F /\ PerFrame(s) \in Nat
  BY <1>1, <1>3 DEF PerFrame
<1> HIDE DEF Sz, FF, TI, D
<1>5. ASSUME NEW n \in TI PROVE n \in 1 .. Sz - F
  <2>1. n \in 1 .. Sz
    BY <1>1, <1>2
  <2>2. FF \subseteq n + 1 .. Sz
    BY <1>1, <1>2, <2>1
  <2>3. F <= Sz - (n + 1) + 1
    <3>1. n + 1 \in Int /\ Sz \in Int /\ n + 1 <= Sz + 1
      BY <1>1, <2>1
    <3> QED BY <2>2, <3>1, Between
  <2> QED BY <1>1, <1>3, <2>1, <2>3
<1>6. ASSUME NEW n \in D, s.type[n] # "input" PROVE n - F \in 1 .. Sz - F
  <2>1. n \in 1 .. Sz
    BY <1>1
  <2>2. FF \subseteq 1 .. n - 1
    BY <1>1, <1>2, <1>6, <2>1
  <2>3. F <= (n - 1) - 1 + 1
    <3>1. 1 \in Int /\ n - 1 \in Int /\ 1 <= n - 1 + 1
      BY <1>1, <2>1
    <3> QED BY <2>2, <3>1, Between
  <2> QED BY <1>1, <1>3, <2>1, <2>3
<1>7. ASSUME NEW j \in TI, NEW n \in D, s.type[n] # "input", j < n PROVE j < n - F
  <2>1. n \in 1 .. Sz /\ j \in 1 .. Sz
    BY <1>1, <1>2
  <2>2. FF \subseteq j + 1 .. n - 1
    BY <1>1, <1>2, <1>7, <2>1
  <2>3. F <= (n - 1) - (j + 1) + 1
    <3>1. j + 1 \in Int /\ n - 1 \in Int /\ j + 1 <= n - 1 + 1
      BY <1>1, <1>7, <2>1
    <3> QED BY <2>2, <3>1, Between
  <2> QED BY <1>3, <2>1, <2>3
<1>8. \A n \in D \ FF : Moved(s, n) \in 1 .. Sz - F
  BY <1>2, <1>5, <1>6 DEF Moved, F, FF, TI
<1>9. ASSUME NEW m \in D \ FF, NEW n \in D \ FF, m < n, s.type[n] # "input"
      PROVE  Moved(s, m) < Moved(s, n)
  <2>1. n \notin TI
    BY <1>2, <1>9
  <2>2. Moved(s, n) = n - F
    BY <2>1 DEF Moved, TI, F, FF
  <2>3. CASE m \in TI
    <3>1. Moved(s, m) = m
      BY <2>3 DEF Moved, TI
    <3> QED BY <1>7, <1>9, <2>2, <2>3, <3>1
  <2>4. CASE m \notin TI
    <3>1. Moved(s, m) = m - F
      BY <2>4 DEF Moved, TI, F, FF
    <3>2. m \in Nat /\ n \in Nat
      BY <1>1
    <3> QED BY <1>3, <1>9, <2>2, <3>1, <3>2
  <2> QED BY <2>3, <2>4
<1>10. ASSUME NEW r \in 1 .. Sz - F PROVE \E n \in D \ FF : Moved(s, n) = r
  <2>1. r \in D /\ r \in Nat /\ r + F \in D
    BY <1>1, <1>3
  <2>2. CASE r \in TI
    <3>1. r \notin FF /\ Moved(s, r) = r
      BY <1>2, <2>2 DEF Moved, TI
    <3> QED BY <2>1, <3>1
  <2>3. CASE r \notin TI
    <3>1. r + F \notin FF
      <4> SUFFICES ASSUME r + F \in FF PROVE FALSE
        OBVIOUS
      <4>1. ASSUME NEW j \in r .. r + F PROVE j \in FF
        <5>1. j \in D
          BY <1>1, <1>3, <4>1
        <5>2. s.type[j] = "input"
          <6>1. ~(r + F < j)
            BY <1>3, <2>1, <4>1
          <6> QED BY <1>2, <5>1, <6>1
        <5>3. s.type[r] = "input"
          <6>1. ~(r + F < r)
            BY <1>3, <2>1
          <6> QED BY <1>2, <2>1, <6>1
        <5>4. r \in FF
          BY <1>2, <2>1, <2>3, <5>3
        <5>5. j \notin TI
          <6>1. ~(j < r)
            BY <1>3, <2>1, <4>1
          <6> QED BY <1>2, <5>4, <6>1
        <5> QED BY <1>2, <5>1, <5>2, <5>5
      <4>2. r .. r + F \subseteq FF
        BY <4>1
      <4>3. r \in Int /\ r + F \in Int /\ ~(r > r + F) /\ (r + F) - r + 1 = F + 1
        BY <1>3, <2>1
      <4>4. Cardinality(r .. r + F) = F + 1
        BY <4>3, FS_Interval
      <4>5. Cardinality(r .. r + F) <= F
        BY <1>3, <4>2, FS_Subset
      <4> QED BY <1>3, <4>4, <4>5
    <3>2. r + F \notin TI
      <4> SUFFICES ASSUME r + F \in TI PROVE FALSE
        OBVIOUS
      <4>1. F # 0
        BY <1>3, <2>1, <2>3
      <4>2. PICK f \in FF : TRUE
        BY <4>1, FS_EmptySet DEF F
      <4>3. r + F < f /\ f \in Nat
        <5>1. f \in D
          BY <1>2, <4>2
        <5>2. f \in Nat
          BY <1>1, <5>1
        <5> QED BY <1>2, <4>2, <5>2
      <4>4. ~(f < r) /\ \A g \in FF : ~(g = r)
        <5>1. \A g \in FF : r + F < g
          BY <1>2
        <5>2. ~(r + F < r)
          BY <1>3, <2>1
        <5> QED BY <1>3, <2>1, <4>3, <5>1, <5>2
      <4> QED BY <1>2, <2>1, <2>3, <4>2, <4>4
    <3>3. PICK k \in D \ FF : k = r + F
      BY <2>1, <3>1
    <3>4. k \notin TI
      BY <3>2, <3>3
    <3>5. Moved(s, k) = k - F
      BY <3>4 DEF Moved, TI, F, FF
    <3>6. Moved(s, k) = r
      BY <1>3, <2>1, <3>3, <3>5
    <3> QED BY <3>6
  <2> QED BY <2>2, <2>3
<1> QED BY <1>1, <1>3, <1>4, <1>8, <1>9, <1>10 DEF Sz, FF, F, D

\* The copies made for the frames up to t.
LEMMA FrameSize ==
  ASSUME NEW P \in Nat, NEW t \in Nat
  PROVE  /\ P * t \in Nat /\ P * 0 = 0
         /\ t # 0 => t - 1 \in Nat /\ P * (t - 1) \in Nat /\ P * t = P * (t - 1) + P
         /\ \A u \in Nat : t <= u => P * t <= P * u
<1>1. P * t \in Nat /\ P * 0 = 0
  OBVIOUS
<1>2. ASSUME t # 0 PROVE t - 1 \in Nat /\ P * (t - 1) \in Nat /\ P * t = P * (t - 1) + P
  <2>1. t - 1 \in Nat
    BY <1>2
  <2> QED BY <2>1
<1>3. ASSUME NEW u \in Nat, t <= u PROVE P * t <= P * u
  <2>1. u - t \in Nat
    BY <1>3
  <2>2. P * (u - t) \in Nat
    BY <2>1
  <2>3. P * u = P * t + P * (u - t)
    OBVIOUS
  <2> QED BY <2>2, <2>3
<1> QED BY <1>1, <1>2, <1>3

\* The copies of the nodes frame by frame: a flip-flop has the copy its input
\* has in the frame before.
LEMMA AtRows ==
  ASSUME NEW s, IsSeqNet(s), NEW t \in Nat
  PROVE  \E at : /\ \A n \in DOMAIN s.type : At(s, n, t) = at[t][n]
                 /\ \A k \in 0 .. t : \A m \in DOMAIN s.type :
                      at[k][m] = IF k = 0 THEN m
                                 ELSE IF m \in FlipFlops(s) THEN at[k - 1][s.ff[m]]
                                 ELSE Size(s) + PerFrame(s) * (k - 1) + Moved(s, m)
<1> DEFINE D == DOMAIN s.type
           FF == FlipFlops(s)
           Sz == Size(s)
           P == PerFrame(s)
           K == 0 .. t
           V == [D -> Int]
           rank == [k \in K |-> k]
           Old(k) == Sz + P * (k - 1)
           Row(f, k) == [m \in D |-> IF k = 0 THEN m
                                     ELSE IF m \in FF THEN f[k - 1][s.ff[m]]
                                     ELSE Old(k) + Moved(s, m)]
           Body(f) == [k \in K |-> Row(f, k)]
           F == [f \in [K -> V] |-> Body(f)]
           at == CHOOSE f : f = Body(f)
<1>1. /\ Sz \in Nat /\ P \in Nat /\ D = 1 .. Sz /\ FF \subseteq D
      /\ \A n \in D \ FF : Moved(s, n) \in 1 .. P
      /\ \A n \in FF : s.ff[n] \in D
  BY MovedFacts DEF IsSeqNet
<1>2. ASSUME NEW n \in D PROVE At(s, n, t) = at[t][n]
  <2>1. \A f, k, m : (Sz + P * (k - 1)
                        + IF m \in TrueInputs(s) THEN m ELSE m - Cardinality(FlipFlops(s)))
                      = Old(k) + Moved(s, m)
    BY DEF Moved
  <2> QED BY DEF At, Moved
<1>3. ASSUME NEW k \in K, k # 0
      PROVE  /\ k \in Nat /\ k - 1 \in K /\ rank[k - 1] < rank[k] /\ Old(k) \in Nat
             /\ Sz + P * k = Old(k) + P
  <2>1. k \in Nat /\ k - 1 \in K /\ rank[k - 1] < rank[k]
    BY <1>3
  <2>2. P * (k - 1) \in Nat /\ P * k = P * (k - 1) + P
    BY <1>1, <1>3, <2>1, FrameSize
  <2>3. \A x, y \in Nat : Sz + x \in Nat /\ Sz + (x + y) = Sz + x + y
    BY <1>1
  <2>4. Old(k) \in Nat
    BY <2>2, <2>3
  <2>5. Sz + (P * (k - 1) + P) = Sz + P * (k - 1) + P
    BY <1>1, <2>2, <2>3
  <2> HIDE DEF P, Sz
  <2> QED BY <2>1, <2>2, <2>4, <2>5
<1> HIDE DEF FF, Sz, P, Old
<1>4. ASSUME NEW f \in [K -> V], NEW k \in K PROVE Row(f, k) \in V
  <2>1. k # 0 => Old(k) \in Int /\ f[k - 1] \in V
    <3> HIDE DEF rank, K
    <3> QED BY <1>3
  <2>2. \A m \in D : m \in Int
    BY <1>1
  <2>3. ASSUME NEW m \in D, k # 0, m \notin FF PROVE Old(k) + Moved(s, m) \in Int
    <3>1. Moved(s, m) \in Int
      BY <1>1, <2>3
    <3> QED BY <2>1, <2>3, <3>1
  <2>4. ASSUME NEW m \in FF, k # 0 PROVE f[k - 1][s.ff[m]] \in Int
    BY <1>1, <2>1, <2>4
  <2> HIDE DEF D, K
  <2> QED BY <2>2, <2>3, <2>4
<1>5. F \in [[K -> V] -> [K -> V]]
  <2> HIDE DEF V, Row
  <2> QED BY <1>4
<1>6. ASSUME NEW f \in [K -> V], NEW g \in [K -> V], NEW k \in K,
             \A j \in K : rank[j] < rank[k] => f[j] = g[j]
      PROVE  F[f][k] = F[g][k]
  <2>1. k # 0 => f[k - 1] = g[k - 1]
    <3> HIDE DEF rank, K
    <3> QED BY <1>3, <1>6
  <2>2. Row(f, k) = Row(g, k)
    <3> HIDE DEF K
    <3> QED BY <2>1
  <2> HIDE DEF Row, K, V
  <2> QED BY <2>2
<1>7. IsRecursion(K, V, rank, F)
  <2>1. V # {}
    <3>1. [m \in D |-> 0] \in V
      OBVIOUS
    <3> QED BY <3>1
  <2>2. \E b \in Nat : \A k \in K : rank[k] \in 0 .. b
    OBVIOUS
  <2> HIDE DEF F, rank, K, V
  <2> QED BY <1>5, <1>6, <2>1, <2>2 DEF IsRecursion
<1>8. \E f \in [K -> V] : f = F[f]
  <2> HIDE DEF F, rank, K, V
  <2> QED BY <1>7, RankRecursion
<1>9. at = Body(at)
  <2> HIDE DEF Body
  <2> QED BY <1>8
<1> HIDE DEF at
<1>10. \A k \in K : at[k] = Row(at, k)
  <2> HIDE DEF Row, K
  <2> QED BY <1>9
<1>11. \A k \in K : \A m \in D : at[k][m] = IF k = 0 THEN m
                                            ELSE IF m \in FF THEN at[k - 1][s.ff[m]]
                                            ELSE Old(k) + Moved(s, m)
  <2> HIDE DEF K
  <2> QED BY <1>10
<1> QED BY <1>2, <1>11 DEF FF, Old, Sz, P

\* Where the copy of a node in frame t is.
LEMMA AtFacts ==
  ASSUME NEW s, IsSeqNet(s), NEW t \in Nat
  PROVE  /\ \A n \in DOMAIN s.type : At(s, n, t) \in 1 .. Size(s) + PerFrame(s) * t
         /\ t = 0 => \A n \in DOMAIN s.type : At(s, n, t) = n
         /\ t # 0 =>
              /\ \A n \in FlipFlops(s) : At(s, n, t) \in 1 .. Size(s) + PerFrame(s) * (t - 1)
              /\ \A n \in DOMAIN s.type \ FlipFlops(s) :
                   At(s, n, t) = Size(s) + PerFrame(s) * (t - 1) + Moved(s, n)
<1> DEFINE D == DOMAIN s.type
           FF == FlipFlops(s)
           Sz == Size(s)
           P == PerFrame(s)
           K == 0 .. t
           rank == [k \in K |-> k]
           Old(k) == Sz + P * (k - 1)
<1>1. /\ Sz \in Nat /\ P \in Nat /\ D = 1 .. Sz /\ FF \subseteq D
      /\ \A n \in D \ FF : Moved(s, n) \in 1 .. P
      /\ \A n \in FF : s.ff[n] \in D
  BY MovedFacts DEF IsSeqNet
<1>a. PICK at : /\ \A n \in D : At(s, n, t) = at[t][n]
                /\ \A k \in K : \A m \in D : at[k][m] = IF k = 0 THEN m
                                                       ELSE IF m \in FF THEN at[k - 1][s.ff[m]]
                                                       ELSE Old(k) + Moved(s, m)
  BY AtRows
<1>2. ASSUME NEW n \in D PROVE At(s, n, t) = at[t][n]
  BY <1>a
<1>3. ASSUME NEW k \in K, k # 0
      PROVE  /\ k \in Nat /\ k - 1 \in K /\ rank[k - 1] < rank[k] /\ Old(k) \in Nat
             /\ Sz + P * k = Old(k) + P
  <2>1. k \in Nat /\ k - 1 \in K /\ rank[k - 1] < rank[k]
    BY <1>3
  <2>2. P * (k - 1) \in Nat /\ P * k = P * (k - 1) + P
    BY <1>1, <1>3, <2>1, FrameSize
  <2>3. \A x, y \in Nat : Sz + x \in Nat /\ Sz + (x + y) = Sz + x + y
    BY <1>1
  <2>4. Old(k) \in Nat
    BY <2>2, <2>3
  <2>5. Sz + (P * (k - 1) + P) = Sz + P * (k - 1) + P
    BY <1>1, <2>2, <2>3
  <2> HIDE DEF P, Sz
  <2> QED BY <2>1, <2>2, <2>4, <2>5
<1> HIDE DEF FF, Sz, P, Old
<1>11. \A k \in K : \A m \in D : at[k][m] = IF k = 0 THEN m
                                            ELSE IF m \in FF THEN at[k - 1][s.ff[m]]
                                            ELSE Old(k) + Moved(s, m)
  BY <1>a
<1> DEFINE T == {k \in K : \A m \in D : at[k][m] \in 1 .. Sz + P * k}
<1>12. ASSUME NEW k \in K, \A j \in K : rank[j] < rank[k] => j \in T PROVE k \in T
  <2>1. CASE k = 0
    <3>1. Sz + P * k = Sz
      BY <1>1, <2>1
    <3> QED BY <1>1, <1>11, <2>1, <3>1
  <2>2. CASE k # 0
    <3>1. /\ k \in Nat /\ Old(k) \in Nat /\ Sz + P * k = Old(k) + P
          /\ k - 1 \in T
      <4> HIDE DEF K, rank, T
      <4> QED BY <1>3, <1>12, <2>2
    <3>2. \A m \in D : at[k - 1][m] \in 1 .. Old(k)
      BY <3>1 DEF Old
    <3>3. ASSUME NEW m \in D PROVE at[k][m] \in 1 .. Old(k) + P
      <4>1. CASE m \in FF
        <5>1. at[k][m] \in 1 .. Old(k)
          BY <1>1, <1>11, <2>2, <3>2, <4>1
        <5> QED BY <1>1, <3>1, <5>1
      <4>2. CASE m \notin FF
        <5>1. at[k][m] = Old(k) + Moved(s, m) /\ Moved(s, m) \in 1 .. P
          BY <1>1, <1>11, <2>2, <4>2
        <5> QED BY <1>1, <3>1, <5>1
      <4> QED BY <4>1, <4>2
    <3> QED BY <3>1, <3>3
  <2> QED BY <2>1, <2>2
<1>13. K \subseteq T
  <2>1. \A k \in K : rank[k] \in Nat
    OBVIOUS
  <2> HIDE DEF K, rank, T
  <2> QED BY <1>12, <2>1, RankInduction
<1>14. t \in K /\ \A k \in K : \A m \in D : at[k][m] \in 1 .. Sz + P * k
  BY <1>13
<1>15. t # 0 => t - 1 \in K /\ Old(t) = Sz + P * (t - 1)
  BY DEF Old
<1> HIDE DEF K
<1>16. \A n \in FF : n \in D /\ s.ff[n] \in D
  BY <1>1
<1>17. \A n \in D : At(s, n, t) \in 1 .. Sz + P * t
  BY <1>2, <1>14
<1>18. t = 0 => \A n \in D : At(s, n, t) = n
  BY <1>2, <1>11, <1>14
<1>19. t # 0 => \A n \in FF : At(s, n, t) \in 1 .. Sz + P * (t - 1)
  <2>1. t # 0 => \A n \in FF : At(s, n, t) = at[t - 1][s.ff[n]]
    BY <1>2, <1>11, <1>14, <1>16
  <2> QED BY <1>14, <1>15, <1>16, <2>1
<1>20. t # 0 => \A n \in D \ FF : At(s, n, t) = Sz + P * (t - 1) + Moved(s, n)
  <2>1. t # 0 => \A n \in D \ FF : At(s, n, t) = Old(t) + Moved(s, n)
    BY <1>2, <1>11, <1>14
  <2> QED BY <1>15, <2>1
<1> QED BY <1>17, <1>18, <1>19, <1>20 DEF FF, Sz, P

\* A flip-flop's copy is the copy its input has in the frame before.
LEMMA FlipFlopCopies ==
  ASSUME NEW s, IsSeqNet(s), NEW t \in Nat, t # 0, NEW f \in FlipFlops(s)
  PROVE  f \in DOMAIN s.type /\ s.ff[f] \in DOMAIN s.type /\ At(s, f, t) = At(s, s.ff[f], t - 1)
<1> DEFINE D == DOMAIN s.type
           FF == FlipFlops(s)
           K == 0 .. t - 1
           rank == [k \in K |-> k]
           Row(at, k, m) == IF k = 0 THEN m ELSE IF m \in FF THEN at[k - 1][s.ff[m]]
                            ELSE Size(s) + PerFrame(s) * (k - 1) + Moved(s, m)
<1>1. FF \subseteq D /\ \A n \in FF : s.ff[n] \in D
  BY DEF IsSeqNet
<1>2. PICK at : /\ \A n \in D : At(s, n, t) = at[t][n]
                /\ \A k \in 0 .. t : \A m \in D : at[k][m] = Row(at, k, m)
  BY AtRows
<1>3. PICK old : /\ \A n \in D : At(s, n, t - 1) = old[t - 1][n]
                 /\ \A k \in K : \A m \in D : old[k][m] = Row(old, k, m)
  <2>1. t - 1 \in Nat
    OBVIOUS
  <2> QED BY <2>1, AtRows
<1> DEFINE T == {k \in K : \A m \in D : at[k][m] = old[k][m]}
<1>4. ASSUME NEW k \in K, \A j \in K : rank[j] < rank[k] => j \in T PROVE k \in T
  <2>1. k \in 0 .. t
    OBVIOUS
  <2>2. k # 0 => k - 1 \in T
    <3>1. k # 0 => k - 1 \in K /\ rank[k - 1] < rank[k]
      OBVIOUS
    <3> HIDE DEF T, K, rank
    <3> QED BY <1>4, <3>1
  <2>3. \A m \in D : Row(at, k, m) = Row(old, k, m)
    <3> HIDE DEF K
    <3> QED BY <1>1, <2>2
  <2> HIDE DEF Row, K
  <2> QED BY <1>2, <1>3, <2>1, <2>3
<1>5. K \subseteq T
  <2>1. \A k \in K : rank[k] \in Nat
    OBVIOUS
  <2> HIDE DEF K, rank, T
  <2> QED BY <1>4, <2>1, RankInduction
<1>6. t - 1 \in K /\ t \in 0 .. t
  OBVIOUS
<1>7. at[t][f] = at[t - 1][s.ff[f]]
  BY <1>1, <1>2, <1>6
<1> HIDE DEF K
<1> QED BY <1>1, <1>2, <1>3, <1>5, <1>6, <1>7

\* Every copy is that of one node in one frame.
LEMMA OriginFacts ==
  ASSUME NEW s, IsSeqNet(s), NEW tf \in Nat \ {0},
         NEW k \in 1 .. Size(s) + PerFrame(s) * (tf - 1)
  PROVE  /\ Origin(s, k)[1] \in DOMAIN s.type /\ Origin(s, k)[2] \in 0 .. tf - 1
         /\ k <= Size(s) => Origin(s, k) = <<k, 0>>
         /\ Origin(s, k)[2] # 0 => Origin(s, k)[1] \notin FlipFlops(s)
         /\ At(s, Origin(s, k)[1], Origin(s, k)[2]) = k
<1> DEFINE Sz == Size(s)
           P == PerFrame(s)
           D == DOMAIN s.type
<1>1. Sz \in Nat /\ P \in Nat /\ D = 1 .. Sz
  BY MovedFacts
<1>2. CASE k <= Sz
  <2>1. Origin(s, k) = <<k, 0>>
    BY <1>2 DEF Origin
  <2>2. k \in D /\ 0 \in 0 .. tf - 1
    BY <1>1, <1>2
  <2>3. At(s, k, 0) = k
    BY <2>2, AtFacts
  <2> QED BY <2>1, <2>2, <2>3
<1>3. CASE ~(k <= Sz)
  <2> DEFINE j == k - Sz - 1
             q0 == j \div P
  <2>1. P * (tf - 1) \in Nat
    BY <1>1, FrameSize
  <2>2. j \in Nat /\ j < P * (tf - 1) /\ k = Sz + j + 1
    BY <1>1, <1>3, <2>1
  <2>3. P \in Nat \ {0}
    <3>1. P = 0 => P * (tf - 1) = 0
      OBVIOUS
    <3> QED BY <1>1, <2>2, <3>1
  <2> HIDE DEF j, P, Sz, D
  <2>4. q0 \in Nat /\ P * q0 <= j /\ j < P * q0 + P
    BY <2>2, <2>3
  <2> HIDE DEF q0
  <2>5. q0 < tf - 1
    <3>1. tf - 1 <= q0 => P * (tf - 1) <= P * q0
      BY <1>1, <2>4, FrameSize
    <3>2. P * q0 \in Nat
      BY <2>3, <2>4
    <3> QED BY <2>1, <2>2, <2>4, <3>1, <3>2
  <2>6. PICK r \in 1 .. P : r = j + 1 - P * q0
    <3>1. P * q0 \in Nat
      BY <2>3, <2>4
    <3> QED BY <2>2, <2>3, <2>4, <3>1
  <2>7. PICK t \in 1 .. tf - 1 : t = q0 + 1
    BY <2>4, <2>5
  <2>8. k = Sz + P * (t - 1) + r
    <3>1. t - 1 = q0 /\ P * q0 \in Nat
      BY <2>3, <2>4, <2>7
    <3>2. P * (t - 1) = P * q0
      BY <3>1
    <3> QED BY <1>1, <2>2, <2>6, <3>1, <3>2
  <2>9. \A n \in D \ FlipFlops(s) : At(s, n, t) = Sz + P * (t - 1) + Moved(s, n)
    BY <2>7, AtFacts DEF D, Sz, P
  <2>10. \E n \in D \ FlipFlops(s) : At(s, n, t) = k
    <3>1. PICK n \in D \ FlipFlops(s) : Moved(s, n) = r
      BY <2>6, MovedFacts DEF D, P
    <3> QED BY <2>8, <2>9, <3>1
  <2>11. PICK n \in D \ FlipFlops(s) :
           n = (CHOOSE m \in D \ FlipFlops(s) : At(s, m, t) = k) /\ At(s, n, t) = k
    BY <2>10
  <2>12. Origin(s, k) = <<n, t>>
    BY <1>3, <2>7, <2>11 DEF Origin, q0, j, P, Sz, D
  <2> QED BY <1>3, <2>7, <2>11, <2>12 DEF D, Sz
<1> QED BY <1>2, <1>3

\* A fanin's copy comes before the gate's.
LEMMA FaninCopies ==
  ASSUME NEW s, IsSeqNet(s), NEW t \in Nat, NEW n \in DOMAIN s.type, NEW m \in DOMAIN s.type,
         m < n, s.type[n] # "input"
  PROVE  At(s, m, t) \in 1 .. At(s, n, t) - 1
<1>1. /\ Size(s) \in Nat /\ PerFrame(s) \in Nat /\ DOMAIN s.type = 1 .. Size(s)
      /\ n \notin FlipFlops(s)
  BY MovedFacts DEF IsSeqNet
<1>2. CASE t = 0
  <2>1. At(s, m, t) = m /\ At(s, n, t) = n
    BY <1>2, AtFacts
  <2> QED BY <1>1, <2>1
<1>3. CASE t # 0
  <2> DEFINE a == Size(s) + PerFrame(s) * (t - 1)
  <2>1. a \in Nat
    BY <1>1, <1>3, FrameSize
  <2>2. /\ \A x \in FlipFlops(s) : At(s, x, t) \in 1 .. a
        /\ \A x \in DOMAIN s.type \ FlipFlops(s) : At(s, x, t) = a + Moved(s, x)
    BY <1>3, AtFacts
  <2> HIDE DEF a
  <2>3. Moved(s, n) \in Nat \ {0} /\ At(s, n, t) = a + Moved(s, n)
    <3>1. Moved(s, n) \in 1 .. PerFrame(s)
      BY <1>1, MovedFacts
    <3> QED BY <1>1, <2>2, <3>1
  <2>4. CASE m \in FlipFlops(s)
    <3>1. At(s, m, t) \in 1 .. a
      BY <2>2, <2>4
    <3> QED BY <2>1, <2>3, <3>1
  <2>5. CASE m \notin FlipFlops(s)
    <3>1. Moved(s, m) \in 1 .. PerFrame(s) /\ Moved(s, m) < Moved(s, n)
      BY <1>1, <2>5, MovedFacts
    <3>2. At(s, m, t) = a + Moved(s, m)
      BY <2>2, <2>5
    <3> QED BY <1>1, <2>1, <2>3, <3>1, <3>2
  <2> QED BY <2>4, <2>5
<1> QED BY <1>2, <1>3

\* The type of a copy is that of its node.
LEMMA UnrollType ==
  ASSUME NEW s, NEW tf
  PROVE  Unroll(s, tf).type = [k \in 1 .. Size(s) + PerFrame(s) * (tf - 1) |->
                                 s.type[Origin(s, k)[1]]]
<1> DEFINE K == 1 .. Size(s) + PerFrame(s) * (tf - 1)
           u == Unroll(s, tf)
<1>1. u.type = [k \in K |-> s.type[Origin(s, k)[1]]]
  BY DEF Unroll
<1> QED BY <1>1

\* set_network of CalcSvf makes a network of any sequential one, for any number
\* of time frames: every copy comes after those it reads, and the copies with an
\* output exist.
THEOREM UnrolledIsNet ==
  ASSUME NEW s, IsSeqNet(s), NEW tf \in Nat \ {0}
  PROVE  IsNet(Unroll(s, tf))
<1> DEFINE K == Size(s) + PerFrame(s) * (tf - 1)
           Copies == 1 .. K
           node(k) == Origin(s, k)[1]
           frame(k) == Origin(s, k)[2]
           fan(k) == [i \in DOMAIN s.fanin[node(k)] |-> At(s, s.fanin[node(k)][i], frame(k))]
           u == Unroll(s, tf)
<1>1. Size(s) \in Nat /\ PerFrame(s) \in Nat /\ K \in Nat
  BY MovedFacts, FrameSize
<1>2. \A k \in Copies : /\ node(k) \in DOMAIN s.type /\ frame(k) \in 0 .. tf - 1
                        /\ At(s, node(k), frame(k)) = k
  BY OriginFacts
<1>3. /\ u.type = [k \in Copies |-> s.type[node(k)]]
      /\ u.fanin = [k \in Copies |-> fan(k)]
      /\ u.out = {At(s, o, t) : o \in s.out, t \in 0 .. tf - 1}
                   \cup {At(s, s.ff[f], tf - 1) : f \in FlipFlops(s)}
  BY DEF Unroll
<1> HIDE DEF u, K, node, frame
<1>4. u.type \in Seq(Gates \cup {"input"}) /\ DOMAIN u.type = Copies
  <2>1. \A n \in DOMAIN s.type : s.type[n] \in Gates \cup {"input"}
    BY NetFacts DEF IsSeqNet
  <2>2. u.type \in [1 .. K -> Gates \cup {"input"}]
    BY <1>2, <1>3, <2>1
  <2> QED BY <1>1, <1>3, <2>2, AsSeq
<1>5. DOMAIN u.fanin = DOMAIN u.type
  BY <1>3, <1>4
<1>6. u.out \subseteq DOMAIN u.type
  <2>1. ASSUME NEW n \in DOMAIN s.type, NEW t \in 0 .. tf - 1 PROVE At(s, n, t) \in Copies
    <3>1. t \in Nat /\ tf - 1 \in Nat /\ t <= tf - 1
      OBVIOUS
    <3>2. At(s, n, t) \in 1 .. Size(s) + PerFrame(s) * t
      BY <3>1, AtFacts
    <3>3. PerFrame(s) * t <= PerFrame(s) * (tf - 1) /\ PerFrame(s) * t \in Nat
          /\ PerFrame(s) * (tf - 1) \in Nat
      BY <1>1, <3>1, FrameSize
    <3>4. \A a, b \in Nat : a <= b => 1 .. Size(s) + a \subseteq 1 .. Size(s) + b
      BY <1>1
    <3> QED BY <3>2, <3>3, <3>4 DEF K
  <2>2. tf - 1 \in 0 .. tf - 1
    OBVIOUS
  <2>3. s.out \subseteq DOMAIN s.type /\ \A f \in FlipFlops(s) : s.ff[f] \in DOMAIN s.type
    BY DEF IsSeqNet, IsNet
  <2> HIDE DEF Copies
  <2> QED BY <1>3, <1>4, <2>1, <2>2, <2>3
<1>7. ASSUME NEW k \in DOMAIN u.type
      PROVE  /\ u.fanin[k] \in Seq(1 .. k - 1)
             /\ IF u.type[k] = "input" THEN u.fanin[k] = <<>>
                ELSE Len(u.fanin[k]) \in 1 .. (IF u.type[k] \in {"buf", "not"} THEN 1 ELSE MaxFanin)
  <2> DEFINE n == node(k)
             l == Len(s.fanin[n])
  <2>1. /\ n \in DOMAIN s.type /\ frame(k) \in Nat /\ At(s, n, frame(k)) = k
        /\ u.type[k] = s.type[n] /\ u.fanin[k] = fan(k)
    BY <1>2, <1>3, <1>4
  <2>2. /\ l \in Nat /\ DOMAIN s.fanin[n] = 1 .. l
        /\ \A i \in DOMAIN s.fanin[n] : s.fanin[n][i] \in DOMAIN s.type /\ s.fanin[n][i] < n
        /\ s.type[n] = "input" => DOMAIN s.fanin[n] = {}
    BY <2>1, NetFacts DEF IsSeqNet
  <2>3. \A i \in 1 .. l : At(s, s.fanin[n][i], frame(k)) \in 1 .. k - 1
    <3> SUFFICES ASSUME NEW i \in 1 .. l PROVE At(s, s.fanin[n][i], frame(k)) \in 1 .. k - 1
      OBVIOUS
    <3>1. s.fanin[n][i] \in DOMAIN s.type /\ s.fanin[n][i] < n /\ s.type[n] # "input"
      BY <2>2
    <3> HIDE DEF n
    <3> QED BY <2>1, <3>1, FaninCopies
  <2>4. u.fanin[k] \in [1 .. l -> 1 .. k - 1]
    <3> HIDE DEF l
    <3> QED BY <2>1, <2>2, <2>3
  <2>5. u.fanin[k] \in Seq(1 .. k - 1) /\ Len(u.fanin[k]) = l
    <3> HIDE DEF l
    <3> QED BY <2>2, <2>4, AsSeq
  <2>6. s.type[n] # "input" =>
          l \in 1 .. (IF s.type[n] \in {"buf", "not"} THEN 1 ELSE MaxFanin)
    BY <2>1 DEF IsSeqNet, IsNet
  <2>7. s.type[n] = "input" => u.fanin[k] = <<>>
    <3>1. s.type[n] = "input" => l = 0
      BY <2>1, <2>2 DEF IsSeqNet, IsNet
    <3> HIDE DEF l, n
    <3> QED BY <2>5, <3>1, EmptySeq
  <2> HIDE DEF l, n
  <2> QED BY <2>1, <2>5, <2>6, <2>7
<1> QED BY <1>4, <1>5, <1>6, <1>7 DEF IsNet, u

------------------------------------------------------------------------------
(***************************************************************************)
(* What set_network leaves                                                 *)
(***************************************************************************)
\* All levels are in the array when those of the nodes are.
LEMMA LevelsFacts ==
  ASSUME SimOK, NEW max_level \in Nat, LevelsFit(sim, max_level)
  PROVE  Levelled(Logic, sim.level, Top(max_level))
<1>1. Logic \subseteq Nodes /\ IsFiniteSet(Logic) /\ Nodes \subseteq Nat /\ Junk \notin Logic
  BY SimFacts, FS_Subset, CvfAssumption
<1>2. Top(max_level) \in Nat
  BY DefaultAssumption DEF Top
<1>3. DOMAIN sim.level = Nodes /\ \A n \in Nodes : sim.level[n] \in Nat
  BY LevelFacts DEF SimOK, Nodes
<1>4. \A n \in Logic : sim.level[n] \in 0 .. Top(max_level)
  BY <1>1, <1>2, <1>3 DEF LevelsFit
<1> QED BY <1>1, <1>2, <1>4 DEF Levelled

\* The first state of CalcCvf.
LEMMA CvfInit ==
  ASSUME Init, seq = NoSeq, frames = 0
  PROVE  CalcInv
<1>1. /\ net \in Nets /\ sim = Sim(net) /\ LevelsFit(sim, MaxOutputLevel(net, sim))
      /\ eq \in Created(MaxOutputLevel(net, sim))
      /\ dss = [n \in {m \in DOMAIN sim.root : sim.root[m] = m} |-> {}]
      /\ todo = IF mode = "none" THEN <<>> ELSE RootSeq(sim)
      /\ cur = IF todo = <<>> THEN {} ELSE sim.fanout[Head(todo)]
      /\ acc = {} /\ pc = IF todo = <<>> THEN "idle" ELSE "dss"
      /\ op = "none" /\ gval = [n \in Nodes |-> {}] /\ fval = gval /\ obs = gval
      /\ obs2 \in {[n \in Nodes |-> {}], [n \in Nodes |-> Pats]}
      /\ target = {} /\ seen = {} /\ clear = {} /\ left = 0
  BY DEF Init
<1>2. IsNet(net)
  BY <1>1, CvfAssumption
<1>3. SimOK
  <2>1. /\ sim.level = Level(net) /\ sim.root = Root(net)
        /\ sim.pins = [n \in Nodes |-> Pins(net, n)]
        /\ sim.fanout = [n \in Nodes |-> Fanouts(net, n)]
        /\ sim.order = [n \in Nodes |-> Sorted(Fanouts(net, n))]
    BY <1>1 DEF Sim, Nodes
  <2> QED BY <1>2, <2>1, RootFacts DEF SimOK, Nodes
<1>4. MaxOutputLevel(net, sim) \in Nat /\ QTop = Top(MaxOutputLevel(net, sim))
  <2>1. net.out \subseteq DOMAIN net.type /\ sim.level = Level(net)
    BY <1>2, <1>3 DEF IsNet, SimOK
  <2> QED BY <1>2, <2>1, QueueTop DEF QTop, CvfRuns
<1>5. Levelled(Logic, sim.level, QTop)
  BY <1>1, <1>3, <1>4, LevelsFacts
<1>6. Context
  <2>1. \A b \in Batches : \A n \in Inputs : b[n] \subseteq Pats
    BY <1>1, CvfAssumption DEF IsBatch, Inputs, IsInput, Nodes
  <2> QED BY <1>3, <1>5, <2>1 DEF Context
<1>7. IsQueue(eq, Logic, sim.level, QTop) /\ eq.mNum = 0 /\ eq.inQueue = {}
  BY <1>1, <1>4, <1>5, CreatedIsQueue
<1>8. todo \in Seq(Roots) /\ (todo # <<>> => Head(todo) \in Roots /\ mode # "none")
  <2>1. CASE mode = "none"
    BY <1>1, <2>1, EmptySeq
  <2>2. CASE mode # "none"
    <3>1. todo \in Seq(Roots)
      BY <1>1, <1>3, <2>2, RootSeqType
    <3> QED BY <2>2, <3>1, TodoRest
  <2> QED BY <2>1, <2>2
<1>9. cur \subseteq Nodes
  BY <1>1, <1>3, <1>8, SimFacts
<1>10. dss \in [Roots -> SUBSET Nodes]
  <2>1. Roots = {m \in DOMAIN sim.root : sim.root[m] = m}
    BY <1>3 DEF Roots, SimOK, IsRoots, Nodes
  <2> QED BY <1>1, <2>1
<1>11. /\ gval \in [Nodes -> SUBSET Pats] /\ fval \in [Nodes -> SUBSET Pats]
       /\ obs \in [Nodes -> SUBSET Pats] /\ obs2 \in [Nodes -> SUBSET Pats]
  <2>1. [n \in Nodes |-> {}] \in [Nodes -> SUBSET Pats] /\ [n \in Nodes |-> Pats] \in [Nodes -> SUBSET Pats]
    OBVIOUS
  <2> QED BY <1>1, <2>1
<1>12. pc \in {"dss", "idle"} /\ (pc = "dss" => todo # <<>>)
  BY <1>1
<1>13. CvfTypeOK
  BY <1>1, <1>7, <1>9, <1>10, <1>11, <1>12, CvfAssumption DEF CvfTypeOK
<1>14. Control
  BY <1>1, <1>7, <1>8, <1>12 DEF Control
<1>15. Past /\ Differing
  BY <1>1 DEF Past, Differing
<1> QED BY <1>6, <1>7, <1>13, <1>14, <1>15 DEF CalcInv

\* The first states of CalcSvf.
LEMMA SvfInitInv ==
  ASSUME SvfInit
  PROVE  CalcInv
<1>1. /\ seq \in SeqNets /\ frames \in Nat \ {0}
      /\ net = Unroll(seq, frames) /\ sim = SvfSim(net, seq)
      /\ LevelsFit(sim, FrameLevel(seq)) /\ eq \in Created(FrameLevel(seq)) /\ mode = "none"
      /\ dss = [n \in {m \in DOMAIN sim.root : sim.root[m] = m} |-> {}]
      /\ todo = <<>> /\ cur = {} /\ acc = {} /\ pc = "idle" /\ op = "none"
      /\ obs = [n \in Nodes |-> {}] /\ obs2 = obs
      /\ target = {} /\ seen = {} /\ clear = {} /\ left = 0
  BY SvfAssumption DEF SvfInit
<1>2. PICK g \in [Later -> Words], f \in [Later -> Words] :
        /\ gval = [n \in Nodes |-> IF n \in Later THEN g[n] ELSE {}]
        /\ fval = [n \in Nodes |-> IF n \in Later THEN f[n] ELSE {}]
  BY DEF SvfInit
<1>3. IsSeqNet(seq) /\ IsNet(seq) /\ IsNet(net) /\ ~CvfRuns
  BY <1>1, SvfAssumption, UnrolledIsNet DEF IsSeqNet, CvfRuns
<1>4. SimOK
  <2>1. /\ sim.level = Level(net) /\ sim.root = SvfRoot(net, seq)
        /\ sim.pins = [n \in Nodes |-> Pins(net, n)]
        /\ sim.fanout = [n \in Nodes |-> Fanouts(net, n)]
        /\ sim.order = [n \in Nodes |-> Sorted(Fanouts(net, n))]
    BY <1>1 DEF SvfSim, Nodes
  <2> QED BY <1>1, <1>3, <2>1, SvfRootFacts DEF SimOK
<1>5. FrameLevel(seq) \in Nat /\ QTop = Top(FrameLevel(seq))
  <2>1. Output1(seq) \subseteq DOMAIN seq.type
    BY <1>3 DEF Output1, IsSeqNet, IsNet
  <2>2. /\ [out |-> Output1(seq)].out = Output1(seq)
        /\ [level |-> Level(seq)].level = Level(seq)
    OBVIOUS
  <2>3. MaxOutputLevel([out |-> Output1(seq)], [level |-> Level(seq)]) \in Nat
    BY <1>3, <2>1, <2>2, QueueTop
  <2> QED BY <1>3, <2>3 DEF FrameLevel, QTop
<1>6. Levelled(Logic, sim.level, QTop)
  BY <1>1, <1>4, <1>5, LevelsFacts
<1>7. Context
  <2> SUFFICES ASSUME NEW b \in Batches, NEW n \in Inputs \cap Settled PROVE b[n] \subseteq Pats
    BY <1>4, <1>6 DEF Context
  <2>1. n \in Nodes /\ net.type[n] = "input" /\ ~(n > Size(seq)) /\ n \in Nat
    BY <1>3, <1>4, SimFacts DEF Settled, Later, Inputs, IsInput
  <2>2. n \in DOMAIN seq.type /\ n \in DOMAIN net.type
    <3>1. Size(seq) \in Nat /\ DOMAIN seq.type = 1 .. Size(seq) /\ Nodes \subseteq Nat \ {0}
      BY <1>3, <1>4, MovedFacts, SimFacts
    <3> QED BY <2>1, <3>1 DEF Nodes
  <2>3. net.type[n] = seq.type[n]
    <3>0. net.type = [k \in 1 .. Size(seq) + PerFrame(seq) * (frames - 1) |->
                        seq.type[Origin(seq, k)[1]]]
      BY <1>1, UnrollType
    <3>1. n \in 1 .. Size(seq) + PerFrame(seq) * (frames - 1)
      BY <2>2, <3>0
    <3>2. n <= Size(seq)
      BY <1>3, <2>1, MovedFacts
    <3>3. Origin(seq, n) = <<n, 0>>
      BY <1>1, <1>3, <3>1, <3>2, OriginFacts
    <3> QED BY <3>0, <3>1, <3>3
  <2>4. IsBatch(b, seq)
    BY <1>1, SvfAssumption
  <2> QED BY <2>1, <2>2, <2>3, <2>4 DEF IsBatch
<1>8. IsQueue(eq, Logic, sim.level, QTop) /\ eq.mNum = 0 /\ eq.inQueue = {}
  BY <1>1, <1>5, <1>6, CreatedIsQueue
<1>9. dss \in [Roots -> SUBSET Nodes]
  <2>1. Roots = {m \in DOMAIN sim.root : sim.root[m] = m}
    BY <1>4 DEF Roots, SimOK, IsRoots, Nodes
  <2> QED BY <1>1, <2>1
<1>10. /\ gval \in [Nodes -> SUBSET Pats] /\ fval \in [Nodes -> SUBSET Pats]
       /\ obs \in [Nodes -> SUBSET Pats]
  <2>1. Words \subseteq SUBSET Pats
    BY SvfAssumption
  <2>2. \A n \in Later : g[n] \in SUBSET Pats /\ f[n] \in SUBSET Pats
    BY <2>1
  <2> QED BY <1>1, <1>2, <2>2
<1>11. CvfTypeOK
  BY <1>1, <1>8, <1>9, <1>10, CvfAssumption DEF CvfTypeOK
<1>12. Control
  BY <1>1, <1>8, EmptySeq DEF Control
<1>13. Past
  BY <1>1 DEF Past
<1>14. Differing
  BY <1>2, <1>3 DEF Differing, Settled
<1> QED BY <1>7, <1>8, <1>11, <1>12, <1>13, <1>14 DEF CalcInv
------------------------------------------------------------------------------
\* The invariant holds in every reachable state of either program.
THEOREM CalcInvariance == CalcSpec => []CalcInv
<1>1. CalcInit => CalcInv
  BY CvfInit, SvfInitInv DEF CalcInit
<1>2. CalcInv /\ [CalcNext]_<<vars, svfVars>> => CalcInv'
  BY CalcStep
<1> QED BY <1>1, <1>2, PTL DEF CalcSpec

\* Whatever the network, the vectors and the calls: nothing of one simulation is
\* left for the next, and until it is over every node whose faulty value differs
\* is on mClearArray.
THEOREM SimulationsLeaveNothing == CalcSpec => []NothingLeft
<1>1. CalcInv => NothingLeft
  <2> SUFFICES ASSUME CalcInv PROVE Clean(Settled)
    BY DEF NothingLeft, Settled
  <2>1. CvfTypeOK /\ Differing /\ Control
    BY DEF CalcInv
  <2>2. {n \in Settled : fval[n] # gval[n]} \subseteq clear
    BY <2>1 DEF Differing
  <2>3. pc # "sim" => clear = {} /\ target = {} /\ eq.inQueue = {} /\ eq.mNum = 0
    BY <2>1, EmptyQueue DEF CalcInv, Control, Context
  <2> QED BY <2>1, <2>2, <2>3 DEF Clean
<1> QED BY <1>1, CalcInvariance, PTL

\* calc_fval toggles mFval; it is right because get() returns every node at most
\* once in a simulation, and never one below a node it returned before.
THEOREM EventsInLevelOrder == CalcSpec => LevelOrder
<1> DEFINE Ordered ==
             pc = "sim" /\ pc' = "sim" =>
               LET n == First(eq)
               IN  n \notin clear /\ \A m \in eq'.inQueue : m # n /\ sim.level[m] >= sim.level[n]
<1>1. CalcInv /\ [CalcNext]_<<vars, svfVars>> => [Ordered]_vars
  <2> SUFFICES ASSUME CalcInv, CalcNext, pc = "sim", pc' = "sim"
               PROVE  Ordered
    BY DEF vars
  <2>1. Event /\ UNCHANGED svfVars
    <3>1. UNCHANGED svfVars /\ (Call \/ SvfCall \/ Work)
      BY DEF CalcNext, Next, SvfNext
    <3>2. ~Call /\ ~SvfCall
      BY DEF Call, SvfCall, StartExact, CalcPseudoMin, StartMax, SvfExactCall, SvfPseudoMin, SvfMax
    <3>3. Work => Event
      BY DEF Work, DssDone, DssOld, DssLocal, DssGlobal, FfrOutput, FfrStart, FfrEnd, EndExact,
             MaxRound, EndMax
    <3> QED BY <3>1, <3>2, <3>3
  <2>2. /\ First(eq) \notin clear /\ First(eq) \in Nodes
        /\ \A m \in eq'.inQueue :
             m \in Nodes /\ m # First(eq) /\ sim.level[First(eq)] <= sim.level[m]
    BY <2>1, EventFacts
  <2>3. \A n \in Nodes : sim.level[n] \in Nat
    BY SimFacts DEF CalcInv, Context
  <2>4. \A m \in eq'.inQueue : sim.level[m] >= sim.level[First(eq)]
    BY <2>2, <2>3
  <2> QED BY <2>2, <2>4
<1>2. CalcSpec => [][Ordered]_vars
  <2> HIDE DEF Ordered
  <2> QED BY <1>1, CalcInvariance, PTL DEF CalcSpec
<1> QED BY <1>2 DEF LevelOrder
------------------------------------------------------------------------------
(***************************************************************************)
(* What a gate makes of a change at its inputs, bit by bit                 *)
(***************************************************************************)
\* The value of a gate when v are those of the nodes.
Val(n, v) == Output(net.type[n], [i \in DOMAIN net.fanin[n] |-> v[net.fanin[n][i]]])

\* The classes of gates and their inverted outputs.
LEMMA OutputBits ==
  ASSUME NEW t \in Gates, NEW v, NEW b \in Pats
  PROVE  /\ t = "and"  => (b \in Output(t, v) <=> b \in AndValue(v))
         /\ t = "nand" => (b \in Output(t, v) <=> b \notin AndValue(v))
         /\ t = "or"   => (b \in Output(t, v) <=> b \in OrValue(v))
         /\ t = "nor"  => (b \in Output(t, v) <=> b \notin OrValue(v))
         /\ t = "xor"  => (b \in Output(t, v) <=> b \in XorValue(v))
         /\ t = "xnor" => (b \in Output(t, v) <=> b \notin XorValue(v))
         /\ t = "buf"  => (b \in Output(t, v) <=> b \in BufValue(v))
         /\ t = "not"  => (b \in Output(t, v) <=> b \notin BufValue(v))
<1>1. /\ t = "and" => Output(t, v) = AndValue(v)
      /\ t = "nand" => Output(t, v) = Pats \ AndValue(v)
      /\ t = "or" => Output(t, v) = OrValue(v)
      /\ t = "nor" => Output(t, v) = Pats \ OrValue(v)
      /\ t = "xor" => Output(t, v) = XorValue(v)
      /\ t = "xnor" => Output(t, v) = Pats \ XorValue(v)
      /\ t = "buf" => Output(t, v) = BufValue(v)
      /\ t = "not" => Output(t, v) = Pats \ BufValue(v)
  BY DEF Output, Inverted
<1> QED BY <1>1

\* A change of the output is one of the value before it is inverted.
LEMMA OutputDiffers ==
  ASSUME NEW t \in Gates, NEW v, NEW w, NEW b \in Pats
  PROVE  /\ t \in {"and", "nand"} => ((b \in Output(t, v) <=> b \in Output(t, w))
                                        <=> (b \in AndValue(v) <=> b \in AndValue(w)))
         /\ t \in {"or", "nor"} => ((b \in Output(t, v) <=> b \in Output(t, w))
                                      <=> (b \in OrValue(v) <=> b \in OrValue(w)))
         /\ t \in {"xor", "xnor"} => ((b \in Output(t, v) <=> b \in Output(t, w))
                                        <=> (b \in XorValue(v) <=> b \in XorValue(w)))
         /\ t \in {"buf", "not"} => ((b \in Output(t, v) <=> b \in Output(t, w))
                                       <=> (b \in BufValue(v) <=> b \in BufValue(w)))
BY OutputBits

\* Its bits depend on nothing but the same bits of its inputs.
LEMMA OutputLocal ==
  ASSUME NEW t \in Gates, NEW v, NEW w, DOMAIN v = DOMAIN w, 1 \in DOMAIN v, NEW b \in Pats,
         \A i \in DOMAIN v : b \in v[i] <=> b \in w[i]
  PROVE  b \in Output(t, v) <=> b \in Output(t, w)
<1>1. {i \in DOMAIN v : b \in v[i]} = {i \in DOMAIN w : b \in w[i]}
  OBVIOUS
<1>2. /\ b \in AndValue(v) <=> b \in AndValue(w)
      /\ b \in OrValue(v) <=> b \in OrValue(w)
      /\ b \in BufValue(v) <=> b \in BufValue(w)
  BY DEF AndValue, OrValue, BufValue
<1>3. b \in XorValue(v) <=> b \in XorValue(w)
  BY <1>1 DEF XorValue
<1> QED BY <1>2, <1>3, OutputDiffers DEF Gates

\* One more or one less changes the parity.
LEMMA Parity ==
  ASSUME NEW S, IsFiniteSet(S), NEW i, i \notin S
  PROVE  Cardinality(S \cup {i}) % 2 = 1 <=> Cardinality(S) % 2 # 1
<1>1. Cardinality(S) \in Nat /\ Cardinality(S \cup {i}) = Cardinality(S) + 1
  BY FS_CardinalityType, FS_AddElement
<1>2. \A k \in Nat : (k + 1) % 2 = 1 <=> k % 2 # 1
  OBVIOUS
<1> QED BY <1>1, <1>2

\* A change of one input reaches the output when all others let it through.
LEMMA OutputChanges ==
  ASSUME NEW t \in Gates, NEW v, NEW w, DOMAIN v = DOMAIN w, IsFiniteSet(DOMAIN v),
         t \in {"buf", "not"} => DOMAIN v = {1},
         NEW b \in Pats, NEW i \in DOMAIN v, ~(b \in v[i] <=> b \in w[i]),
         \A j \in DOMAIN v \ {i} : b \in v[j] <=> b \in w[j]
  PROVE  ~(b \in Output(t, v) <=> b \in Output(t, w)) <=>
           \A j \in DOMAIN v \ {i} : b \in Passes(t, v[j])
<1> DEFINE On(x) == {j \in DOMAIN v : b \in x[j]}
<1>1. \A x : On(x) \subseteq DOMAIN v
  OBVIOUS
<1>2. Cardinality(On(v)) % 2 = 1 <=> Cardinality(On(w)) % 2 # 1
  <2>1. CASE b \in v[i]
    <3>1. On(v) = On(w) \cup {i} /\ i \notin On(w)
      BY <2>1
    <3>2. IsFiniteSet(On(w))
      BY <1>1, FS_Subset
    <3> HIDE DEF On
    <3> QED BY <3>1, <3>2, Parity
  <2>2. CASE b \notin v[i]
    <3>1. On(w) = On(v) \cup {i} /\ i \notin On(v)
      BY <2>2
    <3>2. IsFiniteSet(On(v))
      BY <1>1, FS_Subset
    <3> HIDE DEF On
    <3> QED BY <3>1, <3>2, Parity
  <2> QED BY <2>1, <2>2
<1>3. On(w) = {j \in DOMAIN w : b \in w[j]}
  OBVIOUS
<1>4. CASE t \in {"xor", "xnor"}
  <2>1. \A j \in DOMAIN v : b \in Passes(t, v[j])
    BY <1>4 DEF Passes
  <2>2. b \in XorValue(v) <=> b \notin XorValue(w)
    BY <1>2, <1>3 DEF XorValue
  <2> QED BY <1>4, <2>1, <2>2, OutputDiffers
<1>5. CASE t \in {"and", "nand"}
  <2>1. \A j \in DOMAIN v : b \in Passes(t, v[j]) <=> b \in v[j]
    BY <1>5 DEF Passes, AndPasses
  <2>2. ~(b \in AndValue(v) <=> b \in AndValue(w)) <=> \A j \in DOMAIN v \ {i} : b \in v[j]
    BY DEF AndValue
  <2> QED BY <1>5, <2>1, <2>2, OutputDiffers
<1>6. CASE t \in {"or", "nor"}
  <2>1. \A j \in DOMAIN v : b \in Passes(t, v[j]) <=> b \notin v[j]
    BY <1>6 DEF Passes, OrPasses
  <2>2. ~(b \in OrValue(v) <=> b \in OrValue(w)) <=> \A j \in DOMAIN v \ {i} : b \notin v[j]
    BY DEF OrValue
  <2> QED BY <1>6, <2>1, <2>2, OutputDiffers
<1>7. CASE t \in {"buf", "not"}
  <2>1. DOMAIN v = {1} /\ i = 1
    BY <1>7
  <2>2. ~(b \in BufValue(v) <=> b \in BufValue(w))
    BY <2>1 DEF BufValue
  <2> QED BY <1>7, <2>1, <2>2, OutputDiffers
<1> QED BY <1>4, <1>5, <1>6, <1>7 DEF Gates

\* A change of the output has an input to answer for it: it changes, the inputs
\* before it in an order let changes through, and the ones after it do too or it
\* is itself one that does not.
LEMMA Responsible ==
  ASSUME NEW t \in Gates, NEW v, NEW w, DOMAIN v = DOMAIN w, 1 \in DOMAIN v, NEW b \in Pats,
         NEW o, \A i \in DOMAIN v : o[i] \in Nat,
         \A i, j \in DOMAIN v : o[i] = o[j] => i = j,
         ~(b \in Output(t, v) <=> b \in Output(t, w))
  PROVE  \E i \in DOMAIN v :
           /\ ~(b \in v[i] <=> b \in w[i])
           /\ \A j \in DOMAIN v : o[j] < o[i] => b \in Passes(t, v[j])
           /\ (\A j \in DOMAIN v : o[j] > o[i] => b \in Passes(t, v[j])) \/ b \notin Passes(t, v[i])
<1>1. CASE \A j \in DOMAIN v : b \in Passes(t, v[j])
  <2>1. \E i \in DOMAIN v : ~(b \in v[i] <=> b \in w[i])
    BY OutputLocal
  <2> QED BY <1>1, <2>1
<1>2. CASE \E j \in DOMAIN v : b \notin Passes(t, v[j])
  <2> DEFINE S == {o[j] : j \in {k \in DOMAIN v : b \notin Passes(t, v[k])}}
  <2>1. PICK l \in S : \A k \in S : l <= k
    <3>1. S \subseteq Nat /\ S # {}
      BY <1>2
    <3> QED BY <3>1, LeastNumber
  <2>2. PICK i \in DOMAIN v : b \notin Passes(t, v[i]) /\ o[i] = l
    BY <2>1
  <2>3. \A j \in DOMAIN v : b \notin Passes(t, v[j]) => o[i] <= o[j]
    BY <2>1, <2>2
  <2>4. \A j \in DOMAIN v : o[j] < o[i] => b \in Passes(t, v[j])
    BY <2>3
  <2>5. ~(b \in v[i] <=> b \in w[i])
    <3>1. t \in {"and", "nand", "or", "nor"}
      BY <2>2 DEF Passes, Gates
    <3>2. CASE t \in {"and", "nand"}
      <4>1. b \notin v[i]
        BY <2>2, <3>2 DEF Passes, AndPasses
      <4>2. ~(b \in AndValue(v) <=> b \in AndValue(w))
        BY <3>2, OutputDiffers
      <4> QED BY <4>1, <4>2 DEF AndValue
    <3>3. CASE t \in {"or", "nor"}
      <4>1. b \in v[i]
        BY <2>2, <3>3 DEF Passes, OrPasses
      <4>2. ~(b \in OrValue(v) <=> b \in OrValue(w))
        BY <3>3, OutputDiffers
      <4> QED BY <4>1, <4>2 DEF OrValue
    <3> QED BY <3>1, <3>2, <3>3
  <2> QED BY <2>2, <2>4, <2>5
<1> QED BY <1>1, <1>2
------------------------------------------------------------------------------
(***************************************************************************)
(* The values of a network, and those with one node complemented           *)
(***************************************************************************)
\* A gate of the network and the nodes it reads.
LEMMA GateFacts ==
  ASSUME SimOK, NEW n \in Logic
  PROVE  /\ n \in Nodes /\ net.type[n] \in Gates
         /\ 1 \in DOMAIN net.fanin[n] /\ IsFiniteSet(DOMAIN net.fanin[n])
         /\ DOMAIN net.fanin[n] \subseteq 1 .. MaxFanin
         /\ net.type[n] \in {"buf", "not"} => DOMAIN net.fanin[n] = {1}
         /\ \A i \in DOMAIN net.fanin[n] :
              /\ net.fanin[n][i] \in Nodes /\ net.fanin[n][i] < n
              /\ sim.level[net.fanin[n][i]] < sim.level[n]
              /\ n \in sim.fanout[net.fanin[n][i]] /\ <<n, i>> \in sim.pins[net.fanin[n][i]]
<1>1. /\ n \in Nodes /\ net.type[n] \in Gates /\ net.type[n] # "input"
      /\ 1 \in DOMAIN net.fanin[n] /\ DOMAIN net.fanin[n] \subseteq 1 .. MaxFanin
      /\ net.type[n] \in {"buf", "not"} => DOMAIN net.fanin[n] = {1}
      /\ \A i \in DOMAIN net.fanin[n] : net.fanin[n][i] \in Nodes /\ net.fanin[n][i] < n
  BY NetFacts DEF SimOK, Logic, Inputs, IsInput, Nodes
<1>2. IsFiniteSet(DOMAIN net.fanin[n])
  <2>1. 1 \in Int /\ 4 \in Int
    OBVIOUS
  <2>2. IsFiniteSet(1 .. MaxFanin)
    BY <2>1, FS_Interval DEF MaxFanin
  <2> QED BY <1>1, <2>2, FS_Subset
<1>3. ASSUME NEW i \in DOMAIN net.fanin[n]
      PROVE  n \in sim.fanout[net.fanin[n][i]] /\ <<n, i>> \in sim.pins[net.fanin[n][i]]
  <2>1. <<n, i>> \in Pins(net, net.fanin[n][i])
    BY <1>1 DEF Pins, Nodes
  <2>2. n \in Fanouts(net, net.fanin[n][i])
    BY <2>1 DEF Fanouts
  <2> QED BY <1>1, <2>1, <2>2 DEF SimOK
<1> QED BY <1>1, <1>2, <1>3, SimFacts

\* What a node drives, it is read by.
LEMMA PinFacts ==
  ASSUME SimOK, NEW n \in Nodes
  PROVE  /\ \A p \in sim.pins[n] :
              /\ p \in Logic \X (1 .. MaxFanin) /\ p[1] \in sim.fanout[n]
              /\ p[2] \in DOMAIN net.fanin[p[1]] /\ net.fanin[p[1]][p[2]] = n /\ n < p[1]
         /\ \A m \in sim.fanout[n] : \E i \in DOMAIN net.fanin[m] : net.fanin[m][i] = n
<1>1. sim.pins[n] = Pins(net, n) /\ sim.fanout[n] = Fanouts(net, n)
  BY DEF SimOK
<1>2. \A p \in Pins(net, n) :
        /\ p \in Nodes \X (1 .. MaxFanin) /\ p[1] \in Fanouts(net, n)
        /\ p[2] \in DOMAIN net.fanin[p[1]] /\ net.fanin[p[1]][p[2]] = n
  BY DEF Pins, Fanouts, Nodes
<1>3. \A m \in Fanouts(net, n) : \E i \in DOMAIN net.fanin[m] : net.fanin[m][i] = n
  BY DEF Fanouts, Pins
<1> QED BY <1>1, <1>2, <1>3, SimFacts

\* A gate makes a word of words.
LEMMA ValType ==
  ASSUME SimOK, NEW n \in Logic, NEW v,
         \A i \in DOMAIN net.fanin[n] : v[net.fanin[n][i]] \subseteq Pats
  PROVE  Val(n, v) \subseteq Pats
<1> DEFINE x == [i \in DOMAIN net.fanin[n] |-> v[net.fanin[n][i]]]
<1>1. net.type[n] \in Gates /\ 1 \in DOMAIN x /\ \A i \in DOMAIN x : x[i] \subseteq Pats
  BY GateFacts
<1> HIDE DEF x
<1>2. Output(net.type[n], x) \subseteq Pats
  BY <1>1, OutputType
<1> QED BY <1>2 DEF Val, x

\* Bit by bit.
LEMMA ValLocal ==
  ASSUME SimOK, NEW n \in Logic, NEW v, NEW w, NEW b \in Pats,
         \A i \in DOMAIN net.fanin[n] : b \in v[net.fanin[n][i]] <=> b \in w[net.fanin[n][i]]
  PROVE  b \in Val(n, v) <=> b \in Val(n, w)
<1> DEFINE x == [i \in DOMAIN net.fanin[n] |-> v[net.fanin[n][i]]]
           y == [i \in DOMAIN net.fanin[n] |-> w[net.fanin[n][i]]]
<1>1. /\ net.type[n] \in Gates /\ 1 \in DOMAIN x /\ DOMAIN x = DOMAIN y
      /\ \A i \in DOMAIN x : b \in x[i] <=> b \in y[i]
  BY GateFacts
<1> HIDE DEF x, y
<1>2. b \in Output(net.type[n], x) <=> b \in Output(net.type[n], y)
  BY <1>1, OutputLocal
<1> QED BY <1>2 DEF Val, x, y

\* A change at one pin.
LEMMA ValChanges ==
  ASSUME SimOK, NEW n \in Logic, NEW v, NEW w, NEW b \in Pats, NEW i \in DOMAIN net.fanin[n],
         ~(b \in v[net.fanin[n][i]] <=> b \in w[net.fanin[n][i]]),
         \A j \in DOMAIN net.fanin[n] \ {i} :
           b \in v[net.fanin[n][j]] <=> b \in w[net.fanin[n][j]]
  PROVE  ~(b \in Val(n, v) <=> b \in Val(n, w)) <=> b \in Sensitive(n, i, v)
<1> DEFINE x == [j \in DOMAIN net.fanin[n] |-> v[net.fanin[n][j]]]
           y == [j \in DOMAIN net.fanin[n] |-> w[net.fanin[n][j]]]
<1>1. /\ net.type[n] \in Gates /\ DOMAIN x = DOMAIN y /\ IsFiniteSet(DOMAIN x) /\ i \in DOMAIN x
      /\ net.type[n] \in {"buf", "not"} => DOMAIN x = {1}
      /\ ~(b \in x[i] <=> b \in y[i])
      /\ \A j \in DOMAIN x \ {i} : b \in x[j] <=> b \in y[j]
  BY GateFacts
<1>2. b \in Sensitive(n, i, v) <=> \A j \in DOMAIN x \ {i} : b \in Passes(net.type[n], x[j])
  BY DEF Sensitive, AllPass
<1> HIDE DEF x, y
<1>3. ~(b \in Output(net.type[n], x) <=> b \in Output(net.type[n], y)) <=>
        \A j \in DOMAIN x \ {i} : b \in Passes(net.type[n], x[j])
  BY <1>1, OutputChanges
<1> QED BY <1>2, <1>3 DEF Val, x, y

------------------------------------------------------------------------------
\* The values f of the nodes when the inputs have the words inp and node k is
\* complemented; 0 complements none.
Through(inp, k, f) ==
  [n \in Nodes |-> LET good == IF IsInput(n) THEN inp[n] ELSE Val(n, f)
                   IN  IF n = k THEN Pats \ good ELSE good]

\* They exist, and are words.
LEMMA Evaluation ==
  ASSUME SimOK, NEW inp, \A n \in Inputs : inp[n] \subseteq Pats, NEW k
  PROVE  /\ \E f : f = Through(inp, k, f)
         /\ \A f : f = Through(inp, k, f) => f \in [Nodes -> SUBSET Pats]
<1> DEFINE V == SUBSET Pats
           rank == [n \in Nodes |-> n]
           At0(f, n) == LET good == IF IsInput(n) THEN inp[n] ELSE Val(n, f)
                        IN  IF n = k THEN Pats \ good ELSE good
           Body(f) == [n \in Nodes |-> At0(f, n)]
           F == [f \in [Nodes -> V] |-> Body(f)]
<1>1. \A n \in Nodes : rank[n] = n /\ rank[n] \in 0 .. Len(net.type) /\ rank[n] \in Nat
  BY NetFacts DEF Nodes, SimOK
<1>2. \A n \in Nodes : ~IsInput(n) => n \in Logic
  BY DEF Logic, Inputs
<1>3. ASSUME NEW n \in Nodes, NEW f, \A m \in Nodes : m < n => f[m] \in V PROVE At0(f, n) \in V
  <2>1. CASE IsInput(n)
    BY <2>1 DEF Inputs
  <2>2. CASE ~IsInput(n)
    <3>1. Val(n, f) \subseteq Pats
      BY <1>2, <1>3, <2>2, GateFacts, ValType
    <3> QED BY <2>2, <3>1
  <2> QED BY <2>1, <2>2
<1>4. ASSUME NEW f \in [Nodes -> V] PROVE Body(f) \in [Nodes -> V]
  <2>1. \A n \in Nodes : At0(f, n) \in V
    <3>1. \A m \in Nodes : f[m] \in V
      OBVIOUS
    <3> HIDE DEF At0, V
    <3> QED BY <1>3, <3>1
  <2> HIDE DEF At0, V
  <2> QED BY <2>1
<1>5. F \in [[Nodes -> V] -> [Nodes -> V]]
  <2> HIDE DEF Body
  <2> QED BY <1>4
<1>6. ASSUME NEW f \in [Nodes -> V], NEW g \in [Nodes -> V], NEW n \in Nodes,
             \A m \in Nodes : rank[m] < rank[n] => f[m] = g[m]
      PROVE  F[f][n] = F[g][n]
  <2>1. ~IsInput(n) => \A i \in DOMAIN net.fanin[n] : f[net.fanin[n][i]] = g[net.fanin[n][i]]
    BY <1>1, <1>2, <1>6, GateFacts
  <2>2. ~IsInput(n) => Val(n, f) = Val(n, g)
    BY <2>1 DEF Val
  <2>3. At0(f, n) = At0(g, n)
    BY <2>2
  <2>4. F[f] = Body(f) /\ F[g] = Body(g)
    <3> HIDE DEF Body
    <3> QED OBVIOUS
  <2>5. Body(f)[n] = At0(f, n) /\ Body(g)[n] = At0(g, n)
    <3> HIDE DEF At0
    <3> QED OBVIOUS
  <2> HIDE DEF F, Body, At0
  <2> QED BY <2>3, <2>4, <2>5
<1>7. IsRecursion(Nodes, V, rank, F)
  <2>1. V # {}
    OBVIOUS
  <2>2. \E K \in Nat : \A n \in Nodes : rank[n] \in 0 .. K
    BY <1>1, NetFacts DEF SimOK
  <2> HIDE DEF F, rank, V
  <2> QED BY <1>5, <1>6, <2>1, <2>2 DEF IsRecursion
<1>8. \E f \in [Nodes -> V] : f = F[f]
  <2> HIDE DEF F, rank, V
  <2> QED BY <1>7, RankRecursion
<1>9. \E f : f = Body(f)
  <2> HIDE DEF Body
  <2> QED BY <1>8
<1>10. ASSUME NEW f, f = Body(f) PROVE f \in [Nodes -> V]
  <2> DEFINE T == {n \in Nodes : f[n] \in V}
  <2>1. \A n \in Nodes : f[n] = At0(f, n)
    <3> HIDE DEF At0
    <3> QED BY <1>10
  <2>2. ASSUME NEW n \in Nodes, \A m \in Nodes : rank[m] < rank[n] => m \in T PROVE n \in T
    <3>1. \A m \in Nodes : m < n => f[m] \in V
      BY <1>1, <2>2
    <3> HIDE DEF At0, V
    <3> QED BY <1>3, <2>1, <3>1
  <2>3. Nodes \subseteq T
    <3> HIDE DEF rank, T
    <3> QED BY <1>1, <2>2, RankInduction
  <2>4. \A n \in Nodes : f[n] \in V
    BY <2>3
  <2>5. f = [n \in Nodes |-> f[n]]
    <3> HIDE DEF At0
    <3> QED BY <1>10
  <2> HIDE DEF V, Body, T
  <2> QED BY <2>4, <2>5
<1> QED BY <1>9, <1>10 DEF Through

\* calc_gval gives every gate the value its inputs ask for.
LEMMA GoodValuesFacts ==
  ASSUME SimOK, NEW batch, \A n \in Inputs : batch[n] \subseteq Pats
  PROVE  /\ GoodValues(batch) \in [Nodes -> SUBSET Pats]
         /\ \A n \in Inputs : GoodValues(batch)[n] = batch[n]
         /\ \A n \in Logic : GoodValues(batch)[n] = Val(n, GoodValues(batch))
<1> DEFINE Body(f) == [n \in Nodes |-> IF IsInput(n) THEN batch[n] ELSE Val(n, f)]
           gv == CHOOSE f : f = Body(f)
<1>1. \A f : Body(f) = Through(batch, 0, f)
  <2>1. \A n \in Nodes : n # 0
    BY SimFacts
  <2> QED BY <2>1 DEF Through
<1>2. gv = Body(gv)
  <2>1. \E f : f = Body(f)
    <3> HIDE DEF Body
    <3> QED BY <1>1, Evaluation
  <2> HIDE DEF Body
  <2> QED BY <2>1
<1>3. GoodValues(batch) = gv
  BY DEF GoodValues, Val
<1> HIDE DEF gv
<1>4. gv \in [Nodes -> SUBSET Pats]
  <2> HIDE DEF Body
  <2> QED BY <1>1, <1>2, Evaluation
<1>5. \A n \in Nodes : gv[n] = IF IsInput(n) THEN batch[n] ELSE Val(n, gv)
  BY <1>2
<1> QED BY <1>3, <1>4, <1>5 DEF Inputs, Logic

\* The words of the nodes are those of the network.
Evaluated == gval \in [Nodes -> SUBSET Pats] /\ \A n \in Logic : gval[n] = Val(n, gval)

\* The values with node n complemented: nothing changes below it.
LEMMA FlippedFacts ==
  ASSUME SimOK, Evaluated, NEW n \in Nodes
  PROVE  /\ Flipped(n) \in [Nodes -> SUBSET Pats]
         /\ Flipped(n)[n] = Pats \ gval[n]
         /\ \A m \in Nodes : m < n => Flipped(n)[m] = gval[m]
         /\ \A m \in Inputs \ {n} : Flipped(n)[m] = gval[m]
         /\ \A m \in Logic \ {n} : Flipped(n)[m] = Val(m, Flipped(n))
<1> DEFINE v == CHOOSE f : f = Through(gval, n, f)
<1>1. \A m \in Inputs : gval[m] \subseteq Pats
  BY DEF Evaluated, Inputs
<1>2. v = Through(gval, n, v)
  BY <1>1, Evaluation
<1>3. Flipped(n) = v
  BY DEF Flipped, Through, Val
<1> HIDE DEF v
<1>4. v \in [Nodes -> SUBSET Pats]
  BY <1>1, <1>2, Evaluation
<1>5. ASSUME NEW m \in Nodes
      PROVE  v[m] = LET good == IF IsInput(m) THEN gval[m] ELSE Val(m, v)
                    IN  IF m = n THEN Pats \ good ELSE good
  BY <1>2 DEF Through
<1>6. ASSUME NEW m \in Nodes, m <= n, ~IsInput(m), \A k \in Nodes : k < m => v[k] = gval[k]
      PROVE  Val(m, v) = gval[m]
  <2>1. m \in Logic
    BY <1>6 DEF Logic, Inputs
  <2>2. \A i \in DOMAIN net.fanin[m] : v[net.fanin[m][i]] = gval[net.fanin[m][i]]
    BY <1>6, <2>1, GateFacts
  <2>3. Val(m, v) = Val(m, gval)
    BY <2>2 DEF Val
  <2> QED BY <2>1, <2>3 DEF Evaluated
<1>7. \A m \in Nodes : m < n => v[m] = gval[m]
  <2> DEFINE rank == [m \in Nodes |-> m]
             T == {m \in Nodes : m < n => v[m] = gval[m]}
  <2>1. \A m \in Nodes : rank[m] = m /\ rank[m] \in Nat
    BY SimFacts
  <2>2. ASSUME NEW m \in Nodes, \A k \in Nodes : rank[k] < rank[m] => k \in T PROVE m \in T
    <3>1. CASE m < n
      <4>1. \A k \in Nodes : k < m => v[k] = gval[k]
        <5>1. \A k \in Nodes : k < m => k < n
          BY <3>1, SimFacts
        <5> QED BY <2>1, <2>2, <5>1
      <4>2. m <= n /\ m # n
        BY <3>1, SimFacts
      <4> QED BY <1>5, <1>6, <4>1, <4>2
    <3> QED BY <3>1
  <2>3. Nodes \subseteq T
    <3> HIDE DEF rank, T
    <3> QED BY <2>1, <2>2, RankInduction
  <2> QED BY <2>3
<1>8. v[n] = Pats \ gval[n]
  <2>1. n <= n
    BY SimFacts
  <2> QED BY <1>5, <1>6, <1>7, <2>1
<1>9. \A m \in Inputs \ {n} : v[m] = gval[m]
  BY <1>5 DEF Inputs
<1>10. \A m \in Logic \ {n} : v[m] = Val(m, v)
  BY <1>5 DEF Inputs, Logic
<1> QED BY <1>3, <1>4, <1>7, <1>8, <1>9, <1>10
------------------------------------------------------------------------------
(***************************************************************************)
(* calc_max and calc_pseudo_min                                            *)
(***************************************************************************)
\* What holds of a node when it holds of all that come before it holds of all.
LEMMA UpwardInduction ==
  ASSUME SimOK, NEW T, \A n \in Nodes : (\A m \in Nodes : m < n => m \in T) => n \in T
  PROVE  Nodes \subseteq T
<1> DEFINE rank == [n \in Nodes |-> n]
<1>1. \A n \in Nodes : rank[n] = n /\ rank[n] \in Nat
  BY SimFacts
<1> HIDE DEF rank
<1> QED BY <1>1, RankInduction

\* And the other way round.
LEMMA DownwardInduction ==
  ASSUME SimOK, NEW T, \A n \in Nodes : (\A m \in Nodes : n < m => m \in T) => n \in T
  PROVE  Nodes \subseteq T
<1> DEFINE rank == Downward(net)
<1>1. \A n \in Nodes : rank[n] \in Nat
  BY DownwardFacts DEF SimOK, Nodes
<1>2. \A n, m \in Nodes : n < m => rank[m] < rank[n]
  BY DownwardFacts DEF SimOK, Nodes
<1> HIDE DEF rank
<1> QED BY <1>1, <1>2, RankInduction

\* A change of node n changes bit b of node m.
Differs(n, m, b) == ~(b \in Flipped(n)[m] <=> b \in gval[m])

\* It does not where nothing it reads changes.
LEMMA DiffersFrom ==
  ASSUME SimOK, Evaluated, NEW n \in Nodes, NEW m \in Nodes \ {n}, NEW b \in Pats, Differs(n, m, b)
  PROVE  m \in Logic /\ \E i \in DOMAIN net.fanin[m] : Differs(n, net.fanin[m][i], b)
<1>1. m \in Logic
  BY FlippedFacts DEF Differs, Logic
<1>2. ~(b \in Val(m, Flipped(n)) <=> b \in Val(m, gval))
  BY <1>1, FlippedFacts DEF Differs, Evaluated
<1> QED BY <1>1, <1>2, ValLocal DEF Differs

\* The bits a change is seen at.
LEMMA ObservabilityFacts ==
  ASSUME SimOK, Evaluated, NEW n \in Nodes
  PROVE  /\ Observability(n) \subseteq Pats
         /\ \A b \in Pats : b \in Observability(n) <=> \E o \in net.out : Differs(n, o, b)
         /\ n \in net.out => Observability(n) = Pats
<1>1. net.out \subseteq Nodes
  BY DEF SimOK, IsNet, Nodes
<1>2. Observability(n) = UNION {Xor(Flipped(n)[m], gval[m]) : m \in net.out}
  BY DEF Observability
<1>3. \A m \in Nodes : Flipped(n)[m] \subseteq Pats /\ gval[m] \subseteq Pats
  BY FlippedFacts DEF Evaluated
<1>4. \A b \in Pats, m \in Nodes : b \in Xor(Flipped(n)[m], gval[m]) <=> Differs(n, m, b)
  BY DEF Xor, Differs
<1>5. Observability(n) \subseteq Pats
  BY <1>1, <1>2, <1>3 DEF Xor
<1>6. \A b \in Pats : b \in Observability(n) <=> \E o \in net.out : Differs(n, o, b)
  BY <1>1, <1>2, <1>4
<1>7. \A b \in Pats : Differs(n, n, b)
  BY FlippedFacts DEF Differs
<1> QED BY <1>5, <1>6, <1>7

\* The parts of the gates that calc_max gives to their pins: a change of a gate
\* is passed down to an input that changes.
Answering(share) ==
  \A g \in Logic, b \in Pats, w \in [Nodes -> SUBSET Pats] :
    ~(b \in Val(g, gval) <=> b \in Val(g, w)) =>
      \E i \in DOMAIN net.fanin[g] :
        ~(b \in gval[net.fanin[g][i]] <=> b \in w[net.fanin[g][i]]) /\ b \in share[<<g, i>>]

\* A pass down that is started at the outputs then reaches every change.
LEMMA PassBounds ==
  ASSUME SimOK, Evaluated, NEW base \in [Nodes -> SUBSET Pats], \A n \in net.out : base[n] = Pats,
         NEW share, \A p \in AllPins : share[p] \subseteq Pats, Answering(share), NEW n \in Nodes
  PROVE  Observability(n) \subseteq Backward(base, share)[n]
<1> DEFINE ob == Backward(base, share)
<1>1. \A m \in Nodes : ob[m] = base[m] \cup UNION {ob[p[1]] \cap share[p] : p \in sim.pins[m]}
  BY BackwardType
<1>2. net.out \subseteq Nodes /\ Nodes \subseteq Nat
  BY SimFacts DEF SimOK, IsNet, Nodes
<1> HIDE DEF ob
<1>3. ASSUME NEW b \in Observability(n) PROVE b \in ob[n]
  <2> DEFINE S == {m \in Nodes : Differs(n, m, b) /\ b \in ob[m]}
  <2>1. b \in Pats
    BY ObservabilityFacts
  <2>2. S # {}
    <3>1. PICK o \in net.out : Differs(n, o, b)
      BY <2>1, ObservabilityFacts
    <3>2. b \in ob[o]
      BY <1>1, <1>2, <2>1
    <3> QED BY <1>2, <3>1, <3>2
  <2>3. PICK l \in S : \A m \in S : l <= m
    BY <1>2, <2>2, LeastNumber
  <2>4. CASE l # n
    <3>1. l \in Logic
      BY <2>1, <2>4, DiffersFrom
    <3>2. /\ Flipped(n) \in [Nodes -> SUBSET Pats]
          /\ ~(b \in Val(l, gval) <=> b \in Val(l, Flipped(n)))
      BY <2>4, <3>1, FlippedFacts DEF Differs, Evaluated
    <3>3. PICK i \in DOMAIN net.fanin[l] :
            ~(b \in gval[net.fanin[l][i]] <=> b \in Flipped(n)[net.fanin[l][i]]) /\ b \in share[<<l, i>>]
      BY <2>1, <3>1, <3>2 DEF Answering
    <3> DEFINE f == net.fanin[l][i]
    <3>4. f \in Nodes /\ f < l /\ <<l, i>> \in sim.pins[f]
      BY <3>1, GateFacts
    <3>5. Differs(n, f, b)
      BY <3>3 DEF Differs
    <3>6. b \in ob[f]
      <4>1. b \in ob[l] /\ b \in share[<<l, i>>]
        BY <3>3
      <4> QED BY <1>1, <3>4, <4>1
    <3>7. f \in S
      BY <3>4, <3>5, <3>6
    <3>8. l <= f /\ f < l /\ f \in Nat /\ l \in Nat
      BY <1>2, <2>3, <3>4, <3>7
    <3> QED BY <3>8
  <2>5. CASE l = n
    BY <2>5
  <2> QED BY <2>4, <2>5
<1> QED BY <1>3 DEF ob

\* A share of the inputs up to pin i in an order, and of pin i itself.
LEMMA OrderAnswers ==
  ASSUME SimOK, NEW g \in Logic, NEW o \in Perms(g), NEW b \in Pats, NEW w \in [Nodes -> SUBSET Pats],
         ~(b \in Val(g, gval) <=> b \in Val(g, w))
  PROVE  \E i \in DOMAIN net.fanin[g] :
           ~(b \in gval[net.fanin[g][i]] <=> b \in w[net.fanin[g][i]]) /\ b \in Share(g, i, o)
<1> DEFINE x == [j \in DOMAIN net.fanin[g] |-> gval[net.fanin[g][j]]]
           y == [j \in DOMAIN net.fanin[g] |-> w[net.fanin[g][j]]]
           t == net.type[g]
<1>1. /\ t \in Gates /\ DOMAIN x = DOMAIN y /\ 1 \in DOMAIN x
      /\ DOMAIN x = DOMAIN net.fanin[g] /\ DOMAIN x \subseteq Nat
  BY GateFacts DEF MaxFanin
<1>2. /\ DOMAIN o = DOMAIN x /\ \A i \in DOMAIN x : o[i] \in Nat
      /\ \A i, j \in DOMAIN x : o[i] = o[j] => i = j
  BY <1>1 DEF Perms
<1>3. ~(b \in Output(t, x) <=> b \in Output(t, y))
  BY DEF Val
<1>4. /\ \A j \in DOMAIN x : x[j] = gval[net.fanin[g][j]]
      /\ \A j \in DOMAIN x : y[j] = w[net.fanin[g][j]]
  OBVIOUS
<1> HIDE DEF x, y
<1>5. PICK i \in DOMAIN x :
        /\ ~(b \in x[i] <=> b \in y[i])
        /\ \A j \in DOMAIN x : o[j] < o[i] => b \in Passes(t, x[j])
        /\ (\A j \in DOMAIN x : o[j] > o[i] => b \in Passes(t, x[j])) \/ b \notin Passes(t, x[i])
  <2> HIDE DEF t
  <2> QED BY <1>1, <1>2, <1>3, Responsible
<1>6. b \in AllPass(g, {j \in DOMAIN o : o[j] < o[i]}, gval)
  BY <1>2, <1>4, <1>5 DEF AllPass
<1>7. \/ b \in AllPass(g, {j \in DOMAIN o : o[j] > o[i]}, gval)
      \/ b \in Pats \ AllPass(g, {i}, gval)
  BY <1>2, <1>4, <1>5 DEF AllPass
<1>8. b \in Share(g, i, o)
  BY <1>6, <1>7 DEF Share
<1> QED BY <1>1, <1>4, <1>5, <1>8

\* The shares of calc_max in CalcCvf, whatever the orders.
LEMMA MaxAnswers ==
  ASSUME SimOK, NEW o \in Orders, NEW share, \A p \in AllPins : share[p] = Share(p[1], p[2], o[p[1]])
  PROVE  Answering(share)
<1> SUFFICES ASSUME NEW g \in Logic, NEW b \in Pats, NEW w \in [Nodes -> SUBSET Pats],
                    ~(b \in Val(g, gval) <=> b \in Val(g, w))
             PROVE  \E i \in DOMAIN net.fanin[g] :
                      /\ ~(b \in gval[net.fanin[g][i]] <=> b \in w[net.fanin[g][i]])
                      /\ b \in share[<<g, i>>]
  BY DEF Answering
<1>1. o[g] \in Perms(g)
  BY DEF Orders
<1>2. PICK i \in DOMAIN net.fanin[g] :
        /\ ~(b \in gval[net.fanin[g][i]] <=> b \in w[net.fanin[g][i]])
        /\ b \in Share(g, i, o[g])
  BY <1>1, OrderAnswers
<1>3. <<g, i>> \in AllPins
  BY GateFacts DEF AllPins
<1>4. share[<<g, i>>] = Share(g, i, o[g])
  BY <1>3
<1> QED BY <1>2, <1>4

\* Those of CalcSvf, which takes the inputs as they come.
LEMMA SvfAnswers ==
  ASSUME SimOK, NEW share, \A p \in AllPins : share[p] = SvfShare(p[1], p[2], gval)
  PROVE  Answering(share)
<1> SUFFICES ASSUME NEW g \in Logic, NEW b \in Pats, NEW w \in [Nodes -> SUBSET Pats],
                    ~(b \in Val(g, gval) <=> b \in Val(g, w))
             PROVE  \E i \in DOMAIN net.fanin[g] :
                      /\ ~(b \in gval[net.fanin[g][i]] <=> b \in w[net.fanin[g][i]])
                      /\ b \in share[<<g, i>>]
  BY DEF Answering
<1> DEFINE I == DOMAIN net.fanin[g]
           o == [j \in I |-> j]
<1>1. o \in Perms(g)
  BY DEF Perms
<1>2. PICK i \in I : /\ ~(b \in gval[net.fanin[g][i]] <=> b \in w[net.fanin[g][i]])
                     /\ b \in Share(g, i, o)
  <2> HIDE DEF o
  <2> QED BY <1>1, OrderAnswers
<1>3. <<g, i>> \in AllPins
  BY GateFacts DEF AllPins
<1>4. share[<<g, i>>] = SvfShare(g, i, gval)
  BY <1>3
<1>5. g \in Nodes /\ I = 1 .. Len(net.fanin[g]) /\ Len(net.fanin[g]) \in Nat
  BY NetFacts, SimFacts DEF SimOK, Nodes
<1>6. /\ {j \in DOMAIN o : o[j] < o[i]} = 1 .. i - 1
      /\ {j \in DOMAIN o : o[j] > o[i]} = I \ (1 .. i)
  BY <1>5
<1>7. Share(g, i, o) = SvfShare(g, i, gval)
  <2> HIDE DEF o
  <2> QED BY <1>6 DEF Share, SvfShare
<1> QED BY <1>2, <1>4, <1>7

\* A change of node n, at bit b, when all it drives is pin i of gate g: past the
\* gate it is a change of g, or none.
LEMMA PastTheGate ==
  ASSUME SimOK, Evaluated, NEW n \in Nodes, NEW g \in Logic, NEW i \in DOMAIN net.fanin[g],
         sim.pins[n] = {<<g, i>>}, NEW b \in Pats
  PROVE  \A m \in Nodes \ {n} :
           Differs(n, m, b) <=> Differs(g, m, b) /\ b \in Sensitive(g, i, gval)
<1> DEFINE w == Flipped(n)
           u == Flipped(g)
           sens == b \in Sensitive(g, i, gval)
           T == {m \in Nodes : m # n => (Differs(n, m, b) <=> Differs(g, m, b) /\ sens)}
<1>1. \A m \in Nodes : Differs(n, m, b) <=> ~(b \in w[m] <=> b \in gval[m])
  BY DEF Differs
<1>2. \A m \in Nodes : Differs(g, m, b) <=> ~(b \in u[m] <=> b \in gval[m])
  BY DEF Differs
<1>3. g \in Nodes /\ Nodes \subseteq Nat
  BY SimFacts
<1>4. \A m \in Logic : \A j \in DOMAIN net.fanin[m] : net.fanin[m][j] = n => m = g /\ j = i
  <2>1. \A m \in Logic : \A j \in DOMAIN net.fanin[m] : <<m, j>> \in sim.pins[net.fanin[m][j]]
    BY GateFacts
  <2>2. ASSUME NEW m \in Logic, NEW j \in DOMAIN net.fanin[m], net.fanin[m][j] = n
        PROVE  m = g /\ j = i
    <3>1. <<m, j>> \in {<<g, i>>}
      BY <2>1, <2>2
    <3> QED BY <3>1
  <2> QED BY <2>2
<1>5. net.fanin[g][i] = n
  BY PinFacts
<1>6. ASSUME NEW m \in Nodes, \A k \in Nodes : k < m => k \in T PROVE m \in T
  <2>1. CASE m \in Inputs
    BY <2>1, FlippedFacts DEF Differs, Logic
  <2>2. CASE m \in Logic \ {n, g}
    <3>1. \A j \in DOMAIN net.fanin[m] :
            /\ net.fanin[m][j] \in Nodes \ {n}
            /\ Differs(n, net.fanin[m][j], b) <=> Differs(g, net.fanin[m][j], b) /\ sens
      BY <1>4, <1>6, <2>2, GateFacts
    <3>2. /\ ~(b \in w[m] <=> b \in gval[m]) <=> ~(b \in Val(m, w) <=> b \in Val(m, gval))
          /\ ~(b \in u[m] <=> b \in gval[m]) <=> ~(b \in Val(m, u) <=> b \in Val(m, gval))
      BY <1>3, <2>2, FlippedFacts DEF Evaluated
    <3>3. CASE sens
      <4>1. \A j \in DOMAIN net.fanin[m] : b \in w[net.fanin[m][j]] <=> b \in u[net.fanin[m][j]]
        BY <1>1, <1>2, <3>1, <3>3
      <4>2. b \in Val(m, w) <=> b \in Val(m, u)
        BY <2>2, <4>1, ValLocal
      <4> QED BY <1>1, <1>2, <3>2, <3>3, <4>2
    <3>4. CASE ~sens
      <4>1. \A j \in DOMAIN net.fanin[m] : b \in w[net.fanin[m][j]] <=> b \in gval[net.fanin[m][j]]
        BY <1>1, <3>1, <3>4
      <4>2. b \in Val(m, w) <=> b \in Val(m, gval)
        BY <2>2, <4>1, ValLocal
      <4> QED BY <1>1, <3>2, <3>4, <4>2
    <3> QED BY <3>3, <3>4
  <2>3. CASE m = g
    <3>1. \A j \in DOMAIN net.fanin[g] \ {i} :
            b \in gval[net.fanin[g][j]] <=> b \in w[net.fanin[g][j]]
      <4>1. ASSUME NEW j \in DOMAIN net.fanin[g] \ {i} PROVE ~Differs(n, net.fanin[g][j], b)
        <5> DEFINE k == net.fanin[g][j]
        <5>1. k \in Nodes /\ k # n /\ k < g
          BY <1>4, GateFacts
        <5>2. ~Differs(g, k, b)
          BY <1>3, <5>1, FlippedFacts DEF Differs
        <5> QED BY <1>6, <2>3, <5>1, <5>2
      <4> QED BY <4>1 DEF Differs
    <3>2. ~(b \in gval[net.fanin[g][i]] <=> b \in w[net.fanin[g][i]])
      BY <1>5, FlippedFacts
    <3>3. ~(b \in Val(g, gval) <=> b \in Val(g, w)) <=> sens
      BY <3>1, <3>2, ValChanges
    <3>4. g # n
      <4>1. net.fanin[g][i] < g
        BY GateFacts
      <4> QED BY <1>3, <1>5, <4>1
    <3>5. gval[g] = Val(g, gval) /\ w[g] = Val(g, w)
      BY <1>3, <3>4, FlippedFacts DEF Evaluated
    <3>6. Differs(g, g, b)
      BY <1>3, FlippedFacts DEF Differs
    <3> QED BY <1>1, <2>3, <3>3, <3>5, <3>6
  <2> QED BY <2>1, <2>2, <2>3 DEF Logic
<1> HIDE DEF w, u, sens
<1>7. Nodes \subseteq T
  <2> HIDE DEF T
  <2> QED BY <1>6, UpwardInduction
<1> QED BY <1>7 DEF sens

\* So its observability is that of the gate, where the gate lets it through.
LEMMA ThroughTheGate ==
  ASSUME SimOK, Evaluated, NEW n \in Nodes \ net.out, NEW p, sim.pins[n] = {p}
  PROVE  /\ p[1] \in Logic /\ p[2] \in DOMAIN net.fanin[p[1]]
         /\ Observability(n) = Observability(p[1]) \cap Sensitive(p[1], p[2], gval)
<1> DEFINE g == p[1]
           i == p[2]
<1>1. g \in Logic /\ g \in Nodes /\ i \in DOMAIN net.fanin[g] /\ p = <<g, i>>
  BY PinFacts, SimFacts
<1>2. net.out \subseteq Nodes
  BY DEF SimOK, IsNet, Nodes
<1> HIDE DEF g, i
<1>3. ASSUME NEW b \in Pats
      PROVE  b \in Observability(n) <=> b \in Observability(g) /\ b \in Sensitive(g, i, gval)
  <2>1. \A o \in net.out : Differs(n, o, b) <=> Differs(g, o, b) /\ b \in Sensitive(g, i, gval)
    BY <1>1, <1>2, PastTheGate
  <2> QED BY <1>1, <2>1, ObservabilityFacts
<1>4. Observability(n) \subseteq Pats /\ Observability(g) \subseteq Pats
  BY <1>1, ObservabilityFacts
<1>5. Observability(n) = Observability(g) \cap Sensitive(g, i, gval)
  BY <1>3, <1>4
<1> QED BY <1>1, <1>5 DEF g, i

\* A change of a node that drives nothing is seen nowhere else.
LEMMA DrivesNothing ==
  ASSUME SimOK, Evaluated, NEW n \in Nodes \ net.out, sim.pins[n] = {}
  PROVE  Observability(n) = {}
<1>1. net.out \subseteq Nodes
  BY DEF SimOK, IsNet, Nodes
<1>2. ASSUME NEW b \in Pats PROVE \A m \in Nodes \ {n} : ~Differs(n, m, b)
  <2> DEFINE T == {m \in Nodes : m # n => ~Differs(n, m, b)}
  <2>1. ASSUME NEW m \in Nodes, \A k \in Nodes : k < m => k \in T PROVE m \in T
    <3>1. ASSUME m # n, Differs(n, m, b) PROVE FALSE
      <4>1. PICK j \in DOMAIN net.fanin[m] : m \in Logic /\ Differs(n, net.fanin[m][j], b)
        BY <3>1, DiffersFrom
      <4>2. net.fanin[m][j] \in Nodes /\ net.fanin[m][j] < m /\ net.fanin[m][j] # n
        BY <4>1, GateFacts
      <4> QED BY <2>1, <4>1, <4>2
    <3> QED BY <3>1
  <2>2. Nodes \subseteq T
    <3> HIDE DEF T
    <3> QED BY <2>1, UpwardInduction
  <2> QED BY <2>2
<1> QED BY <1>1, <1>2, ObservabilityFacts

\* OnePath is what it says.
LEMMA OnePathFacts ==
  ASSUME SimOK, NEW n \in Nodes, OnePath(n)
  PROVE  /\ Cardinality(sim.pins[n]) <= 1
         /\ \A k \in sim.fanout[n] : OnePath(k)
<1> DEFINE rank == Downward(net)
           At0(f, m) == Cardinality(sim.pins[m]) <= 1 /\ \A k \in sim.fanout[m] : f[k]
           Body(f) == [m \in Nodes |-> At0(f, m)]
           F == [f \in [Nodes -> BOOLEAN] |-> Body(f)]
           up == CHOOSE f : f = Body(f)
<1>1. \A m \in Nodes : \A k \in sim.fanout[m] : k \in Nodes /\ rank[k] < rank[m]
  <2>1. \A m \in Nodes : \A k \in sim.fanout[m] : k \in Nodes /\ m < k
    BY SimFacts
  <2> QED BY <2>1, DownwardFacts DEF SimOK, Nodes
<1>2. F \in [[Nodes -> BOOLEAN] -> [Nodes -> BOOLEAN]]
  <2>1. \A f : Body(f) \in [Nodes -> BOOLEAN]
    OBVIOUS
  <2> HIDE DEF Body
  <2> QED BY <2>1
<1>3. ASSUME NEW f \in [Nodes -> BOOLEAN], NEW g \in [Nodes -> BOOLEAN], NEW m \in Nodes,
             \A k \in Nodes : rank[k] < rank[m] => f[k] = g[k]
      PROVE  F[f][m] = F[g][m]
  <2>1. \A k \in sim.fanout[m] : f[k] = g[k]
    <3> HIDE DEF rank
    <3> QED BY <1>1, <1>3
  <2>2. At0(f, m) = At0(g, m)
    BY <2>1
  <2> HIDE DEF At0
  <2> QED BY <2>2
<1>4. IsRecursion(Nodes, BOOLEAN, rank, F)
  <2>1. \E K \in Nat : \A m \in Nodes : rank[m] \in 0 .. K
    BY DownwardFacts DEF SimOK, Nodes
  <2> HIDE DEF F, rank
  <2> QED BY <1>2, <1>3, <2>1 DEF IsRecursion
<1>5. \E f \in [Nodes -> BOOLEAN] : f = F[f]
  <2> HIDE DEF F, rank
  <2> QED BY <1>4, RankRecursion
<1>6. up = Body(up)
  <2> HIDE DEF Body
  <2> QED BY <1>5
<1>7. \A m : OnePath(m) = up[m]
  BY DEF OnePath
<1> HIDE DEF up
<1>8. \A m \in Nodes : up[m] = At0(up, m)
  BY <1>6
<1> QED BY <1>7, <1>8

\* The pass of calc_pseudo_min is exact where there is one path.
LEMMA PassExact ==
  ASSUME SimOK, Evaluated, NEW base \in [Nodes -> SUBSET Pats],
         \A n \in Nodes : base[n] = IF n \in net.out THEN Pats ELSE {},
         NEW share, \A p \in AllPins : share[p] = Sensitive(p[1], p[2], gval),
         NEW n \in Nodes, OnePath(n)
  PROVE  Backward(base, share)[n] = Observability(n)
<1> DEFINE ob == Backward(base, share)
           T == {m \in Nodes : OnePath(m) => ob[m] = Observability(m)}
<1>1. \A p \in AllPins : share[p] \subseteq Pats
  BY DEF Sensitive, AllPass
<1>2. /\ ob \in [Nodes -> SUBSET Pats]
      /\ \A m \in Nodes : ob[m] = base[m] \cup UNION {ob[p[1]] \cap share[p] : p \in sim.pins[m]}
  BY <1>1, BackwardType
<1> HIDE DEF ob
<1>3. ASSUME NEW m \in Nodes, \A k \in Nodes : m < k => k \in T PROVE m \in T
  <2> SUFFICES ASSUME OnePath(m) PROVE ob[m] = Observability(m)
    OBVIOUS
  <2>1. CASE m \in net.out
    <3>1. base[m] = Pats /\ ob[m] \subseteq Pats /\ base[m] \subseteq ob[m]
      BY <1>2, <2>1
    <3>2. Observability(m) = Pats
      BY <2>1, ObservabilityFacts
    <3> QED BY <3>1, <3>2
  <2>2. CASE m \notin net.out /\ sim.pins[m] = {}
    BY <1>2, <2>2, DrivesNothing
  <2>3. CASE m \notin net.out /\ sim.pins[m] # {}
    <3>1. PICK p \in sim.pins[m] : TRUE
      BY <2>3
    <3>2. sim.pins[m] = {p}
      <4>1. IsFiniteSet(sim.pins[m])
        <5>1. 1 \in Int /\ 4 \in Int /\ IsFiniteSet(Nodes)
          BY SimFacts
        <5>2. IsFiniteSet(Nodes \X (1 .. MaxFanin))
          BY <5>1, FS_Interval, FS_Product DEF MaxFanin
        <5>3. sim.pins[m] \subseteq Nodes \X (1 .. MaxFanin)
          BY PinFacts, SimFacts
        <5> QED BY <5>2, <5>3, FS_Subset
      <4>2. Cardinality(sim.pins[m]) \in Nat /\ Cardinality(sim.pins[m]) <= 1
        BY <4>1, FS_CardinalityType, OnePathFacts
      <4>3. ASSUME NEW q0 \in sim.pins[m], q0 # p PROVE FALSE
        <5> DEFINE P1 == {p}
                   P2 == P1 \cup {q0}
        <5>1. P2 \subseteq sim.pins[m] /\ q0 \notin P1
          BY <4>3
        <5>2. IsFiniteSet(P1) /\ Cardinality(P1) = 1
          BY FS_Singleton
        <5> HIDE DEF P1
        <5>3. Cardinality(P2) = 2
          <6>1. Cardinality(P2) = Cardinality(P1) + 1
            BY <5>1, <5>2, FS_AddElement
          <6> QED BY <5>2, <6>1
        <5> HIDE DEF P2
        <5>4. Cardinality(P2) <= Cardinality(sim.pins[m])
          BY <4>1, <5>1, FS_Subset
        <5> QED BY <4>2, <5>3, <5>4
      <4> QED BY <4>3
    <3>3. p[1] \in Nodes /\ m < p[1] /\ p[1] \in sim.fanout[m] /\ p \in AllPins
      BY PinFacts, SimFacts DEF AllPins
    <3>4. ob[p[1]] = Observability(p[1])
      BY <1>3, <3>3, OnePathFacts
    <3>5. ob[m] = ob[p[1]] \cap Sensitive(p[1], p[2], gval)
      BY <1>2, <2>3, <3>2, <3>3
    <3>6. Observability(m) = Observability(p[1]) \cap Sensitive(p[1], p[2], gval)
      BY <2>3, <3>2, ThroughTheGate
    <3> QED BY <3>4, <3>5, <3>6
  <2> QED BY <2>1, <2>2, <2>3
<1>4. Nodes \subseteq T
  <2> HIDE DEF T
  <2> QED BY <1>3, DownwardInduction
<1> QED BY <1>4 DEF ob

------------------------------------------------------------------------------
\* The words of the nodes are those of a calculation once there was one.
ValuesInv == op # "none" => Evaluated

\* The first words of a call.
LEMMA CallValues ==
  ASSUME CalcInv, UNCHANGED svfVars, (CvfRuns /\ Call) \/ (~CvfRuns /\ SvfCall)
  PROVE  UNCHANGED netVars /\ pc = "idle" /\ op' \in {"exact", "min", "max"} /\ Evaluated'
<1>1. SimOK /\ CvfTypeOK
  BY DEF CalcInv, Context
<1>2. /\ UNCHANGED netVars /\ pc = "idle" /\ op' \in {"exact", "min", "max"}
      /\ \E b \in Batches : (CvfRuns /\ CalcGval(b)) \/ SvfGval(b)
  BY DEF Call, SvfCall, StartExact, CalcPseudoMin, StartMax, SvfExactCall, SvfPseudoMin, SvfMax
<1>3. PICK b \in Batches : (CvfRuns /\ CalcGval(b)) \/ SvfGval(b)
  BY <1>2
<1>4. \A n \in Inputs : n \in Settled => b[n] \subseteq Pats
  BY DEF CalcInv, Context
<1>5. \E words : gval' = GoodValues(words) /\ \A n \in Inputs : words[n] \subseteq Pats
  <2>1. CASE CvfRuns /\ CalcGval(b)
    <3>1. \A n \in Inputs : b[n] \subseteq Pats
      BY <1>4, <2>1 DEF Settled, Inputs
    <3> QED BY <2>1, <3>1 DEF CalcGval
  <2>2. CASE SvfGval(b)
    <3> DEFINE words == [n \in Inputs |-> IF n \in Later THEN gval[n] ELSE b[n]]
    <3>1. \A n \in Inputs : words[n] \subseteq Pats
      BY <1>1, <1>4 DEF Settled, Inputs, CvfTypeOK
    <3>2. gval' = GoodValues(words)
      BY <2>2 DEF SvfGval
    <3> QED BY <3>1, <3>2
  <2> QED BY <1>3, <2>1, <2>2
<1>6. PICK words : gval' = GoodValues(words) /\ \A n \in Inputs : words[n] \subseteq Pats
  BY <1>5
<1>7. gval' \in [Nodes -> SUBSET Pats] /\ \A n \in Logic : gval'[n] = Val(n, gval')
  BY <1>1, <1>6, GoodValuesFacts
<1>8. net' = net /\ Nodes' = Nodes /\ Logic' = Logic
  BY <1>2, SameNet DEF netVars
<1>9. \A n \in Logic : Val(n, gval)' = Val(n, gval')
  BY <1>8 DEF Val
<1>10. Evaluated'
  BY <1>7, <1>8, <1>9 DEF Evaluated
<1> QED BY <1>2, <1>10

\* What the rest of a call leaves alone.
LEMMA WorkKeeps ==
  ASSUME Work
  PROVE  UNCHANGED <<netVars, gval, op>>
BY DEF Work, DssDone, DssOld, DssLocal, DssGlobal, DssStep, FfrOutput, FfrStart, Event, FfrEnd,
       EndExact, MaxRound, EndMax

\* The words are kept with the network.
LEMMA SameValues ==
  ASSUME UNCHANGED <<netVars, svfVars, gval>>
  PROVE  /\ SimOK => SimOK'
         /\ Evaluated => Evaluated'
         /\ \A n : Flipped(n)' = Flipped(n) /\ Observability(n)' = Observability(n)
         /\ \A n : OnePath(n)' = OnePath(n)
<1>1. net' = net /\ sim' = sim /\ mode' = mode /\ gval' = gval /\ UNCHANGED <<netVars, svfVars>>
  BY DEF netVars
<1>2. Nodes' = Nodes /\ Logic' = Logic
  BY <1>1, SameNet
<1>3. SimOK => SimOK'
  BY <1>1, <1>2 DEF SimOK
<1>4. Evaluated => Evaluated'
  <2>1. \A n : Val(n, gval)' = Val(n, gval)
    BY <1>1 DEF Val
  <2> QED BY <1>1, <1>2, <2>1 DEF Evaluated
<1>5. ASSUME NEW n PROVE Flipped(n)' = Flipped(n)
  BY <1>1 DEF Flipped, Nodes, IsInput
<1>6. ASSUME NEW n PROVE Observability(n)' = Observability(n)
  BY <1>1, <1>5 DEF Observability
<1>7. ASSUME NEW n PROVE OnePath(n)' = OnePath(n)
  BY <1>1 DEF OnePath, Nodes
<1> QED BY <1>3, <1>4, <1>5, <1>6, <1>7

\* So the words are those of a calculation in every reachable state.
LEMMA ValuesInvariance == CalcSpec => []ValuesInv
<1>1. CalcInit => ValuesInv
  BY DEF CalcInit, Init, SvfInit, ValuesInv
<1>2. CalcInv /\ ValuesInv /\ [CalcNext]_<<vars, svfVars>> => ValuesInv'
  <2> SUFFICES ASSUME CalcInv, ValuesInv, [CalcNext]_<<vars, svfVars>> PROVE ValuesInv'
    OBVIOUS
  <2>1. CASE UNCHANGED <<vars, svfVars>>
    <3>1. UNCHANGED <<netVars, svfVars, gval>> /\ op' = op
      BY <2>1 DEF vars
    <3> QED BY <3>1, SameValues DEF ValuesInv
  <2>2. CASE CalcNext
    <3>1. UNCHANGED svfVars /\ ((CvfRuns /\ Call) \/ (~CvfRuns /\ SvfCall) \/ Work)
      BY <2>2 DEF CalcNext, Next, SvfNext
    <3>2. CASE Work
      <4>1. UNCHANGED <<netVars, svfVars, gval>> /\ op' = op
        BY <3>1, <3>2, WorkKeeps
      <4> QED BY <4>1, SameValues DEF ValuesInv
    <3>3. CASE (CvfRuns /\ Call) \/ (~CvfRuns /\ SvfCall)
      BY <3>1, <3>3, CallValues DEF ValuesInv
    <3> QED BY <3>1, <3>2, <3>3
  <2> QED BY <2>1, <2>2
<1> QED BY <1>1, <1>2, CalcInvariance, PTL DEF CalcSpec

------------------------------------------------------------------------------
\* What calc_max and calc_pseudo_min have computed, if it was one of them.
ApproxInv ==
  /\ pc = "max" => op = "max"
  /\ op = "max" => \A n \in Nodes : Observability(n) \subseteq obs[n]
  /\ op = "min" => \A n \in Nodes : OnePath(n) => obs[n] = Observability(n)

\* The pass of calc_pseudo_min.
MinPass == Backward(StartOutputs([n \in Nodes |-> {}]), [p \in AllPins |-> Sensitive(p[1], p[2], gval)])

LEMMA MinPassFacts ==
  SimOK /\ Evaluated /\ obs = MinPass => \A n \in Nodes : OnePath(n) => obs[n] = Observability(n)
<1> SUFFICES ASSUME SimOK, Evaluated, NEW n \in Nodes, OnePath(n)
             PROVE  MinPass[n] = Observability(n)
  OBVIOUS
<1> DEFINE base == StartOutputs([m \in Nodes |-> {}])
           share == [p \in AllPins |-> Sensitive(p[1], p[2], gval)]
<1>1. /\ base \in [Nodes -> SUBSET Pats]
      /\ \A m \in Nodes : base[m] = IF m \in net.out THEN Pats ELSE {}
  BY DEF StartOutputs, IsOutput
<1>2. \A p \in AllPins : share[p] = Sensitive(p[1], p[2], gval)
  OBVIOUS
<1>3. MinPass = Backward(base, share)
  BY DEF MinPass
<1> HIDE DEF base, share
<1> QED BY <1>1, <1>2, <1>3, PassExact

\* The pass of calc_max of CalcSvf.
SvfPass == Backward(StartOutputs([n \in Nodes |-> {}]), [p \in AllPins |-> SvfShare(p[1], p[2], gval)])

LEMMA SvfPassFacts ==
  SimOK /\ Evaluated /\ obs = SvfPass => \A n \in Nodes : Observability(n) \subseteq obs[n]
<1> SUFFICES ASSUME SimOK, Evaluated, NEW n \in Nodes
             PROVE  Observability(n) \subseteq SvfPass[n]
  OBVIOUS
<1> DEFINE base == StartOutputs([m \in Nodes |-> {}])
           share == [p \in AllPins |-> SvfShare(p[1], p[2], gval)]
<1>1. /\ base \in [Nodes -> SUBSET Pats]
      /\ \A m \in net.out : base[m] = Pats
  BY DEF StartOutputs, IsOutput, SimOK, IsNet, Nodes
<1>2. \A p \in AllPins : share[p] = SvfShare(p[1], p[2], gval)
  OBVIOUS
<1>3. SvfPass = Backward(base, share)
  BY DEF SvfPass
<1> HIDE DEF base, share
<1>4. \A p \in AllPins : share[p] \subseteq Pats
  BY <1>2 DEF SvfShare, AllPass
<1>5. Answering(share)
  BY <1>2, SvfAnswers
<1> QED BY <1>1, <1>3, <1>4, <1>5, PassBounds

\* The bound is there from the start of calc_max.
LEMMA FirstBound ==
  SimOK /\ Evaluated /\ obs = [n \in Nodes |-> Pats] => \A n \in Nodes : Observability(n) \subseteq obs[n]
BY ObservabilityFacts

\* A round of calc_max keeps it.
LEMMA RoundBound ==
  ASSUME CalcInv, Evaluated, NEW o \in Orders, MaxRound(o),
         \A n \in Nodes : Observability(n) \subseteq obs[n]
  PROVE  \A n \in Nodes : Observability(n) \subseteq obs'[n]
<1> DEFINE base == StartOutputs(obs2)
           share == [p \in AllPins |-> Share(p[1], p[2], o[p[1]])]
<1>1. SimOK /\ obs2 \in [Nodes -> SUBSET Pats]
  BY DEF CalcInv, Context, CvfTypeOK
<1>2. /\ base \in [Nodes -> SUBSET Pats]
      /\ \A m \in net.out : base[m] = Pats
  BY <1>1 DEF StartOutputs, IsOutput, SimOK, IsNet, Nodes
<1>3. \A p \in AllPins : share[p] = Share(p[1], p[2], o[p[1]])
  OBVIOUS
<1>4. obs' = [n \in Nodes |-> obs[n] \cap Backward(base, share)[n]]
  BY DEF MaxRound
<1> HIDE DEF base, share
<1>5. \A p \in AllPins : share[p] \subseteq Pats
  BY <1>3 DEF Share, AllPass
<1>6. Answering(share)
  BY <1>1, <1>3, MaxAnswers
<1>7. \A n \in Nodes : Observability(n) \subseteq Backward(base, share)[n]
  BY <1>1, <1>2, <1>5, <1>6, PassBounds
<1> QED BY <1>4, <1>7

\* The start of a call.
LEMMA CallApprox ==
  ASSUME CalcInv, UNCHANGED svfVars, (CvfRuns /\ Call) \/ (~CvfRuns /\ SvfCall)
  PROVE  /\ pc' = "max" => op' = "max"
         /\ op' = "max" => obs' = [n \in Nodes |-> Pats]' \/ obs' = SvfPass'
         /\ op' = "min" => obs' = MinPass'
<1>1. UNCHANGED <<netVars, svfVars>> /\ net' = net /\ sim' = sim /\ pc = "idle"
  BY CallValues DEF netVars
<1>2. Nodes' = Nodes /\ AllPins' = AllPins
  BY <1>1 DEF Nodes, AllPins
<1>3. MinPass' = Backward(StartOutputs([n \in Nodes |-> {}]),
                          [p \in AllPins |-> Sensitive(p[1], p[2], gval')])
  BY <1>1 DEF MinPass, Backward, StartOutputs, IsOutput, AllPins, Sensitive, AllPass, Nodes
<1>4. SvfPass' = Backward(StartOutputs([n \in Nodes |-> {}]),
                          [p \in AllPins |-> SvfShare(p[1], p[2], gval')])
  BY <1>1 DEF SvfPass, Backward, StartOutputs, IsOutput, AllPins, SvfShare, AllPass, Nodes
<1>5. PICK b \in Batches : \/ StartExact(b) \/ CalcPseudoMin(b) \/ StartMax(b)
                           \/ SvfExactCall(b) \/ SvfPseudoMin(b) \/ SvfMax(b)
  BY DEF Call, SvfCall
<1>6. CASE StartExact(b) \/ SvfExactCall(b)
  BY <1>6 DEF StartExact, SvfExactCall
<1>7. CASE CalcPseudoMin(b) \/ SvfPseudoMin(b)
  BY <1>1, <1>3, <1>7 DEF CalcPseudoMin, SvfPseudoMin
<1>8. CASE StartMax(b)
  BY <1>2, <1>8 DEF StartMax
<1>9. CASE SvfMax(b)
  BY <1>1, <1>4, <1>9 DEF SvfMax
<1> QED BY <1>5, <1>6, <1>7, <1>8, <1>9

\* The steps of a call.
LEMMA WorkApprox ==
  ASSUME CalcInv, ValuesInv, ApproxInv, UNCHANGED svfVars, Work
  PROVE  ApproxInv'
<1>1. UNCHANGED <<netVars, svfVars, gval>> /\ op' = op
  BY WorkKeeps
<1>2. Nodes' = Nodes /\ \A n : Observability(n)' = Observability(n) /\ OnePath(n)' = OnePath(n)
  BY <1>1, SameNet, SameValues
<1>3. CASE \E o \in Orders : MaxRound(o)
  <2>1. PICK o \in Orders : MaxRound(o)
    BY <1>3
  <2>2. pc = "max" /\ pc' = pc /\ op = "max" /\ Evaluated
    BY <2>1 DEF MaxRound, ApproxInv, ValuesInv
  <2>3. \A n \in Nodes : Observability(n) \subseteq obs'[n]
    BY <2>1, <2>2, RoundBound DEF ApproxInv
  <2> QED BY <1>1, <1>2, <2>2, <2>3 DEF ApproxInv
<1>4. CASE ~\E o \in Orders : MaxRound(o)
  <2>1. /\ pc' = "max" => pc = "max"
        /\ obs' = obs \/ pc \in {"ffr", "sim"}
    BY <1>4 DEF Work, DssDone, DssOld, DssLocal, DssGlobal, DssStep, FfrOutput, FfrStart, Event, FfrEnd,
                EndExact, EndMax
  <2>2. obs' = obs \/ op = "exact"
    BY <2>1 DEF CalcInv, Control
  <2> QED BY <1>1, <1>2, <2>1, <2>2 DEF ApproxInv
<1> QED BY <1>3, <1>4

\* They are as they should be in every reachable state.
LEMMA ApproxInvariance == CalcSpec => []ApproxInv
<1>1. CalcInit => ApproxInv
  BY DEF CalcInit, Init, SvfInit, ApproxInv
<1>2. CalcInv /\ ValuesInv /\ ApproxInv /\ CalcInv' /\ [CalcNext]_<<vars, svfVars>> => ApproxInv'
  <2> SUFFICES ASSUME CalcInv, ValuesInv, ApproxInv, CalcInv', [CalcNext]_<<vars, svfVars>>
               PROVE  ApproxInv'
    OBVIOUS
  <2>1. CASE UNCHANGED <<vars, svfVars>>
    <3>1. UNCHANGED <<netVars, svfVars, gval>> /\ UNCHANGED <<op, pc, obs>>
      BY <2>1 DEF vars
    <3>2. Nodes' = Nodes /\ \A n : Observability(n)' = Observability(n) /\ OnePath(n)' = OnePath(n)
      BY <3>1, SameNet, SameValues
    <3> QED BY <3>1, <3>2 DEF ApproxInv
  <2>2. CASE CalcNext
    <3>1. UNCHANGED svfVars /\ ((CvfRuns /\ Call) \/ (~CvfRuns /\ SvfCall) \/ Work)
      BY <2>2 DEF CalcNext, Next, SvfNext
    <3>2. CASE Work
      BY <3>1, <3>2, WorkApprox
    <3>3. CASE (CvfRuns /\ Call) \/ (~CvfRuns /\ SvfCall)
      <4>1. SimOK' /\ Evaluated'
        BY <3>1, <3>3, CallValues DEF CalcInv, Context
      <4>2. (obs = MinPass)' => (\A n \in Nodes : OnePath(n) => obs[n] = Observability(n))'
        BY <4>1, MinPassFacts, PTL
      <4>3. (obs = SvfPass)' => (\A n \in Nodes : Observability(n) \subseteq obs[n])'
        BY <4>1, SvfPassFacts, PTL
      <4>4. (obs = [n \in Nodes |-> Pats])' => (\A n \in Nodes : Observability(n) \subseteq obs[n])'
        BY <4>1, FirstBound, PTL
      <4> QED BY <3>1, <3>3, <4>2, <4>3, <4>4, CallApprox DEF ApproxInv
    <3> QED BY <3>1, <3>2, <3>3
  <2> QED BY <2>1, <2>2
<1> QED BY <1>1, <1>2, CalcInvariance, ValuesInvariance, PTL DEF CalcSpec

\* Whatever the network, the vectors, the orders drawn and what mTmpObs held at
\* first: calc_max of either program bounds the observability from above, and
\* calc_pseudo_min is exact for a node with a single path to the outputs.
THEOREM ApproximationsBound == CalcSpec => []Approximates
<1>1. ApproxInv => Approximates
  BY DEF ApproxInv, Approximates, MaxBounds, PseudoMinOnTrees
<1> QED BY <1>1, ApproxInvariance, PTL

------------------------------------------------------------------------------
(***************************************************************************)
(* The regions, and the outputs on the paths from a node                   *)
(***************************************************************************)
\* What set_network of either program has made of its network.
Derived ==
  IF CvfRuns THEN sim = Sim(net)
  ELSE /\ seq \in SeqNets /\ frames \in Frames /\ net = Unroll(seq, frames)
       /\ sim = SvfSim(net, seq) /\ mode = "none"

\* It is kept.
LEMMA DerivedInvariance == CalcSpec => []Derived
<1>1. CalcInit => Derived
  <2>1. ASSUME Init, seq = NoSeq, frames = 0 PROVE Derived
    BY <2>1 DEF Init, Derived, CvfRuns
  <2>2. ASSUME SvfInit PROVE Derived
    <3>1. frames # 0
      BY <2>2, SvfAssumption DEF SvfInit
    <3> QED BY <2>2, <3>1 DEF SvfInit, Derived, CvfRuns
  <2> QED BY <2>1, <2>2 DEF CalcInit
<1>2. CalcInv /\ Derived /\ [CalcNext]_<<vars, svfVars>> => Derived'
  <2> SUFFICES ASSUME CalcInv, Derived, [CalcNext]_<<vars, svfVars>> PROVE Derived'
    OBVIOUS
  <2>1. UNCHANGED <<netVars, svfVars>>
    <3>1. CASE UNCHANGED <<vars, svfVars>>
      BY <3>1 DEF vars
    <3>2. CASE CalcNext
      BY <3>2, CallValues, WorkKeeps DEF CalcNext, Next, SvfNext
    <3> QED BY <3>1, <3>2
  <2> QED BY <2>1 DEF netVars, svfVars, Derived, CvfRuns
<1> QED BY <1>1, <1>2, CalcInvariance, PTL DEF CalcSpec

\* A node that drives one pin.
LEMMA SinglePin ==
  ASSUME SimOK, NEW m \in Nodes, Nfo(net, m) = 1
  PROVE  /\ NextOf(net, m) \in Nodes /\ m < NextOf(net, m)
         /\ Fanouts(net, m) = {NextOf(net, m)}
         /\ \E p : Pins(net, m) = {p} /\ p[1] = NextOf(net, m)
<1>1. IsNet(net) /\ Nodes = DOMAIN net.type
  BY DEF SimOK, Nodes
<1>2. PICK p : Pins(net, m) = {p}
  <2>1. IsFiniteSet(Pins(net, m))
    <3>1. 1 \in Int /\ 4 \in Int /\ IsFiniteSet(Nodes)
      BY SimFacts
    <3>2. IsFiniteSet(Nodes \X (1 .. MaxFanin))
      BY <3>1, FS_Interval, FS_Product DEF MaxFanin
    <3>3. Pins(net, m) \subseteq Nodes \X (1 .. MaxFanin)
      BY <1>1 DEF Pins
    <3> QED BY <3>2, <3>3, FS_Subset
  <2>2. \E x : Pins(net, m) = {x}
    BY <2>1, FS_Singleton DEF Nfo
  <2> QED BY <2>2
<1>3. Fanouts(net, m) = {p[1]}
  BY <1>2 DEF Fanouts
<1>4. NextOf(net, m) \in Fanouts(net, m)
  BY <1>1, <1>3, NextFacts
<1> QED BY <1>1, <1>2, <1>3, <1>4, FanoutFacts

\* Inside a region a node is no output and drives one pin, whose gate is of the
\* same region. The root of a region comes after its other nodes.
LEMMA RegionFacts ==
  ASSUME SimOK, CvfRuns, Derived, NEW n \in Nodes
  PROVE  /\ sim.root[n] \in Roots /\ n <= sim.root[n]
         /\ sim.root[n] # n =>
              /\ n \notin net.out /\ NextOf(net, n) \in Nodes /\ n < NextOf(net, n)
              /\ sim.fanout[n] = {NextOf(net, n)} /\ sim.root[NextOf(net, n)] = sim.root[n]
              /\ \E p : sim.pins[n] = {p}
<1>1. /\ IsNet(net) /\ Nodes = DOMAIN net.type /\ Nodes \subseteq Nat /\ sim.root = Root(net)
      /\ \A m \in Nodes : sim.fanout[m] = Fanouts(net, m) /\ sim.pins[m] = Pins(net, m)
  BY SimFacts DEF SimOK, Nodes, Derived, Sim
<1>2. \A m \in Nodes :
        /\ Root(net)[m] \in Nodes
        /\ Root(net)[m] = IF m \in net.out \/ Nfo(net, m) # 1 THEN m ELSE Root(net)[NextOf(net, m)]
  BY <1>1, RootFacts DEF IsRoots
<1>3. ASSUME NEW m \in Nodes, m \notin net.out, Nfo(net, m) = 1
      PROVE  /\ NextOf(net, m) \in Nodes /\ m < NextOf(net, m)
             /\ Fanouts(net, m) = {NextOf(net, m)} /\ \E p : Pins(net, m) = {p}
  BY <1>3, SinglePin
<1> DEFINE T == {m \in Nodes : /\ Root(net)[Root(net)[m]] = Root(net)[m] /\ m <= Root(net)[m]
                               /\ Root(net)[m] # m => m \notin net.out /\ Nfo(net, m) = 1}
<1>4. ASSUME NEW m \in Nodes, \A k \in Nodes : m < k => k \in T PROVE m \in T
  <2>1. CASE m \in net.out \/ Nfo(net, m) # 1
    BY <1>1, <1>2, <2>1
  <2>2. CASE m \notin net.out /\ Nfo(net, m) = 1
    <3>1. NextOf(net, m) \in T /\ m < NextOf(net, m) /\ NextOf(net, m) \in Nodes
      BY <1>3, <1>4, <2>2
    <3>2. Root(net)[m] = Root(net)[NextOf(net, m)]
      BY <1>2, <2>2
    <3>3. m <= Root(net)[m]
      <4>1. NextOf(net, m) <= Root(net)[NextOf(net, m)]
        BY <3>1
      <4> QED BY <1>1, <1>2, <3>1, <3>2, <4>1
    <3> QED BY <2>2, <3>1, <3>2, <3>3
  <2> QED BY <2>1, <2>2
<1>5. Nodes \subseteq T
  <2> HIDE DEF T
  <2> QED BY <1>4, DownwardInduction
<1>6. /\ Root(net)[Root(net)[n]] = Root(net)[n] /\ n <= Root(net)[n]
      /\ Root(net)[n] # n => /\ n \notin net.out /\ Nfo(net, n) = 1
                             /\ Root(net)[NextOf(net, n)] = Root(net)[n]
  BY <1>2, <1>5
<1>7. sim.root[n] \in Roots
  BY <1>1, <1>2, <1>6 DEF Roots
<1> QED BY <1>1, <1>3, <1>6, <1>7

\* The mark of an output is the output, that of any other node what the gates it
\* drives have.
LEMMA MarkFacts ==
  ASSUME SimOK, CvfRuns, Derived, NEW n \in Nodes
  PROVE  /\ n \in net.out => sim.mark[n] = {n}
         /\ n \notin net.out => sim.mark[n] = UNION {sim.mark[m] : m \in sim.fanout[n]}
         /\ sim.mark[sim.root[n]] = sim.mark[n]
<1> DEFINE rt == Root(net)
           V == SUBSET Nodes
           rank == Downward(net)
           At0(f, m) == IF m \in net.out THEN {m} ELSE UNION {f[rt[k]] : k \in Fanouts(net, m)}
           Body(f) == [m \in Nodes |-> At0(f, m)]
           F == [f \in [Nodes -> V] |-> Body(f)]
           mk == CHOOSE f : f = Body(f)
<1>1. /\ IsNet(net) /\ Nodes = DOMAIN net.type /\ Nodes \subseteq Nat /\ sim.root = rt
      /\ \A m \in Nodes : sim.fanout[m] = Fanouts(net, m)
      /\ \A m \in Nodes : sim.mark[m] = Mark(net)[rt[m]]
  BY SimFacts DEF SimOK, Nodes, Derived, Sim
<1>2. \A m \in Nodes : rt[m] \in Nodes /\ m <= rt[m] /\ rt[rt[m]] = rt[m]
  BY <1>1, RegionFacts DEF Roots
<1> HIDE DEF rt
<1>3. \A m \in Nodes : \A k \in Fanouts(net, m) : rt[k] \in Nodes /\ rank[rt[k]] < rank[m]
  <2> SUFFICES ASSUME NEW m \in Nodes, NEW k \in Fanouts(net, m)
               PROVE  rt[k] \in Nodes /\ rank[rt[k]] < rank[m]
    OBVIOUS
  <2>1. k \in Nodes /\ m < k
    BY <1>1, FanoutFacts
  <2>2. rt[k] \in Nodes /\ k <= rt[k] /\ m \in Nat /\ k \in Nat /\ rt[k] \in Nat
    BY <1>1, <1>2, <2>1
  <2>3. m < rt[k]
    BY <2>1, <2>2
  <2> QED BY <1>1, <2>2, <2>3, DownwardFacts
<1>4. F \in [[Nodes -> V] -> [Nodes -> V]]
  <2>1. ASSUME NEW f \in [Nodes -> V] PROVE Body(f) \in [Nodes -> V]
    <3>1. \A m \in Nodes : At0(f, m) \in V
      BY <1>3
    <3> HIDE DEF At0, V
    <3> QED BY <3>1
  <2> HIDE DEF Body
  <2> QED BY <2>1
<1>5. ASSUME NEW f \in [Nodes -> V], NEW g \in [Nodes -> V], NEW m \in Nodes,
             \A k \in Nodes : rank[k] < rank[m] => f[k] = g[k]
      PROVE  F[f][m] = F[g][m]
  <2>1. \A k \in Fanouts(net, m) : f[rt[k]] = g[rt[k]]
    <3> HIDE DEF rank
    <3> QED BY <1>3, <1>5
  <2>2. {f[rt[k]] : k \in Fanouts(net, m)} = {g[rt[k]] : k \in Fanouts(net, m)}
    BY <2>1
  <2>3. At0(f, m) = At0(g, m)
    BY <2>2
  <2> HIDE DEF At0
  <2> QED BY <2>3
<1>6. IsRecursion(Nodes, V, rank, F)
  <2>1. V # {}
    OBVIOUS
  <2>2. \E K \in Nat : \A m \in Nodes : rank[m] \in 0 .. K
    BY <1>1, DownwardFacts
  <2> HIDE DEF F, rank, V
  <2> QED BY <1>4, <1>5, <2>1, <2>2 DEF IsRecursion
<1>7. \E f \in [Nodes -> V] : f = F[f]
  <2> HIDE DEF F, rank, V
  <2> QED BY <1>6, RankRecursion
<1>8. mk = Body(mk)
  <2> HIDE DEF Body
  <2> QED BY <1>7
<1>9. Mark(net) = mk
  BY DEF Mark, rt, Nodes
<1> HIDE DEF mk
<1>10. \A m \in Nodes : mk[m] = At0(mk, m)
  BY <1>8
<1>11. UNION {mk[rt[k]] : k \in Fanouts(net, n)} = UNION {sim.mark[k] : k \in sim.fanout[n]}
  <2>1. \A k \in Fanouts(net, n) : mk[rt[k]] = sim.mark[k]
    BY <1>1, <1>9, FanoutFacts
  <2> QED BY <1>1, <2>1
<1>12. sim.mark[sim.root[n]] = sim.mark[n]
  BY <1>1, <1>2
<1>13. CASE rt[n] = n
  BY <1>1, <1>9, <1>10, <1>11, <1>12, <1>13
<1>14. CASE rt[n] # n
  <2>1. /\ n \notin net.out /\ NextOf(net, n) \in Nodes
        /\ sim.fanout[n] = {NextOf(net, n)} /\ rt[NextOf(net, n)] = rt[n]
    BY <1>1, <1>14, RegionFacts
  <2>2. sim.mark[n] = sim.mark[NextOf(net, n)]
    BY <1>1, <2>1
  <2> QED BY <1>12, <2>1, <2>2
<1> QED BY <1>13, <1>14

\* An output is in the mark of a node only if it is on a path from it.
LEMMA MarkAbove ==
  ASSUME SimOK, CvfRuns, Derived, NEW n \in Nodes
  PROVE  \A o \in sim.mark[n] : o \in net.out /\ n <= o /\ (o = n \/ sim.level[n] < sim.level[o])
<1> DEFINE T == {m \in Nodes : \A o \in sim.mark[m] :
                   o \in net.out /\ m <= o /\ (o = m \/ sim.level[m] < sim.level[o])}
<1>1. net.out \subseteq Nodes /\ Nodes \subseteq Nat
  BY SimFacts DEF SimOK, IsNet, Nodes
<1>2. ASSUME NEW m \in Nodes, \A k \in Nodes : m < k => k \in T PROVE m \in T
  <2>1. CASE m \in net.out
    BY <1>1, <2>1, MarkFacts
  <2>2. CASE m \notin net.out
    <3>1. ASSUME NEW o \in sim.mark[m] PROVE o \in net.out /\ m <= o /\ sim.level[m] < sim.level[o]
      <4>1. PICK k \in sim.fanout[m] : o \in sim.mark[k]
        BY <2>2, MarkFacts
      <4>2. k \in Nodes /\ m < k /\ sim.level[m] < sim.level[k]
        BY <4>1, SimFacts
      <4>3. o \in net.out /\ k <= o /\ (o = k \/ sim.level[k] < sim.level[o])
        BY <1>2, <4>1, <4>2
      <4>4. o \in Nodes /\ sim.level[o] \in Nat /\ sim.level[k] \in Nat /\ sim.level[m] \in Nat
        BY <1>1, <4>2, <4>3, SimFacts
      <4> QED BY <1>1, <4>2, <4>3, <4>4
    <3> QED BY <3>1
  <2> QED BY <2>1, <2>2
<1>3. Nodes \subseteq T
  <2> HIDE DEF T
  <2> QED BY <1>2, DownwardInduction
<1> QED BY <1>3

------------------------------------------------------------------------------
\* The outputs that can be reached without a node of S.
LEMMA OutsideFacts ==
  ASSUME SimOK, NEW S
  PROVE  \A n \in Nodes :
           Outside(S)[n] = IF n \in S THEN {} ELSE IF IsOutput(n) THEN {n}
                           ELSE UNION {Outside(S)[m] : m \in sim.fanout[n]}
<1> DEFINE V == SUBSET Nodes
           rank == Downward(net)
           At0(f, m) == IF m \in S THEN {} ELSE IF IsOutput(m) THEN {m}
                        ELSE UNION {f[k] : k \in sim.fanout[m]}
           Body(f) == [m \in Nodes |-> At0(f, m)]
           F == [f \in [Nodes -> V] |-> Body(f)]
           reach == CHOOSE f : f = Body(f)
<1>1. \A m \in Nodes : \A k \in sim.fanout[m] : k \in Nodes /\ rank[k] < rank[m]
  <2>1. \A m \in Nodes : \A k \in sim.fanout[m] : k \in Nodes /\ m < k
    BY SimFacts
  <2> QED BY <2>1, DownwardFacts DEF SimOK, Nodes
<1>2. F \in [[Nodes -> V] -> [Nodes -> V]]
  <2>1. ASSUME NEW f \in [Nodes -> V] PROVE Body(f) \in [Nodes -> V]
    <3>1. \A m \in Nodes : At0(f, m) \in V
      BY <1>1
    <3> HIDE DEF At0, V
    <3> QED BY <3>1
  <2> HIDE DEF Body
  <2> QED BY <2>1
<1>3. ASSUME NEW f \in [Nodes -> V], NEW g \in [Nodes -> V], NEW m \in Nodes,
             \A k \in Nodes : rank[k] < rank[m] => f[k] = g[k]
      PROVE  F[f][m] = F[g][m]
  <2>1. \A k \in sim.fanout[m] : f[k] = g[k]
    <3> HIDE DEF rank
    <3> QED BY <1>1, <1>3
  <2>2. At0(f, m) = At0(g, m)
    BY <2>1
  <2> HIDE DEF At0
  <2> QED BY <2>2
<1>4. IsRecursion(Nodes, V, rank, F)
  <2>1. V # {}
    OBVIOUS
  <2>2. \E K \in Nat : \A m \in Nodes : rank[m] \in 0 .. K
    BY DownwardFacts DEF SimOK, Nodes
  <2> HIDE DEF F, rank, V
  <2> QED BY <1>2, <1>3, <2>1, <2>2 DEF IsRecursion
<1>5. \E f \in [Nodes -> V] : f = F[f]
  <2> HIDE DEF F, rank, V
  <2> QED BY <1>4, RankRecursion
<1>6. reach = Body(reach)
  <2> HIDE DEF Body
  <2> QED BY <1>5
<1>7. Outside(S) = reach
  BY DEF Outside
<1> HIDE DEF reach
<1> QED BY <1>6, <1>7

\* A set that replaces another cuts as much, when nothing is reached around it
\* from what it drops.
LEMMA Replace ==
  ASSUME SimOK, NEW S, NEW S1, \A x \in (S \ S1) \cap Nodes : Outside(S1)[x] = {}, NEW n \in Nodes
  PROVE  Outside(S1)[n] \subseteq Outside(S)[n]
<1> DEFINE T == {m \in Nodes : Outside(S1)[m] \subseteq Outside(S)[m]}
<1>1. ASSUME NEW m \in Nodes, \A k \in Nodes : m < k => k \in T PROVE m \in T
  <2>1. CASE m \in S \cup S1
    BY <2>1, OutsideFacts
  <2>2. CASE m \notin S \cup S1
    <3>1. \A k \in sim.fanout[m] : Outside(S1)[k] \subseteq Outside(S)[k]
      BY <1>1, SimFacts
    <3>2. UNION {Outside(S1)[k] : k \in sim.fanout[m]} \subseteq UNION {Outside(S)[k] : k \in sim.fanout[m]}
      BY <3>1
    <3>3. /\ Outside(S1)[m] = IF IsOutput(m) THEN {m} ELSE UNION {Outside(S1)[k] : k \in sim.fanout[m]}
          /\ Outside(S)[m] = IF IsOutput(m) THEN {m} ELSE UNION {Outside(S)[k] : k \in sim.fanout[m]}
      <4>1. \A k \in Nodes : Outside(S)[k] = IF k \in S THEN {} ELSE IF IsOutput(k) THEN {k}
                                             ELSE UNION {Outside(S)[l] : l \in sim.fanout[k]}
        BY OutsideFacts
      <4>2. \A k \in Nodes : Outside(S1)[k] = IF k \in S1 THEN {} ELSE IF IsOutput(k) THEN {k}
                                              ELSE UNION {Outside(S1)[l] : l \in sim.fanout[k]}
        BY OutsideFacts
      <4> QED BY <2>2, <4>1, <4>2
    <3> QED BY <3>2, <3>3
  <2> QED BY <2>1, <2>2
<1>2. Nodes \subseteq T
  <2> HIDE DEF T
  <2> QED BY <1>1, DownwardInduction
<1> QED BY <1>2

\* A node on the path of another to the root of its region cuts it off.
LEMMA PathCuts ==
  ASSUME SimOK, CvfRuns, Derived, mode # "none", NEW S, NEW z \in Nodes, Outside(S)[z] = {}
  PROVE  \A x \in Nodes : z \in PathOf(x) => Outside(S)[x] = {}
<1> DEFINE T == {x \in Nodes : z \in PathOf(x) => Outside(S)[x] = {}}
<1>1. ASSUME NEW x \in Nodes, \A k \in Nodes : x < k => k \in T PROVE x \in T
  <2> SUFFICES ASSUME z \in PathOf(x), z # x PROVE Outside(S)[x] = {}
    OBVIOUS
  <2>1. sim.root[x] # x /\ z \in PathOf(NextOf(net, x))
    BY PathFacts
  <2>2. /\ x \notin net.out /\ NextOf(net, x) \in Nodes /\ x < NextOf(net, x)
        /\ sim.fanout[x] = {NextOf(net, x)}
    BY <2>1, RegionFacts
  <2>3. Outside(S)[NextOf(net, x)] = {}
    BY <1>1, <2>1, <2>2
  <2>4. UNION {Outside(S)[k] : k \in sim.fanout[x]} = {}
    BY <2>2, <2>3
  <2> QED BY <2>2, <2>4, OutsideFacts DEF IsOutput
<1>2. Nodes \subseteq T
  <2> HIDE DEF T
  <2> QED BY <1>1, DownwardInduction
<1> QED BY <1>2

------------------------------------------------------------------------------
(***************************************************************************)
(* find_dss                                                                *)
(***************************************************************************)
\* The outputs that can be reached from what node r drives.
Reached(r) == UNION {sim.mark[k] : k \in sim.fanout[r]}

\* A and C together stand for what r drives: no output is reached around them.
\* The outputs of the nodes of A are settled, those of C may still be shared.
Cuts(r, A, C) ==
  /\ \A k \in sim.fanout[r] : Outside(A \cup C)[k] = {}
  /\ \A x \in A \cup C : r < x /\ sim.mark[x] \subseteq Reached(r)
  /\ \A x, y \in A : x # y => ~Overlap(x, y)
  /\ \A x \in A, y \in C : ~Overlap(x, y)

\* The sets find_dss starts with.
LEMMA CutsStart ==
  ASSUME SimOK, NEW r \in Nodes
  PROVE  Cuts(r, {}, sim.fanout[r])
<1>1. {} \cup sim.fanout[r] = sim.fanout[r]
  OBVIOUS
<1>2. \A k \in sim.fanout[r] : Outside(sim.fanout[r])[k] = {}
  BY OutsideFacts, SimFacts
<1>3. \A k \in sim.fanout[r] : r < k /\ sim.mark[k] \subseteq Reached(r)
  BY SimFacts DEF Reached
<1> QED BY <1>1, <1>2, <1>3 DEF Cuts

\* The sets it ends with.
LEMMA CutsEnd ==
  ASSUME NEW r, NEW A, NEW C, Cuts(r, A, C), \A x, y \in C : x # y => ~Overlap(x, y)
  PROVE  Cuts(r, A \cup C, {})
<1>1. (A \cup C) \cup {} = A \cup C
  OBVIOUS
<1>2. \A x, y : Overlap(x, y) <=> Overlap(y, x)
  BY DEF Overlap
<1> QED BY <1>1, <1>2 DEF Cuts

\* A step that settles the nodes of C that share no output, and puts A1 and C1
\* in the place of those that do, H.
LEMMA CutsStep ==
  ASSUME SimOK, NEW r \in Nodes, NEW A, NEW C, NEW H, A \subseteq Nodes, C \subseteq Nodes,
         H \subseteq C, Cuts(r, A, C),
         \A x \in C \ H : \A y \in C \ {x} : ~Overlap(x, y),
         NEW A1, NEW C1, A1 \subseteq Nodes, C1 \subseteq Nodes,
         \A y \in A1 \cup C1 : r < y /\ \E z \in H : sim.mark[y] \subseteq sim.mark[z],
         \A x, y \in A1 : x # y => ~Overlap(x, y),
         \A x \in A1, y \in C1 : ~Overlap(x, y),
         \A x \in H : Outside((A \cup (C \ H) \cup A1) \cup C1)[x] = {}
  PROVE  Cuts(r, A \cup (C \ H) \cup A1, C1)
<1> DEFINE A2 == A \cup (C \ H) \cup A1
           S2 == A2 \cup C1
<1>1. ASSUME NEW k \in sim.fanout[r] PROVE Outside(S2)[k] = {}
  <2>1. \A x \in ((A \cup C) \ S2) \cap Nodes : Outside(S2)[x] = {}
    OBVIOUS
  <2>2. k \in Nodes /\ Outside(A \cup C)[k] = {}
    BY SimFacts DEF Cuts
  <2> HIDE DEF S2
  <2>3. Outside(S2)[k] \subseteq Outside(A \cup C)[k]
    BY <2>1, <2>2, Replace
  <2> QED BY <2>2, <2>3
<1>2. ASSUME NEW x \in S2 PROVE r < x /\ sim.mark[x] \subseteq Reached(r)
  <2>1. CASE x \in A \cup C
    BY <2>1 DEF Cuts
  <2>2. CASE x \in A1 \cup C1
    <3>1. PICK z \in H : r < x /\ sim.mark[x] \subseteq sim.mark[z]
      BY <2>2
    <3>2. sim.mark[z] \subseteq Reached(r)
      BY DEF Cuts
    <3> QED BY <3>1, <3>2
  <2> QED BY <2>1, <2>2
<1>3. \A x, y : Overlap(x, y) <=> Overlap(y, x)
  BY DEF Overlap
\* What replaces the nodes of H shares nothing with what is settled before.
<1>4. ASSUME NEW x \in A \cup (C \ H), NEW y \in A1 \cup C1 PROVE ~Overlap(x, y)
  <2>1. PICK z \in H : sim.mark[y] \subseteq sim.mark[z]
    OBVIOUS
  <2>2. ~Overlap(x, z)
    <3>1. CASE x \in A
      BY <3>1 DEF Cuts
    <3>2. CASE x \in C \ H
      BY <3>2
    <3> QED BY <3>1, <3>2
  <2> QED BY <2>1, <2>2 DEF Overlap
<1>5. ASSUME NEW x \in A \cup (C \ H), NEW y \in A \cup (C \ H), x # y PROVE ~Overlap(x, y)
  <2>1. \A u, w \in A : u # w => ~Overlap(u, w)
    BY DEF Cuts
  <2>2. \A u \in A, w \in C : ~Overlap(u, w)
    BY DEF Cuts
  <2>3. CASE x \in A /\ y \in A
    BY <1>5, <2>1, <2>3
  <2>4. CASE x \in A /\ y \in C
    BY <2>2, <2>4
  <2>5. CASE x \in C /\ y \in A
    BY <1>3, <2>2, <2>5
  <2>6. CASE x \in C \ H /\ y \in C \ H
    BY <1>5, <2>6
  <2> QED BY <2>3, <2>4, <2>5, <2>6
<1>6. \A x, y \in A2 : x # y => ~Overlap(x, y)
  BY <1>3, <1>4, <1>5
<1>7. \A x \in A2, y \in C1 : ~Overlap(x, y)
  BY <1>4
<1> QED BY <1>1, <1>2, <1>6, <1>7 DEF Cuts

------------------------------------------------------------------------------
\* The node nearest to the inputs of those that share an output is not one.
LEMMA MinNodeFacts ==
  ASSUME SimOK, CvfRuns, Derived, cur \subseteq Nodes, NEW m \in MinNodes
  PROVE  m \in Shared /\ m \in Nodes /\ m \notin net.out
<1>1. m \in Shared /\ m \in cur /\ m \in Nodes /\ \A y \in Shared : sim.level[m] <= sim.level[y]
  BY DEF MinNodes, Shared
<1>2. PICK y \in cur \ {m} : Overlap(m, y)
  BY <1>1 DEF Shared
<1>3. y \in Shared /\ y \in Nodes
  BY <1>1, <1>2 DEF Shared, Overlap
<1>4. ASSUME m \in net.out PROVE FALSE
  <2>1. m \in sim.mark[y]
    BY <1>1, <1>2, <1>4, MarkFacts DEF Overlap
  <2>2. sim.level[y] < sim.level[m]
    BY <1>2, <1>3, <2>1, MarkAbove
  <2> QED BY <1>1, <1>3, <2>2, SimFacts
<1> QED BY <1>1, <1>4

\* The nodes on the path of a node are of its region and come after it.
LEMMA PathRegion ==
  ASSUME SimOK, CvfRuns, Derived, mode # "none", NEW z \in Nodes
  PROVE  \A x \in Nodes : z \in PathOf(x) => sim.root[z] = sim.root[x] /\ x <= z
<1> DEFINE T == {x \in Nodes : z \in PathOf(x) => sim.root[z] = sim.root[x] /\ x <= z}
<1>1. Nodes \subseteq Nat
  BY SimFacts
<1>2. ASSUME NEW x \in Nodes, \A k \in Nodes : x < k => k \in T PROVE x \in T
  <2> SUFFICES ASSUME z \in PathOf(x), z # x PROVE sim.root[z] = sim.root[x] /\ x <= z
    BY <1>1
  <2>1. sim.root[x] # x /\ z \in PathOf(NextOf(net, x))
    BY PathFacts
  <2>2. NextOf(net, x) \in Nodes /\ x < NextOf(net, x) /\ sim.root[NextOf(net, x)] = sim.root[x]
    BY <2>1, RegionFacts
  <2>3. sim.root[z] = sim.root[NextOf(net, x)] /\ NextOf(net, x) <= z
    BY <1>2, <2>1, <2>2
  <2>4. x \in Nat /\ NextOf(net, x) \in Nat /\ z \in Nat
    BY <1>1, <2>2
  <2>5. x <= z
    BY <2>2, <2>3, <2>4
  <2> QED BY <2>2, <2>3, <2>5
<1>3. Nodes \subseteq T
  <2> HIDE DEF T
  <2> QED BY <1>2, DownwardInduction
<1> QED BY <1>3

\* What is the same in the steps of the loop of find_dss.
LEMMA DssLoop ==
  ASSUME CalcInv, CvfRuns, Derived, pc = "dss", Cuts(Head(todo), acc, cur)
  PROVE  /\ SimOK /\ mode # "none" /\ Head(todo) \in Roots /\ Head(todo) \in Nodes
         /\ acc \subseteq Nodes /\ cur \subseteq Nodes /\ Shared \subseteq cur /\ Nodes \subseteq Nat
         /\ \A x \in Shared : Head(todo) < x
         /\ \A x \in cur \ Shared : \A y \in cur \ {x} : ~Overlap(x, y)
<1>1. /\ SimOK /\ mode # "none" /\ Head(todo) \in Roots /\ Head(todo) \in Nodes
      /\ acc \subseteq Nodes /\ cur \subseteq Nodes /\ Nodes \subseteq Nat
  BY TodoRest, SimFacts DEF CalcInv, Context, Control, CvfTypeOK
<1>2. /\ Shared \subseteq cur
      /\ \A x \in cur \ Shared : \A y \in cur \ {x} : ~Overlap(x, y)
  BY DEF Shared
<1>3. \A x \in Shared : Head(todo) < x
  BY <1>2 DEF Cuts
<1> QED BY <1>1, <1>2, <1>3

\* The old algorithm.
LEMMA OldCuts ==
  ASSUME CalcInv, CvfRuns, Derived, pc = "dss", Cuts(Head(todo), acc, cur), NEW m \in MinNodes
  PROVE  Cuts(Head(todo), acc \cup (cur \ Shared) \cup {}, (Shared \ {m}) \cup sim.fanout[m])
<1> DEFINE r == Head(todo)
           C1 == (Shared \ {m}) \cup sim.fanout[m]
           S2 == (acc \cup (cur \ Shared) \cup {}) \cup C1
<1>1. /\ SimOK /\ mode # "none" /\ r \in Nodes /\ acc \subseteq Nodes /\ cur \subseteq Nodes
      /\ Shared \subseteq cur /\ Nodes \subseteq Nat /\ \A x \in Shared : r < x
      /\ \A x \in cur \ Shared : \A y \in cur \ {x} : ~Overlap(x, y)
  BY DssLoop
<1>2. m \in Shared /\ m \in Nodes /\ m \notin net.out
  BY <1>1, MinNodeFacts
<1>3. \A k \in sim.fanout[m] : k \in Nodes /\ m < k /\ sim.mark[k] \subseteq sim.mark[m]
  BY <1>1, <1>2, SimFacts, MarkFacts
<1>4. \A y \in C1 : y \in Nodes /\ r < y /\ \E z \in Shared : sim.mark[y] \subseteq sim.mark[z]
  <2>1. ASSUME NEW y \in sim.fanout[m] PROVE r < y
    <3>1. r < m /\ m < y /\ y \in Nodes
      BY <1>1, <1>2, <1>3
    <3>2. r \in Nat /\ m \in Nat /\ y \in Nat
      BY <1>1, <1>2, <3>1
    <3> HIDE DEF r
    <3> QED BY <3>1, <3>2
  <2> QED BY <1>1, <1>2, <1>3, <2>1
<1>5. \A x \in Shared : Outside(S2)[x] = {}
  <2>1. \A k \in Nodes : k \in S2 => Outside(S2)[k] = {}
    <3> HIDE DEF S2
    <3> QED BY <1>1, OutsideFacts
  <2>2. Outside(S2)[m] = {}
    <3>1. \A k \in sim.fanout[m] : Outside(S2)[k] = {}
      BY <1>3, <2>1
    <3> HIDE DEF S2
    <3>2. UNION {Outside(S2)[k] : k \in sim.fanout[m]} = {}
      BY <3>1
    <3>3. Outside(S2)[m] = IF m \in S2 THEN {} ELSE IF IsOutput(m) THEN {m}
                           ELSE UNION {Outside(S2)[k] : k \in sim.fanout[m]}
      <4>1. SimOK
        BY <1>1
      <4>2. \A n \in Nodes : Outside(S2)[n] = IF n \in S2 THEN {} ELSE IF IsOutput(n) THEN {n}
                                             ELSE UNION {Outside(S2)[k] : k \in sim.fanout[n]}
        BY <4>1, OutsideFacts
      <4> QED BY <1>2, <4>2
    <3> QED BY <1>2, <3>2, <3>3 DEF IsOutput
  <2>3. \A x \in Shared \ {m} : x \in S2 /\ x \in Nodes
    BY <1>1
  <2> HIDE DEF S2
  <2> QED BY <2>1, <2>2, <2>3
<1> HIDE DEF r, C1
<1>6. Cuts(r, acc \cup (cur \ Shared) \cup {}, C1)
  <2>1. C1 \subseteq Nodes /\ {} \subseteq Nodes
    BY <1>4
  <2>2. \A y \in {} \cup C1 : r < y /\ \E z \in Shared : sim.mark[y] \subseteq sim.mark[z]
    BY <1>4
  <2>3. Cuts(r, acc, cur)
    BY DEF r
  <2> QED BY <1>1, <1>5, <2>1, <2>2, <2>3, CutsStep
<1> QED BY <1>6 DEF r, C1

\* The new one when the nodes that share with min_node are in its region.
LEMMA LocalCuts ==
  ASSUME CalcInv, CvfRuns, Derived, pc = "dss", Cuts(Head(todo), acc, cur), NEW m \in MinNodes,
         Others(m) = {}
  PROVE  Cuts(Head(todo), acc \cup (cur \ Shared) \cup {Meet(SameFFR(m))}, Shared \ SameFFR(m))
<1> DEFINE r == Head(todo)
           z == Meet(SameFFR(m))
           C1 == Shared \ SameFFR(m)
           S2 == (acc \cup (cur \ Shared) \cup {z}) \cup C1
<1>1. /\ SimOK /\ mode # "none" /\ r \in Nodes /\ acc \subseteq Nodes /\ cur \subseteq Nodes
      /\ Shared \subseteq cur /\ Nodes \subseteq Nat /\ \A x \in Shared : r < x
      /\ \A x \in cur \ Shared : \A y \in cur \ {x} : ~Overlap(x, y)
  BY DssLoop
<1>2. m \in Shared /\ m \in Nodes /\ m \in SameFFR(m)
  BY <1>1, MinNodeFacts DEF SameFFR
<1>3. SameFFR(m) \subseteq Nodes /\ \A x \in SameFFR(m) : sim.root[x] = sim.root[m]
  BY <1>1 DEF SameFFR
<1>4. z \in Nodes /\ \A x \in SameFFR(m) : z \in PathOf(x)
  BY <1>1, <1>2, <1>3, MeetFacts
<1> HIDE DEF z
<1>5. sim.root[z] = sim.root[m] /\ m <= z
  BY <1>1, <1>2, <1>4, PathRegion
<1>6. sim.mark[z] = sim.mark[m]
  <2>1. sim.mark[sim.root[z]] = sim.mark[z]
    BY <1>1, <1>4, MarkFacts
  <2>2. sim.mark[sim.root[m]] = sim.mark[m]
    BY <1>1, <1>2, MarkFacts
  <2> QED BY <1>5, <2>1, <2>2
<1>7. r < z
  <2>1. r < m
    BY <1>1, <1>2
  <2>2. r \in Nat /\ m \in Nat /\ z \in Nat
    BY <1>1, <1>2, <1>4
  <2> HIDE DEF r
  <2> QED BY <1>5, <2>1, <2>2
<1>8. \A y \in {z} \cup C1 : r < y /\ \E u \in Shared : sim.mark[y] \subseteq sim.mark[u]
  BY <1>1, <1>2, <1>6, <1>7
<1>9. \A x \in {z}, y \in C1 : ~Overlap(x, y)
  <2>1. \A y \in C1 : ~Overlap(y, m)
    BY DEF Others
  <2> QED BY <1>6, <2>1 DEF Overlap
<1>10. \A x \in Shared : Outside(S2)[x] = {}
  <2>1. \A k \in Nodes : k \in S2 => Outside(S2)[k] = {}
    <3> HIDE DEF S2
    <3> QED BY <1>1, OutsideFacts
  <2>2. Outside(S2)[z] = {}
    BY <1>4, <2>1
  <2>3. \A x \in SameFFR(m) : Outside(S2)[x] = {}
    <3> HIDE DEF S2
    <3> QED BY <1>1, <1>3, <1>4, <2>2, PathCuts
  <2>4. \A x \in Shared \ SameFFR(m) : x \in S2 /\ x \in Nodes
    BY <1>1
  <2> HIDE DEF S2
  <2> QED BY <2>1, <2>3, <2>4
<1> HIDE DEF r, C1
<1>11. Cuts(r, acc \cup (cur \ Shared) \cup {z}, C1)
  <2>1. {z} \subseteq Nodes /\ C1 \subseteq Nodes
    BY <1>1, <1>4 DEF C1
  <2>2. Cuts(r, acc, cur)
    BY DEF r
  <2>3. \A x, y \in {z} : x # y => ~Overlap(x, y)
    OBVIOUS
  <2> QED BY <1>1, <1>8, <1>9, <1>10, <2>1, <2>2, <2>3, CutsStep
<1> QED BY <1>11 DEF r, z, C1

\* And when they are not: D is the DSS of min_node if that is a root.
LEMMA GlobalCuts ==
  ASSUME CalcInv, CvfRuns, Derived, pc = "dss", Cuts(Head(todo), acc, cur), NEW m \in MinNodes,
         m \in Roots => Cuts(m, dss[m], {})
  PROVE  Cuts(Head(todo), acc \cup (cur \ Shared) \cup {}, Advance(m))
<1> DEFINE r == Head(todo)
           X == {IF sim.mark[x] \subseteq sim.mark[m] THEN x ELSE sim.root[x] : x \in Others(m)}
           D == IF m \in Roots THEN dss[m] ELSE {sim.root[m]}
           K == Shared \ (SameFFR(m) \cup Others(m))
           C1 == Advance(m)
           S2 == (acc \cup (cur \ Shared) \cup {}) \cup C1
<1>1. /\ SimOK /\ mode # "none" /\ r \in Nodes /\ acc \subseteq Nodes /\ cur \subseteq Nodes
      /\ Shared \subseteq cur /\ Nodes \subseteq Nat /\ \A x \in Shared : r < x
      /\ \A x \in cur \ Shared : \A y \in cur \ {x} : ~Overlap(x, y)
  BY DssLoop
<1>2. m \in Shared /\ m \in Nodes /\ m \notin net.out
  BY <1>1, MinNodeFacts
<1>3. C1 = K \cup X \cup D
  BY DEF Advance
<1>4. \A x \in Nodes : /\ sim.root[x] \in Nodes /\ x <= sim.root[x]
                       /\ sim.mark[sim.root[x]] = sim.mark[x]
  BY <1>1, RegionFacts, MarkFacts DEF Roots
<1>5. Others(m) \subseteq Shared /\ SameFFR(m) \subseteq Shared
  BY DEF Others, SameFFR
<1>6. ASSUME NEW y \in X PROVE y \in Nodes /\ r < y /\ \E z \in Shared : sim.mark[y] \subseteq sim.mark[z]
  <2>1. PICK x \in Others(m) : y \in {x, sim.root[x]}
    OBVIOUS
  <2>2. x \in Shared /\ x \in Nodes /\ r < x
    BY <1>1, <1>5
  <2>3. y \in Nodes /\ x <= y /\ sim.mark[y] = sim.mark[x]
    BY <1>1, <1>4, <2>1, <2>2
  <2>4. r < y
    <3>1. r \in Nat /\ x \in Nat /\ y \in Nat
      BY <1>1, <2>2, <2>3
    <3> HIDE DEF r
    <3> QED BY <2>2, <2>3, <3>1
  <2> QED BY <2>2, <2>3, <2>4
<1>7. ASSUME NEW y \in D PROVE y \in Nodes /\ r < y /\ sim.mark[y] \subseteq sim.mark[m]
  <2>1. CASE m \in Roots
    <3>1. y \in Nodes
      BY <1>7, <2>1 DEF CalcInv, CvfTypeOK
    <3>2. m < y /\ sim.mark[y] \subseteq Reached(m)
      BY <1>7, <2>1 DEF Cuts
    <3>3. Reached(m) = sim.mark[m]
      BY <1>1, <1>2, MarkFacts DEF Reached
    <3>4. r < m
      BY <1>1, <1>2
    <3>5. r \in Nat /\ m \in Nat /\ y \in Nat
      BY <1>1, <1>2, <3>1
    <3> HIDE DEF r
    <3>6. r < y
      BY <3>2, <3>4, <3>5
    <3> QED BY <3>1, <3>2, <3>3, <3>6
  <2>2. CASE m \notin Roots
    <3>1. y = sim.root[m] /\ m <= y /\ r < m
      BY <1>1, <1>2, <1>4, <1>7, <2>2
    <3>2. y \in Nodes /\ r \in Nat /\ m \in Nat /\ y \in Nat
      BY <1>1, <1>2, <1>4, <3>1
    <3> HIDE DEF r
    <3>3. r < y
      BY <3>1, <3>2
    <3> QED BY <1>2, <1>4, <3>1, <3>2, <3>3
  <2> QED BY <2>1, <2>2
<1> HIDE DEF X, D
<1>8. \A y \in C1 : y \in Nodes /\ r < y /\ \E z \in Shared : sim.mark[y] \subseteq sim.mark[z]
  BY <1>1, <1>2, <1>3, <1>6, <1>7
<1>9. \A k \in Nodes : k \in S2 => Outside(S2)[k] = {}
  <2> HIDE DEF S2
  <2> QED BY <1>1, OutsideFacts
<1>10. \A x \in Others(m) : Outside(S2)[x] = {}
  <2> SUFFICES ASSUME NEW x \in Others(m) PROVE Outside(S2)[x] = {}
    OBVIOUS
  <2>1. x \in Nodes
    BY <1>1, <1>5
  <2>2. CASE sim.mark[x] \subseteq sim.mark[m]
    <3>1. x \in X
      BY <2>2 DEF X
    <3>2. x \in S2
      BY <1>3, <3>1
    <3> QED BY <1>9, <2>1, <3>2
  <2>3. CASE ~(sim.mark[x] \subseteq sim.mark[m])
    <3>1. sim.root[x] \in X
      BY <2>3 DEF X
    <3>2. sim.root[x] \in S2
      BY <1>3, <3>1
    <3>3. Outside(S2)[sim.root[x]] = {}
      BY <1>4, <1>9, <2>1, <3>2
    <3> HIDE DEF S2
    <3> QED BY <1>1, <1>4, <2>1, <3>3, PathFacts, PathCuts
  <2> QED BY <2>2, <2>3
<1>11. Outside(S2)[sim.root[m]] = {}
  <2>1. CASE m \notin Roots
    <3>1. sim.root[m] \in S2
      BY <1>3, <2>1 DEF D
    <3> QED BY <1>2, <1>4, <1>9, <3>1
  <2>2. CASE m \in Roots
    <3>1. dss[m] \subseteq S2 /\ sim.root[m] = m
      BY <1>3, <2>2 DEF D, Roots
    <3>2. dss[m] \cup {} = dss[m]
      OBVIOUS
    <3>3. \A k \in sim.fanout[m] : Outside(dss[m])[k] = {}
      BY <2>2, <3>2 DEF Cuts
    <3> HIDE DEF S2
    <3>4. \A k \in sim.fanout[m] : Outside(S2)[k] = {}
      <4>1. ASSUME NEW k \in sim.fanout[m] PROVE Outside(S2)[k] = {}
        <5>1. k \in Nodes
          BY <1>1, <1>2, SimFacts
        <5>2. \A x \in (dss[m] \ S2) \cap Nodes : Outside(S2)[x] = {}
          BY <3>1
        <5>3. Outside(S2)[k] \subseteq Outside(dss[m])[k]
          BY <1>1, <5>1, <5>2, Replace
        <5> QED BY <3>3, <5>3
      <4> QED BY <4>1
    <3>5. UNION {Outside(S2)[k] : k \in sim.fanout[m]} = {}
      BY <3>4
    <3> QED BY <1>1, <1>2, <3>1, <3>5, OutsideFacts DEF IsOutput
  <2> QED BY <2>1, <2>2
<1>12. \A x \in SameFFR(m) : Outside(S2)[x] = {}
  <2> SUFFICES ASSUME NEW x \in SameFFR(m) PROVE Outside(S2)[x] = {}
    OBVIOUS
  <2>1. x \in Nodes /\ sim.root[x] = sim.root[m] /\ sim.root[m] \in Nodes
    BY <1>1, <1>2, <1>4, <1>5 DEF SameFFR
  <2> HIDE DEF S2
  <2> QED BY <1>1, <1>11, <2>1, PathFacts, PathCuts
<1>13. \A x \in Shared : Outside(S2)[x] = {}
  <2>1. \A x \in K : x \in S2 /\ x \in Nodes
    BY <1>1, <1>3
  <2>2. \A x \in Shared : x \in K \/ x \in SameFFR(m) \/ x \in Others(m)
    OBVIOUS
  <2> HIDE DEF S2, K
  <2> QED BY <1>9, <1>10, <1>12, <2>1, <2>2
<1> HIDE DEF r, C1
<1>14. Cuts(r, acc \cup (cur \ Shared) \cup {}, C1)
  <2>1. C1 \subseteq Nodes /\ {} \subseteq Nodes
    BY <1>8
  <2>2. \A y \in {} \cup C1 : r < y /\ \E z \in Shared : sim.mark[y] \subseteq sim.mark[z]
    BY <1>8
  <2>3. Cuts(r, acc, cur)
    BY DEF r
  <2> QED BY <1>1, <1>13, <2>1, <2>2, <2>3, CutsStep
<1> QED BY <1>14 DEF r, C1

------------------------------------------------------------------------------
\* The DSSs of the regions done, and the one being computed.
DssInv ==
  /\ mode = "none" => \A r \in Roots : dss[r] = {}
  /\ mode # "none" =>
       /\ \A r \in Roots : (pc = "dss" => r \notin ToSet(todo)) => Cuts(r, dss[r], {})
       /\ pc = "dss" => Descending(todo) /\ Cuts(Head(todo), acc, cur)

\* Nothing it speaks of changes with the network unchanged.
LEMMA SameCuts ==
  ASSUME UNCHANGED netVars
  PROVE  /\ \A S : Outside(S)' = Outside(S)
         /\ \A r, A, C : Cuts(r, A, C)' = Cuts(r, A, C)
<1>1. net' = net /\ sim' = sim
  BY DEF netVars
<1>2. ASSUME NEW S PROVE Outside(S)' = Outside(S)
  BY <1>1 DEF Outside, Nodes, IsOutput
<1>3. ASSUME NEW r, NEW A, NEW C PROVE Cuts(r, A, C)' = Cuts(r, A, C)
  BY <1>1, <1>2 DEF Cuts, Reached, Overlap
<1> QED BY <1>2, <1>3

\* The regions of a sequence, its first and the rest.
LEMMA TailFacts ==
  ASSUME NEW S, NEW s \in Seq(S), s # <<>>, S \subseteq Nat
  PROVE  /\ Head(s) \in S /\ Tail(s) \in Seq(S) /\ Head(s) \in ToSet(s)
         /\ ToSet(s) \subseteq S
         /\ \A x \in ToSet(s) : x = Head(s) \/ x \in ToSet(Tail(s))
         /\ Descending(s) => /\ Descending(Tail(s)) /\ \A x \in ToSet(Tail(s)) : x < Head(s)
                             /\ \A x \in ToSet(s) : x <= Head(s)
<1>1. /\ Len(s) \in Nat /\ DOMAIN s = 1 .. Len(s) /\ \A i \in 1 .. Len(s) : s[i] \in S
      /\ Head(s) = s[1] /\ 1 \in 1 .. Len(s)
      /\ Tail(s) \in Seq(S) /\ Len(Tail(s)) = Len(s) - 1 /\ DOMAIN Tail(s) = 1 .. Len(s) - 1
      /\ \A i \in 1 .. Len(s) - 1 : Tail(s)[i] = s[i + 1] /\ i + 1 \in 1 .. Len(s)
  BY Rest
<1>2. \A x : x \in ToSet(s) <=> \E i \in 1 .. Len(s) : s[i] = x
  BY <1>1 DEF ToSet
<1>3. \A x : x \in ToSet(Tail(s)) <=> \E i \in 1 .. Len(s) - 1 : s[i + 1] = x
  BY <1>1 DEF ToSet
<1>4. \A i \in 1 .. Len(s) : i = 1 \/ (i - 1 \in 1 .. Len(s) - 1 /\ (i - 1) + 1 = i)
  BY <1>1
<1>5. \A x \in ToSet(s) : x = Head(s) \/ x \in ToSet(Tail(s))
  BY <1>1, <1>2, <1>3, <1>4
<1>6. ASSUME Descending(s)
      PROVE  /\ Descending(Tail(s)) /\ \A x \in ToSet(Tail(s)) : x < Head(s)
             /\ \A x \in ToSet(s) : x <= Head(s)
  <2>1. \A i, j \in 1 .. Len(s) : i < j => s[j] < s[i]
    BY <1>1, <1>6 DEF Descending
  <2>2. Descending(Tail(s))
    <3> SUFFICES ASSUME NEW i \in 1 .. Len(s) - 1, NEW j \in 1 .. Len(s) - 1, i < j
                 PROVE  s[j + 1] < s[i + 1]
      BY <1>1 DEF Descending
    <3>1. i + 1 \in 1 .. Len(s) /\ j + 1 \in 1 .. Len(s) /\ i + 1 < j + 1
      BY <1>1
    <3> QED BY <2>1, <3>1
  <2>3. ASSUME NEW x \in ToSet(Tail(s)) PROVE x < Head(s)
    <3>1. PICK i \in 1 .. Len(s) - 1 : s[i + 1] = x
      BY <1>3
    <3>2. i + 1 \in 1 .. Len(s) /\ 1 < i + 1
      BY <1>1
    <3> QED BY <1>1, <2>1, <3>1, <3>2
  <2>4. ASSUME NEW x \in ToSet(s) PROVE x <= Head(s)
    <3>1. x \in Nat /\ Head(s) \in Nat
      BY <1>1, <1>2
    <3> QED BY <1>5, <2>3, <3>1
  <2> QED BY <2>2, <2>3, <2>4
<1>7. ToSet(s) \subseteq S /\ Head(s) \in ToSet(s)
  BY <1>1, <1>2
<1> QED BY <1>1, <1>5, <1>6, <1>7

\* find_dss starts right.
LEMMA DssFirst ==
  ASSUME CalcInit, CalcInv, Derived
  PROVE  DssInv
<1>1. SimOK /\ \A r \in Roots : dss[r] = {}
  BY DEF CalcInit, Init, SvfInit, CalcInv, Context, CvfTypeOK, Roots, Nodes
<1>2. ASSUME mode # "none"
      PROVE  /\ \A r \in Roots : (pc = "dss" => r \notin ToSet(todo)) => Cuts(r, dss[r], {})
             /\ pc = "dss" => Descending(todo) /\ Cuts(Head(todo), acc, cur)
  <2>1. /\ todo = RootSeq(sim) /\ acc = {} /\ pc = (IF todo = <<>> THEN "idle" ELSE "dss")
        /\ cur = IF todo = <<>> THEN {} ELSE sim.fanout[Head(todo)]
    BY <1>2 DEF CalcInit, Init, SvfInit
  <2>2. /\ todo \in Seq(Roots) /\ Descending(todo)
        /\ \A r \in Roots : \E i \in DOMAIN todo : todo[i] = r
    BY <1>1, <2>1, RootSeqType
  <2>3. \A r \in Roots : r \in ToSet(todo)
    BY <2>2 DEF ToSet
  <2>4. CASE todo = <<>>
    <3>1. Roots = {}
      BY <2>2, <2>4
    <3> QED BY <2>1, <2>4, <3>1
  <2>5. CASE todo # <<>>
    <3>1. Head(todo) \in Nodes
      BY <1>1, <2>2, <2>5, TodoRest, SimFacts
    <3>2. Cuts(Head(todo), {}, sim.fanout[Head(todo)])
      BY <1>1, <3>1, CutsStart
    <3> QED BY <2>1, <2>2, <2>3, <2>5, <3>2
  <2> QED BY <2>4, <2>5
<1> QED BY <1>1, <1>2 DEF DssInv

\* A step of the loop.
LEMMA DssLoopStep ==
  ASSUME CalcInv, CvfRuns, Derived, DssInv, pc = "dss", UNCHANGED svfVars,
         DssOld \/ DssLocal \/ DssGlobal
  PROVE  DssInv'
<1>1. /\ mode # "none" /\ Cuts(Head(todo), acc, cur) /\ Descending(todo)
      /\ \A r \in Roots : r \notin ToSet(todo) => Cuts(r, dss[r], {})
  BY DEF DssInv, CalcInv, Control
<1>2. /\ SimOK /\ Head(todo) \in Nodes /\ cur \subseteq Nodes /\ Shared \subseteq cur
      /\ Nodes \subseteq Nat /\ \A x \in Shared : Head(todo) < x /\ x \in Nodes
  BY <1>1, DssLoop
\* The regions after the current one are done.
<1>3. \A m \in MinNodes : m \in Roots => Cuts(m, dss[m], {})
  <2> SUFFICES ASSUME NEW m \in MinNodes, m \in Roots PROVE m \notin ToSet(todo)
    BY <1>1
  <2>1. Head(todo) < m /\ m \in Nat /\ Head(todo) \in Nat
    BY <1>2 DEF MinNodes
  <2>2. todo \in Seq(Roots) /\ todo # <<>> /\ Roots \subseteq Nat
    BY <1>2, SimFacts DEF CalcInv, Control
  <2>3. \A x \in ToSet(todo) : x <= Head(todo)
    BY <1>1, <2>2, TailFacts
  <2> QED BY <2>1, <2>3
<1>4. \E C1, A1 : DssStep(C1, A1) /\ Cuts(Head(todo), acc \cup (cur \ Shared) \cup A1, C1)
  <2>1. CASE DssOld
    <3>1. PICK m \in MinNodes : DssStep((Shared \ {m}) \cup sim.fanout[m], {})
      BY <2>1 DEF DssOld
    <3>2. Cuts(Head(todo), acc \cup (cur \ Shared) \cup {}, (Shared \ {m}) \cup sim.fanout[m])
      BY <1>1, OldCuts
    <3> QED BY <3>1, <3>2
  <2>2. CASE DssLocal
    <3>1. PICK m \in MinNodes : Others(m) = {} /\ DssStep(Shared \ SameFFR(m), {Meet(SameFFR(m))})
      BY <2>2 DEF DssLocal
    <3>2. Cuts(Head(todo), acc \cup (cur \ Shared) \cup {Meet(SameFFR(m))}, Shared \ SameFFR(m))
      BY <1>1, <3>1, LocalCuts
    <3> QED BY <3>1, <3>2
  <2>3. CASE DssGlobal
    <3>1. PICK m \in MinNodes : DssStep(Advance(m), {})
      BY <2>3 DEF DssGlobal
    <3>2. Cuts(Head(todo), acc \cup (cur \ Shared) \cup {}, Advance(m))
      BY <1>1, <1>3, GlobalCuts
    <3> QED BY <3>1, <3>2
  <2> QED BY <2>1, <2>2, <2>3
<1>5. PICK C1, A1 : DssStep(C1, A1) /\ Cuts(Head(todo), acc \cup (cur \ Shared) \cup A1, C1)
  BY <1>4
<1>6. /\ cur' = C1 /\ acc' = acc \cup (cur \ Shared) \cup A1
      /\ UNCHANGED <<netVars, dss, todo, pc>> /\ mode' = mode
  BY <1>5 DEF DssStep, netVars
<1>7. Roots' = Roots
  BY <1>6, SameNet
<1>8. \A r, A, C : Cuts(r, A, C)' = Cuts(r, A, C)
  BY <1>6, SameCuts
<1>9. Cuts(Head(todo), acc, cur)'
  <2>1. PICK r, A, C : r = Head(todo) /\ A = acc' /\ C = cur'
    OBVIOUS
  <2>2. Cuts(r, A, C)
    BY <1>5, <1>6, <2>1
  <2>3. sim' = sim /\ Head(todo)' = r
    BY <1>6, <2>1 DEF netVars
  <2>4. Outside(acc \cup cur)' = Outside(A \cup C)
    <3>1. net' = net /\ sim' = sim
      BY <1>6 DEF netVars
    <3> QED BY <2>1, <3>1 DEF Outside, Nodes, IsOutput
  <2> QED BY <2>1, <2>2, <2>3, <2>4 DEF Cuts, Reached, Overlap
<1>10. \A r \in Roots : r \notin ToSet(todo) => Cuts(r, dss[r], {})'
  <2> SUFFICES ASSUME NEW r \in Roots, r \notin ToSet(todo) PROVE Cuts(r, dss[r], {})'
    OBVIOUS
  <2>1. PICK D : D = dss[r]
    OBVIOUS
  <2>2. Cuts(r, D, {})' /\ dss'[r] = D
    BY <1>1, <1>6, <1>8, <2>1
  <2> QED BY <2>2 DEF Cuts, Outside
<1> QED BY <1>1, <1>6, <1>7, <1>9, <1>10 DEF DssInv, Descending

\* The end of one region and the start of the next.
LEMMA DssDoneStep ==
  ASSUME CalcInv, CvfRuns, Derived, DssInv, UNCHANGED svfVars, DssDone
  PROVE  DssInv'
<1> DEFINE r0 == Head(todo)
<1>1. /\ pc = "dss" /\ Shared = {} /\ dss' = [dss EXCEPT ![r0] = acc \cup cur] /\ acc' = {}
      /\ todo' = Tail(todo) /\ cur' = (IF todo' = <<>> THEN {} ELSE sim.fanout[Head(todo')])
      /\ pc' = (IF todo' = <<>> THEN "idle" ELSE "dss") /\ UNCHANGED netVars
  BY DEF DssDone
<1>2. /\ mode # "none" /\ Cuts(r0, acc, cur) /\ Descending(todo)
      /\ \A r \in Roots : r \notin ToSet(todo) => Cuts(r, dss[r], {})
      /\ SimOK /\ Roots \subseteq Nodes /\ Nodes \subseteq Nat /\ DOMAIN dss = Roots
      /\ todo \in Seq(Roots) /\ todo # <<>>
  BY <1>1, SimFacts DEF DssInv, CalcInv, Context, Control, CvfTypeOK
<1>3. /\ r0 \in Roots /\ todo' \in Seq(Roots) /\ Descending(todo')
      /\ \A x \in ToSet(todo) : x = r0 \/ x \in ToSet(todo')
  <2>1. Roots \subseteq Nat
    BY <1>2
  <2> QED BY <1>1, <1>2, <2>1, TailFacts
<1> HIDE DEF r0
<1>4. Roots' = Roots /\ mode' = mode /\ sim' = sim
  BY <1>1, SameNet DEF netVars
<1>5. Cuts(r0, acc \cup cur, {})
  <2>1. \A x, y \in cur : x # y => ~Overlap(x, y)
    BY <1>1 DEF Shared
  <2> QED BY <1>2, <2>1, CutsEnd
<1>6. \A r \in Roots : r \notin ToSet(todo') => Cuts(r, dss'[r], {})
  BY <1>1, <1>2, <1>3, <1>5
<1>7. \A r, A, C : Cuts(r, A, C)' = Cuts(r, A, C)
  BY <1>1, SameCuts
<1>8. \A r \in Roots : (pc' = "dss" => r \notin ToSet(todo')) => Cuts(r, dss[r], {})'
  <2> SUFFICES ASSUME NEW r \in Roots, pc' = "dss" => r \notin ToSet(todo')
               PROVE  Cuts(r, dss[r], {})'
    OBVIOUS
  <2>1. r \notin ToSet(todo')
    <3>1. pc' # "dss" => todo' = <<>>
      BY <1>1
    <3>2. ToSet(<<>>) = {}
      BY DEF ToSet
    <3> QED BY <3>1, <3>2
  <2>2. PICK D : D = dss'[r]
    OBVIOUS
  <2>3. Cuts(r, D, {})' /\ dss'[r] = D
    BY <1>6, <1>7, <2>1, <2>2
  <2> QED BY <2>3 DEF Cuts, Outside
<1>9. pc' = "dss" => Cuts(Head(todo), acc, cur)'
  <2> SUFFICES ASSUME pc' = "dss" PROVE Cuts(Head(todo), acc, cur)'
    OBVIOUS
  <2>1. todo' # <<>> /\ cur' = sim.fanout[Head(todo')] /\ acc' = {}
    BY <1>1
  <2>2. PICK r, A, C : r = Head(todo') /\ A = acc' /\ C = cur'
    OBVIOUS
  <2>3. r \in Nodes
    BY <1>2, <1>3, <2>1, <2>2, TodoRest
  <2>4. Cuts(r, A, C)
    BY <1>2, <2>1, <2>2, <2>3, CutsStart
  <2>5. Outside(acc \cup cur)' = Outside(A \cup C)
    <3>1. net' = net /\ sim' = sim
      BY <1>1 DEF netVars
    <3> QED BY <2>2, <3>1 DEF Outside, Nodes, IsOutput
  <2>6. Head(todo)' = r
    BY <2>2
  <2> QED BY <1>4, <2>2, <2>4, <2>5, <2>6 DEF Cuts, Reached, Overlap
<1> QED BY <1>2, <1>3, <1>4, <1>8, <1>9 DEF DssInv

\* The sets are those of find_dss in every reachable state.
LEMMA DssInvariance == CalcSpec => []DssInv
<1>1. CalcInit /\ CalcInv /\ Derived => DssInv
  BY DssFirst
<1>2. CalcInv /\ Derived /\ DssInv /\ [CalcNext]_<<vars, svfVars>> => DssInv'
  <2> SUFFICES ASSUME CalcInv, Derived, DssInv, [CalcNext]_<<vars, svfVars>> PROVE DssInv'
    OBVIOUS
  <2>1. CASE UNCHANGED <<vars, svfVars>>
    <3>1. UNCHANGED netVars /\ Roots' = Roots /\ UNCHANGED <<mode, dss, pc, todo, acc, cur, net, sim>>
      <4>1. UNCHANGED <<netVars, svfVars>>
        BY <2>1 DEF vars
      <4> QED BY <2>1, <4>1, SameNet DEF vars, dssVars, netVars
    <3>2. \A r \in Roots : Cuts(r, dss[r], {})' = Cuts(r, dss[r], {})
      BY <3>1 DEF Cuts, Outside, Nodes, IsOutput, Reached, Overlap
    <3>3. Cuts(Head(todo), acc, cur)' = Cuts(Head(todo), acc, cur)
      BY <3>1 DEF Cuts, Outside, Nodes, IsOutput, Reached, Overlap
    <3> QED BY <3>1, <3>2, <3>3 DEF DssInv
  <2>2. CASE CalcNext
    <3>1. UNCHANGED svfVars /\ ((CvfRuns /\ Call) \/ (~CvfRuns /\ SvfCall) \/ Work)
      BY <2>2 DEF CalcNext, Next, SvfNext
    <3>2. CASE CvfRuns /\ pc = "dss" /\ (DssDone \/ DssOld \/ DssLocal \/ DssGlobal)
      BY <3>1, <3>2, DssLoopStep, DssDoneStep
    <3>3. CASE ~(CvfRuns /\ pc = "dss" /\ (DssDone \/ DssOld \/ DssLocal \/ DssGlobal))
      <4>1. ~(DssDone \/ DssOld \/ DssLocal \/ DssGlobal)
        <5>1. ~CvfRuns => pc # "dss"
          BY DEF Derived, CalcInv, Control
        <5> QED BY <3>3, <5>1 DEF DssDone, DssOld, DssLocal, DssGlobal
      <4>2. UNCHANGED <<netVars, dss>> /\ pc # "dss" /\ pc' # "dss"
        <5>1. CASE (CvfRuns /\ Call) \/ (~CvfRuns /\ SvfCall)
          BY <5>1 DEF Call, SvfCall, StartExact, CalcPseudoMin, StartMax, SvfExactCall, SvfPseudoMin,
                      SvfMax, dssVars
        <5>2. CASE Work
          BY <4>1, <5>2 DEF Work, FfrOutput, FfrStart, Event, FfrEnd, EndExact, MaxRound, EndMax, dssVars
        <5> QED BY <3>1, <5>1, <5>2
      <4>3. Roots' = Roots /\ mode' = mode /\ net' = net /\ sim' = sim /\ dss' = dss
        BY <3>1, <4>2, SameNet DEF netVars
      <4>4. \A r \in Roots : Cuts(r, dss[r], {})' = Cuts(r, dss[r], {})
        BY <4>3 DEF Cuts, Outside, Nodes, IsOutput, Reached, Overlap
      <4> QED BY <4>2, <4>3, <4>4 DEF DssInv
    <3> QED BY <3>2, <3>3
  <2> QED BY <2>1, <2>2
<1> QED BY <1>1, <1>2, CalcInvariance, DerivedInvariance, PTL DEF CalcSpec

\* For every network: once find_dss is over, with either algorithm, every region
\* has a DSS whose members reach no output in common, and no output is reached
\* from the region around it.
THEOREM DssInvariant == CalcSpec => []DssCuts
<1>1. DssInv => DssCuts
  <2> SUFFICES ASSUME DssInv, pc # "dss", mode # "none", NEW r \in Roots
               PROVE  /\ Around(r) = {}
                      /\ \A x, y \in dss[r] : x # y => ~Overlap(x, y)
    BY DEF DssCuts
  <2>1. Cuts(r, dss[r], {}) /\ dss[r] \cup {} = dss[r]
    BY DEF DssInv
  <2> QED BY <2>1 DEF Cuts, Around
<1> QED BY <1>1, DssInvariance, PTL
------------------------------------------------------------------------------
(***************************************************************************)
(* The observability of a region's root is that of its DSS                 *)
(***************************************************************************)
\* What holds of a node when it holds of all on lower levels holds of all.
LEMMA LevelInduction ==
  ASSUME SimOK, NEW T, \A n \in Nodes : (\A m \in Nodes : sim.level[m] < sim.level[n] => m \in T) => n \in T
  PROVE  Nodes \subseteq T
<1>1. \A n \in Nodes : sim.level[n] \in Nat
  BY SimFacts
<1> QED BY <1>1, RankInduction

\* Of some nodes one is on the lowest level.
LEMMA LowestNode ==
  ASSUME SimOK, NEW S, S \subseteq Nodes, S # {}
  PROVE  \E n \in S : \A m \in S : sim.level[n] <= sim.level[m]
<1> DEFINE L == {sim.level[n] : n \in S}
<1>1. L \subseteq Nat /\ L # {}
  BY SimFacts
<1>2. PICK i \in L : \A j \in L : i <= j
  <2> HIDE DEF L
  <2> QED BY <1>1, LeastNumber
<1>3. PICK n \in S : i = sim.level[n]
  OBVIOUS
<1> QED BY <1>2, <1>3

\* A change of node n is first seen at an output of its mark.
LEMMA FirstOutput ==
  ASSUME SimOK, CvfRuns, Derived, Evaluated, NEW n \in Nodes, NEW b \in Pats,
         NEW o \in net.out, Differs(n, o, b),
         \A k \in net.out : sim.level[k] < sim.level[o] => ~Differs(n, k, b)
  PROVE  o \in sim.mark[n]
<1> DEFINE T == {m \in Nodes : Differs(n, m, b) /\ sim.level[m] <= sim.level[o] => sim.mark[m] \subseteq sim.mark[n]}
<1>1. net.out \subseteq Nodes /\ \A m \in Nodes : sim.level[m] \in Nat
  BY SimFacts DEF SimOK, IsNet, Nodes
<1>2. ASSUME NEW m \in Nodes, \A k \in Nodes : sim.level[k] < sim.level[m] => k \in T
      PROVE  m \in T
  <2> SUFFICES ASSUME Differs(n, m, b), sim.level[m] <= sim.level[o], m # n
               PROVE  sim.mark[m] \subseteq sim.mark[n]
    OBVIOUS
  <2>1. m \in Logic /\ \E i \in DOMAIN net.fanin[m] : Differs(n, net.fanin[m][i], b)
    BY DiffersFrom
  <2>2. PICK k \in Nodes : Differs(n, k, b) /\ sim.level[k] < sim.level[m] /\ m \in sim.fanout[k]
    BY <2>1, GateFacts
  <2>3. sim.level[k] < sim.level[o] /\ sim.level[k] <= sim.level[o]
    BY <2>2, <1>1
  <2>4. k \notin net.out
    BY <2>2, <2>3
  <2>5. sim.mark[m] \subseteq sim.mark[k]
    BY <2>2, <2>4, MarkFacts
  <2> QED BY <1>2, <2>2, <2>3, <2>5
<1>3. Nodes \subseteq T
  <2> HIDE DEF T
  <2> QED BY <1>2, LevelInduction
<1>4. sim.mark[o] = {o} /\ sim.level[o] <= sim.level[o]
  BY <1>1, MarkFacts
<1> QED BY <1>1, <1>3, <1>4

\* A node with no output on its paths is not observable.
LEMMA NoMark ==
  ASSUME SimOK, CvfRuns, Derived, Evaluated, NEW n \in Nodes, Observability(n) # {}
  PROVE  sim.mark[n] # {}
<1>1. PICK b \in Pats : b \in Observability(n)
  BY ObservabilityFacts
<1> DEFINE S == {k \in net.out : Differs(n, k, b)}
<1>2. S \subseteq Nodes /\ S # {}
  BY <1>1, ObservabilityFacts DEF SimOK, IsNet, Nodes
<1>3. PICK o \in S : \A k \in S : sim.level[o] <= sim.level[k]
  <2> HIDE DEF S
  <2> QED BY <1>2, LowestNode
<1>4. \A k \in net.out : sim.level[k] < sim.level[o] => ~Differs(n, k, b)
  <2>1. \A k \in Nodes : sim.level[k] \in Nat
    BY SimFacts
  <2> QED BY <2>1, <1>2, <1>3
<1> QED BY <1>3, <1>4, FirstOutput

------------------------------------------------------------------------------
\* The nodes from which an output is reached without a node of T, when T cuts
\* off node r.
LEMMA CutFacts ==
  ASSUME SimOK, CvfRuns, Derived, NEW r \in Nodes \ net.out, NEW T, Cuts(r, T, {})
  PROVE  /\ r \notin T /\ \A x \in T : r < x
         /\ \A x, y \in T : sim.mark[x] \cap sim.mark[y] # {} => x = y
         /\ \A m \in Nodes : Outside(T)[m] # {} => m \notin T /\ m # r
         /\ \A k \in Nodes : \A m \in sim.fanout[k] :
              Outside(T)[m] # {} => k \in T \/ Outside(T)[k] # {}
         /\ \A o \in net.out : o \in T \/ Outside(T)[o] # {}
<1>1. T \cup {} = T
  OBVIOUS
<1>2. /\ \A k \in sim.fanout[r] : Outside(T)[k] = {}
      /\ \A x \in T : r < x
      /\ \A x, y \in T : sim.mark[x] \cap sim.mark[y] # {} => x = y
  BY <1>1 DEF Cuts, Overlap
<1>3. r \in Nat /\ net.out \subseteq Nodes
  BY SimFacts DEF SimOK, IsNet, Nodes
<1>4. r \notin T
  BY <1>2, <1>3
<1>5. Outside(T)[r] = {}
  <2>1. Outside(T)[r] = UNION {Outside(T)[m] : m \in sim.fanout[r]}
    BY <1>4, OutsideFacts DEF IsOutput
  <2> QED BY <2>1, <1>2
<1>6. \A m \in Nodes : Outside(T)[m] # {} => m \notin T /\ m # r
  BY <1>5, OutsideFacts
<1>7. ASSUME NEW k \in Nodes, NEW h \in sim.fanout[k], Outside(T)[h] # {}
      PROVE  k \in T \/ Outside(T)[k] # {}
  <2> SUFFICES ASSUME k \notin T PROVE Outside(T)[k] # {}
    OBVIOUS
  <2>1. CASE k \in net.out
    BY <2>1, OutsideFacts DEF IsOutput
  <2>2. CASE k \notin net.out
    <3>1. Outside(T)[k] = UNION {Outside(T)[m] : m \in sim.fanout[k]}
      BY <2>2, OutsideFacts DEF IsOutput
    <3> QED BY <3>1, <1>7
  <2> QED BY <2>1, <2>2
<1>8. \A o \in net.out : o \in T \/ Outside(T)[o] # {}
  BY <1>3, OutsideFacts DEF IsOutput
<1> QED BY <1>2, <1>4, <1>6, <1>7, <1>8

\* The first output a change of r is seen at is one of a member of T that
\* changes.
LEMMA CutBelow ==
  ASSUME SimOK, CvfRuns, Derived, Evaluated, NEW r \in Nodes \ net.out, NEW T, Cuts(r, T, {}),
         NEW b \in Pats, NEW o \in net.out, Differs(r, o, b),
         \A k \in net.out : sim.level[k] < sim.level[o] => ~Differs(r, k, b)
  PROVE  \E t \in T : Differs(r, t, b) /\ o \in sim.mark[t]
<1> DEFINE U == {m \in Nodes : Outside(T)[m] # {} /\ Differs(r, m, b) /\ sim.level[m] <= sim.level[o] =>
                   \E t \in T : Differs(r, t, b) /\ sim.mark[m] \subseteq sim.mark[t]}
<1>1. net.out \subseteq Nodes /\ \A m \in Nodes : sim.level[m] \in Nat
  BY SimFacts DEF SimOK, IsNet, Nodes
<1>2. ASSUME NEW m \in Nodes, \A k \in Nodes : sim.level[k] < sim.level[m] => k \in U
      PROVE  m \in U
  <2> SUFFICES ASSUME Outside(T)[m] # {}, Differs(r, m, b), sim.level[m] <= sim.level[o]
               PROVE  \E t \in T : Differs(r, t, b) /\ sim.mark[m] \subseteq sim.mark[t]
    OBVIOUS
  <2>1. m # r
    BY CutFacts
  <2>2. m \in Logic /\ \E i \in DOMAIN net.fanin[m] : Differs(r, net.fanin[m][i], b)
    BY <2>1, DiffersFrom
  <2>3. PICK k \in Nodes : Differs(r, k, b) /\ sim.level[k] < sim.level[m] /\ m \in sim.fanout[k]
    BY <2>2, GateFacts
  <2>4. sim.level[k] < sim.level[o] /\ sim.level[k] <= sim.level[o]
    BY <2>3, <1>1
  <2>5. k \notin net.out
    BY <2>3, <2>4
  <2>6. sim.mark[m] \subseteq sim.mark[k]
    BY <2>3, <2>5, MarkFacts
  <2>7. k \in T \/ Outside(T)[k] # {}
    BY <2>3, CutFacts
  <2> QED BY <1>2, <2>3, <2>4, <2>6, <2>7
<1>3. Nodes \subseteq U
  <2> HIDE DEF U
  <2> QED BY <1>2, LevelInduction
<1>4. sim.mark[o] = {o} /\ sim.level[o] <= sim.level[o]
  BY <1>1, MarkFacts
<1>5. o \in T \/ Outside(T)[o] # {}
  BY CutFacts
<1> QED BY <1>1, <1>3, <1>4, <1>5

\* Above a member t of T, up to an output of its mark, the change of r is the
\* change of t: nothing else of it gets there but through outputs.
LEMMA CutSame ==
  ASSUME SimOK, CvfRuns, Derived, Evaluated, NEW r \in Nodes \ net.out, NEW T, Cuts(r, T, {}),
         NEW b \in Pats, NEW t \in T, t \in Nodes, Differs(r, t, b), NEW o \in net.out, o \in sim.mark[t],
         \A k \in net.out : sim.level[k] < sim.level[o] => ~Differs(r, k, b) /\ ~Differs(t, k, b)
  PROVE  Differs(r, o, b) <=> Differs(t, o, b)
<1> DEFINE U == {m \in Nodes : Outside(T)[m] # {} /\ o \in sim.mark[m] /\ sim.level[m] <= sim.level[o] =>
                   (Differs(r, m, b) <=> Differs(t, m, b))}
<1>1. net.out \subseteq Nodes /\ \A m \in Nodes : sim.level[m] \in Nat
  BY SimFacts DEF SimOK, IsNet, Nodes
<1>2. Differs(t, t, b)
  BY FlippedFacts DEF Differs, Evaluated
<1>3. ASSUME NEW m \in Nodes, \A k \in Nodes : sim.level[k] < sim.level[m] => k \in U
      PROVE  m \in U
  <2> SUFFICES ASSUME Outside(T)[m] # {}, o \in sim.mark[m], sim.level[m] <= sim.level[o]
               PROVE  Differs(r, m, b) <=> Differs(t, m, b)
    OBVIOUS
  <2>1. m # r /\ m # t
    BY CutFacts
  <2>2. CASE m \in Inputs
    BY <2>1, <2>2, FlippedFacts DEF Differs
  <2>3. CASE m \in Logic
    <3>1. ASSUME NEW i \in DOMAIN net.fanin[m]
          PROVE  b \in Flipped(r)[net.fanin[m][i]] <=> b \in Flipped(t)[net.fanin[m][i]]
      <4>1. PICK k \in Nodes : k = net.fanin[m][i] /\ sim.level[k] < sim.level[m] /\ m \in sim.fanout[k]
        BY <2>3, GateFacts
      <4>2. sim.level[k] < sim.level[o] /\ sim.level[k] <= sim.level[o]
        BY <4>1, <1>1
      <4>3. Differs(r, k, b) <=> Differs(t, k, b)
        <5>1. CASE k \in net.out
          BY <4>2, <5>1
        <5>2. CASE k \notin net.out
          <6>1. o \in sim.mark[k]
            BY <4>1, <5>2, MarkFacts
          <6>2. CASE k \in T
            <7>1. k = t
              BY <6>1, <6>2, CutFacts
            <7> QED BY <7>1, <1>2
          <6>3. CASE Outside(T)[k] # {}
            BY <1>3, <4>1, <4>2, <6>1, <6>3
          <6>4. k \in T \/ Outside(T)[k] # {}
            BY <4>1, CutFacts
          <6> QED BY <6>2, <6>3, <6>4
        <5> QED BY <5>1, <5>2
      <4> QED BY <4>1, <4>3 DEF Differs
    <3>2. b \in Val(m, Flipped(r)) <=> b \in Val(m, Flipped(t))
      BY <2>3, <3>1, ValLocal
    <3>3. Flipped(r)[m] = Val(m, Flipped(r)) /\ Flipped(t)[m] = Val(m, Flipped(t))
      BY <2>1, <2>3, FlippedFacts
    <3> QED BY <3>2, <3>3 DEF Differs
  <2> QED BY <2>2, <2>3 DEF Logic
<1>4. Nodes \subseteq U
  <2> HIDE DEF U
  <2> QED BY <1>3, LevelInduction
<1>5. CASE o \in T
  <2>1. sim.mark[o] = {o}
    BY <1>1, MarkFacts
  <2>2. o = t
    BY <1>5, <2>1, CutFacts
  <2> QED BY <2>2, <1>2
<1>6. CASE Outside(T)[o] # {}
  <2>1. o \in sim.mark[o] /\ sim.level[o] <= sim.level[o]
    BY <1>1, MarkFacts
  <2> QED BY <1>1, <1>4, <1>6, <2>1
<1> QED BY <1>5, <1>6, CutFacts

\* A change of r is seen where it changes a member of T that is observable.
LEMMA ThroughTheCut ==
  ASSUME SimOK, CvfRuns, Derived, Evaluated, NEW r \in Nodes \ net.out,
         NEW T, T \subseteq Nodes, Cuts(r, T, {}), NEW b \in Pats
  PROVE  /\ \A o \in net.out : Differs(r, o, b) =>
              \E t \in T : /\ Differs(r, t, b) /\ b \in Observability(t)
                           /\ sim.level[t] <= sim.level[o]
         /\ \A t \in T : Differs(r, t, b) /\ b \in Observability(t) => b \in Observability(r)
<1>1. net.out \subseteq Nodes /\ \A m \in Nodes : sim.level[m] \in Nat
  BY SimFacts DEF SimOK, IsNet, Nodes
<1>2. ASSUME NEW o \in net.out, Differs(r, o, b)
      PROVE  \E t \in T : Differs(r, t, b) /\ b \in Observability(t) /\ sim.level[t] <= sim.level[o]
  <2> DEFINE S == {k \in net.out : Differs(r, k, b)}
  <2>1. S \subseteq Nodes /\ S # {}
    BY <1>1, <1>2
  <2>2. PICK p \in S : \A k \in S : sim.level[p] <= sim.level[k]
    <3> HIDE DEF S
    <3> QED BY <2>1, LowestNode
  <2>3. \A k \in net.out : sim.level[k] < sim.level[p] => ~Differs(r, k, b)
    BY <1>1, <2>2
  <2>4. PICK t \in T : Differs(r, t, b) /\ p \in sim.mark[t]
    BY <2>2, <2>3, CutBelow
  <2>5. sim.level[t] <= sim.level[p] /\ sim.level[p] <= sim.level[o]
    <3>1. p = t \/ sim.level[t] < sim.level[p]
      BY <2>4, MarkAbove
    <3> QED BY <3>1, <2>2, <1>1, <1>2
  <2>6. b \in Observability(t)
    <3>1. CASE \E k \in net.out : Differs(t, k, b)
      BY <3>1, ObservabilityFacts
    <3>2. CASE \A k \in net.out : ~Differs(t, k, b)
      <4>1. Differs(r, p, b) <=> Differs(t, p, b)
        BY <2>2, <2>3, <2>4, <3>2, CutSame
      <4> QED BY <4>1, <2>2, <3>2
    <3> QED BY <3>1, <3>2
  <2>7. sim.level[t] <= sim.level[o]
    <3>1. sim.level[t] \in Nat /\ sim.level[p] \in Nat /\ sim.level[o] \in Nat
      BY <1>1, <2>2
    <3> QED BY <3>1, <2>5
  <2> QED BY <2>4, <2>6, <2>7
<1>3. ASSUME NEW t \in T, Differs(r, t, b), b \in Observability(t), b \notin Observability(r)
      PROVE  FALSE
  <2> DEFINE S == {k \in net.out : Differs(t, k, b)}
  <2>1. S \subseteq Nodes /\ S # {}
    BY <1>1, <1>3, ObservabilityFacts
  <2>2. PICK o \in S : \A k \in S : sim.level[o] <= sim.level[k]
    <3> HIDE DEF S
    <3> QED BY <2>1, LowestNode
  <2>3. \A k \in net.out : sim.level[k] < sim.level[o] => ~Differs(t, k, b)
    BY <1>1, <2>2
  <2>4. o \in sim.mark[t]
    BY <2>2, <2>3, FirstOutput
  <2>5. \A k \in net.out : ~Differs(r, k, b)
    BY <1>3, ObservabilityFacts
  <2>6. Differs(r, o, b) <=> Differs(t, o, b)
    BY <1>3, <2>2, <2>3, <2>4, <2>5, CutSame
  <2> QED BY <2>2, <2>5, <2>6
<1> QED BY <1>2, <1>3
------------------------------------------------------------------------------
(***************************************************************************)
(* Inside a region, in both programs                                       *)
(***************************************************************************)
\* A copy in the first frame is the node itself or a flip-flop's input.
LEMMA FirstFrame ==
  ASSUME NEW s, IsSeqNet(s), NEW t \in Nat, NEW n \in DOMAIN s.type, At(s, n, t) <= Size(s)
  PROVE  (t = 0 /\ At(s, n, t) = n) \/ (t # 0 /\ At(s, n, t) \in Output1(s))
<1> DEFINE D == Nat
           T == {k \in D : k # 0 => \A m \in DOMAIN s.type : At(s, m, k) <= Size(s) =>
                                        At(s, m, k) \in Output1(s)}
           rank == [k \in D |-> k]
<1>1. Size(s) \in Nat /\ PerFrame(s) \in Nat
  BY MovedFacts
<1>2. ASSUME NEW k \in D, \A j \in D : rank[j] < rank[k] => j \in T PROVE k \in T
  <2> SUFFICES ASSUME k # 0, NEW m \in DOMAIN s.type, At(s, m, k) <= Size(s)
               PROVE  At(s, m, k) \in Output1(s)
    OBVIOUS
  <2>1. m \in FlipFlops(s)
    <3> SUFFICES ASSUME m \notin FlipFlops(s) PROVE FALSE
      OBVIOUS
    <3>1. At(s, m, k) = Size(s) + PerFrame(s) * (k - 1) + Moved(s, m)
      BY AtFacts
    <3>2. PerFrame(s) * (k - 1) \in Nat /\ Moved(s, m) \in 1 .. PerFrame(s)
      BY <1>1, MovedFacts, FrameSize
    <3> QED BY <1>1, <3>1, <3>2
  <2>2. /\ s.ff[m] \in DOMAIN s.type /\ At(s, m, k) = At(s, s.ff[m], k - 1)
        /\ k - 1 \in Nat /\ rank[k - 1] < rank[k]
    BY <2>1, FlipFlopCopies
  <2>3. CASE k - 1 = 0
    <3>1. At(s, m, k) = s.ff[m]
      BY <2>2, <2>3, AtFacts
    <3> QED BY <2>1, <3>1 DEF Output1
  <2>4. CASE k - 1 # 0
    <3>1. k - 1 \in T
      <4> HIDE DEF T, rank
      <4> QED BY <1>2, <2>2
    <3> QED BY <2>2, <2>4, <3>1
  <2> QED BY <2>3, <2>4
<1>3. D \subseteq T
  <2>1. \A k \in D : rank[k] \in Nat
    OBVIOUS
  <2> HIDE DEF T, rank, D
  <2> QED BY <1>2, <2>1, RankInduction
<1>4. t = 0 => At(s, n, t) = n
  BY AtFacts
<1> QED BY <1>3, <1>4

\* What CalcSvf was started with.
LEMMA SvfDerived ==
  ASSUME ~CvfRuns, Derived
  PROVE  /\ IsSeqNet(seq) /\ frames \in Nat \ {0} /\ net = Unroll(seq, frames)
         /\ sim.root = SvfRoot(net, seq) /\ mode = "none"
         /\ seq.out \subseteq DOMAIN seq.type
         /\ \A f \in FlipFlops(seq) : f \in DOMAIN seq.type /\ seq.ff[f] \in DOMAIN seq.type
<1> QED BY SvfAssumption DEF Derived, SvfSim, IsSeqNet, IsNet

\* Inside a region a node is no output of the network, and drives one pin, of a
\* gate of the same region.
LEMMA InsideRegion ==
  ASSUME SimOK, Derived, NEW n \in Nodes, sim.root[n] \notin {n, 0}
  PROVE  /\ n \notin net.out
         /\ \E p : /\ sim.pins[n] = {p} /\ p[1] \in Nodes /\ n < p[1]
                   /\ sim.root[p[1]] = sim.root[n]
<1>1. CASE CvfRuns
  <2>1. /\ n \notin net.out /\ NextOf(net, n) \in Nodes /\ n < NextOf(net, n)
        /\ sim.fanout[n] = {NextOf(net, n)} /\ sim.root[NextOf(net, n)] = sim.root[n]
        /\ \E p : sim.pins[n] = {p}
    BY <1>1, RegionFacts
  <2>2. PICK p : sim.pins[n] = {p}
    BY <2>1
  <2>3. p[1] \in sim.fanout[n]
    BY <2>2, PinFacts
  <2> QED BY <2>1, <2>2, <2>3
<1>2. CASE ~CvfRuns
  <2>1. /\ IsSeqNet(seq) /\ frames \in Nat \ {0} /\ net = Unroll(seq, frames)
        /\ sim.root = SvfRoot(net, seq) /\ seq.out \subseteq DOMAIN seq.type
        /\ \A f \in FlipFlops(seq) : seq.ff[f] \in DOMAIN seq.type
    BY <1>2, SvfDerived
  <2>2. sim.root[n] = IF n > Size(seq) THEN 0
                      ELSE IF n \in Output1(seq) \/ Nfo(net, n) # 1 THEN n
                      ELSE sim.root[NextOf(net, n)]
    BY <2>1, SvfRootFacts DEF SimOK, Nodes
  <2>3. /\ ~(n > Size(seq)) /\ n \notin Output1(seq) /\ Nfo(net, n) = 1
        /\ sim.root[n] = sim.root[NextOf(net, n)]
    BY <2>2
  <2>4. n <= Size(seq)
    <3>1. Size(seq) \in Nat /\ n \in Nat
      BY <2>1, MovedFacts, SimFacts
    <3> QED BY <2>3, <3>1
  <2>5. ASSUME NEW o \in DOMAIN seq.type, NEW t \in Nat, n = At(seq, o, t)
        PROVE  t = 0 /\ n = o
    BY <2>1, <2>3, <2>4, <2>5, FirstFrame
  <2>6. n \notin net.out
    <3> SUFFICES ASSUME n \in net.out PROVE FALSE
      OBVIOUS
    <3>1. net.out = {At(seq, o, t) : o \in seq.out, t \in 0 .. frames - 1}
                      \cup {At(seq, seq.ff[f], frames - 1) : f \in FlipFlops(seq)}
      BY <2>1 DEF Unroll
    <3>2. frames - 1 \in Nat /\ \A t \in 0 .. frames - 1 : t \in Nat
      BY <2>1
    <3>3. CASE \E o \in seq.out, t \in 0 .. frames - 1 : n = At(seq, o, t)
      BY <2>1, <2>3, <2>5, <3>2, <3>3 DEF Output1
    <3>4. CASE \E f \in FlipFlops(seq) : n = At(seq, seq.ff[f], frames - 1)
      BY <2>1, <2>3, <2>5, <3>2, <3>4 DEF Output1
    <3> QED BY <3>1, <3>3, <3>4
  <2>7. /\ NextOf(net, n) \in Nodes /\ n < NextOf(net, n)
        /\ \E p : Pins(net, n) = {p} /\ p[1] = NextOf(net, n)
    BY <2>3, SinglePin
  <2>8. sim.pins[n] = Pins(net, n)
    BY DEF SimOK
  <2> QED BY <2>3, <2>6, <2>7, <2>8
<1> QED BY <1>1, <1>2

\* calc_iobs is right for a region when the root is.
LEMMA SpreadRight ==
  ASSUME SimOK, Derived, Evaluated, obs \in [Nodes -> SUBSET Pats], NEW r \in Roots
  PROVE  \A n \in Nodes : sim.root[n] = r => Spread(r, Observability(r))[n] = Observability(n)
<1> DEFINE o == Observability(r)
           T == {n \in Nodes : sim.root[n] = r => Spread(r, o)[n] = Observability(n)}
<1>1. r \in Nodes /\ r # 0 /\ o \subseteq Pats
  BY SimFacts, ObservabilityFacts
<1>2. /\ Spread(r, o)[r] = o
      /\ \A n \in Nodes \ {r} : sim.root[n] = r =>
           \E p \in sim.pins[n] : Spread(r, o)[n] = Spread(r, o)[p[1]] \cap Sensitive(p[1], p[2], gval)
  <2> HIDE DEF o
  <2> QED BY <1>1, SpreadType
<1> HIDE DEF o
<1>3. ASSUME NEW n \in Nodes, \A m \in Nodes : n < m => m \in T PROVE n \in T
  <2>1. CASE n = r
    BY <1>2, <2>1 DEF o
  <2>2. CASE n # r
    <3> SUFFICES ASSUME sim.root[n] = r PROVE Spread(r, o)[n] = Observability(n)
      OBVIOUS
    <3>1. PICK p : /\ sim.pins[n] = {p} /\ p[1] \in Nodes /\ n < p[1] /\ sim.root[p[1]] = r
                   /\ n \notin net.out
      BY <1>1, <2>2, InsideRegion
    <3>2. Spread(r, o)[n] = Spread(r, o)[p[1]] \cap Sensitive(p[1], p[2], gval)
      BY <1>2, <2>2, <3>1
    <3>3. Observability(n) = Observability(p[1]) \cap Sensitive(p[1], p[2], gval)
      BY <3>1, ThroughTheGate
    <3>4. Spread(r, o)[p[1]] = Observability(p[1])
      BY <1>3, <3>1
    <3> QED BY <3>2, <3>3, <3>4
  <2> QED BY <2>1, <2>2
<1>4. Nodes \subseteq T
  <2> HIDE DEF T
  <2> QED BY <1>3, DownwardInduction
<1> QED BY <1>4 DEF o
------------------------------------------------------------------------------
(***************************************************************************)
(* The values of a simulation                                              *)
(***************************************************************************)
\* The nodes that are not evaluated again when a target changes: those reached
\* from it before the next output.
Closed(T, S) == \A k \in (T \ net.out) \cup S : \A m \in sim.fanout[k] : m \notin net.out => m \in S
Shadow(T)    == {m \in Nodes : \A S \in SUBSET Nodes : Closed(T, S) => m \in S}

\* They are what they are called, and their outputs are those of a target.
LEMMA ShadowFacts ==
  ASSUME SimOK, NEW T, T \subseteq Nodes
  PROVE  /\ T = {} => Shadow(T) = {}
         /\ \A k \in (T \ net.out) \cup Shadow(T) : \A m \in sim.fanout[k] :
              m \notin net.out => m \in Shadow(T)
         /\ CvfRuns /\ Derived =>
              \A m \in Shadow(T) : m \notin net.out /\ \E t \in T \ net.out : t < m /\ sim.mark[m] \subseteq sim.mark[t]
<1>1. T = {} => Shadow(T) = {}
  BY DEF Shadow, Closed
<1>2. ASSUME NEW k \in (T \ net.out) \cup Shadow(T), NEW m \in sim.fanout[k], m \notin net.out
      PROVE  m \in Shadow(T)
  <2>1. k \in Nodes /\ m \in Nodes
    BY SimFacts DEF Shadow
  <2>2. \A S \in SUBSET Nodes : Closed(T, S) => m \in S
    BY <1>2 DEF Shadow, Closed
  <2> QED BY <2>1, <2>2 DEF Shadow
<1>3. ASSUME CvfRuns, Derived, NEW n \in Shadow(T)
      PROVE  n \notin net.out /\ \E t \in T \ net.out : t < n /\ sim.mark[n] \subseteq sim.mark[t]
  <2> DEFINE S == {m \in Nodes : /\ m \notin net.out
                                 /\ \E t \in T \ net.out : t < m /\ sim.mark[m] \subseteq sim.mark[t]}
  <2>1. ASSUME NEW k \in (T \ net.out) \cup S, NEW m \in sim.fanout[k], m \notin net.out
        PROVE  m \in S
    <3>1. k \in Nodes /\ k \notin net.out
      OBVIOUS
    <3>2. m \in Nodes /\ k < m /\ Nodes \subseteq Nat
      BY <3>1, SimFacts
    <3>3. sim.mark[m] \subseteq sim.mark[k]
      BY <3>1, <1>3, MarkFacts
    <3>4. PICK t \in T \ net.out : (t = k \/ t < k) /\ sim.mark[k] \subseteq sim.mark[t]
      OBVIOUS
    <3>5. t < m
      BY <3>1, <3>2, <3>4
    <3> QED BY <2>1, <3>2, <3>3, <3>4, <3>5
  <2>2. S \in SUBSET Nodes /\ Closed(T, S)
    <3> HIDE DEF S
    <3>1. S \subseteq Nodes
      BY DEF S
    <3> QED BY <2>1, <3>1 DEF Closed
  <2>3. n \in S
    <3> HIDE DEF S
    <3> QED BY <1>3, <2>2 DEF Shadow
  <2> QED BY <2>3
<1> QED BY <1>1, <1>2, <1>3

\* A target from which an output is reached reads neither a shadow nor another
\* target that is not an output.
LEMMA TargetInputs ==
  ASSUME SimOK, CvfRuns, Derived, NEW r \in Nodes \ net.out, NEW T, T \subseteq Nodes, Cuts(r, T, {}),
         NEW t \in T, sim.mark[t] # {}, t \in Logic, NEW i \in DOMAIN net.fanin[t]
  PROVE  net.fanin[t][i] \notin (T \ net.out) \cup Shadow(T)
<1> SUFFICES ASSUME net.fanin[t][i] \in (T \ net.out) \cup Shadow(T) PROVE FALSE
  OBVIOUS
<1>1. PICK k \in Nodes : k = net.fanin[t][i] /\ k < t /\ t \in sim.fanout[k]
  BY GateFacts
<1>2. k \notin net.out /\ \E u \in T \ net.out : (u = k \/ u < k) /\ sim.mark[k] \subseteq sim.mark[u]
  BY <1>1, ShadowFacts
<1>3. PICK u \in T : (u = k \/ u < k) /\ sim.mark[k] \subseteq sim.mark[u]
  BY <1>2
<1>4. sim.mark[t] \subseteq sim.mark[k]
  BY <1>1, <1>2, MarkFacts
<1>5. u = t
  BY <1>3, <1>4, CutFacts
<1>6. u \in Nat /\ k \in Nat /\ t \in Nat
  BY SimFacts
<1> QED BY <1>1, <1>3, <1>5, <1>6

\* The two words of a node differ at bit b.
Toggled(m, b) == ~(b \in fval[m] <=> b \in gval[m])

\* At bit b, while a change of r is simulated that stops at the targets T: the
\* value of a gate is that of its inputs, unless it is queued or reads a target
\* that changed; what changed is no output, and no target that is seen there.
Simulating(r, T, b) ==
  /\ r \in Nodes \ net.out /\ T \subseteq Nodes /\ (T # {} => CvfRuns /\ Cuts(r, T, {}))
  /\ b \in fval[r] <=> b \notin gval[r]
  /\ \A m \in Inputs \ {r} : ~Toggled(m, b)
  /\ \A m \in Logic \ ({r} \cup eq.inQueue) :
       \/ \E i \in DOMAIN net.fanin[m] : net.fanin[m][i] \in T /\ Toggled(net.fanin[m][i], b)
       \/ b \in fval[m] <=> b \in Val(m, fval)
  /\ \A o \in net.out : ~Toggled(o, b)
  /\ \A t \in T : Toggled(t, b) => b \notin Observability(t)

\* A gate is right when its inputs are, and none is a target within the region of
\* an output.
LEMMA RightGate ==
  ASSUME SimOK, Evaluated, NEW r, NEW T, NEW b \in Pats, Simulating(r, T, b),
         NEW m \in Logic \ {r},
         \A i \in DOMAIN net.fanin[m] : /\ net.fanin[m][i] \notin T \ net.out
                                        /\ b \in fval[net.fanin[m][i]] <=> b \in Flipped(r)[net.fanin[m][i]]
  PROVE  /\ b \in Val(m, fval) <=> b \in Flipped(r)[m]
         /\ m \notin eq.inQueue => (b \in fval[m] <=> b \in Flipped(r)[m])
<1>1. r \in Nodes
  BY DEF Simulating
<1>2. Flipped(r)[m] = Val(m, Flipped(r))
  BY <1>1, FlippedFacts
<1>3. b \in Val(m, fval) <=> b \in Val(m, Flipped(r))
  BY ValLocal
<1>4. \A i \in DOMAIN net.fanin[m] : ~(net.fanin[m][i] \in T /\ Toggled(net.fanin[m][i], b))
  BY DEF Simulating
<1>5. m \notin eq.inQueue => (b \in fval[m] <=> b \in Val(m, fval))
  BY <1>4 DEF Simulating
<1> QED BY <1>2, <1>3, <1>5

\* Below the levels still queued every node has the value it has when r changes,
\* but for the shadows of the targets.
LEMMA RightBelow ==
  ASSUME SimOK, Derived, Evaluated, NEW r, NEW T, NEW b \in Pats, Simulating(r, T, b),
         NEW l \in Nat, \A m \in eq.inQueue : l <= sim.level[m]
  PROVE  \A m \in Nodes \ Shadow(T) : sim.level[m] < l => (b \in fval[m] <=> b \in Flipped(r)[m])
<1> DEFINE U == {m \in Nodes : m \notin Shadow(T) /\ sim.level[m] < l =>
                                 (b \in fval[m] <=> b \in Flipped(r)[m])}
<1>1. r \in Nodes /\ T \subseteq Nodes
  BY DEF Simulating
<1>2. \A m \in Nodes : sim.level[m] \in Nat
  BY SimFacts
<1>3. ASSUME NEW m \in Nodes, sim.level[m] < l PROVE m \notin eq.inQueue
  BY <1>2, <1>3
<1>4. ASSUME NEW m \in Nodes, \A k \in Nodes : sim.level[k] < sim.level[m] => k \in U
      PROVE  m \in U
  <2> SUFFICES ASSUME m \notin Shadow(T), sim.level[m] < l
               PROVE  b \in fval[m] <=> b \in Flipped(r)[m]
    OBVIOUS
  <2>1. ASSUME NEW k \in Nodes \ Shadow(T), sim.level[k] < sim.level[m]
        PROVE  b \in fval[k] <=> b \in Flipped(r)[k]
    <3>1. sim.level[k] < l
      BY <1>2, <2>1
    <3> QED BY <1>4, <2>1, <3>1
  <2> HIDE DEF U
  <2>2. CASE m = r
    BY <1>1, <2>2, FlippedFacts DEF Simulating, Evaluated
  <2>3. CASE m # r /\ m \in Inputs
    BY <1>1, <2>3, FlippedFacts DEF Simulating, Toggled
  <2>4. CASE /\ m # r /\ m \in Logic
             /\ \A i \in DOMAIN net.fanin[m] : net.fanin[m][i] \notin (T \ net.out) \cup Shadow(T)
    <3>1. ASSUME NEW i \in DOMAIN net.fanin[m]
          PROVE  b \in fval[net.fanin[m][i]] <=> b \in Flipped(r)[net.fanin[m][i]]
      BY <2>1, <2>4, GateFacts
    <3>2. m \notin eq.inQueue
      BY <1>3
    <3> QED BY <2>4, <3>1, <3>2, RightGate
  <2>5. CASE /\ m # r /\ m \in Logic
             /\ \E i \in DOMAIN net.fanin[m] : net.fanin[m][i] \in (T \ net.out) \cup Shadow(T)
    <3>1. m \in net.out
      BY <1>1, <2>5, ShadowFacts, GateFacts
    <3>2. CvfRuns /\ Cuts(r, T, {})
      <4>1. T # {}
        BY <2>5, ShadowFacts
      <4> QED BY <4>1 DEF Simulating
    <3>3. ASSUME Differs(r, m, b) PROVE FALSE
      <4>1. PICK t \in T : Differs(r, t, b) /\ b \in Observability(t) /\ sim.level[t] <= sim.level[m]
        BY <1>1, <3>1, <3>2, <3>3, ThroughTheCut DEF Simulating
      <4>2. t \in Nodes /\ t # r
        BY <1>1, <3>2, CutFacts DEF Simulating
      <4>3. t \in Logic
        BY <1>1, <4>1, <4>2, DiffersFrom
      <4>4. sim.mark[t] # {}
        BY <3>2, <4>1, <4>2, NoMark
      <4>5. ASSUME NEW i \in DOMAIN net.fanin[t]
            PROVE  /\ net.fanin[t][i] \notin T \ net.out
                   /\ b \in fval[net.fanin[t][i]] <=> b \in Flipped(r)[net.fanin[t][i]]
        <5>1. PICK k \in Nodes : k = net.fanin[t][i] /\ sim.level[k] < sim.level[t]
          BY <4>3, GateFacts
        <5>2. k \notin (T \ net.out) \cup Shadow(T)
          BY <1>1, <3>2, <4>3, <4>4, <5>1, TargetInputs DEF Simulating
        <5>3. sim.level[k] < sim.level[m]
          BY <1>2, <4>1, <4>2, <5>1
        <5> QED BY <2>1, <5>1, <5>2, <5>3
      <4>6. t \notin eq.inQueue
        <5>1. sim.level[t] < l
          BY <1>2, <4>1, <4>2
        <5> QED BY <1>3, <4>2, <5>1
      <4>7. b \in fval[t] <=> b \in Flipped(r)[t]
        BY <4>2, <4>3, <4>5, <4>6, RightGate
      <4>8. Toggled(t, b)
        BY <4>1, <4>7 DEF Toggled, Differs
      <4> QED BY <4>1, <4>8 DEF Simulating
    <3>4. ~Toggled(m, b)
      BY <3>1 DEF Simulating
    <3> QED BY <3>3, <3>4 DEF Toggled, Differs
  <2> QED BY <2>2, <2>3, <2>4, <2>5 DEF Logic
<1>5. Nodes \subseteq U
  <2> HIDE DEF U
  <2> QED BY <1>4, LevelInduction
<1> QED BY <1>5

\* What an event computes is right where it may be seen: at any gate without
\* targets, at a target from which an output is reached with them.
LEMMA RightEvent ==
  ASSUME SimOK, Derived, Evaluated, NEW r, NEW T, NEW b \in Pats, Simulating(r, T, b),
         NEW n \in Logic \ {r}, \A m \in eq.inQueue : sim.level[n] <= sim.level[m],
         T = {} \/ (n \in T /\ sim.mark[n] # {})
  PROVE  b \in Val(n, fval) <=> b \in Flipped(r)[n]
<1>1. r \in Nodes \ net.out /\ T \subseteq Nodes /\ n \in Nodes /\ sim.level[n] \in Nat
  BY SimFacts DEF Simulating
<1>2. ASSUME NEW i \in DOMAIN net.fanin[n]
      PROVE  net.fanin[n][i] \notin (T \ net.out) \cup Shadow(T)
  <2>1. CASE T = {}
    BY <1>1, <2>1, ShadowFacts
  <2>2. CASE T # {}
    <3>1. CvfRuns /\ Cuts(r, T, {}) /\ n \in T /\ sim.mark[n] # {}
      BY <2>2 DEF Simulating
    <3> QED BY <1>1, <3>1, TargetInputs
  <2> QED BY <2>1, <2>2
<1>3. ASSUME NEW i \in DOMAIN net.fanin[n]
      PROVE  b \in fval[net.fanin[n][i]] <=> b \in Flipped(r)[net.fanin[n][i]]
  <2>1. net.fanin[n][i] \in Nodes \ Shadow(T) /\ sim.level[net.fanin[n][i]] < sim.level[n]
    BY <1>2, GateFacts
  <2> QED BY <1>1, <2>1, RightBelow
<1> QED BY <1>2, <1>3, RightGate

\* When nothing is queued any more, no change of r is left to be seen.
LEMMA NothingMissed ==
  ASSUME SimOK, Derived, Evaluated, NEW r, NEW T, NEW b \in Pats, Simulating(r, T, b), eq.inQueue = {}
  PROVE  b \notin Observability(r)
<1>1. r \in Nodes /\ T \subseteq Nodes /\ net.out \subseteq Nodes
  BY DEF Simulating, SimOK, IsNet, Nodes
<1>2. ASSUME NEW o \in net.out, Differs(r, o, b) PROVE FALSE
  <2>1. o \notin Shadow(T)
    <3>1. T # {} => CvfRuns
      BY DEF Simulating
    <3> QED BY <1>1, <3>1, ShadowFacts
  <2>2. PICK l \in Nat : sim.level[o] < l
    <3>1. sim.level[o] \in Nat
      BY <1>1, SimFacts
    <3>2. sim.level[o] + 1 \in Nat /\ sim.level[o] < sim.level[o] + 1
      BY <3>1
    <3> QED BY <3>2
  <2>3. b \in fval[o] <=> b \in Flipped(r)[o]
    BY <1>1, <2>1, <2>2, RightBelow
  <2>4. ~Toggled(o, b)
    BY DEF Simulating
  <2> QED BY <1>2, <2>3, <2>4 DEF Toggled, Differs
<1> QED BY <1>1, <1>2, ObservabilityFacts
------------------------------------------------------------------------------
(***************************************************************************)
(* calc_exact                                                              *)
(***************************************************************************)
\* The two words of every input that no call writes happen to be equal.
Equal == \A n \in Nodes \ Settled : fval[n] = gval[n]

\* The regions done have the observabilities of their nodes.
Known == \A n \in Nodes : sim.root[n] \in Roots \ ToSet(todo) => obs[n] = Observability(n)

\* During the simulation of a change of region root r.
Simulated(r) ==
  /\ r \notin net.out
  /\ \A m \in Nodes, b \in Pats : Toggled(m, b) => b \in Request(r)
  /\ seen \subseteq Observability(r)
  /\ \A b \in Request(r) \ seen : Simulating(r, dss[r], b)
  /\ mode # "none" => \A m \in eq.inQueue : Outside(dss[r])[m] = {}

ExactInv ==
  /\ pc = "dss" => op = "none"
  /\ pc = "sim" => clear \subseteq Logic \cup {Head(todo)}
  /\ op = "exact" => Descending(todo) /\ (pc = "idle" => todo = <<>>)
  /\ op = "exact" /\ Equal => Known /\ (pc = "sim" => Simulated(Head(todo)))

\* Gates and region roots get their words from the calls.
LEMMA SettledFacts ==
  ASSUME SimOK, Derived
  PROVE  Logic \subseteq Settled /\ Roots \subseteq Settled
<1>1. CASE CvfRuns
  BY <1>1, SimFacts DEF Settled
<1>2. CASE ~CvfRuns
  <2>1. Logic \subseteq Settled
    BY SimFacts DEF Settled, Later, Logic
  <2>2. ASSUME NEW r \in Roots PROVE r \in Settled
    <3>1. r \in Nodes /\ sim.root[r] = r /\ r # 0
      BY SimFacts DEF Roots
    <3>2. IsSeqNet(seq) /\ sim.root = SvfRoot(net, seq)
      BY <1>2, SvfDerived
    <3>3. ~(r > Size(seq))
      BY <3>1, <3>2, SvfRootFacts DEF SimOK, Nodes
    <3> QED BY <1>2, <3>1, <3>3 DEF Settled, Later
  <2> QED BY <2>1, <2>2
<1> QED BY <1>1, <1>2

\* The region a simulation is about, and the nodes it stops at.
LEMMA RegionTargets ==
  ASSUME CalcInv, Derived, DssInv, pc \in {"ffr", "sim"}, todo # <<>>, Descending(todo),
         NEW r, r = Head(todo)
  PROVE  /\ r \in Roots /\ r \in Nodes /\ r \in Settled /\ r \in Nat
         /\ dss[r] \subseteq Nodes /\ r \notin dss[r]
         /\ mode # "none" => CvfRuns /\ Cuts(r, dss[r], {})
         /\ mode = "none" => dss[r] = {}
         /\ Known => \A t \in dss[r] : obs[t] = Observability(t)
         /\ Request(r) \subseteq Pats
<1>1. SimOK /\ todo \in Seq(Roots) /\ Roots \subseteq Nodes /\ Nodes \subseteq Nat /\ CvfTypeOK
  BY SimFacts DEF CalcInv, Context, Control
<1>2. r \in Roots /\ Roots \subseteq Nat /\ \A x \in ToSet(todo) : x <= r
  BY <1>1, TailFacts
<1>3. dss[r] \subseteq Nodes
  BY <1>1, <1>2 DEF CvfTypeOK
<1>4. mode = "none" => dss[r] = {}
  BY <1>2 DEF DssInv
<1>5. mode # "none" => CvfRuns /\ Cuts(r, dss[r], {})
  BY <1>2 DEF DssInv, Derived
<1>6. \A t \in dss[r] : r < t
  BY <1>4, <1>5 DEF Cuts
<1>7. ASSUME Known, NEW t \in dss[r] PROVE obs[t] = Observability(t)
  <2>1. t \in Nodes /\ CvfRuns /\ r < t
    BY <1>3, <1>4, <1>5, <1>6
  <2>2. sim.root[t] \in Roots /\ t <= sim.root[t]
    BY <1>1, <2>1, RegionFacts
  <2>3. ~(sim.root[t] <= r)
    <3>1. sim.root[t] \in Nat /\ t \in Nat /\ r \in Nat
      BY <1>1, <1>2, <2>1, <2>2
    <3> QED BY <2>1, <2>2, <3>1
  <2>4. sim.root[t] \notin ToSet(todo)
    BY <1>2, <2>3
  <2> QED BY <1>7, <2>1, <2>2, <2>4 DEF Known
<1>8. Request(r) \subseteq Pats
  BY <1>1, <1>3 DEF Request, CvfTypeOK
<1>9. r \in Settled /\ r \notin dss[r] /\ r \in Nat /\ r \in Nodes
  BY <1>1, <1>2, <1>6, SettledFacts
<1> QED BY <1>2, <1>3, <1>4, <1>5, <1>7, <1>8, <1>9

\* What makes Simulating hold of the next state.
LEMMA SimulatingNext ==
  ASSUME UNCHANGED <<netVars, svfVars, gval>>, NEW r, NEW T, NEW b,
         r \in Nodes \ net.out, T \subseteq Nodes, T # {} => CvfRuns /\ Cuts(r, T, {}),
         b \in fval'[r] <=> b \notin gval[r],
         \A m \in Inputs \ {r} : b \in fval'[m] <=> b \in gval[m],
         \A m \in Logic \ ({r} \cup eq'.inQueue) :
           \/ \E i \in DOMAIN net.fanin[m] : /\ net.fanin[m][i] \in T
                                             /\ ~(b \in fval'[net.fanin[m][i]] <=> b \in gval[net.fanin[m][i]])
           \/ b \in fval'[m] <=> b \in Val(m, fval'),
         \A o \in net.out : b \in fval'[o] <=> b \in gval[o],
         \A t \in T : ~(b \in fval'[t] <=> b \in gval[t]) => b \notin Observability(t)
  PROVE  Simulating(r, T, b)'
<1>1. /\ net' = net /\ sim' = sim /\ gval' = gval /\ Nodes' = Nodes /\ Logic' = Logic /\ Inputs' = Inputs
      /\ CvfRuns' = CvfRuns
  BY SameNet DEF netVars, svfVars, CvfRuns
<1>2. /\ \A t : Observability(t)' = Observability(t)
      /\ Cuts(r, T, {})' = Cuts(r, T, {})
      /\ \A m : Val(m, fval)' = Val(m, fval')
  BY <1>1, SameValues, SameCuts DEF Val
<1> QED BY <1>1, <1>2 DEF Simulating, Toggled

------------------------------------------------------------------------------
\* The start of a simulation: the root's word is changed where it is asked for,
\* and what it drives is queued.
LEMMA StartExactInv ==
  ASSUME CalcInv, ValuesInv, Derived, DssInv, ExactInv, UNCHANGED svfVars, FfrStart
  PROVE  ExactInv'
<1>1. /\ SimOK /\ Levelled(Logic, sim.level, QTop) /\ IsQueue(eq, Logic, sim.level, QTop)
      /\ pc = "ffr" /\ op = "exact" /\ todo # <<>> /\ clear = {} /\ eq.inQueue = {}
      /\ Evaluated /\ Descending(todo) /\ CvfTypeOK
  BY DEF CalcInv, Context, Control, FfrStart, ValuesInv, ExactInv
<1>2. PICK r : r = Head(todo)
  OBVIOUS
<1>3. /\ fval' = [fval EXCEPT ![r] = Xor(gval[r], Request(r))]
      /\ clear' = {r} /\ eq' = PutFanouts(eq, r) /\ seen' = {} /\ pc' = "sim"
      /\ UNCHANGED <<netVars, dssVars, todo, op, gval, obs>> /\ r \notin net.out
  BY <1>2 DEF FfrStart, IsOutput
<1>4. /\ r \in Roots /\ r \in Nodes /\ r \in Settled /\ r \in Nat
      /\ dss[r] \subseteq Nodes /\ r \notin dss[r]
      /\ mode # "none" => CvfRuns /\ Cuts(r, dss[r], {})
      /\ mode = "none" => dss[r] = {}
      /\ Request(r) \subseteq Pats
  BY <1>1, <1>2, RegionTargets
<1>5. /\ UNCHANGED <<netVars, svfVars, gval>> /\ Nodes' = Nodes /\ Logic' = Logic /\ Roots' = Roots
      /\ Settled' = Settled /\ sim' = sim /\ net' = net /\ mode' = mode /\ dss' = dss
  BY <1>3, SameNet DEF netVars, dssVars
<1>6. eq'.inQueue = sim.fanout[r]
  <2>1. PutFanouts(eq, r).inQueue = eq.inQueue \cup sim.fanout[r]
    BY <1>1, <1>4, PutFanoutsFacts
  <2> QED BY <1>1, <1>3, <2>1
<1>7. /\ \A m \in Nodes \ {r} : fval'[m] = fval[m]
      /\ fval'[r] = Xor(gval[r], Request(r))
  BY <1>1, <1>3, <1>4 DEF CvfTypeOK
<1>8. ASSUME Equal' PROVE Equal /\ \A m \in Nodes : fval[m] = gval[m]
  <2>1. Equal
    BY <1>3, <1>4, <1>5, <1>7, <1>8 DEF Equal
  <2>2. \A m \in Settled : fval[m] = gval[m]
    BY <1>1 DEF CalcInv, Differing
  <2> QED BY <2>1, <2>2 DEF Equal
<1>9. Known => Known'
  <2>1. \A n : Observability(n)' = Observability(n)
    BY <1>5, SameValues
  <2> QED BY <1>3, <1>5, <2>1 DEF Known
<1>10. ASSUME Equal' PROVE Simulated(r)'
  <2>1. \A m \in Nodes : fval[m] = gval[m]
    BY <1>8, <1>10
  <2>2. \A m \in Nodes \ {r} : fval'[m] = gval[m]
    BY <1>7, <2>1
  <2>3. \A b : b \in fval'[r] <=> ~(b \in gval[r] <=> b \in Request(r))
    BY <1>7 DEF Xor
  <2>4. Request(r)' = Request(r) /\ Observability(r)' = Observability(r)
    BY <1>3, <1>5, SameValues DEF Request
  <2>5. \A m \in Nodes, b \in Pats : Toggled(m, b)' => b \in Request(r)'
    BY <1>3, <2>2, <2>3, <2>4 DEF Toggled
  <2>6. ASSUME NEW b \in Request(r) PROVE Simulating(r, dss[r], b)'
    <3>1. PICK T : T = dss[r]
      OBVIOUS
    <3>2. ASSUME NEW m \in Logic \ ({r} \cup eq'.inQueue) PROVE b \in fval'[m] <=> b \in Val(m, fval')
      <4>1. \A i \in DOMAIN net.fanin[m] : net.fanin[m][i] \in Nodes \ {r}
        BY <1>1, <1>6, GateFacts
      <4>2. \A i \in DOMAIN net.fanin[m] : b \in fval'[net.fanin[m][i]] <=> b \in gval[net.fanin[m][i]]
        BY <2>2, <4>1
      <4>3. b \in Pats /\ m \in Logic /\ m \in Nodes \ {r}
        BY <1>4, SimFacts, <1>1
      <4>4. \A v, w : (\A i \in DOMAIN net.fanin[m] : b \in v[net.fanin[m][i]] <=> b \in w[net.fanin[m][i]])
                        => (b \in Val(m, v) <=> b \in Val(m, w))
        BY <1>1, <4>3, ValLocal
      <4>5. b \in Val(m, fval') <=> b \in Val(m, gval)
        BY <4>2, <4>4
      <4>6. gval[m] = Val(m, gval)
        BY <1>1, <4>3 DEF Evaluated
      <4> QED BY <2>2, <4>3, <4>5, <4>6
    <3>3. net.out \subseteq Nodes /\ Inputs \subseteq Nodes
      BY <1>1 DEF SimOK, IsNet, Nodes, Inputs
    <3>4. Simulating(r, T, b)'
      <4>1. r \in Nodes \ net.out /\ T \subseteq Nodes /\ (T # {} => CvfRuns /\ Cuts(r, T, {}))
        BY <1>3, <1>4, <3>1
      <4>2. b \in fval'[r] <=> b \notin gval[r]
        BY <2>3, <2>6
      <4>3. \A m \in Inputs \ {r} : b \in fval'[m] <=> b \in gval[m]
        BY <2>2, <3>3
      <4>4. \A o \in net.out : b \in fval'[o] <=> b \in gval[o]
        BY <1>3, <2>2, <3>3
      <4>5. \A t \in T : b \in fval'[t] <=> b \in gval[t]
        <5>1. \A t \in T : t \in Nodes \ {r}
          BY <1>4, <3>1
        <5> QED BY <2>2, <5>1
      <4> QED BY <1>5, <3>2, <4>1, <4>2, <4>3, <4>4, <4>5, SimulatingNext
    <3> QED BY <1>5, <3>1, <3>4
  <2>7. mode # "none" => \A m \in eq'.inQueue : Outside(dss[r])'[m] = {}
    <3>1. PICK T : T = dss[r]
      OBVIOUS
    <3>2. Outside(T)' = Outside(T)
      BY <1>5, SameCuts
    <3>3. mode # "none" => \A k \in sim.fanout[r] : Outside(T \cup {})[k] = {}
      BY <1>4, <3>1 DEF Cuts
    <3>4. T \cup {} = T /\ dss' = dss
      BY <1>5
    <3> QED BY <1>6, <3>1, <3>2, <3>3, <3>4
  <2> QED BY <1>3, <1>5, <2>4, <2>5, <2>6, <2>7 DEF Simulated
<1>11. clear' \subseteq Logic' \cup {Head(todo')}
  BY <1>2, <1>3
<1>12. Head(todo') = r
  BY <1>2, <1>3
<1>13. op' = "exact" /\ Equal' => Known' /\ (pc' = "sim" => Simulated(Head(todo))')
  BY <1>1, <1>8, <1>9, <1>10, <1>12 DEF ExactInv
<1> QED BY <1>1, <1>3, <1>11, <1>13 DEF ExactInv, Descending
------------------------------------------------------------------------------
\* What an event does to the words, the queue and the bits seen.
LEMMA EventEffect ==
  ASSUME CalcInv, Evaluated, Derived, UNCHANGED svfVars, Event, NEW n, n = First(eq), NEW d, d = Diff(n)
  PROVE  /\ n \in Logic /\ n \in Nodes /\ n \notin clear /\ n \in eq.inQueue
         /\ \A m \in eq.inQueue : sim.level[n] <= sim.level[m]
         /\ fval[n] = gval[n] /\ \A m \in Nodes \ {n} : fval'[m] = fval[m]
         /\ \A b : b \in fval'[n] <=> ~(b \in gval[n] <=> b \in d)
         /\ \A b \in Pats : b \in d <=> b \notin seen /\ ~(b \in gval[n] <=> b \in Val(n, fval))
         /\ d \subseteq Pats
         /\ eq.inQueue \ {n} \subseteq eq'.inQueue
         /\ eq'.inQueue \subseteq (eq.inQueue \ {n}) \cup (IF n \in target \/ n \in net.out THEN {} ELSE sim.fanout[n])
         /\ d # {} /\ n \notin target /\ n \notin net.out => sim.fanout[n] \subseteq eq'.inQueue
<1>1. /\ SimOK /\ Levelled(Logic, sim.level, QTop) /\ IsQueue(eq, Logic, sim.level, QTop)
      /\ eq.mNum > 0 /\ CvfTypeOK /\ Differing
  BY DEF CalcInv, Context, Event
<1>2. /\ n \in Logic /\ n \in Nodes /\ n \notin clear /\ n \in eq.inQueue
      /\ \A m \in eq.inQueue : sim.level[n] <= sim.level[m]
  BY <1>1, EventFacts, SearchEnds
<1>3. fval[n] = gval[n]
  BY <1>1, <1>2, SettledFacts DEF Differing
<1>4. fval' = [fval EXCEPT ![n] = Xor(@, d)] /\ eq' = After(n, d)
  BY DEF Event
<1>5. (\A m \in Nodes \ {n} : fval'[m] = fval[m]) /\ fval'[n] = Xor(gval[n], d)
  BY <1>1, <1>2, <1>3, <1>4 DEF CvfTypeOK
<1>6. \A b : b \in fval'[n] <=> ~(b \in gval[n] <=> b \in d)
  BY <1>5 DEF Xor
<1>7. d = Xor(gval[n], Val(n, fval)) \ seen
  BY DEF Diff, Val
<1>8. Val(n, fval) \subseteq Pats /\ gval[n] \subseteq Pats
  BY <1>1, <1>2, ValType, GateFacts DEF CvfTypeOK
<1>9. /\ \A b \in Pats : b \in d <=> b \notin seen /\ ~(b \in gval[n] <=> b \in Val(n, fval))
      /\ d \subseteq Pats
  BY <1>7, <1>8 DEF Xor
<1>10. IsQueue(Pop(eq), Logic, sim.level, QTop) /\ Pop(eq).inQueue = eq.inQueue \ {n}
  BY <1>1, PopPreserves DEF Pop
<1>11. PutFanouts(Pop(eq), n).inQueue = Pop(eq).inQueue \cup sim.fanout[n]
  BY <1>1, <1>2, <1>10, PutFanoutsFacts
<1>12. /\ d = {} \/ n \in target \/ n \in net.out => eq'.inQueue = eq.inQueue \ {n}
       /\ ~(d = {} \/ n \in target \/ n \in net.out) => eq'.inQueue = (eq.inQueue \ {n}) \cup sim.fanout[n]
  BY <1>4, <1>10, <1>11 DEF After, IsOutput
<1> HIDE DEF Val
<1> QED BY <1>2, <1>3, <1>5, <1>6, <1>9, <1>12

\* An event keeps what is known about a bit that is asked for and not yet seen.
LEMMA EventKeeps ==
  ASSUME CalcInv, Evaluated, Derived, UNCHANGED svfVars, Event, NEW r, NEW T, target = T, r \in clear,
         NEW b \in Pats, b \notin seen', Simulating(r, T, b),
         \A t \in T : obs[t] = Observability(t)
  PROVE  Simulating(r, T, b)'
<1>1. SimOK /\ UNCHANGED <<netVars, svfVars, gval>> /\ net.out \subseteq Nodes /\ Inputs \subseteq Nodes
  BY DEF CalcInv, Context, Event, SimOK, IsNet, Nodes, Inputs
<1>2. PICK n : n = First(eq)
  OBVIOUS
<1>3. PICK d : d = Diff(n)
  OBVIOUS
<1>4. /\ n \in Logic /\ n \in Nodes /\ n \notin clear /\ n \in eq.inQueue
      /\ fval[n] = gval[n] /\ \A m \in Nodes \ {n} : fval'[m] = fval[m]
      /\ \A c : c \in fval'[n] <=> ~(c \in gval[n] <=> c \in d)
      /\ \A c \in Pats : c \in d <=> c \notin seen /\ ~(c \in gval[n] <=> c \in Val(n, fval))
      /\ eq.inQueue \ {n} \subseteq eq'.inQueue
      /\ d # {} /\ n \notin target /\ n \notin net.out => sim.fanout[n] \subseteq eq'.inQueue
  BY <1>2, <1>3, EventEffect
<1>5. b \notin seen /\ b \notin Found(n, d)
  BY <1>2, <1>3 DEF Event
<1>6. /\ r \in Nodes \ net.out /\ T \subseteq Nodes /\ (T # {} => CvfRuns /\ Cuts(r, T, {}))
      /\ b \in fval[r] <=> b \notin gval[r]
      /\ \A m \in Inputs \ {r} : ~Toggled(m, b)
      /\ \A m \in Logic \ ({r} \cup eq.inQueue) :
           \/ \E i \in DOMAIN net.fanin[m] : net.fanin[m][i] \in T /\ Toggled(net.fanin[m][i], b)
           \/ b \in fval[m] <=> b \in Val(m, fval)
      /\ \A o \in net.out : ~Toggled(o, b)
      /\ \A t \in T : Toggled(t, b) => b \notin Observability(t)
  BY DEF Simulating
<1>7. r # n
  BY <1>4
<1>8. b \in d => n \notin net.out
  <2> SUFFICES ASSUME b \in d, n \in net.out PROVE FALSE
    OBVIOUS
  <2>1. n \in T
    BY <1>5 DEF Found, IsOutput
  <2>2. Observability(n) = Pats
    BY <1>1, <1>4, ObservabilityFacts
  <2> QED BY <1>5, <2>1, <2>2 DEF Found
<1>9. b \in d /\ n \in T => b \notin Observability(n)
  BY <1>5 DEF Found
<1>10. b \in fval'[n] <=> b \in Val(n, fval)
  BY <1>4, <1>5
<1>11. b \in fval'[r] <=> b \notin gval[r]
  BY <1>4, <1>6, <1>7
<1>12. \A m \in Inputs \ {r} : b \in fval'[m] <=> b \in gval[m]
  BY <1>1, <1>4, <1>6 DEF Toggled, Logic
<1>13. \A o \in net.out : b \in fval'[o] <=> b \in gval[o]
  BY <1>1, <1>4, <1>6, <1>8 DEF Toggled
<1>14. \A t \in T : ~(b \in fval'[t] <=> b \in gval[t]) => b \notin Observability(t)
  BY <1>4, <1>6, <1>9 DEF Toggled
<1>15. ASSUME NEW m \in Logic \ ({r} \cup eq'.inQueue)
       PROVE  \/ \E i \in DOMAIN net.fanin[m] : /\ net.fanin[m][i] \in T
                                                /\ ~(b \in fval'[net.fanin[m][i]] <=> b \in gval[net.fanin[m][i]])
              \/ b \in fval'[m] <=> b \in Val(m, fval')
  <2>1. /\ m \in Nodes
        /\ \A i \in DOMAIN net.fanin[m] : /\ net.fanin[m][i] \in Nodes /\ net.fanin[m][i] # m
                                          /\ m \in sim.fanout[net.fanin[m][i]]
    <3>1. m \in Logic /\ m \in Nat
      BY <1>1, SimFacts
    <3>2. \A i \in DOMAIN net.fanin[m] : /\ net.fanin[m][i] \in Nodes /\ net.fanin[m][i] < m
                                         /\ m \in sim.fanout[net.fanin[m][i]]
      BY <1>1, <3>1, GateFacts
    <3>3. \A k \in Nodes : k < m => k # m
      BY <1>1, <3>1, SimFacts
    <3> QED BY <1>1, <3>1, <3>2, <3>3, SimFacts
  <2>2. \A v, w : (\A i \in DOMAIN net.fanin[m] : b \in v[net.fanin[m][i]] <=> b \in w[net.fanin[m][i]])
                    => (b \in Val(m, v) <=> b \in Val(m, w))
    BY <1>1, ValLocal
  <2>3. CASE m = n
    <3>1. \A i \in DOMAIN net.fanin[m] : b \in fval'[net.fanin[m][i]] <=> b \in fval[net.fanin[m][i]]
      BY <1>4, <2>1, <2>3
    <3>2. b \in Val(m, fval') <=> b \in Val(m, fval)
      BY <2>2, <3>1
    <3> QED BY <1>10, <2>3, <3>2
  <2>4. CASE m # n
    <3>1. m \notin eq.inQueue
      BY <1>4, <2>4
    <3>2. CASE \E i \in DOMAIN net.fanin[m] : net.fanin[m][i] \in T /\ Toggled(net.fanin[m][i], b)
      <4>1. PICK i \in DOMAIN net.fanin[m] : net.fanin[m][i] \in T /\ Toggled(net.fanin[m][i], b)
        BY <3>2
      <4>2. net.fanin[m][i] # n
        BY <1>4, <4>1 DEF Toggled
      <4>3. fval'[net.fanin[m][i]] = fval[net.fanin[m][i]]
        BY <1>4, <2>1, <4>2
      <4> QED BY <4>1, <4>3 DEF Toggled
    <3>3. CASE b \in fval[m] <=> b \in Val(m, fval)
      <4>1. CASE \A i \in DOMAIN net.fanin[m] : net.fanin[m][i] # n \/ b \notin d
        <5>1. \A i \in DOMAIN net.fanin[m] : b \in fval'[net.fanin[m][i]] <=> b \in fval[net.fanin[m][i]]
          BY <1>4, <2>1, <4>1
        <5>2. b \in Val(m, fval') <=> b \in Val(m, fval)
          BY <2>2, <5>1
        <5> QED BY <1>4, <2>1, <2>4, <3>3, <5>2
      <4>2. CASE \E i \in DOMAIN net.fanin[m] : net.fanin[m][i] = n /\ b \in d
        <5>1. PICK i \in DOMAIN net.fanin[m] : net.fanin[m][i] = n /\ b \in d
          BY <4>2
        <5>2. m \in sim.fanout[n] /\ d # {} /\ n \notin net.out
          BY <1>8, <2>1, <5>1
        <5>3. n \in T
          BY <1>4, <5>2
        <5>4. ~(b \in fval'[n] <=> b \in gval[n])
          BY <1>4, <5>1
        <5> QED BY <5>1, <5>3, <5>4
      <4> QED BY <4>1, <4>2
    <3> QED BY <1>6, <3>1, <3>2, <3>3
  <2> QED BY <2>3, <2>4
<1> QED BY <1>1, <1>6, <1>11, <1>12, <1>13, <1>14, <1>15, SimulatingNext

\* A bit that becomes seen at the node is one a change of r is seen at.
LEMMA FoundRight ==
  ASSUME CalcInv, Evaluated, Derived, UNCHANGED svfVars, Event, NEW r, NEW T, target = T, r \in clear,
         NEW n, n = First(eq), NEW d, d = Diff(n), NEW b \in Pats, b \in Found(n, d), Simulating(r, T, b),
         \A t \in T : obs[t] = Observability(t),
         mode # "none" => \A m \in eq.inQueue : Outside(T)[m] = {},
         mode = "none" => T = {}
  PROVE  b \in Observability(r)
<1>1. SimOK /\ Evaluated
  BY DEF CalcInv, Context
<1>2. /\ n \in Logic /\ n \in Nodes /\ n \notin clear /\ n \in eq.inQueue
      /\ \A m \in eq.inQueue : sim.level[n] <= sim.level[m]
      /\ \A c \in Pats : c \in d <=> c \notin seen /\ ~(c \in gval[n] <=> c \in Val(n, fval))
  BY EventEffect
<1>3. b \in d /\ (n \in T \/ n \in net.out)
  BY DEF Found, IsOutput
<1>4. r \in Nodes \ net.out /\ T \subseteq Nodes /\ (T # {} => CvfRuns /\ Cuts(r, T, {})) /\ n \in Logic \ {r}
  BY <1>2 DEF Simulating
<1>5. CASE n \in T
  <2>1. b \in Observability(n) /\ CvfRuns /\ Cuts(r, T, {})
    BY <1>4, <1>5 DEF Found
  <2>2. sim.mark[n] # {}
    BY <1>1, <1>2, <2>1, NoMark
  <2>3. b \in Val(n, fval) <=> b \in Flipped(r)[n]
    BY <1>1, <1>2, <1>4, <1>5, <2>2, RightEvent
  <2>4. Differs(r, n, b)
    BY <1>2, <1>3, <2>3 DEF Differs
  <2> QED BY <1>1, <1>4, <1>5, <2>1, <2>4, ThroughTheCut
<1>6. CASE n \notin T
  <2>1. n \in net.out
    BY <1>3, <1>6
  <2>2. Outside(T)[n] = {n}
    BY <1>1, <1>2, <1>6, <2>1, OutsideFacts DEF IsOutput
  <2>3. T = {}
    BY <1>2, <2>2
  <2>4. b \in Val(n, fval) <=> b \in Flipped(r)[n]
    BY <1>1, <1>2, <1>4, <2>3, RightEvent
  <2>5. Differs(r, n, b)
    BY <1>2, <1>3, <2>4 DEF Differs
  <2> QED BY <1>1, <1>4, <2>1, <2>5, ObservabilityFacts
<1> QED BY <1>5, <1>6

\* Only bits that are asked for are toggled.
LEMMA EventAsked ==
  ASSUME CalcInv, Evaluated, Derived, UNCHANGED svfVars, Event, NEW n, n = First(eq), NEW d, d = Diff(n),
         NEW b \in Pats, \A m \in Nodes : ~Toggled(m, b)
  PROVE  b \notin d
<1>1. SimOK
  BY DEF CalcInv, Context
<1>2. /\ n \in Logic /\ n \in Nodes
      /\ \A c \in Pats : c \in d <=> c \notin seen /\ ~(c \in gval[n] <=> c \in Val(n, fval))
  BY EventEffect
<1>3. b \in Val(n, fval) <=> b \in Val(n, gval)
  <2>1. \A i \in DOMAIN net.fanin[n] : b \in fval[net.fanin[n][i]] <=> b \in gval[net.fanin[n][i]]
    BY <1>1, <1>2, GateFacts DEF Toggled
  <2> QED BY <1>1, <1>2, <2>1, ValLocal
<1>4. gval[n] = Val(n, gval)
  BY <1>2 DEF Evaluated
<1> QED BY <1>2, <1>3, <1>4

\* An event keeps the invariant.
LEMMA EventExact ==
  ASSUME CalcInv, ValuesInv, Derived, DssInv, ExactInv, UNCHANGED svfVars, Event
  PROVE  ExactInv'
<1>1. /\ SimOK /\ CvfTypeOK /\ pc = "sim" /\ op = "exact" /\ todo # <<>> /\ Descending(todo)
      /\ target = dss[Head(todo)] /\ Head(todo) \in clear /\ Evaluated
      /\ clear \subseteq Logic \cup {Head(todo)}
  BY DEF CalcInv, Context, Control, Event, ValuesInv, ExactInv
<1>2. PICK r : r = Head(todo)
  OBVIOUS
<1>3. PICK T : T = dss[r]
  OBVIOUS
<1>4. PICK n : n = First(eq)
  OBVIOUS
<1>5. PICK d : d = Diff(n)
  OBVIOUS
<1>6. /\ clear' = Cleared(n, d) /\ seen' = seen \cup Found(n, d)
      /\ UNCHANGED <<netVars, dssVars, todo, pc, op, gval, obs, target>>
  BY <1>4, <1>5 DEF Event
<1>7. /\ UNCHANGED <<netVars, svfVars, gval>> /\ Nodes' = Nodes /\ Logic' = Logic /\ Roots' = Roots
      /\ Settled' = Settled /\ sim' = sim /\ net' = net /\ mode' = mode /\ dss' = dss
  BY <1>6, SameNet DEF netVars, dssVars
<1>8. /\ r \in Roots /\ r \in Nodes /\ T \subseteq Nodes
      /\ mode # "none" => CvfRuns /\ Cuts(r, T, {})
      /\ mode = "none" => T = {}
      /\ Known => \A t \in T : obs[t] = Observability(t)
      /\ Request(r) \subseteq Pats
  BY <1>1, <1>2, <1>3, RegionTargets
<1>9. /\ n \in Logic /\ n \in Nodes /\ n \notin clear /\ n \in eq.inQueue
      /\ fval[n] = gval[n] /\ \A m \in Nodes \ {n} : fval'[m] = fval[m]
      /\ \A b : b \in fval'[n] <=> ~(b \in gval[n] <=> b \in d)
      /\ d \subseteq Pats
      /\ eq'.inQueue \subseteq (eq.inQueue \ {n}) \cup (IF n \in target \/ n \in net.out THEN {} ELSE sim.fanout[n])
  BY <1>1, <1>4, <1>5, EventEffect
<1>10. clear' \subseteq Logic' \cup {Head(todo')}
  BY <1>1, <1>6, <1>7, <1>9 DEF Cleared
<1>11. Equal' => Equal
  <2>1. \A m \in Nodes \ Settled : m # n
    BY <1>1, <1>9, SettledFacts
  <2> QED BY <1>6, <1>7, <1>9, <2>1 DEF Equal
<1>12. \A k : Observability(k)' = Observability(k)
  BY <1>7, SameValues
<1>13. Known => Known'
  BY <1>6, <1>7, <1>12 DEF Known
<1>14. ASSUME Known, Simulated(r) PROVE Simulated(r)'
  <2>1. /\ r \notin net.out /\ seen \subseteq Observability(r)
        /\ \A m \in Nodes, b \in Pats : Toggled(m, b) => b \in Request(r)
        /\ \A b \in Request(r) \ seen : Simulating(r, T, b)
        /\ mode # "none" => \A m \in eq.inQueue : Outside(T)[m] = {}
    BY <1>3, <1>14 DEF Simulated
  <2>2. Request(r)' = Request(r) /\ T = dss'[r]
    BY <1>3, <1>6, <1>7 DEF Request
  <2>3. \A b \in d : b \in Request(r) \ seen
    <3> SUFFICES ASSUME NEW b \in d, b \notin Request(r) \ seen PROVE FALSE
      OBVIOUS
    <3>1. b \in Pats
      BY <1>9
    <3>2. b \notin seen
      BY <1>5 DEF Diff
    <3>3. \A m \in Nodes : ~Toggled(m, b)
      BY <2>1, <3>1, <3>2
    <3> QED BY <1>1, <1>4, <1>5, <3>1, <3>3, EventAsked
  <2>4. \A m \in Nodes, b \in Pats : Toggled(m, b)' => b \in Request(r)'
    BY <1>6, <1>7, <1>9, <2>1, <2>2, <2>3 DEF Toggled
  <2>5. seen' \subseteq Observability(r)'
    <3> SUFFICES ASSUME NEW b \in Found(n, d) PROVE b \in Observability(r)
      BY <1>6, <1>12, <2>1
    <3>1. b \in d
      BY DEF Found
    <3>2. b \in Pats /\ Simulating(r, T, b)
      BY <1>9, <2>1, <2>3, <3>1
    <3> QED BY <1>1, <1>2, <1>3, <1>4, <1>5, <1>8, <1>14, <2>1, <3>2, FoundRight
  <2>6. \A b \in Request(r)' \ seen' : Simulating(r, dss[r], b)'
    <3> SUFFICES ASSUME NEW b \in Request(r) \ seen' PROVE Simulating(r, dss[r], b)'
      BY <2>2
    <3>1. b \in Pats /\ b \notin seen /\ Simulating(r, T, b)
      BY <1>6, <1>8, <2>1
    <3>2. Simulating(r, T, b)'
      BY <1>1, <1>2, <1>3, <1>8, <1>14, <3>1, EventKeeps
    <3> QED BY <2>2, <3>2
  <2>7. mode # "none" => \A m \in eq'.inQueue : Outside(dss[r])'[m] = {}
    <3> SUFFICES ASSUME mode # "none", NEW h \in eq'.inQueue PROVE Outside(T)[h] = {}
      <4>1. Outside(T)' = Outside(T)
        BY <1>7, SameCuts
      <4> QED BY <2>2, <4>1
    <3>1. CASE h \in eq.inQueue
      BY <2>1, <3>1
    <3>2. CASE h \notin eq.inQueue
      <4>1. h \in sim.fanout[n] /\ n \notin T /\ n \notin net.out
        BY <1>1, <1>2, <1>3, <1>9, <3>2
      <4>2. Outside(T)[n] = UNION {Outside(T)[m] : m \in sim.fanout[n]}
        <5>1. n \in Nodes /\ n \notin T /\ ~IsOutput(n)
          BY <1>9, <4>1 DEF IsOutput
        <5>2. \A x \in Nodes : Outside(T)[x] = IF x \in T THEN {} ELSE IF IsOutput(x) THEN {x}
                                              ELSE UNION {Outside(T)[m] : m \in sim.fanout[x]}
          BY <1>1, OutsideFacts
        <5> QED BY <5>1, <5>2
      <4>3. Outside(T)[n] = {}
        BY <1>9, <2>1
      <4> QED BY <4>1, <4>2, <4>3
    <3> QED BY <3>1, <3>2
  <2> QED BY <1>7, <2>1, <2>4, <2>5, <2>6, <2>7 DEF Simulated
<1>15. Equal' => Known' /\ Simulated(Head(todo))'
  <2>1. Head(todo') = r
    BY <1>2, <1>6
  <2>2. Equal' => Known /\ Simulated(r)
    BY <1>1, <1>2, <1>11 DEF ExactInv
  <2> QED BY <1>13, <1>14, <2>1, <2>2
<1> QED BY <1>1, <1>6, <1>10, <1>15 DEF ExactInv, Descending

\* A region whose root is right is done.
LEMMA RegionDone ==
  ASSUME CalcInv, ValuesInv, Derived, op # "none", Descending(todo), Known, todo # <<>>,
         UNCHANGED <<netVars, svfVars, gval>>, todo' = Tail(todo),
         NEW r, r = Head(todo), obs' = Spread(r, Observability(r))
  PROVE  Known'
<1>1. /\ SimOK /\ CvfTypeOK /\ Evaluated /\ todo \in Seq(Roots) /\ Roots \subseteq Nodes
      /\ Roots \subseteq Nat
  BY SimFacts DEF CalcInv, Context, Control, ValuesInv
<1>2. r \in Roots /\ \A x \in ToSet(todo) : x = r \/ x \in ToSet(todo')
  BY <1>1, TailFacts
<1>3. Observability(r) \subseteq Pats
  BY <1>1, <1>2, ObservabilityFacts
<1>4. obs \in [Nodes -> SUBSET Pats]
  BY <1>1 DEF CvfTypeOK
<1>5. ASSUME NEW n \in Nodes, sim.root[n] \in Roots \ ToSet(todo') PROVE obs'[n] = Observability(n)
  <2>1. CASE sim.root[n] = r
    BY <1>1, <1>2, <1>4, <2>1, SpreadRight
  <2>2. CASE sim.root[n] # r
    <3>1. obs'[n] = obs[n]
      BY <1>1, <1>2, <1>3, <1>4, <2>2, SpreadType
    <3> QED BY <1>2, <1>5, <2>2, <3>1 DEF Known
  <2> QED BY <2>1, <2>2
<1>6. sim' = sim /\ Nodes' = Nodes /\ Roots' = Roots /\ \A n : Observability(n)' = Observability(n)
  BY SameNet, SameValues
<1> QED BY <1>5, <1>6 DEF Known

\* A region whose root is an output.
LEMMA OutputExact ==
  ASSUME CalcInv, ValuesInv, Derived, ExactInv, UNCHANGED svfVars, FfrOutput
  PROVE  ExactInv'
<1>1. /\ pc = "ffr" /\ op = "exact" /\ todo # <<>> /\ Head(todo) \in net.out /\ SimOK /\ Evaluated
      /\ todo \in Seq(Roots) /\ Roots \subseteq Nodes /\ Roots \subseteq Nat /\ Descending(todo)
  BY SimFacts DEF CalcInv, Context, Control, FfrOutput, IsOutput, ValuesInv, ExactInv
<1>2. /\ obs' = Spread(Head(todo), Pats) /\ todo' = Tail(todo)
      /\ UNCHANGED <<netVars, svfVars, gval, fval, pc, op>>
  BY DEF FfrOutput
<1>3. Head(todo) \in Nodes /\ Descending(todo')
  BY <1>1, <1>2, TailFacts
<1>4. Observability(Head(todo)) = Pats
  BY <1>1, <1>3, ObservabilityFacts
<1>5. Equal' => Equal
  BY <1>2, SameNet DEF Equal
<1>6. Equal => Known
  BY <1>1 DEF ExactInv
<1>7. Known => Known'
  BY <1>1, <1>2, <1>4, RegionDone
<1> QED BY <1>1, <1>2, <1>3, <1>5, <1>6, <1>7 DEF ExactInv

\* The end of a simulation: what was seen is the observability of the root.
LEMMA EndExactInv ==
  ASSUME CalcInv, ValuesInv, Derived, DssInv, ExactInv, UNCHANGED svfVars, FfrEnd
  PROVE  ExactInv'
<1>1. /\ pc = "sim" /\ op = "exact" /\ todo # <<>> /\ SimOK /\ Evaluated
      /\ todo \in Seq(Roots) /\ Roots \subseteq Nodes /\ Roots \subseteq Nat /\ Descending(todo)
      /\ eq.mNum = 0 /\ clear \subseteq Logic \cup {Head(todo)} /\ CvfTypeOK
  BY SimFacts DEF CalcInv, Context, Control, FfrEnd, ValuesInv, ExactInv
<1>2. /\ obs' = Spread(Head(todo), seen) /\ todo' = Tail(todo) /\ fval' = Restored(clear)
      /\ UNCHANGED <<netVars, svfVars, gval, op>> /\ pc' = "ffr"
  BY DEF FfrEnd
<1>3. Descending(todo')
  BY <1>1, <1>2, TailFacts
<1>4. eq.inQueue = {}
  BY <1>1, EmptyQueue DEF CalcInv, Context
<1>5. PICK r : r = Head(todo)
  OBVIOUS
<1>6. /\ r \in Roots /\ r \in Nodes /\ dss[r] \subseteq Nodes
      /\ mode # "none" => CvfRuns /\ Cuts(r, dss[r], {})
      /\ mode = "none" => dss[r] = {}
      /\ Known => \A t \in dss[r] : obs[t] = Observability(t)
  BY <1>1, <1>5, RegionTargets
<1>7. Equal' => Equal
  <2>1. \A n \in Nodes \ Settled : n \notin clear
    BY <1>1, <1>5, <1>6, SettledFacts
  <2>2. \A n \in Nodes \ Settled : fval'[n] = fval[n]
    BY <1>2, <2>1 DEF Restored
  <2> QED BY <1>2, <2>2, SameNet DEF Equal
<1>8. ASSUME Equal PROVE Known /\ seen = Observability(r)
  <2>1. Known /\ Simulated(r)
    BY <1>1, <1>5, <1>8 DEF ExactInv
  <2>2. r \notin net.out /\ seen \subseteq Observability(r)
    BY <2>1 DEF Simulated
  <2>3. ASSUME NEW b \in Observability(r), b \notin seen PROVE FALSE
    <3>1. b \in Pats
      BY <1>1, <1>6, ObservabilityFacts
    <3>2. b \in Request(r)
      <4>1. CASE dss[r] = {}
        BY <3>1, <4>1 DEF Request
      <4>2. CASE dss[r] # {}
        <5>1. CvfRuns /\ Cuts(r, dss[r], {})
          BY <1>6, <4>2
        <5>2. PICK o \in net.out : Differs(r, o, b)
          BY <1>1, <1>6, <2>3, <3>1, ObservabilityFacts
        <5>3. PICK t \in dss[r] : b \in Observability(t)
          BY <1>1, <1>6, <2>2, <3>1, <5>1, <5>2, ThroughTheCut
        <5>4. b \in obs[t]
          BY <1>6, <2>1, <5>3
        <5> QED BY <4>2, <5>4 DEF Request
      <4> QED BY <4>1, <4>2
    <3>3. Simulating(r, dss[r], b)
      BY <2>1, <2>3, <3>2 DEF Simulated
    <3> QED BY <1>1, <1>4, <2>3, <3>1, <3>3, NothingMissed
  <2> QED BY <2>1, <2>2, <2>3
<1>9. ASSUME Equal PROVE Known'
  <2>1. obs' = Spread(r, Observability(r))
    BY <1>2, <1>5, <1>8, <1>9
  <2> QED BY <1>1, <1>2, <1>5, <1>8, <1>9, <2>1, RegionDone
<1> QED BY <1>2, <1>3, <1>7, <1>9 DEF ExactInv

\* The start of a call: no region is done.
LEMMA CallExact ==
  ASSUME CalcInv, UNCHANGED svfVars, (CvfRuns /\ Call) \/ (~CvfRuns /\ SvfCall)
  PROVE  ExactInv'
<1>1. /\ UNCHANGED <<netVars, svfVars>> /\ pc' # "dss" /\ pc' # "sim"
      /\ op' = "exact" => todo' = RootSeq(sim) /\ pc' = "ffr"
  BY DEF Call, SvfCall, StartExact, CalcPseudoMin, StartMax, SvfExactCall, SvfPseudoMin, SvfMax
<1>2. SimOK /\ sim' = sim /\ Roots' = Roots
  BY <1>1, SameNet DEF CalcInv, Context
<1>3. /\ Descending(RootSeq(sim))
      /\ \A r \in Roots : r \in ToSet(RootSeq(sim))
  BY <1>2, RootSeqType DEF ToSet
<1>4. op' = "exact" => Known'
  BY <1>1, <1>2, <1>3 DEF Known
<1>5. op' = "exact" => Descending(todo')
  BY <1>1, <1>3
<1> QED BY <1>1, <1>4, <1>5 DEF ExactInv

\* The steps of calc_exact, and those of other calculations.
LEMMA WorkExact ==
  ASSUME CalcInv, ValuesInv, Derived, DssInv, ApproxInv, ExactInv, UNCHANGED svfVars, Work
  PROVE  ExactInv'
<1>1. UNCHANGED <<netVars, svfVars, gval>> /\ op' = op
  BY WorkKeeps
<1>2. CASE FfrStart
  BY <1>2, StartExactInv
<1>3. CASE Event
  BY <1>3, EventExact
<1>4. CASE FfrEnd
  BY <1>4, EndExactInv
<1>5. CASE FfrOutput
  BY <1>5, OutputExact
<1>6. CASE EndExact
  <2>1. /\ pc = "ffr" /\ todo = <<>> /\ pc' = "idle" /\ UNCHANGED <<todo, obs, fval>>
    BY <1>6 DEF EndExact
  <2>2. Known' <=> Known
    BY <1>1, <2>1, SameNet, SameValues DEF Known
  <2>3. Equal' <=> Equal
    BY <1>1, <2>1, SameNet DEF Equal
  <2> QED BY <1>1, <2>1, <2>2, <2>3 DEF ExactInv, Descending
<1>7. CASE DssDone \/ DssOld \/ DssLocal \/ DssGlobal
  <2>1. op = "none" /\ pc' # "sim"
    BY <1>7 DEF DssDone, DssOld, DssLocal, DssGlobal, DssStep, ExactInv
  <2> QED BY <1>1, <2>1 DEF ExactInv
<1>8. CASE (\E o \in Orders : MaxRound(o)) \/ EndMax
  <2>1. op = "max" /\ pc' \in {"max", "idle"}
    BY <1>8 DEF MaxRound, EndMax, ApproxInv
  <2> QED BY <1>1, <2>1 DEF ExactInv
<1> QED BY <1>2, <1>3, <1>4, <1>5, <1>6, <1>7, <1>8 DEF Work

\* A step that changes nothing.
LEMMA SameExact ==
  ASSUME ExactInv, UNCHANGED <<vars, svfVars>>
  PROVE  ExactInv'
<1>1. /\ UNCHANGED <<netVars, svfVars, gval>>
      /\ UNCHANGED <<pc, op, todo, clear, seen, fval, obs, eq, dss>>
  BY DEF vars, simVars, dssVars
<1>2. /\ Nodes' = Nodes /\ Logic' = Logic /\ Roots' = Roots /\ Inputs' = Inputs /\ Settled' = Settled
      /\ sim' = sim /\ mode' = mode /\ net' = net
  BY <1>1, SameNet DEF netVars
<1>3. Equal' <=> Equal
  BY <1>1, <1>2 DEF Equal
<1>4. Known' <=> Known
  BY <1>1, <1>2, SameValues DEF Known
<1>5. PICK r : r = Head(todo)
  OBVIOUS
<1>6. PICK T : T = dss[r]
  OBVIOUS
<1>7. Simulated(r) => Simulated(r)'
  <2>1. \A b : Simulating(r, T, b)' = Simulating(r, T, b)
    <3>1. CvfRuns' = CvfRuns /\ Cuts(r, T, {})' = Cuts(r, T, {}) /\ \A t : Observability(t)' = Observability(t)
      BY <1>1, SameCuts, SameValues DEF CvfRuns, svfVars
    <3> QED BY <1>1, <1>2, <3>1 DEF Simulating, Toggled, Val
  <2>2. Outside(T)' = Outside(T) /\ Observability(r)' = Observability(r)
    BY <1>1, SameCuts, SameValues
  <2>3. dss' = dss /\ Request(r)' = Request(r)
    BY <1>1 DEF Request
  <2>4. \A b : Simulating(r, dss[r], b) => Simulating(r, dss[r], b)'
    <3> SUFFICES ASSUME NEW b, Simulating(r, T, b) PROVE Simulating(r, dss[r], b)'
      BY <1>6
    <3>1. Simulating(r, T, b)' /\ T = dss'[r]
      BY <1>6, <2>1, <2>3
    <3> QED BY <3>1
  <2>5. Outside(dss[r])' = Outside(dss[r])
    <3>1. T = dss'[r]
      BY <1>6, <2>3
    <3> QED BY <1>6, <2>2, <3>1
  <2> QED BY <1>1, <1>2, <2>2, <2>3, <2>4, <2>5 DEF Simulated, Toggled
<1>8. Head(todo') = r
  BY <1>1, <1>5
<1>9. pc = "sim" /\ Simulated(Head(todo)) => Simulated(Head(todo))'
  BY <1>5, <1>7, <1>8
<1> QED BY <1>1, <1>2, <1>3, <1>4, <1>9 DEF ExactInv, Descending

\* Every call of calc_exact, of either program, keeps to it.
LEMMA ExactInvariance == CalcSpec => []ExactInv
<1>1. CalcInit => ExactInv
  BY DEF CalcInit, Init, SvfInit, ExactInv
<1>2. /\ CalcInv /\ ValuesInv /\ Derived /\ DssInv /\ ApproxInv /\ ExactInv
      /\ [CalcNext]_<<vars, svfVars>>
      => ExactInv'
  <2> SUFFICES ASSUME CalcInv, ValuesInv, Derived, DssInv, ApproxInv, ExactInv,
                      [CalcNext]_<<vars, svfVars>>
               PROVE  ExactInv'
    OBVIOUS
  <2>1. CASE UNCHANGED <<vars, svfVars>>
    BY <2>1, SameExact
  <2>2. CASE CalcNext
    <3>1. UNCHANGED svfVars /\ ((CvfRuns /\ Call) \/ (~CvfRuns /\ SvfCall) \/ Work)
      BY <2>2 DEF CalcNext, Next, SvfNext
    <3> QED BY <3>1, CallExact, WorkExact
  <2> QED BY <2>1, <2>2
<1> QED BY <1>1, <1>2, CalcInvariance, ValuesInvariance, DerivedInvariance, DssInvariance,
           ApproxInvariance, PTL DEF CalcSpec

\* For every network and any vectors, with the DSSs of either algorithm or with
\* none: calc_exact of CalcCvf gives every node what complementing it would show
\* at the outputs.
THEOREM CvfExactness == CalcSpec => []CvfExact
<1>1. CalcInv /\ Derived /\ ExactInv => CvfExact
  <2> SUFFICES ASSUME CalcInv, Derived, ExactInv, CvfRuns, pc = "idle", op = "exact", NEW n \in Nodes
               PROVE  obs[n] = Observability(n)
    BY DEF CvfExact, ExactIsObservability
  <2>1. SimOK /\ Equal /\ Known /\ todo = <<>>
    BY DEF CalcInv, Context, ExactInv, Equal, Settled
  <2>2. sim.root[n] \in Roots /\ ToSet(todo) = {}
    BY <2>1, RegionFacts DEF ToSet
  <2> QED BY <2>1, <2>2 DEF Known
<1> QED BY <1>1, CalcInvariance, DerivedInvariance, ExactInvariance, PTL
------------------------------------------------------------------------------
(***************************************************************************)
(* The copies of the sequential network compute what it does               *)
(***************************************************************************)
\* No two nodes get the same new number.
LEMMA MovedApart ==
  ASSUME NEW s, IsSeqNet(s), NEW m \in DOMAIN s.type \ FlipFlops(s), NEW n \in DOMAIN s.type \ FlipFlops(s),
         Moved(s, m) = Moved(s, n)
  PROVE  m = n
<1>1. /\ DOMAIN s.type = 1 .. Size(s) /\ Size(s) \in Nat /\ Cardinality(FlipFlops(s)) \in Nat
      /\ Moved(s, m) \in Nat /\ Moved(s, n) \in Nat
  <2>1. PerFrame(s) \in Nat /\ Moved(s, m) \in 1 .. PerFrame(s) /\ Moved(s, n) \in 1 .. PerFrame(s)
    BY MovedFacts
  <2> QED BY <2>1, MovedFacts
<1>2. m \in Nat /\ n \in Nat
  BY <1>1
<1>3. CASE s.type[m] = "input" /\ s.type[n] = "input"
  <2>1. m \in TrueInputs(s) /\ n \in TrueInputs(s)
    BY <1>3 DEF TrueInputs
  <2> QED BY <2>1 DEF Moved
<1>4. CASE s.type[m] # "input" /\ s.type[n] # "input"
  <2>1. m \notin TrueInputs(s) /\ n \notin TrueInputs(s)
    BY <1>4 DEF TrueInputs
  <2>2. m - Cardinality(FlipFlops(s)) = n - Cardinality(FlipFlops(s))
    BY <2>1 DEF Moved
  <2> QED BY <1>1, <1>2, <2>2
\* A gate and an input.
<1>5. ASSUME NEW g \in DOMAIN s.type \ FlipFlops(s), NEW i \in DOMAIN s.type \ FlipFlops(s),
             s.type[g] # "input", s.type[i] = "input"
      PROVE  Moved(s, g) # Moved(s, i)
  <2>1. i \in TrueInputs(s) /\ g \notin TrueInputs(s) /\ g \in Nat /\ i \in Nat
    BY <1>1, <1>5 DEF TrueInputs
  <2>2. CASE i < g
    <3>1. Moved(s, i) < Moved(s, g)
      BY <1>5, <2>2, MovedFacts
    <3>2. PerFrame(s) \in Nat /\ Moved(s, g) \in 1 .. PerFrame(s)
      BY MovedFacts
    <3>3. Moved(s, g) \in Nat /\ Moved(s, i) = i
      BY <2>1, <3>2 DEF Moved
    <3> QED BY <2>1, <3>1, <3>3
  <2>3. CASE g < i
    <3>1. FlipFlops(s) = {}
      <4> SUFFICES ASSUME NEW f \in FlipFlops(s) PROVE FALSE
        OBVIOUS
      <4>1. i < f /\ f < g /\ f \in 1 .. Size(s)
        BY <1>1, <1>5, <2>1 DEF IsSeqNet
      <4> QED BY <1>1, <2>1, <2>3, <4>1
    <3>2. Cardinality(FlipFlops(s)) = 0
      BY <3>1, FS_EmptySet
    <3>3. Moved(s, g) = g /\ Moved(s, i) = i
      BY <2>1, <3>2 DEF Moved
    <3> QED BY <2>1, <2>3, <3>3
  <2>4. g # i
    BY <1>5
  <2> QED BY <2>1, <2>2, <2>3, <2>4
<1> QED BY <1>3, <1>4, <1>5

\* The copy of a node in a frame is made for it, but for a flip-flop's in a later
\* frame.
LEMMA OriginOfCopy ==
  ASSUME NEW s, IsSeqNet(s), NEW tf \in Nat \ {0}, NEW t \in 0 .. tf - 1, NEW m \in DOMAIN s.type,
         t = 0 \/ m \notin FlipFlops(s)
  PROVE  /\ At(s, m, t) \in 1 .. Size(s) + PerFrame(s) * (tf - 1)
         /\ Origin(s, At(s, m, t)) = <<m, t>>
         /\ t # 0 => Size(s) < At(s, m, t)
<1>1. /\ Size(s) \in Nat /\ PerFrame(s) \in Nat /\ DOMAIN s.type = 1 .. Size(s) /\ t \in Nat
      /\ tf - 1 \in Nat /\ t <= tf - 1
  BY MovedFacts
<1>2. PICK k : k = At(s, m, t)
  OBVIOUS
<1>3. k \in 1 .. Size(s) + PerFrame(s) * (tf - 1)
  <2>1. k \in 1 .. Size(s) + PerFrame(s) * t
    BY <1>1, <1>2, AtFacts
  <2>2. PerFrame(s) * t <= PerFrame(s) * (tf - 1) /\ PerFrame(s) * t \in Nat /\ PerFrame(s) * (tf - 1) \in Nat
    BY <1>1, FrameSize
  <2> QED BY <1>1, <2>1, <2>2
<1>4. CASE t = 0
  <2>1. k = m
    BY <1>2, <1>4, AtFacts
  <2>2. k <= Size(s)
    BY <1>1, <2>1
  <2> QED BY <1>2, <1>3, <1>4, <2>1, <2>2, OriginFacts
<1>5. CASE t # 0
  <2>1. m \notin FlipFlops(s)
    BY <1>5
  <2>2. /\ k = Size(s) + PerFrame(s) * (t - 1) + Moved(s, m) /\ Moved(s, m) \in 1 .. PerFrame(s)
        /\ t - 1 \in Nat /\ PerFrame(s) * (t - 1) \in Nat
    BY <1>1, <1>2, <1>5, <2>1, AtFacts, MovedFacts, FrameSize
  <2>3. Size(s) < k
    BY <1>1, <2>2
  <2>4. PICK j, u : j = Origin(s, k)[1] /\ u = Origin(s, k)[2]
    OBVIOUS
  <2>5. /\ j \in DOMAIN s.type /\ u \in 0 .. tf - 1 /\ (u # 0 => j \notin FlipFlops(s))
        /\ At(s, j, u) = k
    BY <1>3, <2>4, OriginFacts
  <2>6. u \in Nat /\ u # 0
    <3>1. u = 0 => k = j
      BY <2>5, AtFacts
    <3>2. k # j
      BY <1>1, <2>3, <2>5
    <3> QED BY <1>1, <2>5, <3>1, <3>2
  <2>7. /\ k = Size(s) + PerFrame(s) * (u - 1) + Moved(s, j) /\ Moved(s, j) \in 1 .. PerFrame(s)
        /\ u - 1 \in Nat /\ PerFrame(s) * (u - 1) \in Nat
    BY <1>1, <2>5, <2>6, AtFacts, MovedFacts, FrameSize
  <2>8. u = t
    <3>1. ASSUME NEW a \in Nat \ {0}, NEW b \in Nat \ {0}, a < b
          PROVE  PerFrame(s) * (a - 1) + PerFrame(s) <= PerFrame(s) * (b - 1)
      <4>1. b - 1 \in Nat /\ a <= b - 1
        BY <3>1
      <4>2. PerFrame(s) * a <= PerFrame(s) * (b - 1) /\ PerFrame(s) * a = PerFrame(s) * (a - 1) + PerFrame(s)
        BY <1>1, <4>1, FrameSize
      <4> QED BY <4>2
    <3>2. ASSUME NEW S \in Nat, NEW P \in Nat, NEW x \in Nat, NEW y \in Nat, NEW a \in 1 .. P, NEW b \in 1 .. P,
                 S + x + a = S + y + b, x + P <= y
          PROVE  FALSE
      BY <3>2
    <3>3. PICK x \in Nat, y \in Nat : x = PerFrame(s) * (t - 1) /\ y = PerFrame(s) * (u - 1)
      BY <2>2, <2>7
    <3>4. k = Size(s) + x + Moved(s, m) /\ k = Size(s) + y + Moved(s, j)
      BY <2>2, <2>7, <3>3
    <3>5. ~(t < u)
      <4> SUFFICES ASSUME t < u PROVE FALSE
        OBVIOUS
      <4>1. x + PerFrame(s) <= y
        BY <1>1, <1>5, <2>6, <3>1, <3>3
      <4> QED BY <1>1, <2>2, <2>7, <3>2, <3>4, <4>1
    <3>6. ~(u < t)
      <4> SUFFICES ASSUME u < t PROVE FALSE
        OBVIOUS
      <4>1. y + PerFrame(s) <= x
        BY <1>1, <1>5, <2>6, <3>1, <3>3
      <4> QED BY <1>1, <2>2, <2>7, <3>2, <3>4, <4>1
    <3> QED BY <1>1, <2>6, <3>5, <3>6
  <2>9. Moved(s, j) = Moved(s, m)
    <3>1. Moved(s, j) \in Nat /\ Moved(s, m) \in Nat
      BY <1>1, <2>2, <2>7
    <3>2. Size(s) + PerFrame(s) * (t - 1) \in Nat
      BY <1>1, <2>2
    <3> QED BY <2>2, <2>7, <2>8, <3>1, <3>2
  <2>10. j = m
    BY <2>1, <2>5, <2>6, <2>9, MovedApart
  <2>11. Origin(s, k) = <<j, u>>
    <3>1. ~(k <= Size(s))
      BY <1>1, <2>3, <1>3
    <3>2. \E a, b : Origin(s, k) = <<a, b>>
      BY <3>1 DEF Origin
    <3> QED BY <2>4, <3>2
  <2> QED BY <1>2, <1>3, <1>5, <2>3, <2>8, <2>10, <2>11
<1> QED BY <1>1, <1>4, <1>5

\* The copies.
LEMMA UnrollNodes ==
  ASSUME ~CvfRuns, Derived
  PROVE  Nodes = 1 .. Size(seq) + PerFrame(seq) * (frames - 1)
<1> DEFINE N == Size(seq) + PerFrame(seq) * (frames - 1)
<1>1. net.type = [h \in 1 .. N |-> seq.type[Origin(seq, h)[1]]]
  BY SvfDerived DEF Unroll
<1> HIDE DEF N
<1>2. Nodes = 1 .. N
  BY <1>1 DEF Nodes
<1> QED BY <1>2 DEF N

\* The node a copy was made for says what it is.
LEMMA CopyFacts ==
  ASSUME SimOK, Derived, ~CvfRuns, NEW t \in 0 .. frames - 1, NEW m \in DOMAIN seq.type,
         t = 0 \/ m \notin FlipFlops(seq), NEW k, k = At(seq, m, t)
  PROVE  /\ k \in Nodes /\ (t = 0 => k = m) /\ (t # 0 => Size(seq) < k)
         /\ net.type[k] = seq.type[m]
         /\ net.fanin[k] = [i \in DOMAIN seq.fanin[m] |-> At(seq, seq.fanin[m][i], t)]
<1>1. IsSeqNet(seq) /\ frames \in Nat \ {0} /\ net = Unroll(seq, frames)
  BY SvfDerived
<1> DEFINE N == Size(seq) + PerFrame(seq) * (frames - 1)
<1>0. net.type = [h \in 1 .. N |-> seq.type[Origin(seq, h)[1]]]
  BY <1>1 DEF Unroll
<1> HIDE DEF N
<1>2. Nodes = 1 .. N
  BY <1>0 DEF Nodes
<1>3. k \in Nodes /\ Origin(seq, k) = <<m, t>> /\ (t # 0 => Size(seq) < k)
  BY <1>1, <1>2, OriginOfCopy DEF N
<1>4. t = 0 => k = m
  BY <1>1, AtFacts
<1>5. net.type[k] = seq.type[m]
  BY <1>0, <1>2, <1>3
<1>6. net.fanin[k] = [i \in DOMAIN seq.fanin[Origin(seq, k)[1]] |->
                        At(seq, seq.fanin[Origin(seq, k)[1]][i], Origin(seq, k)[2])]
  BY <1>1, <1>2, <1>3 DEF Unroll, N
<1> QED BY <1>3, <1>4, <1>5, <1>6

\* What Run gives node m in frame t, and its body.
RunGood(val, t, m) ==
  IF m \in TrueInputs(seq) THEN gval[At(seq, m, t)]
  ELSE IF m \in FlipFlops(seq) THEN IF t = 0 THEN gval[m] ELSE val[<<t - 1, seq.ff[m]>>]
  ELSE Output(seq.type[m], [i \in DOMAIN seq.fanin[m] |-> val[<<t, seq.fanin[m][i]>>]])
RunBody(n, val) ==
  [p \in (0 .. frames - 1) \X (DOMAIN seq.type) |->
     IF p[1] = 0 /\ p[2] = n THEN Pats \ RunGood(val, p[1], p[2]) ELSE RunGood(val, p[1], p[2])]

\* The values of the copies satisfy it.
LEMMA CopiesRun ==
  ASSUME SimOK, Derived, ~CvfRuns, NEW n, n \in (DOMAIN seq.type) \cup {0}, NEW v, v = Through(gval, n, v),
         NEW val, val = [p \in (0 .. frames - 1) \X (DOMAIN seq.type) |-> v[At(seq, p[2], p[1])]]
  PROVE  val = RunBody(n, val)
<1> DEFINE D == (0 .. frames - 1) \X (DOMAIN seq.type)
<1>1. /\ IsSeqNet(seq) /\ frames \in Nat \ {0} /\ DOMAIN seq.type = 1 .. Size(seq) /\ Size(seq) \in Nat
      /\ Nodes \subseteq Nat
  BY SvfDerived, MovedFacts, SimFacts
<1>2. ASSUME NEW t \in 0 .. frames - 1, NEW m \in DOMAIN seq.type
      PROVE  val[<<t, m>>] = RunBody(n, val)[<<t, m>>]
  <2>1. RunBody(n, val)[<<t, m>>] = IF t = 0 /\ m = n THEN Pats \ RunGood(val, t, m) ELSE RunGood(val, t, m)
    BY DEF RunBody
  <2>2. val[<<t, m>>] = v[At(seq, m, t)]
    OBVIOUS
  <2>3. CASE m \in FlipFlops(seq) /\ t # 0
    <3>1. t \in Nat /\ t - 1 \in 0 .. frames - 1
      BY <1>1, <2>3
    <3>2. /\ m \in FlipFlops(seq) /\ m \notin TrueInputs(seq)
          /\ seq.ff[m] \in DOMAIN seq.type /\ At(seq, m, t) = At(seq, seq.ff[m], t - 1)
      BY <1>1, <2>3, <3>1, FlipFlopCopies DEF TrueInputs
    <3>3. val[<<t - 1, seq.ff[m]>>] = v[At(seq, seq.ff[m], t - 1)]
      BY <3>1, <3>2
    <3> QED BY <2>1, <2>2, <2>3, <3>2, <3>3 DEF RunGood
  <2>4. CASE m \notin FlipFlops(seq) \/ t = 0
    <3>1. PICK k : k = At(seq, m, t)
      OBVIOUS
    <3>2. /\ k \in Nodes /\ (t = 0 => k = m) /\ (t # 0 => Size(seq) < k)
          /\ net.type[k] = seq.type[m]
          /\ net.fanin[k] = [i \in DOMAIN seq.fanin[m] |-> At(seq, seq.fanin[m][i], t)]
      BY <2>4, <3>1, CopyFacts
    <3>3. k = n <=> t = 0 /\ m = n
      <4>1. t # 0 => k # n
        BY <1>1, <3>2
      <4> QED BY <3>2, <4>1
    <3>4. v[k] = LET g == IF IsInput(k) THEN gval[k] ELSE Val(k, v) IN IF k = n THEN Pats \ g ELSE g
      BY <3>2 DEF Through
    <3>5. CASE m \in TrueInputs(seq)
      <4>1. IsInput(k)
        BY <3>2, <3>5 DEF IsInput, TrueInputs
      <4> QED BY <2>1, <2>2, <3>1, <3>3, <3>4, <3>5, <4>1 DEF RunGood
    <3>6. CASE m \in FlipFlops(seq)
      <4>1. t = 0 /\ k = m /\ m \notin TrueInputs(seq) /\ IsInput(k)
        BY <1>1, <2>4, <3>2, <3>6 DEF IsInput, TrueInputs, IsSeqNet
      <4> QED BY <2>1, <2>2, <3>1, <3>3, <3>4, <3>6, <4>1 DEF RunGood
    <3>7. CASE m \notin TrueInputs(seq) /\ m \notin FlipFlops(seq)
      <4>1. seq.type[m] # "input" /\ ~IsInput(k)
        BY <3>2, <3>7 DEF IsInput, TrueInputs
      <4>2. \A i \in DOMAIN seq.fanin[m] : seq.fanin[m][i] \in DOMAIN seq.type
        <5>1. IsNet(seq)
          BY <1>1 DEF IsSeqNet
        <5> QED BY <5>1, NetFacts
      <4>3. [i \in DOMAIN seq.fanin[m] |-> val[<<t, seq.fanin[m][i]>>]]
              = [i \in DOMAIN net.fanin[k] |-> v[net.fanin[k][i]]]
        <5>1. DOMAIN net.fanin[k] = DOMAIN seq.fanin[m]
          BY <3>2
        <5>2. \A i \in DOMAIN seq.fanin[m] : val[<<t, seq.fanin[m][i]>>] = v[net.fanin[k][i]]
          BY <3>2, <4>2
        <5> QED BY <5>1, <5>2
      <4>4. RunGood(val, t, m) = Val(k, v)
        BY <3>2, <3>7, <4>3 DEF Val, RunGood
      <4> QED BY <2>1, <2>2, <3>1, <3>3, <3>4, <4>1, <4>4
    <3> QED BY <3>5, <3>6, <3>7
  <2> QED BY <2>3, <2>4
<1>3. \A p \in D : val[p] = RunBody(n, val)[p]
  <2> SUFFICES ASSUME NEW p \in D PROVE val[p] = RunBody(n, val)[p]
    OBVIOUS
  <2>1. PICK t \in 0 .. frames - 1, m \in DOMAIN seq.type : p = <<t, m>>
    OBVIOUS
  <2> QED BY <1>2, <2>1
<1>4. DOMAIN val = D /\ DOMAIN RunBody(n, val) = D /\ val = [p \in D |-> val[p]]
      /\ RunBody(n, val) = [p \in D |-> RunBody(n, val)[p]]
  BY DEF RunBody
<1> QED BY <1>3, <1>4

\* There is only one such function: a flip-flop's value is that of an earlier
\* frame, a gate's that of nodes before it.
LEMMA RunUnique ==
  ASSUME ~CvfRuns, Derived, NEW n, NEW f, f = RunBody(n, f), NEW g, g = RunBody(n, g)
  PROVE  f = g
<1> DEFINE D == (0 .. frames - 1) \X (DOMAIN seq.type)
           rank == [p \in D |-> Size(seq) * p[1] + p[2]]
           T == {p \in D : f[p] = g[p]}
<1>1. /\ IsSeqNet(seq) /\ frames \in Nat \ {0} /\ DOMAIN seq.type = 1 .. Size(seq) /\ Size(seq) \in Nat
      /\ IsNet(seq)
  BY SvfDerived, MovedFacts DEF IsSeqNet
<1>2. ASSUME NEW t \in 0 .. frames - 1, NEW m \in DOMAIN seq.type
      PROVE  /\ t \in Nat /\ m \in Nat \ {0} /\ m <= Size(seq) /\ Size(seq) * t \in Nat
             /\ <<t, m>> \in D /\ rank[<<t, m>>] = Size(seq) * t + m /\ rank[<<t, m>>] \in Nat
  <2>1. t \in Nat /\ m \in Nat \ {0} /\ m <= Size(seq)
    BY <1>1
  <2>2. Size(seq) * t \in Nat
    BY <1>1, <2>1, FrameSize
  <2>3. <<t, m>> \in D /\ rank[<<t, m>>] = Size(seq) * t + m
    OBVIOUS
  <2> QED BY <2>1, <2>2, <2>3
<1>3. ASSUME NEW t \in 0 .. frames - 1, NEW m \in DOMAIN seq.type,
             \A p \in D : rank[p] < rank[<<t, m>>] => p \in T
      PROVE  RunGood(f, t, m) = RunGood(g, t, m)
  <2>1. t \in Nat /\ m \in Nat \ {0} /\ Size(seq) * t \in Nat /\ rank[<<t, m>>] = Size(seq) * t + m
    BY <1>2
  <2>2. ASSUME m \in FlipFlops(seq), t # 0 PROVE f[<<t - 1, seq.ff[m]>>] = g[<<t - 1, seq.ff[m]>>]
    <3>1. t - 1 \in 0 .. frames - 1 /\ seq.ff[m] \in DOMAIN seq.type
      BY <1>1, <2>1, <2>2, SvfDerived
    <3>2. /\ <<t - 1, seq.ff[m]>> \in D
          /\ rank[<<t - 1, seq.ff[m]>>] = Size(seq) * (t - 1) + seq.ff[m]
          /\ seq.ff[m] \in Nat /\ seq.ff[m] <= Size(seq) /\ Size(seq) * (t - 1) \in Nat
      BY <1>2, <3>1
    <3>3. Size(seq) * t = Size(seq) * (t - 1) + Size(seq)
      BY <1>1, <2>1, <2>2, FrameSize
    <3>4. PICK x \in Nat, y \in Nat : x = Size(seq) * t /\ y = Size(seq) * (t - 1)
      BY <2>1, <3>2
    <3>5. y + seq.ff[m] < x + m
      <4>1. x = y + Size(seq)
        BY <3>3, <3>4
      <4>2. ASSUME NEW a \in Nat, NEW b \in Nat, NEW c \in Nat, NEW d \in Nat \ {0}, a <= b
            PROVE  c + a < (c + b) + d
        BY <4>2
      <4> QED BY <1>1, <2>1, <3>2, <4>1, <4>2
    <3>6. <<t - 1, seq.ff[m]>> \in T
      <4> HIDE DEF T, rank, D
      <4> QED BY <1>3, <2>1, <3>2, <3>4, <3>5
    <3> QED BY <3>6
  <2>3. ASSUME NEW i \in DOMAIN seq.fanin[m]
        PROVE  f[<<t, seq.fanin[m][i]>>] = g[<<t, seq.fanin[m][i]>>]
    <3>1. seq.fanin[m][i] \in DOMAIN seq.type /\ seq.fanin[m][i] < m
      BY <1>1, NetFacts
    <3>2. /\ <<t, seq.fanin[m][i]>> \in D /\ seq.fanin[m][i] \in Nat
          /\ rank[<<t, seq.fanin[m][i]>>] = Size(seq) * t + seq.fanin[m][i]
      BY <1>2, <3>1
    <3>3. PICK x \in Nat : x = Size(seq) * t
      BY <2>1
    <3>4. x + seq.fanin[m][i] < x + m
      BY <2>1, <3>1, <3>2
    <3>5. <<t, seq.fanin[m][i]>> \in T
      <4> HIDE DEF T, rank, D
      <4> QED BY <1>3, <2>1, <3>2, <3>3, <3>4
    <3> QED BY <3>5
  <2>4. [i \in DOMAIN seq.fanin[m] |-> f[<<t, seq.fanin[m][i]>>]]
          = [i \in DOMAIN seq.fanin[m] |-> g[<<t, seq.fanin[m][i]>>]]
    BY <2>3
  <2> HIDE DEF D, rank, T
  <2> QED BY <2>2, <2>4 DEF RunGood
<1>4. ASSUME NEW p \in D, \A o \in D : rank[o] < rank[p] => o \in T PROVE p \in T
  <2>1. PICK t \in 0 .. frames - 1, m \in DOMAIN seq.type : p = <<t, m>>
    OBVIOUS
  <2>2. RunGood(f, t, m) = RunGood(g, t, m)
    <3> HIDE DEF D, rank, T
    <3> QED BY <1>3, <1>4, <2>1
  <2>3. /\ f[p] = RunBody(n, f)[p] /\ g[p] = RunBody(n, g)[p]
        /\ RunBody(n, f)[p] = IF t = 0 /\ m = n THEN Pats \ RunGood(f, t, m) ELSE RunGood(f, t, m)
        /\ RunBody(n, g)[p] = IF t = 0 /\ m = n THEN Pats \ RunGood(g, t, m) ELSE RunGood(g, t, m)
    <3>1. f[p] = RunBody(n, f)[p] /\ g[p] = RunBody(n, g)[p]
      OBVIOUS
    <3> QED BY <2>1, <3>1 DEF RunBody
  <2> QED BY <2>2, <2>3
<1>5. \A p \in D : rank[p] \in Nat
  <2> SUFFICES ASSUME NEW p \in D PROVE rank[p] \in Nat
    OBVIOUS
  <2>1. PICK t \in 0 .. frames - 1, m \in DOMAIN seq.type : p = <<t, m>>
    OBVIOUS
  <2> HIDE DEF D, rank
  <2> QED BY <1>2, <2>1
<1>6. D \subseteq T
  <2> HIDE DEF D, rank, T
  <2> QED BY <1>4, <1>5, RankInduction
<1>7. f = [p \in D |-> f[p]] /\ g = [p \in D |-> g[p]]
  BY DEF RunBody
<1> QED BY <1>6, <1>7

\* So Run gives the values of the copies.
LEMMA RunIsCopies ==
  ASSUME SimOK, Derived, ~CvfRuns, NEW n, n \in (DOMAIN seq.type) \cup {0}, NEW v, v = Through(gval, n, v)
  PROVE  \A t \in 0 .. frames - 1, m \in DOMAIN seq.type : Run(n)[<<t, m>>] = v[At(seq, m, t)]
<1>1. PICK val : val = [p \in (0 .. frames - 1) \X (DOMAIN seq.type) |-> v[At(seq, p[2], p[1])]]
  OBVIOUS
<1>2. val = RunBody(n, val)
  BY <1>1, CopiesRun
<1>3. Run(n) = CHOOSE f : f = RunBody(n, f)
  BY DEF Run, RunBody, RunGood
<1>4. Run(n) = RunBody(n, Run(n))
  BY <1>2, <1>3
<1>5. Run(n) = val
  BY <1>2, <1>4, RunUnique
<1> QED BY <1>1, <1>5

\* Flipped is such an evaluation.
LEMMA FlippedThrough ==
  ASSUME SimOK, Evaluated, NEW n \in Nodes
  PROVE  Flipped(n) = Through(gval, n, Flipped(n))
<1>1. \A m \in Inputs : gval[m] \subseteq Pats
  BY DEF Evaluated, Inputs
<1>2. Flipped(n) = CHOOSE f : f = Through(gval, n, f)
  BY DEF Flipped, Through, Val
<1> QED BY <1>1, <1>2, Evaluation

\* What a change of a node of the first frame shows at the outputs of the copies
\* is what it shows in the sequential network.
LEMMA SameObservability ==
  ASSUME SimOK, Derived, ~CvfRuns, Evaluated, NEW n \in DOMAIN seq.type
  PROVE  Observability(n) = SeqObservability(n)
<1>1. /\ IsSeqNet(seq) /\ frames \in Nat \ {0} /\ net = Unroll(seq, frames) /\ seq.out \subseteq DOMAIN seq.type
      /\ \A f \in FlipFlops(seq) : seq.ff[f] \in DOMAIN seq.type
  BY SvfDerived
<1>2. n \in Nodes /\ 0 \notin Nodes
  <2>1. 0 \in 0 .. frames - 1
    BY <1>1
  <2>2. At(seq, n, 0) = n
    BY <1>1, AtFacts
  <2> QED BY <2>1, <2>2, CopyFacts, SimFacts
<1>3. Flipped(n) = Through(gval, n, Flipped(n))
  BY <1>2, FlippedThrough
<1>4. gval = Through(gval, 0, gval)
  <2>1. \A m \in Nodes : ~IsInput(m) => gval[m] = Val(m, gval)
    BY DEF Evaluated, Logic, Inputs
  <2>2. gval = [m \in Nodes |-> gval[m]]
    BY DEF Evaluated
  <2> QED BY <1>2, <2>1, <2>2 DEF Through
<1>5. \A t \in 0 .. frames - 1, m \in DOMAIN seq.type :
        Run(n)[<<t, m>>] = Flipped(n)[At(seq, m, t)] /\ Run(0)[<<t, m>>] = gval[At(seq, m, t)]
  BY <1>3, <1>4, RunIsCopies
<1>6. \A p : p \in SeenAt <=> \E t, m : /\ p = <<t, m>>
                                      /\ \/ t \in 0 .. frames - 1 /\ m \in seq.out
                                         \/ t = frames - 1 /\ \E f \in FlipFlops(seq) : m = seq.ff[f]
  BY DEF SeenAt
<1>7. \A p \in SeenAt : Run(n)[p] = Flipped(n)[At(seq, p[2], p[1])] /\ Run(0)[p] = gval[At(seq, p[2], p[1])]
  <2> SUFFICES ASSUME NEW p \in SeenAt
               PROVE  Run(n)[p] = Flipped(n)[At(seq, p[2], p[1])] /\ Run(0)[p] = gval[At(seq, p[2], p[1])]
    OBVIOUS
  <2>1. PICK t \in 0 .. frames - 1, m \in DOMAIN seq.type : p = <<t, m>>
    <3>1. frames - 1 \in 0 .. frames - 1
      BY <1>1
    <3> QED BY <1>1, <1>6, <3>1
  <2> QED BY <1>5, <2>1
<1>8. \A b : b \in Observability(n) <=> \E o \in net.out : b \in Xor(Flipped(n)[o], gval[o])
  BY DEF Observability
<1>9. net.out = {At(seq, o, t) : o \in seq.out, t \in 0 .. frames - 1}
                  \cup {At(seq, seq.ff[f], frames - 1) : f \in FlipFlops(seq)}
  BY <1>1 DEF Unroll
<1>10. \A o : o \in net.out <=> \E p \in SeenAt : o = At(seq, p[2], p[1])
  <2>1. ASSUME NEW o \in net.out PROVE \E p \in SeenAt : o = At(seq, p[2], p[1])
    <3>1. PICK t, m : /\ o = At(seq, m, t)
                      /\ \/ t \in 0 .. frames - 1 /\ m \in seq.out
                         \/ t = frames - 1 /\ \E f \in FlipFlops(seq) : m = seq.ff[f]
      BY <1>9, <2>1
    <3>2. <<t, m>> \in SeenAt
      BY <1>6, <3>1
    <3> QED BY <3>1, <3>2
  <2>2. ASSUME NEW p \in SeenAt PROVE At(seq, p[2], p[1]) \in net.out
    BY <1>6, <1>9
  <2> QED BY <2>1, <2>2
<1>11. \A b : b \in SeqObservability(n) <=> \E p \in SeenAt : b \in Xor(Run(n)[p], Run(0)[p])
  BY DEF SeqObservability
<1>12. \A b : b \in Observability(n) <=> b \in SeqObservability(n)
  BY <1>7, <1>8, <1>10, <1>11
<1> QED BY <1>12

\* Every node of the first frame is in a region.
LEMMA FirstFrameRoots ==
  ASSUME SimOK, Derived, ~CvfRuns
  PROVE  \A n \in Nodes : n <= Size(seq) => sim.root[n] \in Roots
<1> DEFINE T == {n \in Nodes : n <= Size(seq) => sim.root[n] \in Roots}
<1>1. /\ IsSeqNet(seq) /\ frames \in Nat \ {0} /\ net = Unroll(seq, frames)
      /\ sim.root = SvfRoot(net, seq) /\ Size(seq) \in Nat /\ Nodes \subseteq Nat
      /\ DOMAIN seq.type = 1 .. Size(seq)
  BY SvfDerived, MovedFacts, SimFacts
<1>2. ASSUME NEW n \in Nodes, \A m \in Nodes : n < m => m \in T PROVE n \in T
  <2> SUFFICES ASSUME n <= Size(seq) PROVE sim.root[n] \in Roots
    OBVIOUS
  <2>1. sim.root[n] = IF n > Size(seq) THEN 0
                      ELSE IF n \in Output1(seq) \/ Nfo(net, n) # 1 THEN n
                      ELSE sim.root[NextOf(net, n)]
    BY <1>1, SvfRootFacts DEF SimOK, Nodes
  <2>2. ~(n > Size(seq))
    BY <1>1
  <2>3. CASE n \in Output1(seq) \/ Nfo(net, n) # 1
    <3>1. sim.root[n] = n
      BY <2>1, <2>2, <2>3
    <3> QED BY <3>1 DEF Roots
  <2>4. CASE n \notin Output1(seq) /\ Nfo(net, n) = 1
    <3>1. sim.root[n] = sim.root[NextOf(net, n)]
      BY <2>1, <2>2, <2>4
    <3>2. PICK m \in Nodes : m = NextOf(net, n) /\ n < m /\ Fanouts(net, n) = {m}
      BY <2>4, SinglePin
    <3>3. PICK i \in DOMAIN net.fanin[m] : net.fanin[m][i] = n
      <4>1. sim.fanout[n] = {m}
        BY <3>2 DEF SimOK
      <4> QED BY <4>1, PinFacts
    <3>4. m <= Size(seq)
      <4>1. PICK k, t : k = Origin(seq, m)[1] /\ t = Origin(seq, m)[2]
        OBVIOUS
      <4>2. m \in 1 .. Size(seq) + PerFrame(seq) * (frames - 1)
        BY <1>1, UnrollNodes
      <4>3. /\ k \in DOMAIN seq.type /\ t \in 0 .. frames - 1 /\ At(seq, k, t) = m
            /\ t # 0 => k \notin FlipFlops(seq)
        BY <1>1, <4>1, <4>2, OriginFacts
      <4>4. net.fanin[m] = [j \in DOMAIN seq.fanin[k] |-> At(seq, seq.fanin[k][j], t)] /\ (t = 0 => m = k)
        BY <4>3, CopyFacts
      <4>5. i \in DOMAIN seq.fanin[k] /\ n = At(seq, seq.fanin[k][i], t)
        BY <3>3, <4>4
      <4>6. seq.fanin[k][i] \in DOMAIN seq.type
        <5>1. IsNet(seq)
          BY <1>1 DEF IsSeqNet
        <5> QED BY <4>3, <4>5, <5>1, NetFacts
      <4>7. t = 0
        <5>1. t \in Nat
          BY <4>3
        <5> QED BY <1>1, <2>4, <4>5, <4>6, <5>1, FirstFrame
      <4> QED BY <1>1, <4>3, <4>4, <4>7
    <3>5. m \in T
      <4> HIDE DEF T
      <4> QED BY <1>2, <3>2
    <3> QED BY <3>1, <3>2, <3>4, <3>5
  <2> QED BY <2>3, <2>4
<1>3. Nodes \subseteq T
  <2> HIDE DEF T
  <2> QED BY <1>2, DownwardInduction
<1> QED BY <1>3

\* For every sequential network, any number of frames and any vectors: calc_exact
\* of CalcSvf gives every node of the first frame what a change of it there does
\* to the outputs of all frames and to the last state, if what the inputs of
\* later frames hold in the two words is the same.
THEOREM SvfExactness == CalcSpec => []SvfExact
<1>1. CalcInv /\ ValuesInv /\ Derived /\ ExactInv => SvfExact
  <2> SUFFICES ASSUME CalcInv, ValuesInv, Derived, ExactInv, frames > 0, pc = "idle", op = "exact",
                      \A n \in Later : fval[n] = gval[n], NEW n \in DOMAIN seq.type
               PROVE  obs[n] = SeqObservability(n)
    BY DEF SvfExact
  <2>1. ~CvfRuns /\ SimOK /\ Evaluated /\ todo = <<>>
    BY DEF CvfRuns, CalcInv, Context, ValuesInv, ExactInv
  <2>2. Equal
    BY <2>1 DEF Equal, Settled
  <2>3. Known /\ ToSet(todo) = {}
    BY <2>1, <2>2 DEF ExactInv, ToSet
  <2>4. n \in Nodes /\ n <= Size(seq)
    <3>1. IsSeqNet(seq) /\ frames \in Nat \ {0} /\ DOMAIN seq.type = 1 .. Size(seq) /\ Size(seq) \in Nat
      BY <2>1, SvfDerived, MovedFacts
    <3>2. 0 \in 0 .. frames - 1 /\ At(seq, n, 0) = n
      BY <3>1, AtFacts
    <3>3. n \in Nodes
      BY <2>1, <3>2, CopyFacts
    <3> QED BY <3>1, <3>3
  <2>5. obs[n] = Observability(n)
    <3>1. sim.root[n] \in Roots
      BY <2>1, <2>4, FirstFrameRoots
    <3> QED BY <2>3, <2>4, <3>1 DEF Known
  <2> QED BY <2>1, <2>5, SameObservability
<1> QED BY <1>1, CalcInvariance, ValuesInvariance, DerivedInvariance, ExactInvariance, PTL
=============================================================================
