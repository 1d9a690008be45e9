---------------------------- MODULE CutNetProofs ----------------------------
(***************************************************************************)
(* Networks, the searches from a node down to its fanins, and cuts: what   *)
(* the enumerations of cuts have in common to reason about.                *)
(***************************************************************************)
EXTENDS CutNet, Sequences, FiniteSetTheorems, SequenceTheorems, WellFoundedInduction, TLAPS

------------------------------------------------------------------------------
(***************************************************************************)
(* Networks, and searches from a node down to its fanins.                  *)
(***************************************************************************)
LEMMA NetFacts ==
  ASSUME NEW net0, IsNetwork(net0)
  PROVE  /\ \E k \in Nat : Nodes(net0) = 1 .. k
         /\ Nodes(net0) \subseteq Nat \ {0} /\ Inputs(net0) \subseteq Nodes(net0)
         /\ Logic(net0) \subseteq Nodes(net0) /\ Logic(net0) \cap Inputs(net0) = {}
         /\ \A n \in Nodes(net0) : n \in Inputs(net0) \/ n \in Logic(net0)
         /\ \A n \in Nodes(net0) : \A m \in 1 .. n : m \in Nodes(net0)
         /\ \A n \in Logic(net0) : n - 1 \in Nodes(net0)
         /\ \A n \in Logic(net0) : /\ net0.fanin[n][1] # net0.fanin[n][2]
                                   /\ net0.fanin[n][1] \in Fanins(net0, n)
                                   /\ net0.fanin[n][2] \in Fanins(net0, n)
                                   /\ Fanins(net0, n) \subseteq Nodes(net0)
                                   /\ \A m \in Fanins(net0, n) : m < n
<1>1. PICK k : k = Cardinality(DOMAIN net0.fanin) /\ k \in Nat
  BY FS_CardinalityType DEF IsNetwork
<1>2. net0.inputs \in Nat \ {0} /\ Logic(net0) = net0.inputs + 1 .. net0.inputs + k
  BY <1>1 DEF IsNetwork, Logic
<1>3. Nodes(net0) = 1 .. net0.inputs + k
  BY <1>1, <1>2 DEF Nodes, Inputs
<1>4. ASSUME NEW n \in Logic(net0)
      PROVE  /\ net0.fanin[n][1] # net0.fanin[n][2]
             /\ net0.fanin[n][1] \in 1 .. n - 1 /\ net0.fanin[n][2] \in 1 .. n - 1
  BY <1>4 DEF IsNetwork, Logic
<1>5. ASSUME NEW n \in Logic(net0)
      PROVE  /\ net0.fanin[n][1] \in Fanins(net0, n) /\ net0.fanin[n][2] \in Fanins(net0, n)
             /\ Fanins(net0, n) \subseteq Nodes(net0) /\ \A m \in Fanins(net0, n) : m < n
  BY <1>1, <1>2, <1>3, <1>4, <1>5 DEF Fanins
<1>6. \A n \in Logic(net0) : n - 1 \in Nodes(net0)
  BY <1>1, <1>2, <1>3
<1>7. Inputs(net0) = 1 .. net0.inputs
  BY DEF Inputs
<1>8. \E k0 \in Nat : Nodes(net0) = 1 .. k0
  BY <1>1, <1>2, <1>3 DEF IsNetwork
<1> QED BY <1>1, <1>2, <1>3, <1>4, <1>5, <1>6, <1>7, <1>8

\* A search along the pairs of E, from the nodes of B: it meets the nodes at the
\* end of a path.
IsSearch(f, N, M, E, B) ==
  /\ f = [n \in N |-> f[n]]
  /\ \A n \in N : f[n] = (n \in B \/ \E m \in M : <<m, n>> \in E /\ f[m])

LEMMA SearchExists ==
  ASSUME NEW N, NEW M \in SUBSET N, NEW E, NEW B \in SUBSET N
  PROVE  \E f : IsSearch(f, N, M, E, B)
<1> DEFINE Path(s, n) == /\ Len(s) > 0 /\ s[1] \in B /\ s[Len(s)] = n
                         /\ \A i \in 1 .. Len(s) - 1 : s[i] \in M /\ <<s[i], s[i + 1]>> \in E
           f == [n \in N |-> \E s \in Seq(N) : Path(s, n)]
<1>1. ASSUME NEW n \in N
      PROVE  (\E s \in Seq(N) : Path(s, n)) <=> (n \in B \/ \E m \in M : <<m, n>> \in E /\ f[m])
  <2>1. ASSUME NEW s \in Seq(N), Path(s, n)
        PROVE  n \in B \/ \E m \in M : <<m, n>> \in E /\ f[m]
    <3>1. CASE Len(s) = 1
      BY <2>1, <3>1
    <3>2. CASE Len(s) # 1
      <4>1. PICK k \in Nat : k = Len(s) - 1 /\ k > 0 /\ k + 1 = Len(s)
        <5>1. PICK z \in Nat : z = Len(s)
          OBVIOUS
        <5>2. z > 0 /\ z # 1
          BY <2>1, <3>2, <5>1
        <5>3. PICK k \in Nat : k = z - 1 /\ k > 0 /\ k + 1 = z
          BY <5>2
        <5> QED BY <5>1, <5>3
      <4>2. PICK t : t = SubSeq(s, 1, k)
        OBVIOUS
      <4>3. t \in Seq(N) /\ Len(t) = k /\ \A i \in 1 .. k : t[i] = s[i]
        BY <4>1, <4>2
      <4>4. \A i \in 1 .. k : s[i] \in M /\ <<s[i], s[i + 1]>> \in E
        BY <2>1, <4>1
      <4>5. \A i \in 1 .. k - 1 : i \in 1 .. k /\ i + 1 \in 1 .. k
        BY <4>1
      <4>6. \A i \in 1 .. k - 1 : t[i] \in M /\ <<t[i], t[i + 1]>> \in E
        BY <4>3, <4>4, <4>5
      <4>7. 1 \in 1 .. k /\ k \in 1 .. k
        BY <4>1
      <4>8. Path(t, s[k])
        BY <2>1, <4>1, <4>3, <4>6, <4>7
      <4>9. s[k] \in M /\ <<s[k], n>> \in E
        BY <2>1, <4>1, <4>4, <4>7
      <4>10. f[s[k]]
        BY <4>3, <4>8, <4>9
      <4> QED BY <4>9, <4>10
    <3> QED BY <3>1, <3>2
  <2>2. ASSUME n \in B
        PROVE  \E s \in Seq(N) : Path(s, n)
    <3>1. <<n>> \in Seq(N) /\ Path(<<n>>, n)
      BY <2>2
    <3> QED BY <3>1
  <2>3. ASSUME NEW m \in M, <<m, n>> \in E, f[m]
        PROVE  \E s \in Seq(N) : Path(s, n)
    <3>1. PICK t \in Seq(N) : Path(t, m)
      BY <2>3
    <3>2. PICK s, k : s = Append(t, n) /\ k = Len(t)
      OBVIOUS
    <3>3. /\ s \in Seq(N) /\ k \in Nat \ {0} /\ Len(s) = k + 1 /\ s[k + 1] = n
          /\ \A i \in 1 .. k : s[i] = t[i]
      BY <3>1, <3>2
    <3>4. ASSUME NEW i \in 1 .. k PROVE s[i] \in M /\ <<s[i], s[i + 1]>> \in E
      <4>1. CASE i = k
        BY <2>3, <3>1, <3>2, <3>3, <4>1
      <4>2. CASE i # k
        <5>1. i \in 1 .. Len(t) - 1 /\ i + 1 \in 1 .. k
          BY <3>2, <3>3, <4>2
        <5> QED BY <3>1, <3>3, <5>1
      <4> QED BY <4>1, <4>2
    <3>5. s[1] = t[1] /\ Len(s) - 1 = k
      BY <3>3
    <3>6. Path(s, n)
      BY <3>1, <3>3, <3>4, <3>5
    <3> QED BY <3>3, <3>6
  <2> QED BY <2>1, <2>2, <2>3
<1> HIDE DEF Path
<1>2. /\ f = [n \in N |-> f[n]]
      /\ \A n \in N : f[n] = (n \in B \/ \E m \in M : <<m, n>> \in E /\ f[m])
  BY <1>1
<1> HIDE DEF f
<1> QED BY <1>2 DEF IsSearch

\* Met holds the root, and the fanins of what it holds outside C.
LEMMA MetDef ==
  ASSUME NEW net0, IsNetwork(net0), NEW r \in Nodes(net0), NEW C
  PROVE  /\ Met(net0, r, C) \subseteq Nodes(net0)
         /\ \A n \in Nodes(net0) :
              n \in Met(net0, r, C) <=>
                \/ n = r
                \/ \E m \in Logic(net0) : /\ m > n /\ n \in Fanins(net0, m)
                                          /\ m \notin C /\ m \in Met(net0, r, C)
<1> DEFINE Body(f) == [n \in Nodes(net0) |->
                         \/ n = r
                         \/ \E m \in Logic(net0) : m > n /\ n \in Fanins(net0, m) /\ m \notin C /\ f[m]]
           met == CHOOSE f : f = Body(f)
<1>1. Met(net0, r, C) = {n \in Nodes(net0) : met[n]}
  BY DEF Met
<1>2. \E f : f = Body(f)
  <2> DEFINE E == {e \in Logic(net0) \X Nodes(net0) :
                     e[1] > e[2] /\ e[2] \in Fanins(net0, e[1]) /\ e[1] \notin C}
  <2>1. Logic(net0) \subseteq Nodes(net0)
    BY NetFacts
  <2>2. PICK f : /\ f = [n \in Nodes(net0) |-> f[n]]
                 /\ \A n \in Nodes(net0) :
                      f[n] = (n \in {r} \/ \E m \in Logic(net0) : <<m, n>> \in E /\ f[m])
    <3>1. PICK N, M, B, G : N = Nodes(net0) /\ M = Logic(net0) /\ B = {r} /\ G = E
      OBVIOUS
    <3>2. B \in SUBSET N /\ M \in SUBSET N
      BY <2>1, <3>1
    <3> HIDE DEF E
    <3>3. PICK f : IsSearch(f, N, M, G, B)
      BY <3>2, SearchExists
    <3> QED BY <3>1, <3>3 DEF IsSearch
  <2>3. \A n \in Nodes(net0) : f[n] = Body(f)[n]
    BY <2>2
  <2>4. f = Body(f)
    BY <2>2, <2>3
  <2> QED BY <2>4
<1>3. met = Body(met)
  BY <1>2
<1> HIDE DEF met
<1>4. \A n \in Nodes(net0) : met[n] <=> \/ n = r
                                        \/ \E m \in Logic(net0) : m > n /\ n \in Fanins(net0, m)
                                                                   /\ m \notin C /\ met[m]
  BY <1>3
<1>5. Logic(net0) \subseteq Nodes(net0)
  BY NetFacts
<1> QED BY <1>1, <1>4, <1>5

LEMMA LeastNumber ==
  ASSUME NEW S, S \subseteq Nat, S # {}
  PROVE  \E i \in S : \A j \in S : i <= j
<1> DEFINE Less == {q \in Nat \X Nat : q[1] < q[2]}
<1>1. IsWellFoundedOn(Less, Nat)
  BY NatLessThanWellFounded, Zenon DEF OpToRel
<1>2. PICK i \in S : \A j \in S : <<j, i>> \notin Less
  <2> HIDE DEF Less
  <2> QED BY <1>1, WFMin
<1>3. \A x, y \in Nat : <<x, y>> \notin Less => y <= x
  OBVIOUS
<1>4. \A j \in S : i <= j
  <2> HIDE DEF Less
  <2> QED BY <1>2, <1>3
<1> QED BY <1>4

LEMMA GreatestNode ==
  ASSUME NEW net0, IsNetwork(net0), NEW S, S \subseteq Nodes(net0), S # {}
  PROVE  \E i \in S : \A j \in S : j <= i
<1>1. PICK k \in Nat : Nodes(net0) = 1 .. k
  BY NetFacts
<1> DEFINE T == {j \in Nat : \E n \in S : n + j = k}
<1>2. \A n \in S : n \in Nat /\ n <= k /\ k - n \in Nat /\ n + (k - n) = k
  BY <1>1
<1>3. T # {}
  BY <1>2
<1>4. PICK i \in T : \A j \in T : i <= j
  <2>1. T \subseteq Nat
    OBVIOUS
  <2> HIDE DEF T
  <2> QED BY <1>3, <2>1, LeastNumber
<1>5. PICK n \in S : n + i = k
  OBVIOUS
<1>6. ASSUME NEW m \in S PROVE m <= n
  <2>1. k - m \in T
    BY <1>2
  <2>2. i <= k - m /\ i \in Nat
    BY <1>4, <2>1
  <2> QED BY <1>1, <1>2, <1>5, <2>2
<1> QED BY <1>6

\* Met is the least set of its kind.
LEMMA MetLeast ==
  ASSUME NEW net0, IsNetwork(net0), NEW r \in Nodes(net0), NEW C, NEW T, r \in T,
         \A m \in (Met(net0, r, C) \cap T \cap Logic(net0)) \ C : Fanins(net0, m) \subseteq T
  PROVE  Met(net0, r, C) \subseteq T
<1>1. SUFFICES ASSUME Met(net0, r, C) \ T # {}
               PROVE  FALSE
  OBVIOUS
<1>2. PICK n \in Met(net0, r, C) \ T : \A j \in Met(net0, r, C) \ T : j <= n
  <2>1. Met(net0, r, C) \ T \subseteq Nodes(net0)
    BY MetDef
  <2> QED BY <1>1, <2>1, GreatestNode
<1>3. n \in Nodes(net0) /\ Nodes(net0) \subseteq Nat /\ Logic(net0) \subseteq Nodes(net0)
  BY MetDef, NetFacts
<1>4. PICK m \in Logic(net0) : m > n /\ n \in Fanins(net0, m) /\ m \notin C /\ m \in Met(net0, r, C)
  BY <1>3, MetDef
<1>5. m \in T
  BY <1>2, <1>3, <1>4
<1> QED BY <1>2, <1>4, <1>5

LEMMA MetFacts ==
  ASSUME NEW net0, IsNetwork(net0), NEW r \in Nodes(net0), NEW C
  PROVE  /\ r \in Met(net0, r, C)
         /\ \A m \in Logic(net0) : m \in Met(net0, r, C) /\ m \notin C =>
              Fanins(net0, m) \subseteq Met(net0, r, C)
         /\ Met(net0, r, C) \subseteq 1 .. r /\ Met(net0, r, C) \subseteq Nodes(net0)
<1>1. r \in Met(net0, r, C)
  BY MetDef
<1>2. ASSUME NEW m \in Logic(net0), m \in Met(net0, r, C), m \notin C, NEW n \in Fanins(net0, m)
      PROVE  n \in Met(net0, r, C)
  <2>1. n \in Nodes(net0) /\ m > n
    BY NetFacts
  <2> QED BY <1>2, <2>1, MetDef
<1>3. Met(net0, r, C) \subseteq 1 .. r
  <2>1. r \in 1 .. r /\ r \in Nat
    BY NetFacts
  <2>2. ASSUME NEW m \in Logic(net0), m \in 1 .. r, NEW n \in Fanins(net0, m)
        PROVE  n \in 1 .. r
    <3>1. n \in Nat \ {0} /\ n < m
      BY NetFacts
    <3> QED BY <2>1, <2>2, <3>1
  <2>3. PICK T : T = 1 .. r
    OBVIOUS
  <2>4. \A m \in (Met(net0, r, C) \cap T \cap Logic(net0)) \ C : Fanins(net0, m) \subseteq T
    BY <2>2, <2>3
  <2>5. r \in T
    BY <2>1, <2>3
  <2>6. Met(net0, r, C) \subseteq T
    BY <2>4, <2>5, MetLeast
  <2> QED BY <2>3, <2>6
<1> QED BY <1>1, <1>2, <1>3, MetDef

\* What a node inside a cut has below it is cut by the same nodes.
LEMMA MetBelow ==
  ASSUME NEW net0, IsNetwork(net0), NEW r \in Nodes(net0), NEW C,
         NEW x \in Met(net0, r, C) \ C
  PROVE  /\ Met(net0, x, C) \subseteq Met(net0, r, C)
         /\ Met(net0, x, C \cap Met(net0, x, C)) = Met(net0, x, C)
<1>1. x \in Nodes(net0)
  BY MetDef
<1> DEFINE D == C \cap Met(net0, x, C)
<1>2. Met(net0, x, C) \subseteq Met(net0, r, C)
  BY <1>1, MetLeast, MetFacts
<1>3. Met(net0, x, C) \subseteq Met(net0, x, D)
  <2>1. x \in Met(net0, x, D)
    BY <1>1, MetFacts
  <2>2. ASSUME NEW m \in Logic(net0), m \notin C, m \in Met(net0, x, D)
        PROVE  Fanins(net0, m) \subseteq Met(net0, x, D)
    <3>1. m \notin D
      BY <2>2
    <3> HIDE DEF D
    <3> QED BY <1>1, <2>2, <3>1, MetFacts
  <2> HIDE DEF D
  <2> QED BY <1>1, <2>1, <2>2, MetLeast
<1>4. Met(net0, x, D) \subseteq Met(net0, x, C)
  <2>1. x \in Met(net0, x, C)
    BY <1>1, MetFacts
  <2>2. ASSUME NEW m \in Logic(net0), m \notin D, m \in Met(net0, x, C)
        PROVE  Fanins(net0, m) \subseteq Met(net0, x, C)
    <3>1. m \notin C
      BY <2>2
    <3> QED BY <1>1, <2>2, <3>1, MetFacts
  <2> HIDE DEF D
  <2> QED BY <1>1, <2>1, <2>2, MetLeast
<1> QED BY <1>2, <1>3, <1>4

\* The cuts an enumeration has to find, the node by itself among them.
Feasible(net0, ends, lim, r) ==
  {C \in SUBSET (ends \cap 1 .. r) : Cardinality(C) <= lim /\ IsCut(net0, r, C)}

LEMMA FeasibleFacts ==
  ASSUME NEW net0, IsNetwork(net0), NEW r \in Nodes(net0), NEW ends, NEW lim,
         NEW C \in Feasible(net0, ends, lim, r)
  PROVE  /\ C \subseteq ends /\ C \subseteq 1 .. r /\ IsFiniteSet(C)
         /\ Cardinality(C) \in Nat /\ Cardinality(C) <= lim
         /\ C \subseteq Met(net0, r, C)
         /\ \A x \in Met(net0, r, C) : x \notin C => x \in Logic(net0)
<1>1. C \subseteq ends \cap 1 .. r /\ Cardinality(C) <= lim /\ IsCut(net0, r, C)
  BY DEF Feasible
<1>2. IsFiniteSet(C)
  <2>1. IsFiniteSet(1 .. r)
    BY NetFacts, FS_Interval
  <2> QED BY <1>1, <2>1, FS_Subset
<1>3. \A x \in Met(net0, r, C) : x \notin C => x \in Logic(net0)
  BY <1>1, MetFacts, NetFacts DEF IsCut
<1> QED BY <1>1, <1>2, <1>3, FS_CardinalityType DEF IsCut

LEMMA FeasibleBelow ==
  ASSUME NEW net0, IsNetwork(net0), NEW r \in Nodes(net0), NEW ends, NEW lim \in Nat,
         NEW C \in Feasible(net0, ends, lim, r), NEW x \in Met(net0, r, C) \ C
  PROVE  C \cap Met(net0, x, C) \in Feasible(net0, ends, lim, x)
<1>1. x \in Nodes(net0)
  BY MetFacts
<1>2. PICK D : D = C \cap Met(net0, x, C)
  OBVIOUS
<1>3. Met(net0, x, D) = Met(net0, x, C) /\ Met(net0, x, C) \subseteq Met(net0, r, C)
  BY <1>2, MetBelow
<1>4. D \subseteq ends \cap 1 .. x
  BY <1>1, <1>2, FeasibleFacts, MetFacts
<1>5. Cardinality(D) <= lim
  <2>1. IsFiniteSet(C) /\ Cardinality(C) \in Nat /\ Cardinality(C) <= lim /\ D \in SUBSET C
    BY <1>2, FeasibleFacts
  <2>2. IsFiniteSet(D) /\ Cardinality(D) <= Cardinality(C)
    BY <2>1, FS_Subset
  <2> QED BY <2>1, <2>2, FS_CardinalityType
<1>6. IsCut(net0, x, D)
  <2>1. D \subseteq Met(net0, x, D)
    BY <1>2, <1>3
  <2>2. ASSUME NEW y \in Met(net0, x, D), y \notin D, y \in Inputs(net0)
        PROVE  FALSE
    <3>1. y \in Met(net0, r, C) /\ y \notin C
      BY <1>2, <1>3, <2>2
    <3> QED BY <2>2, <3>1, FeasibleFacts, NetFacts
  <2> QED BY <2>1, <2>2 DEF IsCut
<1> QED BY <1>2, <1>4, <1>5, <1>6 DEF Feasible

\* The node by itself, and what there is of an input.
LEMMA NodeItself ==
  ASSUME NEW net0, IsNetwork(net0), NEW r \in Nodes(net0), NEW ends, r \in ends,
         NEW lim \in Nat \ {0}
  PROVE  {r} \in Feasible(net0, ends, lim, r) /\ Met(net0, r, {r}) = {r}
<1>1. Met(net0, r, {r}) = {r}
  <2>1. PICK T : T = {r}
    OBVIOUS
  <2>2. r \in T /\ \A m \in (Met(net0, r, T) \cap T \cap Logic(net0)) \ T : Fanins(net0, m) \subseteq T
    BY <2>1
  <2>3. Met(net0, r, T) \subseteq T /\ r \in Met(net0, r, T)
    BY <2>2, MetLeast, MetFacts
  <2> QED BY <2>1, <2>3
<1>2. r \in Nat \ {0} /\ r \in 1 .. r
  <2>1. r \in Nat \ {0}
    BY NetFacts
  <2> QED BY <2>1
<1>3. Cardinality({r}) = 1
  BY FS_Singleton
<1>4. IsCut(net0, r, {r})
  BY <1>1 DEF IsCut
<1>5. {r} \in SUBSET (ends \cap 1 .. r)
  BY <1>2
<1>6. Cardinality({r}) <= lim
  BY <1>3
<1> QED BY <1>1, <1>4, <1>5, <1>6 DEF Feasible

LEMMA InputMet ==
  ASSUME NEW net0, IsNetwork(net0), NEW r \in Inputs(net0), NEW C
  PROVE  Met(net0, r, C) = {r}
<1>1. PICK T : T = {r}
  OBVIOUS
<1>2. r \in Nodes(net0) /\ r \notin Logic(net0)
  BY NetFacts
<1>3. r \in T /\ \A m \in (Met(net0, r, C) \cap T \cap Logic(net0)) \ C : Fanins(net0, m) \subseteq T
  BY <1>1, <1>2
<1>4. Met(net0, r, C) \subseteq T /\ r \in Met(net0, r, C)
  BY <1>2, <1>3, MetLeast, MetFacts
<1> QED BY <1>1, <1>4

\* No cut is without inputs.
LEMMA NoEmptyCut ==
  ASSUME NEW net0, IsNetwork(net0), NEW r \in Nodes(net0), NEW ends, NEW lim,
         NEW C \in Feasible(net0, ends, lim, r)
  PROVE  C # {}
<1>1. SUFFICES ASSUME C = {} PROVE FALSE
  OBVIOUS
<1>2. PICK M : M = Met(net0, r, C) /\ M \subseteq Nodes(net0) /\ M # {} /\ M \subseteq Nat
  BY MetFacts, NetFacts
<1>3. PICK n \in M : \A m \in M : n <= m
  BY <1>2, LeastNumber
<1>4. n \in Logic(net0) /\ n \in Nat
  BY <1>1, <1>2, FeasibleFacts
<1>5. PICK i : i \in Fanins(net0, n) /\ i < n /\ i \in Nat
  BY <1>4, NetFacts
<1>6. i \in M
  BY <1>1, <1>2, <1>4, <1>5, MetFacts
<1> QED BY <1>3, <1>4, <1>5, <1>6

\* What a search meets below a node it meets.
LEMMA MetThrough ==
  ASSUME NEW net0, IsNetwork(net0), NEW r \in Nodes(net0), NEW C, NEW x \in Met(net0, r, C)
  PROVE  Met(net0, x, C) \subseteq Met(net0, r, C)
BY MetLeast, MetFacts

\* A search goes on below the two fanins.
LEMMA MetSplits ==
  ASSUME NEW net0, IsNetwork(net0), NEW r \in Logic(net0), NEW C, r \notin C
  PROVE  /\ r \in Nodes(net0)
         /\ \A f \in Fanins(net0, r) : /\ f \in Nodes(net0) /\ f \in Met(net0, r, C) /\ f < r
                                       /\ Met(net0, f, C) \subseteq Met(net0, r, C)
         /\ Met(net0, r, C) \subseteq {r} \cup Met(net0, net0.fanin[r][1], C)
                                          \cup Met(net0, net0.fanin[r][2], C)
<1>1. /\ r \in Nodes(net0) /\ \A f \in Fanins(net0, r) : f \in Nodes(net0) /\ f < r
      /\ Fanins(net0, r) = {net0.fanin[r][1], net0.fanin[r][2]}
  BY NetFacts DEF Fanins
<1>2. \A f \in Fanins(net0, r) : f \in Met(net0, r, C)
  BY <1>1, MetFacts
<1>3. \A f \in Fanins(net0, r) : Met(net0, f, C) \subseteq Met(net0, r, C)
  BY <1>1, <1>2, MetThrough
<1>4. PICK f, g : f = net0.fanin[r][1] /\ g = net0.fanin[r][2]
  OBVIOUS
<1>5. PICK T : T = {r} \cup Met(net0, f, C) \cup Met(net0, g, C)
  OBVIOUS
<1>6. f \in T /\ g \in T /\ r \in T
  BY <1>1, <1>4, <1>5, MetFacts
<1>7. ASSUME NEW m \in Logic(net0), m \in T, m \notin C
      PROVE  Fanins(net0, m) \subseteq T
  <2>1. CASE m = r
    BY <1>1, <1>4, <1>6, <2>1
  <2>2. CASE m \in Met(net0, f, C)
    BY <1>1, <1>4, <1>5, <1>7, <2>2, MetFacts
  <2>3. CASE m \in Met(net0, g, C)
    BY <1>1, <1>4, <1>5, <1>7, <2>3, MetFacts
  <2> QED BY <1>5, <1>7, <2>1, <2>2, <2>3
<1>8. Met(net0, r, C) \subseteq T
  BY <1>1, <1>6, <1>7, MetLeast
<1> QED BY <1>1, <1>2, <1>3, <1>4, <1>5, <1>8

\* A stop the search does not meet makes no difference.
LEMMA MetMoreStops ==
  ASSUME NEW net0, IsNetwork(net0), NEW f \in Nodes(net0), NEW A, NEW B,
         B \cap (Met(net0, f, A) \ A) = {}
  PROVE  Met(net0, f, A \cup B) = Met(net0, f, A)
<1>1. PICK C : C = A \cup B
  OBVIOUS
<1>2. Met(net0, f, C) \subseteq Met(net0, f, A)
  <2>1. \A m \in (Met(net0, f, C) \cap Met(net0, f, A) \cap Logic(net0)) \ C :
          Fanins(net0, m) \subseteq Met(net0, f, A)
    BY <1>1, MetFacts
  <2> QED BY <2>1, MetLeast, MetFacts
<1>3. Met(net0, f, A) \subseteq Met(net0, f, C)
  <2>1. \A m \in (Met(net0, f, A) \cap Met(net0, f, C) \cap Logic(net0)) \ A :
          Fanins(net0, m) \subseteq Met(net0, f, C)
    BY <1>1, MetFacts
  <2> QED BY <2>1, MetLeast, MetFacts
<1> QED BY <1>1, <1>2, <1>3

\* A cut of each fanin, neither with a node inside the other.
Fitting(net0, lim, f, g, A, B) ==
  /\ B \cap (Met(net0, f, A) \ A) = {} /\ A \cap (Met(net0, g, B) \ B) = {}
  /\ Cardinality(A \cup B) <= lim

\* C is a cut of r other than r by itself, and tells what A and B are.
CutOf(net0, lim, r, f, g, A, B, C) ==
  /\ C \in Feasible(net0, Nodes(net0), lim, r) /\ r \notin C /\ C # {r}
  /\ A = C \cap Met(net0, f, C) /\ B = C \cap Met(net0, g, C)

\* The union of two such cuts is a cut of the node, and tells them apart.
LEMMA UnionIsCut ==
  ASSUME NEW net0, IsNetwork(net0), NEW r \in Logic(net0), NEW lim,
         NEW f, f = net0.fanin[r][1], NEW g, g = net0.fanin[r][2],
         NEW A \in Feasible(net0, Nodes(net0), lim, f), NEW B \in Feasible(net0, Nodes(net0), lim, g),
         Fitting(net0, lim, f, g, A, B)
  PROVE  CutOf(net0, lim, r, f, g, A, B, A \cup B)
<1> PICK C : C = A \cup B
  OBVIOUS
<1>1. /\ r \in Nodes(net0) /\ f \in Nodes(net0) /\ g \in Nodes(net0) /\ f < r /\ g < r
      /\ Nodes(net0) \subseteq Nat \ {0} /\ f \in Fanins(net0, r) /\ g \in Fanins(net0, r)
  BY NetFacts
<1>2. /\ A \subseteq Nodes(net0) /\ A \subseteq 1 .. f /\ A \subseteq Met(net0, f, A)
      /\ \A x \in Met(net0, f, A) : x \notin A => x \in Logic(net0)
  BY <1>1, FeasibleFacts
<1>3. /\ B \subseteq Nodes(net0) /\ B \subseteq 1 .. g /\ B \subseteq Met(net0, g, B)
      /\ \A x \in Met(net0, g, B) : x \notin B => x \in Logic(net0)
  BY <1>1, FeasibleFacts
<1>4. C \subseteq Nodes(net0) \cap 1 .. r /\ r \notin C /\ C # {r}
  BY <1>1, <1>2, <1>3
<1>5. Met(net0, f, C) = Met(net0, f, A)
  BY <1>1, MetMoreStops DEF Fitting
<1>6. Met(net0, g, C) = Met(net0, g, B)
  <2>1. PICK D : D = B \cup A
    OBVIOUS
  <2>2. Met(net0, g, D) = Met(net0, g, B)
    BY <1>1, <2>1, MetMoreStops DEF Fitting
  <2>3. D = C
    BY <2>1
  <2> QED BY <2>2, <2>3
<1>7. A = C \cap Met(net0, f, C) /\ B = C \cap Met(net0, g, C)
  BY <1>2, <1>3, <1>5, <1>6 DEF Fitting
<1>8. C \subseteq Met(net0, r, C)
  BY <1>1, <1>2, <1>3, <1>4, <1>5, <1>6, MetSplits
<1>9. ASSUME NEW x \in Met(net0, r, C), x \notin C PROVE x \notin Inputs(net0)
  <2>1. x = r \/ x \in Met(net0, f, A) \/ x \in Met(net0, g, B)
    BY <1>4, <1>5, <1>6, MetSplits
  <2>2. x \in Logic(net0)
    BY <1>2, <1>3, <1>9, <2>1
  <2> QED BY <2>2, NetFacts
<1>10. IsCut(net0, r, C)
  BY <1>8, <1>9 DEF IsCut
<1>11. Cardinality(C) <= lim
  BY DEF Fitting
<1>12. C \in Feasible(net0, Nodes(net0), lim, r)
  BY <1>4, <1>10, <1>11 DEF Feasible
<1> QED BY <1>4, <1>7, <1>12 DEF CutOf

\* Every other cut of a node is such a union.
LEMMA CutIsUnion ==
  ASSUME NEW net0, IsNetwork(net0), NEW r \in Logic(net0), NEW lim \in Nat \ {0},
         NEW f, f = net0.fanin[r][1], NEW g, g = net0.fanin[r][2],
         NEW C \in Feasible(net0, Nodes(net0), lim, r), C # {r}
  PROVE  \E A \in Feasible(net0, Nodes(net0), lim, f), B \in Feasible(net0, Nodes(net0), lim, g) :
           Fitting(net0, lim, f, g, A, B) /\ C = A \cup B
<1>1. /\ r \in Nodes(net0) /\ f \in Nodes(net0) /\ g \in Nodes(net0)
      /\ f \in Fanins(net0, r) /\ g \in Fanins(net0, r)
  BY NetFacts
<1>2. C \subseteq Met(net0, r, C) /\ Cardinality(C) <= lim
  BY <1>1, FeasibleFacts
<1>3. r \notin C
  <2>1. SUFFICES ASSUME r \in C PROVE FALSE
    OBVIOUS
  <2>2. r \in {r} /\ \A m \in (Met(net0, r, C) \cap {r} \cap Logic(net0)) \ C : Fanins(net0, m) \subseteq {r}
    BY <2>1
  <2>3. PICK T : T = {r}
    OBVIOUS
  <2>4. Met(net0, r, C) \subseteq T
    BY <1>1, <2>2, <2>3, MetLeast
  <2> QED BY <1>2, <2>1, <2>3, <2>4
<1>4. /\ f \in Met(net0, r, C) /\ g \in Met(net0, r, C)
      /\ Met(net0, r, C) \subseteq {r} \cup Met(net0, f, C) \cup Met(net0, g, C)
  BY <1>1, <1>3, MetSplits
<1>5. ASSUME NEW x \in Nodes(net0), x \in Met(net0, r, C), NEW D, D = C \cap Met(net0, x, C)
      PROVE  D \in Feasible(net0, Nodes(net0), lim, x) /\ Met(net0, x, D) = Met(net0, x, C)
  <2>1. CASE x \notin C
    BY <1>1, <1>5, <2>1, FeasibleBelow, MetBelow
  <2>2. CASE x \in C
    <3>1. PICK T : T = {x}
      OBVIOUS
    <3>2. x \in T /\ \A m \in (Met(net0, x, C) \cap T \cap Logic(net0)) \ C : Fanins(net0, m) \subseteq T
      BY <2>2, <3>1
    <3>3. Met(net0, x, C) = T
      BY <1>5, <3>1, <3>2, MetLeast, MetFacts
    <3>4. D = {x}
      BY <1>5, <2>2, <3>1, <3>3
    <3>5. {x} \in Feasible(net0, Nodes(net0), lim, x) /\ Met(net0, x, {x}) = {x}
      BY NodeItself
    <3> QED BY <3>1, <3>3, <3>4, <3>5
  <2> QED BY <2>1, <2>2
<1>6. PICK A, B : A = C \cap Met(net0, f, C) /\ B = C \cap Met(net0, g, C)
  OBVIOUS
<1>7. /\ A \in Feasible(net0, Nodes(net0), lim, f) /\ Met(net0, f, A) = Met(net0, f, C)
      /\ B \in Feasible(net0, Nodes(net0), lim, g) /\ Met(net0, g, B) = Met(net0, g, C)
  BY <1>1, <1>4, <1>5, <1>6
<1>8. C = A \cup B
  BY <1>2, <1>3, <1>4, <1>6
<1>9. Fitting(net0, lim, f, g, A, B)
  <2>1. Cardinality(A \cup B) <= lim
    BY <1>2, <1>8
  <2> QED BY <1>6, <1>7, <2>1 DEF Fitting
<1> QED BY <1>7, <1>8, <1>9
=============================================================================
