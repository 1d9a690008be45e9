---------------------------- MODULE TopDownProofs ----------------------------
(***************************************************************************)
(* For every network, every limit and every set of stems: the arrays and   *)
(* marks all levels of the recursion share agree, and found_cut is told    *)
(* every cut of every node within the limit once, and nothing else.        *)
(*                                                                         *)
(* The argument gives each activation that waits the frontier, inputs and  *)
(* marks it saw when it called (a level). The invariant says that a level  *)
(* follows from the one below it by the step the code took, so that what   *)
(* is restored on return is that level; that a cut not yet told is one     *)
(* that some level still has to look for; that a cut told is one no level  *)
(* will look for again; and that the footprint marks hold, at the latest   *)
(* when the activations that owe a mark have returned, every node the cuts *)
(* told meet. The last keeps the search of the fanouts complete.           *)
(***************************************************************************)
EXTENDS TopDown, CutNetProofs, FiniteSetTheorems, SequenceTheorems, WellFoundedInduction, TLAPS

------------------------------------------------------------------------------
\* The footprint of a node is what is marked, if every mark but that of the node
\* itself is on a fanin of a marked node.
LEMMA FootprintIsMarked ==
  ASSUME IsNetwork(net), NEW node \in Nodes(net), fpmark \subseteq Nodes(net),
         \A x \in fpmark : x = node \/ \E m \in fpmark \cap Logic(net) : x \in Fanins(net, m)
  PROVE  Footprint(node) = fpmark
<1> DEFINE Body(f) == [n \in Nodes(net) |->
                         /\ n \in fpmark
                         /\ \/ n = node
                            \/ \E m \in Logic(net) : m > n /\ n \in Fanins(net, m) /\ f[m]]
           in == CHOOSE f : f = Body(f)
<1>1. Footprint(node) = {n \in Nodes(net) : in[n]}
  BY DEF Footprint
<1>2. \E f : f = Body(f)
  <2> DEFINE E == {e \in Logic(net) \X Nodes(net) :
                     e[1] > e[2] /\ e[2] \in Fanins(net, e[1]) /\ e[2] \in fpmark}
  <2>1. Logic(net) \subseteq Nodes(net)
    BY NetFacts
  <2>2. PICK f : /\ f = [n \in Nodes(net) |-> f[n]]
                 /\ \A n \in Nodes(net) :
                      f[n] = (n \in {node} \cap fpmark \/ \E m \in Logic(net) : <<m, n>> \in E /\ f[m])
    <3>1. PICK N, M, B, G : N = Nodes(net) /\ M = Logic(net) /\ B = {node} \cap fpmark /\ G = E
      OBVIOUS
    <3>2. B \in SUBSET N /\ M \in SUBSET N
      BY <2>1, <3>1
    <3> HIDE DEF E
    <3>3. PICK f : IsSearch(f, N, M, G, B)
      BY <3>2, SearchExists
    <3> QED BY <3>1, <3>3 DEF IsSearch
  <2>3. \A n \in Nodes(net) : f[n] = Body(f)[n]
    BY <2>2
  <2>4. f = Body(f)
    BY <2>2, <2>3
  <2> QED BY <2>4
<1>3. in = Body(in)
  BY <1>2
<1> HIDE DEF in
<1>4. \A n \in Nodes(net) : in[n] <=> /\ n \in fpmark
                                      /\ \/ n = node
                                         \/ \E m \in Logic(net) : m > n /\ n \in Fanins(net, m) /\ in[m]
  BY <1>3
<1>5. \A n \in fpmark : in[n]
  <2>1. SUFFICES ASSUME {n \in fpmark : ~in[n]} # {}
                 PROVE  FALSE
    OBVIOUS
  <2>2. PICK n \in {k \in fpmark : ~in[k]} : \A j \in {k \in fpmark : ~in[k]} : j <= n
    <3>1. PICK S : S = {k \in fpmark : ~in[k]}
      OBVIOUS
    <3>2. S \subseteq Nodes(net) /\ S # {}
      BY <2>1, <3>1
    <3>3. \E k \in S : \A j \in S : j <= k
      BY <3>2, GreatestNode
    <3> QED BY <3>1, <3>3
  <2>3. n # node
    BY <1>4, <2>2
  <2>4. PICK m \in fpmark \cap Logic(net) : n \in Fanins(net, m)
    BY <2>2, <2>3
  <2>5. m > n /\ m \in Nat /\ n \in Nat /\ n \in Nodes(net)
    BY <2>4, NetFacts
  <2>6. in[m]
    BY <2>2, <2>4, <2>5
  <2> QED BY <1>4, <2>2, <2>4, <2>5, <2>6
<1> QED BY <1>1, <1>4, <1>5
------------------------------------------------------------------------------
(***************************************************************************)
(* Sequences used as stacks.                                               *)
(***************************************************************************)
LEMMA UptoFacts ==
  ASSUME NEW S, NEW s \in Seq(S), NEW k \in Nat, k <= Len(s)
  PROVE  /\ Upto(s, k) \in Seq(S) /\ Len(Upto(s, k)) = k
         /\ \A i \in 1 .. k : Upto(s, k)[i] = s[i]
BY DEF Upto

LEMMA FrontFacts ==
  ASSUME NEW S, NEW s \in Seq(S), s # <<>>
  PROVE  /\ Len(s) \in Nat \ {0} /\ s[Len(s)] \in S /\ Len(s) - 1 \in Nat
         /\ Upto(s, Len(s) - 1) \in Seq(S) /\ Len(Upto(s, Len(s) - 1)) = Len(s) - 1
         /\ \A i \in 1 .. Len(s) - 1 : Upto(s, Len(s) - 1)[i] = s[i]
         /\ Append(Upto(s, Len(s) - 1), s[Len(s)]) = s
<1>1. PICK k : k = Len(s) /\ k \in Nat \ {0} /\ k - 1 \in Nat /\ k - 1 <= k
  BY EmptySeq
<1>2. s[k] \in S
  BY <1>1, ElementOfSeq
<1>3. PICK t : t = Upto(s, k - 1)
  OBVIOUS
<1>4. t \in Seq(S) /\ Len(t) = k - 1 /\ \A i \in 1 .. k - 1 : t[i] = s[i]
  BY <1>1, <1>3, UptoFacts
<1>5. PICK u : u = Append(t, s[k])
  OBVIOUS
<1>6. u \in Seq(S) /\ Len(u) = k /\ u[k] = s[k] /\ \A i \in 1 .. k - 1 : u[i] = t[i]
  BY <1>1, <1>2, <1>4, <1>5
<1>7. \A i \in 1 .. k : i \in 1 .. k - 1 \/ i = k
  BY <1>1
<1>8. \A i \in 1 .. Len(u) : u[i] = s[i]
  BY <1>4, <1>6, <1>7
<1>9. u = s
  BY <1>1, <1>6, <1>8, SeqEqual
<1> QED BY <1>1, <1>2, <1>3, <1>4, <1>5, <1>9

LEMMA UptoAll ==
  ASSUME NEW S, NEW s \in Seq(S)
  PROVE  Upto(s, Len(s)) = s
BY DEF Upto

LEMMA AppendFacts ==
  ASSUME NEW S, NEW s \in Seq(S), NEW x \in S
  PROVE  /\ Append(s, x) \in Seq(S) /\ Len(Append(s, x)) = Len(s) + 1 /\ Len(s) \in Nat
         /\ Append(s, x)[Len(s) + 1] = x /\ \A i \in 1 .. Len(s) : Append(s, x)[i] = s[i]
         /\ Append(s, x) # <<>>
OBVIOUS

LEMMA UptoAppend ==
  ASSUME NEW S, NEW s \in Seq(S), NEW x \in S, NEW k \in Nat, k <= Len(s)
  PROVE  Upto(Append(s, x), k) = Upto(s, k) /\ k <= Len(Append(s, x))
<1>1. PICK t : t = Append(s, x)
  OBVIOUS
<1>2. t \in Seq(S) /\ Len(t) = Len(s) + 1 /\ Len(s) \in Nat /\ \A i \in 1 .. Len(s) : t[i] = s[i]
  BY <1>1
<1>3. k <= Len(t)
  BY <1>2
<1>4. PICK u, v : u = Upto(t, k) /\ v = Upto(s, k)
  OBVIOUS
<1>5. /\ u \in Seq(S) /\ Len(u) = k /\ \A i \in 1 .. k : u[i] = t[i]
      /\ v \in Seq(S) /\ Len(v) = k /\ \A i \in 1 .. k : v[i] = s[i]
  BY <1>2, <1>3, <1>4, UptoFacts
<1>6. \A i \in 1 .. k : i \in 1 .. Len(s)
  BY <1>2
<1>7. u = v
  BY <1>2, <1>5, <1>6, SeqEqual
<1> QED BY <1>1, <1>3, <1>4, <1>7

LEMMA ValuesFacts ==
  ASSUME NEW S, NEW s \in Seq(S)
  PROVE  /\ Values(s) \subseteq S
         /\ \A i \in 1 .. Len(s) : s[i] \in Values(s)
         /\ s = <<>> <=> Values(s) = {}
<1>1. s = <<>> => Values(s) = {}
  BY DEF Values
<1>2. s # <<>> => 1 \in 1 .. Len(s)
  OBVIOUS
<1>3. \A i \in 1 .. Len(s) : s[i] \in Values(s) /\ s[i] \in S
  BY DEF Values
<1> QED BY <1>1, <1>2, <1>3 DEF Values

LEMMA ValuesAppend ==
  ASSUME NEW S, NEW s \in Seq(S), NEW x \in S
  PROVE  /\ Values(Append(s, x)) = Values(s) \cup {x}
         /\ Sequential(Append(s, x)) <=> Sequential(s) /\ x \notin Values(s)
<1>1. PICK t, n : t = Append(s, x) /\ n = Len(s) /\ n \in Nat
  BY LenProperties
<1>2. Len(t) = n + 1 /\ t[n + 1] = x /\ \A i \in 1 .. n : t[i] = s[i]
  BY <1>1
<1>3. \A i \in 1 .. n + 1 : i \in 1 .. n \/ i = n + 1
  BY <1>1
<1>4. \A i \in 1 .. n : i \in 1 .. n + 1 /\ i # n + 1
  BY <1>1
<1>5. n + 1 \in 1 .. n + 1
  BY <1>1
<1>6. Values(t) = Values(s) \cup {x}
  BY <1>1, <1>2, <1>3, <1>4, <1>5 DEF Values
<1>7. Sequential(t) => Sequential(s) /\ x \notin Values(s)
  BY <1>1, <1>2, <1>4, <1>5 DEF Values, Sequential
<1>8. Sequential(s) /\ x \notin Values(s) => Sequential(t)
  BY <1>1, <1>2, <1>3, <1>4 DEF Values, Sequential
<1> QED BY <1>1, <1>6, <1>7, <1>8

LEMMA ValuesCount ==
  ASSUME NEW S, NEW s \in Seq(S), Sequential(s)
  PROVE  IsFiniteSet(Values(s)) /\ Cardinality(Values(s)) = Len(s)
<1>1. PICK k \in Nat : k = Len(s)
  OBVIOUS
<1>2. IsFiniteSet(1 .. k) /\ Cardinality(1 .. k) = k
  BY FS_Interval
<1>3. PICK T : T = Values(s)
  OBVIOUS
<1> DEFINE f == [i \in 1 .. k |-> s[i]]
<1>4. f \in [1 .. k -> T]
  BY <1>1, <1>3 DEF Values
<1>5. \A t \in T : \E i \in 1 .. k : f[i] = t
  BY <1>1, <1>3 DEF Values
<1>6. \A i, j \in 1 .. k : f[i] = f[j] => i = j
  BY <1>1 DEF Sequential
<1>7. f \in Surjection(1 .. k, T) /\ f \in Injection(1 .. k, T)
  <2> HIDE DEF f
  <2> QED BY <1>4, <1>5, <1>6 DEF Surjection, Injection, IsInjective
<1> HIDE DEF f
<1> QED BY <1>1, <1>2, <1>3, <1>7, FS_Surjection
------------------------------------------------------------------------------
(***************************************************************************)
(* The activations of enum_recur.  A level is what one finds when it is     *)
(* called, and what it leaves when it returns: the frontier stack, the     *)
(* inputs and the states.  c is the node whose cuts are enumerated with    *)
(* what stays the same meanwhile, s the activations that wait.             *)
(***************************************************************************)
Marks == {"free", "inside", "input"}
Levels(c) == [fs : Seq(Nodes(c.net)), ins : Seq(Nodes(c.net)), st : [Nodes(c.net) -> Marks]]
InputFrames(c)  == [node : Nodes(c.net), for : {"input"}]
InsideFrames(c) == [node : Nodes(c.net), for : {"inside"}, new : SUBSET Nodes(c.net),
                    old_fs_pos : Nat, old_input_pos : Nat, has_cuts : {"true", "false"}]
Frames(c) == InputFrames(c) \cup InsideFrames(c)

\* The nodes the first k activations have put inside, or try as inputs.
Inside(s, k) == {s[j].node : j \in {i \in 1 .. k : s[i].for = "inside"}}
Tried(s, k)  == {s[j].node : j \in {i \in 1 .. k : s[i].for = "input"}}

\* A level fits what its callers have inside and try as inputs.
Fits(c, a, I, T) ==
  /\ Sequential(a.fs) /\ Sequential(a.ins)
  /\ \A n \in Nodes(c.net) :
       /\ a.st[n] = "input" <=> n \in Values(a.ins)
       /\ a.st[n] = "inside" <=> n \in Values(a.fs) \cup I
       /\ a.st[n] # "free" => n = c.root \/ \E m \in I : n \in Fanins(c.net, m)
  /\ a.st[c.root] # "free"
  /\ Values(a.fs) \cap I = {} /\ T \subseteq Values(a.ins)
  /\ Values(a.ins) \subseteq c.stem /\ Len(a.ins) <= c.limit
  /\ \A m \in Values(a.fs) \cup I : m \in Logic(c.net) /\ Fanins(c.net, m) \subseteq c.open

Good(c, a, I, T) ==
  /\ Fits(c, a, I, T)
  /\ \A m \in I : \A n \in Fanins(c.net, m) : a.st[n] # "free"

\* The level of the outermost call.
Start(c) == [fs |-> <<c.root>>, ins |-> <<>>,
             st |-> [n \in Nodes(c.net) |-> IF n = c.root THEN "inside" ELSE "free"]]

\* The activation f called from level a enters level b.
Went(a, f, b) ==
  /\ a.fs # <<>> /\ f.node = a.fs[Len(a.fs)]
  /\ f.for = "input" => /\ b.fs = Upto(a.fs, Len(a.fs) - 1) /\ b.ins = Append(a.ins, f.node)
                        /\ b.st = [a.st EXCEPT ![f.node] = "input"]
  /\ f.for = "inside" =>
       /\ f.old_fs_pos = Len(a.fs) - 1 /\ f.old_fs_pos <= Len(b.fs)
       /\ Upto(b.fs, f.old_fs_pos) = Upto(a.fs, Len(a.fs) - 1)
       /\ f.old_input_pos = Len(a.ins) /\ f.old_input_pos <= Len(b.ins)
       /\ Upto(b.ins, f.old_input_pos) = a.ins
       /\ \A n \in DOMAIN a.st : b.st[n] = a.st[n] \/ n \in f.new
       /\ \A n \in f.new : a.st[n] = "free"

Structure(c, h, s) ==
  /\ h \in Seq(Levels(c)) /\ s \in Seq(Frames(c)) /\ Len(h) = Len(s) + 1
  /\ h[1] = Start(c)
  /\ \A i \in 1 .. Len(s) : Went(h[i], s[i], h[i + 1])
  /\ \A i \in 1 .. Len(h) : Good(c, h[i], Inside(s, i - 1), Tried(s, i - 1))

\* What stays the same while the cuts of the node c.root are enumerated.  The
\* search stops at c.edge and does not leave c.open before.
Context(c) ==
  /\ IsNetwork(c.net) /\ c.limit \in Nat \ {0}
  /\ Inputs(c.net) \subseteq c.stem /\ c.stem \subseteq Nodes(c.net)
  /\ c.root \in Logic(c.net) \cap c.stem
  /\ c.open \subseteq Nodes(c.net) /\ Fanins(c.net, c.root) \subseteq c.open
  /\ \A n \in c.open \ c.edge : n \in Logic(c.net) /\ Fanins(c.net, n) \subseteq c.open
  /\ \A C \in Feasible(c.net, c.stem, c.limit, c.root) :
       ((Met(c.net, c.root, C) \ C) \cap c.edge) \subseteq {c.root}

LEMMA CallersKept ==
  ASSUME NEW s, NEW t, NEW k \in Nat, \A i \in 1 .. k : s[i] = t[i]
  PROVE  Inside(s, k) = Inside(t, k) /\ Tried(s, k) = Tried(t, k)
BY DEF Inside, Tried

LEMMA CallersMore ==
  ASSUME NEW s, NEW k \in Nat
  PROVE  /\ Inside(s, k + 1) = Inside(s, k) \cup (IF s[k + 1].for = "inside" THEN {s[k + 1].node} ELSE {})
         /\ Tried(s, k + 1) = Tried(s, k) \cup (IF s[k + 1].for = "input" THEN {s[k + 1].node} ELSE {})
         /\ Inside(s, 0) = {} /\ Tried(s, 0) = {}
<1>1. \A i : i \in 1 .. k + 1 <=> i \in 1 .. k \/ i = k + 1
  OBVIOUS
<1>2. 1 .. 0 = {}
  OBVIOUS
<1> QED BY <1>1, <1>2 DEF Inside, Tried

\* A call.
LEMMA StructurePush ==
  ASSUME NEW c, NEW h, NEW s, Structure(c, h, s),
         NEW f \in Frames(c), NEW b \in Levels(c), Went(h[Len(h)], f, b),
         Good(c, b, Inside(s, Len(s)) \cup (IF f.for = "inside" THEN {f.node} ELSE {}),
                    Tried(s, Len(s)) \cup (IF f.for = "input" THEN {f.node} ELSE {}))
  PROVE  Structure(c, Append(h, b), Append(s, f))
<1>1. PICK k \in Nat : k = Len(s) /\ Len(h) = k + 1
  BY LenProperties DEF Structure
<1>2. PICK g, t : g = Append(h, b) /\ t = Append(s, f)
  OBVIOUS
<1>3. /\ g \in Seq(Levels(c)) /\ Len(g) = k + 2 /\ g[k + 2] = b /\ \A i \in 1 .. k + 1 : g[i] = h[i]
      /\ t \in Seq(Frames(c)) /\ Len(t) = k + 1 /\ t[k + 1] = f /\ \A i \in 1 .. k : t[i] = s[i]
  BY <1>1, <1>2, AppendFacts DEF Structure
<1>4. ASSUME NEW i \in 1 .. Len(t) PROVE Went(g[i], t[i], g[i + 1])
  <2>1. CASE i = k + 1
    <3>1. k + 1 \in 1 .. k + 1 /\ (k + 1) + 1 = k + 2
      BY <1>1
    <3>2. g[i] = h[Len(h)] /\ t[i] = f /\ g[i + 1] = b
      BY <1>1, <1>3, <2>1, <3>1
    <3> QED BY <3>2
  <2>2. CASE i # k + 1
    <3>1. i \in 1 .. k /\ i \in 1 .. k + 1 /\ i + 1 \in 1 .. k + 1
      BY <1>1, <1>3, <2>2
    <3> QED BY <1>1, <1>3, <3>1 DEF Structure
  <2> QED BY <2>1, <2>2
<1>5. ASSUME NEW i \in 1 .. Len(g) PROVE Good(c, g[i], Inside(t, i - 1), Tried(t, i - 1))
  <2>1. CASE i = k + 2
    <3>1. Inside(t, k) = Inside(s, k) /\ Tried(t, k) = Tried(s, k)
      BY <1>1, <1>3, CallersKept
    <3>2. /\ Inside(t, k + 1) = Inside(s, k) \cup (IF f.for = "inside" THEN {f.node} ELSE {})
          /\ Tried(t, k + 1) = Tried(s, k) \cup (IF f.for = "input" THEN {f.node} ELSE {})
      <4>1. t[k + 1] = f
        BY <1>3
      <4>2. /\ Inside(t, k + 1) = Inside(t, k) \cup (IF t[k + 1].for = "inside" THEN {t[k + 1].node} ELSE {})
            /\ Tried(t, k + 1) = Tried(t, k) \cup (IF t[k + 1].for = "input" THEN {t[k + 1].node} ELSE {})
        BY CallersMore
      <4> QED BY <3>1, <4>1, <4>2
    <3>3. i - 1 = k + 1
      BY <1>1, <2>1
    <3> QED BY <1>1, <1>3, <2>1, <3>2, <3>3
  <2>2. CASE i # k + 2
    <3>1. i \in 1 .. k + 1 /\ i - 1 \in Nat /\ \A j \in 1 .. i - 1 : j \in 1 .. k
      BY <1>1, <1>3, <2>2
    <3>2. Inside(t, i - 1) = Inside(s, i - 1) /\ Tried(t, i - 1) = Tried(s, i - 1)
      BY <1>3, <3>1, CallersKept
    <3> QED BY <1>1, <1>3, <3>1, <3>2 DEF Structure
  <2> QED BY <2>1, <2>2
<1>6. Len(g) = Len(t) + 1 /\ g[1] = Start(c)
  <2>1. 1 \in 1 .. k + 1
    BY <1>1
  <2> QED BY <1>1, <1>3, <2>1 DEF Structure
<1> QED BY <1>2, <1>3, <1>4, <1>5, <1>6 DEF Structure

\* A return.
LEMMA StructurePop ==
  ASSUME NEW c, NEW h, NEW s, Structure(c, h, s), s # <<>>
  PROVE  Structure(c, Upto(h, Len(h) - 1), Upto(s, Len(s) - 1))
<1>1. PICK k \in Nat : Len(s) = k + 1 /\ Len(h) = k + 2
  <2>1. Len(s) \in Nat \ {0}
    BY FrontFacts DEF Structure
  <2> QED BY <2>1 DEF Structure
<1>2. PICK g, t : g = Upto(h, k + 1) /\ t = Upto(s, k)
  OBVIOUS
<1>3. /\ g \in Seq(Levels(c)) /\ Len(g) = k + 1 /\ \A i \in 1 .. k + 1 : g[i] = h[i]
      /\ t \in Seq(Frames(c)) /\ Len(t) = k /\ \A i \in 1 .. k : t[i] = s[i]
  <2>1. h \in Seq(Levels(c)) /\ k + 1 \in Nat /\ k + 1 <= Len(h)
    BY <1>1 DEF Structure
  <2>2. s \in Seq(Frames(c)) /\ k <= Len(s)
    BY <1>1 DEF Structure
  <2>3. g \in Seq(Levels(c)) /\ Len(g) = k + 1 /\ \A i \in 1 .. k + 1 : g[i] = h[i]
    BY <1>2, <2>1, UptoFacts
  <2>4. t \in Seq(Frames(c)) /\ Len(t) = k /\ \A i \in 1 .. k : t[i] = s[i]
    BY <1>2, <2>2, UptoFacts
  <2> QED BY <2>3, <2>4
<1>4. ASSUME NEW i \in 1 .. Len(t) PROVE Went(g[i], t[i], g[i + 1])
  <2>1. i \in 1 .. k /\ i \in 1 .. k + 1 /\ i + 1 \in 1 .. k + 1
    BY <1>1, <1>3
  <2> QED BY <1>1, <1>3, <2>1 DEF Structure
<1>5. ASSUME NEW i \in 1 .. Len(g) PROVE Good(c, g[i], Inside(t, i - 1), Tried(t, i - 1))
  <2>1. i \in 1 .. k + 1 /\ i \in 1 .. k + 2 /\ i - 1 \in Nat /\ \A j \in 1 .. i - 1 : j \in 1 .. k
    BY <1>1, <1>3
  <2>2. Inside(t, i - 1) = Inside(s, i - 1) /\ Tried(t, i - 1) = Tried(s, i - 1)
    BY <1>3, <2>1, CallersKept
  <2> QED BY <1>1, <1>3, <2>1, <2>2 DEF Structure
<1>6. Len(h) - 1 = k + 1 /\ Len(s) - 1 = k
  BY <1>1
<1>7. g[1] = Start(c)
  <2>1. 1 \in 1 .. k + 1
    BY <1>1
  <2> QED BY <1>1, <1>3, <2>1 DEF Structure
<1> QED BY <1>2, <1>3, <1>4, <1>5, <1>6, <1>7 DEF Structure

\* The node an activation pops.
LEMMA TopFacts ==
  ASSUME NEW c, NEW a \in Levels(c), NEW I, NEW T, Fits(c, a, I, T), a.fs # <<>>,
         NEW node, node = a.fs[Len(a.fs)], NEW front, front = Upto(a.fs, Len(a.fs) - 1)
  PROVE  /\ node \in Nodes(c.net) /\ front \in Seq(Nodes(c.net)) /\ Sequential(front)
         /\ Append(front, node) = a.fs /\ Len(front) = Len(a.fs) - 1 /\ Len(front) \in Nat
         /\ Values(a.fs) = Values(front) \cup {node} /\ node \notin Values(front)
         /\ a.st[node] = "inside" /\ node \notin Values(a.ins) /\ node \notin I
         /\ node \in Logic(c.net) /\ Fanins(c.net, node) \subseteq c.open
<1>1. a.fs \in Seq(Nodes(c.net)) /\ Sequential(a.fs)
  BY DEF Levels, Fits
<1>2. /\ node \in Nodes(c.net) /\ front \in Seq(Nodes(c.net))
      /\ Append(front, node) = a.fs /\ Len(front) = Len(a.fs) - 1 /\ Len(front) \in Nat
  BY <1>1, FrontFacts
<1>3. /\ Values(a.fs) = Values(front) \cup {node}
      /\ Sequential(front) /\ node \notin Values(front)
  <2>1. /\ Values(Append(front, node)) = Values(front) \cup {node}
        /\ Sequential(Append(front, node)) <=> Sequential(front) /\ node \notin Values(front)
    BY <1>2, ValuesAppend
  <2> QED BY <1>1, <1>2, <2>1
<1>4. node \in Values(a.fs)
  BY <1>3
<1>5. a.st[node] = "inside" /\ node \notin I /\ node \in Logic(c.net) /\ Fanins(c.net, node) \subseteq c.open
  BY <1>2, <1>4 DEF Fits
<1>6. node \notin Values(a.ins)
  BY <1>2, <1>5 DEF Fits
<1> QED BY <1>2, <1>3, <1>5, <1>6

\* TryInput.
Tries(a, node, f, b) ==
  /\ b = [fs |-> Upto(a.fs, Len(a.fs) - 1), ins |-> Append(a.ins, node),
          st |-> [a.st EXCEPT ![node] = "input"]]
  /\ f = [node |-> node, for |-> "input"]

LEMMA TryFits ==
  ASSUME NEW c, c.limit \in Nat, NEW a \in Levels(c), NEW I, NEW T, Good(c, a, I, T), a.fs # <<>>,
         NEW node, node = a.fs[Len(a.fs)], node \in c.stem, Len(a.ins) < c.limit,
         NEW b, NEW f, Tries(a, node, f, b)
  PROVE  b \in Levels(c) /\ f \in Frames(c) /\ Went(a, f, b) /\ Good(c, b, I, T \cup {node})
<1>1. PICK front : front = Upto(a.fs, Len(a.fs) - 1)
  OBVIOUS
<1>0. Fits(c, a, I, T)
  BY DEF Good
<1>2. /\ node \in Nodes(c.net) /\ front \in Seq(Nodes(c.net)) /\ Sequential(front)
      /\ Values(a.fs) = Values(front) \cup {node} /\ node \notin Values(front)
      /\ a.st[node] = "inside" /\ node \notin Values(a.ins) /\ node \notin I
  BY <1>0, <1>1, TopFacts
<1>3. a.ins \in Seq(Nodes(c.net)) /\ Sequential(a.ins) /\ a.st \in [Nodes(c.net) -> Marks]
  BY <1>0 DEF Levels, Fits
<1>4. /\ b.ins \in Seq(Nodes(c.net)) /\ Len(b.ins) = Len(a.ins) + 1 /\ Len(a.ins) \in Nat
      /\ Values(b.ins) = Values(a.ins) \cup {node} /\ Sequential(b.ins)
  <2>1. PICK is : is = Append(a.ins, node)
    OBVIOUS
  <2>2. /\ is \in Seq(Nodes(c.net)) /\ Len(is) = Len(a.ins) + 1 /\ Len(a.ins) \in Nat
        /\ Values(is) = Values(a.ins) \cup {node} /\ Sequential(is)
    BY <1>2, <1>3, <2>1, AppendFacts, ValuesAppend
  <2> QED BY <2>1, <2>2 DEF Tries
<1>5. /\ b.st \in [Nodes(c.net) -> Marks] /\ b.st[node] = "input"
      /\ \A n \in Nodes(c.net) : n # node => b.st[n] = a.st[n]
  BY <1>2, <1>3 DEF Marks, Tries
<1>6. b.fs = front
  BY <1>1 DEF Tries
<1>7. b \in Levels(c) /\ f \in Frames(c)
  BY <1>1, <1>2, <1>4, <1>5 DEF Levels, Frames, InputFrames, Tries
<1>8. Went(a, f, b)
  BY DEF Went, Tries
<1>9. Fits(c, b, I, T \cup {node})
  <2>1. ASSUME NEW n \in Nodes(c.net)
        PROVE  /\ b.st[n] = "input" <=> n \in Values(b.ins)
               /\ b.st[n] = "inside" <=> n \in Values(b.fs) \cup I
               /\ b.st[n] # "free" => n = c.root \/ \E m \in I : n \in Fanins(c.net, m)
    <3>1. /\ a.st[n] = "input" <=> n \in Values(a.ins)
          /\ a.st[n] = "inside" <=> n \in Values(a.fs) \cup I
          /\ a.st[n] # "free" => n = c.root \/ \E m \in I : n \in Fanins(c.net, m)
      BY <1>0 DEF Fits
    <3>2. CASE n = node
      BY <1>2, <1>4, <1>5, <1>6, <3>1, <3>2
    <3>3. CASE n # node
      BY <1>2, <1>4, <1>5, <1>6, <3>1, <3>3
    <3> QED BY <3>2, <3>3
  <2>2. b.st[c.root] # "free"
    <3>1. c.root \in Nodes(c.net) => b.st[c.root] # "free"
      BY <1>0, <1>2, <1>5 DEF Fits
    <3>2. c.root \notin Nodes(c.net) => b.st[c.root] = a.st[c.root]
      BY <1>2, <1>3 DEF Tries
    <3> QED BY <1>0, <3>1, <3>2 DEF Fits
  <2>3. /\ Values(b.fs) \cap I = {} /\ T \cup {node} \subseteq Values(b.ins)
        /\ Values(b.ins) \subseteq c.stem /\ Len(b.ins) <= c.limit
        /\ \A m \in Values(b.fs) \cup I : m \in Logic(c.net) /\ Fanins(c.net, m) \subseteq c.open
    BY <1>0, <1>2, <1>4, <1>6 DEF Fits
  <2> QED BY <1>2, <1>4, <1>6, <2>1, <2>2, <2>3 DEF Fits
<1>10. \A m \in I : \A n \in Fanins(c.net, m) : b.st[n] # "free"
  <2>1. \A n : n # node => b.st[n] = a.st[n]
    BY <1>2, <1>3 DEF Tries
  <2> QED BY <1>5, <2>1 DEF Good
<1> QED BY <1>7, <1>8, <1>9, <1>10 DEF Good

\* What AfterInput and AfterInside restore.
LEMMA BackFromInput ==
  ASSUME NEW c, NEW a \in Levels(c), NEW I, NEW T, Good(c, a, I, T), NEW b \in Levels(c),
         NEW f, Went(a, f, b), f.for = "input"
  PROVE  /\ b.fs = Upto(a.fs, Len(a.fs) - 1) /\ Upto(b.ins, Len(b.ins) - 1) = a.ins
         /\ [b.st EXCEPT ![f.node] = "inside"] = a.st
<1>1. /\ a.fs # <<>> /\ f.node = a.fs[Len(a.fs)] /\ b.fs = Upto(a.fs, Len(a.fs) - 1)
      /\ b.ins = Append(a.ins, f.node) /\ b.st = [a.st EXCEPT ![f.node] = "input"]
  BY DEF Went
<1>2. f.node \in Nodes(c.net) /\ a.st[f.node] = "inside"
  <2>1. Fits(c, a, I, T)
    BY DEF Good
  <2> QED BY <1>1, <2>1, TopFacts
<1>3. a.ins \in Seq(Nodes(c.net)) /\ a.st \in [Nodes(c.net) -> Marks]
  BY DEF Levels
<1>4. Upto(b.ins, Len(b.ins) - 1) = a.ins
  <2>1. Len(a.ins) \in Nat /\ Len(b.ins) = Len(a.ins) + 1
    BY <1>1, <1>2, <1>3, AppendFacts
  <2>2. Upto(Append(a.ins, f.node), Len(a.ins)) = Upto(a.ins, Len(a.ins))
    BY <1>2, <1>3, <2>1, UptoAppend
  <2>3. Upto(a.ins, Len(a.ins)) = a.ins
    BY <1>3, UptoAll
  <2>4. Len(b.ins) - 1 = Len(a.ins)
    BY <2>1
  <2> QED BY <1>1, <2>2, <2>3, <2>4
<1>5. [b.st EXCEPT ![f.node] = "inside"] = a.st
  BY <1>1, <1>2, <1>3
<1> QED BY <1>1, <1>4, <1>5

LEMMA BackFromInside ==
  ASSUME NEW c, NEW a \in Levels(c), NEW I, NEW T, Good(c, a, I, T), NEW b \in Levels(c),
         NEW f, Went(a, f, b), f.for = "inside"
  PROVE  /\ Append(Upto(b.fs, f.old_fs_pos), f.node) = a.fs /\ Upto(b.ins, f.old_input_pos) = a.ins
         /\ [n \in Nodes(c.net) |-> IF n \in f.new THEN "free"
                                    ELSE IF n = f.node THEN "inside" ELSE b.st[n]] = a.st
<1>1. /\ a.fs # <<>> /\ f.node = a.fs[Len(a.fs)] 
      /\ Upto(b.fs, f.old_fs_pos) = Upto(a.fs, Len(a.fs) - 1) /\ Upto(b.ins, f.old_input_pos) = a.ins
      /\ \A n \in DOMAIN a.st : b.st[n] = a.st[n] \/ n \in f.new
      /\ \A n \in f.new : a.st[n] = "free"
  BY DEF Went
<1>2. /\ f.node \in Nodes(c.net) /\ a.st[f.node] = "inside"
      /\ Append(Upto(a.fs, Len(a.fs) - 1), f.node) = a.fs
  <2>1. Fits(c, a, I, T)
    BY DEF Good
  <2> QED BY <1>1, <2>1, TopFacts
<1>3. a.st \in [Nodes(c.net) -> Marks]
  BY DEF Levels
<1>4. \A n \in Nodes(c.net) : (IF n \in f.new THEN "free"
                               ELSE IF n = f.node THEN "inside" ELSE b.st[n]) = a.st[n]
  BY <1>1, <1>2, <1>3
<1> QED BY <1>1, <1>2, <1>3, <1>4

\* A free fanin goes into the frontier, or among the inputs.
PutInside(a, i, b) ==
  b.fs = Append(a.fs, i) /\ b.ins = a.ins /\ b.st = [a.st EXCEPT ![i] = "inside"]
PutInput(a, i, b) ==
  b.fs = a.fs /\ b.ins = Append(a.ins, i) /\ b.st = [a.st EXCEPT ![i] = "input"]

LEMMA FitsInside ==
  ASSUME NEW c, NEW a \in Levels(c), NEW I, NEW T, Fits(c, a, I, T),
         NEW i \in Logic(c.net), i \in Nodes(c.net), Fanins(c.net, i) \subseteq c.open,
         a.st[i] = "free", \E m \in I : i \in Fanins(c.net, m),
         NEW b, PutInside(a, i, b)
  PROVE  /\ b.fs \in Seq(Nodes(c.net)) /\ b.st \in [Nodes(c.net) -> Marks]
         /\ b.st[i] # "free" /\ \A n \in Nodes(c.net) : n # i => b.st[n] = a.st[n]
         /\ Fits(c, b, I, T)
<1>1. /\ a.fs \in Seq(Nodes(c.net)) /\ a.ins \in Seq(Nodes(c.net)) /\ a.st \in [Nodes(c.net) -> Marks]
      /\ Sequential(a.fs) /\ Sequential(a.ins)
  BY DEF Levels, Fits
<1>2. i \notin Values(a.fs) \cup I /\ i \notin Values(a.ins)
  BY DEF Fits
<1>3. /\ b.fs \in Seq(Nodes(c.net)) /\ Values(b.fs) = Values(a.fs) \cup {i} /\ Sequential(b.fs)
  <2>1. /\ Values(Append(a.fs, i)) = Values(a.fs) \cup {i}
        /\ Sequential(Append(a.fs, i)) <=> Sequential(a.fs) /\ i \notin Values(a.fs)
        /\ Append(a.fs, i) \in Seq(Nodes(c.net))
    BY <1>1, ValuesAppend, AppendFacts
  <2> QED BY <1>1, <1>2, <2>1 DEF PutInside
<1>4. /\ b.st \in [Nodes(c.net) -> Marks] /\ b.st[i] = "inside"
      /\ \A n \in Nodes(c.net) : n # i => b.st[n] = a.st[n]
  BY <1>1 DEF Marks, PutInside
<1>5. ASSUME NEW n \in Nodes(c.net)
      PROVE  /\ b.st[n] = "input" <=> n \in Values(b.ins)
             /\ b.st[n] = "inside" <=> n \in Values(b.fs) \cup I
             /\ b.st[n] # "free" => n = c.root \/ \E m \in I : n \in Fanins(c.net, m)
  <2>1. /\ a.st[n] = "input" <=> n \in Values(a.ins)
        /\ a.st[n] = "inside" <=> n \in Values(a.fs) \cup I
        /\ a.st[n] # "free" => n = c.root \/ \E m \in I : n \in Fanins(c.net, m)
    BY DEF Fits
  <2>2. CASE n = i
    BY <1>2, <1>3, <1>4, <2>1, <2>2 DEF PutInside
  <2>3. CASE n # i
    BY <1>3, <1>4, <2>1, <2>3 DEF PutInside
  <2> QED BY <2>2, <2>3
<1>6. b.st[c.root] # "free"
  <2>1. c.root # i
    BY DEF Fits
  <2> QED BY <1>1, <2>1 DEF Fits, PutInside
<1>7. /\ Values(b.fs) \cap I = {} /\ T \subseteq Values(b.ins)
      /\ Values(b.ins) \subseteq c.stem /\ Len(b.ins) <= c.limit
      /\ \A m \in Values(b.fs) \cup I : m \in Logic(c.net) /\ Fanins(c.net, m) \subseteq c.open
  BY <1>2, <1>3 DEF Fits, PutInside
<1>8. Fits(c, b, I, T)
  BY <1>1, <1>3, <1>5, <1>6, <1>7 DEF Fits, PutInside
<1> QED BY <1>3, <1>4, <1>8

LEMMA FitsInput ==
  ASSUME NEW c, c.limit \in Nat, NEW a \in Levels(c), NEW I, NEW T, Fits(c, a, I, T),
         NEW i \in Nodes(c.net), i \in c.stem, Len(a.ins) < c.limit,
         a.st[i] = "free", \E m \in I : i \in Fanins(c.net, m),
         NEW b, PutInput(a, i, b)
  PROVE  /\ b.ins \in Seq(Nodes(c.net)) /\ b.st \in [Nodes(c.net) -> Marks]
         /\ b.st[i] # "free" /\ \A n \in Nodes(c.net) : n # i => b.st[n] = a.st[n]
         /\ Fits(c, b, I, T)
<1>1. /\ a.fs \in Seq(Nodes(c.net)) /\ a.ins \in Seq(Nodes(c.net)) /\ a.st \in [Nodes(c.net) -> Marks]
      /\ Sequential(a.fs) /\ Sequential(a.ins)
  BY DEF Levels, Fits
<1>2. i \notin Values(a.fs) \cup I /\ i \notin Values(a.ins)
  BY DEF Fits
<1>3. /\ b.ins \in Seq(Nodes(c.net)) /\ Values(b.ins) = Values(a.ins) \cup {i} /\ Sequential(b.ins)
      /\ Len(b.ins) = Len(a.ins) + 1 /\ Len(a.ins) \in Nat
  <2>1. /\ Values(Append(a.ins, i)) = Values(a.ins) \cup {i}
        /\ Sequential(Append(a.ins, i)) <=> Sequential(a.ins) /\ i \notin Values(a.ins)
        /\ Append(a.ins, i) \in Seq(Nodes(c.net))
        /\ Len(Append(a.ins, i)) = Len(a.ins) + 1 /\ Len(a.ins) \in Nat
    BY <1>1, ValuesAppend, AppendFacts
  <2> QED BY <1>1, <1>2, <2>1 DEF PutInput
<1>4. /\ b.st \in [Nodes(c.net) -> Marks] /\ b.st[i] = "input"
      /\ \A n \in Nodes(c.net) : n # i => b.st[n] = a.st[n]
  BY <1>1 DEF Marks, PutInput
<1>5. ASSUME NEW n \in Nodes(c.net)
      PROVE  /\ b.st[n] = "input" <=> n \in Values(b.ins)
             /\ b.st[n] = "inside" <=> n \in Values(b.fs) \cup I
             /\ b.st[n] # "free" => n = c.root \/ \E m \in I : n \in Fanins(c.net, m)
  <2>1. /\ a.st[n] = "input" <=> n \in Values(a.ins)
        /\ a.st[n] = "inside" <=> n \in Values(a.fs) \cup I
        /\ a.st[n] # "free" => n = c.root \/ \E m \in I : n \in Fanins(c.net, m)
    BY DEF Fits
  <2>2. CASE n = i
    BY <1>2, <1>3, <1>4, <2>1, <2>2 DEF PutInput
  <2>3. CASE n # i
    BY <1>3, <1>4, <2>1, <2>3 DEF PutInput
  <2> QED BY <2>2, <2>3
<1>6. b.st[c.root] # "free"
  <2>1. c.root # i
    BY DEF Fits
  <2> QED BY <1>1, <2>1 DEF Fits, PutInput
<1>7. /\ Values(b.fs) \cap I = {} /\ T \subseteq Values(b.ins)
      /\ Values(b.ins) \subseteq c.stem /\ Len(b.ins) <= c.limit
      /\ \A m \in Values(b.fs) \cup I : m \in Logic(c.net) /\ Fanins(c.net, m) \subseteq c.open
  BY <1>2, <1>3 DEF Fits, PutInput
<1>8. Fits(c, b, I, T)
  BY <1>1, <1>3, <1>5, <1>6, <1>7 DEF Fits, PutInput
<1> QED BY <1>3, <1>4, <1>8

\* The second half of enum_recur while it looks at the fanins of node.
LevelOf(w) == [fs |-> w.frontier, ins |-> w.inputs, st |-> w.state]
Work(c, a, front, node, I, T, w) ==
  /\ w \in [go : BOOLEAN, frontier : Seq(Nodes(c.net)), inputs : Seq(Nodes(c.net)),
            state : [Nodes(c.net) -> Marks], new : SUBSET Nodes(c.net)]
  /\ Fits(c, LevelOf(w), I \cup {node}, T)
  /\ Len(front) <= Len(w.frontier) /\ Upto(w.frontier, Len(front)) = front
  /\ Len(a.ins) <= Len(w.inputs) /\ Upto(w.inputs, Len(a.ins)) = a.ins
  /\ \A n \in Nodes(c.net) : w.state[n] = a.st[n] \/ n \in w.new
  /\ \A n \in w.new : a.st[n] = "free"
  /\ \A n \in Values(w.inputs) : n \in Values(a.ins) \/ (n \in c.edge /\ n \in Fanins(c.net, node))

\* Why it gives up.
Blocked(c, w, i) == /\ i \in c.edge /\ i \notin Values(w.inputs)
                    /\ i \notin c.stem \/ c.limit <= Len(w.inputs)

Reached(c, w, i, v) ==
  /\ v.go => w.go /\ v.state[i] # "free"
  /\ \A n \in Nodes(c.net) : w.state[n] # "free" => v.state[n] # "free"
  /\ ~w.go => v = w
  /\ w.go /\ ~v.go => Blocked(c, v, i)

Current(c) == c.net = net /\ c.edge = temp2 /\ c.limit = limit /\ c.stem = stem

LEMMA ReachWorks ==
  ASSUME NEW c, Context(c), Current(c),
         NEW a \in Levels(c), NEW front \in Seq(Nodes(c.net)), NEW node \in Logic(c.net),
         Fanins(c.net, node) \subseteq c.open, NEW I, NEW T, NEW w, Work(c, a, front, node, I, T, w),
         NEW i \in Fanins(c.net, node), NEW v, v = Reach(w, i)
  PROVE  Work(c, a, front, node, I, T, v) /\ Reached(c, w, i, v)
<1>1. /\ w.frontier \in Seq(Nodes(c.net)) /\ w.inputs \in Seq(Nodes(c.net))
      /\ w.state \in [Nodes(c.net) -> Marks] /\ w.new \in SUBSET Nodes(c.net) /\ w.go \in BOOLEAN
      /\ w = [go |-> w.go, frontier |-> w.frontier, inputs |-> w.inputs,
              state |-> w.state, new |-> w.new]
  BY DEF Work
<1>2. /\ i \in Nodes(c.net) /\ i \in c.open /\ c.limit \in Nat
      /\ c.edge = temp2 /\ c.limit = limit /\ c.stem = stem
  BY NetFacts DEF Context, Current
<1>3. CASE ~w.go \/ w.state[i] # "free"
  <2>1. v = w
    BY <1>3 DEF Reach
  <2> QED BY <1>3, <2>1 DEF Reached
<1>4. ASSUME w.go, w.state[i] = "free"
      PROVE  /\ a.st[i] = "free" /\ Fits(c, LevelOf(w), I \cup {node}, T)
             /\ LevelOf(w) \in Levels(c) /\ \E m \in I \cup {node} : i \in Fanins(c.net, m)
             /\ LevelOf(w).fs = w.frontier /\ LevelOf(w).ins = w.inputs /\ LevelOf(w).st = w.state
             /\ i \notin Values(w.inputs)
  <2>1. Fits(c, LevelOf(w), I \cup {node}, T) /\ LevelOf(w) \in Levels(c)
    BY <1>1 DEF Work, LevelOf, Levels
  <2>2. LevelOf(w).fs = w.frontier /\ LevelOf(w).ins = w.inputs /\ LevelOf(w).st = w.state
    BY DEF LevelOf
  <2>3. a.st[i] = "free"
    BY <1>2, <1>4 DEF Work
  <2>4. i \notin Values(w.inputs)
    BY <1>2, <1>4, <2>1, <2>2 DEF Fits
  <2> QED BY <2>1, <2>2, <2>3, <2>4
<1>5. CASE w.go /\ w.state[i] = "free" /\ i \notin temp2
  <2>1. PICK fr, sta, new : /\ fr = Append(w.frontier, i) /\ sta = [w.state EXCEPT ![i] = "inside"]
                            /\ new = w.new \cup {i}
    OBVIOUS
  <2>2. v = [w EXCEPT !.frontier = fr, !.state = sta, !.new = new]
    BY <1>5, <2>1 DEF Reach
  <2>3. v = [go |-> w.go, frontier |-> fr, inputs |-> w.inputs, state |-> sta, new |-> new]
    BY <1>1, <2>2
  <2>4. PICK b : b = LevelOf(v) /\ b.fs = fr /\ b.ins = w.inputs /\ b.st = sta
    <3>1. v.frontier = fr /\ v.inputs = w.inputs /\ v.state = sta
      BY <2>3
    <3>2. LevelOf(v).fs = v.frontier /\ LevelOf(v).ins = v.inputs /\ LevelOf(v).st = v.state
      BY DEF LevelOf
    <3> QED BY <3>1, <3>2
  <2>5. i \in Logic(c.net) /\ Fanins(c.net, i) \subseteq c.open
    BY <1>2, <1>5 DEF Context
  <2>6. /\ fr \in Seq(Nodes(c.net)) /\ sta \in [Nodes(c.net) -> Marks]
        /\ sta[i] # "free" /\ \A n \in Nodes(c.net) : n # i => sta[n] = w.state[n]
        /\ Fits(c, b, I \cup {node}, T)
    <3>1. PICK x, J : x = LevelOf(w) /\ J = I \cup {node}
      OBVIOUS
    <3>2. /\ x \in Levels(c) /\ Fits(c, x, J, T) /\ x.st[i] = "free" /\ \E m \in J : i \in Fanins(c.net, m)
          /\ PutInside(x, i, b) /\ x.st = w.state
      <4>1. x.fs = w.frontier /\ x.ins = w.inputs /\ x.st = w.state
        BY <1>4, <1>5, <3>1
      <4>2. x \in Levels(c) /\ Fits(c, x, J, T) /\ \E m \in J : i \in Fanins(c.net, m)
        BY <1>4, <1>5, <3>1, Zenon
      <4>3. PutInside(x, i, b)
        BY <2>1, <2>4, <4>1, Zenon DEF PutInside
      <4> QED BY <1>5, <4>1, <4>2, <4>3
    <3>3. /\ b.fs \in Seq(Nodes(c.net)) /\ b.st \in [Nodes(c.net) -> Marks]
          /\ b.st[i] # "free" /\ \A n \in Nodes(c.net) : n # i => b.st[n] = x.st[n]
          /\ Fits(c, b, J, T)
      BY <1>2, <2>5, <3>2, FitsInside
    <3> QED BY <2>4, <3>1, <3>2, <3>3
  <2>7. Len(front) <= Len(fr) /\ Upto(fr, Len(front)) = front
    <3>1. Len(front) \in Nat /\ Len(front) <= Len(w.frontier) /\ Upto(w.frontier, Len(front)) = front
      BY LenProperties DEF Work
    <3>2. Len(fr) = Len(w.frontier) + 1 /\ Len(w.frontier) \in Nat
      BY <1>1, <1>2, <2>1, AppendFacts
    <3>3. Upto(Append(w.frontier, i), Len(front)) = Upto(w.frontier, Len(front))
      BY <1>1, <1>2, <3>1, UptoAppend
    <3> QED BY <2>1, <3>1, <3>2, <3>3
  <2>8. /\ new \subseteq Nodes(c.net)
        /\ \A n \in Nodes(c.net) : sta[n] = a.st[n] \/ n \in new
        /\ \A n \in new : a.st[n] = "free"
    BY <1>1, <1>2, <1>4, <1>5, <2>1, <2>6 DEF Work
  <2>9. Work(c, a, front, node, I, T, v)
    BY <1>1, <2>3, <2>4, <2>6, <2>7, <2>8 DEF Work
  <2> QED BY <1>1, <1>5, <2>3, <2>6, <2>9 DEF Reached
<1>6. CASE w.go /\ w.state[i] = "free" /\ i \in temp2 /\ Len(w.inputs) < limit /\ i \in stem
  <2>1. PICK is, sta, new : /\ is = Append(w.inputs, i) /\ sta = [w.state EXCEPT ![i] = "input"]
                            /\ new = w.new \cup {i}
    OBVIOUS
  <2>2. v = [w EXCEPT !.inputs = is, !.state = sta, !.new = new]
    BY <1>6, <2>1 DEF Reach
  <2>3. v = [go |-> w.go, frontier |-> w.frontier, inputs |-> is, state |-> sta, new |-> new]
    BY <1>1, <2>2
  <2>4. PICK b : b = LevelOf(v) /\ b.fs = w.frontier /\ b.ins = is /\ b.st = sta
    <3>1. v.frontier = w.frontier /\ v.inputs = is /\ v.state = sta
      BY <2>3
    <3>2. LevelOf(v).fs = v.frontier /\ LevelOf(v).ins = v.inputs /\ LevelOf(v).st = v.state
      BY DEF LevelOf
    <3> QED BY <3>1, <3>2
  <2>6. /\ is \in Seq(Nodes(c.net)) /\ sta \in [Nodes(c.net) -> Marks]
        /\ sta[i] # "free" /\ \A n \in Nodes(c.net) : n # i => sta[n] = w.state[n]
        /\ Fits(c, b, I \cup {node}, T)
    <3>1. PICK x, J : x = LevelOf(w) /\ J = I \cup {node}
      OBVIOUS
    <3>2. /\ x \in Levels(c) /\ Fits(c, x, J, T) /\ x.st[i] = "free" /\ \E m \in J : i \in Fanins(c.net, m)
          /\ PutInput(x, i, b) /\ x.st = w.state
          /\ i \in c.stem /\ Len(x.ins) < c.limit
      <4>1. x.fs = w.frontier /\ x.ins = w.inputs /\ x.st = w.state
        BY <1>4, <1>6, <3>1
      <4>2. x \in Levels(c) /\ Fits(c, x, J, T) /\ \E m \in J : i \in Fanins(c.net, m)
        BY <1>4, <1>6, <3>1, Zenon
      <4>3. PutInput(x, i, b)
        BY <2>1, <2>4, <4>1, Zenon DEF PutInput
      <4> QED BY <1>2, <1>6, <4>1, <4>2, <4>3
    <3>3. /\ b.ins \in Seq(Nodes(c.net)) /\ b.st \in [Nodes(c.net) -> Marks]
          /\ b.st[i] # "free" /\ \A n \in Nodes(c.net) : n # i => b.st[n] = x.st[n]
          /\ Fits(c, b, J, T)
      BY <1>2, <3>2, FitsInput
    <3> QED BY <2>4, <3>1, <3>2, <3>3
  <2>7. /\ Len(a.ins) <= Len(is) /\ Upto(is, Len(a.ins)) = a.ins
        /\ Values(is) = Values(w.inputs) \cup {i}
    <3>1. Len(a.ins) \in Nat /\ Len(a.ins) <= Len(w.inputs) /\ Upto(w.inputs, Len(a.ins)) = a.ins
      BY LenProperties DEF Work, Levels
    <3>2. Len(is) = Len(w.inputs) + 1 /\ Len(w.inputs) \in Nat
      BY <1>1, <1>2, <2>1, AppendFacts
    <3>3. Upto(Append(w.inputs, i), Len(a.ins)) = Upto(w.inputs, Len(a.ins))
      BY <1>1, <1>2, <3>1, UptoAppend
    <3>4. Values(is) = Values(w.inputs) \cup {i}
      BY <1>1, <1>2, <2>1, ValuesAppend
    <3> QED BY <2>1, <3>1, <3>2, <3>3, <3>4
  <2>8. /\ new \subseteq Nodes(c.net)
        /\ \A n \in Nodes(c.net) : sta[n] = a.st[n] \/ n \in new
        /\ \A n \in new : a.st[n] = "free"
    BY <1>1, <1>2, <1>4, <1>6, <2>1, <2>6 DEF Work
  <2>9. Work(c, a, front, node, I, T, v)
    BY <1>1, <1>2, <1>6, <2>3, <2>4, <2>6, <2>7, <2>8 DEF Work
  <2> QED BY <1>1, <1>6, <2>3, <2>6, <2>9 DEF Reached
<1>7. CASE w.go /\ w.state[i] = "free" /\ i \in temp2 /\ ~(Len(w.inputs) < limit /\ i \in stem)
  <2>1. v = [w EXCEPT !.go = FALSE]
    BY <1>7 DEF Reach
  <2>2. v = [go |-> FALSE, frontier |-> w.frontier, inputs |-> w.inputs,
             state |-> w.state, new |-> w.new]
    BY <1>1, <2>1
  <2>3. LevelOf(v) = LevelOf(w)
    BY <2>2 DEF LevelOf
  <2>4. Work(c, a, front, node, I, T, v)
    BY <1>1, <2>2, <2>3 DEF Work
  <2>5. Blocked(c, v, i)
    <3>1. Len(w.inputs) \in Nat
      BY <1>1, LenProperties
    <3> QED BY <1>2, <1>4, <1>7, <2>2, <3>1 DEF Blocked
  <2> QED BY <1>7, <2>2, <2>4, <2>5 DEF Reached
<1> QED BY <1>3, <1>5, <1>6, <1>7

\* GoInside at level a: the next call, or the reasons to return.
Calls(c, a, node, hc, f, b) ==
  /\ f.for = "inside" /\ f.has_cuts = hc /\ Went(a, f, b)
  /\ \A n \in Values(b.ins) : n \in Values(a.ins) \/ (n \in c.edge /\ n \in Fanins(c.net, node))

GivesUp(c, a, node) ==
  \E X, i : /\ Values(a.ins) \subseteq X
            /\ \A n \in X : n \in Values(a.ins) \/ (n \in c.edge /\ n \in Fanins(c.net, node))
            /\ i \in c.edge /\ i \in Fanins(c.net, node) /\ i \notin X
            /\ i \notin c.stem \/ (IsFiniteSet(X) /\ c.limit <= Cardinality(X))

LEMMA GoesOn ==
  ASSUME NEW c, Context(c), Current(c),
         NEW a \in Levels(c), NEW I, NEW T, Good(c, a, I, T), a.fs # <<>>,
         NEW node, node = a.fs[Len(a.fs)], NEW front, front = Upto(a.fs, Len(a.fs) - 1),
         NEW waiting, NEW hc \in {"true", "false"}, GoInside(node, front, a.ins, a.st, waiting, hc)
  PROVE  \/ \E f \in Frames(c), b \in Levels(c) :
              /\ Calls(c, a, node, hc, f, b) /\ Good(c, b, I \cup {node}, T)
              /\ stack' = Append(waiting, f) /\ mFrontierStack' = b.fs /\ mInputs' = b.ins
              /\ state' = b.st /\ ret' = "call"
         \/ /\ GivesUp(c, a, node)
            /\ stack' = waiting /\ mFrontierStack' = a.fs /\ mInputs' = a.ins
            /\ state' = a.st /\ ret' = hc
<1>1. Fits(c, a, I, T)
  BY DEF Good
<1>2. /\ node \in Nodes(c.net) /\ front \in Seq(Nodes(c.net)) /\ Sequential(front)
      /\ Append(front, node) = a.fs /\ Len(front) = Len(a.fs) - 1 /\ Len(front) \in Nat
      /\ Values(a.fs) = Values(front) \cup {node} /\ node \notin Values(front)
      /\ a.st[node] = "inside" /\ node \notin Values(a.ins) /\ node \notin I
      /\ node \in Logic(c.net) /\ Fanins(c.net, node) \subseteq c.open
  BY <1>1, TopFacts
<1>3. a.ins \in Seq(Nodes(c.net)) /\ a.st \in [Nodes(c.net) -> Marks] /\ a.fs \in Seq(Nodes(c.net))
  BY DEF Levels
<1>4. IsNetwork(c.net) /\ c.limit \in Nat
  BY DEF Context
<1>5. PICK i1, i2 : /\ i1 = net.fanin[node][1] /\ i2 = net.fanin[node][2]
                    /\ Fanins(c.net, node) = {i1, i2} /\ i1 \in Nodes(c.net) /\ i2 \in Nodes(c.net)
                    /\ i1 \in Fanins(c.net, node) /\ i2 \in Fanins(c.net, node)
  <2>1. Fanins(c.net, node) = {net.fanin[node][1], net.fanin[node][2]}
    BY DEF Fanins, Current
  <2>2. Fanins(c.net, node) \subseteq Nodes(c.net)
    BY <1>2, <1>4, NetFacts
  <2> QED BY <2>1, <2>2
<1>6. PICK w0 : w0 = [go |-> TRUE, frontier |-> front, inputs |-> a.ins, state |-> a.st, new |-> {}]
  OBVIOUS
<1>7. PICK w1 : w1 = Reach(w0, i1)
  OBVIOUS
<1>8. PICK w : w = Reach(w1, i2)
  OBVIOUS
<1>9. \/ /\ w.go
         /\ stack' = Append(waiting, [node |-> node, for |-> "inside", new |-> w.new,
                                      old_fs_pos |-> Len(front),
                                      old_input_pos |-> Len(a.ins), has_cuts |-> hc])
         /\ mFrontierStack' = w.frontier /\ mInputs' = w.inputs /\ state' = w.state
         /\ ret' = "call"
      \/ /\ ~w.go
         /\ stack' = waiting
         /\ mFrontierStack' = Append(front, node) /\ mInputs' = a.ins /\ state' = a.st
         /\ ret' = hc
  BY <1>5, <1>6, <1>7, <1>8 DEF GoInside
<1>10. Work(c, a, front, node, I, T, w0) /\ w0.go
  <2>1. w0 \in [go : BOOLEAN, frontier : Seq(Nodes(c.net)), inputs : Seq(Nodes(c.net)),
                state : [Nodes(c.net) -> Marks], new : SUBSET Nodes(c.net)]
    BY <1>2, <1>3, <1>6
  <2>2. Fits(c, LevelOf(w0), I \cup {node}, T)
    <3>1. PICK x, J : x = LevelOf(w0) /\ x.fs = front /\ x.ins = a.ins /\ x.st = a.st /\ J = I \cup {node}
      <4>1. w0.frontier = front /\ w0.inputs = a.ins /\ w0.state = a.st
        BY <1>6
      <4>2. LevelOf(w0).fs = w0.frontier /\ LevelOf(w0).ins = w0.inputs /\ LevelOf(w0).st = w0.state
        BY DEF LevelOf
      <4> QED BY <4>1, <4>2
    <3>2. Values(x.fs) \cup J = Values(a.fs) \cup I /\ Values(x.fs) \cap J = {}
      BY <1>1, <1>2, <3>1 DEF Fits
    <3>3. \A n \in Nodes(c.net) : /\ x.st[n] = "input" <=> n \in Values(x.ins)
                                  /\ x.st[n] = "inside" <=> n \in Values(x.fs) \cup J
                                  /\ x.st[n] # "free" => n = c.root \/ \E m \in J : n \in Fanins(c.net, m)
      BY <1>1, <3>1, <3>2 DEF Fits
    <3>4. Fits(c, x, J, T)
      BY <1>1, <1>2, <3>1, <3>2, <3>3 DEF Fits
    <3> QED BY <3>1, <3>4
  <2>3. Upto(front, Len(front)) = front /\ Upto(a.ins, Len(a.ins)) = a.ins /\ Len(a.ins) \in Nat
    BY <1>2, <1>3, UptoAll, LenProperties
  <2> QED BY <1>2, <1>3, <1>6, <2>1, <2>2, <2>3 DEF Work
<1>11. /\ Work(c, a, front, node, I, T, w1)
       /\ w1.go => w1.state[i1] # "free"
       /\ ~w1.go => Blocked(c, w1, i1)
  <2>1. Work(c, a, front, node, I, T, w1) /\ Reached(c, w0, i1, w1)
    <3>1. i1 \in Fanins(c.net, node) /\ Fanins(c.net, node) \subseteq c.open
      BY <1>2, <1>5
    <3>2. front \in Seq(Nodes(c.net)) /\ node \in Logic(c.net)
      BY <1>2
    <3>3. Work(c, a, front, node, I, T, w0)
      BY <1>10
    <3> QED BY <1>7, <3>1, <3>2, <3>3, ReachWorks
  <2> QED BY <1>10, <2>1 DEF Reached
<1>12. /\ Work(c, a, front, node, I, T, w)
       /\ w.go => w1.go /\ w.state[i2] # "free"
       /\ \A n \in Nodes(c.net) : w1.state[n] # "free" => w.state[n] # "free"
       /\ ~w1.go => w = w1
       /\ w1.go /\ ~w.go => Blocked(c, w, i2)
  <2>1. i2 \in Fanins(c.net, node) /\ Fanins(c.net, node) \subseteq c.open
    BY <1>2, <1>5
  <2>2. front \in Seq(Nodes(c.net)) /\ node \in Logic(c.net)
    BY <1>2
  <2>3. Work(c, a, front, node, I, T, w1)
    BY <1>11
  <2>4. Work(c, a, front, node, I, T, w) /\ Reached(c, w1, i2, w)
    BY <1>8, <2>1, <2>2, <2>3, ReachWorks
  <2> QED BY <2>4 DEF Reached
<1>13. /\ w.frontier \in Seq(Nodes(c.net)) /\ w.inputs \in Seq(Nodes(c.net))
       /\ w.state \in [Nodes(c.net) -> Marks] /\ w.new \in SUBSET Nodes(c.net)
       /\ LevelOf(w) \in Levels(c) /\ Fits(c, LevelOf(w), I \cup {node}, T)
       /\ LevelOf(w).fs = w.frontier /\ LevelOf(w).ins = w.inputs /\ LevelOf(w).st = w.state
  BY <1>12 DEF Work, LevelOf, Levels
<1>14. CASE w.go
  <2>1. PICK f : f = [node |-> node, for |-> "inside", new |-> w.new, old_fs_pos |-> Len(front),
                      old_input_pos |-> Len(a.ins), has_cuts |-> hc]
    OBVIOUS
  <2>2. PICK b : b = LevelOf(w)
    OBVIOUS
  <2>3. f \in Frames(c)
    BY <1>2, <1>3, <1>13, <2>1 DEF Frames, InsideFrames
  <2>4. Went(a, f, b)
    <3>1. /\ f.for = "inside" /\ f.node = node /\ f.new = w.new
          /\ f.old_fs_pos = Len(front) /\ f.old_input_pos = Len(a.ins)
      BY <2>1
    <3>2. b.fs = w.frontier /\ b.ins = w.inputs /\ b.st = w.state
      BY <1>13, <2>2
    <3> QED BY <1>2, <1>3, <1>12, <3>1, <3>2 DEF Went, Work
  <2>5. Calls(c, a, node, hc, f, b)
    <3>1. f.for = "inside" /\ f.has_cuts = hc /\ b.ins = w.inputs
      BY <1>13, <2>1, <2>2
    <3> QED BY <1>12, <2>4, <3>1 DEF Calls, Work
  <2>6. Good(c, b, I \cup {node}, T)
    <3>1. Fits(c, b, I \cup {node}, T) /\ b.st = w.state
      BY <1>13, <2>2
    <3>2. ASSUME NEW m \in I, NEW n \in Fanins(c.net, m) PROVE b.st[n] # "free"
      <4>1. m \in Logic(c.net) /\ a.st[n] # "free"
        BY <1>1 DEF Fits, Good
      <4>2. n \in Nodes(c.net)
        BY <1>4, <4>1, NetFacts
      <4> QED BY <1>12, <3>1, <4>1, <4>2 DEF Work
    <3>3. ASSUME NEW n \in Fanins(c.net, node) PROVE b.st[n] # "free"
      BY <1>5, <1>11, <1>12, <1>14, <3>1
    <3> QED BY <3>1, <3>2, <3>3 DEF Good
  <2>7. b \in Levels(c) /\ b.fs = w.frontier /\ b.ins = w.inputs /\ b.st = w.state
    BY <1>13, <2>2
  <2> QED BY <1>9, <1>14, <2>1, <2>3, <2>5, <2>6, <2>7
<1>15. CASE ~w.go
  <2>1. PICK i \in {i1, i2} : Blocked(c, w, i)
    BY <1>11, <1>12, <1>15
  <2>2. PICK X : X = Values(w.inputs)
    OBVIOUS
  <2>3. Values(a.ins) \subseteq X
    <3>1. Len(a.ins) \in Nat /\ Len(a.ins) <= Len(w.inputs) /\ Upto(w.inputs, Len(a.ins)) = a.ins
          /\ Len(w.inputs) \in Nat
      BY <1>3, <1>12, <1>13, LenProperties DEF Work
    <3>2. \A j \in 1 .. Len(a.ins) : a.ins[j] = w.inputs[j]
      BY <1>13, <3>1, UptoFacts
    <3> QED BY <2>2, <3>1, <3>2 DEF Values
  <2>4. IsFiniteSet(X) /\ Cardinality(X) = Len(w.inputs)
    <3>1. Sequential(w.inputs)
      BY <1>13 DEF Fits
    <3> QED BY <1>13, <2>2, <3>1, ValuesCount
  <2>5. GivesUp(c, a, node)
    BY <1>5, <1>12, <2>1, <2>2, <2>3, <2>4 DEF GivesUp, Work, Blocked
  <2> QED BY <1>2, <1>9, <1>15, <2>5
<1> QED BY <1>14, <1>15

\* The level of the activation that runs.
LEMMA LastLevel ==
  ASSUME NEW c, NEW h, NEW s, Structure(c, h, s)
  PROVE  /\ Len(s) \in Nat /\ Len(h) = Len(s) + 1 /\ h[Len(h)] \in Levels(c)
         /\ Good(c, h[Len(h)], Inside(s, Len(s)), Tried(s, Len(s)))
         /\ Fits(c, h[Len(h)], Inside(s, Len(s)), Tried(s, Len(s)))
<1>1. Len(s) \in Nat /\ Len(h) = Len(s) + 1 /\ h \in Seq(Levels(c))
  BY LenProperties DEF Structure
<1>2. PICK k \in Nat : k = Len(s) /\ Len(h) = k + 1
  BY <1>1
<1>3. k + 1 \in 1 .. Len(h) /\ (k + 1) - 1 = k
  BY <1>2
<1>4. Good(c, h[k + 1], Inside(s, (k + 1) - 1), Tried(s, (k + 1) - 1))
  BY <1>3 DEF Structure
<1>5. h[k + 1] \in Levels(c)
  BY <1>1, <1>3
<1> QED BY <1>1, <1>2, <1>3, <1>4, <1>5 DEF Good

\* What is not free is met by a search that does not stop inside.
LEMMA NotFreeMet ==
  ASSUME NEW c, Context(c), NEW a, NEW I, NEW T, Fits(c, a, I, T), NEW C, I \cap C = {}
  PROVE  \A n \in Nodes(c.net) : a.st[n] # "free" => n \in Met(c.net, c.root, C)
<1>1. /\ IsNetwork(c.net) /\ c.root \in Nodes(c.net)
  BY NetFacts DEF Context
<1>2. PICK S : S = {n \in Nodes(c.net) : a.st[n] # "free" /\ n \notin Met(c.net, c.root, C)}
  OBVIOUS
<1>3. SUFFICES ASSUME S # {} PROVE FALSE
  BY <1>2
<1>4. PICK n \in S : \A m \in S : m <= n
  BY <1>1, <1>2, <1>3, GreatestNode
<1>5. n # c.root
  BY <1>1, <1>2, MetFacts
<1>6. PICK m \in I : n \in Fanins(c.net, m)
  BY <1>2, <1>5 DEF Fits
<1>7. m \in Logic(c.net) /\ m \in Nodes(c.net) /\ m > n /\ m \notin C
  <2>1. m \in Logic(c.net)
    BY DEF Fits
  <2>2. m \in Nodes(c.net) /\ n < m /\ m \in Nat /\ n \in Nat
    BY <1>1, <1>2, <1>6, <2>1, NetFacts
  <2> QED BY <2>1, <2>2
<1>8. a.st[m] # "free"
  BY <1>7 DEF Fits
<1>9. m \notin S
  <2>1. n \in Nat /\ m \in Nat
    BY <1>1, <1>2, <1>7, NetFacts
  <2> QED BY <1>4, <1>7, <2>1
<1>10. m \in Met(c.net, c.root, C)
  BY <1>2, <1>7, <1>8, <1>9
<1>11. n \in Met(c.net, c.root, C)
  BY <1>1, <1>6, <1>7, <1>10, MetFacts
<1> QED BY <1>2, <1>11

\* Of the nodes inside the greatest is the root, the least has two inputs.
LEMMA InsideEnds ==
  ASSUME NEW c, Context(c), NEW a \in Levels(c), NEW I, NEW T, Good(c, a, I, T), a.fs = <<>>
  PROVE  /\ c.root \notin I => Values(a.ins) = {c.root} /\ I = {}
         /\ c.root \in I => Len(a.ins) > 1 /\ c.root \notin Values(a.ins)
         /\ Len(a.ins) \in Nat /\ (Values(a.ins) = {c.root} => Len(a.ins) <= 1)
<1>1. IsNetwork(c.net) /\ c.root \in Nodes(c.net) /\ Fits(c, a, I, T)
  BY NetFacts DEF Context, Good
<1>2. a.ins \in Seq(Nodes(c.net)) /\ Values(a.fs) = {} /\ Sequential(a.ins) /\ Len(a.ins) \in Nat
  <2>1. a.ins \in Seq(Nodes(c.net)) /\ a.fs \in Seq(Nodes(c.net))
    BY DEF Levels
  <2>2. Values(a.fs) = {}
    BY <2>1, ValuesFacts
  <2> QED BY <1>1, <2>1, <2>2, LenProperties DEF Fits
<1>3. I \subseteq Logic(c.net) /\ I \subseteq Nodes(c.net)
  BY <1>1, NetFacts DEF Fits
<1>4. ASSUME c.root \notin I PROVE Values(a.ins) = {c.root} /\ I = {}
  <2>1. I = {}
    <3>1. SUFFICES ASSUME I # {} PROVE FALSE
      OBVIOUS
    <3>2. PICK n \in I : \A m \in I : m <= n
      BY <1>1, <1>3, <3>1, GreatestNode
    <3>3. PICK m \in I : n \in Fanins(c.net, m)
      BY <1>1, <1>3, <1>4 DEF Fits
    <3>4. n < m /\ m <= n /\ n \in Nat /\ m \in Nat
      BY <1>1, <1>3, <3>2, <3>3, NetFacts
    <3> QED BY <3>4
  <2>2. c.root \in Values(a.ins)
    BY <1>1, <1>2, <2>1 DEF Fits, Levels, Marks
  <2>3. ASSUME NEW n \in Values(a.ins) PROVE n = c.root
    <3>1. n \in Nodes(c.net)
      BY <1>2, ValuesFacts
    <3>2. a.st[n] = "input"
      BY <1>1, <3>1 DEF Fits
    <3> QED BY <1>1, <2>1, <3>1, <3>2 DEF Fits
  <2> QED BY <2>1, <2>2, <2>3
<1>5. ASSUME c.root \in I PROVE Len(a.ins) > 1 /\ c.root \notin Values(a.ins)
  <2>1. PICK n \in I : \A m \in I : n <= m
    <3>1. I \subseteq Nat
      BY <1>1, <1>3, NetFacts
    <3> QED BY <1>5, <3>1, LeastNumber
  <2>2. n \in Logic(c.net)
    BY <1>3
  <2>3. ASSUME NEW i \in Fanins(c.net, n) PROVE i \in Values(a.ins)
    <3>1. i \in Nodes(c.net) /\ i < n /\ n \in Nat /\ i \in Nat
      BY <1>1, <1>3, <2>2, NetFacts
    <3>2. i \notin I
      BY <2>1, <3>1
    <3>3. a.st[i] # "free"
      BY DEF Good
    <3> QED BY <1>1, <1>2, <3>1, <3>2, <3>3 DEF Fits, Levels, Marks
  <2>4. PICK i, j : i # j /\ i \in Values(a.ins) /\ j \in Values(a.ins)
    BY <1>1, <2>2, <2>3, NetFacts
  <2>5. Len(a.ins) > 1
    BY <1>2, <2>4 DEF Values
  <2>6. c.root \notin Values(a.ins)
    <3>1. a.st[c.root] = "inside"
      BY <1>1, <1>5 DEF Fits
    <3> QED BY <1>1, <3>1 DEF Fits
  <2> QED BY <2>5, <2>6
<1>6. ASSUME Values(a.ins) = {c.root} PROVE Len(a.ins) <= 1
  <2>1. Cardinality(Values(a.ins)) = Len(a.ins)
    BY <1>2, ValuesCount
  <2>2. Cardinality({c.root}) = 1
    BY FS_Singleton
  <2>3. Cardinality(Values(a.ins)) = 1
    BY <1>6, <2>2, Zenon
  <2>4. Len(a.ins) = 1
    BY <2>1, <2>3, Zenon
  <2> QED BY <2>4
<1> QED BY <1>2, <1>4, <1>5, <1>6

\* The cut that has been told is C.
Cut(c, D)  == IF D = {} THEN {c.root} ELSE D
Told(c, C) == IF C = {c.root} THEN {} ELSE C
\* The cuts the activations called from a level look for.
Agrees(a, I, C) == Values(a.ins) \subseteq C /\ I \cap C = {}

LEMMA CutTold ==
  ASSUME NEW c, Context(c), NEW C \in Feasible(c.net, c.stem, c.limit, c.root)
  PROVE  C # {} /\ Cut(c, Told(c, C)) = C
<1>1. IsNetwork(c.net) /\ c.root \in Nodes(c.net) /\ c.limit \in Nat
  BY NetFacts DEF Context
<1>2. C # {}
  BY <1>1, NoEmptyCut
<1> QED BY <1>2 DEF Cut, Told

\* What FoundCut reports.
ReportOf(a) == IF Len(a.ins) > 1 THEN Values(a.ins) ELSE {}
Reported(c, a, I, V, D) ==
  /\ Cut(c, D) = V /\ IsReport(c.net, c.stem, c.limit, c.root, D)
  /\ D \subseteq c.stem \cap 1 .. c.root
  /\ Met(c.net, c.root, V) \subseteq I \cup V /\ V \subseteq Nodes(c.net) /\ I \cap V = {}
  /\ V \subseteq c.stem
  /\ \A n \in V : n = c.root \/ \E m \in I : n \in Fanins(c.net, m)
  /\ \A C \in Feasible(c.net, c.stem, c.limit, c.root) : Agrees(a, I, C) => Told(c, C) = D

LEMMA FoundFacts ==
  ASSUME NEW c, Context(c), NEW a \in Levels(c), NEW I, NEW T, Good(c, a, I, T), a.fs = <<>>,
         NEW V, V = Values(a.ins), NEW D, D = ReportOf(a)
  PROVE  Reported(c, a, I, V, D)
<1>1. /\ IsNetwork(c.net) /\ c.root \in Nodes(c.net) /\ Fits(c, a, I, T)
      /\ c.root \in Logic(c.net) /\ c.root \in c.stem
  BY NetFacts DEF Context, Good
<1>2. /\ Values(a.fs) = {} /\ V \subseteq Nodes(c.net)
  <2>1. a.ins \in Seq(Nodes(c.net)) /\ a.fs \in Seq(Nodes(c.net))
    BY DEF Levels
  <2> QED BY <2>1, ValuesFacts
<1>3. I \cap V = {} /\ V \subseteq c.stem /\ I \subseteq Logic(c.net) /\ I \subseteq Nodes(c.net)
  BY <1>1, <1>2, NetFacts DEF Fits
<1>4. \A n \in Nodes(c.net) : a.st[n] # "free" <=> n \in I \cup V
  BY <1>1, <1>2 DEF Fits, Levels, Marks
<1>5. c.root \in I \cup V
  BY <1>1, <1>4 DEF Fits
<1>6. \A m \in I : Fanins(c.net, m) \subseteq I \cup V
  <2>1. ASSUME NEW m \in I, NEW n \in Fanins(c.net, m) PROVE n \in I \cup V
    <3>1. n \in Nodes(c.net)
      BY <1>1, <1>3, NetFacts
    <3> QED BY <1>4, <3>1 DEF Good
  <2> QED BY <2>1
<1>7. ASSUME NEW C, V \subseteq C PROVE Met(c.net, c.root, C) \subseteq I \cup V
  <2>1. PICK S : S = I \cup V
    OBVIOUS
  <2>2. \A m \in (Met(c.net, c.root, C) \cap S \cap Logic(c.net)) \ C : Fanins(c.net, m) \subseteq S
    BY <1>6, <1>7, <2>1
  <2>3. c.root \in S
    BY <1>5, <2>1
  <2>4. Met(c.net, c.root, C) \subseteq S
    BY <1>1, <2>2, <2>3, MetLeast
  <2> QED BY <2>1, <2>4
<1>8. Met(c.net, c.root, V) \subseteq I \cup V
  BY <1>7
<1>9. V \subseteq Met(c.net, c.root, V)
  BY <1>1, <1>2, <1>3, <1>4, NotFreeMet
<1>10. /\ c.root \notin I => V = {c.root}
       /\ c.root \in I => Len(a.ins) > 1 /\ V # {c.root}
       /\ V = {c.root} => ~(Len(a.ins) > 1)
  BY InsideEnds
<1>11. V # {}
  <2>1. Len(a.ins) > 1 => V # {}
    <3>1. a.ins \in Seq(Nodes(c.net)) /\ Len(a.ins) \in Nat
      BY LenProperties DEF Levels
    <3>2. Len(a.ins) > 1 => 1 \in 1 .. Len(a.ins)
      BY <3>1
    <3>3. Len(a.ins) > 1 => a.ins[1] \in Values(a.ins)
      BY <3>1, <3>2, ValuesFacts
    <3> QED BY <3>3
  <2> QED BY <1>10, <2>1
<1>12. Cut(c, D) = V /\ Told(c, V) = D
  BY <1>10, <1>11 DEF Cut, Told, ReportOf
<1>13. V \subseteq 1 .. c.root
  BY <1>1, <1>9, MetFacts
<1>14. IsReport(c.net, c.stem, c.limit, c.root, D)
  <2>1. CASE D = {}
    BY <2>1 DEF IsReport
  <2>2. CASE D # {}
    <3>1. D = V /\ D # {c.root}
      BY <1>10, <2>2 DEF ReportOf
    <3>2. Cardinality(D) <= c.limit
      <4>1. a.ins \in Seq(Nodes(c.net)) /\ Sequential(a.ins) /\ Len(a.ins) <= c.limit
        BY <1>1 DEF Levels, Fits
      <4>2. Cardinality(Values(a.ins)) = Len(a.ins)
        BY <4>1, ValuesCount
      <4> QED BY <3>1, <4>1, <4>2
    <3>3. (Met(c.net, c.root, V) \ V) \cap Inputs(c.net) = {}
      BY <1>1, <1>3, <1>8, NetFacts
    <3> QED BY <1>1, <1>3, <1>9, <3>1, <3>2, <3>3 DEF IsReport, IsCut
  <2> QED BY <2>1, <2>2
<1>15. ASSUME NEW C \in Feasible(c.net, c.stem, c.limit, c.root), Agrees(a, I, C)
       PROVE  Told(c, C) = D
  <2>1. V \subseteq C /\ I \cap C = {}
    BY <1>15 DEF Agrees
  <2>2. C \subseteq Met(c.net, c.root, C)
    BY <1>1, FeasibleFacts
  <2>3. C = V
    BY <1>7, <2>1, <2>2
  <2> QED BY <1>12, <2>3
<1>16. \A n \in V : n = c.root \/ \E m \in I : n \in Fanins(c.net, m)
  BY <1>1, <1>2, <1>4 DEF Fits
<1>17. D \subseteq c.stem \cap 1 .. c.root
  BY <1>3, <1>13 DEF ReportOf
<1> QED BY <1>2, <1>3, <1>8, <1>12, <1>14, <1>15, <1>16, <1>17 DEF Reported

------------------------------------------------------------------------------
(***************************************************************************)
(* Nothing is lost.  now tells where the activation that runs is: called,  *)
(* about to put its node inside (go), or done.                             *)
(***************************************************************************)
Top(a) == a.fs[Len(a.fs)]

\* What will still be told of C.
Pending(h, s, now, C) ==
  \/ now = "call" /\ Agrees(h[Len(h)], Inside(s, Len(s)), C)
  \/ now = "go" /\ Agrees(h[Len(h)], Inside(s, Len(s)), C) /\ Top(h[Len(h)]) \notin C
  \/ \E i \in 1 .. Len(s) : /\ s[i].for = "input" /\ Agrees(h[i], Inside(s, i - 1), C)
                            /\ s[i].node \notin C

NothingLost(c, h, s, now, fd) ==
  \A C \in Feasible(c.net, c.stem, c.limit, c.root) : Told(c, C) \in fd \/ Pending(h, s, now, C)

\* The activations t are the activations s and one they called.
OneMore(h, s, g, t, k) ==
  /\ k \in Nat /\ Len(s) = k /\ Len(h) = k + 1 /\ Len(t) = k + 1 /\ Len(g) = k + 2
  /\ \A i \in 1 .. k + 1 : g[i] = h[i]
  /\ \A i \in 1 .. k : t[i] = s[i]
  /\ \A i \in 0 .. k : Inside(t, i) = Inside(s, i)

Newest(g, t, k, b, f) == g[k + 2] = b /\ t[k + 1] = f

LEMMA PushIsOneMore ==
  ASSUME NEW c, NEW h, NEW s, Structure(c, h, s), NEW b \in Levels(c), NEW f \in Frames(c),
         NEW g, g = Append(h, b), NEW t, t = Append(s, f), NEW k, k = Len(s)
  PROVE  OneMore(h, s, g, t, k) /\ Newest(g, t, k, b, f)
<1>1. k \in Nat /\ Len(h) = k + 1
  BY LenProperties DEF Structure
<1>3. /\ Len(g) = k + 2 /\ g[k + 2] = b /\ \A i \in 1 .. k + 1 : g[i] = h[i]
      /\ Len(t) = k + 1 /\ t[k + 1] = f /\ \A i \in 1 .. k : t[i] = s[i]
  BY <1>1, AppendFacts DEF Structure
<1>4. ASSUME NEW i \in 0 .. k PROVE Inside(t, i) = Inside(s, i)
  <2>1. i \in Nat /\ \A j \in 1 .. i : t[j] = s[j]
    BY <1>1, <1>3
  <2> QED BY <2>1, CallersKept
<1> QED BY <1>1, <1>3, <1>4 DEF OneMore, Newest

LEMMA PopIsOneLess ==
  ASSUME NEW c, NEW g, NEW t, Structure(c, g, t), t # <<>>
  PROVE  OneMore(Upto(g, Len(g) - 1), Upto(t, Len(t) - 1), g, t, Len(t) - 1)
<1>1. PICK k \in Nat : Len(t) = k + 1 /\ Len(g) = k + 2
  <2>1. Len(t) \in Nat \ {0}
    BY FrontFacts DEF Structure
  <2> QED BY <2>1 DEF Structure
<1>2. PICK h, s : h = Upto(g, k + 1) /\ s = Upto(t, k)
  OBVIOUS
<1>3. /\ Len(h) = k + 1 /\ \A i \in 1 .. k + 1 : h[i] = g[i]
      /\ Len(s) = k /\ \A i \in 1 .. k : s[i] = t[i]
  <2>1. g \in Seq(Levels(c)) /\ k + 1 \in Nat /\ k + 1 <= Len(g)
    BY <1>1 DEF Structure
  <2>2. t \in Seq(Frames(c)) /\ k <= Len(t)
    BY <1>1 DEF Structure
  <2>3. Len(h) = k + 1 /\ \A i \in 1 .. k + 1 : h[i] = g[i]
    BY <1>2, <2>1, UptoFacts
  <2>4. Len(s) = k /\ \A i \in 1 .. k : s[i] = t[i]
    BY <1>2, <2>2, UptoFacts
  <2> QED BY <2>3, <2>4
<1>4. ASSUME NEW i \in 0 .. k PROVE Inside(t, i) = Inside(s, i)
  <2>1. i \in Nat /\ \A j \in 1 .. i : t[j] = s[j]
    BY <1>1, <1>3
  <2> QED BY <2>1, CallersKept
<1>5. Len(t) - 1 = k /\ Len(g) - 1 = k + 1
  BY <1>1
<1> QED BY <1>1, <1>2, <1>3, <1>4, <1>5 DEF OneMore

\* The two levels of a call.
LEMMA KeptFront ==
  ASSUME NEW S, NEW x \in Seq(S), NEW y \in Seq(S), Len(x) <= Len(y), Upto(y, Len(x)) = x
  PROVE  Values(x) \subseteq Values(y)
<1>1. Len(x) \in Nat /\ Len(y) \in Nat
  BY LenProperties
<1>2. \A j \in 1 .. Len(x) : Upto(y, Len(x))[j] = y[j]
  BY <1>1, UptoFacts
<1> QED BY <1>1, <1>2 DEF Values

CallShape(c, a, I, f, b) ==
  /\ f.node \in Nodes(c.net) /\ f.node \in Logic(c.net)
  /\ a.st[f.node] = "inside" /\ f.node \notin Values(a.ins) /\ f.node \notin I
  /\ Values(a.ins) \subseteq Values(b.ins)
  /\ Values(a.fs) \subseteq Values(b.fs) \cup {f.node}
  /\ f.for = "input" => Values(b.ins) = Values(a.ins) \cup {f.node}

LEMMA CallFacts ==
  ASSUME NEW c, NEW a \in Levels(c), NEW b \in Levels(c), NEW f \in Frames(c), Went(a, f, b),
         NEW I, NEW T, Fits(c, a, I, T)
  PROVE  CallShape(c, a, I, f, b)
<1>5. PICK node, front : /\ node = f.node /\ node = a.fs[Len(a.fs)] /\ a.fs # <<>>
                         /\ front = Upto(a.fs, Len(a.fs) - 1)
  BY DEF Went
<1>7. /\ node \in Nodes(c.net) /\ node \in Logic(c.net) /\ front \in Seq(Nodes(c.net))
      /\ a.st[node] = "inside" /\ node \notin Values(a.ins) /\ node \notin I
      /\ Values(a.fs) = Values(front) \cup {node} /\ Len(front) = Len(a.fs) - 1 /\ Len(front) \in Nat
  BY <1>5, TopFacts
<1>9. a.ins \in Seq(Nodes(c.net)) /\ b.ins \in Seq(Nodes(c.net)) /\ b.fs \in Seq(Nodes(c.net))
  BY DEF Levels
<1>10. CASE f.for = "input"
  <2>1. b.fs = front /\ b.ins = Append(a.ins, node)
    BY <1>5, <1>10 DEF Went
  <2>2. Values(Append(a.ins, node)) = Values(a.ins) \cup {node}
    BY <1>7, <1>9, ValuesAppend
  <2> QED BY <1>5, <1>7, <2>1, <2>2 DEF CallShape
<1>11. CASE f.for # "input"
  <2>0. f.for = "inside"
    BY <1>11 DEF Frames, InputFrames, InsideFrames
  <2>1. /\ Len(front) <= Len(b.fs) /\ Upto(b.fs, Len(front)) = front
        /\ Len(a.ins) <= Len(b.ins) /\ Upto(b.ins, Len(a.ins)) = a.ins
    BY <1>5, <1>7, <2>0 DEF Went
  <2>2. Values(front) \subseteq Values(b.fs)
    BY <1>7, <1>9, <2>1, KeptFront
  <2>3. Values(a.ins) \subseteq Values(b.ins)
    BY <1>9, <2>1, KeptFront
  <2> QED BY <1>5, <1>7, <1>11, <2>2, <2>3 DEF CallShape
<1> QED BY <1>10, <1>11

Calling(c, s, t, k, a, f, b) ==
  /\ a \in Levels(c) /\ b \in Levels(c) /\ f \in Frames(c) /\ Went(a, f, b)
  /\ Good(c, a, Inside(s, k), Tried(s, k)) /\ Good(c, b, Inside(t, k + 1), Tried(t, k + 1))
  /\ a.fs # <<>> /\ f.node = Top(a) /\ CallShape(c, a, Inside(s, k), f, b)
  /\ f.for = "input" => Inside(t, k + 1) = Inside(s, k)
  /\ f.for = "inside" => Inside(t, k + 1) = Inside(s, k) \cup {f.node}

LEMMA OneMoreFacts ==
  ASSUME NEW c, NEW h, NEW s, NEW g, NEW t, NEW k, OneMore(h, s, g, t, k),
         Structure(c, h, s), Structure(c, g, t),
         NEW a, a = h[k + 1], NEW b, b = g[k + 2], NEW f, f = t[k + 1]
  PROVE  Calling(c, s, t, k, a, f, b)
<1>1. /\ k \in Nat /\ Len(s) = k /\ Len(h) = k + 1 /\ Len(t) = k + 1 /\ Len(g) = k + 2
      /\ \A i \in 1 .. k + 1 : g[i] = h[i]
      /\ Inside(t, k) = Inside(s, k)
  BY DEF OneMore
<1>2. /\ a \in Levels(c) /\ Good(c, a, Inside(s, k), Tried(s, k)) /\ Fits(c, a, Inside(s, k), Tried(s, k))
  BY <1>1, LastLevel
<1>3. b \in Levels(c) /\ Good(c, b, Inside(t, k + 1), Tried(t, k + 1))
  BY <1>1, LastLevel
<1>4. f \in Frames(c) /\ Went(a, f, b)
  <2>1. k + 1 \in 1 .. Len(t) /\ k + 1 \in 1 .. k + 1 /\ (k + 1) + 1 = k + 2
    BY <1>1
  <2>2. f \in Frames(c)
    BY <2>1 DEF Structure
  <2>3. Went(g[k + 1], t[k + 1], g[(k + 1) + 1])
    BY <2>1 DEF Structure
  <2>4. g[k + 1] = a
    BY <1>1, <2>1
  <2> QED BY <2>1, <2>2, <2>3, <2>4
<1>5. a.fs # <<>> /\ f.node = Top(a)
  BY <1>4 DEF Went, Top
<1>6. CallShape(c, a, Inside(s, k), f, b)
  <2>1. PICK I, T : I = Inside(s, k) /\ T = Tried(s, k)
    OBVIOUS
  <2>2. a \in Levels(c) /\ b \in Levels(c) /\ f \in Frames(c) /\ Went(a, f, b) /\ Fits(c, a, I, T)
    BY <1>2, <1>3, <1>4, <2>1
  <2> QED BY <2>1, <2>2, CallFacts
<1>7. Inside(t, k + 1) = Inside(s, k) \cup (IF f.for = "inside" THEN {f.node} ELSE {})
  BY <1>1, CallersMore
<1> QED BY <1>2, <1>3, <1>4, <1>5, <1>6, <1>7 DEF Calling

\* A fanin at the edge of a node that goes inside is an input of every cut
\* looked for.
LEMMA EdgeMet ==
  ASSUME NEW c, Context(c), NEW a, NEW I, NEW T, Fits(c, a, I, T),
         NEW C \in Feasible(c.net, c.stem, c.limit, c.root), I \cap C = {},
         NEW node \in Logic(c.net), node \in Nodes(c.net), node \notin C, a.st[node] # "free",
         NEW n \in Fanins(c.net, node), n \in c.edge
  PROVE  n \in C
<1>1. IsNetwork(c.net) /\ c.root \in Nodes(c.net) /\ c.root \in Nat
  BY NetFacts DEF Context
<1>2. node \in Met(c.net, c.root, C)
  BY NotFreeMet
<1>3. n \in Met(c.net, c.root, C)
  BY <1>1, <1>2, MetFacts
<1>4. n # c.root
  <2>1. node \in 1 .. c.root /\ n < node /\ n \in Nat
    BY <1>1, <1>2, MetFacts, NetFacts
  <2> QED BY <1>1, <2>1
<1> QED BY <1>3, <1>4 DEF Context

LEMMA LostTry ==
  ASSUME NEW c, NEW h, NEW s, NEW g, NEW t, NEW k, OneMore(h, s, g, t, k),
         Structure(c, h, s), Structure(c, g, t), t[k + 1].for = "input", NEW fd,
         NothingLost(c, h, s, "call", fd)
  PROVE  NothingLost(c, g, t, "call", fd)
<1>1. PICK a, b, f : a = h[k + 1] /\ b = g[k + 2] /\ f = t[k + 1]
  OBVIOUS
<1>2. Calling(c, s, t, k, a, f, b)
  BY <1>1, OneMoreFacts
<1>3. /\ k \in Nat /\ Len(s) = k /\ Len(h) = k + 1 /\ Len(t) = k + 1 /\ Len(g) = k + 2
      /\ \A i \in 1 .. k + 1 : g[i] = h[i]
      /\ \A i \in 1 .. k : t[i] = s[i]
      /\ \A i \in 0 .. k : Inside(t, i) = Inside(s, i)
  BY DEF OneMore
<1>4. ASSUME NEW C, Pending(h, s, "call", C) PROVE Pending(g, t, "call", C)
  <2>1. CASE Agrees(a, Inside(s, k), C) /\ f.node \in C
    <3>1. Agrees(b, Inside(t, k + 1), C)
      BY <1>1, <1>2, <2>1 DEF Calling, CallShape, Agrees
    <3> QED BY <1>1, <1>3, <3>1 DEF Pending
  <2>2. CASE Agrees(a, Inside(s, k), C) /\ f.node \notin C
    <3>1. k + 1 \in 1 .. Len(t) /\ (k + 1) - 1 = k /\ k \in 0 .. k /\ k + 1 \in 1 .. k + 1
      BY <1>3
    <3>2. Agrees(g[k + 1], Inside(t, (k + 1) - 1), C)
      BY <1>1, <1>3, <2>2, <3>1
    <3> QED BY <1>1, <2>2, <3>1, <3>2 DEF Pending
  <2>3. CASE \E i \in 1 .. k : /\ s[i].for = "input" /\ Agrees(h[i], Inside(s, i - 1), C)
                               /\ s[i].node \notin C
    <3>1. PICK i \in 1 .. k : /\ s[i].for = "input" /\ Agrees(h[i], Inside(s, i - 1), C)
                              /\ s[i].node \notin C
      BY <2>3
    <3>2. i \in 1 .. Len(t) /\ i \in 1 .. k + 1 /\ i - 1 \in 0 .. k
      BY <1>3
    <3>3. t[i] = s[i] /\ g[i] = h[i] /\ Inside(t, i - 1) = Inside(s, i - 1)
      BY <1>3, <3>2
    <3> QED BY <3>1, <3>2, <3>3 DEF Pending
  <2> QED BY <1>1, <1>3, <1>4, <2>1, <2>2, <2>3 DEF Pending
<1> QED BY <1>4 DEF NothingLost

LEMMA LostTried ==
  ASSUME NEW c, NEW h, NEW s, NEW g, NEW t, NEW k, OneMore(h, s, g, t, k),
         Structure(c, h, s), Structure(c, g, t), t[k + 1].for = "input", NEW fd,
         NothingLost(c, g, t, "done", fd)
  PROVE  NothingLost(c, h, s, "go", fd)
<1>1. PICK a, b, f : a = h[k + 1] /\ b = g[k + 2] /\ f = t[k + 1]
  OBVIOUS
<1>2. Calling(c, s, t, k, a, f, b)
  BY <1>1, OneMoreFacts
<1>3. /\ k \in Nat /\ Len(s) = k /\ Len(h) = k + 1 /\ Len(t) = k + 1 /\ Len(g) = k + 2
      /\ \A i \in 1 .. k + 1 : g[i] = h[i]
      /\ \A i \in 1 .. k : t[i] = s[i]
      /\ \A i \in 0 .. k : Inside(t, i) = Inside(s, i)
  BY DEF OneMore
<1>4. ASSUME NEW C, Pending(g, t, "done", C) PROVE Pending(h, s, "go", C)
  <2>1. PICK i \in 1 .. Len(t) : /\ t[i].for = "input" /\ Agrees(g[i], Inside(t, i - 1), C)
                                 /\ t[i].node \notin C
    BY <1>4 DEF Pending
  <2>2. CASE i = k + 1
    <3>1. (k + 1) - 1 = k /\ k \in 0 .. k /\ k + 1 \in 1 .. k + 1
      BY <1>3
    <3>2. Agrees(h[k + 1], Inside(s, k), C) /\ f.node \notin C
      BY <1>1, <1>3, <2>1, <2>2, <3>1
    <3>3. Top(h[k + 1]) \notin C
      BY <1>1, <1>2, <3>2 DEF Calling
    <3> QED BY <1>3, <3>2, <3>3 DEF Pending
  <2>3. CASE i # k + 1
    <3>1. i \in 1 .. k /\ i \in 1 .. k + 1 /\ i - 1 \in 0 .. k
      BY <1>3, <2>3
    <3>2. t[i] = s[i] /\ g[i] = h[i] /\ Inside(t, i - 1) = Inside(s, i - 1)
      BY <1>3, <3>1
    <3> QED BY <1>3, <2>1, <3>1, <3>2 DEF Pending
  <2> QED BY <2>2, <2>3
<1> QED BY <1>4 DEF NothingLost

LEMMA LostGo ==
  ASSUME NEW c, NEW h, NEW s, NEW g, NEW t, NEW k, OneMore(h, s, g, t, k), Context(c),
         Structure(c, h, s), Structure(c, g, t), t[k + 1].for = "inside", NEW fd,
         \A n \in Values(g[k + 2].ins) : \/ n \in Values(h[k + 1].ins)
                                         \/ n \in c.edge /\ n \in Fanins(c.net, t[k + 1].node),
         NothingLost(c, h, s, "go", fd)
  PROVE  NothingLost(c, g, t, "call", fd)
<1>1. PICK a, b, f : a = h[k + 1] /\ b = g[k + 2] /\ f = t[k + 1]
  OBVIOUS
<1>2. Calling(c, s, t, k, a, f, b)
  BY <1>1, OneMoreFacts
<1>3. /\ k \in Nat /\ Len(s) = k /\ Len(h) = k + 1 /\ Len(t) = k + 1 /\ Len(g) = k + 2
      /\ \A i \in 1 .. k + 1 : g[i] = h[i]
      /\ \A i \in 1 .. k : t[i] = s[i]
      /\ \A i \in 0 .. k : Inside(t, i) = Inside(s, i)
  BY DEF OneMore
<1>4. ASSUME NEW C \in Feasible(c.net, c.stem, c.limit, c.root), Pending(h, s, "go", C)
      PROVE  Pending(g, t, "call", C)
  <2>1. CASE Agrees(a, Inside(s, k), C) /\ Top(a) \notin C
    <3>1. PICK node, I, T : node = f.node /\ I = Inside(s, k) /\ T = Tried(s, k)
      OBVIOUS
    <3>2. /\ node \in Logic(c.net) /\ node \in Nodes(c.net) /\ node \notin C /\ a.st[node] # "free"
          /\ I \cap C = {} /\ Values(a.ins) \subseteq C /\ Fits(c, a, I, T)
          /\ Inside(t, k + 1) = I \cup {node}
      BY <1>1, <1>2, <2>1, <3>1 DEF Calling, CallShape, Agrees, Good
    <3>3. \A n \in Fanins(c.net, node) : n \in c.edge => n \in C
      BY <3>2, EdgeMet
    <3>4. Values(b.ins) \subseteq C
      BY <1>1, <3>1, <3>2, <3>3
    <3>5. Agrees(b, Inside(t, k + 1), C)
      BY <3>2, <3>4 DEF Agrees
    <3> QED BY <1>1, <1>3, <3>5 DEF Pending
  <2>3. CASE \E i \in 1 .. k : /\ s[i].for = "input" /\ Agrees(h[i], Inside(s, i - 1), C)
                               /\ s[i].node \notin C
    <3>1. PICK i \in 1 .. k : /\ s[i].for = "input" /\ Agrees(h[i], Inside(s, i - 1), C)
                              /\ s[i].node \notin C
      BY <2>3
    <3>2. i \in 1 .. Len(t) /\ i \in 1 .. k + 1 /\ i - 1 \in 0 .. k
      BY <1>3
    <3>3. t[i] = s[i] /\ g[i] = h[i] /\ Inside(t, i - 1) = Inside(s, i - 1)
      BY <1>3, <3>2
    <3> QED BY <3>1, <3>2, <3>3 DEF Pending
  <2> QED BY <1>1, <1>3, <1>4, <2>1, <2>3 DEF Pending
<1> QED BY <1>4 DEF NothingLost

LEMMA LostBack ==
  ASSUME NEW c, NEW h, NEW s, NEW g, NEW t, NEW k, OneMore(h, s, g, t, k),
         t[k + 1].for = "inside", NEW fd, NothingLost(c, g, t, "done", fd)
  PROVE  NothingLost(c, h, s, "done", fd)
<1>3. /\ k \in Nat /\ Len(s) = k /\ Len(h) = k + 1 /\ Len(t) = k + 1 /\ Len(g) = k + 2
      /\ \A i \in 1 .. k + 1 : g[i] = h[i]
      /\ \A i \in 1 .. k : t[i] = s[i]
      /\ \A i \in 0 .. k : Inside(t, i) = Inside(s, i)
  BY DEF OneMore
<1>4. ASSUME NEW C, Pending(g, t, "done", C) PROVE Pending(h, s, "done", C)
  <2>1. PICK i \in 1 .. Len(t) : /\ t[i].for = "input" /\ Agrees(g[i], Inside(t, i - 1), C)
                                 /\ t[i].node \notin C
    BY <1>4 DEF Pending
  <2>2. i \in 1 .. k /\ i \in 1 .. k + 1 /\ i - 1 \in 0 .. k
    BY <1>3, <2>1
  <2>3. t[i] = s[i] /\ g[i] = h[i] /\ Inside(t, i - 1) = Inside(s, i - 1)
    BY <1>3, <2>2
  <2> QED BY <1>3, <2>1, <2>2, <2>3 DEF Pending
<1> QED BY <1>4 DEF NothingLost

LEMMA LostStay ==
  ASSUME NEW c, NEW h, NEW s, Context(c), Structure(c, h, s), NEW fd,
         NEW a, a = h[Len(h)], a.fs # <<>>
  PROVE  /\ NothingLost(c, h, s, "call", fd) /\ (Top(a) \notin c.stem \/ c.limit <= Len(a.ins))
              => NothingLost(c, h, s, "go", fd)
         /\ NothingLost(c, h, s, "go", fd) /\ GivesUp(c, a, Top(a)) => NothingLost(c, h, s, "done", fd)
<1>1. PICK node, I, T : node = Top(a) /\ I = Inside(s, Len(s)) /\ T = Tried(s, Len(s))
  OBVIOUS
<1>2. a \in Levels(c) /\ Good(c, a, I, T) /\ Fits(c, a, I, T)
  BY <1>1, LastLevel
<1>3. /\ node \in Nodes(c.net) /\ node \in Logic(c.net) /\ a.st[node] = "inside"
      /\ node \notin Values(a.ins)
  BY <1>1, <1>2, TopFacts DEF Top
<1>4. IsNetwork(c.net) /\ c.limit \in Nat /\ c.root \in Nodes(c.net)
  BY NetFacts DEF Context
<1>5. ASSUME NEW C \in Feasible(c.net, c.stem, c.limit, c.root), Agrees(a, I, C),
             node \notin c.stem \/ c.limit <= Len(a.ins)
      PROVE  node \notin C
  <2>1. C \subseteq c.stem /\ IsFiniteSet(C) /\ Cardinality(C) <= c.limit /\ Cardinality(C) \in Nat
    BY <1>4, FeasibleFacts
  <2>2. CASE node \notin c.stem
    BY <2>1, <2>2
  <2>3. CASE c.limit <= Len(a.ins)
    <3>1. SUFFICES ASSUME node \in C PROVE FALSE
      OBVIOUS
    <3>2. PICK V : V = Values(a.ins) /\ V \subseteq C
      BY <1>5 DEF Agrees
    <3>3. IsFiniteSet(V) /\ Cardinality(V) = Len(a.ins)
      <4>1. a.ins \in Seq(Nodes(c.net)) /\ Sequential(a.ins)
        BY <1>2 DEF Levels, Fits
      <4> QED BY <3>2, <4>1, ValuesCount
    <3>4. Cardinality(V) \in Nat /\ Cardinality(V \cup {node}) = Cardinality(V) + 1
      BY <1>3, <3>2, <3>3, FS_CardinalityType, FS_AddElement
    <3>5. Cardinality(V \cup {node}) <= Cardinality(C)
      BY <2>1, <3>1, <3>2, FS_Subset
    <3> QED BY <1>4, <2>1, <2>3, <3>3, <3>4, <3>5
  <2> QED BY <1>5, <2>2, <2>3
<1>6. ASSUME NEW C \in Feasible(c.net, c.stem, c.limit, c.root), Agrees(a, I, C), node \notin C,
             GivesUp(c, a, node)
      PROVE  FALSE
  <2>1. PICK X, i : /\ Values(a.ins) \subseteq X
                    /\ \A n \in X : n \in Values(a.ins) \/ (n \in c.edge /\ n \in Fanins(c.net, node))
                    /\ i \in c.edge /\ i \in Fanins(c.net, node) /\ i \notin X
                    /\ i \notin c.stem \/ (IsFiniteSet(X) /\ c.limit <= Cardinality(X))
    BY <1>6 DEF GivesUp
  <2>2. I \cap C = {} /\ Values(a.ins) \subseteq C
    BY <1>6 DEF Agrees
  <2>3. \A n \in Fanins(c.net, node) : n \in c.edge => n \in C
    BY <1>2, <1>3, <1>6, <2>2, EdgeMet
  <2>4. C \subseteq c.stem /\ IsFiniteSet(C) /\ Cardinality(C) <= c.limit /\ Cardinality(C) \in Nat
    BY <1>4, FeasibleFacts
  <2>5. X \subseteq C /\ i \in C
    BY <2>1, <2>2, <2>3
  <2>6. IsFiniteSet(X) /\ c.limit <= Cardinality(X)
    BY <2>1, <2>4, <2>5
  <2>7. Cardinality(X) \in Nat /\ Cardinality(X \cup {i}) = Cardinality(X) + 1
    BY <2>1, <2>6, FS_CardinalityType, FS_AddElement
  <2>8. Cardinality(X \cup {i}) <= Cardinality(C)
    BY <2>4, <2>5, FS_Subset
  <2> QED BY <1>4, <2>4, <2>6, <2>7, <2>8
<1>7. ASSUME NothingLost(c, h, s, "call", fd), node \notin c.stem \/ c.limit <= Len(a.ins)
      PROVE  NothingLost(c, h, s, "go", fd)
  <2>1. ASSUME NEW C \in Feasible(c.net, c.stem, c.limit, c.root), Pending(h, s, "call", C)
        PROVE  Pending(h, s, "go", C)
    BY <1>1, <1>5, <1>7, <2>1 DEF Pending
  <2> QED BY <1>7, <2>1 DEF NothingLost
<1>8. ASSUME NothingLost(c, h, s, "go", fd), GivesUp(c, a, node)
      PROVE  NothingLost(c, h, s, "done", fd)
  <2>1. ASSUME NEW C \in Feasible(c.net, c.stem, c.limit, c.root), Pending(h, s, "go", C)
        PROVE  Pending(h, s, "done", C)
    BY <1>1, <1>6, <1>8, <2>1 DEF Pending
  <2> QED BY <1>8, <2>1 DEF NothingLost
<1> QED BY <1>1, <1>7, <1>8

LEMMA LostFound ==
  ASSUME NEW c, NEW h, NEW s, Context(c), Structure(c, h, s), NEW fd,
         NEW a, a = h[Len(h)], a.fs = <<>>,
         NEW D, D = ReportOf(a),
         NothingLost(c, h, s, "call", fd)
  PROVE  NothingLost(c, h, s, "done", fd \cup {D})
<1>1. PICK I, T : I = Inside(s, Len(s)) /\ T = Tried(s, Len(s))
  OBVIOUS
<1>2. a \in Levels(c) /\ Good(c, a, I, T)
  BY <1>1, LastLevel
<1>3. \A C \in Feasible(c.net, c.stem, c.limit, c.root) : Agrees(a, I, C) => Told(c, C) = D
  <2>1. PICK V : V = Values(a.ins)
    OBVIOUS
  <2>2. Reported(c, a, I, V, D)
    BY <1>2, <2>1, FoundFacts
  <2> QED BY <2>2 DEF Reported
<1>4. ASSUME NEW C \in Feasible(c.net, c.stem, c.limit, c.root), Pending(h, s, "call", C)
      PROVE  Told(c, C) = D \/ Pending(h, s, "done", C)
  BY <1>1, <1>3, <1>4 DEF Pending
<1> QED BY <1>4 DEF NothingLost

------------------------------------------------------------------------------
(***************************************************************************)
(* Nothing is told twice: a cut that has been told has a node that is      *)
(* inside now, or has all the inputs of an activation that is not entered. *)
(***************************************************************************)
Before(h, s, C) ==
  \E i \in 1 .. Len(s) : s[i].for = "inside" /\ s[i].node \in C /\ Values(h[i].ins) \subseteq C

NothingTwice(c, h, s, now, fd) ==
  \A D \in fd :
    \/ Before(h, s, Cut(c, D))
    \/ /\ now # "call" /\ Values(h[Len(h)].ins) \subseteq Cut(c, D)
       /\ now = "go" => Top(h[Len(h)]) \in Cut(c, D)

LEMMA BeforeMore ==
  ASSUME NEW h, NEW s, NEW g, NEW t, NEW k, OneMore(h, s, g, t, k), NEW C
  PROVE  Before(g, t, C) <=> \/ Before(h, s, C)
                             \/ /\ t[k + 1].for = "inside" /\ t[k + 1].node \in C
                                /\ Values(h[k + 1].ins) \subseteq C
<1>1. /\ k \in Nat /\ Len(s) = k /\ Len(h) = k + 1 /\ Len(t) = k + 1 /\ Len(g) = k + 2
      /\ \A i \in 1 .. k + 1 : g[i] = h[i]
      /\ \A i \in 1 .. k : t[i] = s[i]
  BY DEF OneMore
<1>2. \A i : i \in 1 .. k + 1 <=> i \in 1 .. k \/ i = k + 1
  BY <1>1
<1> QED BY <1>1, <1>2 DEF Before

LEMMA TwiceCall ==
  ASSUME NEW c, NEW h, NEW s, NEW g, NEW t, NEW k, OneMore(h, s, g, t, k),
         Structure(c, h, s), Structure(c, g, t), NEW fd
  PROVE  /\ NothingTwice(c, h, s, "call", fd) => NothingTwice(c, g, t, "call", fd)
         /\ t[k + 1].for = "inside" /\ NothingTwice(c, h, s, "go", fd) => NothingTwice(c, g, t, "call", fd)
         /\ t[k + 1].for = "input" /\ NothingTwice(c, g, t, "done", fd) => NothingTwice(c, h, s, "go", fd)
         /\ t[k + 1].for = "inside" /\ NothingTwice(c, g, t, "done", fd) => NothingTwice(c, h, s, "done", fd)
<1>1. PICK a, b, f : a = h[k + 1] /\ b = g[k + 2] /\ f = t[k + 1]
  OBVIOUS
<1>2. Calling(c, s, t, k, a, f, b)
  BY <1>1, OneMoreFacts
<1>3. /\ f.node = Top(a) /\ Values(a.ins) \subseteq Values(b.ins)
      /\ f.for = "input" => Values(b.ins) = Values(a.ins) \cup {f.node}
  BY <1>2 DEF Calling, CallShape
<1>4. h[Len(h)] = a /\ g[Len(g)] = b
  BY <1>1 DEF OneMore
<1>5. \A C : Before(g, t, C) <=> \/ Before(h, s, C)
                                 \/ f.for = "inside" /\ f.node \in C /\ Values(a.ins) \subseteq C
  BY <1>1, BeforeMore
<1>6. NothingTwice(c, h, s, "call", fd) => NothingTwice(c, g, t, "call", fd)
  BY <1>5 DEF NothingTwice
<1>7. f.for = "inside" /\ NothingTwice(c, h, s, "go", fd) => NothingTwice(c, g, t, "call", fd)
  BY <1>3, <1>4, <1>5 DEF NothingTwice
<1>8. f.for = "input" /\ NothingTwice(c, g, t, "done", fd) => NothingTwice(c, h, s, "go", fd)
  BY <1>3, <1>4, <1>5 DEF NothingTwice
<1>9. f.for = "inside" /\ NothingTwice(c, g, t, "done", fd) => NothingTwice(c, h, s, "done", fd)
  BY <1>3, <1>4, <1>5 DEF NothingTwice
<1> QED BY <1>1, <1>6, <1>7, <1>8, <1>9

LEMMA TwiceStay ==
  ASSUME NEW c, NEW h, NEW s, NEW fd
  PROVE  /\ NothingTwice(c, h, s, "call", fd) => NothingTwice(c, h, s, "go", fd)
         /\ NothingTwice(c, h, s, "go", fd) => NothingTwice(c, h, s, "done", fd)
BY DEF NothingTwice

LEMMA TwiceFound ==
  ASSUME NEW c, NEW h, NEW s, Context(c), Structure(c, h, s), NEW fd,
         NEW a, a = h[Len(h)], a.fs = <<>>, NEW D, D = ReportOf(a),
         NothingTwice(c, h, s, "call", fd)
  PROVE  D \notin fd /\ NothingTwice(c, h, s, "done", fd \cup {D})
<1>1. PICK I, T, V : I = Inside(s, Len(s)) /\ T = Tried(s, Len(s)) /\ V = Values(a.ins)
  OBVIOUS
<1>2. a \in Levels(c) /\ Good(c, a, I, T)
  BY <1>1, LastLevel
<1>3. Cut(c, D) = V /\ I \cap V = {}
  <2>1. Reported(c, a, I, V, D)
    BY <1>1, <1>2, FoundFacts
  <2> QED BY <2>1 DEF Reported
<1>4. ~Before(h, s, V)
  <2>1. \A i \in 1 .. Len(s) : s[i].for = "inside" => s[i].node \in I
    BY <1>1 DEF Inside
  <2> QED BY <1>3, <2>1 DEF Before
<1>5. D \notin fd
  BY <1>3, <1>4 DEF NothingTwice
<1>6. NothingTwice(c, h, s, "done", fd \cup {D})
  BY <1>1, <1>3 DEF NothingTwice
<1> QED BY <1>5, <1>6

------------------------------------------------------------------------------
(***************************************************************************)
(* The footprint marks.  The nodes of the cuts told are marked, or are     *)
(* inside and due: their activations will return true.                     *)
(***************************************************************************)
Promised(s, hc, j) ==
  \/ hc = "true"
  \/ \E i \in 1 .. Len(s) : i > j /\ s[i].for = "inside" /\ s[i].has_cuts = "true"
Due(s, hc, F) ==
  F \cup {s[j].node : j \in {i \in 1 .. Len(s) : s[i].for = "inside" /\ Promised(s, hc, i)}}

Marked(c, h, s, hc, F, fd) ==
  /\ F \subseteq Nodes(c.net)
  /\ \A x \in F : x = c.root \/ \E m \in Due(s, hc, F) : m \in Logic(c.net) /\ x \in Fanins(c.net, m)
  /\ \A x \in F : x \in c.stem \/ Fanins(c.net, x) \subseteq Due(s, hc, F)
  /\ hc = "true" => Values(h[Len(h)].ins) \cup Values(h[Len(h)].fs) \subseteq F
  /\ \A i \in 1 .. Len(s) : s[i].for = "inside" /\ s[i].has_cuts = "true" =>
       Values(h[i].ins) \cup Values(h[i].fs) \subseteq F
  /\ \A D \in fd : Met(c.net, c.root, Cut(c, D)) \subseteq Due(s, hc, F)

\* Who is due among the callers, and whether the one called is.
LEMMA DueMore ==
  ASSUME NEW h, NEW s, NEW g, NEW t, NEW k, OneMore(h, s, g, t, k), NEW f, f = t[k + 1],
         NEW F, NEW hc
  PROVE  /\ f.for # "inside" => Due(t, hc, F) = Due(s, hc, F)
         /\ f.for = "inside" /\ hc # "true" => Due(t, hc, F) = Due(s, f.has_cuts, F)
         /\ f.for = "inside" /\ hc = "true" => Due(t, hc, F) = Due(s, hc, F) \cup {f.node}
<1>1. /\ k \in Nat /\ Len(s) = k /\ Len(t) = k + 1 /\ \A i \in 1 .. k : t[i] = s[i]
  BY DEF OneMore
<1>2. \A i : i \in 1 .. k + 1 <=> i \in 1 .. k \/ i = k + 1
  BY <1>1
<1>3. ASSUME NEW j \in 1 .. k
      PROVE  /\ f.for # "inside" => (Promised(t, hc, j) <=> Promised(s, hc, j))
             /\ f.for = "inside" /\ hc # "true" => (Promised(t, hc, j) <=> Promised(s, f.has_cuts, j))
             /\ f.for = "inside" /\ hc = "true" => (Promised(t, hc, j) <=> Promised(s, hc, j))
  <2>1. k + 1 > j
    BY <1>1
  <2> QED BY <1>1, <1>2, <2>1 DEF Promised
<1>4. /\ Promised(t, hc, k + 1) <=> hc = "true"
  <2>1. \A i \in 1 .. k + 1 : ~(i > k + 1)
    BY <1>1
  <2> QED BY <1>1, <2>1 DEF Promised
<1>5. ASSUME NEW x
      PROVE  x \in Due(t, hc, F) <=>
               \/ x \in F
               \/ \E j \in 1 .. k : x = s[j].node /\ s[j].for = "inside" /\ Promised(t, hc, j)
               \/ x = f.node /\ f.for = "inside" /\ hc = "true"
  BY <1>1, <1>2, <1>4 DEF Due
<1>6. \A y, x : x \in Due(s, y, F) <=>
               \/ x \in F
               \/ \E j \in 1 .. k : x = s[j].node /\ s[j].for = "inside" /\ Promised(s, y, j)
  BY <1>1 DEF Due
<1>7. ASSUME f.for # "inside" PROVE Due(t, hc, F) = Due(s, hc, F)
  <2>1. \A x : x \in Due(t, hc, F) <=> x \in Due(s, hc, F)
    BY <1>3, <1>5, <1>6, <1>7
  <2> QED BY <2>1 DEF Due
<1>8. ASSUME f.for = "inside", hc # "true" PROVE Due(t, hc, F) = Due(s, f.has_cuts, F)
  <2>1. \A x : x \in Due(t, hc, F) <=> x \in Due(s, f.has_cuts, F)
    BY <1>3, <1>5, <1>6, <1>8
  <2> QED BY <2>1 DEF Due
<1>9. ASSUME f.for = "inside", hc = "true" PROVE Due(t, hc, F) = Due(s, hc, F) \cup {f.node}
  <2>1. \A x : x \in Due(t, hc, F) <=> x \in Due(s, hc, F) \/ x = f.node
    BY <1>3, <1>5, <1>6, <1>9
  <2> QED BY <2>1 DEF Due
<1> QED BY <1>7, <1>8, <1>9

LEMMA DueAll ==
  ASSUME NEW s, NEW F
  PROVE  /\ Due(s, "true", F) = F \cup Inside(s, Len(s))
         /\ \A hc : Due(s, hc, F) \subseteq Due(s, "true", F)
BY DEF Due, Promised, Inside

LEMMA MarkedTry ==
  ASSUME NEW c, NEW h, NEW s, NEW g, NEW t, NEW k, OneMore(h, s, g, t, k),
         Structure(c, h, s), Structure(c, g, t), NEW F, NEW fd
  PROVE  /\ t[k + 1].for = "input" /\ Marked(c, h, s, "false", F, fd) => Marked(c, g, t, "false", F, fd)
         /\ t[k + 1].for = "inside" /\ Marked(c, h, s, t[k + 1].has_cuts, F, fd)
              => Marked(c, g, t, "false", F, fd)
<1>1. PICK f : f = t[k + 1]
  OBVIOUS
<1>2. /\ k \in Nat /\ Len(s) = k /\ Len(t) = k + 1 /\ Len(h) = k + 1
      /\ \A i \in 1 .. k : t[i] = s[i] /\ g[i] = h[i]
      /\ g[k + 1] = h[k + 1]
  BY DEF OneMore
<1>3. \A i : i \in 1 .. k + 1 <=> i \in 1 .. k \/ i = k + 1
  BY <1>2
<1>4. ASSUME f.for = "input", Marked(c, h, s, "false", F, fd) PROVE Marked(c, g, t, "false", F, fd)
  <2>1. Due(t, "false", F) = Due(s, "false", F)
    BY <1>1, <1>4, DueMore
  <2>2. ASSUME NEW i \in 1 .. Len(t), t[i].for = "inside", t[i].has_cuts = "true"
        PROVE  Values(g[i].ins) \cup Values(g[i].fs) \subseteq F
    <3>1. i \in 1 .. k
      BY <1>1, <1>2, <1>3, <1>4, <2>2
    <3> QED BY <1>2, <1>4, <2>2, <3>1 DEF Marked
  <2> QED BY <1>4, <2>1, <2>2 DEF Marked
<1>5. ASSUME f.for = "inside", Marked(c, h, s, f.has_cuts, F, fd) PROVE Marked(c, g, t, "false", F, fd)
  <2>1. Due(t, "false", F) = Due(s, f.has_cuts, F)
    BY <1>1, <1>5, DueMore
  <2>2. ASSUME NEW i \in 1 .. Len(t), t[i].for = "inside", t[i].has_cuts = "true"
        PROVE  Values(g[i].ins) \cup Values(g[i].fs) \subseteq F
    <3>1. CASE i \in 1 .. k
      BY <1>2, <1>5, <2>2, <3>1 DEF Marked
    <3>2. CASE i = k + 1
      BY <1>1, <1>2, <1>5, <2>2, <3>2 DEF Marked
    <3> QED BY <1>2, <1>3, <2>2, <3>1, <3>2
  <2> QED BY <1>5, <2>1, <2>2 DEF Marked
<1> QED BY <1>1, <1>4, <1>5

LEMMA MarkedTried ==
  ASSUME NEW c, NEW h, NEW s, NEW g, NEW t, NEW k, OneMore(h, s, g, t, k),
         Structure(c, h, s), Structure(c, g, t), t[k + 1].for = "input", NEW hc, NEW F, NEW fd,
         Marked(c, g, t, hc, F, fd)
  PROVE  Marked(c, h, s, hc, F, fd)
<1>1. PICK a, b, f : a = h[k + 1] /\ b = g[k + 2] /\ f = t[k + 1]
  OBVIOUS
<1>2. Calling(c, s, t, k, a, f, b)
  BY <1>1, OneMoreFacts
<1>3. /\ k \in Nat /\ Len(s) = k /\ Len(t) = k + 1 /\ Len(h) = k + 1 /\ Len(g) = k + 2
      /\ \A i \in 1 .. k : t[i] = s[i] /\ g[i] = h[i]
  BY DEF OneMore
<1>4. Due(t, hc, F) = Due(s, hc, F)
  BY <1>1, DueMore
<1>5. ASSUME hc = "true" PROVE Values(h[Len(h)].ins) \cup Values(h[Len(h)].fs) \subseteq F
  <2>1. Values(b.ins) \cup Values(b.fs) \subseteq F
    BY <1>1, <1>3, <1>5 DEF Marked
  <2>2. /\ Values(a.fs) \subseteq Values(b.fs) \cup {f.node}
        /\ Values(b.ins) = Values(a.ins) \cup {f.node}
    BY <1>1, <1>2 DEF Calling, CallShape
  <2> QED BY <1>1, <1>3, <2>1, <2>2
<1>6. \A i \in 1 .. Len(s) : s[i].for = "inside" /\ s[i].has_cuts = "true" =>
        Values(h[i].ins) \cup Values(h[i].fs) \subseteq F
  <2>1. \A i \in 1 .. k : i \in 1 .. Len(t)
    BY <1>3
  <2> QED BY <1>3, <2>1 DEF Marked
<1> QED BY <1>4, <1>5, <1>6 DEF Marked

LEMMA MarkedBack ==
  ASSUME NEW c, Context(c), NEW h, NEW s, NEW g, NEW t, NEW k, OneMore(h, s, g, t, k),
         Structure(c, h, s), Structure(c, g, t), t[k + 1].for = "inside",
         NEW hc \in {"true", "false"}, NEW F, NEW fd, Marked(c, g, t, hc, F, fd)
  PROVE  Marked(c, h, s, IF hc = "true" THEN "true" ELSE t[k + 1].has_cuts,
                IF hc = "true" THEN F \cup {t[k + 1].node} ELSE F, fd)
<1>1. PICK a, b, f : a = h[k + 1] /\ b = g[k + 2] /\ f = t[k + 1]
  OBVIOUS
<1>2. Calling(c, s, t, k, a, f, b)
  BY <1>1, OneMoreFacts
<1>3. /\ k \in Nat /\ Len(s) = k /\ Len(t) = k + 1 /\ Len(h) = k + 1 /\ Len(g) = k + 2
      /\ \A i \in 1 .. k : t[i] = s[i] /\ g[i] = h[i]
      /\ g[k + 1] = h[k + 1]
      /\ \A i \in 1 .. k : i \in 1 .. Len(t)
      /\ k + 1 \in 1 .. Len(t)
  BY DEF OneMore
<1>4. CASE hc # "true"
  <2>1. Due(t, hc, F) = Due(s, f.has_cuts, F)
    BY <1>1, <1>4, DueMore
  <2>2. f.has_cuts = "true" => Values(h[Len(h)].ins) \cup Values(h[Len(h)].fs) \subseteq F
    BY <1>1, <1>3 DEF Marked
  <2>3. \A i \in 1 .. Len(s) : s[i].for = "inside" /\ s[i].has_cuts = "true" =>
          Values(h[i].ins) \cup Values(h[i].fs) \subseteq F
    BY <1>3 DEF Marked
  <2>4. Marked(c, h, s, f.has_cuts, F, fd)
    BY <2>1, <2>2, <2>3 DEF Marked
  <2> QED BY <1>1, <1>4, <2>4
<1>5. CASE hc = "true"
  <2>1. PICK G, node, I, T : G = F \cup {f.node} /\ node = f.node /\ I = Inside(s, k) /\ T = Tried(s, k)
    OBVIOUS
  <2>2. /\ node \in Nodes(c.net) /\ node \in Logic(c.net) /\ Fits(c, a, I, T)
        /\ a.st[node] = "inside" /\ Values(a.ins) \subseteq Values(b.ins)
        /\ Values(a.fs) \subseteq Values(b.fs) \cup {node}
        /\ Good(c, b, Inside(t, k + 1), Tried(t, k + 1)) /\ b \in Levels(c)
        /\ Inside(t, k + 1) = I \cup {node}
    BY <1>1, <1>2, <2>1 DEF Calling, CallShape, Good
  <2>3. /\ Due(t, hc, F) = F \cup I \cup {node} /\ Due(s, hc, G) = G \cup I
        /\ Due(t, hc, F) = Due(s, hc, G)
    <3>1. Due(t, "true", F) = F \cup Inside(t, Len(t)) /\ Due(s, "true", G) = G \cup Inside(s, Len(s))
      BY DueAll, Zenon
    <3>2. Inside(t, Len(t)) = I \cup {node} /\ Inside(s, Len(s)) = I
      BY <1>3, <2>1, <2>2, Zenon
    <3>3. Due(t, hc, F) = F \cup (I \cup {node}) /\ Due(s, hc, G) = G \cup I
      BY <1>5, <3>1, <3>2, Zenon
    <3> QED BY <2>1, <3>3
  <2>4. Values(b.ins) \cup Values(b.fs) \subseteq F
    BY <1>1, <1>3, <1>5 DEF Marked
  <2>5. Values(a.ins) \cup Values(a.fs) \subseteq G
    BY <2>1, <2>2, <2>4
  <2>6. G \subseteq Nodes(c.net)
    BY <2>1, <2>2 DEF Marked
  <2>7. ASSUME NEW x \in G
        PROVE  x = c.root \/ \E m \in Due(s, hc, G) : m \in Logic(c.net) /\ x \in Fanins(c.net, m)
    <3>1. CASE x \in F
      BY <2>3, <3>1 DEF Marked
    <3>2. CASE x = node
      <4>1. x = c.root \/ \E m \in I : x \in Fanins(c.net, m)
        BY <2>2, <3>2 DEF Fits
      <4>2. \A m \in I : m \in Logic(c.net)
        BY <2>2 DEF Fits
      <4> QED BY <2>3, <4>1, <4>2
    <3> QED BY <2>1, <3>1, <3>2
  <2>8. ASSUME NEW x \in G PROVE x \in c.stem \/ Fanins(c.net, x) \subseteq Due(s, hc, G)
    <3>1. CASE x \in F
      BY <2>3, <3>1 DEF Marked
    <3>2. CASE x = node
      <4>1. ASSUME NEW n \in Fanins(c.net, node) PROVE n \in Due(s, hc, G)
        <5>1. n \in Nodes(c.net)
          BY <2>2, NetFacts DEF Context
        <5>2. b.st[n] # "free"
          BY <2>2 DEF Good
        <5>3. n \in Values(b.ins) \/ n \in Values(b.fs) \cup (I \cup {node})
          BY <2>2, <5>1, <5>2 DEF Good, Fits, Levels, Marks
        <5> QED BY <2>1, <2>3, <2>4, <5>3
      <4> QED BY <3>2, <4>1
    <3> QED BY <2>1, <3>1, <3>2
  <2>9. \A i \in 1 .. Len(s) : s[i].for = "inside" /\ s[i].has_cuts = "true" =>
          Values(h[i].ins) \cup Values(h[i].fs) \subseteq G
    BY <1>3, <2>1 DEF Marked
  <2>10. Values(h[Len(h)].ins) \cup Values(h[Len(h)].fs) \subseteq G
    BY <1>1, <1>3, <2>5
  <2>11. \A D \in fd : Met(c.net, c.root, Cut(c, D)) \subseteq Due(s, hc, G)
    BY <2>3 DEF Marked
  <2>12. Marked(c, h, s, hc, G, fd)
    BY <2>6, <2>7, <2>8, <2>9, <2>10, <2>11 DEF Marked
  <2> QED BY <1>1, <1>5, <2>1, <2>12
<1> QED BY <1>4, <1>5

LEMMA MarkedFound ==
  ASSUME NEW c, Context(c), NEW h, NEW s, Structure(c, h, s), NEW F, NEW fd,
         NEW a, a = h[Len(h)], a.fs = <<>>, NEW D, D = ReportOf(a), Marked(c, h, s, "false", F, fd)
  PROVE  Marked(c, h, s, "true", F \cup Values(a.ins), fd \cup {D})
<1>1. PICK I, T, V : I = Inside(s, Len(s)) /\ T = Tried(s, Len(s)) /\ V = Values(a.ins)
  OBVIOUS
<1>2. a \in Levels(c) /\ Good(c, a, I, T) /\ Fits(c, a, I, T)
  BY <1>1, LastLevel
<1>3. Reported(c, a, I, V, D)
  BY <1>1, <1>2, FoundFacts
<1>4. PICK G : G = F \cup V
  OBVIOUS
<1>5. /\ Due(s, "true", G) = G \cup I /\ Due(s, "true", F) = F \cup I
      /\ Due(s, "false", F) \subseteq Due(s, "true", F)
  BY <1>1, DueAll
<1>6. Due(s, "false", F) \subseteq Due(s, "true", G)
  BY <1>4, <1>5
<1>7. G \subseteq Nodes(c.net)
  BY <1>3, <1>4 DEF Reported, Marked
<1>8. ASSUME NEW x \in G
      PROVE  x = c.root \/ \E m \in Due(s, "true", G) : m \in Logic(c.net) /\ x \in Fanins(c.net, m)
  <2>1. CASE x \in F
    BY <1>6, <2>1 DEF Marked
  <2>2. CASE x \in V
    <3>1. x = c.root \/ \E m \in I : x \in Fanins(c.net, m)
      BY <1>3, <2>2 DEF Reported
    <3>2. \A m \in I : m \in Logic(c.net)
      BY <1>2 DEF Fits
    <3> QED BY <1>5, <3>1, <3>2
  <2> QED BY <1>4, <2>1, <2>2
<1>9. ASSUME NEW x \in G PROVE x \in c.stem \/ Fanins(c.net, x) \subseteq Due(s, "true", G)
  <2>1. CASE x \in F
    BY <1>6, <2>1 DEF Marked
  <2>2. CASE x \in V
    BY <1>3, <2>2 DEF Reported
  <2> QED BY <1>4, <2>1, <2>2
<1>10. Values(h[Len(h)].ins) \cup Values(h[Len(h)].fs) \subseteq G
  <2>1. a.fs \in Seq(Nodes(c.net))
    BY <1>2 DEF Levels
  <2>2. Values(a.fs) = {}
    BY <2>1, ValuesFacts
  <2> QED BY <1>1, <1>4, <2>2
<1>11. \A i \in 1 .. Len(s) : s[i].for = "inside" /\ s[i].has_cuts = "true" =>
         Values(h[i].ins) \cup Values(h[i].fs) \subseteq G
  BY <1>4 DEF Marked
<1>12. ASSUME NEW E \in fd \cup {D} PROVE Met(c.net, c.root, Cut(c, E)) \subseteq Due(s, "true", G)
  <2>1. CASE E \in fd
    BY <1>6, <2>1 DEF Marked
  <2>2. CASE E = D
    BY <1>3, <1>4, <1>5, <2>2 DEF Reported
  <2> QED BY <2>1, <2>2
<1>13. Marked(c, h, s, "true", G, fd \cup {D})
  BY <1>7, <1>8, <1>9, <1>10, <1>11, <1>12 DEF Marked
<1> QED BY <1>1, <1>4, <1>13

------------------------------------------------------------------------------
(***************************************************************************)
(* The enumeration of one node: what holds whatever activation runs.       *)
(***************************************************************************)
OnlyCuts(c, fd) ==
  \A D \in fd : /\ IsReport(c.net, c.stem, c.limit, c.root, D)
                /\ D \subseteq c.stem \cap 1 .. c.root

Stage(c, h, s, now, hc, a, F, fd) ==
  /\ Structure(c, h, s) /\ a = h[Len(h)]
  /\ NothingLost(c, h, s, now, fd) /\ NothingTwice(c, h, s, now, fd)
  /\ Marked(c, h, s, hc, F, fd) /\ OnlyCuts(c, fd)

\* An activation has been called with ret = "call", or returns another ret.
Runs(c, h, s, r, a, F, fd) ==
  IF r = "call" THEN Stage(c, h, s, "call", "false", a, F, fd)
  ELSE r \in {"true", "false"} /\ Stage(c, h, s, "done", r, a, F, fd)

LEMMA RunsStart ==
  ASSUME NEW c, Context(c), NEW a, a = Start(c), NEW h, h = <<a>>, NEW s, s = <<>>
  PROVE  Runs(c, h, s, "call", a, {}, {})
<1>1. /\ IsNetwork(c.net) /\ c.root \in Nodes(c.net) /\ c.root \in Logic(c.net) /\ c.limit \in Nat \ {0}
      /\ Fanins(c.net, c.root) \subseteq c.open
  BY NetFacts DEF Context
<1>2. PICK r : r = c.root
  OBVIOUS
<1>3. /\ a.fs = <<r>> /\ a.ins = <<>> /\ a.st = [n \in Nodes(c.net) |-> IF n = r THEN "inside" ELSE "free"]
      /\ a \in [fs : {<<r>>}, ins : {<<>>}, st : {[n \in Nodes(c.net) |-> IF n = r THEN "inside" ELSE "free"]}]
  BY <1>2 DEF Start
<1>4. a \in Levels(c)
  <2>1. a.st \in [Nodes(c.net) -> Marks]
    BY <1>3 DEF Marks
  <2>2. a.fs \in Seq(Nodes(c.net)) /\ a.ins \in Seq(Nodes(c.net))
    BY <1>1, <1>2, <1>3
  <2> QED BY <1>3, <2>1, <2>2 DEF Levels, Start
<1>5. /\ Values(a.fs) = {r} /\ Values(a.ins) = {} /\ Sequential(a.fs) /\ Sequential(a.ins)
      /\ Len(a.ins) = 0
  <2>1. a.fs = Append(<<>>, r) /\ <<>> \in Seq(Nodes(c.net)) /\ r \in Nodes(c.net)
    BY <1>1, <1>2, <1>3
  <2>2. Values(<<>>) = {} /\ Sequential(<<>>)
    BY DEF Values, Sequential
  <2>3. /\ Values(Append(<<>>, r)) = Values(<<>>) \cup {r}
        /\ Sequential(Append(<<>>, r)) <=> Sequential(<<>>) /\ r \notin Values(<<>>)
    BY <2>1, ValuesAppend
  <2> QED BY <1>3, <2>1, <2>2, <2>3
<1>6. Good(c, a, {}, {})
  <2>1. \A n \in Nodes(c.net) : /\ a.st[n] = "input" <=> n \in Values(a.ins)
                                /\ a.st[n] = "inside" <=> n \in Values(a.fs) \cup {}
                                /\ a.st[n] # "free" => n = c.root
    BY <1>2, <1>3, <1>5
  <2>2. a.st[c.root] # "free"
    BY <1>1, <1>2, <1>3
  <2> QED BY <1>1, <1>2, <1>5, <2>1, <2>2 DEF Good, Fits
<1>7. Inside(s, 0) = {} /\ Tried(s, 0) = {} /\ Len(s) = 0 /\ s \in Seq(Frames(c))
  BY CallersMore
<1>8. h \in Seq(Levels(c)) /\ Len(h) = 1 /\ h[1] = a
  BY <1>4
<1>9. Structure(c, h, s)
  <2>1. \A i \in 1 .. Len(h) : i = 1 /\ i - 1 = 0
    BY <1>8
  <2>2. \A i \in 1 .. Len(h) : Good(c, h[i], Inside(s, i - 1), Tried(s, i - 1))
    BY <1>6, <1>7, <1>8, <2>1
  <2>3. \A i \in 1 .. Len(s) : Went(h[i], s[i], h[i + 1])
    BY <1>7
  <2>4. Len(h) = Len(s) + 1 /\ h[1] = Start(c)
    BY <1>7, <1>8
  <2> QED BY <1>7, <1>8, <2>2, <2>3, <2>4 DEF Structure
<1>10. NothingLost(c, h, s, "call", {})
  <2>1. \A C : Agrees(a, {}, C)
    BY <1>5 DEF Agrees
  <2> QED BY <1>7, <1>8, <2>1 DEF NothingLost, Pending
<1>11. NothingTwice(c, h, s, "call", {}) /\ OnlyCuts(c, {})
  BY DEF NothingTwice, OnlyCuts
<1>12. Marked(c, h, s, "false", {}, {})
  BY <1>7 DEF Marked
<1> QED BY <1>8, <1>9, <1>10, <1>11, <1>12 DEF Runs, Stage

LEMMA RunsTry ==
  ASSUME NEW c, Context(c), NEW h, NEW s, NEW a, NEW F, NEW fd, Runs(c, h, s, "call", a, F, fd),
         a.fs # <<>>, Top(a) \in c.stem, Len(a.ins) < c.limit, NEW f, NEW b, Tries(a, Top(a), f, b)
  PROVE  Runs(c, Append(h, b), Append(s, f), "call", b, F, fd)
<1>1. PICK I, T, node, k : I = Inside(s, Len(s)) /\ T = Tried(s, Len(s)) /\ node = Top(a) /\ k = Len(s)
  OBVIOUS
<1>2. Stage(c, h, s, "call", "false", a, F, fd)
  BY DEF Runs
<1>3. a \in Levels(c) /\ Good(c, a, I, T) /\ a = h[Len(h)] /\ Structure(c, h, s)
  BY <1>1, <1>2, LastLevel DEF Stage
<1>4. b \in Levels(c) /\ f \in Frames(c) /\ Went(a, f, b) /\ Good(c, b, I, T \cup {node})
  BY <1>1, <1>3, TryFits DEF Context, Top
<1>5. f.for = "input" /\ f.node = node
  BY <1>1 DEF Tries
<1>6. PICK g, t : g = Append(h, b) /\ t = Append(s, f)
  OBVIOUS
<1>7. Structure(c, g, t)
  <2>1. Good(c, b, Inside(s, Len(s)) \cup (IF f.for = "inside" THEN {f.node} ELSE {}),
                   Tried(s, Len(s)) \cup (IF f.for = "input" THEN {f.node} ELSE {}))
    BY <1>1, <1>4, <1>5
  <2> QED BY <1>3, <1>4, <1>6, <2>1, StructurePush
<1>8. OneMore(h, s, g, t, k) /\ g[k + 2] = b /\ t[k + 1] = f
  <2>1. OneMore(h, s, g, t, k) /\ Newest(g, t, k, b, f)
    BY <1>3, <1>4, <1>1, <1>6, PushIsOneMore
  <2> QED BY <2>1 DEF Newest
<1>9. t[k + 1].for = "input" /\ g[Len(g)] = b
  BY <1>5, <1>8 DEF OneMore
<1>10. NothingLost(c, g, t, "call", fd)
  BY <1>2, <1>3, <1>7, <1>8, <1>9, LostTry DEF Stage
<1>11. NothingTwice(c, g, t, "call", fd)
  BY <1>2, <1>3, <1>7, <1>8, TwiceCall DEF Stage
<1>12. Marked(c, g, t, "false", F, fd)
  BY <1>2, <1>3, <1>7, <1>8, <1>9, MarkedTry DEF Stage
<1>13. Stage(c, g, t, "call", "false", b, F, fd)
  BY <1>2, <1>7, <1>9, <1>10, <1>11, <1>12 DEF Stage
<1> QED BY <1>6, <1>13 DEF Runs

LEMMA RunsSkip ==
  ASSUME NEW c, Context(c), NEW h, NEW s, NEW a, NEW F, NEW fd, Runs(c, h, s, "call", a, F, fd),
         a.fs # <<>>, Top(a) \notin c.stem \/ c.limit <= Len(a.ins)
  PROVE  Stage(c, h, s, "go", "false", a, F, fd)
<1>1. Stage(c, h, s, "call", "false", a, F, fd)
  BY DEF Runs
<1>2. NothingLost(c, h, s, "go", fd)
  BY <1>1, LostStay DEF Stage
<1>3. NothingTwice(c, h, s, "go", fd)
  BY <1>1, TwiceStay DEF Stage
<1> QED BY <1>1, <1>2, <1>3 DEF Stage

LEMMA StageCalls ==
  ASSUME NEW c, Context(c), NEW h, NEW s, NEW hc, NEW a, NEW F, NEW fd,
         Stage(c, h, s, "go", hc, a, F, fd), NEW f \in Frames(c), NEW b \in Levels(c),
         Calls(c, a, Top(a), hc, f, b), Good(c, b, Inside(s, Len(s)) \cup {Top(a)}, Tried(s, Len(s)))
  PROVE  Runs(c, Append(h, b), Append(s, f), "call", b, F, fd)
<1>1. PICK k : k = Len(s)
  OBVIOUS
<1>2. Structure(c, h, s) /\ a = h[Len(h)]
  BY DEF Stage
<1>3. Went(a, f, b) /\ f.for = "inside" /\ f.node = Top(a) /\ f.has_cuts = hc
  BY DEF Calls, Went, Top
<1>4. PICK g, t : g = Append(h, b) /\ t = Append(s, f)
  OBVIOUS
<1>5. Structure(c, g, t)
  <2>1. Good(c, b, Inside(s, Len(s)) \cup (IF f.for = "inside" THEN {f.node} ELSE {}),
                   Tried(s, Len(s)) \cup (IF f.for = "input" THEN {f.node} ELSE {}))
    BY <1>3
  <2> QED BY <1>2, <1>3, <1>4, <2>1, StructurePush
<1>6. OneMore(h, s, g, t, k) /\ g[k + 2] = b /\ t[k + 1] = f
  <2>1. OneMore(h, s, g, t, k) /\ Newest(g, t, k, b, f)
    BY <1>2, <1>1, <1>4, PushIsOneMore
  <2> QED BY <2>1 DEF Newest
<1>7. g[Len(g)] = b /\ h[k + 1] = a
  BY <1>2, <1>6 DEF OneMore
<1>8. NothingLost(c, g, t, "call", fd)
  <2>1. \A n \in Values(g[k + 2].ins) : \/ n \in Values(h[k + 1].ins)
                                        \/ n \in c.edge /\ n \in Fanins(c.net, t[k + 1].node)
    BY <1>3, <1>6, <1>7 DEF Calls
  <2>2. t[k + 1].for = "inside"
    BY <1>3, <1>6
  <2> QED BY <1>2, <1>5, <1>6, <2>1, <2>2, LostGo DEF Stage
<1>9. NothingTwice(c, g, t, "call", fd)
  BY <1>2, <1>3, <1>5, <1>6, TwiceCall DEF Stage
<1>10. Marked(c, g, t, "false", F, fd)
  <2>1. t[k + 1].for = "inside" /\ Marked(c, h, s, t[k + 1].has_cuts, F, fd)
    BY <1>3, <1>6 DEF Stage
  <2> QED BY <1>2, <1>5, <1>6, <2>1, MarkedTry
<1>11. Stage(c, g, t, "call", "false", b, F, fd)
  BY <1>5, <1>7, <1>8, <1>9, <1>10 DEF Stage
<1> QED BY <1>4, <1>11 DEF Runs

LEMMA StageStops ==
  ASSUME NEW c, Context(c), NEW h, NEW s, NEW hc \in {"true", "false"}, NEW a, NEW F, NEW fd,
         Stage(c, h, s, "go", hc, a, F, fd), a.fs # <<>>, GivesUp(c, a, Top(a))
  PROVE  Runs(c, h, s, hc, a, F, fd)
<1>1. NothingLost(c, h, s, "done", fd)
  BY LostStay DEF Stage
<1>2. NothingTwice(c, h, s, "done", fd)
  BY TwiceStay DEF Stage
<1>3. Stage(c, h, s, "done", hc, a, F, fd) /\ hc # "call"
  BY <1>1, <1>2 DEF Stage
<1> QED BY <1>3 DEF Runs

\* A return: h, s and a are the caller's.
Callers(c, g, t, h, s, a, b, f) ==
  /\ h = Upto(g, Len(g) - 1) /\ s = Upto(t, Len(t) - 1)
  /\ OneMore(h, s, g, t, Len(s)) /\ Structure(c, h, s) /\ Structure(c, g, t)
  /\ f = t[Len(t)] /\ f = t[Len(s) + 1] /\ a = h[Len(h)] /\ a = h[Len(s) + 1]
  /\ b = g[Len(g)] /\ b = g[Len(s) + 2] /\ Calling(c, s, t, Len(s), a, f, b)
  /\ a.fs # <<>> /\ f.node = Top(a)

LEMMA CallersExist ==
  ASSUME NEW c, NEW g, NEW t, Structure(c, g, t), t # <<>>,
         NEW b, b = g[Len(g)], NEW f, f = t[Len(t)]
  PROVE  \E h, s, a : Callers(c, g, t, h, s, a, b, f)
<1>1. PICK h, s, k : h = Upto(g, Len(g) - 1) /\ s = Upto(t, Len(t) - 1) /\ k = Len(t) - 1
  OBVIOUS
<1>2. OneMore(h, s, g, t, k) /\ Structure(c, h, s)
  <2>1. OneMore(Upto(g, Len(g) - 1), Upto(t, Len(t) - 1), g, t, Len(t) - 1)
    BY PopIsOneLess
  <2>2. Structure(c, Upto(g, Len(g) - 1), Upto(t, Len(t) - 1))
    BY StructurePop
  <2> QED BY <1>1, <2>1, <2>2, Zenon
<1>3. k \in Nat /\ Len(s) = k /\ Len(t) = k + 1 /\ Len(h) = k + 1 /\ Len(g) = k + 2
  BY <1>2 DEF OneMore
<1>4. PICK a : a = h[k + 1]
  OBVIOUS
<1>5. f = t[k + 1] /\ b = g[k + 2]
  BY <1>3
<1>6. Calling(c, s, t, k, a, f, b)
  BY <1>2, <1>4, <1>5, OneMoreFacts
<1>7. a.fs # <<>> /\ f.node = Top(a)
  BY <1>6 DEF Calling
<1>8. Callers(c, g, t, h, s, a, b, f)
  BY <1>1, <1>2, <1>3, <1>4, <1>5, <1>6, <1>7 DEF Callers
<1> QED BY <1>8

\* What the code restores when a call has returned.
Retried(a, b, f) ==
  /\ b.fs = Upto(a.fs, Len(a.fs) - 1) /\ Upto(b.ins, Len(b.ins) - 1) = a.ins
  /\ [b.st EXCEPT ![f.node] = "inside"] = a.st
Rewound(c, a, b, f) ==
  /\ Append(Upto(b.fs, f.old_fs_pos), f.node) = a.fs /\ Upto(b.ins, f.old_input_pos) = a.ins
  /\ [n \in Nodes(c.net) |-> IF n \in f.new THEN "free"
                             ELSE IF n = f.node THEN "inside" ELSE b.st[n]] = a.st

Answers(r, F, f, q, G) ==
  /\ q = IF r = "true" THEN "true" ELSE f.has_cuts
  /\ G = IF r = "true" THEN F \cup {f.node} ELSE F

LEMMA RunsTried ==
  ASSUME NEW c, NEW g, NEW t, NEW r \in {"true", "false"}, NEW b, NEW F, NEW fd,
         Runs(c, g, t, r, b, F, fd), NEW h, NEW s, NEW a, NEW f,
         Callers(c, g, t, h, s, a, b, f), f.for = "input"
  PROVE  Stage(c, h, s, "go", r, a, F, fd) /\ Retried(a, b, f)
<1>1. Stage(c, g, t, "done", r, b, F, fd)
  BY DEF Runs
<1>2. PICK k : k = Len(s) /\ t[k + 1].for = "input" /\ OneMore(h, s, g, t, k)
  BY DEF Callers
<1>3. Structure(c, h, s) /\ Structure(c, g, t) /\ a = h[Len(h)]
  BY DEF Callers
<1>4. NothingLost(c, h, s, "go", fd)
  BY <1>1, <1>2, <1>3, LostTried DEF Stage
<1>5. NothingTwice(c, h, s, "go", fd)
  BY <1>1, <1>2, <1>3, TwiceCall DEF Stage
<1>6. Marked(c, h, s, r, F, fd)
  BY <1>1, <1>2, <1>3, MarkedTried DEF Stage
<1>7. Stage(c, h, s, "go", r, a, F, fd)
  BY <1>1, <1>3, <1>4, <1>5, <1>6 DEF Stage
<1>8. PICK I, T : I = Inside(s, Len(s)) /\ T = Tried(s, Len(s))
  OBVIOUS
<1>9. a \in Levels(c) /\ b \in Levels(c) /\ Good(c, a, I, T) /\ Went(a, f, b)
  BY <1>8 DEF Callers, Calling
<1> QED BY <1>7, <1>9, BackFromInput DEF Retried

LEMMA RunsBack ==
  ASSUME NEW c, Context(c), NEW g, NEW t, NEW r \in {"true", "false"}, NEW b, NEW F, NEW fd,
         Runs(c, g, t, r, b, F, fd), NEW h, NEW s, NEW a, NEW f,
         Callers(c, g, t, h, s, a, b, f), f.for = "inside",
         NEW q, NEW G, Answers(r, F, f, q, G)
  PROVE  q \in {"true", "false"} /\ Runs(c, h, s, q, a, G, fd) /\ Rewound(c, a, b, f)
<1>1. Stage(c, g, t, "done", r, b, F, fd)
  BY DEF Runs
<1>2. PICK k : k = Len(s) /\ f = t[k + 1] /\ OneMore(h, s, g, t, k)
  BY DEF Callers
<1>3. Structure(c, h, s) /\ Structure(c, g, t) /\ a = h[Len(h)]
  BY DEF Callers
<1>4. NothingLost(c, h, s, "done", fd)
  BY <1>1, <1>2, LostBack DEF Stage
<1>5. NothingTwice(c, h, s, "done", fd)
  BY <1>1, <1>2, <1>3, TwiceCall DEF Stage
<1>6. Marked(c, h, s, q, G, fd)
  <2>1. Marked(c, g, t, r, F, fd) /\ t[k + 1].for = "inside"
    BY <1>1, <1>2 DEF Stage
  <2>2. Marked(c, h, s, IF r = "true" THEN "true" ELSE t[k + 1].has_cuts,
                        IF r = "true" THEN F \cup {t[k + 1].node} ELSE F, fd)
    BY <1>2, <1>3, <2>1, MarkedBack
  <2>3. /\ q = IF r = "true" THEN "true" ELSE t[k + 1].has_cuts
        /\ G = IF r = "true" THEN F \cup {t[k + 1].node} ELSE F
    BY <1>2 DEF Answers
  <2> QED BY <2>2, <2>3, Zenon
<1>7. f \in Frames(c) /\ f.has_cuts \in {"true", "false"}
  BY DEF Callers, Calling, Frames, InputFrames, InsideFrames
<1>8. q \in {"true", "false"} /\ Runs(c, h, s, q, a, G, fd)
  BY <1>1, <1>3, <1>4, <1>5, <1>6, <1>7 DEF Stage, Runs, Answers
<1>9. PICK I, T : I = Inside(s, Len(s)) /\ T = Tried(s, Len(s))
  OBVIOUS
<1>10. a \in Levels(c) /\ b \in Levels(c) /\ Good(c, a, I, T) /\ Went(a, f, b)
  BY <1>9 DEF Callers, Calling
<1> QED BY <1>8, <1>10, BackFromInside DEF Rewound

LEMMA RunsFound ==
  ASSUME NEW c, Context(c), NEW h, NEW s, NEW a, NEW F, NEW fd, Runs(c, h, s, "call", a, F, fd),
         a.fs = <<>>, NEW D, D = ReportOf(a)
  PROVE  /\ D \notin fd /\ IsReport(c.net, c.stem, c.limit, c.root, D)
         /\ D \subseteq c.stem \cap 1 .. c.root
         /\ Runs(c, h, s, "true", a, F \cup Values(a.ins), fd \cup {D})
<1>1. Stage(c, h, s, "call", "false", a, F, fd)
  BY DEF Runs
<1>2. Structure(c, h, s) /\ a = h[Len(h)]
  BY <1>1 DEF Stage
<1>3. NothingLost(c, h, s, "done", fd \cup {D})
  BY <1>1, <1>2, LostFound DEF Stage
<1>4. D \notin fd /\ NothingTwice(c, h, s, "done", fd \cup {D})
  BY <1>1, <1>2, TwiceFound DEF Stage
<1>5. Marked(c, h, s, "true", F \cup Values(a.ins), fd \cup {D})
  BY <1>1, <1>2, MarkedFound DEF Stage
<1>6. IsReport(c.net, c.stem, c.limit, c.root, D) /\ D \subseteq c.stem \cap 1 .. c.root
  <2>1. PICK I, T, V : I = Inside(s, Len(s)) /\ T = Tried(s, Len(s)) /\ V = Values(a.ins)
    OBVIOUS
  <2>2. a \in Levels(c) /\ Good(c, a, I, T)
    BY <1>2, <2>1, LastLevel
  <2>3. Reported(c, a, I, V, D)
    BY <2>1, <2>2, FoundFacts
  <2> QED BY <2>3 DEF Reported
<1>7. OnlyCuts(c, fd \cup {D})
  BY <1>1, <1>6 DEF OnlyCuts, Stage
<1>8. Stage(c, h, s, "done", "true", a, F \cup Values(a.ins), fd \cup {D})
  BY <1>2, <1>3, <1>4, <1>5, <1>7 DEF Stage
<1> QED BY <1>4, <1>6, <1>8 DEF Runs

\* The outermost call has returned.
\* What holds when the outermost call has returned.
Done(c, a, F, fd) ==
  /\ a = Start(c) /\ F \subseteq Nodes(c.net) /\ c.root \in F
  /\ \A x \in F : x = c.root \/ \E m \in F : m \in Logic(c.net) /\ x \in Fanins(c.net, m)
  /\ \A x \in F : x \in c.stem \/ Fanins(c.net, x) \subseteq F
  /\ \A C \in Feasible(c.net, c.stem, c.limit, c.root) : Told(c, C) \in fd
  /\ \A C \in Feasible(c.net, c.stem, c.limit, c.root) : Met(c.net, c.root, C) \subseteq F
  /\ {} \in fd

LEMMA RunsDone ==
  ASSUME NEW c, Context(c), NEW h, NEW r \in {"true", "false"}, NEW a, NEW F, NEW fd,
         Runs(c, h, <<>>, r, a, F, fd)
  PROVE  Done(c, a, F, fd)
<1>1. PICK s : s = <<>> /\ Len(s) = 0 /\ 1 .. Len(s) = {}
  BY EmptySeq
<1>2. Stage(c, h, s, "done", r, a, F, fd)
  BY <1>1 DEF Runs
<1>3. a = Start(c)
  <2>1. Structure(c, h, s) /\ a = h[Len(h)]
    BY <1>2 DEF Stage
  <2>2. Len(h) = Len(s) + 1 /\ h[1] = Start(c)
    BY <2>1 DEF Structure
  <2>3. Len(h) = 1
    BY <1>1, <2>2
  <2> QED BY <2>1, <2>2, <2>3
<1>4. Due(s, r, F) = F
  BY <1>1 DEF Due
<1>5. /\ F \subseteq Nodes(c.net)
      /\ \A x \in F : x = c.root \/ \E m \in F : m \in Logic(c.net) /\ x \in Fanins(c.net, m)
      /\ \A x \in F : x \in c.stem \/ Fanins(c.net, x) \subseteq F
      /\ \A D \in fd : Met(c.net, c.root, Cut(c, D)) \subseteq F
  BY <1>2, <1>4 DEF Stage, Marked
<1>6. ASSUME NEW C \in Feasible(c.net, c.stem, c.limit, c.root) PROVE Told(c, C) \in fd
  <2>1. ~Pending(h, s, "done", C)
    BY <1>1 DEF Pending
  <2> QED BY <1>2, <2>1 DEF Stage, NothingLost
<1>7. ASSUME NEW C \in Feasible(c.net, c.stem, c.limit, c.root) PROVE Met(c.net, c.root, C) \subseteq F
  <2>1. Cut(c, Told(c, C)) = C
    BY CutTold
  <2> QED BY <1>5, <1>6, <2>1
<1>8. c.root \in F /\ {} \in fd
  <2>1. IsNetwork(c.net) /\ c.root \in Nodes(c.net) /\ c.root \in c.stem /\ c.limit \in Nat \ {0}
    BY NetFacts DEF Context
  <2>2. /\ {c.root} \in Feasible(c.net, c.stem, c.limit, c.root)
        /\ Met(c.net, c.root, {c.root}) = {c.root}
    BY <2>1, NodeItself
  <2>3. Told(c, {c.root}) = {}
    BY DEF Told
  <2> QED BY <1>6, <1>7, <2>2, <2>3
<1> QED BY <1>3, <1>5, <1>6, <1>7, <1>8 DEF Done

------------------------------------------------------------------------------
(***************************************************************************)
(* The inductive invariant.  Between two nodes nothing is left; while the  *)
(* cuts of a node are enumerated there are levels for the activations that *)
(* wait; and the footprints of the nodes done contain every node that a    *)
(* search to one of their cuts meets.                                      *)
(***************************************************************************)
Types ==
  /\ IsNetwork(net) /\ limit \in Nat \ {0} /\ Inputs(net) \subseteq stem /\ stem \subseteq Nodes(net)
  /\ mRoot \in Nodes(net) /\ net.inputs <= mRoot
  /\ fpnode_list \in [Nodes(net) -> SUBSET Nodes(net)]
  /\ found \in [Nodes(net) -> SUBSET (SUBSET Nodes(net))]
  /\ ret \in {"idle", "call", "true", "false"}

Listed(n) ==
  /\ n \in stem => /\ n \in fpnode_list[n]
                   /\ \A C \in Feasible(net, stem, limit, n) : Met(net, n, C) \subseteq fpnode_list[n]
  /\ n \notin stem => \A m \in Fanins(net, n) : fpnode_list[m] \subseteq fpnode_list[n]
  /\ \A x \in fpnode_list[n] : x \in stem \/ Fanins(net, x) \subseteq fpnode_list[n]

Lists ==
  /\ \A n \in Nodes(net) : n < mRoot \/ (n = mRoot /\ ret = "idle") => Listed(n)
  /\ \A n \in Nodes(net) : n > mRoot => found[n] = {}

Idle ==
  /\ stack = <<>> /\ mFrontierStack = <<>> /\ mInputs = <<>> /\ fpmark = {}
  /\ state = [n \in Nodes(net) |-> "free"]

\* The nodes a search may enter: those in the footprints, and those that have
\* no cuts, whose fanins are in them.
Open == temp1 \cup {n \in Nodes(net) : n \notin stem /\ n < mRoot /\ fpnode_list[n] \subseteq temp1}
Ctx == [net |-> net, limit |-> limit, stem |-> stem, root |-> mRoot, open |-> Open, edge |-> temp2]
Level == [fs |-> mFrontierStack, ins |-> mInputs, st |-> state]

Running ==
  /\ Context(Ctx)
  /\ \E h : Runs(Ctx, h, stack, ret, Level, fpmark, found[mRoot])

TInv == /\ Types /\ Lists
        /\ ret = "idle" => Idle
        /\ ret # "idle" => Running

LEMMA InitHolds == Init => TInv
<1> SUFFICES ASSUME Init PROVE TInv
  OBVIOUS
<1>2. IsNetwork(net) /\ limit \in Nat \ {0}
  BY NetworksAssumption DEF Init
<1>3. /\ Inputs(net) \subseteq Nodes(net) /\ Logic(net) \cap Inputs(net) = {} /\ Nodes(net) \subseteq Nat \ {0}
      /\ Nodes(net) = Inputs(net) \cup Logic(net)
  BY <1>2, NetFacts DEF Nodes
<1>4. Inputs(net) \subseteq stem /\ stem \subseteq Nodes(net)
  <2>1. PICK s : s \subseteq Logic(net) /\ stem = Nodes(net) \ s
    <3> DEFINE A == {m \in Logic(net) : Cardinality(Fanouts(net, m)) = 1}
               B == {m \in Logic(net) : Fanouts(net, m) = {}}
    <3>1. stem \in {Nodes(net) \ s : s \in (SUBSET A) \cup {A \cup B}}
      BY DEF Init, StemSets
    <3>2. A \subseteq Logic(net) /\ B \subseteq Logic(net)
      OBVIOUS
    <3> HIDE DEF A, B
    <3> QED BY <3>1, <3>2
  <2> QED BY <1>3, <2>1
<1>5. /\ mRoot \in Inputs(net) /\ mRoot = net.inputs /\ mRoot \in Nat
      /\ \A n \in Nodes(net) : n <= mRoot => n \in Inputs(net)
      /\ \A n \in Inputs(net) : n <= mRoot
  <2>1. net.inputs \in Nat \ {0}
    BY <1>2 DEF IsNetwork
  <2> QED BY <1>3, <2>1 DEF Init, Inputs
<1>6. Types
  <2>1. fpnode_list \in [Nodes(net) -> SUBSET Nodes(net)] /\ found \in [Nodes(net) -> SUBSET (SUBSET Nodes(net))]
    BY DEF Init
  <2>2. ret \in {"idle", "call", "true", "false"}
    BY DEF Init
  <2> QED BY <1>2, <1>3, <1>4, <1>5, <2>1, <2>2 DEF Types
<1>7. ASSUME NEW n \in Inputs(net) PROVE Listed(n)
  <2>1. fpnode_list[n] = {n} /\ n \in stem
    BY <1>3, <1>4 DEF Init
  <2>2. \A C : Met(net, n, C) = {n}
    BY <1>2, InputMet
  <2> QED BY <2>1, <2>2 DEF Listed
<1>8. Lists
  <2>1. ASSUME NEW n \in Nodes(net), n < mRoot \/ n = mRoot PROVE n \in Inputs(net)
    BY <1>3, <1>5, <2>1
  <2>2. ASSUME NEW n \in Nodes(net), n > mRoot PROVE found[n] = {}
    <3>1. n \notin Inputs(net)
      BY <1>3, <1>5, <2>2
    <3> QED BY <3>1 DEF Init
  <2> QED BY <1>7, <2>1, <2>2 DEF Lists
<1>9. ret = "idle" /\ Idle
  BY DEF Init, Idle
<1> QED BY <1>6, <1>8, <1>9 DEF TInv

Opened(r, T1, T2, S, c) ==
  /\ T1 = UNION {fpnode_list[m] : m \in Fanins(net, r)} /\ T2 = Boundary(T1)
  /\ S = T1 \cup {n \in Nodes(net) : n \notin stem /\ n < r /\ fpnode_list[n] \subseteq T1}
  /\ c = [net |-> net, limit |-> limit, stem |-> stem, root |-> r, open |-> S, edge |-> T2]

\* The search from a node stops where it has to.
LEMMA ContextHolds ==
  ASSUME Types, NEW r \in Logic(net) \cap stem, \A n \in Nodes(net) : n < r => Listed(n),
         NEW T1, NEW T2, NEW S, NEW c, Opened(r, T1, T2, S, c)
  PROVE  Context(c)
<1> USE DEF Opened
<1>1. /\ IsNetwork(net) /\ limit \in Nat \ {0} /\ Inputs(net) \subseteq stem /\ stem \subseteq Nodes(net)
      /\ r \in Nodes(net) /\ Nodes(net) \subseteq Nat \ {0}
      /\ \A n \in Nodes(net) : n \in Inputs(net) \/ n \in Logic(net)
      /\ \A n \in Logic(net) : /\ Fanins(net, n) \subseteq Nodes(net)
                               /\ \A m \in Fanins(net, n) : m < n
  BY NetFacts DEF Types
<1>2. \A m \in Fanins(net, r) : fpnode_list[m] \subseteq T1 /\ fpnode_list[m] \subseteq Nodes(net)
  BY <1>1 DEF Types
<1>3. T1 \subseteq Nodes(net)
  BY <1>2
<1>4. ASSUME NEW m \in Nodes(net), m < r, fpnode_list[m] \subseteq T1 PROVE m \in S
  <2>1. CASE m \in stem
    BY <1>4, <2>1 DEF Listed
  <2>2. CASE m \notin stem
    BY <1>4, <2>2
  <2> QED BY <2>1, <2>2
<1>5. S \subseteq Nodes(net) /\ Fanins(net, r) \subseteq S
  BY <1>1, <1>2, <1>3, <1>4
<1>6. ASSUME NEW n \in Nodes(net), n \notin stem, n < r, fpnode_list[n] \subseteq T1, NEW m \in Fanins(net, n)
      PROVE  m \in Nodes(net) /\ m < r /\ fpnode_list[m] \subseteq T1 /\ n \in Logic(net)
  <2>1. n \in Logic(net)
    BY <1>1, <1>6
  <2>2. m \in Nodes(net) /\ m < n /\ m \in Nat /\ n \in Nat /\ r \in Nat
    BY <1>1, <2>1
  <2>3. fpnode_list[m] \subseteq fpnode_list[n]
    BY <1>6 DEF Listed
  <2> QED BY <1>6, <2>1, <2>2, <2>3
<1>7. ASSUME NEW n \in S, n \notin T2 PROVE n \in Logic(net) /\ Fanins(net, n) \subseteq S
  <2>1. CASE n \in T1
    <3>1. n \notin Inputs(net) /\ Fanins(net, n) \subseteq T1
      BY <1>7, <2>1 DEF Boundary
    <3> QED BY <1>1, <1>3, <2>1, <3>1
  <2>2. CASE n \notin T1
    BY <1>1, <1>4, <1>6, <2>2
  <2> QED BY <2>1, <2>2
<1>8. ASSUME NEW C \in Feasible(net, stem, limit, r), NEW x \in Met(net, r, C) \ C, x \in T2, x # r
      PROVE  FALSE
  <2>1. PICK M : M = Met(net, r, C)
    OBVIOUS
  <2>2. /\ M \subseteq Nodes(net) /\ r \in M
        /\ \A m \in Logic(net) : m \in M /\ m \notin C => Fanins(net, m) \subseteq M
    BY <1>1, <2>1, MetFacts
  <2>3. x \in T1 /\ x \in Logic(net) /\ ~(Fanins(net, x) \subseteq T1)
    <3>1. x \in Logic(net)
      BY <1>1, <1>8, FeasibleFacts
    <3>2. x \notin Inputs(net)
      BY <1>1, <3>1, NetFacts
    <3> QED BY <1>8, <3>1, <3>2 DEF Boundary
  <2>4. x \in stem
    <3>1. PICK m \in Fanins(net, r) : x \in fpnode_list[m]
      BY <2>3
    <3>2. Listed(m)
      BY <1>1
    <3> QED BY <1>2, <2>3, <3>1, <3>2 DEF Listed
  <2>5. PICK P : P = {n \in Nodes(net) :
                       (n = r) \/ (n \notin stem /\ n < r /\ fpnode_list[n] \subseteq T1)
                         \/ (\E m \in stem : /\ m < r /\ fpnode_list[m] \subseteq T1
                                            /\ m \in M /\ n \in Met(net, m, C))}
    OBVIOUS
  <2>6. ASSUME NEW m \in Nodes(net), m < r, fpnode_list[m] \subseteq T1, m \in M PROVE m \in P
    <3>1. CASE m \notin stem
      BY <2>5, <2>6, <3>1
    <3>2. CASE m \in stem
      <4>1. m \in Met(net, m, C)
        BY <1>1, MetFacts
      <4> QED BY <2>5, <2>6, <3>2, <4>1
    <3> QED BY <3>1, <3>2
  <2>7. ASSUME NEW n \in (Met(net, r, C) \cap P \cap Logic(net)) \ C, NEW i \in Fanins(net, n)
        PROVE  i \in P
    <3>1. i \in Nodes(net) /\ i < n /\ i \in M /\ n \in Nodes(net)
      BY <1>1, <2>1, <2>2
    <3>2. CASE n = r
      BY <1>2, <2>6, <3>1, <3>2
    <3>3. CASE n \notin stem /\ n < r /\ fpnode_list[n] \subseteq T1
      BY <1>6, <2>6, <3>1, <3>3
    <3>4. CASE \E m \in stem : m < r /\ fpnode_list[m] \subseteq T1 /\ m \in M /\ n \in Met(net, m, C)
      <4>1. PICK m \in stem : m < r /\ fpnode_list[m] \subseteq T1 /\ m \in M /\ n \in Met(net, m, C)
        BY <3>4
      <4>2. m \in Nodes(net)
        BY <1>1
      <4>3. i \in Met(net, m, C)
        BY <1>1, <4>1, <4>2, MetFacts
      <4> QED BY <2>5, <3>1, <4>1, <4>3
    <3> QED BY <2>5, <3>2, <3>3, <3>4
  <2>8. Met(net, r, C) \subseteq P
    <3>1. \A n \in (Met(net, r, C) \cap P \cap Logic(net)) \ C : Fanins(net, n) \subseteq P
      BY <2>7
    <3>2. r \in P
      BY <1>1, <2>5
    <3> QED BY <1>1, <3>1, <3>2, MetLeast
  <2>9. PICK m \in stem : m < r /\ fpnode_list[m] \subseteq T1 /\ m \in M /\ x \in Met(net, m, C)
    BY <1>8, <2>4, <2>5, <2>8
  <2>10. m \in Nodes(net) /\ Listed(m)
    BY <1>1, <2>9
  <2>11. m \notin C
    <3>1. SUFFICES ASSUME m \in C PROVE FALSE
      OBVIOUS
    <3>2. Met(net, m, C) \subseteq {m}
      <4>1. PICK Q : Q = {m}
        OBVIOUS
      <4>2. \A n \in (Met(net, m, C) \cap Q \cap Logic(net)) \ C : Fanins(net, n) \subseteq Q
        BY <3>1, <4>1
      <4>3. Met(net, m, C) \subseteq Q
        BY <1>1, <2>10, <4>1, <4>2, MetLeast
      <4> QED BY <4>1, <4>3
    <3> QED BY <1>8, <2>9, <3>1, <3>2
  <2>12. m \in Met(net, r, C) \ C
    BY <2>1, <2>9, <2>11
  <2>13. C \cap Met(net, m, C) \in Feasible(net, stem, limit, m)
    BY <1>1, <2>12, FeasibleBelow
  <2>14. Met(net, m, C \cap Met(net, m, C)) = Met(net, m, C)
    BY <1>1, <2>12, MetBelow
  <2>15. Met(net, m, C) \subseteq T1
    BY <2>9, <2>10, <2>13, <2>14 DEF Listed
  <2>16. Fanins(net, x) \subseteq Met(net, m, C)
    BY <1>1, <1>8, <2>3, <2>9, <2>10, MetFacts
  <2> QED BY <2>3, <2>15, <2>16
<1>9. /\ c.net = net /\ c.limit = limit /\ c.stem = stem /\ c.root = r /\ c.open = S /\ c.edge = T2
  OBVIOUS
<1>10. \A C \in Feasible(net, stem, limit, r) : ((Met(net, r, C) \ C) \cap T2) \subseteq {r}
  BY <1>8
<1>11. \A n \in S \ T2 : n \in Logic(net) /\ Fanins(net, n) \subseteq S
  BY <1>7
<1> HIDE DEF Context
<1> QED BY <1>1, <1>5, <1>9, <1>10, <1>11 DEF Context

------------------------------------------------------------------------------
(***************************************************************************)
(* The steps keep the invariant.                                           *)
(***************************************************************************)
NextLevel == [fs |-> mFrontierStack', ins |-> mInputs', st |-> state']

\* What a step of enum_recur starts from.
LEMMA Runner ==
  ASSUME TInv, ret # "idle", NEW c, c = Ctx, NEW a, a = Level
  PROVE  /\ Types /\ Lists /\ Context(c) /\ Current(c) /\ IsNetwork(net)
         /\ c.net = net /\ c.stem = stem /\ c.limit = limit /\ c.root = mRoot
         /\ a.fs = mFrontierStack /\ a.ins = mInputs /\ a.st = state
         /\ \E h : Runs(c, h, stack, ret, a, fpmark, found[mRoot])
<1>1. Types /\ Lists /\ Running
  BY DEF TInv
<1>2. Context(c) /\ \E h : Runs(c, h, stack, ret, a, fpmark, found[mRoot])
  BY <1>1 DEF Running
<1>3. /\ c.net = net /\ c.stem = stem /\ c.limit = limit /\ c.root = mRoot /\ c.edge = temp2
      /\ a.fs = mFrontierStack /\ a.ins = mInputs /\ a.st = state
  BY DEF Ctx, Level
<1> QED BY <1>1, <1>2, <1>3 DEF Current, Types

\* And what it has to establish.
LEMMA StillRunning ==
  ASSUME Types, Lists, ret # "idle", ret' \in {"call", "true", "false"},
         NEW c, c = Ctx, Context(c),
         UNCHANGED <<net, limit, stem, mRoot, temp1, temp2, fpnode_list>>,
         found' \in [Nodes(net) -> SUBSET (SUBSET Nodes(net))],
         \A n \in Nodes(net) : n > mRoot => found'[n] = found[n],
         \E h : Runs(c, h, stack', ret', NextLevel, fpmark', found'[mRoot])
  PROVE  TInv'
<1>1. Types'
  BY DEF Types
<1>2. \A n : Listed(n)' <=> Listed(n)
  BY DEF Listed
<1>3. Lists'
  BY <1>2 DEF Lists
<1>4. Ctx' = c /\ Level' = NextLevel
  BY DEF Ctx, Open, Level, NextLevel
<1>5. Running'
  BY <1>4 DEF Running
<1> QED BY <1>1, <1>3, <1>5 DEF TInv

\* A node that goes inside, or cannot.
LEMMA StageGoes ==
  ASSUME NEW c, Context(c), Current(c), NEW h, NEW s, NEW hc \in {"true", "false"}, NEW a,
         NEW F, NEW fd, Stage(c, h, s, "go", hc, a, F, fd), a.fs # <<>>,
         NEW front, front = Upto(a.fs, Len(a.fs) - 1), GoInside(Top(a), front, a.ins, a.st, s, hc)
  PROVE  /\ ret' \in {"call", "true", "false"}
         /\ \E g : Runs(c, g, stack', ret', NextLevel, F, fd)
<1>1. PICK I, T : I = Inside(s, Len(s)) /\ T = Tried(s, Len(s))
  OBVIOUS
<1>2. Structure(c, h, s) /\ a = h[Len(h)]
  BY DEF Stage
<1>3. a \in Levels(c) /\ Good(c, a, I, T)
  BY <1>1, <1>2, LastLevel
<1>4. PICK node : node = a.fs[Len(a.fs)] /\ node = Top(a)
  BY DEF Top
<1>5. GoInside(node, front, a.ins, a.st, s, hc)
  BY <1>4
<1>6. \/ \E f \in Frames(c), b \in Levels(c) :
              /\ Calls(c, a, node, hc, f, b) /\ Good(c, b, I \cup {node}, T)
              /\ stack' = Append(s, f) /\ mFrontierStack' = b.fs /\ mInputs' = b.ins
              /\ state' = b.st /\ ret' = "call"
      \/ /\ GivesUp(c, a, node)
         /\ stack' = s /\ mFrontierStack' = a.fs /\ mInputs' = a.ins
         /\ state' = a.st /\ ret' = hc
  BY <1>3, <1>4, <1>5, GoesOn
<1>7. CASE \E f \in Frames(c), b \in Levels(c) :
              /\ Calls(c, a, node, hc, f, b) /\ Good(c, b, I \cup {node}, T)
              /\ stack' = Append(s, f) /\ mFrontierStack' = b.fs /\ mInputs' = b.ins
              /\ state' = b.st /\ ret' = "call"
  <2>1. PICK f \in Frames(c), b \in Levels(c) :
              /\ Calls(c, a, node, hc, f, b) /\ Good(c, b, I \cup {node}, T)
              /\ stack' = Append(s, f) /\ mFrontierStack' = b.fs /\ mInputs' = b.ins
              /\ state' = b.st /\ ret' = "call"
    BY <1>7
  <2>2. NextLevel = b
    BY <2>1 DEF NextLevel, Levels
  <2>3. Calls(c, a, Top(a), hc, f, b) /\ Good(c, b, Inside(s, Len(s)) \cup {Top(a)}, Tried(s, Len(s)))
    BY <1>1, <1>4, <2>1
  <2>4. Runs(c, Append(h, b), Append(s, f), "call", b, F, fd)
    BY <2>3, StageCalls
  <2> QED BY <2>1, <2>2, <2>4
<1>8. CASE /\ GivesUp(c, a, node)
           /\ stack' = s /\ mFrontierStack' = a.fs /\ mInputs' = a.ins
           /\ state' = a.st /\ ret' = hc
  <2>1. NextLevel = a
    BY <1>3, <1>8 DEF NextLevel, Levels
  <2>2. GivesUp(c, a, Top(a))
    BY <1>4, <1>8
  <2>3. Runs(c, h, s, hc, a, F, fd)
    BY <2>2, StageStops
  <2> QED BY <1>8, <2>1, <2>3
<1> QED BY <1>6, <1>7, <1>8

LEMMA TryInputKeeps == TInv /\ TryInput => TInv'
<1> SUFFICES ASSUME TInv, TryInput PROVE TInv'
  OBVIOUS
<1>1. PICK c, a : c = Ctx /\ a = Level
  OBVIOUS
<1>2. ret = "call" /\ ret # "idle" /\ ret' = "call"
  BY DEF TryInput
<1>3. /\ Types /\ Lists /\ Context(c) /\ Current(c)
      /\ c.net = net /\ c.stem = stem /\ c.limit = limit /\ c.root = mRoot
      /\ a.fs = mFrontierStack /\ a.ins = mInputs /\ a.st = state
      /\ \E h : Runs(c, h, stack, ret, a, fpmark, found[mRoot])
  BY <1>1, <1>2, Runner
<1>4. PICK h : Runs(c, h, stack, "call", a, fpmark, found[mRoot])
  BY <1>2, <1>3
<1>5. a \in Levels(c) /\ c.limit \in Nat
  <2>1. Structure(c, h, stack) /\ a = h[Len(h)]
    BY <1>4 DEF Runs, Stage
  <2> QED BY <1>3, <2>1, LastLevel DEF Context
<1>6. a.fs # <<>> /\ Top(a) \in c.stem /\ Len(a.ins) < c.limit
  <2>1. ~(Len(mInputs) >= limit) /\ mFrontierStack # <<>> /\ mFrontierStack[Len(mFrontierStack)] \in stem
    BY DEF TryInput, Full
  <2>2. Len(a.ins) \in Nat
    BY <1>5 DEF Levels
  <2> QED BY <1>3, <1>5, <2>1, <2>2 DEF Top
<1>7. PICK b, f : Tries(a, Top(a), f, b)
  BY DEF Tries
<1>8. Runs(c, Append(h, b), Append(stack, f), "call", b, fpmark, found[mRoot])
  BY <1>3, <1>4, <1>6, <1>7, RunsTry
<1>9. NextLevel = b /\ stack' = Append(stack, f)
  <2>1. /\ mFrontierStack' = Upto(a.fs, Len(a.fs) - 1) /\ mInputs' = Append(a.ins, Top(a))
        /\ state' = [a.st EXCEPT ![Top(a)] = "input"]
        /\ stack' = Append(stack, [node |-> Top(a), for |-> "input"])
    BY <1>3 DEF TryInput, Top
  <2> QED BY <1>7, <2>1 DEF Tries, NextLevel
<1>10. /\ UNCHANGED <<net, limit, stem, mRoot, temp1, temp2, fpnode_list>>
       /\ fpmark' = fpmark /\ found' = found
  BY DEF TryInput, Kept
<1>11. \E g : Runs(c, g, stack', ret', NextLevel, fpmark', found'[mRoot])
  BY <1>2, <1>8, <1>9, <1>10
<1>12. found' \in [Nodes(net) -> SUBSET (SUBSET Nodes(net))]
  BY <1>3, <1>10 DEF Types
<1> QED BY <1>1, <1>2, <1>3, <1>10, <1>11, <1>12, StillRunning

LEMMA SkipInputKeeps == TInv /\ SkipInput => TInv'
<1> SUFFICES ASSUME TInv, SkipInput PROVE TInv'
  OBVIOUS
<1>1. PICK c, a : c = Ctx /\ a = Level
  OBVIOUS
<1>2. ret = "call" /\ ret # "idle"
  BY DEF SkipInput
<1>3. /\ Types /\ Lists /\ Context(c) /\ Current(c)
      /\ c.net = net /\ c.stem = stem /\ c.limit = limit /\ c.root = mRoot
      /\ a.fs = mFrontierStack /\ a.ins = mInputs /\ a.st = state
      /\ \E h : Runs(c, h, stack, ret, a, fpmark, found[mRoot])
  BY <1>1, <1>2, Runner
<1>4. PICK h : Runs(c, h, stack, "call", a, fpmark, found[mRoot])
  BY <1>2, <1>3
<1>5. a \in Levels(c) /\ c.limit \in Nat
  <2>1. Structure(c, h, stack) /\ a = h[Len(h)]
    BY <1>4 DEF Runs, Stage
  <2> QED BY <1>3, <2>1, LastLevel DEF Context
<1>6. a.fs # <<>> /\ (Top(a) \notin c.stem \/ c.limit <= Len(a.ins))
  <2>1. /\ Len(mInputs) >= limit \/ mFrontierStack[Len(mFrontierStack)] \notin stem
        /\ mFrontierStack # <<>>
    BY DEF SkipInput, Full
  <2>2. Len(a.ins) \in Nat
    BY <1>5 DEF Levels
  <2> QED BY <1>3, <1>5, <2>1, <2>2 DEF Top
<1>7. Stage(c, h, stack, "go", "false", a, fpmark, found[mRoot])
  BY <1>3, <1>4, <1>6, RunsSkip
<1>8. PICK front : front = Upto(a.fs, Len(a.fs) - 1)
  OBVIOUS
<1>9. GoInside(Top(a), front, a.ins, a.st, stack, "false")
  BY <1>3, <1>8 DEF SkipInput, Top
<1>10. /\ ret' \in {"call", "true", "false"}
       /\ \E g : Runs(c, g, stack', ret', NextLevel, fpmark, found[mRoot])
  BY <1>3, <1>6, <1>7, <1>8, <1>9, StageGoes
<1>11. /\ UNCHANGED <<net, limit, stem, mRoot, temp1, temp2, fpnode_list>>
       /\ fpmark' = fpmark /\ found' = found
  BY DEF SkipInput, Kept
<1>12. \E g : Runs(c, g, stack', ret', NextLevel, fpmark', found'[mRoot])
  BY <1>10, <1>11
<1>13. found' \in [Nodes(net) -> SUBSET (SUBSET Nodes(net))]
  BY <1>3, <1>11 DEF Types
<1> QED BY <1>1, <1>2, <1>3, <1>10, <1>11, <1>12, <1>13, StillRunning

LEMMA AfterInputKeeps == TInv /\ AfterInput => TInv'
<1> SUFFICES ASSUME TInv, AfterInput PROVE TInv'
  OBVIOUS
<1>1. PICK c, b : c = Ctx /\ b = Level
  OBVIOUS
<1>2. ret \in {"true", "false"} /\ ret # "idle" /\ stack # <<>> /\ Caller.for = "input"
  BY DEF AfterInput, Returned, Caller
<1>3. /\ Types /\ Lists /\ Context(c) /\ Current(c)
      /\ c.net = net /\ c.stem = stem /\ c.limit = limit /\ c.root = mRoot
      /\ b.fs = mFrontierStack /\ b.ins = mInputs /\ b.st = state
      /\ \E g : Runs(c, g, stack, ret, b, fpmark, found[mRoot])
  BY <1>1, <1>2, Runner
<1>4. PICK g : Runs(c, g, stack, ret, b, fpmark, found[mRoot])
  BY <1>3
<1>5. Structure(c, g, stack) /\ b = g[Len(g)]
  BY <1>2, <1>4 DEF Runs, Stage
<1>6. PICK f : f = Caller /\ f = stack[Len(stack)]
  BY DEF Caller
<1>7. PICK h, s, a : Callers(c, g, stack, h, s, a, b, f)
  BY <1>2, <1>5, <1>6, CallersExist
<1>8. f.for = "input" /\ s = Waiting /\ a.fs # <<>> /\ f.node = Top(a)
  BY <1>2, <1>6, <1>7 DEF Callers, Waiting
<1>9. PICK r, fd : r \in {"true", "false"} /\ r = ret /\ fd = found[mRoot]
  BY <1>2
<1>10. Stage(c, h, s, "go", r, a, fpmark, fd) /\ Retried(a, b, f)
  <2>1. Runs(c, g, stack, r, b, fpmark, fd)
    BY <1>4, <1>9
  <2> QED BY <1>7, <1>8, <1>9, <2>1, RunsTried
<1>11. PICK front : front = Upto(a.fs, Len(a.fs) - 1)
  OBVIOUS
<1>12. GoInside(Top(a), front, a.ins, a.st, s, r)
  <2>1. GoInside(f.node, b.fs, Upto(b.ins, Len(b.ins) - 1), [b.st EXCEPT ![f.node] = "inside"], s, ret)
    BY <1>3, <1>6, <1>8 DEF AfterInput
  <2> QED BY <1>8, <1>9, <1>10, <1>11, <2>1 DEF Retried
<1>13. /\ ret' \in {"call", "true", "false"}
       /\ \E k : Runs(c, k, stack', ret', NextLevel, fpmark, fd)
  BY <1>3, <1>8, <1>9, <1>10, <1>11, <1>12, StageGoes
<1>14. /\ UNCHANGED <<net, limit, stem, mRoot, temp1, temp2, fpnode_list>>
       /\ fpmark' = fpmark /\ found' = found
  BY DEF AfterInput, Kept
<1>15. \E k : Runs(c, k, stack', ret', NextLevel, fpmark', found'[mRoot])
  BY <1>9, <1>13, <1>14
<1>16. found' \in [Nodes(net) -> SUBSET (SUBSET Nodes(net))]
  BY <1>3, <1>14 DEF Types
<1> QED BY <1>1, <1>2, <1>3, <1>13, <1>14, <1>15, <1>16, StillRunning

LEMMA AfterInsideKeeps == TInv /\ AfterInside => TInv'
<1> SUFFICES ASSUME TInv, AfterInside PROVE TInv'
  OBVIOUS
<1>1. PICK c, b : c = Ctx /\ b = Level
  OBVIOUS
<1>2. ret \in {"true", "false"} /\ ret # "idle" /\ stack # <<>> /\ Caller.for = "inside"
  BY DEF AfterInside, Returned, Caller
<1>3. /\ Types /\ Lists /\ Context(c) /\ Current(c)
      /\ c.net = net /\ c.stem = stem /\ c.limit = limit /\ c.root = mRoot
      /\ b.fs = mFrontierStack /\ b.ins = mInputs /\ b.st = state
      /\ \E g : Runs(c, g, stack, ret, b, fpmark, found[mRoot])
  BY <1>1, <1>2, Runner
<1>4. PICK g : Runs(c, g, stack, ret, b, fpmark, found[mRoot])
  BY <1>3
<1>5. Structure(c, g, stack) /\ b = g[Len(g)]
  BY <1>2, <1>4 DEF Runs, Stage
<1>6. PICK f : f = Caller /\ f = stack[Len(stack)]
  BY DEF Caller
<1>7. PICK h, s, a : Callers(c, g, stack, h, s, a, b, f)
  BY <1>2, <1>5, <1>6, CallersExist
<1>8. f.for = "inside" /\ s = Waiting /\ a.fs # <<>> /\ f.node = Top(a)
  BY <1>2, <1>6, <1>7 DEF Callers, Waiting
<1>9. PICK r, fd, q, G : r \in {"true", "false"} /\ r = ret /\ fd = found[mRoot] /\ Answers(r, fpmark, f, q, G)
  BY <1>2 DEF Answers
<1>10. q \in {"true", "false"} /\ Runs(c, h, s, q, a, G, fd) /\ Rewound(c, a, b, f)
  <2>1. Runs(c, g, stack, r, b, fpmark, fd)
    BY <1>4, <1>9
  <2> QED BY <1>3, <1>7, <1>8, <1>9, <2>1, RunsBack
<1>11. fpmark' = G /\ ret' = q /\ stack' = s
  BY <1>6, <1>8, <1>9 DEF AfterInside, Answers
<1>12. mFrontierStack' = a.fs /\ mInputs' = a.ins /\ state' = a.st
  <2>1. state' = [n \in Nodes(c.net) |-> IF n \in f.new THEN "free"
                                         ELSE IF n = f.node THEN "inside" ELSE b.st[n]]
    BY <1>3, <1>6 DEF AfterInside, ClearedBy
  <2>2. mFrontierStack' = Append(Upto(b.fs, f.old_fs_pos), f.node) /\ mInputs' = Upto(b.ins, f.old_input_pos)
    BY <1>3, <1>6 DEF AfterInside
  <2> QED BY <1>10, <2>1, <2>2 DEF Rewound
<1>13. NextLevel = a
  <2>1. Structure(c, h, s) /\ a = h[Len(h)]
    BY <1>7 DEF Callers
  <2>2. a \in Levels(c)
    BY <2>1, LastLevel
  <2> QED BY <1>12, <2>2 DEF NextLevel, Levels
<1>14. UNCHANGED <<net, limit, stem, mRoot, temp1, temp2, fpnode_list>> /\ found' = found
  BY DEF AfterInside, Kept
<1>15. \E k : Runs(c, k, stack', ret', NextLevel, fpmark', found'[mRoot])
  BY <1>9, <1>10, <1>11, <1>13, <1>14
<1>16. found' \in [Nodes(net) -> SUBSET (SUBSET Nodes(net))]
  BY <1>3, <1>14 DEF Types
<1>17. ret' \in {"call", "true", "false"}
  BY <1>10, <1>11
<1> QED BY <1>1, <1>2, <1>3, <1>14, <1>15, <1>16, <1>17, StillRunning

LEMMA FoundCutKeeps ==
  ASSUME TInv, FoundCut, NEW D, D = ReportOf(Level)
  PROVE  /\ TInv' /\ D \notin found[mRoot] /\ IsReport(net, stem, limit, mRoot, D)
         /\ D \subseteq stem \cap 1 .. mRoot /\ mRoot \in Logic(net) \cap stem
         /\ found' = [found EXCEPT ![mRoot] = @ \cup {D}]
<1>1. PICK c, a : c = Ctx /\ a = Level
  OBVIOUS
<1>2. ret = "call" /\ ret # "idle" /\ ret' = "true"
  BY DEF FoundCut
<1>3. /\ Types /\ Lists /\ Context(c) /\ Current(c) /\ IsNetwork(net)
      /\ c.net = net /\ c.stem = stem /\ c.limit = limit /\ c.root = mRoot
      /\ a.fs = mFrontierStack /\ a.ins = mInputs /\ a.st = state
      /\ \E h : Runs(c, h, stack, ret, a, fpmark, found[mRoot])
  BY <1>1, <1>2, Runner
<1>4. PICK fd, h : fd = found[mRoot] /\ Runs(c, h, stack, "call", a, fpmark, fd)
  BY <1>2, <1>3
<1>5. a \in Levels(c) /\ a.fs = <<>> /\ D = ReportOf(a)
  <2>1. Structure(c, h, stack) /\ a = h[Len(h)]
    BY <1>4 DEF Runs, Stage
  <2> QED BY <1>1, <1>3, <2>1, LastLevel DEF FoundCut
<1>6. /\ D \notin fd /\ IsReport(c.net, c.stem, c.limit, c.root, D)
      /\ D \subseteq c.stem \cap 1 .. c.root
      /\ Runs(c, h, stack, "true", a, fpmark \cup Values(a.ins), fd \cup {D})
  BY <1>3, <1>4, <1>5, RunsFound
<1>7. /\ UNCHANGED <<net, limit, stem, mRoot, temp1, temp2, fpnode_list>>
      /\ stack' = stack /\ fpmark' = fpmark \cup Values(a.ins)
      /\ found' = [found EXCEPT ![mRoot] = @ \cup {D}]
  BY <1>3, <1>5 DEF FoundCut, ReportOf
<1>8. NextLevel = a
  BY <1>3, <1>5 DEF FoundCut, NextLevel, Levels
<1>9. mRoot \in Nodes(net) /\ mRoot \in Logic(net) \cap stem /\ stem \subseteq Nodes(net)
      /\ found \in [Nodes(net) -> SUBSET (SUBSET Nodes(net))] /\ Nodes(net) \subseteq Nat
  BY <1>3, NetFacts DEF Types, Context
<1>10. found'[mRoot] = fd \cup {D}
  BY <1>4, <1>7, <1>9
<1>11. \E g : Runs(c, g, stack', ret', NextLevel, fpmark', found'[mRoot])
  BY <1>2, <1>6, <1>7, <1>8, <1>10
<1>12. found' \in [Nodes(net) -> SUBSET (SUBSET Nodes(net))]
  <2>1. fd \cup {D} \in SUBSET (SUBSET Nodes(net))
    BY <1>3, <1>4, <1>6, <1>9
  <2> QED BY <1>4, <1>7, <1>9, <2>1
<1>13. \A n \in Nodes(net) : n > mRoot => found'[n] = found[n]
  BY <1>7, <1>9
<1>14. TInv'
  BY <1>1, <1>2, <1>3, <1>7, <1>11, <1>12, <1>13, StillRunning
<1> QED BY <1>3, <1>4, <1>6, <1>7, <1>9, <1>14

LEMMA StartNodeKeeps == TInv /\ StartNode => TInv'
<1> SUFFICES ASSUME TInv, StartNode PROVE TInv'
  OBVIOUS
<1>1. PICK r : r = mRoot + 1
  OBVIOUS
<1>2. /\ ret = "idle" /\ r \in Logic(net) \cap stem
      /\ temp1' = UNION {fpnode_list[m] : m \in Fanins(net, r)} /\ temp2' = Boundary(temp1')
      /\ mRoot' = r /\ mFrontierStack' = <<r>> /\ ret' = "call"
      /\ state' = [state EXCEPT ![r] = "inside"]
      /\ UNCHANGED <<net, limit, stem, mInputs, fpmark, fpnode_list, stack, found>>
  BY <1>1 DEF StartNode
<1>3. Types /\ Lists /\ Idle
  BY <1>2 DEF TInv
<1>4. r \in Nodes(net) /\ mRoot \in Nodes(net) /\ Nodes(net) \subseteq Nat /\ mRoot \in Nat /\ r \in Nat
  BY <1>2, <1>3, NetFacts DEF Types
<1>5. \A n \in Nodes(net) : n < r => n < mRoot \/ n = mRoot
  BY <1>1, <1>4
<1>6. \A n \in Nodes(net) : n < r => Listed(n)
  BY <1>2, <1>3, <1>5 DEF Lists
<1>7. PICK T1, T2, S, c : Opened(r, T1, T2, S, c)
  BY DEF Opened
<1>8. Context(c)
  BY <1>2, <1>3, <1>6, <1>7, ContextHolds
<1>9. Ctx' = c
  BY <1>2, <1>7 DEF Ctx, Open, Opened
<1>10. Level' = Start(c)
  <2>1. state = [n \in Nodes(net) |-> "free"] /\ mInputs = <<>>
    BY <1>3 DEF Idle
  <2>2. state' = [n \in Nodes(net) |-> IF n = r THEN "inside" ELSE "free"]
    BY <1>2, <2>1
  <2>3. c.net = net /\ c.root = r
    BY <1>7 DEF Opened
  <2> QED BY <1>2, <2>1, <2>2, <2>3 DEF Level, Start
<1>11. stack' = <<>> /\ fpmark' = {} /\ found'[mRoot'] = {}
  <2>1. r > mRoot
    BY <1>1, <1>4
  <2> QED BY <1>2, <1>3, <1>4, <2>1 DEF Idle, Lists
<1>12. Running'
  <2>1. PICK a, h : a = Start(c) /\ h = <<a>>
    OBVIOUS
  <2>2. Runs(c, h, <<>>, "call", a, {}, {})
    BY <1>8, <2>1, RunsStart
  <2> QED BY <1>2, <1>8, <1>9, <1>10, <1>11, <2>1, <2>2 DEF Running
<1>13. Types'
  <2>1. net.inputs <= r
    <3>1. net.inputs <= mRoot /\ IsNetwork(net)
      BY <1>3 DEF Types
    <3>2. net.inputs \in Nat
      BY <3>1 DEF IsNetwork
    <3> QED BY <1>1, <1>4, <3>1, <3>2
  <2> QED BY <1>2, <1>3, <1>4, <2>1 DEF Types
<1>14. Lists'
  <2>1. \A n : Listed(n)' <=> Listed(n)
    BY <1>2 DEF Listed
  <2>2. \A n \in Nodes(net) : n > r => n > mRoot
    BY <1>1, <1>4
  <2> QED BY <1>2, <1>3, <1>6, <2>1, <2>2 DEF Lists
<1> QED BY <1>2, <1>12, <1>13, <1>14 DEF TInv

LEMMA PassNodeKeeps == TInv /\ PassNode => TInv'
<1> SUFFICES ASSUME TInv, PassNode PROVE TInv'
  OBVIOUS
<1>1. PICK r, U : r = mRoot + 1 /\ U = UNION {fpnode_list[m] : m \in Fanins(net, r)}
  OBVIOUS
<1>2. /\ ret = "idle" /\ r \in Logic(net) \ stem
      /\ mRoot' = r /\ fpnode_list' = [fpnode_list EXCEPT ![r] = U]
      /\ UNCHANGED <<net, limit, stem, fpmark, found, mFrontierStack, mInputs, state, stack, ret>>
  BY <1>1 DEF PassNode, work
<1>3. Types /\ Lists /\ Idle
  BY <1>2 DEF TInv
<1>4. /\ r \in Nodes(net) /\ mRoot \in Nodes(net) /\ Nodes(net) \subseteq Nat /\ mRoot \in Nat /\ r \in Nat
      /\ Fanins(net, r) \subseteq Nodes(net)
      /\ \A n \in Logic(net) : \A m \in Fanins(net, n) : m < n /\ m \in Nodes(net)
      /\ \A n \in Nodes(net) : n \in Inputs(net) \/ n \in Logic(net)
      /\ Inputs(net) \subseteq stem
      /\ fpnode_list \in [Nodes(net) -> SUBSET Nodes(net)]
  BY <1>2, <1>3, NetFacts DEF Types
<1>5. \A n \in Nodes(net) : n < r => Listed(n)
  <2>1. \A n \in Nodes(net) : n < r => n < mRoot \/ n = mRoot
    BY <1>1, <1>4
  <2> QED BY <1>2, <1>3, <2>1 DEF Lists
<1>6. U \subseteq Nodes(net)
  BY <1>1, <1>4
<1>7. ASSUME NEW n \in Nodes(net), n < r PROVE Listed(n)'
  <2>1. n # r /\ fpnode_list'[n] = fpnode_list[n]
    BY <1>2, <1>4, <1>7
  <2>2. n \notin stem => \A m \in Fanins(net, n) : m \in Nodes(net) /\ m # r
    BY <1>4, <1>7
  <2>3. n \notin stem => \A m \in Fanins(net, n) : fpnode_list'[m] = fpnode_list[m]
    BY <1>2, <1>4, <2>2
  <2> QED BY <1>2, <1>5, <1>7, <2>1, <2>3 DEF Listed
<1>8. Listed(r)'
  <2>1. fpnode_list'[r] = U /\ \A m \in Fanins(net, r) : fpnode_list'[m] = fpnode_list[m] /\ m < r /\ m \in Nodes(net)
    <3>1. \A m \in Fanins(net, r) : m < r /\ m \in Nodes(net) /\ m # r
      BY <1>2, <1>4
    <3> QED BY <1>2, <1>4, <3>1
  <2>2. \A m \in Fanins(net, r) : fpnode_list'[m] \subseteq U
    BY <1>1, <2>1
  <2>3. ASSUME NEW x \in U PROVE x \in stem \/ Fanins(net, x) \subseteq U
    <3>1. PICK m \in Fanins(net, r) : x \in fpnode_list[m]
      BY <1>1, <2>3
    <3>2. Listed(m) /\ fpnode_list[m] \subseteq U
      BY <1>5, <2>1, <2>2, <3>1
    <3> QED BY <3>1, <3>2 DEF Listed
  <2> QED BY <1>2, <2>1, <2>2, <2>3 DEF Listed
<1>9. Types'
  <2>1. net.inputs <= r
    <3>1. net.inputs <= mRoot /\ IsNetwork(net)
      BY <1>3 DEF Types
    <3>2. net.inputs \in Nat
      BY <3>1 DEF IsNetwork
    <3> QED BY <1>1, <1>4, <3>1, <3>2
  <2>2. fpnode_list' \in [Nodes(net) -> SUBSET Nodes(net)]
    BY <1>2, <1>4, <1>6
  <2> QED BY <1>2, <1>3, <1>4, <2>1, <2>2 DEF Types
<1>10. Lists'
  <2>1. \A n \in Nodes(net) : n > r => n > mRoot
    BY <1>1, <1>4
  <2> QED BY <1>2, <1>3, <1>7, <1>8, <2>1 DEF Lists
<1>11. Idle'
  BY <1>2, <1>3 DEF Idle
<1> QED BY <1>2, <1>9, <1>10, <1>11 DEF TInv

\* When the search of a node has ended every cut has been told, and the marks
\* are its footprint.
LEMMA EndNodeKeeps ==
  ASSUME TInv, EndNode
  PROVE  /\ TInv' /\ mRoot \in Logic(net) \cap stem /\ {} \in found[mRoot]
         /\ OnlyCuts(Ctx, found[mRoot])
         /\ \A C \in Feasible(net, stem, limit, mRoot) : Told(Ctx, C) \in found[mRoot]
<1>1. PICK c, a : c = Ctx /\ a = Level
  OBVIOUS
<1>2. /\ ret \in {"true", "false"} /\ ret # "idle" /\ stack = <<>> /\ ret' = "idle"
      /\ UNCHANGED <<net, limit, stem, mRoot, mInputs, stack, found>>
  BY DEF EndNode
<1>3. /\ Types /\ Lists /\ Context(c) /\ Current(c) /\ IsNetwork(net)
      /\ c.net = net /\ c.stem = stem /\ c.limit = limit /\ c.root = mRoot
      /\ a.fs = mFrontierStack /\ a.ins = mInputs /\ a.st = state
      /\ \E h : Runs(c, h, stack, ret, a, fpmark, found[mRoot])
  BY <1>1, <1>2, Runner
<1>4. PICK r, F, fd, h : /\ r \in {"true", "false"} /\ F = fpmark /\ fd = found[mRoot]
                         /\ Runs(c, h, <<>>, r, a, F, fd)
  BY <1>2, <1>3
<1>5. /\ a = Start(c) /\ F \subseteq Nodes(c.net) /\ c.root \in F
      /\ \A x \in F : x = c.root \/ \E m \in F : m \in Logic(c.net) /\ x \in Fanins(c.net, m)
      /\ \A x \in F : x \in c.stem \/ Fanins(c.net, x) \subseteq F
      /\ \A C \in Feasible(c.net, c.stem, c.limit, c.root) : Told(c, C) \in fd
      /\ \A C \in Feasible(c.net, c.stem, c.limit, c.root) : Met(c.net, c.root, C) \subseteq F
      /\ {} \in fd
  <2>1. Done(c, a, F, fd)
    BY <1>3, <1>4, RunsDone
  <2> QED BY <2>1 DEF Done
<1>6. OnlyCuts(c, fd)
  BY <1>4 DEF Runs, Stage
<1>7. /\ mRoot \in Nodes(net) /\ mRoot \in Logic(net) \cap stem /\ mRoot \in Nat
      /\ Nodes(net) \subseteq Nat
      /\ \A n \in Logic(net) : \A m \in Fanins(net, n) : m < n /\ m \in Nodes(net)
      /\ \A n \in Nodes(net) : n \in Inputs(net) \/ n \in Logic(net)
      /\ Inputs(net) \subseteq stem
      /\ fpnode_list \in [Nodes(net) -> SUBSET Nodes(net)]
  BY <1>3, NetFacts DEF Types, Context
<1>8. Footprint(mRoot) = fpmark
  <2>1. fpmark \subseteq Nodes(net)
    BY <1>3, <1>4, <1>5
  <2>2. \A x \in fpmark : x = mRoot \/ \E m \in fpmark \cap Logic(net) : x \in Fanins(net, m)
    BY <1>3, <1>4, <1>5
  <2> QED BY <1>3, <1>7, <2>1, <2>2, FootprintIsMarked
<1>9. fpnode_list' = [fpnode_list EXCEPT ![mRoot] = F] /\ fpmark' = {}
  BY <1>4, <1>8 DEF EndNode
<1>10. Idle'
  <2>1. mFrontierStack = <<mRoot>> /\ mInputs = <<>>
        /\ state = [n \in Nodes(net) |-> IF n = mRoot THEN "inside" ELSE "free"]
    BY <1>3, <1>5 DEF Start
  <2>2. mFrontierStack' = <<>>
    BY <2>1 DEF EndNode, Upto
  <2>3. state' = [n \in Nodes(net) |-> "free"]
    BY <2>1 DEF EndNode
  <2> QED BY <1>2, <1>9, <2>1, <2>2, <2>3 DEF Idle
<1>11. Types'
  BY <1>2, <1>3, <1>4, <1>5, <1>7, <1>9 DEF Types
<1>12. ASSUME NEW n \in Nodes(net), n < mRoot PROVE Listed(n)'
  <2>1. n # mRoot /\ fpnode_list'[n] = fpnode_list[n] /\ Listed(n)
    BY <1>3, <1>7, <1>9, <1>12 DEF Lists
  <2>2. n \notin stem => \A m \in Fanins(net, n) : m \in Nodes(net) /\ m # mRoot
    BY <1>7, <1>12
  <2>3. n \notin stem => \A m \in Fanins(net, n) : fpnode_list'[m] = fpnode_list[m]
    BY <1>7, <1>9, <2>2
  <2> QED BY <1>2, <2>1, <2>3 DEF Listed
<1>13. Listed(mRoot)'
  <2>1. fpnode_list'[mRoot] = F
    BY <1>7, <1>9
  <2>2. /\ mRoot \in F
        /\ \A x \in F : x \in stem \/ Fanins(net, x) \subseteq F
        /\ \A C \in Feasible(net, stem, limit, mRoot) : Met(net, mRoot, C) \subseteq F
    BY <1>3, <1>5
  <2> QED BY <1>2, <1>7, <2>1, <2>2 DEF Listed
<1>14. Lists'
  BY <1>2, <1>3, <1>12, <1>13 DEF Lists
<1>15. TInv'
  BY <1>2, <1>10, <1>11, <1>14 DEF TInv
<1>16. \A C \in Feasible(net, stem, limit, mRoot) : Told(Ctx, C) \in found[mRoot]
  BY <1>1, <1>3, <1>4, <1>5
<1> QED BY <1>1, <1>4, <1>5, <1>6, <1>7, <1>15, <1>16

LEMMA TInvStutters == TInv /\ UNCHANGED vars => TInv'
<1> SUFFICES ASSUME TInv, UNCHANGED vars PROVE TInv'
  OBVIOUS
<1>1. /\ UNCHANGED <<net, limit, stem, mRoot, fpmark, temp1, temp2, fpnode_list, found>>
      /\ UNCHANGED <<mFrontierStack, mInputs, state, stack, ret>>
  BY DEF vars, work
<1>2. \A n : Listed(n)' <=> Listed(n)
  BY <1>1 DEF Listed
<1>3. Types' /\ Lists' /\ (Idle' <=> Idle)
  BY <1>1, <1>2 DEF TInv, Types, Lists, Idle
<1>4. Running' <=> Running
  <2>1. Ctx' = Ctx /\ Level' = Level
    BY <1>1 DEF Ctx, Open, Level
  <2> QED BY <1>1, <2>1 DEF Running
<1> QED BY <1>1, <1>3, <1>4 DEF TInv

THEOREM SearchInvariance == Spec => []TInv
<1>1. TInv /\ [Next]_vars => TInv'
  <2> SUFFICES ASSUME TInv, [Next]_vars PROVE TInv'
    OBVIOUS
  <2>1. CASE StartNode
    BY <2>1, StartNodeKeeps
  <2>2. CASE PassNode
    BY <2>2, PassNodeKeeps
  <2>3. CASE FoundCut
    BY <2>3, FoundCutKeeps
  <2>4. CASE TryInput
    BY <2>4, TryInputKeeps
  <2>5. CASE SkipInput
    BY <2>5, SkipInputKeeps
  <2>6. CASE AfterInput
    BY <2>6, AfterInputKeeps
  <2>7. CASE AfterInside
    BY <2>7, AfterInsideKeeps
  <2>8. CASE EndNode
    BY <2>8, EndNodeKeeps
  <2>9. CASE UNCHANGED vars
    BY <2>9, TInvStutters
  <2> QED BY <2>1, <2>2, <2>3, <2>4, <2>5, <2>6, <2>7, <2>8, <2>9 DEF Next, Step
<1> QED BY <1>1, InitHolds, PTL DEF Spec

------------------------------------------------------------------------------
(***************************************************************************)
(* What follows from the invariant.                                        *)
(***************************************************************************)
\* No node waits twice.
LEMMA WaitersDiffer ==
  ASSUME NEW c, NEW h, NEW s, Structure(c, h, s), NEW i \in 1 .. Len(s), NEW j \in 1 .. Len(s), i < j
  PROVE  s[i].node # s[j].node
<1>1. /\ h \in Seq(Levels(c)) /\ s \in Seq(Frames(c)) /\ Len(h) = Len(s) + 1 /\ Len(s) \in Nat
      /\ h[j] \in Levels(c) /\ s[i] \in Frames(c) /\ i \in 1 .. j - 1
      /\ Went(h[j], s[j], h[j + 1]) /\ Good(c, h[j], Inside(s, j - 1), Tried(s, j - 1))
  BY DEF Structure
<1>2. PICK a, I, T, node : /\ a = h[j] /\ I = Inside(s, j - 1) /\ T = Tried(s, j - 1)
                           /\ node = a.fs[Len(a.fs)]
  OBVIOUS
<1>3. s[i].node \in I \cup T
  BY <1>1, <1>2 DEF Frames, InputFrames, InsideFrames, Inside, Tried
<1>4. Fits(c, a, I, T) /\ a.fs # <<>> /\ a \in Levels(c) /\ s[j].node = node
  BY <1>1, <1>2 DEF Good, Went
<1>5. node \notin Values(a.ins) /\ node \notin I
  BY <1>2, <1>4, TopFacts
<1>6. T \subseteq Values(a.ins)
  BY <1>4 DEF Fits
<1> QED BY <1>3, <1>4, <1>5, <1>6

LEMMA InvariantMarks == TInv => MarksAgree
<1> SUFFICES ASSUME TInv PROVE MarksAgree
  OBVIOUS
<1>1. CASE ret = "idle"
  <2>1. Idle /\ limit \in Nat /\ Len(<<>>) = 0 /\ \A i : i \notin 1 .. 0
    BY <1>1 DEF TInv, Types
  <2>2. Values(<<>>) = {}
    BY <2>1 DEF Values
  <2>3. Frontier = {} /\ InsideNodes = {} /\ InputNodes = {} /\ Values(mInputs) = {}
    BY <2>1, <2>2 DEF Idle, Frontier, InsideNodes, InputNodes, Waits
  <2>4. Sequential(mFrontierStack) /\ Sequential(mInputs)
    BY <2>1 DEF Idle, Sequential
  <2>5. Sequential([i \in 1 .. Len(stack) |-> stack[i].node])
    <3>1. stack \in Seq({}) /\ Len(stack) = 0
      BY <2>1 DEF Idle
    <3> QED BY <3>1 DEF Sequential
  <2>6. /\ state \in [Nodes(net) -> {"free", "inside", "input"}]
        /\ {n \in Nodes(net) : state[n] = "input"} = {} /\ {n \in Nodes(net) : state[n] = "inside"} = {}
    BY <2>1 DEF Idle
  <2>7. Len(mInputs) <= limit
    BY <2>1 DEF Idle
  <2> QED BY <2>1, <2>3, <2>4, <2>5, <2>6, <2>7 DEF MarksAgree, Idle
<1>2. CASE ret # "idle"
  <2>1. PICK c, a : c = Ctx /\ a = Level
    OBVIOUS
  <2>2. /\ Types /\ Context(c) /\ IsNetwork(net) /\ c.net = net /\ c.limit = limit
        /\ a.fs = mFrontierStack /\ a.ins = mInputs /\ a.st = state
        /\ \E h : Runs(c, h, stack, ret, a, fpmark, found[mRoot])
    BY <1>2, <2>1, Runner
  <2>3. PICK h : Structure(c, h, stack) /\ a = h[Len(h)]
    BY <2>2 DEF Runs, Stage
  <2>4. PICK I, T : I = Inside(stack, Len(stack)) /\ T = Tried(stack, Len(stack))
    OBVIOUS
  <2>5. a \in Levels(c) /\ Good(c, a, I, T) /\ Fits(c, a, I, T) /\ Len(stack) \in Nat
    BY <2>3, <2>4, LastLevel
  <2>6. InsideNodes = I /\ InputNodes = T /\ Frontier = Values(a.fs)
    BY <2>2, <2>4 DEF InsideNodes, InputNodes, Waits, Inside, Tried, Frontier
  <2>7. /\ a.fs \in Seq(Nodes(net)) /\ a.ins \in Seq(Nodes(net)) /\ a.st \in [Nodes(net) -> Marks]
        /\ Values(a.fs) \subseteq Nodes(net) /\ Values(a.ins) \subseteq Nodes(net)
    BY <2>2, <2>5, ValuesFacts DEF Levels
  <2>8. /\ Sequential(a.fs) /\ Sequential(a.ins)
        /\ \A n \in Nodes(net) : /\ a.st[n] = "input" <=> n \in Values(a.ins)
                                 /\ a.st[n] = "inside" <=> n \in Values(a.fs) \cup I
        /\ Values(a.fs) \cap I = {} /\ T \subseteq Values(a.ins) /\ Len(a.ins) <= limit
        /\ I \subseteq Logic(net)
        /\ \A m \in I : \A n \in Fanins(net, m) : a.st[n] # "free"
    BY <2>2, <2>5 DEF Fits, Good
  <2>9. I \subseteq Nodes(net)
    BY <2>2, <2>8, NetFacts
  <2>10. Sequential([i \in 1 .. Len(stack) |-> stack[i].node])
    <3>1. PICK s : s = [i \in 1 .. Len(stack) |-> stack[i].node]
      OBVIOUS
    <3>2. Len(s) = Len(stack)
      BY <2>5, <3>1
    <3>3. ASSUME NEW i \in 1 .. Len(stack), NEW j \in 1 .. Len(stack), s[i] = s[j] PROVE i = j
      <4>1. ~(i < j)
        BY <2>3, <3>1, <3>3, WaitersDiffer
      <4>2. ~(j < i)
        BY <2>3, <3>1, <3>3, WaitersDiffer
      <4> QED BY <2>5, <4>1, <4>2
    <3> QED BY <3>1, <3>2, <3>3 DEF Sequential
  <2>11. /\ {n \in Nodes(net) : state[n] = "input"} = Values(mInputs)
         /\ {n \in Nodes(net) : state[n] = "inside"} = Frontier \cup InsideNodes
    BY <2>2, <2>6, <2>7, <2>8, <2>9
  <2>12. state \in [Nodes(net) -> {"free", "inside", "input"}]
    BY <2>2, <2>7 DEF Marks
  <2>13. \A n \in InsideNodes : \A m \in Fanins(net, n) : state[m] # "free"
    BY <2>2, <2>6, <2>8
  <2> QED BY <1>2, <2>2, <2>6, <2>8, <2>10, <2>11, <2>12, <2>13 DEF MarksAgree
<1> QED BY <1>1, <1>2

\* MarksAgree holds of every network and every limit: at every step of the
\* recursion the marks and the arrays all its levels share agree.
THEOREM SharedMarks == Spec => []MarksAgree
BY SearchInvariance, InvariantMarks, PTL

------------------------------------------------------------------------------
(***************************************************************************)
(* What mOp is told: the enumeration implements CutEnum.                   *)
(***************************************************************************)
Ended == stem \cap (IF ret = "idle" THEN 1 .. mRoot ELSE 1 .. mRoot - 1)

\* The operators CutEnum takes from CutNet are those of this module.
LEMMA SameCuts ==
  /\ \A n : Cuts!Inputs(n) = Inputs(n) /\ Cuts!Logic(n) = Logic(n) /\ Cuts!Nodes(n) = Nodes(n)
  /\ \A n, m : Cuts!Fanins(n, m) = Fanins(n, m)
  /\ \A n, s, k, r, C : Cuts!IsReport(n, s, k, r, C) <=> IsReport(n, s, k, r, C)
  /\ \A n, s, k, r : Cuts!Reports(n, s, k, r) = Reports(n, s, k, r)
<1>1. /\ \A n : Cuts!Inputs(n) = Inputs(n) /\ Cuts!Logic(n) = Logic(n) /\ Cuts!Nodes(n) = Nodes(n)
      /\ \A n, m : Cuts!Fanins(n, m) = Fanins(n, m)
  BY DEF Cuts!Inputs, Cuts!Logic, Cuts!Nodes, Cuts!Fanins, Inputs, Logic, Nodes, Fanins
<1>2. \A n, r, C : Cuts!Met(n, r, C) = Met(n, r, C)
  BY DEF Cuts!Met, Met, Cuts!Logic, Cuts!Nodes, Cuts!Inputs, Cuts!Fanins, Inputs, Logic, Nodes, Fanins
<1>3. \A n, r, C : Cuts!IsCut(n, r, C) <=> IsCut(n, r, C)
  BY <1>1, <1>2 DEF Cuts!IsCut, IsCut
<1>4. \A n, s, k, r, C : Cuts!IsReport(n, s, k, r, C) <=> IsReport(n, s, k, r, C)
  <2>1. \A C : Cuts!Cardinality(C) = Cardinality(C)
    BY DEF Cuts!Cardinality, Cardinality
  <2> QED BY <1>1, <1>3, <2>1 DEF Cuts!IsReport, IsReport
<1>5. \A n, s, k, r : Cuts!Reports(n, s, k, r) = Reports(n, s, k, r)
  BY <1>4 DEF Cuts!Reports, Reports
<1> QED BY <1>1, <1>4, <1>5

\* When the search of a node ends, mOp has been told all its cuts.
LEMMA AllReported ==
  ASSUME NEW c, Context(c), NEW fd, OnlyCuts(c, fd), {} \in fd,
         \A C \in Feasible(c.net, c.stem, c.limit, c.root) : Told(c, C) \in fd
  PROVE  fd = Reports(c.net, c.stem, c.limit, c.root)
<1>1. \A D \in fd : D \in Reports(c.net, c.stem, c.limit, c.root)
  BY DEF OnlyCuts, Reports
<1>2. ASSUME NEW D \in Reports(c.net, c.stem, c.limit, c.root), D # {} PROVE D \in fd
  <2>1. /\ D \in SUBSET (c.stem \cap 1 .. c.root) /\ D # {c.root} /\ Cardinality(D) <= c.limit
        /\ IsCut(c.net, c.root, D)
    BY <1>2 DEF Reports, IsReport
  <2>2. D \in Feasible(c.net, c.stem, c.limit, c.root)
    BY <2>1 DEF Feasible
  <2>3. Told(c, D) = D
    BY <2>1 DEF Told
  <2> QED BY <2>2, <2>3
<1> QED BY <1>1, <1>2

LEMMA RootFacts ==
  ASSUME Types
  PROVE  /\ mRoot \in Nat /\ stem \subseteq Nat \ {0} /\ IsNetwork(net) /\ Logic(net) \subseteq Nat \ {0}
         /\ \A n \in Logic(net) : Fanins(net, n) \subseteq Nat \ {0} /\ \A m \in Fanins(net, n) : m < n
BY NetFacts DEF Types

LEMMA InitEnded == Init => Cuts!Init
<1> SUFFICES ASSUME Init PROVE Cuts!Init
  OBVIOUS
<1>1. Types
  BY InitHolds DEF TInv
<1>2. Ended = Inputs(net)
  BY <1>1 DEF Init, Ended, Inputs, Types
<1>3. /\ found = [n \in Nodes(net) |-> IF n \in Inputs(net) THEN {{}} ELSE {}]
      /\ mNcAll = net.inputs
  BY DEF Init
<1> QED BY <1>2, <1>3, SameCuts DEF Cuts!Init, Ended

Unseen == UNCHANGED <<net, limit, stem, found, mNcAll>> /\ Ended' = Ended

LEMMA FoundCutReports ==
  ASSUME TInv, FoundCut
  PROVE  Cuts!Next
<1>1. PICK D : D = ReportOf(Level)
  OBVIOUS
<1>2. /\ D \notin found[mRoot] /\ IsReport(net, stem, limit, mRoot, D)
      /\ D \subseteq stem \cap 1 .. mRoot /\ mRoot \in Logic(net) \cap stem
      /\ found' = [found EXCEPT ![mRoot] = @ \cup {D}]
  BY <1>1, FoundCutKeeps
<1>3. UNCHANGED <<net, limit, stem, mRoot>> /\ mNcAll' = mNcAll + 1 /\ ret = "call" /\ ret' = "true"
  BY DEF FoundCut
<1>4. Types
  BY DEF TInv
<1>5. mRoot \notin Ended /\ Ended' = Ended
  BY <1>3, <1>4, RootFacts DEF Ended
<1>6. Cuts!Report(mRoot, D)
  BY <1>2, <1>3, <1>5, SameCuts DEF Cuts!Report, Ended
<1>7. D \in SUBSET (1 .. mRoot) /\ mRoot \in Cuts!Logic(net)
  BY <1>2, SameCuts
<1> QED BY <1>3, <1>6, <1>7 DEF Cuts!Next

LEMMA EndNodeReports ==
  ASSUME TInv, EndNode
  PROVE  Cuts!Next
<1>1. /\ ret # "idle" /\ ret' = "idle"
      /\ UNCHANGED <<net, limit, stem, mRoot, found, mNcAll>>
  BY DEF EndNode
<1>2. PICK c, a : c = Ctx /\ a = Level
  OBVIOUS
<1>3. /\ Types /\ Context(c) /\ c.net = net /\ c.stem = stem /\ c.limit = limit /\ c.root = mRoot
  BY <1>1, <1>2, Runner
<1>4. /\ mRoot \in Logic(net) \cap stem /\ {} \in found[mRoot] /\ OnlyCuts(c, found[mRoot])
      /\ \A C \in Feasible(net, stem, limit, mRoot) : Told(c, C) \in found[mRoot]
  BY <1>2, EndNodeKeeps
<1>5. found[mRoot] = Reports(net, stem, limit, mRoot)
  <2>1. PICK fd : fd = found[mRoot]
    OBVIOUS
  <2>2. fd = Reports(c.net, c.stem, c.limit, c.root)
    BY <1>3, <1>4, <2>1, AllReported
  <2> QED BY <1>3, <2>1, <2>2
<1>6. /\ mRoot \notin Ended /\ Ended' = Ended \cup {mRoot}
      /\ \A m \in Fanins(net, mRoot) \cap stem : m \in Ended
  <2>1. Ended = stem \cap 1 .. mRoot - 1 /\ Ended' = stem \cap 1 .. mRoot
    BY <1>1 DEF Ended
  <2>2. mRoot \in Nat \ {0} /\ stem \subseteq Nat \ {0}
        /\ Fanins(net, mRoot) \subseteq Nat \ {0} /\ \A m \in Fanins(net, mRoot) : m < mRoot
    BY <1>3, <1>4, RootFacts
  <2> QED BY <1>4, <2>1, <2>2
<1>7. Cuts!End(mRoot)
  BY <1>1, <1>4, <1>5, <1>6, SameCuts DEF Cuts!End, Ended
<1>8. mRoot \in Cuts!Logic(net)
  BY <1>4, SameCuts
<1> QED BY <1>1, <1>7, <1>8 DEF Cuts!Next

LEMMA StartNodeUnseen == TInv /\ StartNode => Unseen
<1> SUFFICES ASSUME TInv, StartNode PROVE Unseen
  OBVIOUS
<1>1. /\ ret = "idle" /\ ret' = "call" /\ mRoot' = mRoot + 1
      /\ UNCHANGED <<net, limit, stem, found, mNcAll>>
  BY DEF StartNode
<1>2. mRoot \in Nat
  BY RootFacts DEF TInv
<1>3. Ended' = Ended
  BY <1>1, <1>2 DEF Ended
<1> QED BY <1>1, <1>3 DEF Unseen

LEMMA PassNodeUnseen == TInv /\ PassNode => Unseen
<1> SUFFICES ASSUME TInv, PassNode PROVE Unseen
  OBVIOUS
<1>1. /\ ret = "idle" /\ ret' = "idle" /\ mRoot' = mRoot + 1 /\ mRoot + 1 \notin stem
      /\ UNCHANGED <<net, limit, stem, found, mNcAll>>
  BY DEF PassNode, work
<1>2. mRoot \in Nat /\ stem \subseteq Nat \ {0}
  BY RootFacts DEF TInv
<1>3. Ended' = Ended
  <2>1. Ended = stem \cap 1 .. mRoot /\ Ended' = stem \cap 1 .. mRoot + 1
    BY <1>1 DEF Ended
  <2> QED BY <1>1, <1>2, <2>1
<1> QED BY <1>1, <1>3 DEF Unseen

LEMMA SearchUnseen == TInv /\ (TryInput \/ SkipInput \/ AfterInput \/ AfterInside) => Unseen
<1> SUFFICES ASSUME TInv, TryInput \/ SkipInput \/ AfterInput \/ AfterInside PROVE Unseen
  OBVIOUS
<1>1. ASSUME ret # "idle", ret' # "idle", Kept PROVE Unseen
  BY <1>1 DEF Kept, Unseen, Ended
<1>2. CASE TryInput
  BY <1>1, <1>2 DEF TryInput
<1>3. CASE SkipInput
  BY <1>1, <1>3 DEF SkipInput, GoInside
<1>4. CASE AfterInput
  BY <1>1, <1>4 DEF AfterInput, GoInside, Returned
<1>5. CASE AfterInside
  <2>1. /\ ret \in {"true", "false"} /\ ret # "idle" /\ stack # <<>> /\ Caller.for = "inside" /\ Kept
        /\ ret' = IF ret = "true" THEN "true" ELSE Caller.has_cuts
    BY <1>5 DEF AfterInside, Returned, Caller
  <2>2. PICK c, a : c = Ctx /\ a = Level
    OBVIOUS
  <2>3. PICK h : Runs(c, h, stack, ret, a, fpmark, found[mRoot])
    BY <2>1, <2>2, Runner
  <2>4. stack \in Seq(Frames(c))
    BY <2>1, <2>3 DEF Runs, Stage, Structure
  <2>5. Caller \in Frames(c)
    BY <2>1, <2>4, FrontFacts DEF Caller
  <2>6. Caller.has_cuts \in {"true", "false"}
    BY <2>1, <2>5 DEF Frames, InputFrames, InsideFrames
  <2> QED BY <1>1, <2>1, <2>6
<1> QED BY <1>2, <1>3, <1>4, <1>5

\* TopDownReports holds of every network and every limit: mOp is told every cut
\* of every node within the limit, once, and nothing else, fanins first.
THEOREM EveryCutOnce == Spec => TopDownReports
<1>1. TInv /\ [Next]_vars => [Cuts!Next]_<<net, limit, stem, found, Ended, mNcAll>>
  <2> SUFFICES ASSUME TInv, [Next]_vars
               PROVE  Cuts!Next \/ UNCHANGED <<net, limit, stem, found, Ended, mNcAll>>
    OBVIOUS
  <2>1. CASE StartNode
    BY <2>1, StartNodeUnseen DEF Unseen
  <2>2. CASE PassNode
    BY <2>2, PassNodeUnseen DEF Unseen
  <2>3. CASE FoundCut
    BY <2>3, FoundCutReports
  <2>4. CASE TryInput \/ SkipInput \/ AfterInput \/ AfterInside
    BY <2>4, SearchUnseen DEF Unseen
  <2>5. CASE EndNode
    BY <2>5, EndNodeReports
  <2>6. CASE UNCHANGED vars
    BY <2>6 DEF vars, work, Ended
  <2> QED BY <2>1, <2>2, <2>3, <2>4, <2>5, <2>6 DEF Next, Step
<1>2. TInv /\ [Next]_vars
        => [Cuts!Next]_<<net, limit, stem, found,
                         stem \cap (IF ret = "idle" THEN 1 .. mRoot ELSE 1 .. mRoot - 1), mNcAll>>
  BY <1>1 DEF Ended
<1> QED BY <1>2, InitEnded, SearchInvariance, PTL DEF Spec, TopDownReports, Cuts!Spec
=============================================================================
