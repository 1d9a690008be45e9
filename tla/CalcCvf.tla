------------------------------ MODULE CalcCvf ------------------------------
(***************************************************************************)
(* CalcCvf of programs/seal: for every node of a network and every packed  *)
(* test vector, whether a change of the node is seen at an output.         *)
(* set_network cuts the network into fanout-free regions (FFRs) and, if    *)
(* asked, finds the disjoint set of successors (DSS) of every region;      *)
(* calc_exact simulates a change of every region root; calc_pseudo_min and *)
(* calc_max approximate it without simulation.                             *)
(***************************************************************************)
EXTENDS EventQ, SequencesExt

CONSTANTS
  Nets,      \* the networks
  Pats,      \* the bits of a tPackedVal: kPvAll1 is Pats, kPvAll0 is {}
  Batches,   \* test vectors: what each input gets, bit by bit
  Modes,     \* find_dss: "none", "old" (old algorithm), "new" (new_algorithm)
  Calls,     \* bound: pairs of a mode and an operation "exact", "min" or "max"
  Samples    \* the ns of calc_max

Gates    == {"buf", "not", "and", "nand", "or", "nor", "xor", "xnor"}
Inverted == {"not", "nand", "nor", "xnor"}

\* A network: the nodes are 1 .. Len(type), the node with id i - 1 being i; a
\* node comes after its fanins; out are the nodes with an output.
MaxFanin == 4   \* bound
IsNet(nt) ==
  /\ nt.type \in Seq(Gates \cup {"input"})
  /\ DOMAIN nt.fanin = DOMAIN nt.type
  /\ nt.out \subseteq DOMAIN nt.type
  /\ \A n \in DOMAIN nt.type :
       /\ nt.fanin[n] \in Seq(1 .. n - 1)
       /\ IF nt.type[n] = "input" THEN nt.fanin[n] = <<>>
          ELSE Len(nt.fanin[n]) \in 1 .. (IF nt.type[n] \in {"buf", "not"} THEN 1 ELSE MaxFanin)

\* A batch has a word for every input.
IsBatch(b, nt) == \A n \in DOMAIN nt.type : nt.type[n] = "input" => b[n] \subseteq Pats

ASSUME CvfAssumption ==
  /\ Junk \notin Nat
  /\ \A nt \in Nets : IsNet(nt) /\ \A b \in Batches : IsBatch(b, nt)
  /\ Modes \subseteq {"none", "old", "new"}
  /\ Calls \subseteq Modes \X {"exact", "min", "max"}
  /\ Samples \in Nat

VARIABLES
  net,     \* the network
  sim,     \* what set_network derives: level, pins driven, fanouts, FFR root, PO mark
  mode,    \* the arguments dss and new_algorithm
  dss,     \* mDSS of the FFRs done
  todo,    \* the FFR roots left, the highest id first
  cur,     \* cur_set
  acc,     \* the local dss of find_dss
  pc,      \* "dss", "idle", "ffr", "sim", "max"
  op,      \* the calculation mObs comes from
  gval, fval, obs, obs2,   \* mGval, mFval, mObs, mTmpObs
  target,  \* the nodes with the target mark
  seen,    \* the local obs of calc_exact
  clear,   \* mClearArray
  eq,      \* mEventQ
  left     \* rounds of calc_max left

netVars == <<net, sim, mode>>
dssVars == <<dss, cur, acc>>
simVars == <<target, seen, clear, eq>>
vars == <<netVars, dssVars, todo, pc, op, gval, fval, obs, obs2, simVars, left>>

Nodes   == DOMAIN net.type
IsInput(n)  == net.type[n] = "input"
IsOutput(n) == n \in net.out
Inputs  == {n \in Nodes : IsInput(n)}
Logic   == Nodes \ Inputs
------------------------------------------------------------------------------
(***************************************************************************)
(* set_network                                                             *)
(***************************************************************************)
Level(nt) ==
  LET lv[n \in DOMAIN nt.type] ==
        IF nt.fanin[n] = <<>> THEN 0
        ELSE 1 + Max({lv[m] : m \in ToSet(nt.fanin[n])})
  IN  lv

\* The pins a node drives, and the gates they belong to.
Pins(nt, n)    == {p \in (DOMAIN nt.type) \X (1 .. MaxFanin) :
                     p[2] \in DOMAIN nt.fanin[p[1]] /\ nt.fanin[p[1]][p[2]] = n}
Fanouts(nt, n) == {p[1] : p \in Pins(nt, n)}
Nfo(nt, n)     == Cardinality(Pins(nt, n))

\* An FFR ends at an output or at a node that does not drive exactly one pin.
Root(nt) ==
  LET rt[n \in DOMAIN nt.type] ==
        IF n \in nt.out \/ Nfo(nt, n) # 1 THEN n
        ELSE rt[CHOOSE m \in DOMAIN nt.type : m \in Fanouts(nt, n)]
  IN  rt

\* PoMark of an FFR root: the first outputs on the paths from it.
Mark(nt) ==
  LET mk[n \in DOMAIN nt.type] ==
        IF n \in nt.out THEN {n}
        ELSE UNION {mk[Root(nt)[m]] : m \in Fanouts(nt, n)}
  IN  mk

\* A set of nodes in the order of their ids.
Sorted(S) == [i \in 1 .. Cardinality(S) |->
                CHOOSE n \in S : Cardinality({m \in S : m < n}) = i - 1]

Sim(nt) == [level  |-> Level(nt),
            pins   |-> [n \in DOMAIN nt.type |-> Pins(nt, n)],
            fanout |-> [n \in DOMAIN nt.type |-> Fanouts(nt, n)],
            order  |-> [n \in DOMAIN nt.type |-> Sorted(Fanouts(nt, n))],
            root   |-> Root(nt),
            mark   |-> [n \in DOMAIN nt.type |-> Mark(nt)[Root(nt)[n]]]]

\* Built from sim: the FFR roots, and those of them in the order of mFFRArray.
Roots    == {n \in Nodes : sim.root[n] = n}
RootSeq(s) == Reverse(Sorted({n \in DOMAIN s.root : s.root[n] = n}))

MaxOutputLevel(nt, s) ==
  IF nt.out = {} THEN 0 ELSE Max({s.level[n] : n \in nt.out})

\* Every node is at a level the queue prepared for max_level has a cell for:
\* put() does not test it (see EventQ.h).
LevelsFit(s, max_level) == \A n \in DOMAIN s.level : s.level[n] <= Top(max_level)

\* make_node, the loops of set_network and mEventQ.init(). mTmpObs is written
\* by no constructor: its first value is any of two words for each node.
Init ==
  /\ net \in Nets
  /\ sim = Sim(net) /\ LevelsFit(sim, MaxOutputLevel(net, sim))
  /\ mode \in Modes
  /\ dss = [n \in {m \in DOMAIN sim.root : sim.root[m] = m} |-> {}]
  /\ todo = IF mode = "none" THEN <<>> ELSE RootSeq(sim)
  /\ cur = IF todo = <<>> THEN {} ELSE sim.fanout[Head(todo)]
  /\ acc = {}
  /\ pc = IF todo = <<>> THEN "idle" ELSE "dss"
  /\ op = "none"
  /\ gval = [n \in Nodes |-> {}] /\ fval = gval /\ obs = gval
  /\ obs2 \in {[n \in Nodes |-> {}], [n \in Nodes |-> Pats]}
  /\ target = {} /\ seen = {} /\ clear = {}
  /\ eq \in Created(MaxOutputLevel(net, sim))
  /\ left = 0
------------------------------------------------------------------------------
(***************************************************************************)
(* find_dss                                                                *)
(***************************************************************************)
Overlap(x, y) == sim.mark[x] \cap sim.mark[y] # {}

\* The members of cur_set that share an output with another (next_set), and
\* the candidates for min_node; which of several of one level comes first
\* depends on the order of the list.
Shared   == {x \in cur : \E y \in cur \ {x} : Overlap(x, y)}
MinNodes == {x \in Shared : \A y \in Shared : sim.level[x] <= sim.level[y]}
SameFFR(m) == {x \in Shared : sim.root[x] = sim.root[m]}
Others(m)  == {x \in Shared \ SameFFR(m) : Overlap(x, m)}

\* The nodes from x to the root of its FFR, and the first node on the paths
\* from all of X: the inner loop of the new algorithm moves the lowest of X to
\* its fanout until one is left.
PathOf(x) ==
  LET path[n \in Nodes] ==
        IF sim.root[n] = n THEN {n}
        ELSE {n} \cup path[CHOOSE m \in Nodes : m \in sim.fanout[n]]
  IN  path[x]
Meet(X) ==
  LET common == {n \in Nodes : \A x \in X : n \in PathOf(x)}
  IN  CHOOSE n \in common : \A k \in common : sim.level[n] <= sim.level[k]

\* set_dss, and the next FFR.
DssDone ==
  /\ pc = "dss" /\ Shared = {}
  /\ dss' = [dss EXCEPT ![Head(todo)] = acc \cup cur]
  /\ acc' = {}
  /\ todo' = Tail(todo)
  /\ cur' = IF todo' = <<>> THEN {} ELSE sim.fanout[Head(todo')]
  /\ pc' = IF todo' = <<>> THEN "idle" ELSE "dss"
  /\ UNCHANGED <<netVars, op, gval, fval, obs, obs2, simVars, left>>

DssStep(cur1, acc1) ==
  /\ cur' = cur1 /\ acc' = acc \cup (cur \ Shared) \cup acc1
  /\ UNCHANGED <<netVars, dss, todo, pc, op, gval, fval, obs, obs2, simVars, left>>

\* The old algorithm replaces a node nearest to the inputs by its fanouts.
DssOld ==
  /\ pc = "dss" /\ mode = "old"
  /\ \E m \in MinNodes : DssStep((Shared \ {m}) \cup sim.fanout[m], {})

\* The new one: the nodes that share with min_node are all in its FFR, and
\* their common dominator stands for them.
DssLocal ==
  /\ pc = "dss" /\ mode = "new"
  /\ \E m \in MinNodes :
       Others(m) = {} /\ DssStep(Shared \ SameFFR(m), {Meet(SameFFR(m))})

\* Mutant: the overlapping nodes of other regions are dropped.
AdvanceDrop(m) ==
  (Shared \ (SameFFR(m) \cup Others(m)))
    \cup IF m \in Roots THEN dss[m] ELSE {sim.root[m]}

\* Mutant: min_node stays where it is.
AdvanceStay(m) ==
  (Shared \ (SameFFR(m) \cup Others(m)))
    \cup {IF sim.mark[x] \subseteq sim.mark[m] THEN x ELSE sim.root[x] : x \in Others(m)}
    \cup {m}

\* Where they are not, the regions are left by their roots, that of min_node
\* by its own DSS.
Advance(m) ==
  (Shared \ (SameFFR(m) \cup Others(m)))
    \cup {IF sim.mark[x] \subseteq sim.mark[m] THEN x ELSE sim.root[x] : x \in Others(m)}
    \cup IF m \in Roots THEN dss[m] ELSE {sim.root[m]}

DssGlobal ==
  /\ pc = "dss" /\ mode = "new"
  /\ \E m \in MinNodes : Others(m) # {} /\ DssStep(Advance(m), {})
------------------------------------------------------------------------------
(***************************************************************************)
(* The gate classes                                                        *)
(***************************************************************************)
Xor(x, y) == (x \ y) \cup (y \ x)

\* _calc_gval and _calc_fval of the gate classes, v being the values of the
\* fanins (mGval or mFval); the classes with an inverted output invert it.
AndValue(v) == {b \in Pats : \A i \in DOMAIN v : b \in v[i]}
OrValue(v)  == UNION {v[i] : i \in DOMAIN v}
XorValue(v) == {b \in Pats : Cardinality({i \in DOMAIN v : b \in v[i]}) % 2 = 1}
BufValue(v) == v[1]

Output(t, v) ==
  LET w == CASE t \in {"and", "nand"} -> AndValue(v)
             [] t \in {"or", "nor"}   -> OrValue(v)
             [] t \in {"xor", "xnor"} -> XorValue(v)
             [] t \in {"buf", "not"}  -> BufValue(v)
  IN  IF t \in Inverted THEN Pats \ w ELSE w

\* The bits where an input of value x lets a change of another input through.
AndPasses(x) == x
OrPasses(x)  == Pats \ x
Passes(t, x) == CASE t \in {"and", "nand"} -> AndPasses(x)
                  [] t \in {"or", "nor"}   -> OrPasses(x)
                  [] OTHER                 -> Pats

\* The bits where every input of gate n at a pin in I lets changes through.
AllPass(n, I, gv) ==
  {b \in Pats : \A i \in I : b \in Passes(net.type[n], gv[net.fanin[n][i]])}

\* The part of a change at pin i that reaches the output of gate n.
Sensitive(n, i, gv) == AllPass(n, DOMAIN net.fanin[n] \ {i}, gv)

\* calc_gval: the values of all nodes for a batch of test vectors.
GoodValues(batch) ==
  LET gv[n \in Nodes] ==
        IF IsInput(n) THEN batch[n]
        ELSE Output(net.type[n], [i \in DOMAIN net.fanin[n] |-> gv[net.fanin[n][i]]])
  IN  gv

CalcGval(batch) == gval' = GoodValues(batch) /\ fval' = gval'
------------------------------------------------------------------------------
(***************************************************************************)
(* calc_exact                                                              *)
(***************************************************************************)
StartExact(batch) ==
  /\ pc = "idle" /\ <<mode, "exact">> \in Calls
  /\ CalcGval(batch)
  /\ obs' = [n \in Nodes |-> {}]
  /\ op' = "exact" /\ todo' = RootSeq(sim) /\ pc' = "ffr"
  /\ UNCHANGED <<netVars, dssVars, obs2, simVars, left>>

\* calc_iobs(o, true) of the root r: o, and inside the region what of it is
\* let through.
Spread(r, o) ==
  LET ob[n \in Nodes] ==
        IF n = r THEN o
        ELSE IF sim.root[n] # r THEN obs[n]
        ELSE LET p == CHOOSE p \in sim.pins[n] : TRUE
             IN  ob[p[1]] \cap Sensitive(p[1], p[2], gval)
  IN  ob

PutFanouts(q, n) ==
  LET fo == sim.order[n]
      put[i \in 0 .. Len(fo)] ==
        IF i = 0 THEN q ELSE Put(put[i - 1], fo[i], sim.level[fo[i]])
  IN  put[Len(fo)]

\* A region whose root is an output is seen everywhere.
FfrOutput ==
  /\ pc = "ffr" /\ todo # <<>> /\ IsOutput(Head(todo))
  /\ obs' = Spread(Head(todo), Pats)
  /\ todo' = Tail(todo)
  /\ UNCHANGED <<netVars, dssVars, pc, op, gval, fval, obs2, simVars, left>>

\* Mutant: what is asked for is what every member of the DSS is seen at.
RequestAll(r) ==
  IF dss[r] = {} THEN Pats ELSE {b \in Pats : \A d \in dss[r] : b \in obs[d]}

\* set_target(): the bits worth changing.
Request(r) == IF dss[r] = {} THEN Pats ELSE UNION {obs[d] : d \in dss[r]}

FfrStart ==
  /\ pc = "ffr" /\ todo # <<>> /\ ~IsOutput(Head(todo))
  /\ LET r == Head(todo) IN
       /\ target' = dss[r]
       /\ fval' = [fval EXCEPT ![r] = Xor(gval[r], Request(r))]
       /\ clear' = {r}
       /\ eq' = PutFanouts(eq, r)
  /\ seen' = {} /\ pc' = "sim"
  /\ UNCHANGED <<netVars, dssVars, todo, op, gval, obs, obs2, left>>

\* calc_fval(~obs) of the node get() returned.
Diff(n) ==
  Xor(gval[n], Output(net.type[n], [i \in DOMAIN net.fanin[n] |-> fval[net.fanin[n][i]]]))
    \ seen

\* The queue after the event of node n with difference d, and the bits newly
\* known to be seen.
After(n, d) ==
  IF d = {} \/ n \in target \/ IsOutput(n) THEN Pop(eq) ELSE PutFanouts(Pop(eq), n)

Found(n, d) == IF n \in target THEN d \cap obs[n] ELSE IF IsOutput(n) THEN d ELSE {}

Cleared(n, d) == IF d = {} THEN clear ELSE clear \cup {n}

Event ==
  /\ pc = "sim" /\ eq.mNum > 0
  /\ LET n == First(eq)
         d == Diff(n)
     IN  /\ fval' = [fval EXCEPT ![n] = Xor(@, d)]
         /\ clear' = Cleared(n, d)
         /\ seen' = seen \cup Found(n, d)
         /\ eq' = After(n, d)
  /\ UNCHANGED <<netVars, dssVars, todo, pc, op, gval, obs, obs2, target, left>>

\* Mutant: the root keeps its faulty value.
RestoredBut(S) ==
  [n \in Nodes |-> IF n \in S \ {Head(todo)} THEN gval[n] ELSE fval[n]]

\* clear_fval() of the nodes in S.
Restored(S) == [n \in Nodes |-> IF n \in S THEN gval[n] ELSE fval[n]]

FfrEnd ==
  /\ pc = "sim" /\ eq.mNum = 0
  /\ fval' = Restored(clear) /\ target' = target \ dss[Head(todo)]
  /\ obs' = Spread(Head(todo), seen)
  /\ todo' = Tail(todo) /\ pc' = "ffr" /\ seen' = {} /\ clear' = {}
  /\ UNCHANGED <<netVars, dssVars, op, gval, obs2, eq, left>>

EndExact ==
  /\ pc = "ffr" /\ todo = <<>> /\ pc' = "idle"
  /\ UNCHANGED <<netVars, dssVars, todo, op, gval, fval, obs, obs2, simVars, left>>
------------------------------------------------------------------------------
(***************************************************************************)
(* calc_pseudo_min and calc_max                                            *)
(***************************************************************************)
\* A backward pass: what the fanouts of a node pass down, joined; base is what
\* the node starts with, and share[<<g, i>>] the part of gate g that pin i gets.
AllPins == UNION {sim.pins[n] : n \in Nodes}
Backward(base, share) ==
  LET ob[n \in Nodes] ==
        base[n] \cup UNION {ob[p[1]] \cap share[p] : p \in sim.pins[n]}
  IN  ob

\* Mutant: a node with fanouts starts with nothing, output or not.
StartLast(o) == [n \in Nodes |-> IF IsOutput(n) /\ sim.fanout[n] = {} THEN Pats ELSE o[n]]

\* The outputs start with kPvAll1.
StartOutputs(o) == [n \in Nodes |-> IF IsOutput(n) THEN Pats ELSE o[n]]

CalcPseudoMin(batch) ==
  /\ pc = "idle" /\ <<mode, "min">> \in Calls
  /\ CalcGval(batch)
  /\ obs' = Backward(StartOutputs([n \in Nodes |-> {}]),
                     [p \in AllPins |-> Sensitive(p[1], p[2], gval')])
  /\ op' = "min"
  /\ UNCHANGED <<netVars, dssVars, todo, pc, obs2, simVars, left>>

StartMax(batch) ==
  /\ pc = "idle" /\ <<mode, "max">> \in Calls
  /\ CalcGval(batch)
  /\ obs' = [n \in Nodes |-> Pats]
  /\ op' = "max" /\ left' = Samples /\ pc' = "max"
  /\ UNCHANGED <<netVars, dssVars, todo, obs2, simVars>>

\* random_order: every gate looks at its inputs in an order of its own.
Perms(g)  == {f \in [DOMAIN net.fanin[g] -> DOMAIN net.fanin[g]] :
                \A i, j \in DOMAIN f : f[i] = f[j] => i = j}
Orders    == {o \in [Logic -> UNION {Perms(g) : g \in Logic}] : \A g \in Logic : o[g] \in Perms(g)}

\* Mutant: an input is not held responsible for its own controlling value.
ShareStrict(g, i, o) == AllPass(g, DOMAIN net.fanin[g] \ {i}, gval)

\* calc_max_iobs: the inputs before pin i in the order let the change through,
\* and those after it do or pin i itself holds the output.
Share(g, i, o) ==
  LET before == {j \in DOMAIN o : o[j] < o[i]}
      after  == {j \in DOMAIN o : o[j] > o[i]}
  IN  AllPass(g, before, gval)
        \cap (AllPass(g, after, gval) \cup (Pats \ AllPass(g, {i}, gval)))

MaxRound(o) ==
  /\ pc = "max" /\ left > 0
  /\ obs' = LET ob == Backward(StartOutputs(obs2), [p \in AllPins |-> Share(p[1], p[2], o[p[1]])])
            IN  [n \in Nodes |-> obs[n] \cap ob[n]]
  /\ obs2' = [n \in Nodes |-> {}]
  /\ left' = left - 1
  /\ UNCHANGED <<netVars, dssVars, todo, pc, op, gval, fval, simVars>>

EndMax ==
  /\ pc = "max" /\ left = 0 /\ pc' = "idle"
  /\ UNCHANGED <<netVars, dssVars, todo, op, gval, fval, obs, obs2, simVars, left>>
------------------------------------------------------------------------------
Call == \E b \in Batches : StartExact(b) \/ CalcPseudoMin(b) \/ StartMax(b)

Work ==
  \/ DssDone \/ DssOld \/ DssLocal \/ DssGlobal
  \/ FfrOutput \/ FfrStart \/ Event \/ FfrEnd \/ EndExact
  \/ (\E o \in Orders : MaxRound(o)) \/ EndMax

Next == Call \/ Work

\* A started call runs until it returns.
Spec == Init /\ [][Next]_vars /\ WF_vars(Work)
------------------------------------------------------------------------------
\* The shape of the state.
CvfTypeOK ==
  /\ pc \in {"dss", "idle", "ffr", "sim", "max"}
  /\ op \in {"none", "exact", "min", "max"}
  /\ gval \in [Nodes -> SUBSET Pats] /\ fval \in [Nodes -> SUBSET Pats]
  /\ obs \in [Nodes -> SUBSET Pats] /\ obs2 \in [Nodes -> SUBSET Pats]
  /\ target \subseteq Nodes /\ clear \subseteq Nodes /\ seen \subseteq Pats
  /\ dss \in [Roots -> SUBSET Nodes] /\ cur \subseteq Nodes /\ acc \subseteq Nodes
  /\ eq.inQueue \subseteq Logic /\ left \in 0 .. Samples

\* What a node's observability is: its complement reaches an output.
Flipped(n) ==
  LET v[m \in Nodes] ==
        LET good == IF IsInput(m) THEN gval[m]
                    ELSE Output(net.type[m], [i \in DOMAIN net.fanin[m] |-> v[net.fanin[m][i]]])
        IN  IF m = n THEN Pats \ good ELSE good
  IN  v
Observability(n) ==
  LET v == Flipped(n) IN UNION {Xor(v[m], gval[m]) : m \in net.out}

\* calc_exact is exact: with the disjoint sets of either algorithm or none, the
\* result is what complementing every node one at a time would give.
ExactIsObservability ==
  pc = "idle" /\ op = "exact" => \A n \in Nodes : obs[n] = Observability(n)

\* calc_max bounds it from above, whatever orders are drawn and whatever
\* mTmpObs held before.
MaxBounds ==
  pc = "idle" /\ op = "max" => \A n \in Nodes : Observability(n) \subseteq obs[n]

\* calc_pseudo_min is exact for a node with a single path to the outputs,
\* outputs inside the path included.
OnePath(n) ==
  LET up[m \in Nodes] ==
        Cardinality(sim.pins[m]) <= 1 /\ \A k \in sim.fanout[m] : up[k]
  IN  up[n]
PseudoMinOnTrees ==
  pc = "idle" /\ op = "min" =>
    \A n \in Nodes : OnePath(n) => obs[n] = Observability(n)

\* Both approximations are what they are called.
Approximates == MaxBounds /\ PseudoMinOnTrees

\* The DSS of a region: disjoint outputs, and none is reached around it.
Outside(S) ==
  LET reach[n \in Nodes] ==
        IF n \in S THEN {}
        ELSE IF IsOutput(n) THEN {n}
        ELSE UNION {reach[m] : m \in sim.fanout[n]}
  IN  reach
Around(r) == UNION {Outside(dss[r])[m] : m \in sim.fanout[r]}
DssCuts ==
  pc # "dss" /\ mode # "none" =>
    \A r \in Roots :
      /\ Around(r) = {}
      /\ \A x, y \in dss[r] : x # y => ~Overlap(x, y)

\* Nothing of one simulation is left for the next, and until it is over every
\* node whose faulty value differs is on mClearArray.
Clean(S) ==
  /\ CvfTypeOK
  /\ {n \in S : fval[n] # gval[n]} \subseteq clear
  /\ pc \in {"ffr", "idle"} /\ op = "exact" =>
       clear = {} /\ target = {} /\ eq.mNum = 0 /\ eq.inQueue = {}

\* calc_fval toggles mFval: a node must be evaluated once at most, after all
\* its fanins. No node below the one taken is queued, then or later.
LevelOrder ==
  [][pc = "sim" /\ pc' = "sim" =>
       LET n == First(eq)
       IN  n \notin clear /\ \A m \in eq'.inQueue : m # n /\ sim.level[m] >= sim.level[n]]_vars

\* Every call returns, find_dss included.
Returns == pc # "idle" ~> pc = "idle"
=============================================================================
