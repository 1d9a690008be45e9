------------------------------- MODULE NaImp -------------------------------
(***************************************************************************)
(* NaImp, the structural learner of programs/imp, with its four options of *)
(* ImpCmd.cc and the one of imp.cc, run before or after any other learner  *)
(* on the same ImpMgr.                                                     *)
(*                                                                         *)
(* It keeps for every literal a list of conditions, literals that imply it *)
(* (ImpValList), and passes over the network forwards and backwards until  *)
(* the lists stop growing; three flags on each list say whether it grew in *)
(* a pass.                                                                 *)
(***************************************************************************)
EXTENDS ImpLearn

VARIABLES
  lists,    \* imp_lists: the conditions of every literal
  flags,    \* mChanged of every list: those of 1, 2, 3 that are set
  work,     \* what a pass has still to visit: forward the literals of the AND
            \* nodes, backward the nodes
  edges,    \* backward: the fanout edges of the current node still to visit,
            \* once for each value
  grew      \* delta > 0

passvars == <<work, edges>>
nvars    == <<lists, flags, passvars, grew>>
allvars == <<lvars, nvars>>

\* The names of ImpCmd.cc, and the second NaImp of imp.cc.
NaJobs == {"naive", "naive1", "naive2", "naive3", "naimp2"}

UseDI(j)        == j \in {"naive1", "naive3", "naimp2"}
UseContra(j)    == j \in {"naive2", "naive3", "naimp2"}
UseCapMerge2(j) == j # "naimp2"

Running(pcs) == ~aborted /\ jobs # <<>> /\ Job \in NaJobs /\ pc \in pcs

------------------------------------------------------------------------------
(***************************************************************************)
(* Lists.                                                                  *)
(***************************************************************************)
NoFlags  == [n \in Nodes(net) |-> [v \in Bit |-> {}]]

Has(l, n) == \E v \in Bit : <<n, v>> \in l

\* check_list returns 2: both lists have the node of l, but do not start it
\* with the same value.
Opposed(a, b) ==
  \E n \in Nodes(net) :
     Has(a, n) /\ Has(b, n) /\ (<<n, 0>> \in a) # (<<n, 0>> \in b)

\* Mutant: the list that is opposed is merged, not the other one.
CapMergeSame(dst, a, b, cap2) ==
  dst \cup (IF cap2 /\ Opposed(dst, a) THEN a
            ELSE IF cap2 /\ Opposed(dst, b) THEN b
            ELSE a \cap b)

\* cap_merge and cap_merge2.
CapMerge(dst, a, b, cap2) ==
  dst \cup (IF cap2 /\ Opposed(dst, a) THEN b
            ELSE IF cap2 /\ Opposed(dst, b) THEN a
            ELSE a \cap b)

ListOf(lit)     == lists[lit[1]][lit[2]]
FlagsOf(lit)    == flags[lit[1]][lit[2]]
PinLit(n, p, v) == <<net.src[n][p], Flip(v, net.inv[n][p])>>

------------------------------------------------------------------------------
(***************************************************************************)
(* One list of a pass.  changed says of a literal whether its list is to   *)
(* be looked at.                                                           *)
(***************************************************************************)
IfChanged(lit, changed) == IF lit \in changed THEN ListOf(lit) ELSE {}

\* The meet is taken again when one of its two lists has changed.
MeetOf(lit, a, b, changed) ==
  IF a \in changed \/ b \in changed
  THEN CapMerge(ListOf(lit), ListOf(a), ListOf(b), UseCapMerge2(Job))
  ELSE ListOf(lit)

\* The fanin forward finds to be constant first, 0 if none is.
ConstFanin(n) ==
  IF con[net.src[n][1]] # X THEN 1
  ELSE IF con[net.src[n][2]] # X THEN 2 ELSE 0

\* Beside a constant an AND node is what its other fanin is; otherwise output 0
\* is implied by what implies a fanin 0, output 1 by what implies both 1.
ForwardList(n, v, changed) ==
  IF ConstFanin(n) # 0
  THEN ListOf(<<n, v>>) \cup ListOf(PinLit(n, Other(ConstFanin(n)), v))
  ELSE IF v = 0
  THEN ListOf(<<n, v>>) \cup IfChanged(PinLit(n, 1, v), changed)
                        \cup IfChanged(PinLit(n, 2, v), changed)
  ELSE MeetOf(<<n, v>>, PinLit(n, 1, v), PinLit(n, 2, v), changed)

SideConst1(o, p) == con[net.src[o][Other(p)]] = 1

\* Pin p of node o: it is 0 by what makes o 0 and the other pin 1, and 1 by
\* what makes o 1.
BackwardList(o, p, v, changed) ==
  LET lit == PinLit(o, p, v)
  IN  IF con[o] # X THEN ListOf(lit)
      ELSE IF SideConst1(o, p) THEN ListOf(lit) \cup ListOf(<<o, v>>)
      ELSE IF v = 0
      THEN MeetOf(lit, <<o, 0>>, PinLit(o, Other(p), 1), changed)
      ELSE ListOf(lit) \cup IfChanged(<<o, 1>>, changed)

\* node_list, without the constants: for each node the lists of both values.
\* Before is the order of the pass.
ForwardWork == {lit \in Ands(net) \X Bit : con[lit[1]] = X}

\* rnode_list, without the constants: the AND nodes with fanouts from the last
\* to the first, then the inputs.
BackwardWork ==
  {n \in Nodes(net) : con[n] = X /\ (n \in Ands(net) => Fanouts(net, n) # {})}

FirstNode(n, S) ==
  /\ n \in S
  /\ IF n \in Ands(net) THEN \A m \in S : m <= n
                       ELSE \A m \in S : m \in Inputs(net) /\ n <= m

\* mFanouts of n, the lists of both values of each edge, in their order.
EdgeWork(n) == {<<e[1], e[2], v>> : e \in Fanouts(net, n), v \in Bit}
FirstEdge(e, S) ==
  /\ e \in S
  /\ \A g \in S : Before(e, g) /\ (Before(g, e) => e[3] <= g[3])
------------------------------------------------------------------------------
(***************************************************************************)
(* The learners.                                                           *)
(***************************************************************************)
NInit ==
  /\ LInit
  /\ lists = NoInfo /\ flags = NoFlags
  /\ work = {} /\ edges = {} /\ grew = FALSE

\* The list of lit becomes new, its flags fl; counts: delta counts its growth.
Becomes(lit, new, fl, counts) ==
  /\ lists' = [lists EXCEPT ![lit[1]][lit[2]] = new]
  /\ flags' = [flags EXCEPT ![lit[1]][lit[2]] = fl]
  /\ grew'  = (grew \/ (counts /\ new # ListOf(lit)))

\* changed(): flag 1 or 2 is set.
ChangedLits == {lit \in Literals(net) : FlagsOf(lit) \cap {1, 2} # {}}

\* assert and backtrack of phase 0, with the recorder.
NAssert ==
  /\ Running({"loop"}) /\ UseDI(Job) /\ More /\ mark = <<>>
  /\ Assert(Id, Val, TRUE)
  /\ pc' = "run"
  /\ UNCHANGED <<jobs, cur, info, nvars>>

\* What ImpListRec3 adds for lit => d, d \in ds: lit is a condition of d, and
\* the contrapositive.
Recorded(lit, ds) ==
  [n \in Nodes(net) |-> [v \in Bit |->
     lists[n][v]
       \cup (IF <<n, v>> \in ds THEN {lit} ELSE {})
       \cup (IF <<n, v>> = Neg(lit) THEN {Neg(d) : d \in ds} ELSE {})]]

NBacktrack ==
  /\ Running({"run"}) /\ Backtrack
  /\ lists' = Recorded(<<Id, Val>>, recs)
  /\ IF result = "false"
     THEN pc' = "const" /\ UNCHANGED cur
     ELSE pc' = "loop" /\ cur' = cur + 1
  /\ UNCHANGED <<jobs, info, flags, passvars, grew>>

\* set_const and break: the other value of the node is not tried.
NSetConst ==
  /\ Running({"const", "finalconst"})
  /\ ConstCall(Id, 1 - Val)
  /\ pc' = IF pc = "const" THEN "loop" ELSE "final"
  /\ cur' = 2 * (Id + 1)
  /\ UNCHANGED <<jobs, info, nvars>>

\* The lists the passes start with: those of the nodes that are not constant,
\* with themselves and without the constants.
Free(l) == {d \in l : con[d[1]] = X}
FirstList(n, v) ==
  IF con[n] # X THEN {} ELSE Free(lists[n][v] \cup {<<n, v>>})

NCollect ==
  /\ Running({"loop"}) /\ Idle
  /\ UseDI(Job) => cur = 2 * net.nn
  /\ lists' = [n \in Nodes(net) |-> [v \in Bit |-> FirstList(n, v)]]
  /\ flags' = [n \in Nodes(net) |-> [v \in Bit |->
                 IF con[n] = X THEN {1, 2, 3} ELSE {}]]
  /\ work' = ForwardWork /\ grew' = FALSE
  /\ pc' = "forward"
  /\ UNCHANGED <<vars, jobs, cur, info, edges>>

\* The next list of the forward pass. The code asserts that the two fanins are
\* not both constant.
NForward ==
  /\ Running({"forward"})
  /\ \E lit \in work :
       LET n    == lit[1]
           new  == ForwardList(n, lit[2], ChangedLits)
           free == ConstFanin(n) = 0
       IN  /\ IsFirst(lit, work)
           /\ IF con[net.src[n][1]] # X /\ con[net.src[n][2]] # X
              THEN aborted' = TRUE /\ UNCHANGED <<lists, flags, grew>>
              ELSE /\ Becomes(lit, new,
                             IF ~free \/ new # ListOf(lit) THEN FlagsOf(lit) \cup {1, 3}
                                                           ELSE FlagsOf(lit) \ {1},
                             free)
                   /\ UNCHANGED aborted
           /\ work' = work \ {lit}
  /\ UNCHANGED <<net, st, chg, mark, con, impl, agenda, recording, recs, result,
                 dec, swallowed, refuted, jobs, pc, cur, info, edges>>

NTurn ==
  /\ Running({"forward"}) /\ work = {}
  /\ pc' = "backward" /\ work' = BackwardWork
  /\ UNCHANGED <<vars, jobs, cur, info, lists, flags, edges, grew>>

\* The next node of the backward pass: reset_change2 of its two lists.
NReset ==
  /\ Running({"backward"}) /\ edges = {}
  /\ \E n \in work :
       /\ FirstNode(n, work)
       /\ flags' = [flags EXCEPT ![n] = [v \in Bit |-> @[v] \ {2}]]
       /\ work' = work \ {n} /\ edges' = EdgeWork(n)
  /\ UNCHANGED <<vars, jobs, pc, cur, info, lists, grew>>

\* The next list of the backward pass.
NBackward ==
  /\ Running({"backward"})
  /\ \E e \in edges :
       LET o    == e[1]
           p    == e[2]
           lit  == PinLit(o, p, e[3])
           new  == BackwardList(o, p, e[3], ChangedLits)
           copy == con[o] = X /\ SideConst1(o, p)
       IN  /\ FirstEdge(e, edges)
           /\ Becomes(lit, new,
                      IF copy \/ new # ListOf(lit) THEN FlagsOf(lit) \cup {2, 3}
                                                   ELSE FlagsOf(lit), ~copy)
           /\ edges' = edges \ {e}
  /\ UNCHANGED <<vars, jobs, pc, cur, info, work>>

\* if ( delta == 0 ) break
NRound ==
  /\ Running({"backward"}) /\ work = {} /\ edges = {}
  /\ \/ /\ grew
        /\ pc' = "forward" /\ work' = ForwardWork
     \/ /\ ~grew
        /\ pc' = IF UseContra(Job) THEN "contra" ELSE "build"
        /\ UNCHANGED work
  /\ grew' = FALSE
  /\ UNCHANGED <<vars, jobs, cur, info, lists, flags, edges>>

\* Phase 3: the conditions of lit by contraposition, from the lists with
\* change flag 3.
Contrapositives(lit) ==
  {d \in Literals(net) :
     /\ d[1] # lit[1] /\ con[d[1]] = X
     /\ 3 \in flags[d[1]][1 - d[2]]
     /\ Neg(lit) \in lists[d[1]][1 - d[2]]}

NContra ==
  /\ Running({"contra"})
  /\ LET more(n, v) == Contrapositives(<<n, v>>) \ lists[n][v]
         some == \E lit \in Literals(net) : more(lit[1], lit[2]) # {}
     IN  /\ lists' = [n \in Nodes(net) |-> [v \in Bit |-> lists[n][v] \cup more(n, v)]]
         /\ flags' = [n \in Nodes(net) |-> [v \in Bit |->
                        IF more(n, v) # {} THEN {2, 3}
                        ELSE IF con[n] = X THEN {} ELSE flags[n][v] \cap {3}]]
         /\ IF some THEN pc' = "forward" /\ work' = ForwardWork
                    ELSE pc' = "build" /\ UNCHANGED work
  /\ UNCHANGED <<vars, jobs, cur, info, edges, grew>>

\* The lists are turned into ImpInfo, with their contrapositives, and handed
\* over with set_ind_imp.
NBuild ==
  /\ Running({"build"})
  /\ info' = [n \in Nodes(net) |-> [v \in Bit |->
                {d \in Literals(net) :
                   /\ d[1] # n
                   /\ \/ <<n, v>> \in ListOf(d)
                      \/ Neg(d) \in lists[n][1 - v]}]]
  /\ impl' = info'
  /\ pc' = "final" /\ cur' = 0
  /\ UNCHANGED <<net, st, chg, mark, con, agenda, recording, recs, result, dec,
                 swallowed, refuted, aborted, jobs, nvars>>

\* The last loop: a node that is constant is left out, the other literals are
\* asserted without a recorder and taken back before set_const.
NFinalSkip ==
  /\ Running({"final"}) /\ Idle /\ More /\ Val = 0 /\ con[Id] # X
  /\ cur' = cur + 2
  /\ UNCHANGED <<vars, jobs, pc, info, nvars>>

NFinalAssert ==
  /\ Running({"final"}) /\ More /\ ~(Val = 0 /\ con[Id] # X)
  /\ Assert(Id, Val, FALSE)
  /\ pc' = "finalrun"
  /\ UNCHANGED <<jobs, cur, info, nvars>>

NFinalBacktrack ==
  /\ Running({"finalrun"}) /\ Backtrack
  /\ IF result = "false"
     THEN pc' = "finalconst" /\ UNCHANGED cur
     ELSE pc' = "final" /\ cur' = cur + 1
  /\ UNCHANGED <<jobs, info, nvars>>

NNextJob ==
  /\ Running({"final"}) /\ Idle /\ cur = 2 * net.nn
  /\ jobs' = Tail(jobs)
  /\ pc' = "loop" /\ cur' = 0
  /\ info' = IF Len(jobs) = 1 THEN info ELSE NoInfo
  /\ lists' = NoInfo /\ flags' = NoFlags /\ grew' = FALSE
  /\ UNCHANGED passvars
  /\ UNCHANGED vars

NaSteps == \/ NAssert \/ NBacktrack \/ NSetConst \/ NCollect \/ NForward \/ NTurn \/ NReset
           \/ NBackward \/ NRound \/ NContra \/ NBuild
           \/ NFinalSkip \/ NFinalAssert \/ NFinalBacktrack \/ NNextJob

\* A step of the engine, of another learner or of one of these.
NNext ==
  \/ LPropagate /\ UNCHANGED nvars
  \/ jobs # <<>> /\ Job \notin NaJobs /\ LNext /\ UNCHANGED nvars
  \/ NaSteps

NSpec == NInit /\ [][NNext]_allvars /\ WF_allvars(NNext)
------------------------------------------------------------------------------
\* Every condition a list holds implies the list's literal in every
\* assignment of the network, at any moment of the passes.
ConditionsSound ==
  jobs # <<>> /\ Job \in NaJobs =>
    \A n \in Nodes(net), v \in Bit : \A d \in lists[n][v], f \in Assignments[net] :
       Holds(f, d) => f[n] = v
=============================================================================
