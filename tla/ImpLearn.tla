------------------------------ MODULE ImpLearn ------------------------------
(***************************************************************************)
(* The learners of programs/imp that drive the engine over every literal:  *)
(* StrImp ("str"), ConstImp ("const"), ContraImp ("contra"), RlImp ("rl")  *)
(* and SatImp ("sat"), run one after another on one ImpMgr as imp.cc does. *)
(***************************************************************************)
EXTENDS ImpEngine

CONSTANT Pipelines    \* sequences of learners that may be run

VARIABLES
  jobs,    \* the learners still to run, the current one first
  pc,      \* where the current learner is
  cur,     \* the literal of its loop: 2 * src_id + val
  info     \* the imp_list_array / ImpInfo it fills

lvars == <<vars, jobs, pc, cur, info>>

Job == Head(jobs)
Id  == cur \div 2
Val == cur % 2
NoInfo == [n \in Nodes(net) |-> [v \in Bit |-> {}]]

\* Literals in a fixed order do not matter: ImpInfo::set sorts every list.
Neg(lit) == <<lit[1], 1 - lit[2]>>

\* Mutant: the contrapositive ends in the source literal itself.
AddImplicationsWrong(lit, ds, contra) ==
  [n \in Nodes(net) |-> [v \in Bit |->
     info[n][v]
       \cup (IF <<n, v>> = lit THEN ds ELSE {})
       \cup (IF contra /\ <<n, 1 - v>> \in ds THEN {lit} ELSE {})]]

\* Adds lit => d for every d \in ds, and if contra its contrapositive.
AddImplications(lit, ds, contra) ==
  [n \in Nodes(net) |-> [v \in Bit |->
     info[n][v]
       \cup (IF <<n, v>> = lit THEN ds ELSE {})
       \cup (IF contra /\ <<n, 1 - v>> \in ds THEN {Neg(lit)} ELSE {})]]

\* Mutant: ContraImp records with ImpListRec instead of ImpListRec2.
LearnedOneWay ==
  LET lit == <<Id, Val>>
  IN  CASE Job \in {"str", "contra"} -> AddImplications(lit, recs, FALSE)
        [] Job = "const"  -> info
        [] Job \in {"rl", "sat"} ->
             IF result = "true" THEN AddImplications(lit, recs, TRUE) ELSE info

\* What the learner keeps of the literals ImpRec recorded: StrImp and
\* ContraImp also keep those of an assert that returned false.
Learned ==
  LET lit == <<Id, Val>>
  IN  CASE Job = "str"    -> AddImplications(lit, recs, FALSE)
        [] Job = "contra" -> AddImplications(lit, recs, TRUE)
        [] Job = "const"  -> info
        [] Job \in {"rl", "sat"} ->
             IF result = "true" THEN AddImplications(lit, recs, TRUE) ELSE info

------------------------------------------------------------------------------
LInit ==
  /\ Init
  /\ jobs \in Pipelines
  /\ pc = "loop" /\ cur = 0
  /\ info = NoInfo

More == jobs # <<>> /\ cur < 2 * net.nn

\* RlImp and the last loop of SatImp leave out a node that is a constant when
\* its turn comes.
Skips == Val = 0 /\ con[Id] # X /\ (Job = "rl" \/ pc = "final")

LSkip ==
  /\ More /\ Idle /\ pc \in {"loop", "final"} /\ mark = <<>> /\ Skips
  /\ cur' = cur + 2
  /\ UNCHANGED <<vars, jobs, pc, info>>

\* bool ok = imp_mgr.assert(node, val[, rec]). RlImp asserts nothing more:
\* change_value has its calls of set_unjustified compiled out, get_unodelist
\* returns nothing, and the loop over the unjustified nodes has no round.
LAssert ==
  /\ More /\ pc \in {"loop", "final"} /\ mark = <<>> /\ ~Skips
  /\ Assert(Id, Val, pc = "loop" /\ Job # "const")
  /\ pc' = IF pc = "final" THEN "finalrun" ELSE "run"
  /\ UNCHANGED <<jobs, cur, info>>

\* imp_mgr.backtrack()
LBacktrack ==
  /\ pc = "run" /\ Backtrack
  /\ info' = Learned
  /\ IF result = "false"
     THEN pc' = "const" /\ UNCHANGED cur
     ELSE pc' = "loop" /\ cur' = cur + 1
  /\ UNCHANGED jobs

\* Mutant: the loop does not go on after a constant.
LSetConstStays ==
  /\ pc = "const" /\ ConstCall(Id, 1 - Val)
  /\ pc' = "loop"
  /\ UNCHANGED <<jobs, cur, info>>

\* if ( !ok ) imp_mgr.set_const(src_id, val ^ 1)
LSetConst ==
  /\ pc = "const" /\ ConstCall(Id, 1 - Val)
  /\ pc' = "loop" /\ cur' = cur + 1
  /\ UNCHANGED <<jobs, info>>

\* The SAT solver's part of SatImp: every implication between two nodes not
\* known to be constant is found, with its contrapositive, and handed to the
\* engine with set_ind_imp.
Proved(n, v) ==
  {d \in ValidImplications(n, v) : con[n] = X /\ con[d[1]] = X}

LProve ==
  /\ jobs # <<>> /\ Job = "sat" /\ pc = "loop" /\ Idle /\ cur = 2 * net.nn
  /\ info' = [n \in Nodes(net) |-> [v \in Bit |-> info[n][v] \cup Proved(n, v)]]
  /\ impl' = info'
  /\ pc' = "final" /\ cur' = 0
  /\ UNCHANGED <<jobs, net, st, chg, mark, con, agenda, recording, recs, result,
                 dec, swallowed, refuted, aborted>>

\* The last loop of SatImp: set_const is called before backtrack.
LFinalConst ==
  /\ pc = "finalrun" /\ result = "false"
  /\ ConstCall(Id, 1 - Val)
  /\ pc' = "finalback"
  /\ UNCHANGED <<jobs, cur, info>>

LFinalBacktrack ==
  /\ \/ pc = "finalrun" /\ result = "true"
     \/ pc = "finalback"
  /\ Backtrack
  /\ pc' = "final" /\ cur' = cur + 1
  /\ UNCHANGED <<jobs, info>>

LNextJob ==
  /\ jobs # <<>> /\ Idle /\ cur = 2 * net.nn
  /\ pc = IF Job = "sat" THEN "final" ELSE "loop"
  /\ jobs' = Tail(jobs)
  /\ pc' = "loop" /\ cur' = 0
  /\ info' = IF Len(jobs) = 1 THEN info ELSE NoInfo
  /\ UNCHANGED vars

LPropagate == Propagate /\ UNCHANGED <<jobs, pc, cur, info>>

LNext == \/ LPropagate \/ LSkip \/ LAssert \/ LBacktrack \/ LSetConst
         \/ LProve \/ LFinalConst \/ LFinalBacktrack \/ LNextJob

\* A learner is one sequential call: it goes on as long as it can.
LSpec == LInit /\ [][LNext]_lvars /\ WF_lvars(LNext)
------------------------------------------------------------------------------
\* The ranges of the variables.
LTypeOK ==
  /\ TypeOK
  /\ cur \in 0 .. (2 * net.nn)
  /\ info \in [Nodes(net) -> [Bit -> SUBSET Literals(net)]]

\* The consistent assignments of every network.
Assignments == [c \in Circuits |-> Consistent(c)]

\* verify() of ImpInfo.cc reports no error: every implication a learner keeps
\* holds in every assignment of the network, those of a refuted literal and
\* the contrapositives included.
InfoSound ==
  \A n \in Nodes(net), v \in Bit : \A d \in info[n][v], f \in Assignments[net] :
     f[n] = v => Holds(f, d)

\* The contraposition learners leave a list closed under contraposition.
ContraClosed ==
  jobs # <<>> /\ Job # "str" =>
    \A n \in Nodes(net), v \in Bit : \A d \in info[n][v] :
       <<n, 1 - v>> \in info[d[1]][1 - d[2]]

\* Between two literals nothing of the previous assert is left in the engine:
\* what a node knows comes from constants only; every variable is in its range.
CleanLoop ==
  /\ LTypeOK
  /\ pc \in {"loop", "final"} /\ Idle =>
       /\ chg = <<>>
       /\ \A n \in Nodes(net) : OutVal(n) # X => con[n] = OutVal(n)

\* A node the last learner found constant has a value no pin contradicts, and
\* the constant reaches every fanout whose other pin does not decide already.
ConstPropagated ==
  pc \in {"loop", "final"} /\ Idle =>
    \A n \in Ands(net), p \in Pin :
       con[net.src[n][p]] # X =>
         \/ st[n][p] = Flip(con[net.src[n][p]], net.inv[n][p])
         \/ st[n][p] = X /\ st[n][Other(p)] = 0

\* Every learner comes to its end.
Finishes == <>(jobs = <<>>)
=============================================================================
