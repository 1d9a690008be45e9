# Verification of ym-apps

ym-apps is a collection of research programs for logic synthesis: an implication
engine, a decision procedure for equality with uninterpreted functions, fault
simulators, cut enumerators, pattern generators and table-driven rewriting. Every
program is sequential C++ that keeps mutable state shared by deeply recursive
calls. Nothing is concurrent and nothing is persisted, so there are no crashes,
messages or timeouts here; what is hard is the order in which one recursive call
changes what another, still open, is reading, state that must be given back
exactly, loops that must reach a fixpoint, and the algorithms themselves.

All paths below are relative to `src/programs`.

## 1. The parts of the system

The list of record is `components` in `PROJECT.json`, with every file. In short:

| part | state | operations | what is hard | what makes it correct |
|---|---|---|---|---|
| **imp engine** `imp/src/libym_imp/Imp{Mgr,Node,And,Input}*` | `mState` of every node (two pins and the output, three-valued), `mConstState`, `mImpList`, `mChgStack`, `mMarkerStack` | `assert`, `backtrack`, `set_const`, `set_ind_imp` | forward, backward and indirect implication call each other through the network; conflicts unwind; nested asserts share one undo stack | every value is forced by the asserted literals, nothing direct is missed, backtrack is exact, constants are constant, the recursion ends |
| **imp learners** `StrImp`, `ConstImp`, `ContraImp`, `RlImp`, `SatImp`, `NaImp` with `ImpValList` | implication lists, the engine; NaImp: a list of conditions and three change flags per literal | one `learning()` each: assert each literal, record, backtrack, maybe set a constant; NaImp: passes that merge and intersect lists until the flags are clear | constants appear while the loop goes on; the order of the engine calls; lists merged by a rule that is not monotone | every implication and condition kept is valid, the lists are closed under contraposition, nothing leaks from one literal to the next, the passes end |
| other learners `NaImp2`, `CnfImp`, `CnfImp2`; `ImpHash`; reader `imp/src/bb` | lists in other classes; chained table; parse tree | - | - | - |
| **llvmeq** `EufMgr`, `EufBinMgr`, `EufFuncMgr`, `EufVarMgr` | terms with IDs, lists of equalities and applications, the clauses of a SAT solver | `new_*` constructors, `check_validity` | refinement loop between a SAT solver and congruence closure; clauses outlive the check that learned them | Valid and Invalid are right, the loop ends, terms are shared |
| **seal EventQ** `seal/src/calc_cvf/EventQ` | list per level, `mCurLevel`, `mNum`, in-queue flags | `init`, `put`, `get` | unbounded search; a cell that is never initialised | nodes leave lowest level first, each once |
| **seal CalcCvf** `seal/src/calc_cvf` | good and faulty values, observabilities, regions (FFRs), output marks, disjoint successor sets (DSS) | `set_network`, `calc_exact`, `calc_pseudo_min`, `calc_max` | simulations share one faulty value per node and stop at nodes whose result is taken as known | exact observability is exact, `calc_max` bounds it |
| **seal CalcSvf** `seal/src/calc_svf` | the same over copies of a sequential network, one per time frame | the same | words of later inputs that are never set; regions and the queue know the first frame only | the effect of a change in the first frame on all later ones is exact |
| seal bddsim, commands, scripts | - | - | - | - |
| **enumcut TopDown, TopDown2** `enumcut/libec/TopDown*` | frontier stack, inputs, a state and marks per node, footprints | `operator()`, `enum_recur` | all levels of a backtracking recursion share the arrays and the states | every cut within the limit is reported, once, and nothing else |
| **enumcut BottomUp** `enumcut/libec/BottomUp` | cut lists, two marks per node | `operator()` | searches that set and clear marks; early exits by `goto` | the same |
| **enumcut ZddImp, ZddImp2, ZddTopDown** `enumcut/libec/Zdd*` | a family of sets per node | `operator()` | a search that expands a node once | the family is that of the minimal cuts |
| **libgbm** `enumcut/libgbm` | `RcfNetwork` (inputs, AND gates, tables with free configuration bits); solver, constraints learned | `RcfNetwork::new_*`, `GbmSolver::solve` | a loop of guesses and counterexamples, three encodings, rules that prune symmetric orders | a match realises the function, none is missed, the loop ends |
| **recordcut** `enumcut/recordcut/{LnMatch,Lut443Match,Lut444Match}` | templates with symmetry lists, one solver | `match` | redundant variables; hand-written symmetries; a solver that gives up | the function is realised, or no template realises it (unless a solver gave up) |
| cut records `CutMgr`, `FuncMgr`; lr; LUT maps | cut and function tables; pattern graph | - | tables that grow | - |
| lrw, genaig | graphs modulo permutation and negation of inputs, generated tables | - | group laws over tables | - |
| **svm** `svm/{ThBddGen,ItvlList}` | accumulated weights, an AVL tree of intervals per variable | `gen_bdd`, `add`, `find` | a BDD found by the interval of its slack; rotations | the BDD is the threshold function, intervals are disjoint, trees balanced |
| lsim, led, makebdd, bnet2aig | drivers, a GUI | - | - | - |

Interactions. The learners call the engine and read the recorder (`ImpRec`) the
engine calls back. `EufMgr` calls a SAT solver and a union-find (both external).
`CalcCvf` drives `EventQ`, whose `put` and `get` touch flags and links inside the
`SimNode`s. The cut enumerators call back an operator object (`found_cut`,
`node_init`, `node_end`). `LnMatch` calls `GbmSolver::solve` for each of its
templates; `ThBddGen` fills an `ItvlList` per variable while it recurses. The
programs are not connected to one another.

## 2. Modules

### imp
- `ImpCircuit`: an AND-inverter network, literals and consistent assignments.
  `ImpNets` holds the networks the runs use.
- `ImpEngine`: the engine. The variables are the fields named above plus
  `agenda`, the C++ call stack. One step executes the innermost call up to its
  next nested call: `bwd` (`bwd_prop0/1`, `bwd_imp0/1`), `fan`
  (`fanout_prop0/1` and the `fwdP_impV` of the fanout it visits), `ind`
  (`ind_imp0/1`), `con` (`ImpNode::set_const`, with `prop_const` of the fanout).
  `FwdState`, `BwdPins`, `BwdState`, `ConstState` and `ConstOut` are the state
  tables (the `switch` statements) of `ImpAnd` and `ImpInput`. A conflict drops
  the calls up to the nearest `ind`, because `fanout_prop0/1` ignores what
  `ind_imp0/1` returns. `dec`, `swallowed` and `refuted` are history.
- `ImpAbs`: what clients may rely on, a stack of decisions with forced values and
  exact undo. `ImplementsAbs` in `ImpEngine` is the refinement; it maps each
  level to the values the undo stack would restore.
- `ImpLearn`: the first five learners, as loops that call the engine's actions.
  SatImp's solver is external and finds every implication between two nodes.
- `NaImp` (extends `ImpLearn`): NaImp node by node and pass by pass. An
  `ImpValList` is the set of literals in its sorted cells; `cap_merge2` and the
  other operations are translated with what they do when the lists contradict.
- `ImpProofs`: the proofs about the engine (safety, refinement, completeness) and,
  from them, those about the learners.

The preconditions of the engine's own specification are those its callers (with
one exception, finding 1) respect: `set_const` and `set_ind_imp` outside an
assert and with valid facts; `assert` only while the previous one did not return
false. `ImpLearn` calls `ConstCall` itself, without that precondition.

### llvmeq
- `EufMgr`: `terms[i]` is the term with ID i - 1; a constructor normalises its
  operands, looks the term up and, if it is new, appends it with its clauses.
  `check_validity` runs in steps: solve, one merge per step for the equalities
  and for the closure, then the clauses learned or the answer. The solver returns
  any model of the clauses under the assumptions, or gives up. Meaning is given
  by `Interps`, the interpretations of the terms.
- `EufMgrProofs`: the proofs, of both answers, of term sharing and of the
  closure.

### seal
- `EventQ`: the queue as operators on a record. `EventQSpec` runs it on its own,
  from both contents the unwritten last cell may have; `PrioQ` is what it
  promises. `IsQueue`, in `EventQ`, is what `put` and `get` keep between them.
- `CalcCvf` (extends `EventQ`): `Sim` is what `set_network` derives; the `Dss*`
  actions are the two algorithms of `find_dss`; `FfrStart`, `Event`, `FfrEnd` are
  one simulation of `calc_exact`; `CalcPseudoMin` and `MaxRound` are the backward
  passes. A packed word is the set of its bits that are 1; an output mark is a
  set of outputs; the random input orders of `calc_max` are chosen by `\E`.
- `CalcSvf` (extends `CalcCvf`): `Unroll` is the copying of `set_network`,
  `SvfRoot` its regions, which exist in the first frame only. The simulation
  loop of its `calc_exact`, the gates and the queue are textual copies of
  CalcCvf's, so it uses those actions (`Work`) without a DSS. The two words of an
  input of a later frame start as anything and are written by nothing.
  `CalcSpec` starts either program; `MCCalcCvf` has the networks.
- `SealProofs`: the proofs about the queue and the two simulators.

### enumcut
- `CutNet`: networks and the definition of a cut; `CutArgs`: the network and limit
  every enumeration is called with; `CutEnum`: an enumerator that
  reports each cut once between the start and the end of its node.
- `TopDown`: `stack` holds the activations of `enum_recur` that wait, each with
  the positions it saved; `ret` is the value being returned. `stem` is the set of
  nodes at which cuts are enumerated: all of them for TopDown, any set that
  contains the outputs' ones for TopDown2.
- `BottomUp`: the two loops over cut lists, with the marks as set by `mark_cut`
  and cleared by `clear_cut`.
- `ZddCut`: the three enumerations that keep a ZDD per node; the ZDD package is
  external and a ZDD is the family of sets it stands for. `dfs` is a recursive
  function from nodes to what the walk does to marks and family.
- `CutNetProofs`: what the searches of a network meet, and cuts, as lemmas;
  `TopDownProofs` and `CutListProofs` (BottomUp and the ZDDs): the proofs about the programs.
- `MCEnumCut` runs TopDown (or TopDown2), then BottomUp, then the ZDDs on the same
  network and limit.

### enumcut: matching
- `RcfNet`: `RcfNetwork`, its construction, predecessors of inputs and
  simulation under a configuration.
- `Gbm`: `GbmSolver::solve`. One definition per engine says which orders its
  constraints leave (`Orders` and the rules before it) and `Iorder` how an order is decoded, one
  action per step of the naive, counterexample-guided and enumerating strategies. The SAT
  and BDD packages are external: any model of the constraints may be returned.
  `Aborts` is a solver that gives up, in any round: all SAT solvers look for `kB3X`
  (`GbmSatCegarBinary` sets a limit of conflicts), and the ones with BDDs for an invalid
  BDD. An enumeration with SAT solvers gives up on the current order and goes on to the
  next, and answers no match in the end; the one with BDDs asserts that all are valid.
- `LnMatch` (extends `Gbm`): `LnMatch::match`. `LnNets` holds small templates and
  functions, `LutTempl` the real templates of `Lut443Match` and `Lut444Match`.
- `LnMatchProofs`: the proofs about both loops.

### svm
- `ItvlList`: the AVL tree, a function from the positions of its nodes to what
  they hold. `mLchd` and `mRchd` are the two turns at a position, so relinking
  nodes is `Join`ing subtrees; `Reached` is where a search may come to, `add_node` the way
  back from the recursion with the four rotations.
- `ThBddGen`: `gen_bdd` call by call, with the tree of each level and the read
  one past `mAcc`, whose word is any of `Beyond` and stays the same during one
  use. `weight_array` is the array given, `mWeightArray` the sorted one and `mIdx` the
  index of each position. A BDD is the set of the sets of *positions* that make it
  true, as in the code (`VarId(pos)`, line 225). `Store` aborts on an interval
  narrower than `MinGap` (`delta < 1e-5`, line 196; `debug` is always true).
  With no weights there is no memory to read and the call crashes.
  `DblMin` and `DblMax` stand for no bound, as `DBL_MIN` and `DBL_MAX` do in the code;
  `DblMin` lies below all sums and `DBL_MIN` just above 0, which no comparison sees, as the
  lower bound of a first call is never `DBL_MIN`: its slack is not negative.
- `ThBddProofs`: the proofs about both.

Definitions that start with a comment "Mutant:" are not part of any
specification: each is a plausible bug in the definition that follows it, which
one of the properties rejects.

## 3. What is checked

| run | instance | properties |
|---|---|---|
| `engine` | every network of two inputs and two AND nodes, an exclusive or, and a reconvergent network with a constant only backward implication finds; two nested asserts of any literals, with and without a recorder, constants, one indirect implication | `Sound`, `Complete`, `IInv`, `ImplementsAbs`, `Returns` |
| `learners` | StrImp, ConstImp, ContraImp, NaImp with and without its options and RlImp in sequence; SatImp before others; NaImp alone; on the small networks and the larger ones | `InfoSound`, `ConditionsSound`, `ContraClosed`, `CleanLoop`, `ConstPropagated`, `Finishes` |
| `euf` | two variables, two applications of one function, two equalities, one assumption; gates over a boolean and an equality | `ClausesSound`, `ValidIsRight`, `InvalidIsRight`, `ClosureExact`, `NoDuplicates`, `Learns`, `Terminates` |
| `event_queue` | five nodes on three levels, two of them on the last level of the array | `QInv`, `NoOverflow`, `LowestFirst` |
| `observability` | CalcCvf on 255 networks of three to five gates, all algorithms; CalcSvf on 54 sequential networks over one to three frames | `CvfExact`, `SvfExact`, `Approximates`, `DssCuts`, `NothingLeft`, `LevelOrder`, `Returns` |
| `cuts` | every network of up to three inputs and three gates or two inputs and four gates, two larger ones; limits 1 to 4 | `MarksAgree`, `ZddsAgree`, `TopDownReports`, `BottomUpReports`, `Finishes` |
| `matching` | nine combinations of engine, encoding and strategy over templates of one and two tables and of an AND gate and a table; eight functions of up to four variables, redundant ones among them; the real templates | `SolveIsRight`, `MatchDecides`, `TemplatesKeepOrders`, `EveryRoundLearns`, `Returns` |
| `threshold` | all sorted arrays of six weights out of five values, and others, unsorted, with sums closer than the gap, and with weights below 0 among them; 23 thresholds; the word behind the array -3, 0, 1 or 4 | `GenIsThreshold`, `ListsBalanced` |

The properties that go beyond the function of one call:
- `Sound` and `Complete` hold in the middle of any propagation and after any
  sequence of calls: what is set is forced by the asserted literals, and after an
  assert that returned true no direct implication of a node is left.
- `ImplementsAbs` says that no change of a node escapes the undo stack.
- `ClosureExact` compares the union-find with the interpretations of the terms in
  both directions.
- `CvfExact` compares the event-driven result, which stops early at disjoint
  successors, with complementing each node in turn and evaluating the whole
  network. `LevelOrder` is why it works: `calc_fval` toggles the value, so a node
  must be evaluated once and after its fanins.
- `SvfExact` compares the result on the copies with running the sequential
  network frame by frame. It has a premise: the good and the faulty word of every
  input of a later frame happen to be equal. Nothing in the code makes them so
  (`calc_gval` sets the first frame's inputs, no constructor writes `mGval` or
  `mFval`); without the premise TLC finds a network of two gates over two frames
  with a wrong observability.
- `TopDownReports` and `BottomUpReports` are refinements of `CutEnum`: the two
  algorithms report the same cuts, each once.
- `ConditionsSound` holds of NaImp's lists in the middle of every pass, though
  the lists it started a pass with are no longer the ones it intersects.
- `MatchDecides` relates the answer of `match` about a function with redundant
  variables to the existence of an order and a configuration of any template;
  `EveryRoundLearns` says that a counterexample always rules out the model it
  came from, which is why `Returns` holds.

### Disagreements between the code and what it says
Four runs end in a violation; `findings` in `PROJECT.json` quotes the lines.
1. `sat_const_order`: the last loop of `SatImp::learning` calls `set_const` before
   `backtrack`, and a node that is not constant is marked so.
2. `euf_names`: the closure does not compare function names, and
   `check_validity` answers Valid for f(a) = g(b) when a = b.
3. `euf_bool_equality`: an equality of two booleans is not tied to their values,
   and `check_validity` answers Invalid for p = q when p and q are assumed.
4. `gbm_bdd_binary`: `GbmBddEngineBinary` writes the code of an input with its
   most significant bit first and reads it with the least significant bit first;
   with three inputs the order it returns is not the one it found.

Some more are modelled as they are and kept out of the passing runs by a named
condition: `MatchersUsable` (AND gates under the enumerating SAT solvers, codes of
one bit, predecessors under the one-hot BDD engine), `LosesOrders` (templates d1
and d2 of `Lut444Match`, where two pairs of inputs are interchangeable only
together), `LevelsFit` (`put` does not test the level; CalcCvf prepares its queue for
the highest level of an output, CalcSvf for that of the first frame's outputs, so the
initial states are those whose levels the array reaches). `assert` returns true after an indirect implication met a
contradiction although its comment says it does not; the engine's properties hold
nevertheless, so it is a hazard and not a run.

### Bounds, and why they are enough
- Engine: `MaxLevel` is 2, as two nested levels are needed for a node saved at two
  levels and partly restored; `MaxInd` is 1, as one indirect implication is needed
  for a conflict inside `ind_imp`, in the two networks with three levels of nodes. All networks of two
  ANDs contain every shape of one node over another; reconvergence and hidden
  constants need the larger networks. The proofs cover the rest.
- EufMgr: `Most` bounds the terms of each operator, `MinTerms` says how many
  exist before a check is made, `MaxAssume` bounds the assumptions. With two
  applications and two equalities a closure needs a second pass, and a false
  equality is refuted by a true one. Two values are enough to tell apart the
  classes of at most two equalities. A solver's model is total; a term names its
  own solver variable. `VarNames` and `BVarNames` are disjoint: asking for an old
  name with another flag is a misuse. Arguments are not boolean and booleans are
  not compared, except in `euf_bool_equality`; the proved theorems have no such
  restriction. Symmetric functions are in the model and in the proofs, in no run.
- EventQ: the constructor's 128 levels become `DefaultLevel` (1), so that
  `init(2)` allocates; level 2 is the cell `init` does not write. In CalcCvf all
  levels fit the array (the hazard at `EventQ.h:83` is outside the model).
- CalcCvf and CalcSvf: four bits hold all vectors of two inputs, so an observability is
  complete; the networks of CalcCvf have at most seven nodes, with stems of two and three
  fanouts that meet again, gates of one to three inputs, a gate that takes a node
  twice, and a node that reaches no output. `Samples` is 1 and the pass is checked
  for all input orders and any initial `mTmpObs`. With at most 64 outputs a mark
  is one word, and so it is exact. `Calls` pairs each algorithm for the DSS with
  `calc_exact`; the approximations do not look at the DSS. The sequential networks
  have two gates and one input and a flip-flop, or two flip-flops that form a
  shift register, swap or share their inputs, so that a change travels through
  three frames, outside and inside the logic; `Words` gives every word nobody
  writes two values. Their gates are simple and their levels fit the queue.
- Cuts: limit at least 1, distinct fanins and topological IDs (`BdnMgr`'s
  construction), every node that is not logic is an input. The frontier stack
  does not grow (it starts with 1024 places). Lists whose order nothing observes
  are sets.
- Matching: templates of two and three inputs, goals of at most four variables
  with a support of one to four, among them symmetric ones, one that no template
  realises, one with two redundant variables and one too large. Two tables in a row
  are the smallest network where an order matters under a configuration.
  `TemplatesKeepOrders` is about the real templates with six and seven inputs;
  the larger ones add inputs that are not shared and in no list.
- Threshold: weights, thresholds and the word are multiples of a unit with exact sums (the
  code has doubles, which round), and `MinGap` is 1e-5 in that unit, rounded up. With
  `MinGap = 2`, arrays of even weights are never too close to a threshold between
  them and odd ones may be: `<<31, 30>>` with threshold 30 aborts, as 0.300001
  and 0.3 with 0.3000005 do in the code. Six weights of five values give subtrees that are found by slack as well as new ones, and the arrays of
  `Rotations` make every case of a rotation happen, with each balance of the
  grandchild.

### Fairness
A C++ call that has started runs until it returns, and nothing else runs
meanwhile: weak fairness of `Propagate` (engine), of the learners' next step
(`NSpec`), `Loop` (`check_validity`), `Work` (CalcCvf and CalcSvf), of the next
step of an enumeration (`MCEnumCut`) and of `match` (`LnMatch`). Which model a
solver returns is never fair. Clients are not required to call anything.
Deadlock is checked only for
`event_queue` and `observability`, whose clients can always call; the others may
reach their bounds or come to their end. (`check_validity` may not end if the
solver could invent models forever; it cannot, as each round excludes one of
finitely many, which `Learns` states.)

## 4. What is proved

tlapm checks these for every value of the constants; `theorems` in
`PROJECT.json` is the full list. Every invariant below was an invariant of a TLC
run before it was proved.

**The implication engine** (`ImpProofs`). Assumptions:
`CircuitsAssumption` (networks are acyclic and well formed), `BoundsAssumption`.
- *Safety*: `Invariance` (`IInv`), from it `TypeCorrectness`, `Soundness`,
  `ConstSoundness`, `RecordSoundness` and `AssertionsHold`. `Sound` alone is not
  inductive: `backtrack` makes an old prefix of the change stack the present.
  `IInv` therefore says of each open level that what backtracking to it would
  restore is sound for the literals asserted before it (`ModelsInv`), that every
  frame of the call stack carries a value the literals force, that constants and
  indirect implications hold in every assignment (`LiteralsInv`), and that
  markers are ordered. One lemma per action, over lemmas on the state tables and
  on restoring.
- *Refinement*: `EngineRefinement` (`ImplementsAbs`). Each step decides, infers,
  accepts, refuses or undoes, or changes nothing a client sees; the lemmas on
  restoring give the values of the lower levels.
- *Completeness*: `Completeness` (`Complete`): after an assert that returned true,
  and threw no conflict of an indirect implication away, no direct implication
  of any node is left. The invariant `CompInv` is about edges: each edge of the
  network whose upper end has a value has been told (`EdgeDone`), or a call on
  the stack still has to tell it. What a frame may rely on (`FrameDone`) is part
  of it, since a nested call may set the very node its caller is working on; so
  is the same statement of every level `backtrack` can return to, except those
  above a swallowed conflict, which is why `swallowed` is history. `BaseInv` says
  what is known outside every level and rests on `set_const` telling every
  fanout before it returns.

**The learners** (`ImpProofs`): `LearnInvariance`, from it `LearnedIsSound`
(`InfoSound`), `PassesAreSound` (`ConditionsSound`), `ContrapositivesGiven`
(`ContraClosed`), `NothingLeftOver` (`CleanLoop`), `ConstantsReachFanouts`
(`ConstPropagated`) and `NoAssertionFires`, for any network and any sequence of
learners. `LearnInv` adds to the engine's `IInv` and `BaseInv` where a learner
stands between two calls (`ControlInv`: the level it opened is the only one, and a
literal it makes constant is one whose assert was refused), what a pass of NaImp has still to look
at (`PassInv`), and that all implications and conditions kept hold in every
assignment (`FactsInv`). `ContraClosed` is part of it, as the passes of NaImp and
RlImp read the lists back. One hypothesis, `WithoutSat`: SatImp is not in the
sequence. It breaks the engine's precondition (finding 1), and the run
`sat_const_order` shows a constant that is wrong.

**EufMgr** (`EufMgrProofs`), with `EufAssumption`:
- `EufInvariance`, and from it `SoundClauses` and `ValidAnswers`: when all
  functions have one name (`OneName`, the condition finding 2 violates) a Valid
  answer is right for any terms, including symmetric functions and booleans, any
  values and any number of checks. The invariant says that terms are well
  formed, that each clause holds in every interpretation, and that a class only
  joins terms which are equal wherever the equalities of `eq_list` hold.
- `BookkeepingInvariance` (classes, clauses and lists are about existing terms)
  and from it `NoTwins` (`NoDuplicates`); `RoundsLearn` (`Learns`).
- `InvalidAnswers` (`InvalidIsRight`) and `ClosureIsExact` (`ClosureExact`): the
  classes at the end of the closure loop give an interpretation that satisfies
  exactly the equalities the model makes true. Here the terms must not be mixed,
  nor functions symmetric (`Unmixed`: booleans are not compared or passed as
  arguments, the condition of finding 3; and a symmetric function's arguments are
  sorted by ID but compared by position), and there must be values enough to tell
  the classes apart (`EnoughValues`: infinitely many, as for the integers the terms
  stand for). The interpretation is built class by class; that it respects the
  functions is what the last, changeless pass of the loop shows.

**EventQ, CalcCvf and CalcSvf** (`SealProofs`).
- *The queue by itself*: `QueueInvariance` (`QInv`), `SearchInBounds` (`get`
  never leaves the array nor meets the unwritten cell) and `QueueRefinement` (every
  step of the queue is a step of `PrioQ`). Assumptions: `DefaultAssumption`,
  `QueueAssumption`: finitely many nodes whose levels the array reaches. `IsQueue` has
  to know that the unwritten cell can only be the end of the last list, and that no
  queued node is below `mCurLevel`.
- *The simulators*: `CalcInvariance` (`CalcInv`), from it `SimulationsLeaveNothing`
  (`NothingLeft`) and `EventsInLevelOrder` (`LevelOrder`), for CalcCvf and CalcSvf,
  any network, any number of frames, any words in the cells nobody writes and any
  sequence of calls. Assumptions: `CvfAssumption` and `SvfAssumption` (networks are
  well formed, a batch has a word for every input) and `DefaultAssumption`; that all
  levels fit the array is part of the initial states (`LevelsFit`).
  `LevelOrder` is a statement about two states that needs much of the past: that a
  node taken from the queue was not evaluated before follows from `Past` (every node
  evaluated is strictly different from, and at no higher level than, every node
  queued), and `Past` is kept because `get` finds a lowest level (`IsQueue`, its
  lemmas `PutPreserves` and `PopPreserves` shared with the queue by itself) and
  because a node's fanouts are at higher levels (`FanoutFacts`). `NothingLeft` is not inductive during a
  simulation; `Differing` (a faulty value that differs is on `mClearArray`) and
  `Control` (what is empty at which point of the loop) are what `FfrEnd` makes it from.
- *Unrolling*: `UnrolledIsNet`, used for CalcSvf: the copies of a sequential
  network form a network with nodes after their fanins (`IsNet`), by counting the positions of
  the copies of each frame (`FrameSize`, `AtFacts`, `OriginFacts`), with flip-flops that
  may copy each other.
- *Approximations*: `ApproximationsBound` (`Approximates`). `calc_max`: a change seen at an
  output is, at every gate on the way, a change of some input that the order drawn holds
  responsible (`Responsible`, `Answering`), so a pass keeps it down to the node
  (`PassBounds`); this holds for every order, hence for the intersection of rounds, and
  whatever `mTmpObs` held. `calc_pseudo_min`: with a single path to the outputs the only way of a
  change is through the one pin, by induction from the outputs (`PassExact`).
- *Disjoint successors*: `DssInvariant` (`DssCuts`). `DssInv` says of the region in
  work that `acc` and `cur` together cut it off from the outputs, that the settled part shares
  no output with anything, and that all its members come after the root with outputs
  among those the root reaches (`Cuts`); that the regions after it, whose sets
  `DssGlobal` takes over, are done. Each algorithm replaces the overlapping nodes by what
  still cuts (`OldCuts`, `LocalCuts` with the common dominator, `GlobalCuts`).
- *Exactness*: `CvfExactness` (`CvfExact`) and `SvfExactness` (`SvfExact`). `ExactInv`: the
  regions done have their nodes' observabilities (`Known`), and during a simulation every
  bit that is asked for and not seen yet is in the middle of a sound propagation
  (`Simulating`: a gate agrees with its inputs unless it is queued or reads a target that
  changed; nothing that changed so far is visible). Three arguments carry it. Inside a region one
  pin leads on, so the gate's sensitivity decides (`SpreadRight`). A change of a root
  is seen exactly where it changes a member of its DSS that is observable
  (`ThroughTheCut`), by looking at the first output that shows it: above the
  DSS the change of the root and that of the member are the same up to that output, as
  anything else that arrives came through an earlier output. And when the queue is empty no
  change is left to be seen (`NothingMissed`), although the nodes between a target and the next
  outputs keep stale values (`Shadow`). For CalcSvf the copies' values are those of
  the sequential network run frame by frame (`RunIsCopies`), and every node of the first frame
  is in a region (`FirstFrameRoots`). The hypothesis in `SvfExact` is the one the run has:
  the words that nobody writes happen to be equal.
- `Level`, `Root`, `Spread` and the other values of a pass over the network are
  recursive functions; that they exist is one lemma, `RankRecursion`: a body that looks only at
  nodes of smaller rank determines a function.

**Cut enumeration** (`CutNetProofs`, `TopDownProofs`, `CutListProofs`).
Assumption: `NetworksAssumption` of `CutArgs`, which the three programs extend
(`IsNetwork`, limits at least 1).
- `CutNetProofs` has the lemmas: what a search meets is the least set closed
  under fanins (`MetDef`, `MetLeast`); a cut's part below a node inside it is a cut
  of that node (`FeasibleBelow`); cuts of the two fanins that have no node inside
  each other join to a cut of the node that tells them apart (`UnionIsCut`), and
  every cut but the node itself comes so (`CutIsUnion`). `Met` is a recursive
  function; that it exists is proved from paths (`SearchExists`), and facts
  about all nodes by taking the greatest or least counterexample.
- `TopDownProofs`: `SearchInvariance` (`TInv`), from it `SharedMarks` (`MarksAgree`)
  and `EveryCutOnce` (`TopDownReports`), for TopDown and for TopDown2 with any set
  of stems. `MarksAgree` is not inductive, because a return restores what an
  outer activation left. `TInv` gives each activation that waits the frontier,
  inputs and states it saw (a level), says that a level follows from the one
  below it by the step the code took (`Structure`), and so that what is restored is
  that level. `NothingLost`: a cut not told yet is one that some level still has to
  look for; `NothingTwice`: a cut told is one none will look for; `OnlyCuts`: what is
  told is a cut. The footprints are in it (`Marked`): once the activations that owe a mark
  have returned, the marks hold every node the cuts told meet, without which
  restricting the search of a fanout to the footprints of its fanins could lose a
  cut.
- `CutListProofs`, BottomUp: `CutLists` (`BInv`) and `EveryCutListed` (`BottomUpReports`).
  `BInv` says that the list of a finished node enumerates its cuts, each once;
  that the list of the node in progress enumerates the unions of the pairs gone
  through that fit; that between two cuts no mark is left, and during the inner
  loop the first marks are those of the cut it is about.
- `CutListProofs`, ZDDs: `FamiliesAreCuts` (`ZddsAgree`), from `ZInv`: the families of
  the nodes done are right and hold nodes below them only. *Bottom-up*: every union of two minimal
  cuts of the fanins contains a cut of the node and every cut contains such a
  union, and families that lie below each other have the same minimal sets
  (`SameMinimal`, `MergedIsMinimal`). *Top-down*: that the family of a walk holds
  only sets that block all paths to the inputs is not enough, as such a set may
  have members no path reaches before another one. What every expansion keeps (`Sound`)
  is more: the family holds, with each set and any further nodes to stop at, the part of
  both that a search from the node meets. A minimal set is then all met, so it is a cut
  (`SoundCuts`); this holds for any marks, so those that earlier walks left do no
  harm. `make_minimal` comes after `n_element`, which drops no smaller set. *Trees*:
  where no two paths meet again the walk expands a node after all sets that hold it
  are there (`WalkReplaces`, `DfsReplaces`), and the footprints of the fanins have
  marked every node that needs it.

**Matching** (`LnMatchProofs`): `SolveCorrect` (`SolveIsRight`): whichever models
the solvers return and whenever they give up, an order and a configuration
returned realise the function, and after "no" none does, unless a solver gave up. `MatchDecided`
(`MatchDecides`): the same of `match`, about functions with variables that do not
matter. `RoundsLearn` (`EveryRoundLearns`): each counterexample adds a pattern that
was not yet a constraint. The invariant is that no order already tried by an
enumerating solver has a realising configuration, that only patterns of the
network were added as constraints, and that every template before the current one
has been refused. Hypotheses: `MatchersUsable`, that the constraints of an engine
describe its network and that its pruned orders leave one of every match;
`MatchersShaped` and `GoalsShaped`, that a template is in the list for its number
of inputs. TLC evaluates `MatchersUsable` for the templates of the runs; it is
false for the combinations named after the findings.

**Threshold functions** (`ThBddProofs`). Assumption: `WeightsAssumption` of
`ThBddGen`: weights of either sign, the largest times their number is below
`DBL_MAX`, and so are the thresholds; the word behind the array is above `-DBL_MAX`.
`svm.cc` reads any doubles, so weights below 0 are in the model and `EveryListBalanced`
is about them too. The function is only claimed where no weight is negative
(`NonNegative`, in `GenIsThreshold`): see section 5. Weights are exact; rounding is not
part of it.
- `EveryListBalanced` (`ListsBalanced`) follows from `Types` (`TInv`), which has the
  shape of the stack and that each list is a tree with increasing intervals and right balances.
  Trees are functions from positions, so no induction over data is needed: a
  search for a new interval ends at an empty place (`PlacesThere`), and the subtrees
  on the way to it are gone through by how far they are from that place. Each
  keeps order and balances, grows by one exactly when it says so, and has the nodes it
  had and the new one (`NodeAdded`).
- `ThresholdGenerated` (`GenIsThreshold`), from `GInv`. What a node promises is not
  inductive: that its function is right for the slacks of its interval says nothing
  about two intervals that overlap. `GInv` says that every interval is the largest one
  of its function: from the largest sum of weights of a set outside the function to
  the smallest of one in it (`Exact`), where a set may count the word behind the
  array, if the call for the position that does not exist does. The interval computed from two exact
  ones is exact (`MadeExact`); two exact ones of a level that share a slack are one
  (`OneInterval`); and an activation goes on to its calls only when its list has no
  interval for its slack, to which deeper levels add nothing. So the interval it stores
  overlaps none and `add` finds a place, unless the word is below 0.
  When gen_bdd aborts, the bounds of the narrow interval are two sums of weights, one
  of them perhaps off by the word (`NarrowTooNear`). `GInv` also says that the slack at
  hand is the threshold less the weights on the path to it (`Want`, `PathSum`), so those
  sums and the path's make two sums of weights on either side of the threshold
  (`AbortClose`), and a crash is a path whose slack the word and 0 treat
  differently (`CrashMisled`), or a call with no weights, where there is nothing to read. Last, sets of indices of the array given and sets of their
  positions correspond, with the same sum (`PromisedPlaces`).

**Only model-checked.** `TemplatesKeepOrders`, which is about nineteen fixed
templates, a fact TLC evaluates in full; and all
liveness (`Returns`, `Finishes`, `Terminates`), as fairness and ENABLED are beyond the
prover.

## 5. What is not modelled
Section 1 and `components` give each part and the reason. Four fifths of the
repository's lines are generated tables, and most of the rest is drivers, command
glue, a GUI and file formats. Within modelled parts: loading a network in the imp
engine (`ImpMgr::set`, `ImpHash`), random simulation, the list of unjustified
nodes (its writer is under `#if 0`, so `RlImp` never splits a case, and the model
does not either); `CnfImp` and `CnfImp2`, whose lists are CNFdds of a package that
is not in the repository; make_node of CalcCvf and CalcSvf, and CalcSvf's
`calc_exact2`; the growth of TopDown's frontier stack; multiplexers in
`RcfNetwork`, whose class shadows `mConfSize` and never sets it.

Observed while reading, without a property:
`CutHash::put` and the table of `FuncHash` differ from the other chained tables
(one never counts, the other does not free the old array); `ImpValList`
counts constants it skipped; the recursion of TopDown clears the edge mark
of edge 0 twice; `NpnNodeMgr` computes some of its checks only in debug builds;
`PoMark`'s `check` of marks of several words answers from their ranges; the inner
nodes of a complex gate in CalcSvf have a `mTimeFrame` nobody sets, and one that is
a plain literal changes the time frame of its fanin; `SuperNode` is used nowhere;
codes of one bit in `GbmSatEngineBinary` start a loop at -1 as an unsigned number.
`ThBddGen.h:39` promises the threshold function of the array given; the variables of the BDD
are the positions of the sorted weights (the index is under `#if 0`,
`ThBddGen.cc:222`), which is the same function only if the array is sorted, so
`GenIsThreshold` states it up to that order. With a weight below 0 the tests at
lines 92 and 101, which take the sum of all weights left for the largest one, can return
a constant that is wrong; nothing says that weights must not be negative. The check
of narrow intervals stays on and stops the program for legal weights. `svm.cc` pushes
the value of the read that fails at the end of the file as one more weight.

## 6. Plan
1. `push_node`: a model of the frontier stack with a small capacity, pointers as
   (array, index) pairs: the copy loop and the positions saved by callers.
2. Symmetric functions in the closure: an instance of `EufMgr` with `SymNames`
   not empty, against `ClosureExact`.
3. `ChainTable`: find, put and doubling of the chained tables (`EufBinMgr`,
   `EufFuncMgr`, `ImpHash`, `CutHash`, `FuncHash`) refining a set.
4. `ImpMgr::set`: the network builder with its structural hash, against the
   function of the network it is given; `RwtPatGen`; the arithmetic part of
   `NpnXform`.
5. Output marks of several words as pairs of range and words, for `check`;
   `calc_exact2` and complex gates.
6. More proofs: the chained tables and the frontier stack, once they are modelled.
Related questions are merged into one run where their instances agree, so that
the whole suite stays a matter of minutes.
