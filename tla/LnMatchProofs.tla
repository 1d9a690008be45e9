--------------------------- MODULE LnMatchProofs ---------------------------
(***************************************************************************)
(* Both answers of GbmSolver::solve are right, and so are those of         *)
(* LnMatch::match, for every set of templates, functions and usable        *)
(* solvers, whichever models the SAT and BDD packages return and whenever  *)
(* they give up.                                                           *)
(***************************************************************************)
EXTENDS LnMatch, FiniteSetTheorems, WellFoundedInduction, TLAPS

\* The orders whose solvers have found no model, where none has given up.
Refused == IF gpc = "solve" THEN tried \ {order} ELSE tried
NoneRefused ==
  \A o \in Refused : \A c \in Confs(net) : FunctionOf(net, o, c) # func

\* While solve runs, and when it has answered.
Busy == gpc # "idle" \/ answer # "none"

SolveInv ==
  /\ gpc \in {"idle", "order", "solve"} /\ answer \in {"none", "match", "no", "aborted"}
  /\ Busy => Usable(solver, net, func)
  /\ gpc # "idle" => answer = "none" \/ (answer = "aborted" /\ Enumerates)
  /\ gpc = "order" => Enumerates
  /\ gpc = "solve" =>
       /\ check \subseteq Patterns(net) /\ bit_pat \in Patterns(net)
       /\ Enumerates => order \in Orders(solver, net, func)
  /\ gpc # "idle" /\ Enumerates /\ answer = "none" => NoneRefused

\* match gives solve only what the assumption is about.
MatchInv ==
  /\ matcher \in Matchers /\ goal \in Goals
  /\ lpc \in {"try", "wait"} => SupNum \in matcher.min .. matcher.max

IInv == SolveInv /\ MatchInv /\ SolveIsRight
------------------------------------------------------------------------------
\* The constraints of all known patterns hold in a model that realises the
\* function, so where there is no model nothing realises it.
LEMMA Realising ==
  ASSUME Usable(solver, net, func), Known \subseteq Patterns(net),
         NEW o \in CurOrders, o \in Orders(solver, net, func),
         NEW c \in Confs(net), FunctionOf(net, o, c) = func
  PROVE  \E m \in Candidates : IsModel(m)
<1> DEFINE m == <<o, c>>
<1>1. m \in Candidates
  BY DEF Candidates
<1>2. \A p \in Known : p \in func <=> Simulate(net, OnInputs(o, p), c)
  <2>1. func = {p \in Patterns(net) : Simulate(net, OnInputs(o, p), c)}
    BY DEF FunctionOf
  <2> QED BY <2>1
<1>3. \A p \in Known : Encoded(solver, net, o, c, p) <=> Simulate(net, OnInputs(o, p), c)
  BY DEF Usable
<1>4. IsModel(m)
  BY <1>2, <1>3 DEF IsModel, Agrees
<1> QED BY <1>1, <1>4

\* A model that agrees on the known patterns and that simulation does not refute
\* realises the function.
LEMMA Realised ==
  ASSUME Usable(solver, net, func), NEW o \in Orders(solver, net, func),
         NEW c \in Confs(net), IsModel(<<o, c>>), Wrong(<<o, c>>) = {}
  PROVE  FunctionOf(net, o, c) = func
<1>1. Iorder(solver, net, o) = o
  BY DEF Usable
<1>2. ASSUME NEW p \in Patterns(net)
      PROVE  Simulate(net, OnInputs(o, p), c) <=> p \in func
  <2>1. CASE p \in Known
    BY <2>1 DEF IsModel, Agrees, Usable
  <2>2. CASE p \notin Known
    BY <1>1, <2>2 DEF Wrong
  <2> QED BY <2>1, <2>2
<1>3. func \subseteq Patterns(net)
  BY DEF Usable
<1> QED BY <1>2, <1>3 DEF FunctionOf
------------------------------------------------------------------------------
\* The actions of solve keep the invariant, whatever called it.
LEMMA SolveStepKeeps ==
  ASSUME SolveInv, SolveIsRight, SolveStep
  PROVE  SolveInv' /\ SolveIsRight'
<1> USE DEF Busy
<1>1. ASSUME NextOrder PROVE SolveInv' /\ SolveIsRight'
  <2>1. Enumerates /\ gpc = "order" /\ gpc' = "solve" /\ answer \in {"none", "aborted"}
        /\ UNCHANGED <<solver, net, func, iorder, conf_bits, answer>>
    BY <1>1 DEF NextOrder, SolveInv
  <2>2. PICK o \in Orders(solver, net, func) \ tried : order' = o
    BY <1>1 DEF NextOrder
  <2>3. check' = {} /\ bit_pat' = {} /\ tried' = tried \cup {order'}
    BY <1>1 DEF NextOrder
  <2>4. {} \in Patterns(net)
    BY DEF Patterns
  <2>5. answer' = "none" => NoneRefused'
    BY <2>1, <2>2, <2>3 DEF SolveInv, NoneRefused, Refused
  <2>6. Usable(solver, net, func)' /\ Enumerates' /\ Orders(solver, net, func)' = Orders(solver, net, func)
    BY <2>1 DEF SolveInv, Enumerates
  <2>7. SolveInv'
    BY <2>1, <2>2, <2>3, <2>4, <2>5, <2>6 DEF SolveInv
  <2>8. SolveIsRight'
    BY <2>1 DEF SolveIsRight, MatchIsRight, NoMatchMissed
  <2> QED BY <2>7, <2>8
<1>2. ASSUME OrdersDone PROVE SolveInv' /\ SolveIsRight'
  <2>1. gpc = "order" /\ gpc' = "idle" /\ UNCHANGED <<solver, net, func>>
        /\ answer' \in {"no", "aborted"} /\ (answer' = "no" => answer = "none")
    BY <1>2 DEF OrdersDone, Return, SolveInv
  <2>2. Usable(solver, net, func) /\ (answer = "none" => NoneRefused) /\ Refused = tried
    BY <2>1 DEF SolveInv, Refused
  <2>3. Orders(solver, net, func) \subseteq tried
    BY <1>2 DEF OrdersDone
  <2>4. answer = "none" =>
          \A o \in Orders(solver, net, func), c \in Confs(net) : FunctionOf(net, o, c) # func
    BY <2>2, <2>3 DEF NoneRefused
  <2>5. answer = "none" => \A o \in Perms(net), c \in Confs(net) : FunctionOf(net, o, c) # func
    BY <2>2, <2>4 DEF Usable
  <2>6. NoMatchMissed'
    BY <2>1, <2>5 DEF NoMatchMissed
  <2>7. Usable(solver, net, func)'
    BY <2>1, <2>2
  <2> QED BY <2>1, <2>6, <2>7 DEF SolveInv, SolveIsRight, MatchIsRight
<1>3. ASSUME Matched PROVE SolveInv' /\ SolveIsRight'
  <2>1. gpc = "solve" /\ gpc' = "idle" /\ answer' = "match" /\ UNCHANGED <<solver, net, func>>
    BY <1>3 DEF Matched, Return
  <2>2. Usable(solver, net, func)
    BY <2>1 DEF SolveInv
  <2>3. PICK m \in Models : Wrong(m) = {} /\ iorder' = Iorder(solver, net, m[1]) /\ conf_bits' = m[2]
    BY <1>3 DEF Matched
  <2>4. m \in Candidates /\ IsModel(m)
    BY <2>3 DEF Models
  <2>5. PICK o \in CurOrders, c \in Confs(net) : m = <<o, c>>
    BY <2>4 DEF Candidates
  <2>6. o \in Orders(solver, net, func)
    BY <2>1, <2>5 DEF CurOrders, SolveInv
  <2>7. FunctionOf(net, o, c) = func
    BY <2>2, <2>3, <2>4, <2>5, <2>6, Realised
  <2>8. iorder' = o /\ conf_bits' = c /\ o \in Perms(net)
    BY <2>2, <2>3, <2>5, <2>6 DEF Usable
  <2>9. MatchIsRight'
    BY <2>1, <2>5, <2>7, <2>8 DEF MatchIsRight
  <2>10. Usable(solver, net, func)'
    BY <2>1, <2>2
  <2> QED BY <2>1, <2>9, <2>10 DEF SolveInv, SolveIsRight, NoMatchMissed
<1>4. ASSUME Refuted PROVE SolveInv' /\ SolveIsRight'
  <2>1. gpc = "solve" /\ (answer = "none" \/ (answer = "aborted" /\ Enumerates))
        /\ UNCHANGED <<solver, net, func, gpc, tried, order, iorder, conf_bits, answer>>
    BY <1>4 DEF Refuted, SolveInv
  <2>2. bit_pat' \in UNION {Least(w) : w \in {Wrong(m) : m \in Models}}
    BY <1>4 DEF Refuted
  <2>3. bit_pat' \in Patterns(net)
    BY <2>2 DEF Least, Wrong
  <2>4. check' \subseteq Patterns(net)
    BY <1>4, <2>1 DEF Refuted, Known, SolveInv
  <2>5. Usable(solver, net, func)' /\ Patterns(net)' = Patterns(net)
        /\ Orders(solver, net, func)' = Orders(solver, net, func) /\ Enumerates' = Enumerates
    BY <2>1 DEF SolveInv, Enumerates
  <2>6. Enumerates /\ answer' = "none" => NoneRefused'
    BY <2>1 DEF SolveInv, NoneRefused, Refused
  <2>7. SolveInv'
    BY <2>1, <2>3, <2>4, <2>5, <2>6 DEF SolveInv
  <2> QED BY <2>1, <2>7 DEF SolveIsRight, MatchIsRight, NoMatchMissed
<1>5. ASSUME NoModel PROVE SolveInv' /\ SolveIsRight'
  <2>1. gpc = "solve" /\ (answer = "none" \/ (answer = "aborted" /\ Enumerates))
        /\ UNCHANGED <<solver, net, func, iorder, conf_bits>>
    BY <1>5 DEF NoModel, SolveInv
  <2>2. Usable(solver, net, func) /\ ~\E m \in Candidates : IsModel(m)
    BY <1>5, <2>1 DEF NoModel, SolveInv
  <2>3. Known \subseteq Patterns(net)
    BY <2>1 DEF Known, SolveInv
  <2>4. \A o \in CurOrders \cap Orders(solver, net, func), c \in Confs(net) : FunctionOf(net, o, c) # func
    BY <2>2, <2>3, Realising
  <2>5. Usable(solver, net, func)' /\ Enumerates' = Enumerates
    BY <2>1, <2>2 DEF Enumerates
  <2>6. CASE Enumerates
    <3>1. gpc' = "order" /\ tried' = tried /\ answer' = answer
      BY <1>5, <2>1, <2>6 DEF NoModel
    <3>2. order \in Orders(solver, net, func) /\ CurOrders = {order}
      BY <2>1, <2>6 DEF SolveInv, CurOrders
    <3>3. answer' = "none" => NoneRefused'
      BY <2>1, <2>4, <2>6, <3>1, <3>2 DEF SolveInv, NoneRefused, Refused
    <3> QED BY <2>1, <2>5, <2>6, <3>1, <3>3 DEF SolveInv, SolveIsRight, MatchIsRight, NoMatchMissed
  <2>7. CASE ~Enumerates
    <3>1. gpc' = "idle" /\ answer' = "no"
      BY <1>5, <2>7 DEF NoModel, Return
    <3>2. CurOrders = Orders(solver, net, func)
      BY <2>7 DEF CurOrders
    <3>3. \A o \in Perms(net), c \in Confs(net) : FunctionOf(net, o, c) # func
      BY <2>2, <2>4, <3>2 DEF Usable
    <3>4. NoMatchMissed'
      BY <2>1, <3>3 DEF NoMatchMissed
    <3> QED BY <2>5, <3>1, <3>4 DEF SolveInv, SolveIsRight, MatchIsRight
  <2> QED BY <2>6, <2>7
<1>6. ASSUME Aborts PROVE SolveInv' /\ SolveIsRight'
  <2>1. gpc = "solve" /\ answer' = "aborted" /\ UNCHANGED <<solver, net, func>>
        /\ gpc' = IF Enumerates THEN "order" ELSE "idle"
    BY <1>6 DEF Aborts, Return
  <2>2. Usable(solver, net, func)' /\ Enumerates' = Enumerates
    BY <2>1 DEF SolveInv, Enumerates
  <2> QED BY <2>1, <2>2 DEF SolveInv, SolveIsRight, MatchIsRight, NoMatchMissed
<1> QED BY <1>1, <1>2, <1>3, <1>4, <1>5, <1>6 DEF SolveStep
------------------------------------------------------------------------------
\* Steps that leave the solver alone keep its part of the invariant.
LEMMA SolverUnchanged ==
  ASSUME SolveInv, SolveIsRight, UNCHANGED gbmVars
  PROVE  SolveInv' /\ SolveIsRight'
<1> USE DEF gbmVars, solveVars
<1>1. Enumerates' = Enumerates /\ Busy' = Busy
  BY DEF Enumerates, Busy
<1>2. NoneRefused' = NoneRefused
  BY DEF NoneRefused, Refused
<1> QED
  BY <1>1, <1>2 DEF SolveInv, SolveIsRight, MatchIsRight, NoMatchMissed

\* A call of solve starts with a template its solver can be used on.
LEMMA StartKeeps ==
  ASSUME IInv, MatchersUsable, TryTempl
  PROVE  IInv'
<1>1. /\ gpc' \in {"order", "solve"} /\ answer' = "none"
      /\ solver' = matcher.solver /\ net' = Templs[pos] /\ func' = Reduced(goal)
      /\ tried' = {} /\ check' = {} /\ bit_pat' = {}
      /\ gpc' = "order" <=> matcher.solver.code = "enum"
      /\ UNCHANGED <<matcher, goal, pos>> /\ lpc' = "wait" /\ pos \in DOMAIN Templs /\ lpc = "try"
  BY DEF TryTempl, Start
<1>2. Enumerates' <=> matcher.solver.code = "enum"
  BY <1>1 DEF Enumerates
<1>3. Usable(solver, net, func)'
  <2>1. SupNum \in matcher.min .. matcher.max /\ matcher \in Matchers /\ goal \in Goals
    BY <1>1 DEF IInv, MatchInv
  <2>2. Usable(matcher.solver, Templs[pos], Reduced(goal))
    BY <1>1, <2>1 DEF MatchersUsable, SupNum, Templs
  <2> QED BY <1>1, <2>2
<1>4. {} \in Patterns(net)'
  BY DEF Patterns
<1>5. NoneRefused'
  BY <1>1 DEF NoneRefused, Refused
<1>6. SolveInv'
  BY <1>1, <1>2, <1>3, <1>4, <1>5 DEF SolveInv
<1>7. SolveIsRight'
  BY <1>1 DEF SolveIsRight, MatchIsRight, NoMatchMissed
<1>8. MatchInv'
  BY <1>1 DEF IInv, MatchInv, SupNum
<1> QED BY <1>6, <1>7, <1>8 DEF IInv

LEMMA StepKeeps ==
  ASSUME IInv, MatchersUsable, [Next]_vars
  PROVE  IInv'
<1> USE DEF lnVars
<1>1. ASSUME UNCHANGED gbmVars, UNCHANGED <<matcher, goal>>,
             lpc' \in {"try", "wait"} => lpc \in {"try", "wait"} \/ SupNum \in matcher.min .. matcher.max
      PROVE  IInv'
  <2>1. SolveInv' /\ SolveIsRight'
    BY <1>1, SolverUnchanged DEF IInv
  <2>2. MatchInv'
    BY <1>1 DEF IInv, MatchInv, SupNum
  <2> QED BY <2>1, <2>2 DEF IInv
<1>2. CASE Trivial
  BY <1>1, <1>2 DEF Trivial, Finish
<1>3. CASE TooLarge
  BY <1>1, <1>3 DEF TooLarge, Finish
<1>4. CASE Begin
  BY <1>1, <1>4 DEF Begin
<1>5. CASE TryTempl
  BY <1>5, StartKeeps
<1>6. CASE Solving
  <2>1. SolveInv' /\ SolveIsRight'
    BY <1>6, SolveStepKeeps DEF Solving, IInv
  <2>2. MatchInv'
    BY <1>6 DEF Solving, IInv, MatchInv, SupNum
  <2> QED BY <2>1, <2>2 DEF IInv
<1>7. CASE Found
  BY <1>1, <1>7 DEF Found, Finish
<1>8. CASE NextTempl
  BY <1>1, <1>8 DEF NextTempl
<1>9. CASE NotFound
  BY <1>1, <1>9 DEF NotFound, Finish
<1>10. CASE UNCHANGED vars
  BY <1>1, <1>10 DEF vars
<1> QED BY <1>2, <1>3, <1>4, <1>5, <1>6, <1>7, <1>8, <1>9, <1>10 DEF Next
------------------------------------------------------------------------------
LEMMA InitHolds ==
  ASSUME LInit
  PROVE  IInv
<1>1. gpc = "idle" /\ answer = "none" /\ lpc = "idle" /\ matcher \in Matchers /\ goal \in Goals
  BY DEF LInit
<1> QED
  BY <1>1 DEF IInv, SolveInv, Busy, MatchInv, SolveIsRight, MatchIsRight, NoMatchMissed

\* GbmSolver::solve, called by match, returns only orders and configurations
\* that realise the function, and finds one whenever there is one, unless it
\* gives up: for every template and function its solver is usable on.
THEOREM SolveCorrect ==
  ASSUME MatchersUsable
  PROVE  Spec => []SolveIsRight
<1>1. LInit => IInv
  BY InitHolds
<1>2. IInv /\ [Next]_vars => IInv'
  BY StepKeeps
<1>3. IInv => SolveIsRight
  BY DEF IInv
<1> QED BY <1>1, <1>2, <1>3, PTL DEF Spec
------------------------------------------------------------------------------
(***************************************************************************)
(* The function match is given and the one it gives to solve: a function   *)
(* depends only on its support, and SupList numbers the support.           *)
(***************************************************************************)
LEMMA SupportFacts ==
  ASSUME goal.num \in Nat
  PROVE  /\ Support(goal) \subseteq Variables /\ Variables \subseteq Nat
         /\ IsFiniteSet(Variables) /\ IsFiniteSet(Support(goal)) /\ SupNum \in Nat
<1>1. Support(goal) \in SUBSET Variables /\ Variables \subseteq Nat
  BY DEF Support, Variables
<1>2. IsFiniteSet(Variables)
  BY FS_Interval DEF Variables
<1>3. IsFiniteSet(Support(goal))
  BY <1>1, <1>2, FS_Subset
<1> QED BY <1>1, <1>2, <1>3, FS_CardinalityType DEF SupNum

\* The set form of the least number principle.
LEMMA LeastOf ==
  ASSUME NEW S, S \subseteq Nat, S # {}
  PROVE  \E i \in S : \A j \in S : i <= j
<1> DEFINE Less == {q \in Nat \X Nat : q[1] < q[2]}
<1>1. IsWellFoundedOn(Less, Nat)
  BY NatLessThanWellFounded, Zenon DEF OpToRel
<1>2. PICK i \in S : \A j \in S : <<j, i>> \notin Less
  <2> HIDE DEF Less
  <2> QED BY <1>1, WFMin
<1>3. \A x, y \in Nat : <<x, y>> \notin Less => y <= x
  OBVIOUS
<1>4. \A j \in S : i <= j
  <2> HIDE DEF Less
  <2> QED BY <1>2, <1>3
<1> QED BY <1>4

\* Variables outside the support can be dropped from a pattern one by one: no
\* smallest pattern whose value that changes.
LEMMA DependsOnSupport ==
  ASSUME goal.num \in Nat, NEW p \in SUBSET Variables
  PROVE  p \in goal.true <=> p \cap Support(goal) \in goal.true
<1> DEFINE Same(q) == q \in goal.true <=> q \cap Support(goal) \in goal.true
           Bad == {q \in SUBSET Variables : ~Same(q)}
           Sizes == {Cardinality(q) : q \in Bad}
<1>1. \A q \in SUBSET Variables : IsFiniteSet(q) /\ Cardinality(q) \in Nat
  BY SupportFacts, FS_Subset, FS_CardinalityType
<1>2. SUFFICES ASSUME Bad # {} PROVE FALSE
  OBVIOUS
<1>3. PICK q \in Bad : \A r \in Bad : Cardinality(q) <= Cardinality(r)
  <2>1. Sizes \subseteq Nat /\ Sizes # {}
    BY <1>1, <1>2
  <2>2. PICK k \in Sizes : \A j \in Sizes : k <= j
    <3> HIDE DEF Sizes
    <3> QED BY <2>1, LeastOf
  <2> QED BY <2>2
<1>4. q \in SUBSET Variables /\ ~Same(q)
  BY <1>3
<1>5. PICK d \in q : d \notin Support(goal)
  <2>1. q # q \cap Support(goal)
    BY <1>4
  <2> QED BY <2>1
<1> DEFINE r == q \ {d}
<1>6. r \in SUBSET Variables /\ r \cap Support(goal) = q \cap Support(goal)
  BY <1>4, <1>5
<1>7. Cardinality(r) < Cardinality(q)
  BY <1>1, <1>4, <1>5, FS_RemoveElement
<1>8. Same(r)
  <2> SUFFICES ASSUME ~Same(r) PROVE FALSE
    OBVIOUS
  <2>1. r \in Bad
    BY <1>6
  <2> HIDE DEF Bad
  <2> QED BY <1>1, <1>3, <1>4, <1>6, <1>7, <2>1
<1>9. q \in goal.true <=> r \in goal.true
  <2>1. d \in 0 .. goal.num - 1 /\ Flip(q, d) = r
    BY <1>4, <1>5 DEF Variables, Flip
  <2> QED BY <1>4, <1>5, <2>1 DEF Support, Variables
<1> QED BY <1>4, <1>6, <1>8, <1>9

\* The number of smaller members is a numbering of a finite set from 0.
Below(S, x) == {y \in S : y < x}

LEMMA Interval ==
  ASSUME NEW n \in Nat
  PROVE  IsFiniteSet(0 .. n - 1) /\ Cardinality(0 .. n - 1) = n
<1>1. 0 \in Int /\ n - 1 \in Int
  OBVIOUS
<1>2. IsFiniteSet(0 .. n - 1) /\ Cardinality(0 .. n - 1) = IF 0 > n - 1 THEN 0 ELSE n - 1 - 0 + 1
  BY <1>1, FS_Interval
<1> QED BY <1>2

LEMMA BelowFacts ==
  ASSUME NEW S, IsFiniteSet(S), S \subseteq Nat, NEW x \in S
  PROVE  /\ IsFiniteSet(Below(S, x)) /\ Cardinality(Below(S, x)) \in 0 .. Cardinality(S) - 1
         /\ \A z \in S : x < z => Cardinality(Below(S, x)) < Cardinality(Below(S, z))
<1>1. ASSUME NEW z \in S
      PROVE  /\ IsFiniteSet(Below(S, z)) /\ Cardinality(Below(S, z)) \in Nat
             /\ Cardinality(Below(S, z)) < Cardinality(S)
  <2>1. Below(S, z) \in SUBSET S
    BY DEF Below
  <2>2. z \notin Below(S, z)
    BY DEF Below
  <2>3. IsFiniteSet(Below(S, z)) /\ Cardinality(Below(S, z)) <= Cardinality(S)
        /\ (Cardinality(S) = Cardinality(Below(S, z)) => S = Below(S, z))
    BY <2>1, FS_Subset
  <2>4. Cardinality(Below(S, z)) \in Nat /\ Cardinality(S) \in Nat
    BY <2>3, FS_CardinalityType
  <2> QED BY <2>2, <2>3, <2>4
<1>2. ASSUME NEW z \in S, x < z
      PROVE  Cardinality(Below(S, x)) < Cardinality(Below(S, z))
  <2>1. Below(S, x) \in SUBSET Below(S, z)
    <3> SUFFICES ASSUME NEW y \in S, y < x PROVE y < z
      BY DEF Below
    <3>1. x \in Nat /\ y \in Nat /\ z \in Nat
      OBVIOUS
    <3> QED BY <1>2, <3>1
  <2>2. x \in Below(S, z) /\ x \notin Below(S, x)
    BY <1>2 DEF Below
  <2>3. Cardinality(Below(S, x)) <= Cardinality(Below(S, z))
        /\ (Cardinality(Below(S, z)) = Cardinality(Below(S, x)) => Below(S, z) = Below(S, x))
    BY <1>1, <2>1, FS_Subset
  <2>4. Cardinality(Below(S, x)) \in Nat /\ Cardinality(Below(S, z)) \in Nat
    BY <1>1
  <2> QED BY <2>2, <2>3, <2>4
<1>3. Cardinality(S) \in Nat
  BY FS_CardinalityType
<1> QED BY <1>1, <1>2, <1>3

LEMMA Ranks ==
  ASSUME NEW S, IsFiniteSet(S), S \subseteq Nat, NEW k \in 0 .. Cardinality(S) - 1
  PROVE  \E x \in S : Cardinality(Below(S, x)) = k
<1> DEFINE T == 0 .. Cardinality(S) - 1
           rank == [x \in S |-> Cardinality(Below(S, x))]
<1>1. Cardinality(S) \in Nat /\ IsFiniteSet(T) /\ Cardinality(T) = Cardinality(S)
  BY FS_CardinalityType, Interval
<1>2. \A x \in S : Cardinality(Below(S, x)) \in T
  BY BelowFacts
<1>3. T \subseteq Int
  BY <1>1
<1> HIDE DEF T
<1>4. rank \in [S -> T] /\ \A x \in S : rank[x] = Cardinality(Below(S, x)) /\ rank[x] \in Int
  BY <1>2, <1>3
<1> HIDE DEF rank
<1>5. ASSUME NEW x \in S, NEW z \in S, rank[x] = rank[z] PROVE x = z
  <2>1. x < z => rank[x] < rank[z]
    BY <1>4, BelowFacts
  <2>2. z < x => rank[z] < rank[x]
    BY <1>4, BelowFacts
  <2>3. x \in Nat /\ z \in Nat
    OBVIOUS
  <2> QED BY <1>4, <1>5, <2>1, <2>2, <2>3
<1>6. rank \in Injection(S, T)
  BY <1>4, <1>5 DEF Injection, IsInjective
<1>7. rank \in Surjection(S, T)
  BY <1>1, <1>6, FS_Injection
<1>8. k \in T
  BY DEF T
<1>9. \E x \in S : rank[x] = k
  BY <1>7, <1>8 DEF Surjection
<1> QED BY <1>4, <1>9

LEMMA SupListFacts ==
  ASSUME goal.num \in Nat
  PROVE  /\ SupList(goal) \in [0 .. SupNum - 1 -> Support(goal)]
         /\ \A j, k \in 0 .. SupNum - 1 : SupList(goal)[j] = SupList(goal)[k] => j = k
         /\ \A s \in Support(goal) : \E k \in 0 .. SupNum - 1 : SupList(goal)[k] = s
<1> DEFINE S == Support(goal)
           L == SupList(goal)
           K == 0 .. SupNum - 1
<1>1. IsFiniteSet(S) /\ S \subseteq Nat /\ SupNum = Cardinality(S) /\ SupNum \in Nat
  BY SupportFacts DEF SupNum
<1>2. L = [k \in K |-> CHOOSE x \in S : Cardinality(Below(S, x)) = k]
  BY DEF SupList, Below, SupNum
<1> HIDE DEF S, L
<1>3. \A k \in K : L[k] \in S /\ Cardinality(Below(S, L[k])) = k
  <2> SUFFICES ASSUME NEW k \in K PROVE L[k] \in S /\ Cardinality(Below(S, L[k])) = k
    OBVIOUS
  <2>1. k \in 0 .. Cardinality(S) - 1
    BY <1>1
  <2>2. \E x \in S : Cardinality(Below(S, x)) = k
    BY <1>1, <2>1, Ranks
  <2>3. L[k] = CHOOSE x \in S : Cardinality(Below(S, x)) = k
    BY <1>2
  <2> QED BY <2>2, <2>3
<1>4. L \in [K -> S]
  BY <1>2, <1>3
<1>5. \A j, k \in K : L[j] = L[k] => j = k
  BY <1>3
<1>6. Cardinality(K) = Cardinality(S)
  BY <1>1, Interval
<1> HIDE DEF K
<1>7. L \in Injection(K, S)
  BY <1>4, <1>5 DEF Injection, IsInjective
<1>8. L \in Surjection(K, S)
  BY <1>1, <1>6, <1>7, FS_Injection
<1>9. \A s \in S : \E k \in K : L[k] = s
  BY <1>8 DEF Surjection
<1> QED BY <1>4, <1>5, <1>9 DEF L, S, K
------------------------------------------------------------------------------
\* The variables of the goal on the inputs of n, when o places those of Reduced.
OfGoal(n, o) == [i \in Positions(n) |-> SupList(goal)[o[i]]]
\* The variables of Reduced that are 1 in a pattern of the goal.
Renumbered(p) == {k \in 0 .. SupNum - 1 : SupList(goal)[k] \in p}

\* A pattern and its renumbering agree, on the goal and on its reduction.
LEMMA Renumbering ==
  ASSUME goal.num \in Nat, NEW p \in SUBSET Variables
  PROVE  /\ Renumbered(p) \in SUBSET (0 .. SupNum - 1)
         /\ Renumbered(p) \in Reduced(goal) <=> p \in goal.true
<1> DEFINE image == {SupList(goal)[k] : k \in Renumbered(p)}
<1>1. Renumbered(p) \in SUBSET (0 .. SupNum - 1)
  BY DEF Renumbered
<1>2. image = p \cap Support(goal)
  <2>1. \A k \in 0 .. SupNum - 1 : SupList(goal)[k] \in Support(goal)
    BY SupListFacts
  <2>2. \A s \in p \cap Support(goal) : \E k \in Renumbered(p) : SupList(goal)[k] = s
    BY SupListFacts DEF Renumbered
  <2> QED BY <2>1, <2>2 DEF Renumbered
<1>3. Renumbered(p) \in Reduced(goal) <=> image \in goal.true
  BY <1>1 DEF Reduced, SupNum
<1> QED BY <1>1, <1>2, <1>3, DependsOnSupport

\* A network that realises the reduced function realises the goal.
LEMMA ReducedRealises ==
  ASSUME goal.num \in Nat, NEW n, InputNum(n) = SupNum, NEW o \in Perms(n), NEW c \in Confs(n),
         FunctionOf(n, o, c) = Reduced(goal)
  PROVE  Realises(n, OfGoal(n, o), c)
<1> SUFFICES ASSUME NEW p \in SUBSET Variables
             PROVE  p \in goal.true <=> Simulate(n, {i \in Positions(n) : OfGoal(n, o)[i] \in p}, c)
  BY DEF Realises, Variables
<1>1. Positions(n) = 0 .. SupNum - 1 /\ o \in [Positions(n) -> Positions(n)]
  BY DEF Positions, Perms
<1>2. {i \in Positions(n) : OfGoal(n, o)[i] \in p} = OnInputs(o, Renumbered(p))
  BY <1>1 DEF OfGoal, OnInputs, Renumbered
<1>3. Renumbered(p) \in Patterns(n)
  BY <1>1, Renumbering DEF Patterns
<1>4. Simulate(n, OnInputs(o, Renumbered(p)), c) <=> Renumbered(p) \in Reduced(goal)
  <2>1. Reduced(goal) = {q \in Patterns(n) : Simulate(n, OnInputs(o, q), c)}
    BY DEF FunctionOf
  <2> QED BY <1>3, <2>1
<1> QED BY <1>2, <1>4, Renumbering

\* A network with as many inputs as the support has variables, and different
\* variables on them, depends on nothing else: its variables are the support.
LEMMA InputsAreSupport ==
  ASSUME goal.num \in Nat, NEW n, InputNum(n) = SupNum,
         NEW x \in [Positions(n) -> Variables], Distinct(x), NEW c, Realises(n, x, c)
  PROVE  \A i \in Positions(n) : x[i] \in Support(goal)
<1> DEFINE used == {x[i] : i \in Positions(n)}
<1>1. Positions(n) = 0 .. SupNum - 1 /\ SupNum \in Nat
  BY SupportFacts DEF Positions
<1>2. IsFiniteSet(Positions(n)) /\ Cardinality(Positions(n)) = SupNum
  BY <1>1, Interval
<1>3. Support(goal) \subseteq used
  <2> SUFFICES ASSUME NEW d \in Support(goal), d \notin used PROVE FALSE
    OBVIOUS
  <2>1. PICK p \in SUBSET Variables : (p \in goal.true) # (Flip(p, d) \in goal.true)
    BY DEF Support, Variables
  <2>2. Flip(p, d) \in SUBSET Variables
    BY <2>1, SupportFacts DEF Flip
  <2>3. {i \in Positions(n) : x[i] \in p} = {i \in Positions(n) : x[i] \in Flip(p, d)}
    BY DEF Flip
  <2>4. p \in goal.true <=> Flip(p, d) \in goal.true
    BY <2>1, <2>2, <2>3 DEF Realises, Variables
  <2> QED BY <2>1, <2>4
<1>4. x \in Surjection(Positions(n), used)
  <2> HIDE DEF used
  <2>1. used = {x[i] : i \in Positions(n)}
    BY DEF used
  <2> QED BY <2>1 DEF Surjection
<1>5. IsFiniteSet(used) /\ Cardinality(used) <= SupNum
  BY <1>2, <1>4, FS_Surjection
<1>6. Cardinality(Support(goal)) <= Cardinality(used)
      /\ (Cardinality(used) = Cardinality(Support(goal)) => used = Support(goal))
  BY <1>3, <1>5, FS_Subset
<1>7. Cardinality(used) \in Nat /\ SupNum = Cardinality(Support(goal))
  BY <1>5, FS_CardinalityType DEF SupNum
<1>8. used = Support(goal)
  <2> HIDE DEF used
  <2> QED BY <1>1, <1>5, <1>6, <1>7
<1> QED BY <1>8

\* What realises the goal places the variables of the reduced function.
LEMMA TemplateFound ==
  ASSUME goal.num \in Nat, NEW n, InputNum(n) = SupNum,
         NEW x \in [Positions(n) -> Variables], Distinct(x), NEW c \in Confs(n), Realises(n, x, c)
  PROVE  \E o \in Perms(n) : FunctionOf(n, o, c) = Reduced(goal)
<1> DEFINE o == [i \in Positions(n) |-> CHOOSE k \in 0 .. SupNum - 1 : SupList(goal)[k] = x[i]]
<1>1. Positions(n) = 0 .. SupNum - 1
  BY DEF Positions
<1>2. \A i \in Positions(n) : o[i] \in Positions(n) /\ SupList(goal)[o[i]] = x[i]
  <2> SUFFICES ASSUME NEW i \in Positions(n)
               PROVE  o[i] \in Positions(n) /\ SupList(goal)[o[i]] = x[i]
    OBVIOUS
  <2>1. \E k \in 0 .. SupNum - 1 : SupList(goal)[k] = x[i]
    BY InputsAreSupport, SupListFacts
  <2> QED BY <1>1, <2>1
<1>3. o \in [Positions(n) -> Positions(n)]
  BY <1>2
<1> HIDE DEF o
<1>4. o \in Perms(n)
  <2>1. ASSUME NEW i \in Positions(n), NEW j \in Positions(n), o[i] = o[j] PROVE i = j
    BY <1>2, <2>1 DEF Distinct
  <2> QED BY <1>3, <2>1 DEF Perms
<1>5. \A q \in Patterns(n) : Simulate(n, OnInputs(o, q), c) <=> q \in Reduced(goal)
  <2> SUFFICES ASSUME NEW q \in Patterns(n)
               PROVE  Simulate(n, OnInputs(o, q), c) <=> q \in Reduced(goal)
    OBVIOUS
  <2> DEFINE p == {SupList(goal)[k] : k \in q}
  <2>1. q \in SUBSET (0 .. SupNum - 1)
    BY <1>1 DEF Patterns
  <2>2. p \in SUBSET Variables
    BY <2>1, SupListFacts, SupportFacts
  <2>3. q \in Reduced(goal) <=> p \in goal.true
    BY <2>1 DEF Reduced, SupNum
  <2>4. {i \in Positions(n) : x[i] \in p} = OnInputs(o, q)
    <3>1. \A i \in Positions(n) : x[i] \in p <=> o[i] \in q
      BY <1>1, <1>2, <2>1, SupListFacts
    <3> QED BY <1>3, <3>1 DEF OnInputs
  <2> HIDE DEF p
  <2>5. p \in goal.true <=> Simulate(n, {i \in Positions(n) : x[i] \in p}, c)
    BY <2>2 DEF Realises, Variables
  <2> QED BY <2>3, <2>4, <2>5
<1>6. Reduced(goal) \subseteq Patterns(n)
  BY <1>1 DEF Reduced, Patterns, SupNum
<1> QED BY <1>4, <1>5, <1>6 DEF FunctionOf
------------------------------------------------------------------------------
\* No order and configuration of the k-th template realise the reduced function.
Unmatched(k) ==
  \A o \in Perms(Templs[k]), c \in Confs(Templs[k]) : FunctionOf(Templs[k], o, c) # Reduced(goal)

\* What match knows while it goes through the list: the templates before pos
\* do not match, and solve is at work on the one at pos.
TriedInv ==
  /\ result # "none" => lpc = "done"
  /\ lpc \in {"try", "wait"} =>
       /\ pos \in Nat \ {0}
       /\ ~gaveUp => \A k \in DOMAIN Templs : k < pos => Unmatched(k)
  /\ lpc = "wait" => pos \in DOMAIN Templs /\ net = Templs[pos] /\ func = Reduced(goal)

MInv == IInv /\ TriedInv /\ MatchDecides

\* The templates in the list that is gone through have the right inputs.
LEMMA TemplatesFit ==
  ASSUME MatchersShaped, GoalsShaped, MatchInv, SupNum \in matcher.min .. matcher.max
  PROVE  /\ goal.num \in Nat
         /\ DOMAIN Templs = 1 .. Len(Templs) /\ Len(Templs) \in Nat
         /\ \A k \in DOMAIN Templs : InputNum(Templs[k]) = SupNum
BY DEF MatchersShaped, GoalsShaped, MatchInv, Templs

\* Where no template matches the reduced function none realises the goal.
LEMMA NoneRealises ==
  ASSUME MatchersShaped, GoalsShaped, MatchInv, SupNum \in matcher.min .. matcher.max,
         \A k \in DOMAIN Templs : Unmatched(k)
  PROVE  ~SomeTemplate
<1> SUFFICES ASSUME NEW k \in DOMAIN Templs,
                    NEW x \in [Positions(Templs[k]) -> Variables], NEW c \in Confs(Templs[k]),
                    Distinct(x), Realises(Templs[k], x, c)
             PROVE  FALSE
  BY DEF SomeTemplate
<1>1. goal.num \in Nat /\ InputNum(Templs[k]) = SupNum
  BY TemplatesFit
<1>2. \E o \in Perms(Templs[k]) : FunctionOf(Templs[k], o, c) = Reduced(goal)
  BY <1>1, TemplateFound
<1> QED BY <1>2 DEF Unmatched

\* match answers only where it returns.
LEMMA NoAnswer ==
  ASSUME TriedInv, result' = result, lpc # "done"
  PROVE  MatchDecides'
BY DEF TriedInv, MatchDecides

LEMMA MatchKeeps ==
  ASSUME MInv, MatchersUsable, MatchersShaped, GoalsShaped, [Next]_vars
  PROVE  MInv'
<1> USE DEF lnVars
<1>1. IInv'
  BY StepKeeps DEF MInv
<1>2. IInv /\ TriedInv /\ MatchDecides /\ MatchInv /\ MatchInv'
  BY <1>1 DEF MInv, IInv
<1>3. ASSUME UNCHANGED <<matcher, goal>>
      PROVE  /\ SupNum' = SupNum /\ Templs' = Templs /\ Reduced(goal)' = Reduced(goal)
             /\ \A k \in DOMAIN Templs : Unmatched(k)' <=> Unmatched(k)
  <2>1. SupNum' = SupNum /\ Templs' = Templs /\ Reduced(goal)' = Reduced(goal)
    BY <1>3 DEF SupNum, Templs
  <2> QED BY <2>1 DEF Unmatched
<1>4. CASE Trivial
  <2>1. lpc = "idle" /\ lpc' = "done" /\ result' = "trivial" /\ SupNum < matcher.min
        /\ UNCHANGED <<matcher, goal>>
    BY <1>4 DEF Trivial, Finish
  <2>2. TriedInv'
    BY <2>1 DEF TriedInv
  <2>3. MatchDecides'
    BY <2>1 DEF MatchDecides, SupNum
  <2> QED BY <1>1, <2>2, <2>3 DEF MInv
<1>5. CASE TooLarge
  <2>1. lpc' = "done" /\ result' = "no" /\ SupNum > matcher.max /\ UNCHANGED <<matcher, goal>>
    BY <1>5 DEF TooLarge, Finish
  <2>2. TriedInv'
    BY <2>1 DEF TriedInv
  <2>3. ~(SupNum <= matcher.max)
    <3>1. SupNum \in Nat /\ matcher.max \in Nat
      BY <1>2, SupportFacts DEF MatchInv, MatchersShaped, GoalsShaped
    <3> QED BY <2>1, <3>1
  <2>4. MatchDecides'
    BY <1>3, <2>1, <2>3 DEF MatchDecides
  <2> QED BY <1>1, <2>2, <2>4 DEF MInv
<1>6. CASE Begin
  <2>1. lpc = "idle" /\ lpc' = "try" /\ pos' = 1 /\ SupNum \in matcher.min .. matcher.max
        /\ UNCHANGED <<matcher, goal, result>>
    BY <1>6 DEF Begin
  <2>2. DOMAIN Templs' = 1 .. Len(Templs)
    BY <1>2, <1>3, <2>1, TemplatesFit
  <2>3. TriedInv'
    BY <1>2, <2>1, <2>2 DEF TriedInv
  <2>4. MatchDecides'
    BY <1>2, <2>1, NoAnswer
  <2> QED BY <1>1, <2>3, <2>4 DEF MInv
<1>7. CASE TryTempl
  <2>1. lpc = "try" /\ lpc' = "wait" /\ pos \in DOMAIN Templs /\ net' = Templs[pos]
        /\ func' = Reduced(goal) /\ UNCHANGED <<matcher, goal, pos, gaveUp, result>>
    BY <1>7 DEF TryTempl, Start
  <2>2. TriedInv'
    BY <1>2, <1>3, <2>1 DEF TriedInv
  <2>3. MatchDecides'
    BY <1>2, <2>1, NoAnswer
  <2> QED BY <1>1, <2>2, <2>3 DEF MInv
<1>8. CASE Solving
  <2>1. lpc = "wait" /\ UNCHANGED <<matcher, goal, lpc, pos, gaveUp, result, net, func>>
    BY <1>8 DEF Solving, SolveStep, NextOrder, OrdersDone, Matched, Refuted, NoModel, Aborts
  <2>2. TriedInv'
    BY <1>2, <1>3, <2>1 DEF TriedInv
  <2>3. MatchDecides'
    BY <1>2, <2>1, NoAnswer
  <2> QED BY <1>1, <2>2, <2>3 DEF MInv
<1>9. CASE Found
  <2>1. lpc = "wait" /\ lpc' = "done" /\ result' = "yes" /\ answer = "match"
        /\ UNCHANGED <<matcher, goal, pos, net, iorder, conf_bits>>
    BY <1>9 DEF Found, Finish, gbmVars, solveVars
  <2>2. TriedInv'
    BY <2>1 DEF TriedInv
  <2>3. net = Templs[pos] /\ func = Reduced(goal) /\ pos \in DOMAIN Templs
        /\ SupNum \in matcher.min .. matcher.max
    BY <1>2, <2>1 DEF TriedInv, MatchInv
  <2>4. goal.num \in Nat /\ InputNum(net) = SupNum
    BY <1>2, <2>3, TemplatesFit
  <2>5. iorder \in Perms(net) /\ conf_bits \in Confs(net) /\ FunctionOf(net, iorder, conf_bits) = func
    BY <1>2, <2>1 DEF IInv, SolveIsRight, MatchIsRight
  <2>6. Realises(net, OfGoal(net, iorder), conf_bits)
    BY <2>3, <2>4, <2>5, ReducedRealises
  <2>7. MatchDecides'
    BY <1>3, <2>1, <2>3, <2>6 DEF MatchDecides, OfGoal, Realises
  <2> QED BY <1>1, <2>2, <2>7 DEF MInv
<1>10. CASE NextTempl
  <2>1. lpc = "wait" /\ lpc' = "try" /\ pos' = pos + 1 /\ answer \in {"no", "aborted"}
        /\ gaveUp' = (gaveUp \/ answer = "aborted") /\ UNCHANGED <<matcher, goal, result>>
    BY <1>10 DEF NextTempl
  <2>2. pos \in Nat \ {0} /\ pos \in DOMAIN Templs /\ net = Templs[pos] /\ func = Reduced(goal)
        /\ SupNum \in matcher.min .. matcher.max
        /\ (~gaveUp => \A k \in DOMAIN Templs : k < pos => Unmatched(k))
    BY <1>2, <2>1 DEF TriedInv, MatchInv
  <2>3. ~gaveUp' => Unmatched(pos)
    BY <1>2, <2>1, <2>2 DEF IInv, SolveIsRight, NoMatchMissed, Unmatched
  <2>4. \A k \in DOMAIN Templs : k < pos + 1 => k < pos \/ k = pos
    <3>1. DOMAIN Templs \subseteq Nat
      BY <1>2, <2>2, TemplatesFit
    <3> QED BY <2>2, <3>1
  <2>5. ~gaveUp' => \A k \in DOMAIN Templs : k < pos + 1 => Unmatched(k)
    BY <2>1, <2>2, <2>3, <2>4
  <2>6. TriedInv'
    BY <1>2, <1>3, <2>1, <2>2, <2>5 DEF TriedInv
  <2>7. MatchDecides'
    BY <1>2, <2>1, NoAnswer
  <2> QED BY <1>1, <2>6, <2>7 DEF MInv
<1>11. CASE NotFound
  <2>1. lpc = "try" /\ lpc' = "done" /\ result' = "no" /\ pos \notin DOMAIN Templs
        /\ UNCHANGED <<matcher, goal, pos, gaveUp>>
    BY <1>11 DEF NotFound, Finish
  <2>2. TriedInv'
    BY <2>1 DEF TriedInv
  <2>3. pos \in Nat \ {0} /\ SupNum \in matcher.min .. matcher.max
        /\ (~gaveUp => \A k \in DOMAIN Templs : k < pos => Unmatched(k))
    BY <1>2, <2>1 DEF TriedInv, MatchInv
  <2>4. \A k \in DOMAIN Templs : k < pos
    <3>1. DOMAIN Templs = 1 .. Len(Templs) /\ Len(Templs) \in Nat
      BY <1>2, <2>3, TemplatesFit
    <3> QED BY <2>1, <2>3, <3>1
  <2>5. ~gaveUp => ~SomeTemplate
    BY <1>2, <2>3, <2>4, NoneRealises
  <2>6. SomeTemplate' <=> SomeTemplate
    BY <1>3, <2>1 DEF SomeTemplate, Variables, Realises
  <2>7. MatchDecides'
    BY <2>1, <2>5, <2>6 DEF MatchDecides
  <2> QED BY <1>1, <2>2, <2>7 DEF MInv
<1>12. CASE UNCHANGED vars
  <2>1. UNCHANGED <<matcher, goal, lpc, pos, gaveUp, result, net, func, iorder, conf_bits>>
    BY <1>12 DEF vars, gbmVars, solveVars
  <2>2. TriedInv'
    BY <1>2, <1>3, <2>1 DEF TriedInv
  <2>3. SomeTemplate' <=> SomeTemplate
    BY <1>3, <2>1 DEF SomeTemplate, Variables, Realises
  <2>4. MatchDecides'
    BY <1>2, <1>3, <2>1, <2>3 DEF MatchDecides, Realises
  <2> QED BY <1>1, <2>2, <2>4 DEF MInv
<1> QED
  BY <1>4, <1>5, <1>6, <1>7, <1>8, <1>9, <1>10, <1>11, <1>12 DEF Next

\* LnMatch::match is right about the function it is given, the variables that do
\* not matter included: yes comes with a template, an order of the function's
\* variables and a configuration that realise it, no means that no template can,
\* unless a solver gave up. For every set of functions, and of templates with the
\* inputs of their list and a usable solver.
THEOREM MatchDecided ==
  ASSUME MatchersUsable, MatchersShaped, GoalsShaped
  PROVE  Spec => []MatchDecides
<1>1. LInit => MInv
  <2> SUFFICES ASSUME LInit PROVE MInv
    OBVIOUS
  <2>1. gpc = "idle" /\ answer = "none" /\ lpc = "idle" /\ result = "none"
        /\ matcher \in Matchers /\ goal \in Goals
    BY DEF LInit
  <2>2. IInv
    BY InitHolds
  <2>3. TriedInv /\ MatchDecides
    BY <2>1 DEF TriedInv, MatchDecides
  <2> QED BY <2>2, <2>3 DEF MInv
<1>2. MInv /\ [Next]_vars => MInv'
  BY MatchKeeps
<1>3. MInv => MatchDecides
  BY DEF MInv
<1> QED BY <1>1, <1>2, <1>3, PTL DEF Spec
------------------------------------------------------------------------------
\* Where simulation refutes a model, what the solver is told about the pattern
\* excludes the model.
LEMMA RefutedLearns ==
  ASSUME SolveInv, Refuted
  PROVE  bit_pat' \notin check' /\ \E m \in Candidates : IsModel(m) /\ ~Agrees(m, bit_pat')
<1>1. gpc = "solve" /\ check' = Known /\ Usable(solver, net, func)
  BY DEF Refuted, SolveInv, Busy
<1>2. PICK m \in Models : bit_pat' \in Least(Wrong(m))
  BY DEF Refuted
<1>3. m \in Candidates /\ IsModel(m)
  BY <1>2 DEF Models
<1>4. PICK o \in CurOrders, c \in Confs(net) : m = <<o, c>>
  BY <1>3 DEF Candidates
<1>5. o \in Orders(solver, net, func)
  BY <1>1, <1>4 DEF CurOrders, SolveInv
<1>6. Iorder(solver, net, o) = o
  BY <1>1, <1>5 DEF Usable
<1>7. bit_pat' \in Patterns(net) \ Known /\ ~(Simulate(net, OnInputs(o, bit_pat'), c) <=> bit_pat' \in func)
  BY <1>2, <1>4, <1>6 DEF Least, Wrong
<1>8. Encoded(solver, net, o, c, bit_pat') <=> Simulate(net, OnInputs(o, bit_pat'), c)
  BY <1>1, <1>4, <1>5, <1>7 DEF Usable
<1>9. ~Agrees(m, bit_pat')
  BY <1>4, <1>7, <1>8 DEF Agrees
<1> QED BY <1>1, <1>3, <1>7, <1>9

LEMMA StepLearns ==
  ASSUME SolveInv, [Next]_vars
  PROVE  [gpc = "solve" /\ gpc' = "solve" =>
            /\ bit_pat' \notin check'
            /\ \E m \in Candidates : IsModel(m) /\ ~Agrees(m, bit_pat')]_gbmVars
<1> SUFFICES ASSUME gpc = "solve", gpc' = "solve", ~UNCHANGED gbmVars PROVE Refuted
  BY RefutedLearns
<1>1. Next
  BY DEF vars
<1>2. Solving
  BY <1>1 DEF Next, Trivial, TooLarge, Begin, TryTempl, Start, Found, NextTempl, NotFound
<1> QED BY <1>2 DEF Solving, SolveStep, NextOrder, OrdersDone, Matched, NoModel, Aborts, Return

\* Every round of the counterexample loop adds a pattern whose constraints the
\* solver did not have, and they exclude a model it could return: the loop
\* cannot go round in circles, for every template and usable solver.
THEOREM RoundsLearn ==
  ASSUME MatchersUsable
  PROVE  Spec => EveryRoundLearns
<1>1. LInit => IInv
  BY InitHolds
<1>2. IInv /\ [Next]_vars => IInv'
  BY StepKeeps
<1>3. IInv /\ [Next]_vars =>
        [gpc = "solve" /\ gpc' = "solve" =>
            /\ bit_pat' \notin check'
            /\ \E m \in Candidates : IsModel(m) /\ ~Agrees(m, bit_pat')]_gbmVars
  BY StepLearns DEF IInv
<1> QED BY <1>1, <1>2, <1>3, PTL DEF Spec, EveryRoundLearns
=============================================================================
