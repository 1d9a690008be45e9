------------------------------ MODULE LnMatch ------------------------------
(***************************************************************************)
(* LnMatch of programs/enumcut/recordcut: can a function be realised by one*)
(* of a set of network templates? It removes the variables the function    *)
(* does not depend on and gives the rest to GbmSolver::solve, template by  *)
(* template.                                                               *)
(***************************************************************************)
EXTENDS Gbm

CONSTANTS
  Matchers,   \* [solver, min, max, templs]; templs[n] is the list for n inputs
  Goals       \* the functions to match: [num, true], the true patterns

VARIABLES
  matcher, goal,   \* the arguments of match
  lpc,             \* "idle", "try", "wait"
  pos,             \* the template being tried
  gaveUp,          \* history: a call of solve was aborted
  result           \* "none", "trivial", "yes", "no"

lnVars == <<matcher, goal, lpc, pos, gaveUp, result>>
vars   == <<gbmVars, lnVars>>
------------------------------------------------------------------------------
\* TvFunc::check_sup: the function depends on the variable i.
Flip(p, i)   == IF i \in p THEN p \ {i} ELSE p \cup {i}
Support(g)   == {i \in 0 .. g.num - 1 :
                   \E p \in SUBSET (0 .. g.num - 1) : (p \in g.true) # (Flip(p, i) \in g.true)}

\* sup_list, and the function of the variables in it.
SupList(g) ==
  LET sup == Support(g)
  IN  [k \in 0 .. Cardinality(sup) - 1 |->
         CHOOSE x \in sup : Cardinality({y \in sup : y < x}) = k]

\* Mutant: the variables of the reduced function are numbered as before.
ReducedInPlace(g) ==
  {q \in SUBSET (0 .. Cardinality(Support(g)) - 1) : q \in g.true}

Reduced(g) ==
  {q \in SUBSET (0 .. Cardinality(Support(g)) - 1) : {SupList(g)[k] : k \in q} \in g.true}

SupNum  == Cardinality(Support(goal))
Templs  == matcher.templs[SupNum]

\* Every solver can be used on the templates it is given.
MatchersUsable ==
  \A m \in Matchers, g \in Goals :
    LET k == Cardinality(Support(g))
    IN  k \in m.min .. m.max =>
          \A i \in DOMAIN m.templs[k] : Usable(m.solver, m.templs[k][i], Reduced(g))

\* set_template puts a template in the list for its number of inputs.
MatchersShaped ==
  \A m \in Matchers :
    /\ m.min \in Nat /\ m.max \in Nat
    /\ \A k \in m.min .. m.max :
         /\ DOMAIN m.templs[k] = 1 .. Len(m.templs[k]) /\ Len(m.templs[k]) \in Nat
         /\ \A i \in DOMAIN m.templs[k] : InputNum(m.templs[k][i]) = k
GoalsShaped == \A g \in Goals : g.num \in Nat
------------------------------------------------------------------------------
LInit ==
  /\ solver = CHOOSE s \in Solvers : TRUE
  /\ net = EmptyNet /\ func = {}
  /\ gpc = "idle" /\ tried = {} /\ order = <<>> /\ check = {} /\ bit_pat = {}
  /\ iorder = <<>> /\ conf_bits = {} /\ answer = "none"
  /\ matcher \in Matchers /\ goal \in Goals
  /\ lpc = "idle" /\ pos = 0 /\ gaveUp = FALSE /\ result = "none"

Finish(r) == lpc' = "done" /\ result' = r

\* Too few inputs left for a template to be needed, or too many for any.
Trivial ==
  /\ lpc = "idle" /\ SupNum < matcher.min
  /\ Finish("trivial")
  /\ UNCHANGED <<gbmVars, matcher, goal, pos, gaveUp>>

TooLarge ==
  /\ lpc = "idle" /\ SupNum > matcher.max
  /\ Finish("no")
  /\ UNCHANGED <<gbmVars, matcher, goal, pos, gaveUp>>

Begin ==
  /\ lpc = "idle" /\ SupNum \in matcher.min .. matcher.max
  /\ lpc' = "try" /\ pos' = 1
  /\ UNCHANGED <<gbmVars, matcher, goal, gaveUp, result>>

TryTempl ==
  /\ lpc = "try" /\ pos \in DOMAIN Templs
  /\ Start(matcher.solver, Templs[pos], Reduced(goal))
  /\ lpc' = "wait"
  /\ UNCHANGED <<matcher, goal, pos, gaveUp, result>>

Solving == lpc = "wait" /\ SolveStep /\ UNCHANGED lnVars

Found ==
  /\ lpc = "wait" /\ gpc = "idle" /\ answer = "match"
  /\ Finish("yes")
  /\ UNCHANGED <<gbmVars, matcher, goal, pos, gaveUp>>

\* solve returned false, which it also does when it gave up.
NextTempl ==
  /\ lpc = "wait" /\ gpc = "idle" /\ answer \in {"no", "aborted"}
  /\ lpc' = "try" /\ pos' = pos + 1
  /\ gaveUp' = (gaveUp \/ answer = "aborted")
  /\ UNCHANGED <<gbmVars, matcher, goal, result>>

NotFound ==
  /\ lpc = "try" /\ pos \notin DOMAIN Templs
  /\ Finish("no")
  /\ UNCHANGED <<gbmVars, matcher, goal, pos, gaveUp>>

Next == Trivial \/ TooLarge \/ Begin \/ TryTempl \/ Solving \/ Found \/ NextTempl \/ NotFound

\* match is a C++ call that runs until it returns.
Spec == LInit /\ [][Next]_vars /\ WF_vars(Next)
------------------------------------------------------------------------------
(***************************************************************************)
(* Properties.                                                             *)
(***************************************************************************)
\* The network n with variable x[i] of the goal on input i and the
\* configuration c is the goal, as a function of all its variables.
Realises(n, x, c) ==
  \A p \in SUBSET (0 .. goal.num - 1) :
    p \in goal.true <=> Simulate(n, {i \in Positions(n) : x[i] \in p}, c)

Variables == 0 .. goal.num - 1
Distinct(x) == \A i, j \in DOMAIN x : x[i] = x[j] => i = j
SomeTemplate ==
  \E k \in DOMAIN Templs :
    \E x \in [Positions(Templs[k]) -> Variables], c \in Confs(Templs[k]) :
      Distinct(x) /\ Realises(Templs[k], x, c)

\* match answers yes only with a template, an order of variables of the given
\* function and a configuration that realise it, unused variables included, and
\* no only when no template can, unless a solver gave up.
MatchDecides ==
  /\ result = "yes" =>
       Realises(Templs[pos], [i \in Positions(net) |-> SupList(goal)[iorder[i]]], conf_bits)
  /\ result = "no" /\ SupNum <= matcher.max /\ ~gaveUp => ~SomeTemplate
  /\ result = "trivial" => Cardinality(Support(goal)) < matcher.min

\* match returns, whichever models the solvers find.
Returns == <>(lpc = "done")
=============================================================================
