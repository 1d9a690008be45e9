-------------------------------- MODULE Gbm --------------------------------
(***************************************************************************)
(* GbmSolver of programs/enumcut/libgbm: is there an order of the variables*)
(* of a function, and a configuration of a network, with which the network *)
(* realises the function? Nine solvers answer it, by SAT or BDD, with the  *)
(* patterns all at once or one counterexample after the other (CEGAR), and *)
(* with the order encoded one-hot, in binary, or enumerated. The SAT and   *)
(* BDD packages are external: they return any solution of what was added.  *)
(***************************************************************************)
EXTENDS RcfNet, FiniteSetsExt, TLC

CONSTANT Solvers   \* the solvers in use

Names ==
  {[core |-> c, how |-> h, code |-> e] :
     c \in {"sat"}, h \in {"naive", "cegar"}, e \in {"onehot", "binary", "enum"}}
  \cup {[core |-> "bdd", how |-> "cegar", code |-> e] : e \in {"onehot", "binary", "enum"}}

ASSUME SolversAssumption == Solvers \subseteq Names

VARIABLES
  solver, net, func,      \* the arguments of solve; func is a set of patterns
  gpc,                    \* "idle", "order", "solve"
  tried,                  \* enumeration: the orders done
  order,                  \* enumeration: the current order
  check,                  \* the patterns whose constraints have been added
  bit_pat,                \* the pattern to add next
  iorder, conf_bits,      \* the results
  answer                  \* "none", "match", "no", "aborted"; also "aborted" in an
                          \* enumeration that gave up on an order

solveVars == <<gpc, tried, order, check, bit_pat, iorder, conf_bits, answer>>
gbmVars   == <<solver, net, func, solveVars>>
------------------------------------------------------------------------------
(***************************************************************************)
(* Symmetries. rep[i] is the nearest smaller variable i can be exchanged   *)
(* with, or i.                                                             *)
(***************************************************************************)
Swap(p, i, j) ==
  {IF k = i THEN j ELSE IF k = j THEN i ELSE k : k \in p}
CheckSym(n, f, i, j) == \A p \in Patterns(n) : p \in f <=> Swap(p, i, j) \in f

Rep(n, f, i) ==
  LET sym == {j \in 0 .. i - 1 : CheckSym(n, f, i, j)}
  IN  IF sym = {} THEN i ELSE Max(sym)

\* Every variable on one input.
Perms(n) == {o \in [Positions(n) -> Positions(n)] :
               \A i, j \in Positions(n) : o[i] = o[j] => i = j}

\* Interchangeable inputs get their variables in ascending order.
PredRule(n, o) ==
  \A i \in Positions(n) : HasPred(n, i) => o[Pred(n, i)] <= o[i]

\* Interchangeable variables get their inputs in ascending order.
RepRule(n, f, o) ==
  \A i \in Positions(n) :
    LET r == Rep(n, f, o[i]) IN r # o[i] => \E k \in 0 .. i - 1 : o[k] = r

\* The binary encodings: bits per input, the bits of a code, and the rule above
\* expanded for one bit at a time only.
Width(n) == CHOOSE w \in 0 .. InputNum(n) :
              2 ^ w >= InputNum(n) /\ \A v \in 0 .. w - 1 : 2 ^ v < InputNum(n)
Bits(x, w) == {l \in 0 .. w - 1 : (x \div (2 ^ l)) % 2 = 1}
RepRuleByBit(n, f, o) ==
  \A i \in Positions(n) :
    LET r == Rep(n, f, o[i])
    IN  r # o[i] =>
          \A l \in 0 .. Width(n) - 1 : \E k \in 0 .. i - 1 :
            l \in Bits(o[k], Width(n)) <=> l \in Bits(r, Width(n))
------------------------------------------------------------------------------
(***************************************************************************)
(* What init_vars of each engine leaves of the orders.                     *)
(***************************************************************************)
\* That two inputs have different codes is asserted with the last bit but one
\* already chained: it is left out where a code has one bit.
SatBinaryOrders(n, f) ==
  {o \in IF Width(n) = 1 THEN [Positions(n) -> Positions(n)] ELSE Perms(n) :
     /\ \A i \in Positions(n) : HasPred(n, i) => o[Pred(n, i)] < o[i]
     /\ RepRuleByBit(n, f, o)}

\* The variable of each level is compared with the predecessor of the input of
\* the same number.
BddOneHotOrders(n) ==
  {o \in Perms(n) :
     \A i \in Positions(n) :
       HasPred(n, o[i]) => \E k \in 0 .. i - 1 : o[k] = Pred(n, o[i])}

\* For an enumeration, the permutations that are not skipped.
Orders(s, n, f) ==
  CASE s.core = "bdd" /\ s.code = "onehot" -> BddOneHotOrders(n)
    [] s.core = "bdd" /\ s.code = "binary" -> Perms(n)
    [] s.core = "sat" /\ s.code = "binary" -> SatBinaryOrders(n, f)
    [] OTHER -> {o \in Perms(n) : PredRule(n, o) /\ RepRule(n, f, o)}

\* get_iorder. The codes of the BDD engine have their most significant bit
\* first and are read with the least significant bit first.
Reversed(x, w) == Num({w - 1 - l : l \in Bits(x, w)}, w)
Iorder(s, n, o) ==
  IF s.core = "bdd" /\ s.code = "binary"
  THEN [i \in Positions(n) |-> Reversed(o[i], Width(n))]
  ELSE o

\* The function the constraints of all patterns would describe. make_AND gives
\* the output variable of a gate with a constant 0 input the positive literal;
\* constants are on the inputs when the order is enumerated.
ConstZero(n, ins, h) ==
  /\ n.nodes[h.id].type = "input"
  /\ ~((n.nodes[h.id].pos \in ins) # h.inv)
CnfValue(n, ins, conf) ==
  LET val[i \in DOMAIN n.nodes] ==
        LET node == n.nodes[i]
        IN  CASE node.type = "input" -> node.pos \in ins
              [] node.type = "lut"   -> LutVal(val, node, conf)
              [] node.type = "and"   ->
                   \/ AndVal(val, node)
                   \/ /\ i # n.output.id
                      /\ \E k \in DOMAIN node.fanin : ConstZero(n, ins, node.fanin[k])
  IN  HandleVal(val, n.output)

\* The value the constraints of an engine give a pattern.
Encoded(s, n, o, conf, p) ==
  IF s.core = "sat" /\ s.code = "enum"
  THEN CnfValue(n, OnInputs(o, p), conf)
  ELSE Simulate(n, OnInputs(o, p), conf)
------------------------------------------------------------------------------
(***************************************************************************)
(* solve and _solve.                                                       *)
(***************************************************************************)
Enumerates == solver.code = "enum"

Start(s, n, f) ==
  /\ gpc = "idle"
  /\ solver' = s /\ net' = n /\ func' = f
  /\ tried' = {} /\ order' = <<>> /\ check' = {} /\ bit_pat' = {}
  /\ gpc' = IF s.code = "enum" THEN "order" ELSE "solve"
  /\ answer' = "none"
  /\ UNCHANGED <<iorder, conf_bits>>

\* The next permutation that is not skipped, with a solver of its own. PermGen
\* gives every permutation once, in an order that does not matter here.
NextOrder ==
  LET left == Orders(solver, net, func) \ tried
  IN  /\ gpc = "order" /\ left # {}
      /\ order' = CHOOSE o \in left : TRUE
      /\ tried' = tried \cup {order'}
      /\ check' = {} /\ bit_pat' = {}
      /\ gpc' = "solve"
      /\ UNCHANGED <<solver, net, func, iorder, conf_bits, answer>>

\* The solver of a call, or of an order, goes with it.
Forget == check' = {} /\ bit_pat' = {} /\ order' = <<>>
Return(a) == gpc' = "idle" /\ answer' = a /\ tried' = {} /\ Forget

\* False, whether all orders were refused or the solver gave up on some.
OrdersDone ==
  /\ gpc = "order" /\ Orders(solver, net, func) \subseteq tried
  /\ Return(IF answer = "aborted" THEN "aborted" ELSE "no")
  /\ UNCHANGED <<solver, net, func, iorder, conf_bits>>

\* The patterns whose constraints are in the solver when it is asked.
Known == IF solver.how = "naive" THEN Patterns(net) ELSE check \cup {bit_pat}

\* The orders and configurations that satisfy them.
CurOrders == IF Enumerates THEN {order} ELSE Orders(solver, net, func)
Candidates == CurOrders \X Confs(net)
Agrees(m, p) == Encoded(solver, net, m[1], m[2], p) <=> p \in func
IsModel(m)   == \A p \in Known : Agrees(m, p)
Models       == {m \in Candidates : IsModel(m)}

\* Mutant: the network is simulated with the variables in their own order.
WrongUnordered(m) ==
  {p \in Patterns(net) \ Known : ~(Simulate(net, p, m[2]) <=> p \in func)}

\* What the model gives on the patterns that are not checked yet.
Wrong(m) ==
  LET o == Iorder(solver, net, m[1])
  IN  {p \in Patterns(net) \ Known : ~(Simulate(net, OnInputs(o, p), m[2]) <=> p \in func)}

Least(pats) == {p \in pats : \A q \in pats : Num(p, InputNum(net)) <= Num(q, InputNum(net))}

\* A model that agrees everywhere: the naive solvers do not look.
Matched ==
  /\ gpc = "solve"
  /\ \E m \in Models :
       /\ Wrong(m) = {}
       /\ iorder' = Iorder(solver, net, m[1]) /\ conf_bits' = m[2]
  /\ Return("match")
  /\ UNCHANGED <<solver, net, func>>

\* Mutant: only the last two counterexamples are kept.
RefutedForgets ==
  /\ gpc = "solve"
  /\ bit_pat' \in UNION {Least(w) : w \in {Wrong(m) : m \in Models}}
  /\ check' = {bit_pat}
  /\ UNCHANGED <<solver, net, func, gpc, tried, order, iorder, conf_bits, answer>>

\* A model that a pattern refutes: the pattern is added in the next round.
Refuted ==
  /\ gpc = "solve"
  /\ bit_pat' \in UNION {Least(w) : w \in {Wrong(m) : m \in Models}}
  /\ check' = Known
  /\ UNCHANGED <<solver, net, func, gpc, tried, order, iorder, conf_bits, answer>>

\* Mutant: no model for one order is taken for no match.
NoModelStops ==
  /\ gpc = "solve" /\ ~\E m \in Candidates : IsModel(m)
  /\ Return("no")
  /\ UNCHANGED <<solver, net, func, iorder, conf_bits>>

\* No model: the next order, if they are enumerated, or no match.
NoModel ==
  /\ gpc = "solve" /\ ~\E m \in Candidates : IsModel(m)
  /\ IF Enumerates THEN gpc' = "order" /\ Forget /\ UNCHANGED <<tried, answer>> ELSE Return("no")
  /\ UNCHANGED <<solver, net, func, iorder, conf_bits>>

\* The solver gives up, in any round: kB3X, which all SAT solvers look for and
\* some set a limit of conflicts for, or an invalid BDD, which the enumeration
\* with BDDs asserts away. An enumeration gives up on the current order only.
Aborts ==
  /\ gpc = "solve" /\ (Enumerates => solver.core = "sat")
  /\ IF Enumerates
     THEN gpc' = "order" /\ answer' = "aborted" /\ Forget /\ UNCHANGED tried
     ELSE Return("aborted")
  /\ UNCHANGED <<solver, net, func, iorder, conf_bits>>

SolveStep == NextOrder \/ OrdersDone \/ Matched \/ Refuted \/ NoModel \/ Aborts
------------------------------------------------------------------------------
(***************************************************************************)
(* Properties.                                                             *)
(***************************************************************************)
\* The order and the configuration solve returns realise the function: what
\* GbmSolver::verify asserts, and it does so only when asked to.
MatchIsRight ==
  answer = "match" =>
    /\ iorder \in Perms(net) /\ conf_bits \in Confs(net)
    /\ FunctionOf(net, iorder, conf_bits) = func

\* When solve finds no match there is none: no symmetry rule, encoding, order
\* of the rounds or wrong counterexample has lost the last one.
NoMatchMissed ==
  answer = "no" =>
    \A o \in Perms(net), c \in Confs(net) : FunctionOf(net, o, c) # func

\* What both answers rest on: the constraints say what simulation says, and the
\* orders that are left are permutations, read back as they are, that include
\* one that realises the function if any does.
Usable(s, n, f) ==
  /\ f \subseteq Patterns(n)
  /\ Orders(s, n, f) \subseteq Perms(n)
  /\ \A o \in Orders(s, n, f) :
       /\ Iorder(s, n, o) = o
       /\ \A c \in Confs(n), p \in Patterns(n) :
            Encoded(s, n, o, c, p) <=> Simulate(n, OnInputs(o, p), c)
  /\ (\E o \in Perms(n), c \in Confs(n) : FunctionOf(n, o, c) = f)
       => \E o \in Orders(s, n, f), c \in Confs(n) : FunctionOf(n, o, c) = f

\* Both answers of solve are right.
SolveIsRight == MatchIsRight /\ NoMatchMissed

\* A counterexample is new, and the constraints it adds exclude a model that the
\* solver could have returned: every round of the loop gains something.
EveryRoundLearns ==
  [][gpc = "solve" /\ gpc' = "solve" =>
       /\ bit_pat' \notin check'
       /\ \E m \in Candidates : IsModel(m) /\ ~Agrees(m, bit_pat')]_gbmVars
=============================================================================
