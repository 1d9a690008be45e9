------------------------------ MODULE EufMgr ------------------------------
(***************************************************************************)
(* EufMgr of programs/llvmeq: hash-consed terms of the logic of equality   *)
(* with uninterpreted functions and check_validity, which refines a SAT    *)
(* abstraction with clauses learned from the congruence closure.           *)
(***************************************************************************)
EXTENDS Integers, Sequences, FiniteSets

CONSTANTS
  VarNames,     \* names of the plain variables
  BVarNames,    \* names of the boolean variables
  FuncNames,    \* names of the functions
  SymNames,     \* the functions created with sflag = true
  Arities,      \* numbers of arguments a function is applied to
  Mixed,        \* "beq": equalities between booleans are built; "barg":
                \* functions are applied to booleans
  Values,       \* values of the terms in an interpretation
  Most,         \* bounds: the number of terms of each operator
  MaxAssume,    \* bound on the number of assumptions of one check
  MinTerms      \* bound: a check is made when mLastId has reached this

Bit == {0, 1}      \* false and true
Operators == {"var", "bvar", "func", "eq", "con", "dis", "neg"}

ASSUME EufAssumption ==
  /\ Bit \subseteq Values
  /\ SymNames \subseteq FuncNames
  /\ Arities \subseteq Nat
  /\ Most \in [Operators -> Nat]

VARIABLES
  terms,      \* the term with ID i - 1 is terms[i]; mLastId is Len(terms)
  mEqList,    \* the equalities, in the order of creation
  mFuncList,  \* the function applications, in the order of creation
  clauses,    \* the clauses of mSolver
  pc,         \* where check_validity is
  assumption, \* the literals it solves under
  model,      \* the last model of mSolver, by term
  mfset,      \* mfset: the representative of every term
  answer      \* "none", "valid", "aborted", "invalid"

build == <<terms, mEqList, mFuncList>>
vars  == <<terms, mEqList, mFuncList, clauses, pc, assumption, model, mfset, answer>>

Ids == DOMAIN terms
Term(op, name, args) == [op |-> op, name |-> name, args |-> args]

\* is_boolean() and arg_num(), arg(k), left(), right()
IsBool(t) == t.op \in {"bvar", "eq", "con", "dis", "neg"}
Bools == {i \in Ids : IsBool(terms[i])}

\* Every boolean term has a variable of mSolver of its own, named here by the
\* term. The literal <<i, b>> says that term i has the value b.
Lit(i, b) == <<i, b>>
Not(l)    == <<l[1], 1 - l[2]>>
Lits      == Bools \X Bit

\* Mutant: the operands keep the order they are given in.
NormalNot(l, r) == <<l, r>>

\* Operands are put in the order of their IDs.
Normal(l, r) == IF l > r THEN <<r, l>> ELSE <<l, r>>

\* The argument list of a symmetric function, sorted by ID.
Arrange(f, args) ==
  IF f \in SymNames /\ Len(args) = 2 THEN Normal(args[1], args[2]) ELSE args

Init ==
  /\ terms = <<>> /\ mEqList = <<>> /\ mFuncList = <<>>
  /\ clauses = {}
  /\ pc = "idle" /\ assumption = {} /\ model = <<>> /\ mfset = <<>>
  /\ answer = "none"
------------------------------------------------------------------------------
(***************************************************************************)
(* Construction. A call that finds the term returns it and changes nothing *)
(***************************************************************************)
Known(t) == \E i \in Ids : terms[i] = t

\* What every constructor does with a term t it does not find: it gets the
\* next ID, and its clauses go to mSolver.
Put(t, cs) ==
  /\ pc = "idle" /\ ~Known(t)
  /\ Cardinality({i \in Ids : terms[i].op = t.op}) < Most[t.op]
  /\ terms' = Append(terms, t)
  /\ clauses' = clauses \cup cs
  /\ answer' = "none" /\ assumption' = {}
  /\ UNCHANGED <<pc, model, mfset>>

New == Len(terms) + 1

NewVariable(x) ==
  /\ Put(Term("var", x, <<>>), {})
  /\ UNCHANGED <<mEqList, mFuncList>>

NewBVariable(x) ==
  /\ Put(Term("bvar", x, <<>>), {})
  /\ UNCHANGED <<mEqList, mFuncList>>

NewFunction(f, args) ==
  /\ Put(Term("func", f, Arrange(f, args)), {})
  /\ mFuncList' = Append(mFuncList, New)
  /\ UNCHANGED mEqList

\* ASSERT_COND( left->is_boolean() == right->is_boolean() ) is a precondition.
NewEquality(l, r) ==
  /\ IF l \in Bools THEN r \in Bools /\ "beq" \in Mixed ELSE r \notin Bools
  /\ Put(Term("eq", "-", Normal(l, r)), {})
  /\ mEqList' = Append(mEqList, New)
  /\ UNCHANGED mFuncList

ConClauses(o, l, r) ==
  {{Lit(l, 0), Lit(r, 0), Lit(o, 1)}, {Lit(l, 1), Lit(o, 0)}, {Lit(r, 1), Lit(o, 0)}}

NewConjunction(l, r) ==
  /\ Put(Term("con", "-", Normal(l, r)), ConClauses(New, Normal(l, r)[1], Normal(l, r)[2]))
  /\ UNCHANGED <<mEqList, mFuncList>>

\* Mutant: the clause of the right operand repeats the left one.
DisClausesLeft(o, l, r) ==
  {{Lit(l, 1), Lit(r, 1), Lit(o, 0)}, {Lit(l, 0), Lit(o, 1)}, {Lit(l, 0), Lit(o, 1)}}

DisClauses(o, l, r) ==
  {{Lit(l, 1), Lit(r, 1), Lit(o, 0)}, {Lit(l, 0), Lit(o, 1)}, {Lit(r, 0), Lit(o, 1)}}

NewDisjunction(l, r) ==
  /\ Put(Term("dis", "-", Normal(l, r)), DisClauses(New, Normal(l, r)[1], Normal(l, r)[2]))
  /\ UNCHANGED <<mEqList, mFuncList>>

NegClauses(o, a) == {{Lit(a, 1), Lit(o, 1)}, {Lit(a, 0), Lit(o, 0)}}

NewNegation(a) ==
  /\ Put(Term("neg", "-", <<a, a>>), NegClauses(New, a))
  /\ UNCHANGED <<mEqList, mFuncList>>
------------------------------------------------------------------------------
(***************************************************************************)
(* check_validity                                                          *)
(***************************************************************************)
\* mSolver: an assignment of its variables that satisfies every clause and
\* every assumption (SatSolver is a library; any such model may come back).
Sat(m) == /\ \A c \in clauses : \E l \in c : m[l[1]] = l[2]
          /\ \A l \in assumption : m[l[1]] = l[2]

\* The function called with node_assumption = as and node = g.
CheckValidity(as, g) ==
  /\ pc = "idle"
  /\ assumption' = {Lit(a, 1) : a \in as} \cup {Lit(g, 0)}
  /\ pc' = "solve" /\ answer' = "none"
  /\ UNCHANGED <<build, clauses, model, mfset>>

\* Ends the call.
Return(a) ==
  /\ answer' = a /\ pc' = "idle" /\ model' = <<>> /\ mfset' = <<>>

\* kB3False
SolveFalse ==
  /\ pc = "solve" /\ ~\E m \in [Bools -> Bit] : Sat(m)
  /\ Return("valid")
  /\ UNCHANGED <<build, clauses, assumption>>

\* kB3X
SolveAbort ==
  /\ pc = "solve" /\ Return("aborted")
  /\ UNCHANGED <<build, clauses, assumption>>

\* kB3True
SolveTrue ==
  /\ pc = "solve"
  /\ \E m \in [Bools -> Bit] : Sat(m) /\ model' = m
  /\ mfset' = [i \in Ids |-> i]
  /\ pc' = "merge"
  /\ UNCHANGED <<build, clauses, assumption, answer>>

EqIds   == {mEqList[k] : k \in DOMAIN mEqList}
FuncIds == {mFuncList[k] : k \in DOMAIN mFuncList}
EqList  == {e \in EqIds : model[e] = 1}       \* eq_list
NeqList == {e \in EqIds : model[e] = 0}       \* neq_list
Left(e)  == terms[e].args[1]
Right(e) == terms[e].args[2]

Same(i, j) == mfset[i] = mfset[j]

\* MFSet::merge: the classes of i and j become one.
Merge(i, j) ==
  mfset' = [k \in Ids |-> IF mfset[k] = mfset[j] THEN mfset[i] ELSE mfset[k]]

\* One round of the loop over eq_list.
MergeEq(e) ==
  /\ pc = "merge" /\ e \in EqList /\ ~Same(Left(e), Right(e))
  /\ \A d \in EqList : d < e => Same(Left(d), Right(d))
  /\ Merge(Left(e), Right(e))
  /\ UNCHANGED <<build, clauses, pc, assumption, model, answer>>

EndMerge ==
  /\ pc = "merge" /\ \A e \in EqList : Same(Left(e), Right(e))
  /\ pc' = "closure"
  /\ UNCHANGED <<build, clauses, assumption, model, mfset, answer>>

\* Mutant: arguments are compared by identity, not by class.
CongruentById(i, j) == terms[i].args = terms[j].args

\* Two applications the closure loop merges: as many arguments, equal in pairs.
\* The names of the functions are not compared.
Congruent(i, j) ==
  /\ Len(terms[i].args) = Len(terms[j].args)
  /\ \A k \in DOMAIN terms[i].args : Same(terms[i].args[k], terms[j].args[k])

\* One merge of the fixpoint loop. Pairs are taken in any order; the loop
\* scans the list again until a scan merges nothing.
Mergeable(a, b) ==
  /\ a < b /\ ~Same(mFuncList[a], mFuncList[b])
  /\ Congruent(mFuncList[a], mFuncList[b])

MergeFunc(a, b) ==
  /\ pc = "closure" /\ Mergeable(a, b)
  /\ Merge(mFuncList[a], mFuncList[b])
  /\ UNCHANGED <<build, clauses, pc, assumption, model, answer>>

EndClosure ==
  /\ pc = "closure"
  /\ \A a, b \in DOMAIN mFuncList : ~Mergeable(a, b)
  /\ pc' = "conflict"
  /\ UNCHANGED <<build, clauses, assumption, model, mfset, answer>>

\* The false equalities whose sides are in one class, and the clause added for
\* one of them.
Conflicts == {e \in NeqList : Same(Left(e), Right(e))}

\* Mutant: the clause leaves out the equalities it was derived from.
LemmaBare(e) == {Lit(e, 1)}

\* Mutant: the refuted equality enters the clause with the wrong sign.
LemmaNeg(e) == {Lit(q, 0) : q \in EqList} \cup {Lit(e, 0)}

\* The clause: not all of eq_list, or e.
Lemma(e) == {Lit(q, 0) : q \in EqList} \cup {Lit(e, 1)}

Refine ==
  /\ pc = "conflict" /\ Conflicts # {}
  /\ clauses' = clauses \cup {Lemma(e) : e \in Conflicts}
  /\ pc' = "solve" /\ model' = <<>> /\ mfset' = <<>>
  /\ UNCHANGED <<build, assumption, answer>>

NoConflict ==
  /\ pc = "conflict" /\ Conflicts = {}
  /\ Return("invalid")
  /\ UNCHANGED <<build, clauses, assumption>>
------------------------------------------------------------------------------
Args     == IF "barg" \in Mixed THEN Ids ELSE Ids \ Bools
ArgLists == UNION {[1 .. n -> Args] : n \in Arities}

Construct ==
  \/ \E x \in VarNames : NewVariable(x)
  \/ \E x \in BVarNames : NewBVariable(x)
  \/ \E f \in FuncNames, args \in ArgLists : NewFunction(f, args)
  \/ \E l, r \in Ids : NewEquality(l, r)
  \/ \E l, r \in Bools : NewConjunction(l, r)
  \/ \E l, r \in Bools : NewDisjunction(l, r)
  \/ \E a \in Bools : NewNegation(a)

Call ==
  \E as \in SUBSET Bools, g \in Bools :
    Len(terms) >= MinTerms /\ Cardinality(as) <= MaxAssume /\ CheckValidity(as, g)

Loop ==
  \/ SolveFalse \/ SolveAbort \/ SolveTrue
  \/ \E e \in EqIds : MergeEq(e)
  \/ EndMerge
  \/ \E a, b \in DOMAIN mFuncList : MergeFunc(a, b)
  \/ EndClosure \/ Refine \/ NoConflict

Next == Construct \/ Call \/ Loop

\* A started call runs until it returns.
Spec == Init /\ [][Next]_vars /\ WF_vars(Loop)
------------------------------------------------------------------------------
(***************************************************************************)
(* What the terms mean: an interpretation gives every term a value, the    *)
(* operators their meaning, and a function equal values on equal arguments *)
(***************************************************************************)
SameArgs(v, s, t) ==
  /\ Len(s.args) = Len(t.args)
  /\ \/ \A k \in DOMAIN s.args : v[s.args[k]] = v[t.args[k]]
     \/ /\ s.name \in SymNames /\ Len(s.args) = 2
        /\ v[s.args[1]] = v[t.args[2]] /\ v[s.args[2]] = v[t.args[1]]

Meaning(ts, v, i) ==
  LET t == ts[i]
      x == v[t.args[1]]
      y == v[t.args[2]]
  IN  /\ t.op = "bvar" => v[i] \in Bit
      /\ t.op = "func" =>
           \A j \in DOMAIN ts :
             ts[j].op = "func" /\ ts[j].name = t.name /\ SameArgs(v, t, ts[j]) => v[i] = v[j]
      /\ t.op = "eq"  => v[i] = IF x = y THEN 1 ELSE 0
      /\ t.op = "con" => v[i] = IF x = 1 /\ y = 1 THEN 1 ELSE 0
      /\ t.op = "dis" => v[i] = IF x = 1 \/ y = 1 THEN 1 ELSE 0
      /\ t.op = "neg" => v[i] = IF x = 1 THEN 0 ELSE 1

Interprets(v) == \A i \in Ids : Meaning(terms, v, i)
Interps == {v \in [Ids -> Values] : Interprets(v)}

True(v, l) == v[l[1]] = l[2]

\* The types of the state; the two lists hold exactly the terms of their kind.
TypeOK ==
  /\ terms \in Seq([op : Operators,
                    name : VarNames \cup BVarNames \cup FuncNames \cup {"-"},
                    args : Seq(Nat \ {0})])
  /\ \A i \in Ids : \A k \in DOMAIN terms[i].args : terms[i].args[k] \in 1 .. i - 1
  /\ mEqList \in Seq(Ids) /\ EqIds = {i \in Ids : terms[i].op = "eq"}
  /\ mFuncList \in Seq(Ids) /\ FuncIds = {i \in Ids : terms[i].op = "func"}
  /\ \A c \in clauses : c \subseteq Lits
  /\ pc \in {"idle", "solve", "merge", "closure", "conflict"}
  /\ assumption \subseteq Lits
  /\ pc \in {"merge", "closure", "conflict"} =>
       model \in [Bools -> Bit] /\ mfset \in [Ids -> Ids]
  /\ answer \in {"none", "valid", "aborted", "invalid"}

\* Every clause handed to the solver, those check_validity learns included,
\* holds in every interpretation of the terms: no check can spoil a later one.
ClausesSound ==
  pc = "solve" => \A v \in Interps : \A c \in clauses : \E l \in c : True(v, l)

\* "Valid" is right: no interpretation satisfies the assumptions and refutes
\* the node.
ValidIsRight ==
  answer = "valid" => ~\E v \in Interps : \A l \in assumption : True(v, l)

\* "Invalid" is right: some interpretation does.
InvalidIsRight ==
  answer = "invalid" => \E v \in Interps : \A l \in assumption : True(v, l)

\* The classes the loop ends with are the congruence closure of eq_list: two
\* terms are in one class exactly when every interpretation that makes the
\* equalities of eq_list true gives them one value.
ClosureExact ==
  pc = "conflict" =>
    LET V == {v \in Interps : \A e \in EqList : v[e] = 1}
    IN  \A i, j \in Ids \ Bools : Same(i, j) <=> \A v \in V : v[i] = v[j]

\* The state has its types, and two terms never stand for the same application:
\* operators take their operands in either order, symmetric functions too.
Unordered(t) == t.op \in {"eq", "con", "dis"} \/ (t.op = "func" /\ t.name \in SymNames)
NoDuplicates ==
  /\ TypeOK
  /\ \A i, j \in Ids :
       /\ terms[i].op = terms[j].op /\ terms[i].name = terms[j].name
       /\ \/ terms[i].args = terms[j].args
          \/ /\ Unordered(terms[i]) /\ Len(terms[i].args) = 2 /\ Len(terms[j].args) = 2
             /\ terms[i].args = <<Right(j), Left(j)>>
       => i = j

\* A model once refuted never comes back: each round of the loop learns.
Learns == [][Refine => ~\A c \in clauses' : \E l \in c : model[l[1]] = l[2]]_vars

\* check_validity returns.
Terminates == pc = "solve" ~> pc = "idle"
=============================================================================
