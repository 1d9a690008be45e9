--------------------------- MODULE EufMgrProofs ---------------------------
(***************************************************************************)
(* For every set of names, bound and domain of values: the clauses EufMgr  *)
(* gives to the solver are sound, and when all functions have one name     *)
(* "Valid" is a right answer. No term is built twice, each round of        *)
(* check_validity learns, and, where terms are not mixed and no function   *)
(* is symmetric, the congruence closure is exact and "Invalid" is a right  *)
(* answer.                                                                 *)
(***************************************************************************)
EXTENDS EufMgr, WellFoundedInduction, TLAPS

\* The closure compares no names: this is what keeps it sound.
OneName == \A f, g \in FuncNames : f = g

Names == VarNames \cup BVarNames \cup FuncNames \cup {"-"}
TermSet == [op : Operators, name : Names, args : Seq(Nat \ {0})]

\* A term has smaller terms as arguments, of the kinds its operator takes.
WellFormed(ts, i) ==
  LET t == ts[i]
  IN  /\ \A k \in DOMAIN t.args : t.args[k] \in 1 .. i - 1
      /\ t.op = "func" => t.name \in FuncNames
      /\ t.op \in {"eq", "con", "dis", "neg"} => Len(t.args) = 2
      /\ t.op \in {"con", "dis", "neg"} => \A k \in {1, 2} : IsBool(ts[t.args[k]])
      /\ t.op = "neg" => t.args[1] = t.args[2]

TermsInv == /\ terms \in Seq(TermSet)
            /\ \A i \in Ids : WellFormed(terms, i)
            /\ mEqList \in Seq(Nat) /\ mFuncList \in Seq(Nat)
            /\ \A e \in EqIds : e \in Ids /\ terms[e].op = "eq"
            /\ \A g \in FuncIds : g \in Ids /\ terms[g].op = "func"

\* The clauses a gate gives to the solver.
GateClauses(ts, i) ==
  LET x == ts[i].args[1]
      y == ts[i].args[2]
  IN  CASE ts[i].op = "con" -> ConClauses(i, x, y)
        [] ts[i].op = "dis" -> DisClauses(i, x, y)
        [] ts[i].op = "neg" -> NegClauses(i, x)
        [] OTHER -> {}

\* A term that takes no boolean as a value of the plain sort.
Plain(ts, i) ==
  ts[i].op \in {"eq", "func"} => \A k \in DOMAIN ts[i].args : ~IsBool(ts[ts[i].args[k]])

ClauseSet(cs) == \A c \in cs : c \subseteq Lits
Hold(cs)      == \A v \in Interps : \A c \in cs : \E l \in c : True(v, l)

\* What the classes say holds wherever the equalities of eq_list do.
Loop3 == pc \in {"merge", "closure", "conflict"}
LoopInv ==
  Loop3 => /\ model \in [Bools -> Bit] /\ mfset \in [Ids -> Ids]
           /\ \A v \in Interps : (\A e \in EqList : v[e] = 1) =>
                \A i, j \in Ids : Same(i, j) => v[i] = v[j]

CallInv ==
  /\ pc \in {"idle", "solve", "merge", "closure", "conflict"}
  /\ assumption \subseteq Lits
  /\ answer # "none" => pc = "idle"

\* The inductive invariant.
EInv == TermsInv /\ ClauseSet(clauses) /\ Hold(clauses) /\ LoopInv /\ CallInv /\ ValidIsRight

------------------------------------------------------------------------------
\* A boolean term has a boolean value in every interpretation.
LEMMA BoolValue ==
  ASSUME TermsInv, NEW v \in Interps, NEW b \in Bools
  PROVE  v[b] \in Bit
BY DEF TermsInv, Interps, Interprets, Meaning, Bools, IsBool, Bit, Ids

\* An interpretation of more terms is one of the terms before.
LEMMA Restriction ==
  ASSUME TermsInv, NEW t \in TermSet, terms' = Append(terms, t),
         NEW v \in [Ids' -> Values], Interprets(v)'
  PROVE  [i \in Ids |-> v[i]] \in Interps
<1> DEFINE w == [i \in Ids |-> v[i]]
<1>1. /\ Ids = 1 .. Len(terms) /\ Ids' = 1 .. Len(terms) + 1 /\ Len(terms) \in Nat
      /\ \A i \in Ids : terms'[i] = terms[i] /\ terms[i] \in TermSet
  BY DEF TermsInv, Ids
<1>2. w \in [Ids -> Values]
  BY <1>1
<1>3. ASSUME NEW i \in Ids PROVE Meaning(terms, w, i)
  <2>1. /\ i \in Ids' /\ Meaning(terms', v, i) /\ terms'[i] = terms[i]
        /\ w[i] = v[i] /\ WellFormed(terms, i) /\ terms[i] \in TermSet
    BY <1>1 DEF Interprets, TermsInv
  <2>2. \A k \in DOMAIN terms[i].args : terms[i].args[k] \in Ids /\ w[terms[i].args[k]] = v[terms[i].args[k]]
    BY <1>1, <2>1 DEF WellFormed
  <2>3. terms[i].op = "func" => \A j \in Ids :
           terms[j].op = "func" /\ terms[j].name = terms[i].name /\ SameArgs(w, terms[i], terms[j])
             => w[i] = w[j]
    <3> SUFFICES ASSUME terms[i].op = "func", NEW j \in Ids, terms[j].op = "func",
                        terms[j].name = terms[i].name, SameArgs(w, terms[i], terms[j])
                 PROVE  w[i] = w[j]
      OBVIOUS
    <3>1. j \in Ids' /\ terms'[j] = terms[j] /\ w[j] = v[j] /\ terms[j] \in TermSet
      BY <1>1
    <3>2. \A k \in DOMAIN terms[j].args : terms[j].args[k] \in Ids /\ w[terms[j].args[k]] = v[terms[j].args[k]]
      BY <1>1, <3>1 DEF WellFormed, TermsInv
    <3>3. SameArgs(v, terms'[i], terms'[j])
      <4> HIDE DEF w
      <4>1. Len(terms[i].args) = Len(terms[j].args) /\ DOMAIN terms[i].args = DOMAIN terms[j].args
        BY <2>1, <3>1 DEF SameArgs, TermSet
      <4>2. Len(terms[i].args) = 2 => DOMAIN terms[i].args = {1, 2}
        BY <2>1 DEF TermSet
      <4> QED BY <2>1, <2>2, <3>1, <3>2, <4>1, <4>2 DEF SameArgs
    <3> QED BY <2>1, <3>1, <3>3 DEF Meaning, Ids
  <2>4. terms[i].op \in {"eq", "con", "dis", "neg"} =>
          w[terms[i].args[1]] = v[terms[i].args[1]] /\ w[terms[i].args[2]] = v[terms[i].args[2]]
    <3>1. terms[i].op \in {"eq", "con", "dis", "neg"} => DOMAIN terms[i].args = {1, 2}
      BY <2>1 DEF WellFormed, TermSet
    <3> QED BY <2>2, <3>1
  <2> HIDE DEF w
  <2> QED BY <2>1, <2>3, <2>4 DEF Meaning, Ids
<1> QED BY <1>2, <1>3 DEF Interps, Interprets

\* A model of the solver can be read off every interpretation.
LEMMA ModelOf ==
  ASSUME TermsInv, NEW v \in Interps
  PROVE  [b \in Bools |-> v[b]] \in [Bools -> Bit]
BY BoolValue

\* Clauses that hold before a term is created hold after it: they mention only
\* the terms of before.
LEMMA OldClauses ==
  ASSUME TermsInv, ClauseSet(clauses), Hold(clauses),
         NEW t \in TermSet, terms' = Append(terms, t),
         NEW v \in Interps', NEW c \in clauses
  PROVE  \E l \in c : True(v, l)
<1>1. [i \in Ids |-> v[i]] \in Interps
  BY Restriction DEF Interps
<1>2. PICK l \in c : True([i \in Ids |-> v[i]], l)
  BY <1>1 DEF Hold
<1>3. l[1] \in Ids
  BY DEF ClauseSet, Lits, Bools
<1> QED BY <1>2, <1>3 DEF True

\* The new term and those before it.
LEMMA Appended ==
  ASSUME TermsInv, NEW t \in TermSet, terms' = Append(terms, t)
  PROVE  /\ Ids = 1 .. Len(terms) /\ Ids' = Ids \cup {New} /\ New \notin Ids /\ New \in Nat
         /\ terms' \in Seq(TermSet) /\ terms'[New] = t
         /\ \A i \in Ids : terms'[i] = terms[i] /\ i < New
         /\ Bools \subseteq Bools' /\ Lits \subseteq Lits'
<1>1. /\ Ids = 1 .. Len(terms) /\ Ids' = Ids \cup {New} /\ New \notin Ids /\ New \in Nat
      /\ terms' \in Seq(TermSet) /\ terms'[New] = t
      /\ \A i \in Ids : terms'[i] = terms[i] /\ i < New
  BY DEF TermsInv, Ids, New
<1> QED BY <1>1 DEF Bools, Lits

\* A new term keeps what is known of the terms.
LEMMA NewTerm ==
  ASSUME TermsInv, NEW t \in TermSet, terms' = Append(terms, t),
         WellFormed(terms', New),
         \/ mEqList' = mEqList
         \/ t.op = "eq" /\ mEqList' = Append(mEqList, New),
         \/ mFuncList' = mFuncList
         \/ t.op = "func" /\ mFuncList' = Append(mFuncList, New)
  PROVE  TermsInv'
<1>1. /\ Ids = 1 .. Len(terms) /\ Ids' = Ids \cup {New} /\ New \notin Ids /\ New \in Nat
      /\ terms' \in Seq(TermSet) /\ terms'[New] = t
      /\ \A i \in Ids : terms'[i] = terms[i] /\ i < New
  BY Appended
<1>2. ASSUME NEW i \in Ids' PROVE WellFormed(terms', i)
  <2>1. CASE i = New
    BY <2>1
  <2>2. CASE i \in Ids
    <3>1. WellFormed(terms, i) /\ terms'[i] = terms[i] /\ terms[i] \in TermSet
      BY <2>2, <1>1 DEF TermsInv
    <3>2. \A k \in DOMAIN terms[i].args : terms'[terms[i].args[k]] = terms[terms[i].args[k]]
      BY <3>1, <2>2, <1>1 DEF WellFormed
    <3>3. Len(terms[i].args) = 2 => DOMAIN terms[i].args = {1, 2}
      BY <3>1 DEF TermSet
    <3> QED BY <3>1, <3>2, <3>3 DEF WellFormed
  <2> QED BY <1>1, <2>1, <2>2
<1>3. mEqList' \in Seq(Nat) /\ \A e \in EqIds' : e \in Ids' /\ terms'[e].op = "eq"
  <2>1. CASE mEqList' = mEqList
    BY <2>1, <1>1 DEF TermsInv, EqIds
  <2>2. CASE t.op = "eq" /\ mEqList' = Append(mEqList, New)
    <3>1. mEqList' \in Seq(Nat) /\ EqIds' \subseteq EqIds \cup {New}
      BY <2>2, <1>1 DEF TermsInv, EqIds
    <3> QED BY <3>1, <2>2, <1>1 DEF TermsInv
  <2> QED BY <2>1, <2>2
<1>4. mFuncList' \in Seq(Nat) /\ \A g \in FuncIds' : g \in Ids' /\ terms'[g].op = "func"
  <2>1. CASE mFuncList' = mFuncList
    BY <2>1, <1>1 DEF TermsInv, FuncIds
  <2>2. CASE t.op = "func" /\ mFuncList' = Append(mFuncList, New)
    <3>1. mFuncList' \in Seq(Nat) /\ FuncIds' \subseteq FuncIds \cup {New}
      BY <2>2, <1>1 DEF TermsInv, FuncIds
    <3> QED BY <3>1, <2>2, <1>1 DEF TermsInv
  <2> QED BY <2>1, <2>2
<1> QED BY <1>1, <1>2, <1>3, <1>4 DEF TermsInv

\* What every constructor does with its term t and its clauses cs: the term is
\* well formed, it enters the list of its kind, and the clauses follow from what
\* it means. Operands of an unordered operator are sorted.
Adds(t, cs) ==
  /\ t \in TermSet /\ Put(t, cs)
  /\ WellFormed(terms', New)
  /\ mEqList' = IF t.op = "eq" THEN Append(mEqList, New) ELSE mEqList
  /\ mFuncList' = IF t.op = "func" THEN Append(mFuncList, New) ELSE mFuncList
  /\ ClauseSet(cs)'
  /\ \A v \in Interps' : \A c \in cs : \E l \in c : True(v, l)
  /\ Unordered(t) /\ Len(t.args) = 2 => t.args[1] <= t.args[2]
  /\ GateClauses(terms', New) \subseteq cs
  /\ Mixed = {} => Plain(terms', New)

LEMMA PutStep ==
  ASSUME EInv, NEW t, NEW cs, Adds(t, cs)
  PROVE  EInv'
<1>1. /\ TermsInv /\ ClauseSet(clauses) /\ Hold(clauses) /\ pc = "idle"
      /\ terms' = Append(terms, t) /\ clauses' = clauses \cup cs
      /\ answer' = "none" /\ pc' = pc /\ assumption' = {} /\ t \in TermSet
  BY DEF EInv, Put, Adds
<1>2. TermsInv'
  BY <1>1, NewTerm DEF Adds
<1>3. Lits \subseteq Lits'
  BY <1>1, Appended
<1>4. ClauseSet(clauses)'
  BY <1>1, <1>3 DEF ClauseSet, Adds
<1>5. Hold(clauses)'
  <2> SUFFICES ASSUME NEW v \in Interps', NEW c \in clauses' PROVE \E l \in c : True(v, l)
    BY DEF Hold, True
  <2> QED BY <1>1, OldClauses DEF Adds
<1>6. LoopInv' /\ CallInv' /\ ValidIsRight'
  BY <1>1 DEF LoopInv, CallInv, ValidIsRight, Loop3
<1> QED BY <1>2, <1>4, <1>5, <1>6 DEF EInv

------------------------------------------------------------------------------
(***************************************************************************)
(* The constructors.                                                       *)
(***************************************************************************)
LEMMA TermIn ==
  ASSUME NEW o \in Operators, NEW n \in Names, NEW args \in Seq(Nat \ {0})
  PROVE  /\ Term(o, n, args) \in TermSet /\ Term(o, n, args).op = o
         /\ Term(o, n, args).name = n /\ Term(o, n, args).args = args
BY DEF Term, TermSet

LEMMA VariableAdds ==
  ASSUME TermsInv, NEW x, NewVariable(x) \/ NewBVariable(x), x \in VarNames \cup BVarNames
  PROVE  \E t, cs : Adds(t, cs)
<1>1. PICK o \in {"var", "bvar"} :
        Put(Term(o, x, <<>>), {}) /\ mEqList' = mEqList /\ mFuncList' = mFuncList
  BY DEF NewVariable, NewBVariable
<1> DEFINE t == Term(o, x, <<>>)
<1>2. t \in TermSet /\ t.op = o /\ t.args = <<>> /\ Len(t.args) = 0
  <2> DEFINE s == <<>>
  <2>1. o \in Operators /\ x \in Names /\ s \in Seq(Nat \ {0})
    BY DEF Operators, Names
  <2> HIDE DEF s
  <2>2. Term(o, x, s) \in TermSet /\ Term(o, x, s).op = o /\ Term(o, x, s).args = s
    BY <2>1, TermIn
  <2> QED BY <2>2 DEF s
<1>3. TermsInv /\ terms' = Append(terms, t)
  BY <1>1 DEF Put
<1> HIDE DEF t
<1>4. terms'[New] = t
  BY <1>2, <1>3, Appended
<1>5. WellFormed(terms', New)
  BY <1>2, <1>4 DEF WellFormed
<1>6. Put(t, {})
  BY <1>1 DEF t
<1>7. Adds(t, {})
  BY <1>1, <1>2, <1>4, <1>5, <1>6 DEF Adds, ClauseSet, Unordered, GateClauses, Plain
<1> QED BY <1>7

LEMMA Arranged ==
  ASSUME NEW S, NEW args \in Seq(S), NEW f
  PROVE  Arrange(f, args) \in Seq(S)
<1>1. CASE f \in SymNames /\ Len(args) = 2
  <2>1. args[1] \in S /\ args[2] \in S
    BY <1>1
  <2>2. Normal(args[1], args[2]) \in Seq(S)
    BY <2>1 DEF Normal
  <2> QED BY <1>1, <2>2 DEF Arrange
<1>2. CASE ~(f \in SymNames /\ Len(args) = 2)
  BY <1>2 DEF Arrange
<1> QED BY <1>1, <1>2

LEMMA FunctionAdds ==
  ASSUME TermsInv, NEW f \in FuncNames, NEW args \in ArgLists, NewFunction(f, args),
         Arities \subseteq Nat
  PROVE  \E t, cs : Adds(t, cs)
<1> DEFINE t == Term("func", f, Arrange(f, args))
<1>1. Put(t, {}) /\ mFuncList' = Append(mFuncList, New) /\ mEqList' = mEqList
  BY DEF NewFunction
<1>2. TermsInv /\ terms' = Append(terms, t)
  BY <1>1 DEF Put
<1>3. Ids = 1 .. Len(terms) /\ Len(terms) \in Nat /\ New = Len(terms) + 1
  BY <1>2 DEF TermsInv, Ids, New
<1>4. Arrange(f, args) \in Seq(Ids)
  <2>1. PICK n \in Nat : args \in [1 .. n -> Ids]
    BY DEF ArgLists, Args
  <2>2. args \in Seq(Ids)
    BY <2>1
  <2> QED BY <2>2, Arranged
<1>5. t.op = "func" /\ t.name = f /\ t.args = Arrange(f, args) /\ t \in TermSet
  <2>1. "func" \in Operators /\ f \in Names /\ Arrange(f, args) \in Seq(Nat \ {0})
    BY <1>3, <1>4 DEF Operators, Names
  <2> QED BY <2>1, TermIn
<1> HIDE DEF t
<1>6. terms'[New] = t
  BY <1>2, <1>5, Appended
<1>7. \A k \in DOMAIN t.args : t.args[k] \in 1 .. New - 1
  BY <1>3, <1>4, <1>5
<1>8. WellFormed(terms', New)
  BY <1>5, <1>6, <1>7 DEF WellFormed
<1>9. Unordered(t) /\ Len(t.args) = 2 => t.args[1] <= t.args[2]
  <2> SUFFICES ASSUME f \in SymNames, Len(Arrange(f, args)) = 2
               PROVE  Arrange(f, args)[1] <= Arrange(f, args)[2]
    BY <1>5 DEF Unordered
  <2>1. PICK n \in Nat : args \in [1 .. n -> Ids]
    BY DEF ArgLists, Args
  <2>2. Len(args) = 2 /\ args[1] \in Nat /\ args[2] \in Nat
    <3>1. args \in Seq(Ids) /\ Len(args) = n
      BY <2>1
    <3>2. n = 2
      BY <3>1 DEF Arrange, Normal
    <3> QED BY <1>3, <2>1, <3>1, <3>2
  <2> QED BY <2>2 DEF Arrange, Normal
<1>10. Mixed = {} => Plain(terms', New)
  <2>1. ASSUME Mixed = {} PROVE Arrange(f, args) \in Seq(Ids \ Bools)
    <3>1. PICK n \in Nat : args \in [1 .. n -> Ids \ Bools]
      BY <2>1 DEF ArgLists, Args
    <3>2. args \in Seq(Ids \ Bools)
      BY <3>1
    <3> QED BY <3>2, Arranged
  <2>2. \A i \in Ids \ Bools : ~IsBool(terms'[i])
    BY <1>2, <1>5, Appended DEF Bools
  <2>3. ASSUME Mixed = {}, NEW k \in DOMAIN t.args PROVE t.args[k] \in Ids \ Bools
    BY <1>5, <2>1, <2>3
  <2> QED BY <1>6, <2>2, <2>3 DEF Plain
<1>11. Adds(t, {})
  <2>1. Put(t, {})
    BY <1>1 DEF t
  <2> QED BY <1>1, <1>5, <1>6, <1>8, <1>9, <1>10, <2>1 DEF Adds, ClauseSet, GateClauses
<1> QED BY <1>11

\* Operators of two operands.
LEMMA Operands ==
  ASSUME TermsInv, NEW o \in {"eq", "con", "dis", "neg"}, NEW l \in Ids, NEW r \in Ids,
         terms' = Append(terms, Term(o, "-", <<l, r>>)),
         o \in {"con", "dis", "neg"} => l \in Bools /\ r \in Bools,
         o = "neg" => l = r
  PROVE  /\ Term(o, "-", <<l, r>>) \in TermSet /\ WellFormed(terms', New)
         /\ terms'[New] = Term(o, "-", <<l, r>>) /\ New \in Bools'
<1> DEFINE t == Term(o, "-", <<l, r>>)
<1>1. t.op = o /\ t.args = <<l, r>> /\ t.name = "-" /\ t \in TermSet
  <2>1. o \in Operators /\ "-" \in Names
    BY DEF Operators, Names
  <2> DEFINE s == <<l, r>>
  <2>2. s \in Seq(Nat \ {0})
    BY DEF TermsInv, Ids
  <2> HIDE DEF s
  <2>3. /\ Term(o, "-", s) \in TermSet /\ Term(o, "-", s).op = o
        /\ Term(o, "-", s).name = "-" /\ Term(o, "-", s).args = s
    BY <2>1, <2>2, TermIn
  <2> QED BY <2>3 DEF s
<1> HIDE DEF t
<1>2. terms' = Append(terms, t)
  BY DEF t
<1>3. terms'[New] = t /\ New \in Ids' /\ New \in Nat
      /\ \A i \in Ids : terms'[i] = terms[i] /\ i < New /\ i \in 1 .. New - 1
  <2>1. /\ Ids = 1 .. Len(terms) /\ Ids' = Ids \cup {New} /\ New \in Nat /\ terms'[New] = t
        /\ \A i \in Ids : terms'[i] = terms[i] /\ i < New
    BY <1>1, <1>2, Appended
  <2> QED BY <2>1 DEF TermsInv, New
<1>4. Len(t.args) = 2 /\ DOMAIN t.args = {1, 2} /\ t.args[1] = l /\ t.args[2] = r
  <2> DEFINE s == <<l, r>>
  <2>1. s \in Seq(Ids) /\ Len(s) = 2 /\ s[1] = l /\ s[2] = r
    OBVIOUS
  <2>2. DOMAIN s = {1, 2}
    BY <2>1
  <2> QED BY <1>1, <2>1, <2>2
<1>5. \A k \in DOMAIN t.args : t.args[k] \in 1 .. New - 1
  BY <1>3, <1>4
<1>6. o \in {"con", "dis", "neg"} => \A k \in {1, 2} : IsBool(terms'[t.args[k]])
  BY <1>3, <1>4 DEF Bools
<1>7. WellFormed(terms', New)
  BY <1>1, <1>3, <1>4, <1>5, <1>6 DEF WellFormed
<1>8. New \in Bools'
  BY <1>1, <1>3 DEF Bools, IsBool
<1> QED BY <1>1, <1>3, <1>7, <1>8 DEF t

LEMMA NormalPair ==
  ASSUME NEW l, NEW r
  PROVE  \/ Normal(l, r) = <<l, r>>
         \/ Normal(l, r) = <<r, l>>
BY DEF Normal

LEMMA EqualityAdds ==
  ASSUME TermsInv, NEW l \in Ids, NEW r \in Ids, NewEquality(l, r)
  PROVE  \E t, cs : Adds(t, cs)
<1>1. PICK a \in Ids, b \in Ids : Normal(l, r) = <<a, b>>
  BY NormalPair
<1>2. /\ Put(Term("eq", "-", <<a, b>>), {}) /\ mFuncList' = mFuncList
      /\ mEqList' = Append(mEqList, New)
  BY <1>1 DEF NewEquality
<1>3. TermsInv /\ terms' = Append(terms, Term("eq", "-", <<a, b>>))
  BY <1>2 DEF Put
<1>4. Term("eq", "-", <<a, b>>) \in TermSet /\ WellFormed(terms', New)
  BY <1>3, Operands
<1> DEFINE t == Term("eq", "-", <<a, b>>)
<1>5. t.op = "eq"
  BY DEF Term
<1>6. t \in TermSet /\ WellFormed(terms', New) /\ Put(t, {})
      /\ mFuncList' = mFuncList /\ mEqList' = Append(mEqList, New)
  BY <1>2, <1>4
<1>7. terms'[New] = t /\ t.args = <<a, b>>
  BY <1>3, Operands DEF Term
<1>8. a <= b
  BY <1>1 DEF Normal, TermsInv, Ids
<1>9. Mixed = {} => Plain(terms', New)
  <2>1. ASSUME Mixed = {} PROVE a \notin Bools /\ b \notin Bools
    BY <1>1, <2>1 DEF NewEquality, Normal
  <2>2. Mixed = {} => ~IsBool(terms'[a]) /\ ~IsBool(terms'[b])
    BY <1>3, <1>4, <2>1, Appended DEF Bools
  <2> HIDE DEF t
  <2>3. \A k \in DOMAIN t.args : t.args[k] \in {a, b}
    BY <1>7
  <2> QED BY <1>7, <2>2, <2>3 DEF Plain
<1> HIDE DEF t
<1>10. Adds(t, {})
  BY <1>5, <1>6, <1>7, <1>8, <1>9 DEF Adds, ClauseSet, GateClauses
<1> QED BY <1>10

\* What a gate means, for its node o and operands a and b.
LEMMA GateMeaning ==
  ASSUME TermsInv, NEW g \in {"con", "dis", "neg"}, NEW a \in Bools, NEW b \in Bools,
         g = "neg" => a = b,
         terms' = Append(terms, Term(g, "-", <<a, b>>)), NEW v \in Interps'
  PROVE  /\ v[a] \in Bit /\ v[b] \in Bit
         /\ g = "con" => v[New] = IF v[a] = 1 /\ v[b] = 1 THEN 1 ELSE 0
         /\ g = "dis" => v[New] = IF v[a] = 1 \/ v[b] = 1 THEN 1 ELSE 0
         /\ g = "neg" => v[New] = IF v[a] = 1 THEN 0 ELSE 1
<1> DEFINE t == Term(g, "-", <<a, b>>)
<1>1. a \in Ids /\ b \in Ids
  BY DEF Bools
<1>2. t.op = g /\ t.args[1] = a /\ t.args[2] = b
  BY DEF Term
<1>3. t \in TermSet /\ terms'[New] = t /\ WellFormed(terms', New) /\ New \in Bools'
  BY <1>1, Operands
<1>4. New \in Ids' /\ Meaning(terms', v, New)
  BY <1>3 DEF Interps, Interprets, Bools
<1>5. v[a] \in Bit /\ v[b] \in Bit
  <2>1. [i \in Ids |-> v[i]] \in Interps
    BY <1>3, Restriction DEF Interps
  <2> QED BY <2>1, <1>1, BoolValue
<1> HIDE DEF t
<1> QED BY <1>2, <1>3, <1>4, <1>5 DEF Meaning

LEMMA TrueLit ==
  ASSUME NEW v, NEW i, NEW b
  PROVE  True(v, Lit(i, b)) <=> v[i] = b
BY DEF True, Lit

LEMMA ConjunctionAdds ==
  ASSUME TermsInv, NEW l \in Bools, NEW r \in Bools, NewConjunction(l, r)
  PROVE  \E t, cs : Adds(t, cs)
<1>1. PICK a \in Bools, b \in Bools : Normal(l, r) = <<a, b>>
  BY NormalPair
<1>2. PICK n : n = New
  OBVIOUS
<1> DEFINE t == Term("con", "-", <<a, b>>)
           cs == ConClauses(n, a, b)
<1>3. Put(t, cs) /\ mEqList' = mEqList /\ mFuncList' = mFuncList
  BY <1>1, <1>2 DEF NewConjunction
<1>4. TermsInv /\ terms' = Append(terms, t) /\ a \in Ids /\ b \in Ids
  BY <1>3 DEF Put, Bools
<1>5. t \in TermSet /\ WellFormed(terms', New) /\ n \in Bools'
  BY <1>2, <1>4, Operands
<1>6. ClauseSet(cs)'
  <2>1. {a, b, n} \subseteq Bools'
    BY <1>4, <1>5, Appended
  <2> QED BY <2>1 DEF ClauseSet, ConClauses, Lit, Lits, Bit
<1>7. ASSUME NEW v \in Interps', NEW c \in cs PROVE \E m \in c : True(v, m)
  <2>1. v[a] \in Bit /\ v[b] \in Bit /\ v[n] = IF v[a] = 1 /\ v[b] = 1 THEN 1 ELSE 0
    BY <1>2, <1>4, GateMeaning
  <2>2. c \in ConClauses(n, a, b)
    BY <1>7
  <2> HIDE DEF t, cs
  <2> QED BY <2>1, <2>2, TrueLit DEF ConClauses, Bit
<1>8. t.op = "con" /\ t.args[1] = a /\ t.args[2] = b /\ a <= b
  BY <1>1, <1>4 DEF Term, Normal, TermsInv, Ids
<1>9. terms'[New] = t
  BY <1>4, Operands
<1>10. GateClauses(terms', New) \subseteq cs
  BY <1>2, <1>8, <1>9 DEF GateClauses
<1> HIDE DEF t, cs
<1>11. Adds(t, cs)
  BY <1>3, <1>5, <1>6, <1>7, <1>8, <1>9, <1>10 DEF Adds, Plain
<1> QED BY <1>11

LEMMA DisjunctionAdds ==
  ASSUME TermsInv, NEW l \in Bools, NEW r \in Bools, NewDisjunction(l, r)
  PROVE  \E t, cs : Adds(t, cs)
<1>1. PICK a \in Bools, b \in Bools : Normal(l, r) = <<a, b>>
  BY NormalPair
<1>2. PICK n : n = New
  OBVIOUS
<1> DEFINE t == Term("dis", "-", <<a, b>>)
           cs == DisClauses(n, a, b)
<1>3. Put(t, cs) /\ mEqList' = mEqList /\ mFuncList' = mFuncList
  BY <1>1, <1>2 DEF NewDisjunction
<1>4. TermsInv /\ terms' = Append(terms, t) /\ a \in Ids /\ b \in Ids
  BY <1>3 DEF Put, Bools
<1>5. t \in TermSet /\ WellFormed(terms', New) /\ n \in Bools'
  BY <1>2, <1>4, Operands
<1>6. ClauseSet(cs)'
  <2>1. {a, b, n} \subseteq Bools'
    BY <1>4, <1>5, Appended
  <2> QED BY <2>1 DEF ClauseSet, DisClauses, Lit, Lits, Bit
<1>7. ASSUME NEW v \in Interps', NEW c \in cs PROVE \E m \in c : True(v, m)
  <2>1. v[a] \in Bit /\ v[b] \in Bit /\ v[n] = IF v[a] = 1 \/ v[b] = 1 THEN 1 ELSE 0
    BY <1>2, <1>4, GateMeaning
  <2>2. c \in DisClauses(n, a, b)
    BY <1>7
  <2> HIDE DEF t, cs
  <2> QED BY <2>1, <2>2, TrueLit DEF DisClauses, Bit
<1>8. t.op = "dis" /\ t.args[1] = a /\ t.args[2] = b /\ a <= b
  BY <1>1, <1>4 DEF Term, Normal, TermsInv, Ids
<1>9. terms'[New] = t
  BY <1>4, Operands
<1>10. GateClauses(terms', New) \subseteq cs
  BY <1>2, <1>8, <1>9 DEF GateClauses
<1> HIDE DEF t, cs
<1>11. Adds(t, cs)
  BY <1>3, <1>5, <1>6, <1>7, <1>8, <1>9, <1>10 DEF Adds, Plain
<1> QED BY <1>11

LEMMA NegationAdds ==
  ASSUME TermsInv, NEW a \in Bools, NewNegation(a)
  PROVE  \E t, cs : Adds(t, cs)
<1>2. PICK n : n = New
  OBVIOUS
<1> DEFINE t == Term("neg", "-", <<a, a>>)
           cs == NegClauses(n, a)
<1>3. Put(t, cs) /\ mEqList' = mEqList /\ mFuncList' = mFuncList
  BY <1>2 DEF NewNegation
<1>4. TermsInv /\ terms' = Append(terms, t) /\ a \in Ids
  BY <1>3 DEF Put, Bools
<1>5. t \in TermSet /\ WellFormed(terms', New) /\ n \in Bools'
  BY <1>2, <1>4, Operands
<1>6. ClauseSet(cs)'
  <2>1. {a, n} \subseteq Bools'
    BY <1>4, <1>5, Appended
  <2> QED BY <2>1 DEF ClauseSet, NegClauses, Lit, Lits, Bit
<1>7. ASSUME NEW v \in Interps', NEW c \in cs PROVE \E m \in c : True(v, m)
  <2>1. v[a] \in Bit /\ v[n] = IF v[a] = 1 THEN 0 ELSE 1
    BY <1>2, <1>4, GateMeaning
  <2>2. c \in NegClauses(n, a)
    BY <1>7
  <2> HIDE DEF t, cs
  <2> QED BY <2>1, <2>2, TrueLit DEF NegClauses, Bit
<1>8. t.op = "neg" /\ t.args[1] = a /\ t.args[2] = a
  BY DEF Term
<1>9. terms'[New] = t
  BY <1>4, Operands
<1>10. GateClauses(terms', New) \subseteq cs
  BY <1>2, <1>8, <1>9 DEF GateClauses
<1> HIDE DEF t, cs
<1>11. Adds(t, cs)
  BY <1>3, <1>5, <1>6, <1>7, <1>8, <1>9, <1>10 DEF Adds, Plain, Unordered
<1> QED BY <1>11

LEMMA ConstructAdds ==
  ASSUME TermsInv, Construct, Arities \subseteq Nat
  PROVE  \E t, cs : Adds(t, cs)
<1>1. Bools \subseteq Ids
  BY DEF Bools
<1> QED BY <1>1, VariableAdds, FunctionAdds, EqualityAdds, ConjunctionAdds, DisjunctionAdds,
           NegationAdds DEF Construct

LEMMA ConstructStep ==
  ASSUME EInv, Construct, Arities \subseteq Nat
  PROVE  EInv'
BY ConstructAdds, PutStep DEF EInv

------------------------------------------------------------------------------
(***************************************************************************)
(* check_validity.                                                         *)
(***************************************************************************)
\* What a step that leaves the terms alone has to show.
LEMMA SameTerms ==
  ASSUME EInv, UNCHANGED build, ClauseSet(clauses'), Hold(clauses')
  PROVE  /\ TermsInv' /\ ClauseSet(clauses)' /\ Hold(clauses)'
         /\ Ids' = Ids /\ Bools' = Bools /\ Interps' = Interps
         /\ EqIds' = EqIds /\ FuncIds' = FuncIds
<1>1. terms' = terms /\ mEqList' = mEqList /\ mFuncList' = mFuncList
  BY DEF build
<1>2. /\ Ids' = Ids /\ Bools' = Bools /\ Interps' = Interps /\ Lits' = Lits
      /\ EqIds' = EqIds /\ FuncIds' = FuncIds
  BY <1>1 DEF Ids, Bools, Interps, Interprets, Lits, EqIds, FuncIds
<1>3. TermsInv'
  BY <1>1, <1>2 DEF EInv, TermsInv
<1>4. ClauseSet(clauses)' /\ Hold(clauses)'
  BY <1>2 DEF ClauseSet, Hold, True
<1> QED BY <1>2, <1>3, <1>4

LEMMA EqTerm ==
  ASSUME TermsInv, NEW e \in EqIds, NEW v \in Interps
  PROVE  /\ e \in Ids /\ e \in Bools /\ Left(e) \in Ids /\ Right(e) \in Ids
         /\ v[e] = IF v[Left(e)] = v[Right(e)] THEN 1 ELSE 0
<1>1. /\ e \in Ids /\ terms[e].op = "eq" /\ terms[e] \in TermSet /\ WellFormed(terms, e)
      /\ Meaning(terms, v, e) /\ Ids = 1 .. Len(terms) /\ Len(terms) \in Nat
  BY DEF TermsInv, Ids, Interps, Interprets
<1>2. Len(terms[e].args) = 2 /\ DOMAIN terms[e].args = {1, 2}
  BY <1>1 DEF WellFormed, TermSet
<1>3. Left(e) \in Ids /\ Right(e) \in Ids
  BY <1>1, <1>2 DEF WellFormed, Left, Right
<1>4. e \in Bools
  BY <1>1 DEF Bools, IsBool
<1> QED BY <1>1, <1>3, <1>4 DEF Meaning, Left, Right

LEMMA CallStep ==
  ASSUME EInv, Call
  PROVE  EInv'
<1>1. PICK as \in SUBSET Bools, g \in Bools : CheckValidity(as, g)
  BY DEF Call
<1>2. UNCHANGED <<build, clauses>> /\ pc' = "solve" /\ answer' = "none"
      /\ assumption' = {Lit(a, 1) : a \in as} \cup {Lit(g, 0)}
  BY <1>1 DEF CheckValidity
<1>3. TermsInv' /\ ClauseSet(clauses)' /\ Hold(clauses)' /\ Bools' = Bools
  BY <1>2, SameTerms DEF EInv
<1>4. assumption' \subseteq Lits'
  <2>1. \A a \in Bools, b \in Bit : Lit(a, b) \in Lits'
    BY <1>3 DEF Lits, Lit
  <2> QED BY <1>2, <2>1 DEF Bit
<1> QED BY <1>2, <1>3, <1>4 DEF EInv, LoopInv, Loop3, CallInv, ValidIsRight

\* The solver finds no model: then no interpretation refutes the node.
LEMMA SolveFalseStep ==
  ASSUME EInv, SolveFalse
  PROVE  EInv'
<1>1. /\ UNCHANGED <<build, clauses, assumption>> /\ pc' = "idle" /\ answer' = "valid"
      /\ ~\E m \in [Bools -> Bit] : Sat(m)
  BY DEF SolveFalse, Return
<1>2. TermsInv' /\ ClauseSet(clauses)' /\ Hold(clauses)' /\ Bools' = Bools /\ Interps' = Interps
  BY <1>1, SameTerms DEF EInv
<1>3. ASSUME NEW v \in Interps, \A l \in assumption : True(v, l) PROVE FALSE
  <2> DEFINE m == [b \in Bools |-> v[b]]
  <2>1. m \in [Bools -> Bit]
    BY ModelOf DEF EInv
  <2>2. \A c \in clauses : \E l \in c : m[l[1]] = l[2]
    <3> SUFFICES ASSUME NEW c \in clauses PROVE \E l \in c : m[l[1]] = l[2]
      OBVIOUS
    <3>1. PICK l \in c : True(v, l)
      BY DEF EInv, Hold
    <3>2. l[1] \in Bools
      BY DEF EInv, ClauseSet, Lits
    <3> QED BY <3>1, <3>2 DEF True
  <2>3. \A l \in assumption : m[l[1]] = l[2]
    <3> SUFFICES ASSUME NEW l \in assumption PROVE m[l[1]] = l[2]
      OBVIOUS
    <3>1. l[1] \in Bools /\ True(v, l)
      BY <1>3 DEF EInv, CallInv, Lits
    <3> QED BY <3>1 DEF True
  <2> HIDE DEF m
  <2> QED BY <1>1, <2>1, <2>2, <2>3 DEF Sat
<1>4. ValidIsRight'
  BY <1>1, <1>2, <1>3 DEF ValidIsRight, True
<1> QED BY <1>1, <1>2, <1>4 DEF EInv, LoopInv, Loop3, CallInv, Lits

LEMMA OtherReturns ==
  ASSUME EInv, SolveAbort \/ NoConflict
  PROVE  EInv'
<1>1. /\ UNCHANGED <<build, clauses, assumption>> /\ pc' = "idle" /\ answer' # "valid"
  BY DEF SolveAbort, NoConflict, Return
<1>2. TermsInv' /\ ClauseSet(clauses)' /\ Hold(clauses)' /\ Bools' = Bools
  BY <1>1, SameTerms DEF EInv
<1> QED BY <1>1, <1>2 DEF EInv, LoopInv, Loop3, CallInv, Lits, ValidIsRight

LEMMA SolveTrueStep ==
  ASSUME EInv, SolveTrue
  PROVE  EInv'
<1>1. /\ UNCHANGED <<build, clauses, assumption, answer>> /\ pc = "solve" /\ pc' = "merge"
      /\ model' \in [Bools -> Bit] /\ mfset' = [i \in Ids |-> i]
  BY DEF SolveTrue
<1>2. TermsInv' /\ ClauseSet(clauses)' /\ Hold(clauses)' /\ Bools' = Bools /\ Ids' = Ids
  BY <1>1, SameTerms DEF EInv
<1>3. LoopInv'
  BY <1>1, <1>2 DEF LoopInv, Same
<1> QED BY <1>1, <1>2, <1>3 DEF EInv, CallInv, Lits, ValidIsRight

\* Merging the classes of two terms that are equal wherever eq_list holds.
LEMMA MergeStep ==
  ASSUME EInv, Loop3, UNCHANGED <<build, clauses, pc, assumption, model, answer>>,
         NEW i \in Ids, NEW j \in Ids, Merge(i, j),
         \A v \in Interps : (\A e \in EqList : v[e] = 1) => v[i] = v[j]
  PROVE  EInv'
<1>1. TermsInv' /\ ClauseSet(clauses)' /\ Hold(clauses)' /\ Bools' = Bools /\ Ids' = Ids
      /\ Interps' = Interps /\ EqIds' = EqIds
  BY SameTerms DEF EInv
<1>2. EqList' = EqList
  BY <1>1 DEF EqList
<1>3. model \in [Bools -> Bit] /\ mfset \in [Ids -> Ids] /\ mfset' \in [Ids -> Ids]
  BY DEF EInv, LoopInv, Merge
<1>4. ASSUME NEW v \in Interps, \A e \in EqList : v[e] = 1,
             NEW k \in Ids, NEW n \in Ids, mfset'[k] = mfset'[n]
      PROVE  v[k] = v[n]
  <2>1. \A x, y \in Ids : mfset[x] = mfset[y] => v[x] = v[y]
    BY <1>4 DEF EInv, LoopInv, Same
  <2>2. v[i] = v[j]
    BY <1>4
  <2>3. /\ mfset'[k] = IF mfset[k] = mfset[j] THEN mfset[i] ELSE mfset[k]
        /\ mfset'[n] = IF mfset[n] = mfset[j] THEN mfset[i] ELSE mfset[n]
    BY DEF Merge
  <2> QED BY <1>4, <2>1, <2>2, <2>3
<1>5. LoopInv'
  BY <1>1, <1>2, <1>3, <1>4 DEF LoopInv, Same
<1> QED BY <1>1, <1>5 DEF EInv, CallInv, Lits, ValidIsRight, Loop3

LEMMA MergeEqStep ==
  ASSUME EInv, NEW e \in EqIds, MergeEq(e)
  PROVE  EInv'
<1>1. /\ UNCHANGED <<build, clauses, pc, assumption, model, answer>> /\ Loop3
      /\ e \in EqList /\ Merge(Left(e), Right(e)) /\ TermsInv
  BY DEF MergeEq, EInv, Loop3
<1>2. \A v \in Interps : (\A d \in EqList : v[d] = 1) => v[Left(e)] = v[Right(e)]
  BY <1>1, EqTerm
<1>3. Left(e) \in Ids /\ Right(e) \in Ids
  <2>1. e \in Ids /\ terms[e].op = "eq" /\ terms[e] \in TermSet /\ WellFormed(terms, e)
        /\ Ids = 1 .. Len(terms) /\ Len(terms) \in Nat
    BY <1>1 DEF TermsInv, Ids
  <2>2. Len(terms[e].args) = 2 /\ DOMAIN terms[e].args = {1, 2}
    BY <2>1 DEF WellFormed, TermSet
  <2> QED BY <2>1, <2>2 DEF WellFormed, Left, Right
<1> QED BY <1>1, <1>2, <1>3, MergeStep

\* Two applications of one function whose arguments are in one class.
LEMMA MergeFuncStep ==
  ASSUME EInv, OneName, NEW a \in DOMAIN mFuncList, NEW b \in DOMAIN mFuncList, MergeFunc(a, b)
  PROVE  EInv'
<1>1. PICK i, j : i = mFuncList[a] /\ j = mFuncList[b]
  OBVIOUS
<1>2. /\ UNCHANGED <<build, clauses, pc, assumption, model, answer>> /\ Loop3
      /\ Congruent(i, j) /\ Merge(i, j) /\ TermsInv
  BY <1>1 DEF MergeFunc, Mergeable, EInv, Loop3
<1>3. /\ i \in Ids /\ j \in Ids /\ terms[i].op = "func" /\ terms[j].op = "func"
      /\ Ids = 1 .. Len(terms) /\ Len(terms) \in Nat /\ terms[i] \in TermSet /\ terms[j] \in TermSet
      /\ WellFormed(terms, i) /\ WellFormed(terms, j)
  BY <1>1, <1>2 DEF TermsInv, FuncIds, Ids
<1>4. terms[i].name = terms[j].name
  BY <1>3 DEF OneName, WellFormed
<1>5. ASSUME NEW v \in Interps, \A e \in EqList : v[e] = 1 PROVE v[i] = v[j]
  <2>1. \A x, y \in Ids : Same(x, y) => v[x] = v[y]
    BY <1>2, <1>5 DEF EInv, LoopInv
  <2>2. Len(terms[i].args) = Len(terms[j].args)
        /\ DOMAIN terms[i].args = DOMAIN terms[j].args
    BY <1>2, <1>3 DEF Congruent, TermSet
  <2>3. \A k \in DOMAIN terms[i].args : terms[i].args[k] \in Ids /\ terms[j].args[k] \in Ids
    BY <1>3, <2>2 DEF WellFormed
  <2>4. SameArgs(v, terms[i], terms[j])
    BY <1>2, <2>1, <2>2, <2>3 DEF SameArgs, Congruent
  <2>5. Meaning(terms, v, i)
    BY <1>3 DEF Interps, Interprets
  <2> QED BY <1>3, <1>4, <2>4, <2>5 DEF Meaning, Ids
<1> QED BY <1>2, <1>3, <1>5, MergeStep

LEMMA PhaseStep ==
  ASSUME EInv, EndMerge \/ EndClosure
  PROVE  EInv'
<1>1. /\ UNCHANGED <<build, clauses, assumption, model, mfset, answer>>
      /\ pc \in {"merge", "closure"} /\ pc' \in {"closure", "conflict"}
  BY DEF EndMerge, EndClosure
<1>2. TermsInv' /\ ClauseSet(clauses)' /\ Hold(clauses)' /\ Bools' = Bools /\ Ids' = Ids
      /\ Interps' = Interps /\ EqIds' = EqIds
  BY <1>1, SameTerms DEF EInv
<1>3. LoopInv'
  BY <1>1, <1>2 DEF EInv, LoopInv, Loop3, EqList, Same
<1> QED BY <1>1, <1>2, <1>3 DEF EInv, CallInv, Lits, ValidIsRight

\* A learned clause holds: where all of eq_list does, the sides are equal.
LEMMA RefineStep ==
  ASSUME EInv, Refine
  PROVE  EInv'
<1>1. /\ UNCHANGED <<build, assumption, answer>> /\ pc = "conflict" /\ pc' = "solve" /\ TermsInv
      /\ clauses' = clauses \cup {Lemma(e) : e \in Conflicts}
      /\ model \in [Bools -> Bit] /\ mfset \in [Ids -> Ids]
  BY DEF Refine, EInv, LoopInv, Loop3
<1>2. \A e \in EqIds : e \in Bools
  BY <1>1 DEF TermsInv, Bools, IsBool
<1>3. ClauseSet(clauses')
  <2>1. ASSUME NEW e \in Conflicts PROVE Lemma(e) \subseteq Lits
    BY <1>2 DEF Conflicts, NeqList, EqList, Lemma, Lit, Lits, Bit
  <2> QED BY <1>1, <2>1 DEF EInv, ClauseSet
<1>4. Hold(clauses')
  <2>1. ASSUME NEW e \in Conflicts, NEW v \in Interps PROVE \E l \in Lemma(e) : True(v, l)
    <3>1. e \in EqIds /\ Same(Left(e), Right(e))
      BY DEF Conflicts, NeqList
    <3>2. CASE \A q \in EqList : v[q] = 1
      <4>1. v[Left(e)] = v[Right(e)] /\ v[e] = 1
        BY <1>1, <3>1, <3>2, EqTerm DEF EInv, LoopInv, Loop3
      <4> QED BY <4>1, TrueLit DEF Lemma
    <3>3. CASE \E q \in EqList : v[q] # 1
      <4>1. PICK q \in EqList : v[q] # 1
        BY <3>3
      <4>2. v[q] = 0
        BY <1>1, <4>1, EqTerm DEF EqList
      <4> QED BY <4>2, TrueLit DEF Lemma
    <3> QED BY <3>2, <3>3
  <2> QED BY <1>1, <2>1 DEF EInv, Hold
<1>5. TermsInv' /\ ClauseSet(clauses)' /\ Hold(clauses)' /\ Bools' = Bools
  BY <1>1, <1>3, <1>4, SameTerms
<1> QED BY <1>1, <1>5 DEF EInv, LoopInv, Loop3, CallInv, Lits, ValidIsRight
------------------------------------------------------------------------------
\* EInv is an invariant of EufMgr when all functions have one name.
THEOREM EufInvariance ==
  ASSUME OneName, EufAssumption
  PROVE  Spec => []EInv
<1>1. Init => EInv
  <2> SUFFICES ASSUME Init PROVE EInv
    OBVIOUS
  <2> USE DEF Init
  <2>1. TermsInv
    BY DEF TermsInv, Ids, EqIds, FuncIds
  <2>2. ClauseSet(clauses) /\ Hold(clauses)
    BY DEF ClauseSet, Hold
  <2> QED BY <2>1, <2>2 DEF EInv, LoopInv, Loop3, CallInv, ValidIsRight
<1>2. EInv /\ [Next]_vars => EInv'
  <2> SUFFICES ASSUME EInv, [Next]_vars PROVE EInv'
    OBVIOUS
  <2>1. CASE Construct
    BY <2>1, ConstructStep DEF EufAssumption
  <2>2. CASE Call
    BY <2>2, CallStep
  <2>3. CASE Loop
    BY <2>3, SolveFalseStep, OtherReturns, SolveTrueStep, MergeEqStep, MergeFuncStep,
       PhaseStep, RefineStep DEF Loop
  <2>4. CASE UNCHANGED vars
    <3>1. UNCHANGED <<build, clauses, pc, assumption, model, mfset, answer>>
      BY <2>4 DEF vars, build
    <3>2. TermsInv' /\ ClauseSet(clauses)' /\ Hold(clauses)' /\ Bools' = Bools /\ Ids' = Ids
          /\ Interps' = Interps /\ EqIds' = EqIds
      BY <3>1, SameTerms DEF EInv
    <3> QED BY <3>1, <3>2 DEF EInv, LoopInv, Loop3, EqList, Same, CallInv, Lits, ValidIsRight, True
  <2> QED BY <2>1, <2>2, <2>3, <2>4 DEF Next
<1> QED BY <1>1, <1>2, PTL DEF Spec

\* Whatever is built and checked before, "Valid" is a right answer.
THEOREM ValidAnswers ==
  ASSUME OneName, EufAssumption
  PROVE  Spec => []ValidIsRight
<1>1. EInv => ValidIsRight
  BY DEF EInv
<1> QED BY <1>1, EufInvariance, PTL

\* The solver is never given a clause some interpretation violates.
THEOREM SoundClauses ==
  ASSUME OneName, EufAssumption
  PROVE  Spec => []ClausesSound
<1>1. EInv => ClausesSound
  BY DEF EInv, Hold, ClausesSound
<1> QED BY <1>1, EufInvariance, PTL

------------------------------------------------------------------------------
(***************************************************************************)
(* The bookkeeping, the rounds, and the closure.                           *)
(***************************************************************************)
\* The lists hold every term of their kind, unordered operands are sorted and
\* no term occurs twice.
UniqueInv ==
  /\ EqIds = {i \in Ids : terms[i].op = "eq"}
  /\ FuncIds = {i \in Ids : terms[i].op = "func"}
  /\ \A i \in Ids : Unordered(terms[i]) /\ Len(terms[i].args) = 2 =>
       terms[i].args[1] <= terms[i].args[2]
  /\ \A i, j \in Ids : terms[i] = terms[j] => i = j

TypesInv ==
  /\ ClauseSet(clauses)
  /\ pc \in {"idle", "solve", "merge", "closure", "conflict"}
  /\ assumption \subseteq Lits
  /\ Loop3 => model \in [Bools -> Bit] /\ mfset \in [Ids -> Ids]
  /\ answer \in {"none", "valid", "aborted", "invalid"}
  /\ answer # "none" => pc = "idle"

\* The solver knows every gate; its model satisfies what it was given; a pass
\* over eq_list leaves the sides of each equality in one class, and so does
\* every later merge; the closure ends with nothing left to merge.
SolverInv ==
  /\ \A i \in Ids : GateClauses(terms, i) \subseteq clauses
  /\ Mixed = {} => \A i \in Ids : Plain(terms, i)
  /\ Loop3 => Sat(model)
  /\ pc \in {"closure", "conflict"} => \A e \in EqList : Same(Left(e), Right(e))
  /\ pc = "conflict" => \A a, b \in DOMAIN mFuncList : ~Mergeable(a, b)

BInv == TermsInv /\ UniqueInv /\ TypesInv /\ SolverInv
------------------------------------------------------------------------------
(***************************************************************************)
(* The constructors.                                                       *)
(***************************************************************************)
LEMMA ListOf ==
  ASSUME NEW q \in Seq(Nat), NEW x \in Nat
  PROVE  {Append(q, x)[k] : k \in DOMAIN Append(q, x)} = {q[k] : k \in DOMAIN q} \cup {x}
<1> DEFINE r == Append(q, x)
<1>1. /\ DOMAIN q = 1 .. Len(q) /\ Len(q) \in Nat /\ DOMAIN r = 1 .. Len(q) + 1
      /\ r[Len(q) + 1] = x /\ \A k \in 1 .. Len(q) : r[k] = q[k]
  OBVIOUS
<1>2. DOMAIN r = (DOMAIN q) \cup {Len(q) + 1}
  BY <1>1
<1> HIDE DEF r
<1> QED BY <1>1, <1>2

LEMMA UniqueAdds ==
  ASSUME TermsInv, UniqueInv, NEW t, NEW cs, Adds(t, cs)
  PROVE  UniqueInv'
<1>1. t \in TermSet /\ terms' = Append(terms, t) /\ ~Known(t)
  BY DEF Adds, Put
<1>2. /\ Ids' = Ids \cup {New} /\ New \notin Ids /\ New \in Nat /\ terms'[New] = t
      /\ \A i \in Ids : terms'[i] = terms[i]
  BY <1>1, Appended
<1>3. EqIds' = {i \in Ids' : terms'[i].op = "eq"}
  <2>1. CASE t.op = "eq"
    <3>1. mEqList' = Append(mEqList, New) /\ mEqList \in Seq(Nat)
      BY <2>1 DEF Adds, TermsInv
    <3>2. EqIds' = EqIds \cup {New}
      BY <1>2, <3>1, ListOf DEF EqIds
    <3> QED BY <1>2, <2>1, <3>2 DEF UniqueInv
  <2>2. CASE t.op # "eq"
    <3>1. EqIds' = EqIds
      BY <2>2 DEF Adds, EqIds
    <3> QED BY <1>2, <2>2, <3>1 DEF UniqueInv
  <2> QED BY <2>1, <2>2
<1>4. FuncIds' = {i \in Ids' : terms'[i].op = "func"}
  <2>1. CASE t.op = "func"
    <3>1. mFuncList' = Append(mFuncList, New) /\ mFuncList \in Seq(Nat)
      BY <2>1 DEF Adds, TermsInv
    <3>2. FuncIds' = FuncIds \cup {New}
      BY <1>2, <3>1, ListOf DEF FuncIds
    <3> QED BY <1>2, <2>1, <3>2 DEF UniqueInv
  <2>2. CASE t.op # "func"
    <3>1. FuncIds' = FuncIds
      BY <2>2 DEF Adds, FuncIds
    <3> QED BY <1>2, <2>2, <3>1 DEF UniqueInv
  <2> QED BY <2>1, <2>2
<1>5. \A i \in Ids' : Unordered(terms'[i]) /\ Len(terms'[i].args) = 2 =>
        terms'[i].args[1] <= terms'[i].args[2]
  BY <1>2 DEF Adds, UniqueInv
<1>6. \A i, j \in Ids' : terms'[i] = terms'[j] => i = j
  <2>1. \A i \in Ids : terms'[i] # t
    BY <1>1, <1>2 DEF Known
  <2>2. \A i, j \in Ids : terms'[i] = terms'[j] => i = j
    BY <1>2 DEF UniqueInv
  <2> QED BY <1>2, <2>1, <2>2
<1> QED BY <1>3, <1>4, <1>5, <1>6 DEF UniqueInv, Unordered

LEMMA SolverAdds ==
  ASSUME BInv, NEW t, NEW cs, Adds(t, cs)
  PROVE  TypesInv' /\ SolverInv'
<1>1. /\ t \in TermSet /\ terms' = Append(terms, t) /\ pc = "idle" /\ pc' = pc
      /\ clauses' = clauses \cup cs /\ answer' = "none" /\ assumption' = {}
  BY DEF Adds, Put
<1>2. /\ Ids = 1 .. Len(terms) /\ Ids' = Ids \cup {New} /\ New \notin Ids /\ terms'[New] = t
      /\ \A i \in Ids : terms'[i] = terms[i] /\ i < New
      /\ Lits \subseteq Lits'
  BY <1>1, Appended DEF BInv
<1>3. TypesInv'
  BY <1>1, <1>2 DEF TypesInv, BInv, ClauseSet, Adds, Loop3
<1>4. ASSUME NEW i \in Ids
      PROVE  GateClauses(terms', i) = GateClauses(terms, i)
             /\ (Plain(terms, i) => Plain(terms', i))
  <2>1. terms'[i] = terms[i] /\ WellFormed(terms, i) /\ i \in Nat /\ Len(terms) \in Nat
    BY <1>2, <1>4 DEF BInv, TermsInv
  <2>2. \A k \in DOMAIN terms[i].args : terms'[terms[i].args[k]] = terms[terms[i].args[k]]
    BY <1>2, <2>1 DEF WellFormed
  <2> QED BY <2>1, <2>2 DEF GateClauses, Plain
<1>5. SolverInv'
  BY <1>1, <1>2, <1>4 DEF SolverInv, BInv, Adds, Loop3
<1> QED BY <1>3, <1>5

LEMMA ConstructKeeps ==
  ASSUME BInv, Construct, Arities \subseteq Nat
  PROVE  BInv'
<1>1. PICK t, cs : Adds(t, cs)
  BY ConstructAdds DEF BInv
<1>2. TermsInv'
  <2>1. t \in TermSet /\ terms' = Append(terms, t)
    BY <1>1 DEF Adds, Put
  <2> QED BY <1>1, <2>1, NewTerm DEF BInv, Adds
<1> QED BY <1>1, <1>2, UniqueAdds, SolverAdds DEF BInv
------------------------------------------------------------------------------
(***************************************************************************)
(* check_validity.                                                         *)
(***************************************************************************)
\* Steps of a check leave the terms and what is defined by them alone.
LEMMA TermsStay ==
  ASSUME BInv, UNCHANGED build
  PROVE  /\ TermsInv' /\ UniqueInv'
         /\ Ids' = Ids /\ Bools' = Bools /\ Lits' = Lits /\ Interps' = Interps
         /\ EqIds' = EqIds /\ FuncIds' = FuncIds
         /\ \A e : Left(e)' = Left(e) /\ Right(e)' = Right(e)
<1>1. terms' = terms /\ mEqList' = mEqList /\ mFuncList' = mFuncList
  BY DEF build
<1>2. /\ Ids' = Ids /\ Bools' = Bools /\ Interps' = Interps /\ Lits' = Lits
      /\ EqIds' = EqIds /\ FuncIds' = FuncIds
  BY <1>1 DEF Ids, Bools, Interps, Interprets, Lits, EqIds, FuncIds
<1>3. TermsInv' /\ UniqueInv'
  BY <1>1, <1>2 DEF BInv, TermsInv, UniqueInv, Unordered
<1> QED BY <1>1, <1>2, <1>3 DEF Left, Right

\* The sides of an equality are terms.
LEMMA Sides ==
  ASSUME TermsInv, NEW e \in EqIds
  PROVE  e \in Bools /\ Left(e) \in Ids /\ Right(e) \in Ids
         /\ DOMAIN terms[e].args = {1, 2}
<1>1. e \in Ids /\ terms[e].op = "eq" /\ terms[e] \in TermSet /\ WellFormed(terms, e)
      /\ Ids = 1 .. Len(terms) /\ Len(terms) \in Nat
  BY DEF TermsInv, Ids
<1>2. Len(terms[e].args) = 2 /\ DOMAIN terms[e].args = {1, 2}
  BY <1>1 DEF WellFormed, TermSet
<1> QED BY <1>1, <1>2 DEF WellFormed, Left, Right, Bools, IsBool

LEMMA CallKeeps ==
  ASSUME BInv, Call
  PROVE  BInv'
<1>1. PICK as \in SUBSET Bools, g \in Bools : CheckValidity(as, g)
  BY DEF Call
<1>2. UNCHANGED <<build, clauses>> /\ pc' = "solve" /\ answer' = "none"
      /\ assumption' = {Lit(a, 1) : a \in as} \cup {Lit(g, 0)}
  BY <1>1 DEF CheckValidity
<1>3. assumption' \subseteq Lits
  <2>1. \A a \in Bools, b \in Bit : Lit(a, b) \in Lits
    BY DEF Lits, Lit
  <2> QED BY <1>2, <2>1 DEF Bit
<1>4. TermsInv' /\ UniqueInv' /\ Ids' = Ids /\ Bools' = Bools /\ Lits' = Lits /\ terms' = terms
  BY <1>2, TermsStay DEF build
<1>5. TypesInv' /\ SolverInv'
  BY <1>2, <1>3, <1>4 DEF BInv, TypesInv, SolverInv, ClauseSet, Loop3
<1> QED BY <1>4, <1>5 DEF BInv

\* The steps that end a check or begin a round.
LEMMA ReturnKeeps ==
  ASSUME BInv, SolveFalse \/ SolveAbort \/ NoConflict
  PROVE  BInv'
<1>1. /\ UNCHANGED <<build, clauses, assumption>> /\ pc' = "idle"
      /\ answer' \in {"valid", "aborted", "invalid"}
  BY DEF SolveFalse, SolveAbort, NoConflict, Return
<1>2. TermsInv' /\ UniqueInv' /\ Ids' = Ids /\ Bools' = Bools /\ Lits' = Lits /\ terms' = terms
  BY <1>1, TermsStay DEF build
<1> QED BY <1>1, <1>2 DEF BInv, TypesInv, SolverInv, ClauseSet, Loop3

LEMMA SolveTrueKeeps ==
  ASSUME BInv, SolveTrue
  PROVE  BInv'
<1>1. /\ UNCHANGED <<build, clauses, assumption, answer>> /\ pc' = "merge" /\ pc = "solve"
      /\ model' \in [Bools -> Bit] /\ Sat(model') /\ mfset' = [i \in Ids |-> i]
  BY DEF SolveTrue
<1>2. TermsInv' /\ UniqueInv' /\ Ids' = Ids /\ Bools' = Bools /\ Lits' = Lits /\ terms' = terms
  BY <1>1, TermsStay DEF build
<1>3. Sat(model)'
  BY <1>1 DEF Sat
<1> QED BY <1>1, <1>2, <1>3 DEF BInv, TypesInv, SolverInv, ClauseSet, Loop3

\* Merging keeps together what was together.
LEMMA MergeKeeps ==
  ASSUME BInv, pc \in {"merge", "closure"}, NEW i \in Ids, NEW j \in Ids, Merge(i, j),
         UNCHANGED <<build, clauses, pc, assumption, model, answer>>
  PROVE  BInv'
<1>1. /\ TermsInv' /\ UniqueInv' /\ Ids' = Ids /\ Bools' = Bools /\ Lits' = Lits
      /\ terms' = terms /\ EqIds' = EqIds /\ \A e : Left(e)' = Left(e) /\ Right(e)' = Right(e)
  BY TermsStay DEF build
<1>2. model \in [Bools -> Bit] /\ mfset \in [Ids -> Ids] /\ Sat(model)
  BY DEF BInv, TypesInv, SolverInv, Loop3
<1>3. mfset' \in [Ids -> Ids]
  BY <1>2 DEF Merge
<1>4. TypesInv'
  BY <1>1, <1>2, <1>3 DEF BInv, TypesInv, ClauseSet, Loop3
<1>5. EqList' = EqList
  BY <1>1 DEF EqList
<1>6. ASSUME pc = "closure", NEW e \in EqList PROVE Same(Left(e), Right(e))'
  <2>1. Same(Left(e), Right(e)) /\ Left(e) \in Ids /\ Right(e) \in Ids
    BY <1>6, Sides DEF BInv, SolverInv, EqList
  <2> QED BY <1>1, <2>1 DEF Same, Merge
<1>7. SolverInv'
  <2>1. Sat(model)'
    BY <1>2 DEF Sat
  <2> QED BY <1>1, <1>5, <1>6, <2>1 DEF BInv, SolverInv, Loop3
<1> QED BY <1>1, <1>4, <1>7 DEF BInv

LEMMA FuncIn ==
  ASSUME TermsInv, NEW a \in DOMAIN mFuncList
  PROVE  mFuncList[a] \in Ids /\ terms[mFuncList[a]].op = "func"
BY DEF TermsInv, FuncIds

LEMMA PhaseKeeps ==
  ASSUME BInv, EndMerge \/ EndClosure
  PROVE  BInv'
<1>1. /\ UNCHANGED <<build, clauses, assumption, model, mfset, answer>>
      /\ \/ /\ pc = "merge" /\ pc' = "closure"
            /\ \A e \in EqList : Same(Left(e), Right(e))
         \/ /\ pc = "closure" /\ pc' = "conflict"
            /\ \A a, b \in DOMAIN mFuncList : ~Mergeable(a, b)
  BY DEF EndMerge, EndClosure
<1>2. /\ TermsInv' /\ UniqueInv' /\ Ids' = Ids /\ Bools' = Bools /\ Lits' = Lits
      /\ terms' = terms /\ EqIds' = EqIds /\ mFuncList' = mFuncList
      /\ \A e : Left(e)' = Left(e) /\ Right(e)' = Right(e)
  BY <1>1, TermsStay DEF build
<1>3. EqList' = EqList /\ \A a, b : Same(a, b)' = Same(a, b)
  BY <1>1, <1>2 DEF EqList, Same
<1>4. \A a, b : Mergeable(a, b)' = Mergeable(a, b)
  BY <1>1, <1>2 DEF Mergeable, Congruent, Same
<1>5. TypesInv'
  BY <1>1, <1>2 DEF BInv, TypesInv, ClauseSet, Loop3
<1>6. SolverInv'
  <2>1. Sat(model)'
    BY <1>1 DEF BInv, SolverInv, Sat, Loop3
  <2> QED BY <1>1, <1>2, <1>3, <1>4, <2>1 DEF BInv, SolverInv
<1> QED BY <1>2, <1>5, <1>6 DEF BInv

LEMMA RefineKeeps ==
  ASSUME BInv, Refine
  PROVE  BInv'
<1>1. /\ UNCHANGED <<build, assumption, answer>> /\ pc = "conflict" /\ pc' = "solve"
      /\ clauses' = clauses \cup {Lemma(e) : e \in Conflicts}
  BY DEF Refine
<1>2. TermsInv' /\ UniqueInv' /\ Ids' = Ids /\ Bools' = Bools /\ Lits' = Lits /\ terms' = terms
  BY <1>1, TermsStay DEF build
<1>3. ASSUME NEW e \in Conflicts PROVE Lemma(e) \subseteq Lits
  <2>1. \A q \in EqIds : q \in Bools
    BY Sides DEF BInv
  <2> QED BY <2>1 DEF Conflicts, NeqList, EqList, Lemma, Lit, Lits, Bit
<1> QED BY <1>1, <1>2, <1>3 DEF BInv, TypesInv, SolverInv, ClauseSet, Loop3

LEMMA LoopKeeps ==
  ASSUME BInv, Loop
  PROVE  BInv'
<1>1. ASSUME NEW e \in EqIds, MergeEq(e) PROVE BInv'
  <2>1. Left(e) \in Ids /\ Right(e) \in Ids
    BY Sides DEF BInv
  <2> QED BY <1>1, <2>1, MergeKeeps DEF MergeEq
<1>2. ASSUME NEW a \in DOMAIN mFuncList, NEW b \in DOMAIN mFuncList, MergeFunc(a, b) PROVE BInv'
  <2>1. mFuncList[a] \in Ids /\ mFuncList[b] \in Ids
    BY FuncIn DEF BInv
  <2> QED BY <1>2, <2>1, MergeKeeps DEF MergeFunc
<1> QED BY <1>1, <1>2, ReturnKeeps, SolveTrueKeeps, PhaseKeeps, RefineKeeps DEF Loop

LEMMA NextKeeps ==
  ASSUME BInv, [Next]_vars, EufAssumption
  PROVE  BInv'
<1>1. CASE Construct
  BY <1>1, ConstructKeeps DEF EufAssumption
<1>2. CASE UNCHANGED vars
  <2>1. UNCHANGED <<build, clauses, pc, assumption, model, mfset, answer>> /\ terms' = terms
        /\ mFuncList' = mFuncList
    BY <1>2 DEF vars, build
  <2>2. /\ TermsInv' /\ UniqueInv' /\ Ids' = Ids /\ Bools' = Bools /\ Lits' = Lits
        /\ EqIds' = EqIds /\ \A e : Left(e)' = Left(e) /\ Right(e)' = Right(e)
    BY <2>1, TermsStay
  <2>3. EqList' = EqList /\ (\A a, b : Same(a, b)' = Same(a, b)) /\ Sat(model)' = Sat(model)
    BY <2>1, <2>2 DEF EqList, Same, Sat
  <2>4. \A a, b : Mergeable(a, b)' = Mergeable(a, b)
    BY <2>1, <2>2 DEF Mergeable, Congruent, Same
  <2> QED BY <2>1, <2>2, <2>3, <2>4 DEF BInv, TypesInv, SolverInv, ClauseSet, Loop3
<1> QED BY <1>1, <1>2, CallKeeps, LoopKeeps DEF Next

\* The invariant of all managers, whatever names, symmetries and mixtures.
THEOREM BookkeepingInvariance ==
  ASSUME EufAssumption
  PROVE  Spec => []BInv
<1>1. Init => BInv
  <2> SUFFICES ASSUME Init PROVE BInv
    OBVIOUS
  <2> USE DEF Init
  <2>1. TermsInv /\ UniqueInv
    BY DEF TermsInv, UniqueInv, Ids, EqIds, FuncIds
  <2>2. TypesInv /\ SolverInv
    BY DEF TypesInv, SolverInv, ClauseSet, Loop3, Ids
  <2> QED BY <2>1, <2>2 DEF BInv
<1>2. BInv /\ [Next]_vars => BInv'
  BY NextKeeps
<1> QED BY <1>1, <1>2, PTL DEF Spec

\* No term is ever built twice, also not with the operands of an equality, a
\* gate or a symmetric function exchanged: looking a term up by its sorted
\* operands finds it.
THEOREM NoTwins ==
  ASSUME EufAssumption
  PROVE  Spec => []NoDuplicates
<1>1. BInv => NoDuplicates
  <2> SUFFICES ASSUME BInv PROVE NoDuplicates
    OBVIOUS
  <2>1. Ids = 1 .. Len(terms) /\ Len(terms) \in Nat /\ \A i \in Ids : terms[i] \in TermSet
    BY DEF BInv, TermsInv, Ids
  <2>2. TypeOK
    <3>1. mEqList \in Seq(Ids) /\ mFuncList \in Seq(Ids)
      BY DEF BInv, TermsInv, EqIds, FuncIds
    <3>2. \A i \in Ids : \A k \in DOMAIN terms[i].args : terms[i].args[k] \in 1 .. i - 1
      BY DEF BInv, TermsInv, WellFormed
    <3> QED BY <3>1, <3>2 DEF BInv, TermsInv, UniqueInv, TypesInv, TypeOK, ClauseSet, Loop3,
                              TermSet, Names
  <2>3. ASSUME NEW i \in Ids, NEW j \in Ids, terms[i].op = terms[j].op,
               terms[i].name = terms[j].name,
               \/ terms[i].args = terms[j].args
               \/ /\ Unordered(terms[i]) /\ Len(terms[i].args) = 2 /\ Len(terms[j].args) = 2
                  /\ terms[i].args = <<Right(j), Left(j)>>
        PROVE  i = j
    <3>1. terms[i] \in TermSet /\ terms[j] \in TermSet
      BY <2>1
    <3>2. terms[i].args = terms[j].args
      <4> SUFFICES ASSUME Unordered(terms[i]), Len(terms[i].args) = 2, Len(terms[j].args) = 2,
                          terms[i].args = <<Right(j), Left(j)>>
                   PROVE  terms[i].args = terms[j].args
        BY <2>3
      <4>1. Unordered(terms[j])
        BY <2>3 DEF Unordered
      <4>2. /\ terms[i].args[1] <= terms[i].args[2] /\ terms[j].args[1] <= terms[j].args[2]
        BY <4>1 DEF BInv, UniqueInv
      <4>3. terms[j].args \in Seq(Nat) /\ DOMAIN terms[j].args = {1, 2}
        BY <3>1 DEF TermSet
      <4>4. Left(j) = Right(j)
        BY <4>2, <4>3 DEF Left, Right
      <4> QED BY <4>3, <4>4, <3>1 DEF Left, Right, TermSet
    <3>3. terms[i] = terms[j]
      BY <2>3, <3>1, <3>2 DEF TermSet
    <3> QED BY <3>3 DEF BInv, UniqueInv
  <2> QED BY <2>2, <2>3 DEF NoDuplicates
<1> QED BY <1>1, BookkeepingInvariance, PTL

\* Each round of the loop of check_validity gives the solver a clause that its
\* last model violates.
THEOREM RoundsLearn == Spec => Learns
<1>1. Refine => ~\A c \in clauses' : \E l \in c : model[l[1]] = l[2]
  <2> SUFFICES ASSUME Refine PROVE \E c \in clauses' : ~\E l \in c : model[l[1]] = l[2]
    OBVIOUS
  <2>1. PICK e \in Conflicts : TRUE
    BY DEF Refine
  <2>2. Lemma(e) \in clauses'
    BY DEF Refine
  <2>3. model[e] = 0 /\ \A q \in EqList : model[q] = 1
    BY DEF Conflicts, NeqList, EqList
  <2>4. ~\E l \in Lemma(e) : model[l[1]] = l[2]
    BY <2>3 DEF Lemma, Lit
  <2> QED BY <2>2, <2>4
<1> QED BY <1>1, PTL DEF Spec, Learns
------------------------------------------------------------------------------
(***************************************************************************)
(* "Invalid", and the classes the closure loop ends with: an interpretation*)
(* is built from them, a value of its own for every class.                 *)
(***************************************************************************)
EnoughValues == \E h \in [Nat -> Values] : \A x, y \in Nat : h[x] = h[y] => x = y

\* Terms of the two sorts are kept apart and no function is symmetric: what the
\* closure loop, which compares arguments by position and does not look into
\* boolean terms, takes for granted.
Unmixed == Mixed = {} /\ SymNames = {}

Gates == {"con", "dis", "neg"}

\* w gives the gate i the value it has for w's values of its operands.
GateValue(w, i) ==
  LET t == terms[i]
      x == w[t.args[1]]
      y == w[t.args[2]]
  IN  /\ t.op = "con" => w[i] = IF x = 1 /\ y = 1 THEN 1 ELSE 0
      /\ t.op = "dis" => w[i] = IF x = 1 \/ y = 1 THEN 1 ELSE 0
      /\ t.op = "neg" => w[i] = IF x = 1 THEN 0 ELSE 1

\* The value of a boolean term, and one of the values for each class.
ByClass(w, h) == [i \in Ids |-> IF i \in Bools THEN w[i] ELSE h[mfset[i]]]

LEMMA GateArgs ==
  ASSUME TermsInv, NEW i \in Ids, terms[i].op \in Gates
  PROVE  /\ i \in Bools /\ i \in Nat
         /\ terms[i].args[1] \in Bools /\ terms[i].args[1] < i
         /\ terms[i].args[2] \in Bools /\ terms[i].args[2] < i
<1>1. /\ terms[i] \in TermSet /\ WellFormed(terms, i)
      /\ Ids = 1 .. Len(terms) /\ Len(terms) \in Nat
  BY DEF TermsInv, Ids
<1>2. Len(terms[i].args) = 2 /\ DOMAIN terms[i].args = {1, 2}
  BY <1>1 DEF WellFormed, TermSet, Gates
<1>3. \A k \in {1, 2} : terms[i].args[k] \in 1 .. i - 1 /\ IsBool(terms[terms[i].args[k]])
  BY <1>1, <1>2 DEF WellFormed, Gates
<1> QED BY <1>1, <1>3 DEF Bools, IsBool, Gates

\* Once the closure is complete, its classes are those of an interpretation, for
\* any values of the booleans that respect the gates and the equalities.
LEMMA ClassesInterpret ==
  ASSUME BInv, pc = "conflict", Unmixed, Bit \subseteq Values,
         NEW h \in [Nat -> Values], \A x, y \in Nat : h[x] = h[y] => x = y,
         NEW w \in [Bools -> Bit], \A i \in Ids : GateValue(w, i),
         \A e \in EqIds : w[e] = IF Same(Left(e), Right(e)) THEN 1 ELSE 0
  PROVE  ByClass(w, h) \in Interps
<1> DEFINE v == ByClass(w, h)
<1>1. /\ Ids = 1 .. Len(terms) /\ Len(terms) \in Nat /\ mfset \in [Ids -> Ids]
      /\ \A i \in Ids : terms[i] \in TermSet /\ WellFormed(terms, i) /\ Plain(terms, i)
  BY DEF BInv, TermsInv, Ids, TypesInv, SolverInv, Loop3, Unmixed
<1>2. /\ v \in [Ids -> Values]
      /\ \A i \in Bools : v[i] = w[i]
      /\ \A i \in Ids \ Bools : v[i] = h[mfset[i]]
  BY <1>1 DEF ByClass, Bools
<1>3. \A i, j \in Ids \ Bools : v[i] = v[j] <=> Same(i, j)
  BY <1>1, <1>2 DEF Same
<1> HIDE DEF v
<1>4. ASSUME NEW i \in Ids PROVE Meaning(terms, v, i)
  <2>1. terms[i].op = "bvar" => v[i] \in Bit
    BY <1>2 DEF Bools, IsBool
  <2>2. ASSUME terms[i].op = "func", NEW j \in Ids, terms[j].op = "func",
               SameArgs(v, terms[i], terms[j])
        PROVE  v[i] = v[j]
    <3>1. i \notin Bools /\ j \notin Bools
      BY <2>2 DEF Bools, IsBool
    <3>2. /\ Len(terms[i].args) = Len(terms[j].args)
          /\ DOMAIN terms[i].args = DOMAIN terms[j].args
          /\ \A k \in DOMAIN terms[i].args : v[terms[i].args[k]] = v[terms[j].args[k]]
      BY <1>1, <2>2 DEF SameArgs, Unmixed, TermSet
    <3>3. \A k \in DOMAIN terms[i].args : /\ terms[i].args[k] \in Ids \ Bools
                                          /\ terms[j].args[k] \in Ids \ Bools
      <4>1. \A k \in DOMAIN terms[i].args : /\ terms[i].args[k] \in 1 .. i - 1
                                            /\ ~IsBool(terms[terms[i].args[k]])
        BY <1>1, <2>2 DEF WellFormed, Plain
      <4>2. \A k \in DOMAIN terms[j].args : /\ terms[j].args[k] \in 1 .. j - 1
                                            /\ ~IsBool(terms[terms[j].args[k]])
        BY <1>1, <2>2 DEF WellFormed, Plain
      <4> QED BY <1>1, <3>2, <4>1, <4>2 DEF Bools
    <3>4. Congruent(i, j) /\ Congruent(j, i)
      BY <1>3, <3>2, <3>3 DEF Congruent, Same
    <3>5. PICK a \in DOMAIN mFuncList, b \in DOMAIN mFuncList :
            mFuncList[a] = i /\ mFuncList[b] = j
      <4>1. i \in FuncIds /\ j \in FuncIds
        BY <2>2 DEF BInv, UniqueInv
      <4> QED BY <4>1 DEF FuncIds
    <3>6. ~Mergeable(a, b) /\ ~Mergeable(b, a)
      BY DEF BInv, SolverInv
    <3>7. a \in Nat /\ b \in Nat
      BY DEF BInv, TermsInv
    <3>8. Same(i, j)
      <4>1. CASE a = b
        BY <3>5, <4>1 DEF Same
      <4>2. CASE a # b
        BY <3>4, <3>5, <3>6, <3>7, <4>2 DEF Mergeable, Same
      <4> QED BY <4>1, <4>2
    <3> QED BY <1>3, <2>2, <3>1, <3>8
  <2>3. terms[i].op = "eq" =>
          v[i] = IF v[terms[i].args[1]] = v[terms[i].args[2]] THEN 1 ELSE 0
    <3> SUFFICES ASSUME terms[i].op = "eq"
                 PROVE  v[i] = IF v[Left(i)] = v[Right(i)] THEN 1 ELSE 0
      BY DEF Left, Right
    <3>1. i \in EqIds
      BY DEF BInv, UniqueInv
    <3>2. i \in Bools /\ Left(i) \in Ids /\ Right(i) \in Ids /\ DOMAIN terms[i].args = {1, 2}
      BY <3>1, Sides DEF BInv
    <3>3. Left(i) \notin Bools /\ Right(i) \notin Bools
      BY <1>1, <3>2 DEF Plain, Left, Right, Bools
    <3> QED BY <1>2, <1>3, <3>1, <3>2, <3>3
  <2>4. ASSUME terms[i].op \in Gates
        PROVE  v[i] = w[i] /\ v[terms[i].args[1]] = w[terms[i].args[1]]
               /\ v[terms[i].args[2]] = w[terms[i].args[2]]
    BY <1>2, <2>4, GateArgs DEF BInv
  <2> QED BY <2>1, <2>2, <2>3, <2>4 DEF Meaning, GateValue, Gates, Ids
<1> QED BY <1>2, <1>4 DEF Interps, Interprets, v

\* The model of the solver respects the gates.
LEMMA ModelGates ==
  ASSUME BInv, Loop3, NEW i \in Ids
  PROVE  GateValue(model, i)
<1>1. model \in [Bools -> Bit] /\ Sat(model) /\ GateClauses(terms, i) \subseteq clauses
  BY DEF BInv, TypesInv, SolverInv
<1>2. CASE terms[i].op \in Gates
  <2>1. PICK x, y : x = terms[i].args[1] /\ y = terms[i].args[2]
    OBVIOUS
  <2>2. model[i] \in Bit /\ model[x] \in Bit /\ model[y] \in Bit
    BY <1>1, <1>2, <2>1, GateArgs DEF BInv
  <2>3. \A c \in GateClauses(terms, i) : \E l \in c : True(model, l)
    BY <1>1 DEF Sat, True
  <2>4. CASE terms[i].op = "con"
    <3>1. \A c \in ConClauses(i, x, y) : \E l \in c : True(model, l)
      BY <2>1, <2>3, <2>4 DEF GateClauses
    <3>2. /\ model[x] = 0 \/ model[y] = 0 \/ model[i] = 1
          /\ model[x] = 1 \/ model[i] = 0
          /\ model[y] = 1 \/ model[i] = 0
      BY <3>1, TrueLit DEF ConClauses
    <3> QED BY <2>1, <2>2, <2>4, <3>2 DEF GateValue, Bit
  <2>5. CASE terms[i].op = "dis"
    <3>1. \A c \in DisClauses(i, x, y) : \E l \in c : True(model, l)
      BY <2>1, <2>3, <2>5 DEF GateClauses
    <3>2. /\ model[x] = 1 \/ model[y] = 1 \/ model[i] = 0
          /\ model[x] = 0 \/ model[i] = 1
          /\ model[y] = 0 \/ model[i] = 1
      BY <3>1, TrueLit DEF DisClauses
    <3> QED BY <2>1, <2>2, <2>5, <3>2 DEF GateValue, Bit
  <2>6. CASE terms[i].op = "neg"
    <3>1. \A c \in NegClauses(i, x) : \E l \in c : True(model, l)
      BY <2>1, <2>3, <2>6 DEF GateClauses
    <3>2. (model[x] = 1 \/ model[i] = 1) /\ (model[x] = 0 \/ model[i] = 0)
      BY <3>1, TrueLit DEF NegClauses
    <3> QED BY <2>1, <2>2, <2>6, <3>2 DEF GateValue, Bit
  <2> QED BY <1>2, <2>4, <2>5, <2>6 DEF Gates
<1>3. CASE terms[i].op \notin Gates
  BY <1>3 DEF GateValue, Gates
<1> QED BY <1>2, <1>3

\* When nothing contradicts the model, an interpretation agrees with it.
LEMMA NoConflictInvalid ==
  ASSUME BInv, NoConflict, Unmixed, EnoughValues, Bit \subseteq Values
  PROVE  InvalidIsRight'
<1>1. /\ UNCHANGED <<build, assumption>> /\ pc = "conflict" /\ Conflicts = {} /\ Loop3
      /\ model \in [Bools -> Bit] /\ Sat(model) /\ assumption \subseteq Lits
  BY DEF NoConflict, BInv, TypesInv, SolverInv, Loop3
<1>2. PICK h \in [Nat -> Values] : \A x, y \in Nat : h[x] = h[y] => x = y
  BY DEF EnoughValues
<1>3. \A e \in EqIds : model[e] = IF Same(Left(e), Right(e)) THEN 1 ELSE 0
  <2> SUFFICES ASSUME NEW e \in EqIds
               PROVE  model[e] = IF Same(Left(e), Right(e)) THEN 1 ELSE 0
    OBVIOUS
  <2>1. model[e] \in Bit
    BY <1>1, Sides DEF BInv
  <2>2. model[e] = 1 => Same(Left(e), Right(e))
    BY <1>1 DEF BInv, SolverInv, EqList
  <2>3. model[e] = 0 => ~Same(Left(e), Right(e))
    BY <1>1 DEF Conflicts, NeqList
  <2> QED BY <2>1, <2>2, <2>3 DEF Bit
<1>4. ByClass(model, h) \in Interps
  BY <1>1, <1>2, <1>3, ModelGates, ClassesInterpret
<1>5. \A l \in assumption : True(ByClass(model, h), l)
  BY <1>1 DEF Lits, ByClass, Bools, Sat, True
<1>6. Interps' = Interps /\ assumption' = assumption
  BY <1>1, TermsStay
<1> QED BY <1>4, <1>5, <1>6 DEF InvalidIsRight, True

\* "Invalid" is a right answer, for any number of rounds, when the two sorts are
\* kept apart and no function is symmetric; the functions may have any names.
THEOREM InvalidAnswers ==
  ASSUME EufAssumption, Unmixed, EnoughValues
  PROVE  Spec => []InvalidIsRight
<1>1. Init => InvalidIsRight
  BY DEF Init, InvalidIsRight
<1>2. BInv /\ InvalidIsRight /\ [Next]_vars => InvalidIsRight'
  <2> SUFFICES ASSUME BInv, InvalidIsRight, [Next]_vars PROVE InvalidIsRight'
    OBVIOUS
  <2>1. CASE answer' # "invalid"
    BY <2>1 DEF InvalidIsRight
  <2>2. CASE NoConflict
    BY <2>2, NoConflictInvalid DEF EufAssumption
  <2>3. CASE UNCHANGED <<build, assumption, answer>>
    <3>1. Interps' = Interps
      BY <2>3, TermsStay
    <3> QED BY <2>3, <3>1 DEF InvalidIsRight, True
  <2>4. CASE Construct
    <3>1. answer' = "none"
      BY <2>4, ConstructAdds DEF BInv, Adds, Put, EufAssumption
    <3> QED BY <2>1, <3>1
  <2>5. CASE Call
    BY <2>1, <2>5 DEF Call, CheckValidity
  <2>6. CASE Loop
    BY <2>1, <2>2, <2>3, <2>6 DEF Loop, SolveFalse, SolveAbort, SolveTrue, MergeEq, EndMerge,
       MergeFunc, EndClosure, Refine, Return
  <2>7. CASE UNCHANGED vars
    BY <2>3, <2>7 DEF vars, build
  <2> QED BY <2>4, <2>5, <2>6, <2>7 DEF Next
<1> QED BY <1>1, <1>2, BookkeepingInvariance, PTL DEF Spec
------------------------------------------------------------------------------
(***************************************************************************)
(* Booleans with chosen values: every gate can be given its value, from the*)
(* first term to the last.                                                 *)
(***************************************************************************)
\* The set form of the least number principle.
LEMMA LeastNumber ==
  ASSUME NEW S, S \subseteq Nat, S # {}
  PROVE  \E i \in S : \A j \in S : i <= j
<1> DEFINE Less == {q \in Nat \X Nat : q[1] < q[2]}
<1>1. IsWellFoundedOn(Less, Nat)
  BY NatLessThanWellFounded, Zenon DEF OpToRel
<1>2. PICK i \in S : \A j \in S : <<j, i>> \notin Less
  <2> HIDE DEF Less
  <2> QED BY <1>1, WFMin
<1>3. \A x, y \in Nat : <<x, y>> \notin Less => y <= x
  OBVIOUS
<1>4. \A j \in S : i <= j
  <2> HIDE DEF Less
  <2> QED BY <1>2, <1>3
<1> QED BY <1>4

\* w respects the gate i, or takes the chosen value g[i] of another term.
Chosen(w, g, i) ==
  GateValue(w, i) /\ (terms[i].op \notin Gates => w[i] = g[i])

LEMMA NextValue ==
  ASSUME TermsInv, NEW g \in [Ids -> Bit], NEW n \in Ids, NEW w \in [Ids -> Bit],
         \A i \in 1 .. n - 1 : Chosen(w, g, i)
  PROVE  \E u \in [Ids -> Bit] : \A i \in 1 .. n : Chosen(u, g, i)
<1>1. Ids = 1 .. Len(terms) /\ Len(terms) \in Nat /\ n \in Nat
  BY DEF TermsInv, Ids
<1>2. PICK x, y : x = terms[n].args[1] /\ y = terms[n].args[2]
  OBVIOUS
<1> DEFINE b == CASE terms[n].op = "con" -> IF w[x] = 1 /\ w[y] = 1 THEN 1 ELSE 0
                  [] terms[n].op = "dis" -> IF w[x] = 1 \/ w[y] = 1 THEN 1 ELSE 0
                  [] terms[n].op = "neg" -> IF w[x] = 1 THEN 0 ELSE 1
                  [] OTHER -> g[n]
           u == [w EXCEPT ![n] = b]
<1>3. b \in Bit
  BY DEF Bit
<1>4. u \in [Ids -> Bit] /\ u[n] = b /\ \A i \in Ids : i # n => u[i] = w[i]
  BY <1>3
<1>5. Chosen(u, g, n)
  <2>1. terms[n].op \in Gates => u[x] = w[x] /\ u[y] = w[y]
    BY <1>1, <1>2, <1>4, GateArgs DEF Bools
  <2> HIDE DEF u
  <2> QED BY <1>2, <1>4, <2>1 DEF Chosen, GateValue, Gates
<1> HIDE DEF u, b
<1>6. ASSUME NEW i \in 1 .. n - 1 PROVE Chosen(u, g, i)
  <2>1. i \in Ids /\ i # n /\ Chosen(w, g, i)
    BY <1>1
  <2>2. terms[i].op \in Gates =>
          u[terms[i].args[1]] = w[terms[i].args[1]] /\ u[terms[i].args[2]] = w[terms[i].args[2]]
    <3> SUFFICES ASSUME terms[i].op \in Gates
                 PROVE  u[terms[i].args[1]] = w[terms[i].args[1]]
                        /\ u[terms[i].args[2]] = w[terms[i].args[2]]
      OBVIOUS
    <3>1. /\ terms[i].args[1] \in Ids /\ terms[i].args[1] < i
          /\ terms[i].args[2] \in Ids /\ terms[i].args[2] < i
      BY <2>1, GateArgs DEF Bools
    <3>2. terms[i].args[1] # n /\ terms[i].args[2] # n
      BY <1>1, <3>1
    <3> QED BY <1>4, <3>1, <3>2
  <2> QED BY <1>4, <2>1, <2>2 DEF Chosen, GateValue, Gates
<1>7. \A i \in 1 .. n : Chosen(u, g, i)
  BY <1>1, <1>5, <1>6
<1> QED BY <1>4, <1>7

LEMMA GatesCanBeValued ==
  ASSUME TermsInv, NEW g \in [Ids -> Bit]
  PROVE  \E w \in [Ids -> Bit] : \A i \in Ids : Chosen(w, g, i)
<1>1. Ids = 1 .. Len(terms) /\ Len(terms) \in Nat
  BY DEF TermsInv, Ids
<1> DEFINE Bad == {n \in 0 .. Len(terms) :
                     ~\E w \in [Ids -> Bit] : \A i \in 1 .. n : Chosen(w, g, i)}
<1>2. CASE Bad = {}
  <2>1. Len(terms) \notin Bad
    BY <1>2
  <2> QED BY <1>1, <2>1
<1>3. CASE Bad # {}
  <2>1. PICK n \in Bad : \A m \in Bad : n <= m
    <3>1. Bad \subseteq Nat
      BY <1>1
    <3> HIDE DEF Bad
    <3> QED BY <1>3, <3>1, LeastNumber
  <2>2. n # 0
    <3>1. \A i \in 1 .. 0 : Chosen(g, g, i)
      OBVIOUS
    <3> QED BY <3>1
  <2>3. n \in Ids /\ n - 1 \in 0 .. Len(terms) /\ n - 1 < n
    BY <1>1, <2>2
  <2>4. n - 1 \notin Bad
    <3> HIDE DEF Bad
    <3> QED BY <2>1, <2>3, <1>1
  <2>5. PICK w \in [Ids -> Bit] : \A i \in 1 .. n - 1 : Chosen(w, g, i)
    BY <2>3, <2>4
  <2>6. \E u \in [Ids -> Bit] : \A i \in 1 .. n : Chosen(u, g, i)
    BY <2>3, <2>5, NextValue
  <2> QED BY <2>6
<1> QED BY <1>2, <1>3

\* Two classes the closure has not merged differ in some interpretation of
\* eq_list.
LEMMA ClassesDiffer ==
  ASSUME BInv, pc = "conflict", Unmixed, EnoughValues, Bit \subseteq Values,
         NEW i \in Ids \ Bools, NEW j \in Ids \ Bools, ~Same(i, j)
  PROVE  \E v \in Interps : (\A e \in EqList : v[e] = 1) /\ v[i] # v[j]
<1>1. PICK h \in [Nat -> Values] : \A x, y \in Nat : h[x] = h[y] => x = y
  BY DEF EnoughValues
<1>2. /\ Ids = 1 .. Len(terms) /\ Len(terms) \in Nat /\ mfset \in [Ids -> Ids]
      /\ \A e \in EqList : Same(Left(e), Right(e))
  BY DEF BInv, TermsInv, Ids, TypesInv, SolverInv, Loop3
<1> DEFINE g == [k \in Ids |-> IF Same(Left(k), Right(k)) THEN 1 ELSE 0]
<1>3. g \in [Ids -> Bit]
  BY DEF Bit
<1>4. PICK w \in [Ids -> Bit] : \A k \in Ids : Chosen(w, g, k)
  <2> HIDE DEF g
  <2> QED BY <1>3, GatesCanBeValued DEF BInv
<1> DEFINE u == [k \in Bools |-> w[k]]
           v == ByClass(u, h)
<1>5. u \in [Bools -> Bit] /\ \A k \in Bools : u[k] = w[k]
  BY <1>4 DEF Bools
<1>6. \A e \in EqIds : u[e] = IF Same(Left(e), Right(e)) THEN 1 ELSE 0
  <2> SUFFICES ASSUME NEW e \in EqIds
               PROVE  w[e] = IF Same(Left(e), Right(e)) THEN 1 ELSE 0
    BY <1>5, Sides DEF BInv
  <2>1. e \in Ids /\ terms[e].op \notin Gates
    BY DEF BInv, TermsInv, Gates
  <2>2. w[e] = g[e]
    <3> HIDE DEF g
    <3> QED BY <1>4, <2>1 DEF Chosen
  <2> QED BY <2>1, <2>2
<1>7. ASSUME NEW k \in Ids PROVE GateValue(u, k)
  <2> HIDE DEF g, u
  <2>1. GateValue(w, k)
    BY <1>4 DEF Chosen
  <2> QED BY <1>5, <2>1, GateArgs DEF GateValue, Gates, BInv
<1>8. v \in Interps
  <2> HIDE DEF u, v, g
  <2>1. ByClass(u, h) \in Interps
    BY <1>1, <1>5, <1>6, <1>7, ClassesInterpret
  <2> QED BY <2>1 DEF v
<1>9. \A e \in EqList : v[e] = 1
  <2> SUFFICES ASSUME NEW e \in EqList PROVE v[e] = 1
    OBVIOUS
  <2>1. e \in EqIds /\ e \in Bools /\ e \in Ids
    BY Sides DEF EqList, BInv, Bools
  <2>2. v[e] = u[e]
    BY <2>1 DEF ByClass
  <2> HIDE DEF v, u, g
  <2> QED BY <1>2, <1>6, <2>1, <2>2
<1>10. v[i] # v[j]
  <2>1. v[i] = h[mfset[i]] /\ v[j] = h[mfset[j]]
    BY DEF ByClass
  <2> HIDE DEF v
  <2> QED BY <1>1, <1>2, <2>1 DEF Same
<1> QED BY <1>8, <1>9, <1>10

\* The classes the closure loop ends with are exact: terms of one class are equal
\* in every interpretation of eq_list, and only those are.
THEOREM ClosureIsExact ==
  ASSUME EufAssumption, OneName, Unmixed, EnoughValues
  PROVE  Spec => []ClosureExact
<1>1. BInv /\ EInv => ClosureExact
  <2> SUFFICES ASSUME BInv, EInv, pc = "conflict", NEW i \in Ids \ Bools, NEW j \in Ids \ Bools
               PROVE  LET V == {v \in Interps : \A e \in EqList : v[e] = 1}
                      IN  Same(i, j) <=> \A v \in V : v[i] = v[j]
    BY DEF ClosureExact
  <2>1. Same(i, j) => \A v \in Interps : (\A e \in EqList : v[e] = 1) => v[i] = v[j]
    BY DEF EInv, LoopInv, Loop3
  <2>2. ~Same(i, j) => \E v \in Interps : (\A e \in EqList : v[e] = 1) /\ v[i] # v[j]
    BY ClassesDiffer DEF EufAssumption
  <2> QED BY <2>1, <2>2
<1> QED BY <1>1, EufInvariance, BookkeepingInvariance, PTL
=============================================================================
