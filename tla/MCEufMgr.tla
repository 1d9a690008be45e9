----------------------------- MODULE MCEufMgr -----------------------------
(***************************************************************************)
(* Instances of EufMgr: which names and operators the terms are built of.  *)
(***************************************************************************)
EXTENDS EufMgr, TLC

CONSTANTS a, b, c

NamesAB  == {a, b}
NameA    == {a}
NameC    == {c}
SymVars  == Permutations(VarNames)

\* Bounds by operator; nc, nd, nn for "con", "dis" and "neg".
MostOf(nv, nb, nf, ne, nc, nd, nn) ==
  [o \in Operators |-> CASE o = "var" -> nv [] o = "bvar" -> nb [] o = "func" -> nf
                         [] o = "eq" -> ne [] o = "con" -> nc [] o = "dis" -> nd
                         [] o = "neg" -> nn]

AllOps   == MostOf(2, 1, 2, 2, 1, 1, 1)
TwoFuncs == MostOf(2, 0, 2, 2, 0, 0, 0)
BoolEqs  == MostOf(0, 2, 0, 1, 0, 0, 0)
------------------------------------------------------------------------------
(***************************************************************************)
(* The instance euf: every term manager of one of two families, functions  *)
(* and equalities checked under at most one assumption, or gates over one  *)
(* equality, checked once there are four terms. The names a and b are      *)
(* interchangeable, so b is used after a.                                  *)
(***************************************************************************)
OpsUsed    == {terms[i].op : i \in Ids}
Created(o) == Cardinality({i \in Ids : terms[i].op = o})
InOrder    == \A i \in Ids : terms[i].name = b => \E j \in 1 .. i : terms[j].name = a

FunctionTerms == OpsUsed \subseteq {"var", "func", "eq"}
GateTerms     ==
  /\ "func" \notin OpsUsed /\ Created("var") <= 1 /\ Created("eq") <= 1
  /\ pc # "idle" => Len(terms) >= 4 /\ Cardinality(assumption) = 1

MCNext == Next /\ InOrder' /\ (FunctionTerms \/ GateTerms)'
MCSpec == Init /\ [][MCNext]_vars /\ WF_vars(Loop)
=============================================================================
