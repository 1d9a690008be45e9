----------------------------- MODULE MCLnMatch -----------------------------
(***************************************************************************)
(* Instances of LnMatch: templates of one and two 2-input tables and of an *)
(* AND gate and a table, and functions of up to four variables; with them, *)
(* the symmetries of the real templates.                                   *)
(***************************************************************************)
EXTENDS LnNets, LutTempl

Ands == <<AndLut(TRUE), Ordered(AndLut(FALSE))>>
Both == Append(Ands, Ordered(TwoLuts))
OneHots ==
  {M(S("sat", "naive", "onehot"), 2, <<Ordered(Lut2)>>, Both),
   M(S("sat", "cegar", "onehot"), 2, <<Ordered(Lut2)>>, Both),
   M(S("bdd", "cegar", "onehot"), 2, <<Lut2>>, <<AndLut(TRUE)>>)}
Binaries ==
  {M(S("sat", h, "binary"), 3, <<>>, Ands) : h \in {"naive", "cegar"}}
Enums ==
  {M(S("sat", "naive", "enum"), 2, <<Ordered(Lut2)>>, <<Ordered(TwoLuts)>>),
   M(S("sat", "cegar", "enum"), 2, <<Ordered(Lut2)>>, <<>>),
   M(S("bdd", "cegar", "enum"), 2, <<Ordered(Lut2)>>, <<AndLut(TRUE), Ordered(TwoLuts)>>)}

MCMatchers == OneHots \cup Binaries \cup Enums

ASSUME UsableAssumption == MatchersUsable
ASSUME ShapeAssumption  == MatchersShaped /\ GoalsShaped
------------------------------------------------------------------------------
\* The templates: whatever variables are on their inputs, the order in which the
\* solvers look for them, predecessors first, leaves one of the equivalent
\* arrangements; but not for d1 and d2, where two pairs of inputs are only
\* interchangeable together.
LosesOrders(t) == t.class = "444" /\ t.name \in {"d1", "d2"}
KeptOrders == \A t \in Templates443 \cup Templates444 : KeepsOrders(MakeLut(t)) <=> ~LosesOrders(t)
TemplatesKeepOrders == lpc = "idle" => KeptOrders
=============================================================================
