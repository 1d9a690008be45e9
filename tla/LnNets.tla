------------------------------- MODULE LnNets -------------------------------
(***************************************************************************)
(* Networks, matchers and functions for the instances of LnMatch.          *)
(***************************************************************************)
EXTENDS LnMatch

\* new_input twice or three times.
In2 == NewInput(NewInput(EmptyNet))
In3 == NewInput(In2)
Pos(i) == Handle(i + 1, FALSE)

Lut2 == LET n == NewLut(In2, <<Pos(0), Pos(1)>>) IN SetOutput(n, LastNode(n))

\* Two tables, the first on inputs 0 and 1; the inverted output.
TwoLuts ==
  LET n1 == NewLut(In3, <<Pos(0), Pos(1)>>)
      n2 == NewLut(n1, <<LastNode(n1), Pos(2)>>)
  IN  SetOutput(n2, Negated(LastNode(n2)))

\* An AND gate in front of a table.
AndLut(inv) ==
  LET n1 == NewAnd(In3, Pos(0), Handle(2, inv))
      n2 == NewLut(n1, <<Pos(2), LastNode(n1)>>)
  IN  SetOutput(n2, LastNode(n2))

\* Inputs 0 and 1 of all but the last are interchangeable.
Ordered(n) == SetInputPred(n, 1, 0)

S(c, h, e) == [core |-> c, how |-> h, code |-> e]
M(s, min, two, three) ==
  [solver |-> s, min |-> min, max |-> 3,
   templs |-> [k \in 2 .. 3 |-> IF k = 2 THEN two ELSE three]]

MCSolvers == Names

\* A function of n variables from its condition on the values.
F(n, Cond(_)) == [num |-> n, true |-> {p \in SUBSET (0 .. n - 1) : Cond(p)}]
MCGoals ==
  {F(3, LAMBDA p : 0 \in p \/ {1, 2} \subseteq p),            \* x0 + x1 x2
   F(3, LAMBDA p : 1 \in p /\ (0 \in p) # (2 \in p)),         \* x1 (x0 xor x2)
   F(3, LAMBDA p : Cardinality(p) >= 2),                      \* the majority
   F(3, LAMBDA p : IF 2 \in p THEN 0 \in p ELSE 1 \in p),     \* a selector
   F(3, LAMBDA p : 0 \notin p /\ 1 \in p /\ 2 \notin p),
   F(3, LAMBDA p : 0 \notin p /\ 2 \in p),                    \* not of x1
   F(3, LAMBDA p : 1 \in p),
   F(4, LAMBDA p : {0, 1, 2, 3} \subseteq p)}
=============================================================================
