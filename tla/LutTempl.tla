------------------------------ MODULE LutTempl ------------------------------
(***************************************************************************)
(* The templates of Lut443Match and Lut444Match (programs/enumcut/         *)
(* recordcut): two 4-input tables that feed a third, with inputs shared in *)
(* the ways ids says, and the groups of interchangeable inputs sym.        *)
(***************************************************************************)
EXTENDS RcfNet, Functions, TLC

Sq == INSTANCE SequencesExt

\* One template: its class, name, number of inputs, id list and symmetry list.
T(class, name, n, ids, sym) ==
  [class |-> class, name |-> name, num |-> n, ids |-> ids, sym |-> sym]

NewInputs(num) == Sq!FoldLeft(LAMBDA n, i : NewInput(n), EmptyNet, [i \in 1 .. num |-> i])

FromInputs(n, ids) == [k \in DOMAIN ids |-> Input(n, ids[k])]

\* One element of sym_list: it opens a group, closes it, ends the list, or has
\* the one before it in the group as predecessor. Mutant: the predecessor is
\* kept when a group is closed, so the next group continues it.
SymStepKept(num, a, e) ==
  CASE a.ended            -> a
    [] a.pos0 = -1 /\ e = num -> [a EXCEPT !.ended = TRUE]
    [] a.pos0 = -1        -> [a EXCEPT !.pos0 = e, !.pred = e,
                                       !.net = IF a.pred = -1 THEN @ ELSE SetInputPred(@, e, a.pred)]
    [] e = a.pos0         -> [a EXCEPT !.pos0 = -1]
    [] OTHER              -> [a EXCEPT !.pred = e, !.net = SetInputPred(@, e, a.pred)]

SymStep(num, a, e) ==
  CASE a.ended            -> a
    [] a.pos0 = -1 /\ e = num -> [a EXCEPT !.ended = TRUE]
    [] a.pos0 = -1        -> [a EXCEPT !.pos0 = e, !.pred = e]
    [] e = a.pos0         -> [a EXCEPT !.pos0 = -1]
    [] OTHER              -> [a EXCEPT !.pred = e, !.net = SetInputPred(@, e, a.pred)]

WithPreds(n, num, sym) ==
  Sq!FoldLeft(LAMBDA a, e : SymStep(num, a, e),
              [net |-> n, pos0 |-> -1, pred |-> -1, ended |-> FALSE], sym).net

\* make_lut443 and make_lut444: the third table has one or two direct inputs.
MakeLut(t) ==
  LET n0   == NewInputs(t.num)
      n1   == NewLut(n0, FromInputs(n0, SubSeq(t.ids, 1, 4)))
      lut1 == LastNode(n1)
      n2   == NewLut(n1, FromInputs(n0, SubSeq(t.ids, 5, 8)))
      lut2 == LastNode(n2)
      n3   == NewLut(n2, <<lut1, lut2>> \o FromInputs(n0, SubSeq(t.ids, 9, Len(t.ids))))
  IN  WithPreds(SetOutput(n3, LastNode(n3)), t.num, t.sym)

\* The constructors' calls with six and seven inputs.
Templates443 ==
  {T("443", "a2", 7, <<0, 1, 2, 3, 0, 1, 4, 5, 6>>, <<0, 1, 0, 2, 3, 2, 4, 5, 4, 2, 4, 2, 7>>),
   T("443", "a3", 6, <<0, 1, 2, 3, 0, 1, 2, 4, 5>>, <<0, 1, 2, 0, 3, 4, 3, 6>>),
   T("443", "b1", 7, <<0, 1, 2, 3, 1, 4, 5, 6, 0>>, <<2, 3, 2, 4, 5, 6, 4, 7>>),
   T("443", "b2", 6, <<0, 1, 2, 3, 1, 2, 4, 5, 0>>, <<1, 2, 1, 4, 5, 4, 6>>),
   T("443", "c0", 7, <<0, 1, 2, 3, 0, 4, 5, 6, 0>>, <<1, 2, 3, 1, 4, 5, 6, 4, 1, 4, 1, 7>>),
   T("443", "c1", 6, <<0, 1, 2, 3, 0, 1, 4, 5, 0>>, <<2, 3, 2, 4, 5, 4, 2, 4, 2, 6>>)}
Templates444 ==
  {T("444", "a3", 7, <<0, 1, 2, 3, 0, 1, 2, 4, 5, 6>>, <<0, 1, 2, 0, 3, 4, 3, 5, 6, 5, 7>>),
   T("444", "a4", 6, <<0, 1, 2, 3, 0, 1, 2, 3, 4, 5>>, <<0, 1, 2, 3, 0, 4, 5, 4, 6>>),
   T("444", "b2", 7, <<0, 1, 2, 3, 1, 2, 4, 5, 0, 6>>, <<1, 2, 1, 4, 5, 4, 7>>),
   T("444", "b3", 6, <<0, 1, 2, 3, 1, 2, 3, 4, 0, 5>>, <<1, 2, 3, 1, 6>>),
   T("444", "c1", 7, <<0, 1, 2, 3, 2, 4, 5, 6, 0, 1>>, <<0, 1, 0, 4, 5, 6, 4, 7>>),
   T("444", "c2", 6, <<0, 1, 2, 3, 2, 3, 4, 5, 0, 1>>, <<0, 1, 0, 2, 3, 2, 4, 5, 4, 6>>),
   T("444", "d1", 7, <<0, 1, 2, 3, 4, 1, 5, 6, 0, 4>>, <<2, 3, 2, 5, 6, 5, 0, 4, 0, 2, 5, 2, 7>>),
   T("444", "d2", 6, <<0, 1, 2, 3, 4, 1, 2, 5, 0, 4>>, <<1, 2, 1, 0, 4, 0, 3, 5, 3, 6>>),
   T("444", "e1", 7, <<0, 1, 2, 3, 0, 1, 4, 5, 0, 6>>, <<2, 3, 2, 4, 5, 4, 2, 4, 2, 7>>),
   T("444", "e2", 6, <<0, 1, 2, 3, 0, 1, 2, 4, 0, 5>>, <<1, 2, 1, 3, 4, 3, 6>>),
   T("444", "f0", 7, <<0, 1, 2, 3, 0, 4, 5, 6, 0, 1>>, <<2, 3, 2, 4, 5, 6, 4, 7>>),
   T("444", "f1", 6, <<0, 1, 2, 3, 0, 2, 4, 5, 0, 1>>, <<4, 5, 4, 6>>),
   T("444", "g0", 6, <<0, 1, 2, 3, 0, 1, 4, 5, 0, 1>>, <<0, 1, 0, 2, 3, 2, 4, 5, 4, 2, 4, 2, 6>>)}

\* Which inputs each table has. Renaming the inputs of a table, or exchanging
\* the two lower tables, is made good by another configuration.
InputsOf(n, node) == {n.nodes[h.id].pos : h \in {g \in Range(node.fanin) : n.nodes[g.id].type = "input"}}
Luts(n)  == {n.nodes[i] : i \in {j \in DOMAIN n.nodes : n.nodes[j].type = "lut"}}
Top(n)   == n.nodes[n.output.id]
Shape(n, r) ==
  [top   |-> {r[i] : i \in InputsOf(n, Top(n))},
   lower |-> {{r[i] : i \in InputsOf(n, l)} : l \in Luts(n) \ {Top(n)}}]

Renamings(n) == Permutations(Positions(n))
Automorphisms(n) ==
  LET own == Shape(n, [i \in Positions(n) |-> i])
  IN  {r \in Renamings(n) : Shape(n, r) = own}

Ascending(n, o) == \A i \in Positions(n) : HasPred(n, i) => o[Pred(n, i)] < o[i]

\* Whatever variables are on the inputs, one of the arrangements that the
\* network cannot tell apart puts every input after its predecessor.
KeepsOrders(n) ==
  LET autos == Automorphisms(n)
  IN  \A o \in Renamings(n) : \E r \in autos : Ascending(n, [i \in Positions(n) |-> o[r[i]]])
=============================================================================
