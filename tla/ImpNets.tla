------------------------------ MODULE ImpNets ------------------------------
(***************************************************************************)
(* Networks the models of programs/imp are checked on: every network of    *)
(* two inputs and two AND nodes, and larger networks with reconvergence    *)
(* and constant nodes.                                                     *)
(***************************************************************************)
EXTENDS ImpCircuit

\* A fanin pair as <<src of pin 1, inv, src of pin 2, inv>>.
Circuit(ni, ands) ==
  LET first == ni
      nn    == ni + Len(ands)
  IN  [ni  |-> ni, nn |-> nn,
       src |-> [n \in first .. (nn - 1) |->
                  [p \in Pin |-> ands[n - first + 1][2 * p - 1]]],
       inv |-> [n \in first .. (nn - 1) |->
                  [p \in Pin |-> ands[n - first + 1][2 * p]]]]

\* Every two-AND network over two inputs, up to the order of the fanins and the
\* numbers of the inputs.
SmallCircuits ==
  {Circuit(2, <<a, b>>) :
      a \in {q \in {0} \X Bit \X (0 .. 1) \X Bit : q[3] = 1 => q[2] <= q[4]},
      b \in {q \in (0 .. 2) \X Bit \X (0 .. 2) \X Bit : q[1] <= q[3] /\ q[3] = 2}}

\* An exclusive or; a reconvergent node that is always 0; a node that only
\* backward implication finds constant, with fanouts.
Xor      == Circuit(2, << <<0,0,1,1>>, <<0,1,1,0>>, <<2,1,3,1>> >>)
Constant == Circuit(2, << <<0,0,1,0>>, <<0,1,1,0>>, <<2,0,3,0>>, <<1,0,4,1>> >>)
Chain    == Circuit(3, << <<0,0,1,0>>, <<3,0,2,1>>, <<3,1,2,0>>, <<4,1,5,1>> >>)
EngineCircuits == {Xor, Constant}
LargeCircuits == EngineCircuits \cup {Chain}
CoreCircuits == EngineCircuits \cup SmallCircuits

\* Node 4 is the complement of an exclusive or, node 7 the exclusive or built
\* in another way: that they differ is beyond direct implication.
TwoXors == Circuit(2, << <<0,0,1,1>>, <<0,1,1,0>>, <<2,1,3,1>>,
                         <<0,0,1,0>>, <<0,1,1,1>>, <<5,1,6,1>> >>)
TwoXorsOnly == {TwoXors}
=============================================================================
