---------------------------- MODULE MCImpLearn ----------------------------
(***************************************************************************)
(* Instances of ImpLearn and NaImp over the networks of ImpNets.           *)
(***************************************************************************)
EXTENDS NaImp, ImpNets

AllCircuits == SmallCircuits \cup LargeCircuits \cup {TwoXors}

\* The order of imp.cc; the solver first; and NaImp with no constants known.
InOrder == {<<"str", "const", "contra", "naive3", "naimp2", "rl">>,
            <<"sat", "const", "str", "naive2">>,
            <<"naive", "naive1">>, <<"naive3">>}

SatOnly == {<<"sat">>}

\* Nodes 4 and 7 are an exclusive or and its complement, so node 8 is always
\* 0; node 9 equals node 4.
HiddenConstant ==
  Circuit(2, << <<0,0,1,1>>, <<0,1,1,0>>, <<2,1,3,1>>,
                   <<0,0,1,0>>, <<0,1,1,1>>, <<5,1,6,1>>,
                   <<4,0,7,0>>, <<4,0,8,1>> >>)
HiddenOnly == {HiddenConstant}

\* The same without node 9, where the order of the calls does no harm.
HarmlessConstant ==
  Circuit(2, << <<0,0,1,1>>, <<0,1,1,0>>, <<2,1,3,1>>,
                <<0,0,1,0>>, <<0,1,1,1>>, <<5,1,6,1>>, <<4,0,7,0>> >>)
LearnCircuits == AllCircuits \cup {HarmlessConstant}
=============================================================================
