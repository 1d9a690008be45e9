---------------------------- MODULE MCCalcCvf -----------------------------
(***************************************************************************)
(* Networks of two inputs for CalcCvf, and sequential ones for CalcSvf.    *)
(***************************************************************************)
EXTENDS CalcSvf

Pairs(n) == {p \in (1 .. n - 1) \X (1 .. n - 1) : p[1] < p[2]}
Network(types, fanins, out) ==
  [type |-> <<"input", "input">> \o types, fanin |-> << <<>>, <<>> >> \o fanins, out |-> out]

\* Every structure of three two-input gates and every set of outputs, with two
\* choices of the gates.
Small ==
  {Network(t, <<p, q, r>>, out \cup {5}) :
     t \in {<<"nor", "xor", "nor">>, <<"xor", "and", "xor">>},
     p \in Pairs(3), q \in Pairs(4), r \in Pairs(5), out \in SUBSET {3, 4}}

\* Five gates, with stems of two and three fanouts that meet again in every way
\* their last gates allow; the nodes without fanout are the outputs.
Sinks(f) == {n \in 1 .. 7 : \A k \in 1 .. 5 : n \notin {f[k][1], f[k][2]}}
Five ==
  {Network(<<"and", "xor", "or", "nand", "xnor">>, f, Sinks(f)) :
     f \in Pairs(3) \X Pairs(4) \X {<<3, 4>>, <<1, 4>>, <<2, 3>>}
             \X {<<3, 4>>, <<3, 5>>, <<1, 4>>} \X {<<5, 6>>, <<4, 6>>, <<3, 6>>, <<4, 5>>}}

\* Gates of one and three inputs, a gate that takes a node twice, a node
\* that reaches no output, and an output inside a path.
Wide == Network(<<"buf", "and", "nor", "not", "nand">>,
                << <<1>>, <<1, 2, 3>>, <<2, 3, 4>>, <<4>>, <<4, 4, 6>> >>, {5, 7})
Dangling == Network(<<"and", "or", "xor", "not", "not">>,
                    << <<1, 2>>, <<1, 3>>, <<3, 4>>, <<3>>, <<6>> >>, {4, 5})
\* A stem whose first fanout is at a higher level than its second.
Skewed == Network(<<"not", "and", "not", "xor">>, << <<1>>, <<3, 2>>, <<2>>, <<4, 5>> >>, {6})

AllNets == Small \cup Five \cup {Wide, Dangling, Skewed}

\* The approximations do not look at the DSS: one mode is enough for them.
AllModes == {"none", "old", "new"}
AllCalls == {<<m, "exact">> : m \in AllModes} \cup {<<"none", "min">>, <<"none", "max">>}

\* All four vectors of the two inputs.
OneBatch   == {<<{1, 3}, {2, 3}>>}
------------------------------------------------------------------------------
\* One input and a flip-flop, or two flip-flops that may be a shift register or
\* swap their values, with two gates; and a flip-flop that feeds itself.
Sequential(types, fanins, ff, out) ==
  [type |-> <<"input", "input">> \o types, fanin |-> << <<>>, <<>> >> \o fanins,
   ff |-> ff, out |-> out]
MCSeqNets ==
  {Sequential(t, <<<<1, 2>>, p>>, 2 :> d, out) :
     t \in {<<"and", "xor">>, <<"nor", "nand">>}, p \in Pairs(4), d \in 1 .. 4,
     out \in {{3}, {4}}}
  \cup {Sequential(<<"and", "or">>, <<<<1, 2>>, <<2, 3>>>>, 1 :> d @@ 2 :> e, {4}) :
          d \in 2 .. 4, e \in {1, 3}}
=============================================================================
