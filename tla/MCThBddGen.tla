----------------------------- MODULE MCThBddGen -----------------------------
(***************************************************************************)
(* Instances of ThBddGen: up to nine weights. MinGap is 2, so that sums of *)
(* even weights are never too close.                                       *)
(***************************************************************************)
EXTENDS ThBddGen

Doubled(a) == [i \in DOMAIN a |-> 2 * a[i]]

\* Every case of a rotation happens: the two last arrays for the double rotations to
\* the left, the one before them for the single one.
Rotations ==
  {<<1, 2, 3, 5, 8, 13, 21>>, <<9, 10, 12, 13, 14, 16, 17, 19>>,
   <<15, 11, 9, 7, 7, 4, 1>>, <<24, 20, 15, 13, 12, 8, 3>>,
   <<22, 19, 13, 9, 5, 2, 1>>, <<21, 18, 8, 7, 6, 4, 2, 1>>, <<24, 20, 10, 9, 8, 7, 3, 1>>}
\* The smaller weights first: sort reverses them.
Six == {a \in [1 .. 6 -> {0, 1, 2, 4, 7}] : \A i \in 1 .. 5 : a[i] <= a[i + 1]}
Narrow == {<<31, 30>>, <<12, 5, 17, 7, 4>>, <<40, 20, 10, 9>>}
Signed == {<<4, -6, 10>>, <<-2, -8, 6, 2>>, <<14, 8, -4, 6, -2>>, <<-2, 3, -5, 7, 1>>}

MCWeights ==
  {<<>>} \cup Narrow \cup Signed
  \cup {Doubled(a) : a \in {<<3>>, <<3, 11, 20, 5, 9, 6, 14, 31, 2>>} \cup Rotations \cup Six}
MCBeyond == {-3, 0, 1, 4}
MCThresholds == {-5, -1, 5, 30} \cup {2 * t : t \in {-1, 20, 27, 33, 40, 47, 55, 62} \cup 0 .. 10}
=============================================================================
