--------------------------- MODULE MCGbmBddBinary ---------------------------
(***************************************************************************)
(* The BDD engine with binary codes, on networks of three inputs.          *)
(***************************************************************************)
EXTENDS LnNets

BddBinary == {M(S("bdd", "cegar", "binary"), 3, <<>>, <<AndLut(TRUE), TwoLuts>>)}
=============================================================================
