---------------------------- MODULE MCImpEngine ----------------------------
(***************************************************************************)
(* Instances of ImpEngine over the networks of ImpNets.                    *)
(***************************************************************************)
EXTENDS ImpEngine, ImpNets

\* The instance engine: sequences of asserts, backtracks and set_const over
\* every small network; indirect implications are installed in the two
\* networks of EngineCircuits, where some of them hold.
MCNext == Next /\ (net \in EngineCircuits \/ Implications' = {})
MCSpec == Init /\ [][MCNext]_vars /\ WF_vars(Propagate)
=============================================================================
