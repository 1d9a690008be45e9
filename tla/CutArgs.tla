------------------------------ MODULE CutArgs -----------------------------
(***************************************************************************)
(* What every enumeration of programs/enumcut is called with: a network    *)
(* and the largest number of inputs a cut may have.                        *)
(***************************************************************************)
EXTENDS CutNet

CONSTANTS Networks, Limits

ASSUME NetworksAssumption ==
  /\ \A n \in Networks : IsNetwork(n)
  /\ Limits \subseteq Nat \ {0}

VARIABLES net, limit  \* the arguments of operator()
=============================================================================
