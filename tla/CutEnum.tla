------------------------------ MODULE CutEnum -----------------------------
(***************************************************************************)
(* What a cut enumeration promises the EnumCutOp it is given: between      *)
(* node_init and node_end of a node, every cut of the node with at most    *)
(* limit inputs once, and nothing else; fanins before fanouts.             *)
(***************************************************************************)
EXTENDS CutNet

VARIABLES net, limit,
          ends,    \* the nodes that have cuts and may be inputs of cuts
          found,   \* the cuts found_cut has been told, for every node
          ended,   \* the nodes node_end has been told
          mNcAll   \* the calls of found_cut

Init == /\ found = [n \in Nodes(net) |-> IF n \in Inputs(net) THEN {{}} ELSE {}]
        /\ ended = Inputs(net) /\ mNcAll = net.inputs

Report(n, C) ==
  /\ n \in (Logic(net) \cap ends) \ ended /\ C \notin found[n]
  /\ found' = [found EXCEPT ![n] = @ \cup {C}]
  /\ mNcAll' = mNcAll + 1
  /\ IsReport(net, ends, limit, n, C)
  /\ UNCHANGED ended

End(n) ==
  /\ n \in (Logic(net) \cap ends) \ ended
  /\ \A m \in Fanins(net, n) \cap ends : m \in ended
  /\ ended' = ended \cup {n}
  /\ found[n] = Reports(net, ends, limit, n)
  /\ UNCHANGED <<found, mNcAll>>

Next == /\ \E n \in Logic(net) : End(n) \/ \E C \in SUBSET (1 .. n) : Report(n, C)
        /\ UNCHANGED <<net, limit, ends>>

Spec == Init /\ [][Next]_<<net, limit, ends, found, ended, mNcAll>>
=============================================================================
