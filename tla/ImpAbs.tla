------------------------------- MODULE ImpAbs -------------------------------
(***************************************************************************)
(* What ImpMgr promises its clients about assert and backtrack: a stack of *)
(* decisions, values that are only ever set when the decisions force them, *)
(* false only for unsatisfiable decisions, and the values of before an     *)
(* assert given back exactly by backtrack.                                 *)
(***************************************************************************)
EXTENDS ImpCircuit

CONSTANT Circuits

VARIABLES
  net,      \* the network
  val,      \* ImpNode::val of every node
  levels,   \* the open asserts: the literal, and val before it
  outcome   \* what the last assert returned, "none" before it returns

absvars == <<net, val, levels, outcome>>

Satisfying ==
  {f \in Consistent(net) : \A i \in 1 .. Len(levels) : Holds(f, levels[i].lit)}

\* new sets further nodes, each to the value the decisions force.
Forced(new) ==
  /\ DOMAIN new = Nodes(net)
  /\ \A n \in Nodes(net) :
       \/ new[n] = val[n]
       \/ val[n] = X /\ \A f \in Satisfying : new[n] = f[n]

Init ==
  /\ net \in Circuits
  /\ val = [n \in Nodes(net) |-> X]
  /\ levels = <<>>
  /\ outcome = "none"

Decide(n, v) ==
  /\ outcome # "false"
  /\ levels' = Append(levels, [lit |-> <<n, v>>, old |-> val])
  /\ outcome' = "none"
  /\ UNCHANGED <<net, val>>

\* Implication, and at the outermost level the propagation of constants.
Infer ==
  /\ outcome = "none" \/ levels = <<>>
  /\ Forced(val')
  /\ UNCHANGED <<net, levels, outcome>>

Accept ==
  /\ outcome = "none" /\ levels # <<>>
  /\ Holds(val, levels[Len(levels)].lit)
  /\ outcome' = "true"
  /\ UNCHANGED <<net, val, levels>>

Refuse ==
  /\ outcome = "none" /\ levels # <<>>
  /\ Satisfying = {}
  /\ outcome' = "false"
  /\ UNCHANGED <<net, val, levels>>

Undo ==
  /\ levels # <<>>
  /\ val' = levels[Len(levels)].old
  /\ levels' = SubSeq(levels, 1, Len(levels) - 1)
  /\ outcome' = "none"
  /\ UNCHANGED net

Next == \/ \E n \in Nodes(net), v \in Bit : Decide(n, v)
        \/ Infer \/ Accept \/ Refuse \/ Undo

Spec == Init /\ [][Next]_absvars
=============================================================================
