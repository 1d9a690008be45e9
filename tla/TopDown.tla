------------------------------ MODULE TopDown -----------------------------
(***************************************************************************)
(* TopDown of programs/enumcut: the cuts of a node are enumerated by a     *)
(* backtracking recursion over one frontier stack, one array of inputs and *)
(* a state per node, all shared by every level of the recursion. The nodes *)
(* the cuts of a node use (its footprint) bound the search of its fanouts. *)
(* TopDown2 is the same for the stems only, the inputs and the nodes with  *)
(* several fanouts: the others have no cuts and are inputs of none.        *)
(***************************************************************************)
EXTENDS CutArgs, Sequences

\* The stems: all nodes for TopDown; for TopDown2 the inputs and the nodes with
\* several fanouts. Which nodes drive outputs the network does not say: those
\* without fanouts two, the others one or none; or every node at most one fanout
\* or output that is its only one.
StemSets(n) ==
  LET single == {m \in Logic(n) : Cardinality(Fanouts(n, m)) = 1}
      none   == {m \in Logic(n) : Fanouts(n, m) = {}}
  IN  {Nodes(n) \ s : s \in (SUBSET single) \cup {single \cup none}}

VARIABLES
  stem,           \* the nodes is_stem holds of; for TopDown, all nodes
  mRoot,          \* the last node whose enumeration has started
  mFrontierStack, \* the nodes below mFsPos
  mInputs,        \* the nodes below mInputPos
  state,          \* "free", "inside" or "input", of every node
  fpmark,         \* the nodes with the footprint mark
  temp1, temp2,   \* the nodes with the temporary marks
  fpnode_list,    \* the footprint of every node, as a set
  stack,          \* the activations of enum_recur waiting for one they called
  ret,            \* "call", or the value enum_recur returns; "idle" outside it
  found,          \* what mOp->found_cut has been told of every node
  mNcAll          \* the cuts counted

work == <<mFrontierStack, mInputs, state, stack, ret>>
vars == <<net, limit, stem, mRoot, fpmark, temp1, temp2, fpnode_list, found, mNcAll,
          work>>

Values(s) == {s[i] : i \in 1 .. Len(s)}
Upto(s, k) == SubSeq(s, 1, k)
Full == Len(mInputs) >= limit

\* operator() up to the loop over the logic nodes.
Init ==
  /\ net \in Networks /\ limit \in Limits
  /\ stem \in StemSets(net)
  /\ mRoot = net.inputs
  /\ mFrontierStack = <<>> /\ mInputs = <<>>
  /\ state = [n \in Nodes(net) |-> "free"]
  /\ fpmark = {} /\ temp1 = {} /\ temp2 = {}
  /\ fpnode_list = [n \in Nodes(net) |-> IF n \in Inputs(net) THEN {n} ELSE {}]
  /\ stack = <<>> /\ ret = "idle"
  /\ found = [n \in Nodes(net) |-> IF n \in Inputs(net) THEN {{}} ELSE {}]
  /\ mNcAll = net.inputs

\* The marked nodes the search may not go past.
Boundary(marked) ==
  {m \in marked : m \in Inputs(net) \/ ~(Fanins(net, m) \subseteq marked)}

\* mark_cnode for both fanins, push_node(node), and the call.
StartNode ==
  LET n == mRoot + 1
  IN  /\ ret = "idle" /\ n \in Logic(net) \cap stem
      /\ temp1' = UNION {fpnode_list[m] : m \in Fanins(net, n)}
      /\ temp2' = Boundary(temp1')
      /\ mRoot' = n
      /\ mFrontierStack' = <<n>>
      /\ state' = [state EXCEPT ![n] = "inside"]
      /\ ret' = "call"
      /\ UNCHANGED <<net, limit, stem, mInputs, fpmark, fpnode_list, stack, found, mNcAll>>

\* A node that is no stem keeps the footprints of its fanins.
PassNode ==
  LET n == mRoot + 1
  IN  /\ ret = "idle" /\ n \in Logic(net) \ stem
      /\ mRoot' = n
      /\ fpnode_list' = [fpnode_list EXCEPT ![n] = UNION {fpnode_list[m] : m \in Fanins(net, n)}]
      /\ UNCHANGED <<net, limit, stem, fpmark, temp1, temp2, found, mNcAll, work>>

\* enum_recur with an empty frontier.
FoundCut ==
  /\ ret = "call" /\ mFrontierStack = <<>>
  /\ fpmark' = fpmark \cup Values(mInputs)
  /\ found' = [found EXCEPT ![mRoot] =
                 @ \cup {IF Len(mInputs) > 1 THEN Values(mInputs) ELSE {}}]
  /\ mNcAll' = mNcAll + 1 /\ ret' = "true"
  /\ UNCHANGED <<net, limit, stem, mRoot, mFrontierStack, mInputs, state, temp1, temp2,
                 fpnode_list, stack>>

\* Mutant: the room for one more input is tested too late.
ReachEarly(w, i) ==
  IF ~w.go \/ w.state[i] # "free" THEN w
  ELSE IF i \notin temp2
       THEN [w EXCEPT !.frontier = Append(@, i), !.state[i] = "inside", !.new = @ \cup {i}]
  ELSE IF Len(w.inputs) + 1 < limit /\ i \in stem
       THEN [w EXCEPT !.inputs = Append(@, i), !.state[i] = "input", !.new = @ \cup {i}]
  ELSE [w EXCEPT !.go = FALSE]

\* A fanin of a node that goes inside: into the frontier, or, at the boundary,
\* among the inputs if it may be one and there is room.
Reach(w, i) ==
  IF ~w.go \/ w.state[i] # "free" THEN w
  ELSE IF i \notin temp2
       THEN [w EXCEPT !.frontier = Append(@, i), !.state[i] = "inside", !.new = @ \cup {i}]
  ELSE IF Len(w.inputs) < limit /\ i \in stem
       THEN [w EXCEPT !.inputs = Append(@, i), !.state[i] = "input", !.new = @ \cup {i}]
  ELSE [w EXCEPT !.go = FALSE]

\* The second half of enum_recur: node, already off the frontier, is inside.
\* It calls itself again, or returns has_cuts with node back on the frontier.
GoInside(node, frontier, inputs, st, waiting, has_cuts) ==
  LET w0 == [go |-> TRUE, frontier |-> frontier, inputs |-> inputs, state |-> st, new |-> {}]
      w  == Reach(Reach(w0, net.fanin[node][1]), net.fanin[node][2])
  IN  \/ /\ w.go
         /\ stack' = Append(waiting, [node |-> node, for |-> "inside", new |-> w.new,
                                      old_fs_pos |-> Len(frontier),
                                      old_input_pos |-> Len(inputs), has_cuts |-> has_cuts])
         /\ mFrontierStack' = w.frontier /\ mInputs' = w.inputs /\ state' = w.state
         /\ ret' = "call"
      \/ /\ ~w.go
         /\ stack' = waiting
         /\ mFrontierStack' = Append(frontier, node) /\ mInputs' = inputs /\ state' = st
         /\ ret' = has_cuts

Kept == UNCHANGED <<net, limit, stem, mRoot, temp1, temp2, fpnode_list, found, mNcAll>>

\* enum_recur pops a node and tries it as an input first.
TryInput ==
  LET node == mFrontierStack[Len(mFrontierStack)]
  IN  /\ ret = "call" /\ mFrontierStack # <<>> /\ ~Full /\ node \in stem
      /\ mFrontierStack' = Upto(mFrontierStack, Len(mFrontierStack) - 1)
      /\ mInputs' = Append(mInputs, node)
      /\ state' = [state EXCEPT ![node] = "input"]
      /\ stack' = Append(stack, [node |-> node, for |-> "input"])
      /\ UNCHANGED <<ret, fpmark>> /\ Kept

\* enum_recur pops a node that cannot be an input, or there is no room for one.
SkipInput ==
  LET last == Len(mFrontierStack)
  IN  /\ ret = "call" /\ mFrontierStack # <<>> /\ (Full \/ mFrontierStack[last] \notin stem)
      /\ GoInside(mFrontierStack[last], Upto(mFrontierStack, last - 1), mInputs, state,
                  stack, "false")
      /\ UNCHANGED fpmark /\ Kept

Returned(stage) == ret \in {"true", "false"} /\ stack # <<>> /\ stack[Len(stack)].for = stage
Caller  == stack[Len(stack)]
Waiting == Upto(stack, Len(stack) - 1)

\* Back from the call with node as an input: node becomes an inside node.
AfterInput ==
  /\ Returned("input")
  /\ GoInside(Caller.node, mFrontierStack, Upto(mInputs, Len(mInputs) - 1),
              [state EXCEPT ![Caller.node] = "inside"], Waiting, ret)
  /\ UNCHANGED fpmark /\ Kept

\* Mutant: only the first fanin is cleared.
ClearedFirst(f) ==
  [n \in Nodes(net) |-> IF n \in f.new \cap {net.fanin[f.node][1]} THEN "free"
                        ELSE IF n = f.node THEN "inside" ELSE state[n]]

\* The states when an activation is left: its fanins cleared, its node pushed.
ClearedBy(f) ==
  [n \in Nodes(net) |-> IF n \in f.new THEN "free"
                        ELSE IF n = f.node THEN "inside" ELSE state[n]]

\* Back from the call with node inside: everything as it was when node was
\* popped, and node back on the frontier.
AfterInside ==
  /\ Returned("inside")
  /\ fpmark' = IF ret = "true" THEN fpmark \cup {Caller.node} ELSE fpmark
  /\ ret' = IF ret = "true" THEN "true" ELSE Caller.has_cuts
  /\ state' = ClearedBy(Caller)
  /\ mFrontierStack' = Append(Upto(mFrontierStack, Caller.old_fs_pos), Caller.node)
  /\ mInputs' = Upto(mInputs, Caller.old_input_pos)
  /\ stack' = Waiting
  /\ Kept

\* set_cur_node_list_recur: the marked nodes reached from node through marked
\* nodes.
Footprint(node) ==
  LET in[n \in Nodes(net)] ==
        /\ n \in fpmark
        /\ \/ n = node
           \/ \E m \in Logic(net) : m > n /\ n \in Fanins(net, m) /\ in[m]
  IN  {n \in Nodes(net) : in[n]}

\* The outermost call has returned.
EndNode ==
  /\ ret \in {"true", "false"} /\ stack = <<>>
  /\ mFrontierStack' = Upto(mFrontierStack, Len(mFrontierStack) - 1)
  /\ state' = [state EXCEPT ![mRoot] = "free"]
  /\ fpnode_list' = [fpnode_list EXCEPT ![mRoot] = Footprint(mRoot)]
  /\ fpmark' = fpmark \ Footprint(mRoot)
  /\ temp1' = {} /\ temp2' = {}
  /\ ret' = "idle"
  /\ UNCHANGED <<net, limit, stem, mRoot, mInputs, stack, found, mNcAll>>

Step == FoundCut \/ TryInput \/ SkipInput \/ AfterInput \/ AfterInside \/ EndNode
Next == StartNode \/ PassNode \/ Step

Spec == Init /\ [][Next]_vars /\ WF_vars(Next)
------------------------------------------------------------------------------
Sequential(s) == \A i, j \in 1 .. Len(s) : s[i] = s[j] => i = j
Waits(stage)  == {i \in 1 .. Len(stack) : stack[i].for = stage}
InsideNodes   == {stack[i].node : i \in Waits("inside")}
InputNodes    == {stack[i].node : i \in Waits("input")}
Frontier      == Values(mFrontierStack)

\* The marks and the arrays that all levels of the recursion share tell one
\* story: a node is an input, or inside and on the frontier, or inside and
\* waited for, or free. The fanins of a node waited for are not free and the
\* inputs fit in mInputs, so what is reported is a cut. Between two nodes
\* nothing is left: the ASSERT_CONDs of operator() hold.
MarksAgree ==
  /\ state \in [Nodes(net) -> {"free", "inside", "input"}]
  /\ {n \in Nodes(net) : state[n] = "input"} = Values(mInputs)
  /\ {n \in Nodes(net) : state[n] = "inside"} = Frontier \cup InsideNodes
  /\ Frontier \cap InsideNodes = {} /\ InputNodes \subseteq Values(mInputs)
  /\ Sequential(mFrontierStack) /\ Sequential(mInputs)
  /\ Sequential([i \in 1 .. Len(stack) |-> stack[i].node])
  /\ \A n \in InsideNodes : \A m \in Fanins(net, n) : state[m] # "free"
  /\ Len(mInputs) <= limit
  /\ ret = "idle" => stack = <<>> /\ mFrontierStack = <<>> /\ mInputs = <<>> /\ fpmark = {}

\* mOp is told every cut of at most limit inputs of every node, once, and
\* nothing else; with TopDown2, every cut of a stem whose inputs are stems.
Cuts == INSTANCE CutEnum
  WITH ends <- stem, ended <- stem \cap (IF ret = "idle" THEN 1 .. mRoot ELSE 1 .. mRoot - 1)
TopDownReports == Cuts!Spec
=============================================================================
