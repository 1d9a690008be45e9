------------------------------- MODULE RcfNet -------------------------------
(***************************************************************************)
(* RcfNetwork of programs/enumcut/libgbm: networks of AND gates and look-up*)
(* tables whose contents are configuration bits. A network is a record,    *)
(* changed only while it is built. Node i - 1 of the code is nodes[i]; the *)
(* position of an input and the variable of a function count from 0.       *)
(***************************************************************************)
EXTENDS Integers, Sequences, FiniteSets

\* RcfNodeHandle: a node and its polarity.
Handle(id, inv) == [id |-> id, inv |-> inv]
Negated(h)      == [h EXCEPT !.inv = ~@]

NoPred   == -1
EmptyNet == [nodes |-> <<>>, inputs |-> <<>>, pred |-> <<>>,
             output |-> Handle(1, FALSE), conf |-> 0]

InputNum(n) == Len(n.inputs)
Positions(n) == 0 .. InputNum(n) - 1
LastNode(n) == Handle(Len(n.nodes), FALSE)
Input(n, i) == Handle(n.inputs[i + 1], FALSE)

NewInput(n) ==
  [n EXCEPT !.nodes  = Append(@, [type |-> "input", pos |-> InputNum(n)]),
            !.inputs = Append(@, Len(n.nodes) + 1),
            !.pred   = Append(@, NoPred)]

NewAnd(n, h0, h1) ==
  [n EXCEPT !.nodes = Append(@, [type |-> "and", fanin |-> <<h0, h1>>])]

\* mConfBase and mNextConfVar: the bits of a table follow those of the last.
NewLut(n, hs) ==
  [n EXCEPT !.nodes = Append(@, [type |-> "lut", fanin |-> hs, base |-> n.conf]),
            !.conf  = @ + 2 ^ Len(hs)]

SetOutput(n, h) == [n EXCEPT !.output = h]

SetInputPred(n, i, p) == [n EXCEPT !.pred[i + 1] = p]

\* get_pred(): the input i is interchangeable with, and must come after.
Pred(n, i)    == n.pred[i + 1]
HasPred(n, i) == Pred(n, i) # NoPred

\* The number whose binary digits are the set S, of numbers below w.
Num(S, w) ==
  LET num[k \in 0 .. w] ==
        IF k = 0 THEN 0 ELSE num[k - 1] + (IF k - 1 \in S THEN 2 ^ (k - 1) ELSE 0)
  IN  num[w]

\* A pattern is the set of the variables that are 1; a configuration the set of
\* the configuration bits that are 1.
Patterns(n) == SUBSET Positions(n)
Confs(n)    == SUBSET (0 .. n.conf - 1)

HandleVal(val, h) == val[h.id] # h.inv

\* RcfAndNode::simulate and RcfLutNode::simulate
AndVal(val, node) == \A k \in DOMAIN node.fanin : HandleVal(val, node.fanin[k])
LutVal(val, node, conf) ==
  LET pos[k \in 0 .. Len(node.fanin)] ==
        IF k = 0 THEN 0
        ELSE pos[k - 1] + (IF HandleVal(val, node.fanin[k]) THEN 2 ^ (k - 1) ELSE 0)
  IN  node.base + pos[Len(node.fanin)] \in conf

\* RcfNetwork::simulate, in the order in which the nodes were made.
Simulate(n, ins, conf) ==
  LET val[i \in DOMAIN n.nodes] ==
        LET node == n.nodes[i]
        IN  CASE node.type = "input" -> node.pos \in ins
              [] node.type = "and"   -> AndVal(val, node)
              [] node.type = "lut"   -> LutVal(val, node, conf)
  IN  HandleVal(val, n.output)

\* The inputs at 1 when variable order[i] is on input i.
OnInputs(order, p) == {i \in DOMAIN order : order[i] \in p}

\* The function the network realises, as calc_func builds it: the set of its
\* true patterns.
FunctionOf(n, order, conf) == {p \in Patterns(n) : Simulate(n, OnInputs(order, p), conf)}
=============================================================================
