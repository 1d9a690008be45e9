---------------------------- MODULE EventQSpec ----------------------------
(***************************************************************************)
(* EventQ used on its own: put() and get() in any order, from any queue    *)
(* that init() may leave, with every node at a level the array reaches.    *)
(***************************************************************************)
EXTENDS EventQ

CONSTANTS
  Node,
  LevelOf,    \* level(): the level of every node
  MaxLevel,   \* the argument of init()
  NULL        \* what get() returns when the queue is empty

ASSUME QueueAssumption ==
  /\ IsFiniteSet(Node)
  /\ MaxLevel \in Nat
  /\ LevelOf \in [Node -> 0 .. Top(MaxLevel)]
  /\ Junk \notin Node /\ NULL \notin Node

VARIABLES q, got
qVars == <<q, got>>

QInit == q \in Created(MaxLevel) /\ got = NULL

PutNode(n) == q' = Put(q, n, LevelOf[n]) /\ got' = NULL

GetNode == q.mNum > 0 /\ got' = First(q) /\ q' = Pop(q)

GetNull == q.mNum = 0 /\ got' = NULL /\ UNCHANGED q

QNext == (\E n \in Node : PutNode(n)) \/ GetNode \/ GetNull

QSpec == QInit /\ [][QNext]_qVars
------------------------------------------------------------------------------
\* The queue is one of its nodes in every reachable state: flags, lists, mNum
\* and mCurLevel agree whatever put() and get() have done.
QInv == IsQueue(q, Node, LevelOf, Top(MaxLevel)) /\ got \in Node \cup {NULL}

\* The comment in get(): if mNum is right, mCurLevel does not overflow. The
\* search of a queue with nodes ends inside the array, at a node of its own
\* and never at the cell init() leaves unwritten.
NoOverflow == q.mNum > 0 => Filled(q) # {} /\ First(q) \in q.inQueue

\* The class comment: nodes come out lowest level first, each once, and NULL
\* only when none is left.
PQ == INSTANCE PrioQ WITH pending <- q.inQueue, Level <- LevelOf
LowestFirst == PQ!Spec
=============================================================================
