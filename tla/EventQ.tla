------------------------------ MODULE EventQ ------------------------------
(***************************************************************************)
(* EventQ of programs/seal: the queue of the event-driven simulators. One  *)
(* linked list of nodes per level, the level the next search starts at,    *)
(* the number of nodes queued, and the in-queue flag of every node.        *)
(***************************************************************************)
EXTENDS Naturals, Sequences, FiniteSets

CONSTANTS
  DefaultLevel,  \* the level the constructor prepares the array for (128)
  Junk           \* what an array cell nobody has written may hold

ASSUME DefaultAssumption == DefaultLevel \in Nat

\* The last index of mArray after the constructor and init(max_level).
Top(max_level) == IF max_level > DefaultLevel THEN max_level ELSE DefaultLevel

\* Mutant: the cells are left as new[] returns them.
CreatedRaw(max_level) ==
  {[mArray |-> [l \in 0 .. Top(max_level) |-> <<Junk>>],
    mCurLevel |-> 0, mNum |-> 0, inQueue |-> {}]}

\* A queue after init(max_level). The loop of init stops below max_level: the
\* last cell of an array just allocated is never written.
Created(max_level) ==
  {[mArray |-> [l \in 0 .. Top(max_level) |-> IF l = Top(max_level) THEN tail ELSE <<>>],
    mCurLevel |-> 0, mNum |-> 0, inQueue |-> {}] : tail \in {<<>>, <<Junk>>}}

\* Mutant: the level is not lowered while the queue has nodes.
PutNoLower(q, n, level) ==
  IF n \in q.inQueue
  THEN q
  ELSE [mArray    |-> [q.mArray EXCEPT ![level] = <<n>> \o @],
        mCurLevel |-> IF q.mNum = 0 THEN level ELSE q.mCurLevel,
        mNum      |-> q.mNum + 1,
        inQueue   |-> q.inQueue \cup {n}]

\* Mutant: a node that is in the queue is queued again.
PutTwice(q, n, level) ==
  [mArray    |-> [q.mArray EXCEPT ![level] = <<n>> \o @],
   mCurLevel |-> IF q.mNum = 0 \/ q.mCurLevel > level THEN level ELSE q.mCurLevel,
   mNum      |-> q.mNum + 1,
   inQueue   |-> q.inQueue \cup {n}]

\* put(node): at the head of the list of its level.
Put(q, n, level) ==
  IF n \in q.inQueue
  THEN q
  ELSE [mArray    |-> [q.mArray EXCEPT ![level] = <<n>> \o @],
        mCurLevel |-> IF q.mNum = 0 \/ q.mCurLevel > level THEN level ELSE q.mCurLevel,
        mNum      |-> q.mNum + 1,
        inQueue   |-> q.inQueue \cup {n}]

\* The cells get() can stop at, the one it stops at, and what it finds there.
Filled(q)  == {l \in DOMAIN q.mArray : l >= q.mCurLevel /\ q.mArray[l] # <<>>}
Lowest(q)  == CHOOSE l \in Filled(q) : \A k \in Filled(q) : l <= k
First(q)   == Head(q.mArray[Lowest(q)])

\* get() of a queue with mNum > 0.
Pop(q) ==
  [mArray    |-> [q.mArray EXCEPT ![Lowest(q)] = Tail(@)],
   mCurLevel |-> Lowest(q),
   mNum      |-> q.mNum - 1,
   inQueue   |-> q.inQueue \ {First(q)}]
------------------------------------------------------------------------------
\* What put() and get() keep between them, for nodes at levels of their own and
\* an array up to the level top: flags, lists, mNum and mCurLevel agree.
Shaped(q, nodes, top) ==
  q \in [mArray : [0 .. top -> Seq(nodes \cup {Junk})], mCurLevel : 0 .. top,
         mNum : Nat, inQueue : SUBSET nodes]

\* The lists hold the flagged nodes, each in the list of its level; the only
\* other thing they hold is the unwritten cell, at the end of the last list.
Listed(q, level, top) ==
  \A l \in 0 .. top : \A i \in 1 .. Len(q.mArray[l]) :
    \/ q.mArray[l][i] \in q.inQueue /\ level[q.mArray[l][i]] = l
    \/ q.mArray[l][i] = Junk /\ l = top /\ i = Len(q.mArray[l])

\* A flagged node is in the list of its level.
Flagged(q, level) ==
  \A n \in q.inQueue :
    \E i \in 1 .. Len(q.mArray[level[n]]) : q.mArray[level[n]][i] = n

\* No list holds a node twice.
NoRepeats(q, top) ==
  \A l \in 0 .. top : \A i, j \in 1 .. Len(q.mArray[l]) :
    q.mArray[l][i] = q.mArray[l][j] => i = j

\* mNum is right.
Counted(q) == q.mNum = Cardinality(q.inQueue)

\* No queued node is below the level the next search starts at.
Ahead(q, level) == \A n \in q.inQueue : q.mCurLevel <= level[n]

IsQueue(q, nodes, level, top) ==
  /\ Shaped(q, nodes, top)
  /\ Listed(q, level, top) /\ Flagged(q, level) /\ NoRepeats(q, top)
  /\ Counted(q) /\ Ahead(q, level)
=============================================================================
