------------------------------ MODULE ItvlList ------------------------------
(***************************************************************************)
(* ItvlList of programs/svm: disjoint intervals [mLb, mUb) and their       *)
(* functions in an AVL tree, found by a value inside. A tree is a function *)
(* from the positions of its nodes, the turns on the way from the root     *)
(* (0 is mLchd, 1 is mRchd), to what they hold.                            *)
(***************************************************************************)
EXTENDS Integers, Sequences, FiniteSetsExt

Turns  == {0, 1}
Left   == <<0>>
Right  == <<1>>
Root   == <<>>
Nil    == [p \in {} |-> p]
IsNil(t) == DOMAIN t = {}

\* The subtree at p, and the tree with a root and two subtrees.
Sub(t, p) ==
  LET Below == {q \in DOMAIN t : Len(q) >= Len(p) /\ SubSeq(q, 1, Len(p)) = p}
  IN  [q \in {SubSeq(r, Len(p) + 1, Len(r)) : r \in Below} |-> t[p \o q]]
Join(node, balance, l, r) ==
  [p \in {Root} \cup {Left \o q : q \in DOMAIN l} \cup {Right \o q : q \in DOMAIN r} |->
     IF p = Root THEN [node |-> node, mBalance |-> balance]
     ELSE IF Head(p) = 0 THEN l[Tail(p)] ELSE r[Tail(p)]]

Node(lb, ub, f) == [mLb |-> lb, mUb |-> ub, mF |-> f]

\* The positions a search reaches that goes left and right at these nodes.
\* They are those of t and the empty ones below.
Reached(t, lefts, rights) ==
  {p \in {Root} \cup {q \o Left : q \in DOMAIN t} \cup {q \o Right : q \in DOMAIN t} :
     \A i \in 1 .. Len(p) :
       LET q == SubSeq(p, 1, i - 1)
       IN  q \in DOMAIN t /\ IF t[q].node \in lefts THEN p[i] = 0
                             ELSE t[q].node \in rights /\ p[i] = 1}

Nodes(t) == {t[p].node : p \in DOMAIN t}

\* find_node: the node whose interval holds val, if there is one.
find_node(val, t) ==
  {t[p].node : p \in Reached(t, {n \in Nodes(t) : n.mLb > val}, {n \in Nodes(t) : n.mUb <= val})
                     \cap {q \in DOMAIN t : t[q].node.mLb <= val /\ val < t[q].node.mUb}}

\* A subtree after an insertion, and whether it has become higher.
Result(t, chg) == [t |-> t, chg |-> chg]

\* Single rotation: the left child becomes the root.
RotateLL(node, left, r) ==
  Join(left[Root].node, 0, Sub(left, Left), Join(node, 0, Sub(left, Right), r))
RotateRR(node, l, right) ==
  Join(right[Root].node, 0, Join(node, 0, l, Sub(right, Left)), Sub(right, Right))

\* Mutant: the children keep the balances of a single rotation.
RotateLREven(node, left, r) ==
  LET right == Sub(left, Right)
  IN  Join(right[Root].node, 0,
           Join(left[Root].node, 0, Sub(left, Left), Sub(right, Left)),
           Join(node, 0, Sub(right, Right), r))

\* Double rotation: the left child's right child becomes the root.
RotateLR(node, left, r) ==
  LET right == Sub(left, Right)
      b     == right[Root].mBalance
  IN  Join(right[Root].node, 0,
           Join(left[Root].node, IF b = 1 THEN -1 ELSE 0, Sub(left, Left), Sub(right, Left)),
           Join(node, IF b = -1 THEN 1 ELSE 0, Sub(right, Right), r))
RotateRL(node, l, right) ==
  LET left == Sub(right, Left)
      b    == left[Root].mBalance
  IN  Join(left[Root].node, 0,
           Join(node, IF b = 1 THEN -1 ELSE 0, l, Sub(left, Left)),
           Join(right[Root].node, IF b = -1 THEN 1 ELSE 0, Sub(left, Right), Sub(right, Right)))

\* add_node, when the insertion into the left or the right subtree has returned.
GrownLeft(t, new) ==
  LET node == t[Root].node
      b    == t[Root].mBalance
      r    == Sub(t, Right)
  IN  IF ~new.chg THEN Result(Join(node, b, new.t, r), FALSE)
      ELSE IF b = 1 THEN Result(Join(node, 0, new.t, r), FALSE)
      ELSE IF b = 0 THEN Result(Join(node, -1, new.t, r), TRUE)
      ELSE IF new.t[Root].mBalance = -1 THEN Result(RotateLL(node, new.t, r), FALSE)
      ELSE Result(RotateLR(node, new.t, r), FALSE)
GrownRight(t, new) ==
  LET node == t[Root].node
      b    == t[Root].mBalance
      l    == Sub(t, Left)
  IN  IF ~new.chg THEN Result(Join(node, b, l, new.t), FALSE)
      ELSE IF b = -1 THEN Result(Join(node, 0, l, new.t), FALSE)
      ELSE IF b = 0 THEN Result(Join(node, 1, l, new.t), TRUE)
      ELSE IF new.t[Root].mBalance = 1 THEN Result(RotateRR(node, l, new.t), FALSE)
      ELSE Result(RotateRL(node, l, new.t), FALSE)

\* The empty position add_node comes to; none if the interval overlaps one on
\* the way.
Places(node, t) ==
  Reached(t, {n \in Nodes(t) : node.mUb <= n.mLb}, {n \in Nodes(t) : n.mUb <= node.mLb})
    \ DOMAIN t

\* add_node down to that position and back: the tree that becomes the subtree k
\* turns down.
add_node(node, t, place) ==
  LET new[k \in 0 .. Len(place)] ==
        IF k = Len(place) THEN Result(Join(node, 0, Nil, Nil), TRUE)
        ELSE LET s == Sub(t, SubSeq(place, 1, k))
             IN  IF place[k + 1] = 0 THEN GrownLeft(s, new[k + 1]) ELSE GrownRight(s, new[k + 1])
  IN  new[0].t
------------------------------------------------------------------------------
Height(t) == IF IsNil(t) THEN 0 ELSE 1 + Max({Len(p) : p \in DOMAIN t})

\* Intervals in order, and mBalance the difference of the heights.
IsAvl(t) ==
  \A p \in DOMAIN t :
    LET l == Sub(t, p \o Left)  r == Sub(t, p \o Right)  n == t[p].node
    IN  /\ n.mLb < n.mUb
        /\ \A m \in Nodes(l) : m.mUb <= n.mLb
        /\ \A m \in Nodes(r) : n.mUb <= m.mLb
        /\ t[p].mBalance = Height(r) - Height(l) /\ t[p].mBalance \in {-1, 0, 1}
=============================================================================
