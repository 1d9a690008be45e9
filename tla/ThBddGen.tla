------------------------------ MODULE ThBddGen ------------------------------
(***************************************************************************)
(* ThBddGen of programs/svm: the BDD of a threshold function, by a         *)
(* recursion over the weights, largest first. Every level remembers, for   *)
(* every function it has built, the interval of slacks that give it. All   *)
(* numbers are whole multiples of a unit, and their sums exact; the BDD is *)
(* the function: the set of the sets of variables that make it true.       *)
(***************************************************************************)
EXTENDS ItvlList, FiniteSets

CONSTANTS
  WeightArrays,  \* the arrays given: weights of any sign, in any order
  Thresholds,
  Beyond,        \* what the memory after mWeightArray may hold
  MinGap,        \* 1e-5 in the unit, rounded up: the narrowest interval allowed
  DblMax         \* DBL_MAX, above all sums

\* The weights and the thresholds are small against DBL_MAX.
ASSUME WeightsAssumption ==
  /\ DblMax \in Nat /\ MinGap \in Nat \ {0}
  /\ \A b \in Beyond : b \in Int /\ -DblMax < b
  /\ Thresholds \subseteq (1 - DblMax) .. (DblMax - 1)
  /\ \A a \in WeightArrays :
       /\ a \in Seq(Int)
       /\ \E m \in 0 .. DblMax :
            Len(a) * m < DblMax /\ \A i \in 1 .. Len(a) : -m <= a[i] /\ a[i] <= m

VARIABLES
  weight_array,  \* the array given; index i of the code is i + 1
  mWeightArray,  \* the weights, sorted; position i of the code is i + 1
  mIdx,          \* their indices in the array given
  mThreshold,
  beyond,        \* the word read as mAcc of position mNv, which does not exist
  mItvlList,     \* the tree of every position
  stack,         \* the activations of gen_bdd that wait for one they called
  ret            \* the call of gen_bdd to make, its result, or how it failed

input == <<weight_array, mWeightArray, mIdx, mThreshold, beyond>>
vars  == <<input, mItvlList, stack, ret>>

\* DBL_MIN and DBL_MAX stand for no bound.
DblMin == -DblMax

\* sort: the larger weights first.
Order(a) ==
  LET rank(i) == Cardinality({j \in 1 .. Len(a) : a[j] > a[i] \/ (a[j] = a[i] /\ j < i)})
  IN  [k \in 1 .. Len(a) |-> (CHOOSE i \in 1 .. Len(a) : rank(i) = k - 1) - 1]
Sorted(a) == [k \in 1 .. Len(a) |-> a[Order(a)[k] + 1]]

\* The weight at an index or position, and the sum at a set of them.
At(a, i) == a[i + 1]
SumOf(a, is) ==
  LET sum[k \in 0 .. Len(a)] ==
        IF k = 0 THEN 0 ELSE sum[k - 1] + (IF k - 1 \in is THEN At(a, k - 1) ELSE 0)
  IN  sum[Len(a)]

mNv       == Len(mWeightArray)
Weight(p) == At(mWeightArray, p)
Total(ps) == SumOf(mWeightArray, ps)
Below(p)  == p .. mNv - 1

\* mAcc: the weights of a position and of those below it, or the word behind the
\* array. An array of no weights has no memory and nothing behind it.
Acc(p) == IF p < mNv THEN Total(Below(p)) ELSE beyond

Call(pos, slack) == [kind |-> "call", pos |-> pos, slack |-> slack]
Bdd(f, lb, ub)   == [kind |-> "bdd", f |-> f, lb |-> lb, ub |-> ub]
Failed(how)      == [kind |-> how]

\* operator() up to the call of gen_bdd.
Init ==
  /\ weight_array \in WeightArrays
  /\ mWeightArray = Sorted(weight_array) /\ mIdx = Order(weight_array)
  /\ mThreshold \in Thresholds /\ beyond \in Beyond
  /\ mItvlList = [p \in Below(0) |-> Nil]
  /\ stack = <<>> /\ ret = Call(0, mThreshold)

Calls == ret.kind = "call"

\* The weights already exceed the threshold.
One ==
  /\ Calls /\ ret.slack < 0
  /\ ret' = Bdd(SUBSET Below(ret.pos), DblMin, 0)
  /\ UNCHANGED <<input, mItvlList, stack>>

\* The weights left cannot exceed it.
Zero ==
  /\ Calls /\ ret.slack >= 0 /\ mNv > 0 /\ ret.slack >= Acc(ret.pos)
  /\ ret' = Bdd({}, Acc(ret.pos), DblMax)
  /\ UNCHANGED <<input, mItvlList, stack>>

Between == Calls /\ ret.slack >= 0 /\ ret.slack < Acc(ret.pos)

\* Neither, at the position that does not exist: there is no list for it.
Crash ==
  /\ Calls /\ ret.slack >= 0 /\ ret.pos = mNv
  /\ mNv = 0 \/ ret.slack < Acc(ret.pos)
  /\ ret' = Failed("crashed")
  /\ UNCHANGED <<input, mItvlList, stack>>

InList == find_node(ret.slack, mItvlList[ret.pos])

Found ==
  /\ Between /\ ret.pos < mNv
  /\ \E n \in InList : ret' = Bdd(n.mF, n.mLb, n.mUb)
  /\ UNCHANGED <<input, mItvlList, stack>>

\* The call without this weight.
Descend ==
  /\ Between /\ ret.pos < mNv /\ InList = {}
  /\ stack' = Append(stack, [pos |-> ret.pos, slack |-> ret.slack, without |-> Failed("none")])
  /\ ret' = Call(ret.pos + 1, ret.slack)
  /\ UNCHANGED <<input, mItvlList>>

Caller   == stack[Len(stack)]
Back     == ret.kind = "bdd" /\ stack # <<>>
ForFirst == Back /\ Caller.without.kind = "none"

\* The call with this weight.
WithWeight ==
  /\ ForFirst
  /\ stack' = [stack EXCEPT ![Len(stack)].without = ret]
  /\ ret' = Call(Caller.pos + 1, Caller.slack - Weight(Caller.pos))
  /\ UNCHANGED <<input, mItvlList>>

\* Mutant: the bounds of the second call are not moved by the weight.
BoundsUnmoved(r0, r1, weight) ==
  Bdd({}, IF r1.lb # DblMin /\ r0.lb < r1.lb THEN r1.lb ELSE r0.lb,
      IF r1.ub # DblMax /\ r0.ub > r1.ub + weight THEN r1.ub + weight ELSE r0.ub)

\* The interval for which both calls give the same functions.
Bounds(r0, r1, weight) ==
  LET lb1 == r1.lb + weight  ub1 == r1.ub + weight
  IN  Bdd({}, IF r1.lb # DblMin /\ r0.lb < lb1 THEN lb1 ELSE r0.lb,
          IF r1.ub # DblMax /\ r0.ub > ub1 THEN ub1 ELSE r0.ub)

\* make_bdd with the position, not the index of the weight, as the variable.
MakeBdd(pos, f0, f1) == f0 \cup {s \cup {pos} : s \in f1}

\* Both calls have returned: the function is stored and returned. A narrow
\* interval aborts (debug is true); one that overlaps another is not expected by add.
Store ==
  LET pos == Caller.pos
      b   == Bounds(Caller.without, ret, Weight(pos))
      f   == MakeBdd(pos, Caller.without.f, ret.f)
      new == Node(b.lb, b.ub, f)
  IN  /\ Back /\ ~ForFirst
      /\ stack' = SubSeq(stack, 1, Len(stack) - 1)
      /\ IF b.ub - b.lb < MinGap THEN ret' = Failed("aborted") /\ UNCHANGED mItvlList
         ELSE IF Places(new, mItvlList[pos]) = {} THEN ret' = Failed("overlap") /\ UNCHANGED mItvlList
         ELSE /\ \E p \in Places(new, mItvlList[pos]) :
                   mItvlList' = [mItvlList EXCEPT ![pos] = add_node(new, mItvlList[pos], p)]
              /\ ret' = Bdd(f, b.lb, b.ub)
      /\ UNCHANGED input

Next == One \/ Zero \/ Crash \/ Found \/ Descend \/ WithWeight \/ Store
Spec == Init /\ [][Next]_vars /\ WF_vars(Next)
------------------------------------------------------------------------------
\* What a slack leaves to do: the sets of positions whose weights exceed it.
Above(pos, slack) == {s \in SUBSET Below(pos) : Total(s) > slack}

\* A result holds for every slack of its interval and, if the memory behind the
\* array is 0, for no other.
Holds(pos, r) ==
  /\ r.lb # DblMin => r.f = Above(pos, r.lb) /\ (beyond = 0 => r.f # Above(pos, r.lb - 1))
  /\ r.ub # DblMax => r.f = Above(pos, r.ub - 1) /\ r.f # Above(pos, r.ub)

\* The threshold function of the array given: the sets of its indices whose
\* weights exceed the threshold. The variables of the BDD are the positions.
Promised == {s \in SUBSET (0 .. Len(weight_array) - 1) : SumOf(weight_array, s) > mThreshold}
PlacesOf(s) == {p \in Below(0) : At(mIdx, p) \in s}

NonNegative == \A p \in Below(0) : Weight(p) >= 0

\* A set of weights leaves a slack that the word behind the array and 0, which
\* should be there, do not treat alike.
Misled ==
  \E s \in SUBSET Below(0) :
    LET slack == mThreshold - Total(s)
    IN  (0 <= slack /\ slack < beyond) \/ (beyond <= slack /\ slack < 0)

\* The threshold separates two sums that are nearer than the gap allowed, or than
\* the word behind the array makes them look.
CloseSums ==
  \E s, t \in SUBSET Below(0) :
    /\ Total(s) <= mThreshold /\ mThreshold < Total(t)
    /\ Total(t) - Total(s) < MinGap + (IF beyond > 0 THEN beyond ELSE 0)

\* With weights that are not negative, gen_bdd returns the function promised, but
\* over the positions of the sorted weights, and fails for these reasons only: the
\* threshold is between two sums that are too close, the word behind the array is
\* not 0 and decides, or there are no weights. A word above 0 never makes a stored
\* or found interval give a slack the function of another one; one below 0 may,
\* and may make intervals overlap.
GenIsThreshold ==
  NonNegative =>
    /\ ret.kind = "bdd" /\ beyond >= 0 => Holds(Len(stack), ret)
    /\ ret.kind = "crashed" => mNv = 0 \/ (beyond > 0 /\ Misled)
    /\ ret.kind = "overlap" => beyond < 0
    /\ beyond >= 0 \/ ~Misled =>
         /\ ret.kind = "bdd" /\ stack = <<>> => ret.f = {PlacesOf(s) : s \in Promised}
         /\ ret.kind = "aborted" => CloseSums

\* The lists stay search trees whose balances are right, so that none is deeper
\* than its size allows.
ListsBalanced == \A p \in Below(0) : IsAvl(mItvlList[p])
=============================================================================
