------------------------------ MODULE ImpEngine ------------------------------
(***************************************************************************)
(* The implication engine of programs/imp: ImpMgr::assert, backtrack,      *)
(* set_const and set_ind_imp, and the mutually recursive propagation of    *)
(* ImpNode, ImpAnd and ImpInput.                                           *)
(*                                                                         *)
(* The C++ call stack is the variable agenda: its head is the call being   *)
(* executed, and one step executes that call up to its next nested call.   *)
(*   "bwd"  bwd_prop0/1 (n, from): the output of n becomes v               *)
(*   "fan"  fanout_prop0/1 (n, from): todo holds the edges not yet visited *)
(*   "ind"  ind_imp0/1 (n): todo holds the implications not yet visited    *)
(*   "con"  the loop of ImpNode::set_const (n)                             *)
(* A conflict returns false through every caller; fanout_prop0/1 discards  *)
(* what ind_imp0/1 returns, so the unwinding stops at the first "ind".     *)
(***************************************************************************)
EXTENDS ImpCircuit

CONSTANTS
  Circuits,      \* the networks that may be loaded
  MaxLevel,      \* bound: nested asserts
  MaxInd         \* bound: indirect implications given to set_ind_imp

ASSUME CircuitsAssumption == \A c \in Circuits : IsCircuit(c)
ASSUME BoundsAssumption   == MaxLevel \in Nat /\ MaxInd \in Nat

VARIABLES
  net,        \* the network loaded by ImpMgr::set, fixed
  st,         \* mState of every node: pins 1, 2 and output (Out)
  chg,        \* mChgStack: saved [n, s] pairs, oldest first
  mark,       \* mMarkerStack: lengths of chg
  con,        \* mConstState: 0, 1 or X (not a constant)
  impl,       \* mImpList[v] of every node: a set of literals
  agenda,     \* the call stack, innermost call first
  recording,  \* the current assert has an ImpRec argument
  recs,       \* what ImpListRec::record collected: a set of literals
  result,     \* what the last assert returned: "none", "true", "false"
  dec,        \* history: the literals asserted at each open level
  swallowed,  \* history: the open level at which an ind_imp conflict was
              \* discarded first, 0 if none was
  refuted,    \* the literals whose level-1 assert returned false last
  aborted     \* an ASSERT_COND failed: the program has stopped

data == <<st, chg, con, impl>>
vars == <<net, st, chg, mark, con, impl, agenda, recording, recs, result,
          dec, swallowed, refuted, aborted>>

NoNode == -1    \* the NULL from_node

States == [1 .. 3 -> V3]
Clear  == [k \in 1 .. 3 |-> X]                         \* kStXX_X, kStX

OutVal(n) == st[n][Out]                               \* ImpNode::val

------------------------------------------------------------------------------
(***************************************************************************)
(* The state tables of ImpAnd and ImpInput.                                *)
(***************************************************************************)

\* The ten states of ImpAnd::tState.
AndStates ==
  {s \in States :
     \/ s[Out] = X /\ s[1] # 0 /\ s[2] # 0 /\ ~(s[1] = 1 /\ s[2] = 1)
     \/ s[Out] = 0 /\ ~(s[1] = 1 /\ s[2] = 1)
                   /\ (s[1] = 1 => s[2] = 0) /\ (s[2] = 1 => s[1] = 0)
     \/ s[Out] = 1 /\ s[1] = 1 /\ s[2] = 1}

InputStates == {s \in States : s[1] = X /\ s[2] = X}

\* fwdP_impV conflicts: the pin already has the opposite value, or the
\* output is fixed to a value V contradicts.
FwdConflict(s, p, v) == s[p] # X /\ s[p] # v

\* Mutant: XX:0 -> 1X:0, the other pin is not forced.
FwdStateOneSided(s, p, v) ==
  IF s[p] # X THEN s
  ELSE IF v = 0 THEN [s EXCEPT ![p] = 0, ![Out] = 0]
  ELSE IF s[Other(p)] = 1 THEN [s EXCEPT ![p] = 1, ![Out] = 1]
  ELSE [s EXCEPT ![p] = 1]

\* The state after fwdP_impV.
FwdState(s, p, v) ==
  IF s[p] # X THEN s
  ELSE IF v = 0 THEN [s EXCEPT ![p] = 0, ![Out] = 0]
  ELSE IF s[Out] = 0 /\ s[Other(p)] = X THEN [s EXCEPT ![p] = 1, ![Other(p)] = 0]
  ELSE IF s[Other(p)] = 1 THEN [s EXCEPT ![p] = 1, ![Out] = 1]
  ELSE [s EXCEPT ![p] = 1]

BwdConflict(s, v) == s[Out] # X /\ s[Out] # v

\* Mutant: an output 0 is handed to every free pin.
BwdPinsAll(s, v) == IF s[Out] # X THEN {} ELSE {p \in Pin : s[p] = X}

\* The pins of AND node n to which bwd_impV hands a value (the same as V).
BwdPins(s, v) ==
  IF s[Out] # X THEN {}
  ELSE IF v = 1 THEN {p \in Pin : s[p] = X}
  ELSE {p \in Pin : s[p] = X /\ s[Other(p)] = 1}

BwdState(s, v, isInput) ==
  IF s[Out] # X THEN s
  ELSE IF isInput THEN [s EXCEPT ![Out] = v]
  ELSE [k \in 1 .. 3 |-> IF k = Out \/ k \in BwdPins(s, v) THEN v ELSE s[k]]

\* ImpAnd::prop_const: the ASSERT_COND of the state, the state afterwards,
\* and the constant the output becomes (X if it does not).
ConstAbort(s, p, v) == s[p] # X /\ s[p] # v

ConstState(s, p, v) ==
  IF s[p] # X \/ s[Other(p)] = 0 THEN s
  ELSE FwdState(s, p, v)

ConstOut(s, p, v) ==
  IF s[p] # X \/ s[Out] # X THEN X ELSE ConstState(s, p, v)[Out]
------------------------------------------------------------------------------
(***************************************************************************)
(* Frames of the call stack.                                               *)
(***************************************************************************)
Bwd(n, v, from) == [op |-> "bwd", n |-> n, v |-> v, from |-> from, todo |-> {}]
Fan(n, v, from) == [op |-> "fan", n |-> n, v |-> v, from |-> from,
                    todo |-> Fanouts(net, n)]
Ind(n, v) == [op |-> "ind", n |-> n, v |-> v, from |-> NoNode,
              todo |-> impl[n][v]]
\* Mutant: a constant is not told to the fanouts.
ConSilent(n, v) == [op |-> "con", n |-> n, v |-> v, from |-> NoNode, todo |-> {}]

Con(n, v) == [op |-> "con", n |-> n, v |-> v, from |-> NoNode,
              todo |-> Fanouts(net, n)]

\* bwd_propV of the driver of pin p of n (faninP_propV).
FaninProp(n, p, v) == Bwd(net.src[n][p], Flip(v, net.inv[n][p]), n)

\* Mutant: only one fanin is called.
FaninCallsFirst(n, pins, v) ==
  IF 1 \in pins THEN <<FaninProp(n, 1, v)>>
  ELSE IF 2 \in pins THEN <<FaninProp(n, 2, v)>> ELSE <<>>

\* The faninP_propV calls of bwd_imp, fanin 0 first.
FaninCalls(n, pins, v) ==
  (IF 1 \in pins THEN <<FaninProp(n, 1, v)>> ELSE <<>>)
    \o (IF 2 \in pins THEN <<FaninProp(n, 2, v)>> ELSE <<>>)

Top     == Head(agenda)
Callers == Tail(agenda)
\* Mutant: the loop does not advance.
TopAgain(e) == IF e \in Top.todo THEN agenda ELSE Callers

TopWithout(e) == <<[Top EXCEPT !.todo = @ \ {e}]>> \o Callers

\* Mutant: a node that has an entry on the stack already is not saved again,
\* whatever level the entry belongs to.
ChangeSavedOnce(n, s) ==
  IF s = st[n] THEN UNCHANGED <<st, chg>>
  ELSE /\ st' = [st EXCEPT ![n] = s]
       /\ chg' = IF \E i \in 1 .. Len(chg) : chg[i].n = n THEN chg
                 ELSE Append(chg, [n |-> n, s |-> st[n]])

\* Mutant: ImpInput changes its state without save_value.
ChangeInputUnsaved(n, s) ==
  IF s = st[n] THEN UNCHANGED <<st, chg>>
  ELSE /\ st' = [st EXCEPT ![n] = s]
       /\ chg' = IF n \in Inputs(net) THEN chg
                 ELSE Append(chg, [n |-> n, s |-> st[n]])

\* ImpMgr::save_value and change_value: the old state is always pushed.
Change(n, s) ==
  IF s = st[n] THEN UNCHANGED <<st, chg>>
  ELSE /\ st'  = [st EXCEPT ![n] = s]
       /\ chg' = Append(chg, [n |-> n, s |-> st[n]])

\* The callers that go on after a conflict: those above the innermost
\* ind_imp call, whose result fanout_prop0/1 ignores.
IndCalls == {i \in 1 .. Len(agenda) : agenda[i].op = "ind"}

Continue(calls) ==
  /\ agenda' = calls
  /\ result' = IF calls = <<>> THEN "true" ELSE result
  /\ UNCHANGED swallowed

Conflict ==
  \/ /\ IndCalls = {}
     /\ agenda' = <<>>
     /\ result' = "false"
     /\ UNCHANGED swallowed
  \/ \E i \in IndCalls :
        /\ \A j \in IndCalls : i <= j
        /\ LET rest == SubSeq(agenda, i + 1, Len(agenda))
           IN  /\ agenda' = rest
               /\ result' = IF rest = <<>> THEN "true" ELSE result
        /\ swallowed' = IF swallowed = 0 THEN Len(mark) ELSE swallowed

------------------------------------------------------------------------------
Init ==
  /\ net \in Circuits
  /\ st = [n \in Nodes(net) |-> Clear]
  /\ chg = <<>> /\ mark = <<>>
  /\ con = [n \in Nodes(net) |-> X]
  /\ impl = [n \in Nodes(net) |-> [v \in Bit |-> {}]]
  /\ agenda = <<>>
  /\ recording = FALSE /\ recs = {}
  /\ result = "none"
  /\ dec = <<>> /\ swallowed = 0
  /\ refuted = {}
  /\ aborted = FALSE

Idle == agenda = <<>> /\ ~aborted

\* ImpMgr::assert, with (r) and without an ImpRec.  The engine's clients
\* never assert on top of a level whose assert returned false.
Assert(n, v, r) ==
  /\ Idle /\ result # "false" /\ Len(mark) < MaxLevel
  /\ mark' = Append(mark, Len(chg))
  /\ dec' = Append(dec, <<n, v>>)
  /\ agenda' = <<Bwd(n, v, NoNode)>>
  /\ recording' = r
  /\ recs' = {}
  /\ result' = "none"
  /\ refuted' = {}
  /\ UNCHANGED <<net, st, chg, con, impl, swallowed, aborted>>

\* ImpNode::bwd_prop0/1 up to its first nested call.
BwdProp ==
  /\ agenda # <<>> /\ Top.op = "bwd" /\ ~aborted
  /\ LET n == Top.n
         v == Top.v
         s == st[n]
     IN  \/ /\ BwdConflict(s, v)
            /\ Conflict
            /\ UNCHANGED <<st, chg>>
         \/ /\ ~BwdConflict(s, v)
            /\ Change(n, BwdState(s, v, n \in Inputs(net)))
            /\ LET pins == IF n \in Inputs(net) THEN {} ELSE BwdPins(s, v)
               IN  Continue(FaninCalls(n, pins, v)
                              \o <<Fan(n, v, Top.from)>> \o Callers)
  /\ UNCHANGED <<net, mark, con, impl, recording, recs, dec, refuted, aborted>>

\* ImpListRec::record, called at the head of the recording fanout_prop0/1;
\* a node implied by itself is not recorded.
Record ==
  recs' = IF recording /\ Top.n # dec[Len(dec)][1]
          THEN recs \cup {<<Top.n, Top.v>>} ELSE recs

\* One iteration of the loop of fanout_prop0/1: fwdP_impV of a fanout.
FanoutStep ==
  /\ agenda # <<>> /\ Top.op = "fan" /\ ~aborted
  /\ Record
  /\ \E e \in Top.todo :
       LET d == e[1]
           p == e[2]
           w == Flip(Top.v, net.inv[d][p])
           s == st[d]
           t == FwdState(s, p, w)
       IN  /\ IsFirst(e, Top.todo)
           /\ \/ /\ d = Top.from
                 /\ Continue(TopWithout(e))
                 /\ UNCHANGED <<st, chg>>
              \/ /\ d # Top.from /\ FwdConflict(s, p, w)
                 /\ Conflict
                 /\ UNCHANGED <<st, chg>>
              \/ /\ d # Top.from /\ ~FwdConflict(s, p, w)
                 /\ Change(d, t)
                 /\ IF t[Out] # s[Out]
                    THEN Continue(<<Fan(d, t[Out], NoNode)>> \o TopWithout(e))
                    ELSE IF t[Other(p)] # s[Other(p)]
                    THEN Continue(<<FaninProp(d, Other(p), 0)>> \o TopWithout(e))
                    ELSE Continue(TopWithout(e))
  /\ UNCHANGED <<net, mark, con, impl, recording, dec, refuted, aborted>>

\* The end of fanout_prop0/1: ind_imp0/1 unless recording.
FanoutEnd ==
  /\ agenda # <<>> /\ Top.op = "fan" /\ Top.todo = {} /\ ~aborted
  /\ Record
  /\ IF recording THEN Continue(Callers)
     ELSE Continue(<<Ind(Top.n, Top.v)>> \o Callers)
  /\ UNCHANGED <<net, st, chg, mark, con, impl, recording, dec, refuted, aborted>>

\* One iteration of the loop of ind_imp0/1.
IndStep ==
  /\ agenda # <<>> /\ Top.op = "ind" /\ ~aborted
  /\ \E d \in Top.todo :
       /\ IsFirst(d, Top.todo)
       /\ \/ /\ OutVal(d[1]) = X
             /\ Continue(<<Bwd(d[1], d[2], NoNode)>> \o TopWithout(d))
          \/ /\ OutVal(d[1]) = d[2]
             /\ Continue(TopWithout(d))
          \/ /\ OutVal(d[1]) = 1 - d[2]
             /\ Conflict
  /\ UNCHANGED <<net, st, chg, mark, con, impl, recording, recs, dec, refuted, aborted>>

IndEnd ==
  /\ agenda # <<>> /\ Top.op = "ind" /\ Top.todo = {} /\ ~aborted
  /\ Continue(Callers)
  /\ UNCHANGED <<net, st, chg, mark, con, impl, recording, recs, dec, refuted, aborted>>

\* The states s had when the stack c had length pos: of each node the oldest
\* state saved above pos, or the present one.
Saved(c, n, pos) == {i \in (pos + 1) .. Len(c) : c[i].n = n}
Oldest(S) == CHOOSE i \in S : \A j \in S : i <= j

Restored(s, c, pos) ==
  [n \in DOMAIN s |->
     IF Saved(c, n, pos) = {} THEN s[n] ELSE c[Oldest(Saved(c, n, pos))].s]

RestoredTo(pos) == Restored(st, chg, pos)

\* ImpMgr::backtrack: the saved states are written back from the newest to
\* the oldest, so the oldest one of a node is what remains.
Backtrack ==
  /\ Idle /\ mark # <<>>
  /\ LET pos == mark[Len(mark)]
     IN  /\ st'  = RestoredTo(pos)
         /\ chg' = SubSeq(chg, 1, pos)
  /\ mark' = SubSeq(mark, 1, Len(mark) - 1)
  /\ dec'  = SubSeq(dec, 1, Len(dec) - 1)
  /\ refuted' = IF result = "false" /\ Len(dec) = 1 THEN {dec[1]} ELSE {}
  /\ result' = "none"
  /\ swallowed' = IF swallowed = Len(mark) THEN 0 ELSE swallowed
  /\ UNCHANGED <<net, con, impl, agenda, recording, recs, aborted>>

\* ImpMgr::set_const.
ConstCall(n, v) ==
  /\ Idle
  /\ con' = [con EXCEPT ![n] = v]
  /\ agenda' = <<Con(n, v)>>
  /\ UNCHANGED <<net, st, chg, mark, impl, recording, recs, result, dec,
                 swallowed, refuted, aborted>>

\* Mutant: the refuted value itself, without the ^ 1.
SetConstSame(n, v) ==
  /\ mark = <<>> /\ <<n, v>> \in refuted
  /\ ConstCall(n, v)

\* How a client calls it: after backtrack, with the complement of the
\* literal whose assert returned false.
SetConst(n, v) ==
  /\ mark = <<>> /\ <<n, 1 - v>> \in refuted
  /\ ConstCall(n, v)

\* One iteration of the loop of ImpNode::set_const: ImpAnd::prop_const of a
\* fanout, which calls set_const when its own output becomes a constant.
PropConst ==
  /\ agenda # <<>> /\ Top.op = "con" /\ ~aborted
  /\ \E e \in Top.todo :
       LET d == e[1]
           p == e[2]
           w == Flip(Top.v, net.inv[d][p])
           s == st[d]
           o == ConstOut(s, p, w)
       IN  /\ IsFirst(e, Top.todo)
           /\ \/ /\ ConstAbort(s, p, w)
                 /\ aborted' = TRUE
                 /\ UNCHANGED <<st, con, agenda>>
              \/ /\ ~ConstAbort(s, p, w)
                 /\ st' = [st EXCEPT ![d] = ConstState(s, p, w)]
                 /\ con' = IF o = X THEN con ELSE [con EXCEPT ![d] = o]
                 /\ agenda' = (IF o = X THEN <<>> ELSE <<Con(d, o)>>)
                                \o TopWithout(e)
                 /\ UNCHANGED aborted
  /\ UNCHANGED <<net, chg, mark, impl, recording, recs, result, dec,
                 swallowed, refuted>>

ConstEnd ==
  /\ agenda # <<>> /\ Top.op = "con" /\ Top.todo = {} /\ ~aborted
  /\ agenda' = Callers
  /\ UNCHANGED <<net, st, chg, mark, con, impl, recording, recs, result, dec,
                 swallowed, refuted, aborted>>

\* The implications a learner may hand over: true in every assignment.
ValidImplications(n, v) ==
  {d \in Literals(net) :
     d[1] # n /\ \A f \in Consistent(net) : f[n] = v => Holds(f, d)}

Implications == {q \in Literals(net) \X Literals(net) :
                   q[2] \in impl[q[1][1]][q[1][2]]}

\* ImpMgr::set_ind_imp of one more learned implication.
SetIndImp(n, v, d) ==
  /\ Idle /\ mark = <<>>
  /\ Cardinality(Implications) < MaxInd
  /\ d \in ValidImplications(n, v) \ impl[n][v]
  /\ impl' = [impl EXCEPT ![n][v] = @ \cup {d}]
  /\ UNCHANGED <<net, st, chg, mark, con, agenda, recording, recs, result,
                 dec, swallowed, refuted, aborted>>

\* The steps of a call in progress.
Propagate == \/ BwdProp \/ FanoutStep \/ FanoutEnd \/ IndStep \/ IndEnd
             \/ PropConst \/ ConstEnd

\* The clients' calls.
Call == \/ \E n \in Nodes(net), v \in Bit, r \in BOOLEAN : Assert(n, v, r)
        \/ Backtrack
        \/ \E n \in Nodes(net), v \in Bit : SetConst(n, v)
        \/ \E n \in Nodes(net), v \in Bit, d \in Literals(net) : SetIndImp(n, v, d)

Next == Propagate \/ Call

Spec == Init /\ [][Next]_vars

\* A C++ call that has started runs until it returns.
FairSpec == Spec /\ WF_vars(Propagate)
------------------------------------------------------------------------------
(***************************************************************************)
(* Properties.                                                             *)
(***************************************************************************)
Frames == [op : {"bwd", "fan", "ind", "con"}, n : Nodes(net), v : Bit,
           from : Nodes(net) \cup {NoNode}, todo : SUBSET (Nodes(net) \X (Bit \cup Pin))]

\* Every variable stays in its range; the state of an AND node is always one
\* of the ten of ImpAnd::tState, so no switch reaches its default branch.
TypeOK ==
  /\ net \in Circuits
  /\ DOMAIN st = Nodes(net)
  /\ \A n \in Ands(net) : st[n] \in AndStates
  /\ \A n \in Inputs(net) : st[n] \in InputStates
  /\ chg \in Seq([n : Nodes(net), s : States])
  /\ mark \in Seq(Nat) /\ Len(mark) <= MaxLevel
  /\ con \in [Nodes(net) -> V3]
  /\ impl \in [Nodes(net) -> [Bit -> SUBSET Literals(net)]]
  /\ agenda \in Seq(Frames)
  /\ recording \in BOOLEAN /\ swallowed \in 0 .. Len(mark) /\ aborted \in BOOLEAN
  /\ recs \subseteq Literals(net) /\ refuted \subseteq Literals(net)
  /\ result \in {"none", "true", "false"}
  /\ dec \in Seq(Literals(net)) /\ Len(dec) = Len(mark)

\* The consistent assignments that satisfy the asserted literals.
Models == {f \in Consistent(net) : \A i \in 1 .. Len(dec) : Holds(f, dec[i])}

Agrees(s, f) ==
  /\ \A n \in Nodes(net) : s[n][Out] \in {X, f[n]}
  /\ \A n \in Ands(net), p \in Pin : s[n][p] \in {X, PinVal(net, f, n, p)}

\* Soundness of the implications: at any moment, also in the middle of a
\* propagation and after any backtrack, every value set on a node or a pin
\* is forced by the asserted literals; assert returns false, and ind_imp0/1
\* finds a conflict, only if no assignment satisfies them.
Sound == /\ \A f \in Models : Agrees(st, f)
         /\ result = "false" \/ swallowed # 0 => Models = {}

\* A constant mark is the value of the node in every assignment, and what
\* the learners record with ImpListRec is implied by the asserted literals.
ConstSound  == \A n \in Nodes(net), f \in Consistent(net) : con[n] \in {X, f[n]}
RecordSound == mark # <<>> /\ (agenda # <<>> \/ result = "true") =>
                 \A lit \in recs, f \in Models : Holds(f, lit)

\* The ASSERT_CONDs of ImpAnd::prop_const never fire.
NoAbort == ~aborted

\* A node's value as the fanouts of the node know it.
Known(n) == IF OutVal(n) # X THEN OutVal(n) ELSE con[n]
KnownPin(n, p) == Flip(Known(net.src[n][p]), net.inv[n][p])

\* After an assert that returned true no direct implication of an AND node
\* is left undone (unless the conflict of an indirect one was discarded).
Complete ==
  result = "true" /\ swallowed = 0 =>
    \A n \in Ands(net) :
       /\ 0 \in {KnownPin(n, 1), KnownPin(n, 2)} => Known(n) = 0
       /\ KnownPin(n, 1) = 1 /\ KnownPin(n, 2) = 1 => Known(n) = 1
       /\ OutVal(n) = 1 => KnownPin(n, 1) = 1 /\ KnownPin(n, 2) = 1
       /\ \A p \in Pin : OutVal(n) = 0 /\ KnownPin(n, p) = 1
                             => KnownPin(n, Other(p)) = 0

\* The inductive invariant behind the theorems of ImpProofs.  Nothing
\* is known of a level below the top but what backtrack would restore, so
\* each saved prefix of mChgStack has to be sound for the literals asserted
\* before it; every call on the stack carries a value the literals force.
StateSet(n) == IF n \in Inputs(net) THEN InputStates ELSE AndStates
Changes == {r \in [n : Nodes(net), s : States] : r.s \in StateSet(r.n)}

TypeInv ==
  /\ net \in Circuits
  /\ st \in [Nodes(net) -> States] /\ \A n \in Nodes(net) : st[n] \in StateSet(n)
  /\ chg \in Seq(Changes)
  /\ mark \in Seq(Nat) /\ Len(mark) <= MaxLevel
  /\ dec \in Seq(Literals(net)) /\ Len(dec) = Len(mark)
  /\ con \in [Nodes(net) -> V3]
  /\ impl \in [Nodes(net) -> [Bit -> SUBSET Literals(net)]]
  /\ recording \in BOOLEAN /\ aborted \in BOOLEAN
  /\ swallowed \in 0 .. Len(mark)
  /\ recs \subseteq Literals(net) /\ refuted \subseteq Literals(net)
  /\ result \in {"none", "true", "false"}

MarksOrdered ==
  \A i \in 1 .. Len(mark) : /\ mark[i] <= Len(chg)
                            /\ \A j \in 1 .. i : mark[j] <= mark[i]

CallFrames ==
  {r \in Frames :
     /\ r.op \in {"fan", "con"} => r.todo \subseteq Fanouts(net, r.n)
     /\ r.op = "ind" => r.todo \subseteq impl[r.n][r.v]
     /\ r.op = "con" => dec = <<>>
     /\ r.op # "con" => dec # <<>>}

CallsInv == agenda \in Seq(CallFrames)

\* f satisfies the first k asserted literals.
Satisfies(f, k) == \A i \in 1 .. k : Holds(f, dec[i])

TrueFrames(f) == {r \in CallFrames : f[r.n] = r.v}

LiteralsInv ==
  \A f \in Consistent(net) :
     /\ \A n \in Nodes(net) : con[n] \in {X, f[n]}
     /\ \A n \in Nodes(net), v \in Bit : \A d \in impl[n][v] : f[n] = v => Holds(f, d)
     /\ \A lit \in refuted : ~Holds(f, lit)

ModelsInv ==
  \A f \in Consistent(net) :
     /\ Satisfies(f, Len(dec)) =>
          /\ Agrees(st, f) /\ agenda \in Seq(TrueFrames(f))
          /\ result # "false"
     /\ swallowed # 0 => ~Satisfies(f, swallowed)
     /\ \A k \in 1 .. Len(mark) :
          Satisfies(f, k - 1) => Agrees(Restored(st, chg, mark[k]), f)

IInv == /\ TypeInv /\ MarksOrdered /\ CallsInv
        /\ LiteralsInv /\ ModelsInv /\ RecordSound /\ NoAbort

\* Every call returns: the mutual recursion of the propagation is finite.
Returns == agenda # <<>> ~> agenda = <<>>
------------------------------------------------------------------------------
(***************************************************************************)
(* The engine implements ImpAbs.                                           *)
(***************************************************************************)
Outputs(s) == [n \in Nodes(net) |-> s[n][Out]]

Abs == INSTANCE ImpAbs WITH
         val     <- Outputs(st),
         levels  <- [i \in 1 .. Len(dec) |->
                       [lit |-> dec[i], old |-> Outputs(RestoredTo(mark[i]))]],
         outcome <- result

\* Every step of the engine is one of the abstract promise or changes nothing
\* a client sees: in particular no change of a state escapes mChgStack.
ImplementsAbs == Abs!Spec
==============================================================================
