------------------------------ MODULE CalcSvf ------------------------------
(***************************************************************************)
(* CalcSvf of programs/seal: CalcCvf for sequential networks. set_network  *)
(* copies the network once for every time frame, a flip-flop's output being*)
(* the node its input is in the frame before; a change of a node of the    *)
(* first frame is followed through all of them. The queue, the gates and   *)
(* the loop of calc_exact are copies of those of CalcCvf, whose actions are*)
(* used here; there is no DSS, so nothing is ever a target.                *)
(***************************************************************************)
EXTENDS CalcCvf

CONSTANTS
  SeqNets,   \* [type, fanin, out, ff]; ff[n] is the node flip-flop n copies
  Frames,    \* the values of time_frame
  Words      \* what a word nobody has written may hold

VARIABLES
  seq,       \* mNetwork
  frames     \* time_frame; 0 if CalcCvf is running

svfVars == <<seq, frames>>

\* The inputs come first, then the flip-flops, then the gates.
FlipFlops(s)  == DOMAIN s.ff
TrueInputs(s) == {n \in DOMAIN s.type : s.type[n] = "input"} \ FlipFlops(s)
Size(s)       == Len(s.type)
PerFrame(s)   == Size(s) - Cardinality(FlipFlops(s))

IsSeqNet(s) ==
  /\ IsNet(s)
  /\ FlipFlops(s) \subseteq {n \in DOMAIN s.type : s.type[n] = "input"}
  /\ \A f \in FlipFlops(s) :
       /\ \A n \in TrueInputs(s) : n < f
       /\ \A n \in DOMAIN s.type : s.type[n] # "input" => f < n
       /\ s.ff[f] \in DOMAIN s.type

\* mSimMap: the copy of node n in frame t.
At(s, n, t) ==
  LET at[k \in 0 .. t] ==
        [m \in DOMAIN s.type |->
           IF k = 0 THEN m
           ELSE IF m \in FlipFlops(s) THEN at[k - 1][s.ff[m]]
           ELSE Size(s) + PerFrame(s) * (k - 1)
                  + IF m \in TrueInputs(s) THEN m ELSE m - Cardinality(FlipFlops(s))]
  IN  at[t][n]

\* The node and the frame that a SimNode was made for.
Origin(s, k) ==
  IF k <= Size(s) THEN <<k, 0>>
  ELSE LET t == (k - Size(s) - 1) \div PerFrame(s) + 1
       IN  <<CHOOSE n \in DOMAIN s.type \ FlipFlops(s) : At(s, n, t) = k, t>>

\* Outputs are those of every frame and what the flip-flops hold after the last.
Unroll(s, tf) ==
  LET Copies == 1 .. Size(s) + PerFrame(s) * (tf - 1)
      node(k) == Origin(s, k)[1]
      frame(k) == Origin(s, k)[2]
  IN  [type  |-> [k \in Copies |-> s.type[node(k)]],
       fanin |-> [k \in Copies |->
                    [i \in DOMAIN s.fanin[node(k)] |-> At(s, s.fanin[node(k)][i], frame(k))]],
       out   |-> {At(s, o, t) : o \in s.out, t \in 0 .. tf - 1}
                   \cup {At(s, s.ff[f], tf - 1) : f \in FlipFlops(s)}]

\* Mutant: the flip-flops' inputs are not among them.
Output1Primary(s) == s.out

\* mOutput1Array: the outputs and the flip-flops' inputs of the first frame.
Output1(s) == s.out \cup {s.ff[f] : f \in FlipFlops(s)}

\* Regions are formed in the first frame only; 0 is no region.
SvfRoot(nt, s) ==
  LET rt[n \in DOMAIN nt.type] ==
        IF n > Size(s) THEN 0
        ELSE IF n \in Output1(s) \/ Nfo(nt, n) # 1 THEN n
        ELSE rt[CHOOSE m \in DOMAIN nt.type : m \in Fanouts(nt, n)]
  IN  rt

\* mark is not used without a DSS.
SvfSim(nt, s) ==
  [level  |-> Level(nt),
   pins   |-> [n \in DOMAIN nt.type |-> Pins(nt, n)],
   fanout |-> [n \in DOMAIN nt.type |-> Fanouts(nt, n)],
   order  |-> [n \in DOMAIN nt.type |-> Sorted(Fanouts(nt, n))],
   root   |-> SvfRoot(nt, s),
   mark   |-> [n \in DOMAIN nt.type |-> {}]]

\* The queue is prepared for the levels of the first frame's outputs.
FrameLevel(s) == MaxOutputLevel([out |-> Output1(s)], [level |-> Level(s)])

ASSUME SvfAssumption ==
  /\ Frames \subseteq Nat \ {0} /\ Words \subseteq SUBSET Pats
  /\ \A s \in SeqNets : IsSeqNet(s) /\ \A b \in Batches : IsBatch(b, s)

\* The inputs of later frames, which no call writes.
Later == {n \in Inputs : n > Size(seq)}

SvfInit ==
  /\ seq \in SeqNets /\ frames \in Frames
  /\ net = Unroll(seq, frames) /\ sim = SvfSim(net, seq) /\ LevelsFit(sim, FrameLevel(seq))
  /\ mode = "none"
  /\ dss = [n \in {m \in DOMAIN sim.root : sim.root[m] = m} |-> {}]
  /\ todo = <<>> /\ cur = {} /\ acc = {} /\ pc = "idle" /\ op = "none"
  /\ \E g \in [Later -> Words], f \in [Later -> Words] :
       /\ gval = [n \in Nodes |-> IF n \in Later THEN g[n] ELSE {}]
       /\ fval = [n \in Nodes |-> IF n \in Later THEN f[n] ELSE {}]
  /\ obs = [n \in Nodes |-> {}] /\ obs2 = obs
  /\ target = {} /\ seen = {} /\ clear = {}
  /\ eq \in Created(FrameLevel(seq))
  /\ left = 0

\* calc_gval: the vectors have values for the inputs and the flip-flops of the
\* first frame; mLogicArray has the gates of all frames.
SvfGval(batch) ==
  /\ gval' = GoodValues([n \in Inputs |-> IF n \in Later THEN gval[n] ELSE batch[n]])
  /\ fval' = [n \in Nodes |-> IF n \in Later THEN fval[n] ELSE gval'[n]]

SvfExactCall(batch) ==
  /\ pc = "idle" /\ SvfGval(batch)
  /\ obs' = [n \in Nodes |-> {}]
  /\ op' = "exact" /\ todo' = RootSeq(sim) /\ pc' = "ffr"
  /\ UNCHANGED <<netVars, dssVars, obs2, simVars, left>>

SvfPseudoMin(batch) ==
  /\ pc = "idle" /\ SvfGval(batch)
  /\ obs' = Backward(StartOutputs([n \in Nodes |-> {}]),
                     [p \in AllPins |-> Sensitive(p[1], p[2], gval')])
  /\ op' = "min"
  /\ UNCHANGED <<netVars, dssVars, todo, pc, obs2, simVars, left>>

\* One pass, the inputs of a gate in their order.
SvfShare(g, i, gv) ==
  AllPass(g, 1 .. i - 1, gv)
    \cap (AllPass(g, (DOMAIN net.fanin[g]) \ (1 .. i), gv) \cup (Pats \ AllPass(g, {i}, gv)))

SvfMax(batch) ==
  /\ pc = "idle" /\ SvfGval(batch)
  /\ obs' = Backward(StartOutputs([n \in Nodes |-> {}]),
                     [p \in AllPins |-> SvfShare(p[1], p[2], gval')])
  /\ op' = "max"
  /\ UNCHANGED <<netVars, dssVars, todo, pc, obs2, simVars, left>>

SvfCall == \E b \in Batches : SvfExactCall(b) \/ SvfPseudoMin(b) \/ SvfMax(b)

SvfNext == (SvfCall \/ Work) /\ UNCHANGED svfVars
------------------------------------------------------------------------------
\* Either program is started; each runs by itself, and a started call runs
\* until it returns.
CvfRuns == frames = 0
NoSeq   == [type |-> <<>>, fanin |-> <<>>, ff |-> <<>>, out |-> {}]

CalcInit == \/ Init /\ seq = NoSeq /\ frames = 0
            \/ SvfInit
CalcNext == \/ CvfRuns /\ Next /\ UNCHANGED svfVars
            \/ ~CvfRuns /\ SvfNext
CalcSpec == CalcInit /\ [][CalcNext]_<<vars, svfVars>> /\ WF_vars(Work /\ UNCHANGED svfVars)
------------------------------------------------------------------------------
\* The sequential network itself, frame by frame, with node n of the first
\* frame complemented; with n = 0, as it is.
Run(n) ==
  LET val[p \in (0 .. frames - 1) \X (DOMAIN seq.type)] ==
        LET t == p[1]
            m == p[2]
            good == IF m \in TrueInputs(seq) THEN gval[At(seq, m, t)]
                    ELSE IF m \in FlipFlops(seq)
                         THEN IF t = 0 THEN gval[m] ELSE val[<<t - 1, seq.ff[m]>>]
                    ELSE Output(seq.type[m],
                                [i \in DOMAIN seq.fanin[m] |-> val[<<t, seq.fanin[m][i]>>]])
        IN  IF t = 0 /\ m = n THEN Pats \ good ELSE good
  IN  val

SeenAt == {<<t, o>> : t \in 0 .. frames - 1, o \in seq.out}
            \cup {<<frames - 1, seq.ff[f]>> : f \in FlipFlops(seq)}
SeqObservability(n) ==
  LET bad  == Run(n)
      good == Run(0)
  IN  UNION {Xor(bad[p], good[p]) : p \in SeenAt}

\* calc_exact gives every node of the first frame what a change of it in that
\* frame alone does to the outputs of any frame or to the last state, as long as
\* the two words of every input of a later frame, which nothing initialises,
\* happen to be equal.
SvfExact ==
  frames > 0 /\ pc = "idle" /\ op = "exact" /\ (\A n \in Later : fval[n] = gval[n]) =>
    \A n \in DOMAIN seq.type : obs[n] = SeqObservability(n)

\* CalcCvf, when it is the one running.
CvfExact == CvfRuns => ExactIsObservability

\* Nothing of a simulation of either program is left for the next, but for the
\* words that were never set.
NothingLeft == Clean(IF CvfRuns THEN Nodes ELSE Nodes \ Later)
=============================================================================
