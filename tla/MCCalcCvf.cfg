SPECIFICATION CalcSpec
CONSTANTS
  Nets <- AllNets
  Pats = {0, 1, 2, 3}
  Batches <- OneBatch
  Modes <- AllModes
  Calls <- AllCalls
  Samples = 1
  DefaultLevel = 5
  Junk = Junk
  SeqNets <- MCSeqNets
  Frames = {1, 2, 3}
  Words = {{}, {1, 2}}
INVARIANTS CvfExact SvfExact Approximates DssCuts NothingLeft
PROPERTIES LevelOrder Returns
