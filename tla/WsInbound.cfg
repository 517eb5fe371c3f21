\* Two receivers, a broadcast of one frame, a gateway that is replaced.
SPECIFICATION Spec
CONSTANTS
  Receivers = {r1, r2}
  Capacity = 1
  MaxCommits = 3
  MaxOthers = 1
  MaxRedeploys = 1
  MaxConnects = 3
INVARIANTS EveryFrameRead OneExtraHandshake NoGapApplied
CHECK_DEADLOCK FALSE
