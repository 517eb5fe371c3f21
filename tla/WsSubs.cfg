\* Two callers, each with channels of its own, through outages.
SPECIFICATION Spec
CONSTANTS
  c1 = c1
  c2 = c2
  p1 = p1
  p2 = p2
  full = full
  grouped = grouped
  trades = trades
  Callers = {c1, c2}
  Subs <- MCSubs
  L2 <- MCL2
  Coin <- MCCoin
  Manages <- Disjoint
  Posts = {}
  MayAbandon = {}
  InitialBackoff = 1
  MaxBackoff = 3
  MayRefuse = TRUE
  MayStop = FALSE
  MaxCalls = 2
  MaxDrops = 2
INVARIANTS OneViewPerCoin Converged
CHECK_DEADLOCK FALSE
