\* Two callers ask for different views of one coin's book.
SPECIFICATION Spec
CONSTANTS
  c1 = c1
  c2 = c2
  p1 = p1
  p2 = p2
  full = full
  grouped = grouped
  trades = trades
  Callers = {c1, c2}
  Subs <- MCSubs
  L2 <- MCL2
  Coin <- MCCoin
  Manages <- Racing
  Posts = {}
  MayAbandon = {}
  InitialBackoff = 1
  MaxBackoff = 1
  MayRefuse = FALSE
  MayStop = FALSE
  MaxCalls = 1
  MaxDrops = 1
INVARIANTS Converged
CHECK_DEADLOCK FALSE
