\* A stop while the gateway never comes back.
SPECIFICATION FairSpec
CONSTANTS
  c1 = c1
  c2 = c2
  p1 = p1
  p2 = p2
  full = full
  grouped = grouped
  trades = trades
  Callers = {}
  Subs = {}
  L2 = {}
  Coin <- NoCoin
  Manages <- NoCaller
  Posts = {}
  MayAbandon = {}
  InitialBackoff = 1
  MaxBackoff = 1
  MayRefuse = FALSE
  MayStop = TRUE
  MaxCalls = 0
  MaxDrops = 0
PROPERTIES StopsWhenAsked
CHECK_DEADLOCK FALSE
