\* A subscriber, a post and a stop on one queue, with a gateway that comes back.
SPECIFICATION ReachableSpec
CONSTANTS
  c1 = c1
  c2 = c2
  p1 = p1
  p2 = p2
  full = full
  grouped = grouped
  trades = trades
  Callers = {c1}
  Subs = {trades}
  L2 = {}
  Coin <- NoCoin
  Manages <- OneChannel
  Posts = {p1}
  MayAbandon = {}
  InitialBackoff = 1
  MaxBackoff = 1
  MayRefuse = FALSE
  MayStop = TRUE
  MaxCalls = 2
  MaxDrops = 1
INVARIANTS TypeOK
PROPERTIES PostsReturn StopsWhenAsked EventuallyServed
CHECK_DEADLOCK FALSE
