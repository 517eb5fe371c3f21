\* Two posts, either of them abandoned, through outages and a stop.
SPECIFICATION Spec
CONSTANTS
  c1 = c1
  c2 = c2
  p1 = p1
  p2 = p2
  full = full
  grouped = grouped
  trades = trades
  Callers = {}
  Subs = {}
  L2 = {}
  Coin <- NoCoin
  Manages <- NoCaller
  Posts = {p1, p2}
  MayAbandon = {p1, p2}
  InitialBackoff = 1
  MaxBackoff = 1
  MayRefuse = FALSE
  MayStop = TRUE
  MaxCalls = 0
  MaxDrops = 2
INVARIANTS PostInv AtMostOnce OwnReply WaiterHasSender NoOrphanEntry
PROPERTIES OnlyDisconnectDrops ImplementsPostService
CHECK_DEADLOCK FALSE
