\* Snapping orders and planning TWAPs over bounded inputs.
SPECIFICATION Spec
CONSTANTS
  OrderRequests <- MCOrderRequests
  TwapRequests <- MCTwapRequests
  PriceScale = 10
  Narrow = 15
  Wide = 255
  Unreadable = Unreadable
  Absent = Absent
INVARIANTS OrderIsBest CadenceKept WindowKept NotionalKept
CHECK_DEADLOCK FALSE
