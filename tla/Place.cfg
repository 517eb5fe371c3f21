\* Three spot orders beside a perp batch of two of one account.
SPECIFICATION FairSpec
CONSTANTS
  spot = spot
  perp = perp
  empty = empty
  Requests = {spot, perp, empty}
  Perp = {perp}
  Orders <- MCOrders
  Top = 5
  Window = 1
INVARIANTS TypeOK PlaceInv NotSentStaysOut KnownBeforeNext OnlyOvertaken
PROPERTIES CallsReturn
CHECK_DEADLOCK FALSE
