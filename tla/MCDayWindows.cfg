SPECIFICATION Spec
CONSTANTS
  a = a
  b = b
  c = c
  o = o
  depot = depot
  Dates <- Days
  Home = 1
  Order = o
  Booked <- OnRoute
  Depot = depot
  Minutes <- Distance
  Km <- Distance
  Duration <- Visits
  Radius = 2
  DayStart = 0
  Cutoff = 12
  RouteEnd = 15
  Snap = 2
  PromiseMinutes = 4
  MinSlack = 1
  Slots <- Parts
  Given <- Promises
  Stated <- Times
  MaxRounds = 2
  MaxSlots = 2
  Alternatives = 3
  MaxRestated = 1
INVARIANTS TypeOK PromiseSound DeclinedStaysOut OfferCanBeKept
CHECK_DEADLOCK FALSE
