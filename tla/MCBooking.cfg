CONSTANTS
  anna = anna  ben = ben  carl = carl  dora = dora
  morning = morning  afternoon = afternoon
  Orders = {anna, ben, carl, dora}
  Days = {1, 2}
  Windows = {morning}
  Alternatives = 2
  Held <- TwoRoutes
  Requests = {r1, r2}
  NoDay = NoDay  NoWindow = NoWindow  NoOrder = NoOrder
  Endpoints = {"plan", "message", "accept", "reject"}
  Concurrency = "orders"
  BookedWrite = FALSE
  Crashes = FALSE
  MaxOffers = 2
  MaxVersions = 3
SPECIFICATION Spec
INVARIANTS TypeOK RowsLoad RoutesMatchPromises BookedNotAsked OpenCanBeAnswered
SYMMETRY Alike
PROPERTIES KeepsAppointments TestedRouteIsPublished
CHECK_DEADLOCK FALSE
