CONSTANTS
  anna = anna  ben = ben  carl = carl  dora = dora
  morning = morning  afternoon = afternoon
  Orders = {anna, ben}
  Days = {1, 2}
  Windows = {morning, afternoon}
  Alternatives = 3
  Held <- SharedRoute
  Requests = {r1}
  NoDay = NoDay  NoWindow = NoWindow  NoOrder = NoOrder
  Endpoints = {"readiness", "replan", "route_plan", "morning_run", "recovery", "accept"}
  Concurrency = "none"
  BookedWrite = FALSE
  Crashes = FALSE
  MaxOffers = 1
  MaxVersions = 3
SPECIFICATION FairSpec
INVARIANTS RowsLoad RoutesMatchPromises
PROPERTIES PromiseStands SentOutStays ConfirmedNotDropped DelayedLeavesRoute
CHECK_DEADLOCK FALSE
