CONSTANTS
  anna = anna  ben = ben  carl = carl  dora = dora
  morning = morning  afternoon = afternoon
  Orders = {anna, ben}
  Days = {1, 2}
  Windows = {morning, afternoon}
  Alternatives = 3
  Held <- SharedRoute
  Requests = {r1, r2}
  NoDay = NoDay  NoWindow = NoWindow  NoOrder = NoOrder
  Endpoints = {"replan", "recovery", "accept"}
  Concurrency = "any"
  BookedWrite = FALSE
  Crashes = FALSE
  MaxOffers = 1
  MaxVersions = 3
SPECIFICATION Spec
PROPERTY ConfirmedNotDropped
CHECK_DEADLOCK FALSE
