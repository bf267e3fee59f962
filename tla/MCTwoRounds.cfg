CONSTANTS
  anna = anna  ben = ben  carl = carl  dora = dora
  morning = morning  afternoon = afternoon
  Orders = {anna, ben, carl, dora}
  Days = {1, 2}
  Windows = {morning}
  Alternatives = 2
  Held <- TwoRoutes
  Requests = {r1, r2}
  NoDay = NoDay  NoWindow = NoWindow  NoOrder = NoOrder
  Endpoints = {"message"}
  Concurrency = "none"
  BookedWrite = FALSE
  Crashes = FALSE
  MaxOffers = 2
  MaxVersions = 3
SPECIFICATION Spec
INVARIANT OneOpenRound
CHECK_DEADLOCK FALSE
