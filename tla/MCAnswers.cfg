CONSTANTS
  anna = anna  ben = ben  carl = carl  dora = dora
  morning = morning  afternoon = afternoon
  Orders = {carl}
  Days = {1}
  Windows = {morning}
  Alternatives = 1
  Held <- NoRoutes
  Requests = {r1, r2}
  NoDay = NoDay  NoWindow = NoWindow  NoOrder = NoOrder
  Endpoints = {"plan", "message", "accept", "reject"}
  Concurrency = "any"
  BookedWrite = TRUE
  Crashes = TRUE
  MaxOffers = 3
  MaxVersions = 3
SPECIFICATION Spec
SYMMETRY Alike
PROPERTY AnswersFinal
CHECK_DEADLOCK FALSE
