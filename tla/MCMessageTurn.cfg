CONSTANTS
  r1 = r1  r2 = r2  r3 = r3  m1 = m1  a1 = a1
  Uses <- KeysUsed
  Requests = {r1, r2, r3}
  MessageKeys = {m1}
  AnswerKeys = {a1}
  NoKey = NoKey
  Bodies = {yes, no}
  MaxCrashes = 1
SPECIFICATION Spec
INVARIANTS TypeOK OneTurnPerKey ClaimIsWhole ReplayShowsTurn
PROPERTIES RequestsReturn RunsAreClosed
CHECK_DEADLOCK FALSE
