SPECIFICATION Spec
CONSTANTS
  k1 = k1
  k2 = k2
  c1 = c1
  c2 = c2
  c3 = c3
  d1 = d1
  d2 = d2
  d3 = d3
  Keys = {k1}
  Cards = {c1}
  Decisions = {d1, d2}
  HttpDecisions = {d1, d2}
  MaxCrashes = 0
  NoKey = NoKey
  NoCard = NoCard
CHECK_DEADLOCK FALSE
INVARIANT ApprovalSpentOnce
