SPECIFICATION Spec
CONSTANTS
  w1 = w1
  w2 = w2
  w3 = w3
  w4 = w4
  Nil = Nil
  Withdrawals = {w1, w2, w3}
  Amount <- MCAmount
  Fee <- MCFee
  Funds = 6
  AutoLimit = 1
  RequestLimit = 2
  AmountLimit = 3
  HasCooldown = TRUE
  Desks = {d1}
  Clerks = {c1, c2}
  Jobs = {j1, j2}
  FaultKinds = {"failed", "lost", "unmined", "fee", "write", "crash"}
  MaxFaults = 1
INVARIANTS
  PaidOnce
  LimitsHold
  OutcomesAreTrue
PROPERTIES
  DeclinedIsFinal
SYMMETRY MCSymmetry
CHECK_DEADLOCK FALSE
