SPECIFICATION Spec
CONSTANTS
  w1 = w1
  w2 = w2
  w3 = w3
  w4 = w4
  Nil = Nil
  Withdrawals = {w1}
  Amount <- MCAmount
  Fee <- MCFee
  Funds = 6
  AutoLimit = 0
  RequestLimit = 2
  AmountLimit = 3
  HasCooldown = FALSE
  Desks = {d1}
  Clerks = {c1, c2}
  Jobs = {j1, j2}
  FaultKinds = {}
  MaxFaults = 0
INVARIANTS
  NeverPaidTwice
CHECK_DEADLOCK FALSE
