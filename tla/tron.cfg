SPECIFICATION MCSpec
CONSTANTS
  la = la
  ln = ln
  t1 = t1
  t2 = t2
  t3 = t3
  Nil = Nil
  Links = {la, ln}
  Native = {ln}
  Required <- MCRequired
  Txs = {t1, t2, t3}
  TxTo <- MCTxTo
  TxAmount <- MCTxAmount
  NetOf <- MCNetOf
  MayBreak = {la, ln}
  Handlers = {h1}
  Crons = {c1}
  Ticks = {w1}
  MaxRetries = 2
  MaxDeliveries = 1
  FaultKinds = {"read", "listing", "abort", "gas", "lost", "failed", "rejected", "unmined"}
  MaxFaults = 2
INVARIANTS
  CreditsAreTrue
  SuccessIsPaid
  AttemptsBounded
PROPERTIES
  PaidIsSettled
CHECK_DEADLOCK FALSE
