SPECIFICATION MCSpec
CONSTANTS
  la = la
  lb = lb
  t1 = t1
  t2 = t2
  t3 = t3
  d2 = d2
  w2 = w2
  Nil = Nil
  Links = {la, lb}
  CreatedAt <- MCCreatedAt
  Required <- MCRequired
  Txs = {t1, t2, t3}
  TxTo <- MCTxTo
  TxAmount <- MCTxAmount
  FeePercent = 50
  DustLimit = 1
  Gas = 1
  Window = 1
  Detectors = {d1, d2}
  Ticks = {w1, w2}
  FaultKinds = {"listing", "fee", "refused", "lost", "write", "abort"}
  MaxFaults = 1
PROPERTIES
  SettledIsFinal
  PaidIsSettled
CHECK_DEADLOCK FALSE
