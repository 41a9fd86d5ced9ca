SPECIFICATION MCSpec
CONSTANTS
  la = la
  lb = lb
  xa = xa
  xapp = xapp
  t1 = t1
  t2 = t2
  b1 = b1
  b2 = b2
  Nil = Nil
  Links = {la, lb}
  Addresses = {xa, xapp}
  AppAddress = xapp
  Txs = {t1, t2}
  Hashed = {t1, t2}
  Blocks = {b1, b2}
  AddressOf <- MCSharedAddress
  Required <- MCRequired
  TxTo <- MCTxTo
  TxAmount <- MCTxAmount
  TxBlock <- MCTxBlock
  Handlers = {h1, h2}
  Sweepers = {s1}
  MaxDeliveries = 2
  MaxAborts = 1
  Payers = {w1}
INVARIANTS
  ConfirmationsBounded
  SettledIsPaidFor
  SettledIsSound
SYMMETRY MCSymmetry
CHECK_DEADLOCK FALSE
