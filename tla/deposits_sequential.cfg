SPECIFICATION MCSpec
CONSTANTS
  la = la
  lb = lb
  xa = xa
  xb = xb
  xapp = xapp
  t1 = t1
  t2 = t2
  t3 = t3
  ta = ta
  b1 = b1
  b2 = b2
  b3 = b3
  Nil = Nil
  Links = {la, lb}
  Addresses = {xa, xb, xapp}
  AppAddress = xapp
  Txs = {t1, t2, t3, ta}
  Hashed = {t1, t2, ta}
  Blocks = {b1, b2, b3}
  AddressOf <- MCAddressOf
  Required <- MCRequired
  TxTo <- MCTxTo
  TxAmount <- MCTxAmount
  TxBlock <- MCTxBlock
  Handlers = {h1}
  Sweepers = {s1}
  MaxDeliveries = 2
  MaxAborts = 1
INVARIANTS
  TypeOK
  NothingLost
  AppRowsBounded
PROPERTIES
  ConfirmedStays
  CreditsAreAtomic
  LinksAreTimely
CHECK_DEADLOCK FALSE
