SPECIFICATION MCSpec
CONSTANTS
  xe = xe
  xt = xt
  xx = xx
  xb = xb
  dt = dt
  du = du
  db = db
  we = we
  wf = wf
  wt = wt
  wx = wx
  wy = wy
  wb = wb
  wv = wv
  m1 = m1
  m2 = m2
  Deposits = {dt, du, db}
  Requests = {we, wf, wt, wx, wy, wb, wv}
  Wallets = {xe, xt, xx, xb}
  ChainOf <- MCChainOf
  WalletOf <- MCWalletOf
  Valid = {we, wf, wt, wx, wy, wb}
  Trc20 = {wt, dt}
  Unreadable = {du}
  Value <- MCValue
  Net <- MCNet
  Fee <- MCFee
  Opening = 3
  Window = 2
  Ticks = {m1, m2}
  Posted = {db}
  Between = {dt, db}
  WalletPage = 1
  MaxNewer = 1
  MaxFaults = 1
INVARIANTS
  RowsAreTrue
  RowsBounded
PROPERTIES
  EveryTransferIsRecorded
CHECK_DEADLOCK FALSE
