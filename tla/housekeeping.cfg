SPECIFICATION Spec
CONSTANTS
  lt = lt
  lw = lw
  lk = lk
  Settled = {lt, lw, lk}
  Batches <- MCBatches
  OnTron = {lt}
  Keyless = {lk}
  td = td
  ts = ts
  tw = tw
  Tokens = {td, ts, tw}
  LinkToken <- MCLinkToken
  LeftToken <- MCLeftToken
  TokenPage = 2
  c1 = c1
  c2 = c2
  Collectors = {c1, c2}
  Limit = 1
  MaxReclaimFaults = 2
  a1 = a1
  a2 = a2
  AppIds = {a1, a2}
  Owner <- MCOwner
  Names = {"n", " n", "o"}
  Trim <- MCTrim
  AppLimit = 1
  Creators = {d1, d2}
  Cleaners = {k1, k2}
  Coins = 2
  MaxAppFaults = 1
INVARIANTS
  GasDrainIsBounded
  WalletsAreEmptied
  AppsAreKept
PROPERTIES
  EverythingIsTidy
\* Everything may be cleaned up.
CHECK_DEADLOCK FALSE
