SPECIFICATION MCSpec
CONSTANTS
  le = le
  ln = ln
  w1 = w1
  w2 = w2
  Nil = Nil
  Links = {le, ln}
  Native = {ln}
  Received <- MCReceived
  AdminShare <- MCAdminShare
  Dust = 1
  Ticks = {w1, w2}
  Clerks = {c1}
  FaultKinds = {"lost", "failed", "reverted", "write", "abort"}
  MaxFaults = 2
  MaxRetries = 0
  MaxManual = 1
INVARIANTS
  SuccessIsPaid
  BooksAgree
PROPERTIES
  SuccessIsFinal
  EveryLinkIsSettled
CHECK_DEADLOCK FALSE
