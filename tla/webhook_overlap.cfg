SPECIFICATION FairSpec
CONSTANTS
  e1 = e1
  e2 = e2
  p = p
  Nil = Nil
  Events = {e1, e2}
  PaymentOf <- MCPaymentOf
  Crons = {c1, c2}
  MaxAttempts = 2
  MaxRefusals = 4
  MaxErrors = 1
INVARIANTS
  WebhookTypeOK
  PostsBounded
PROPERTIES
  SettledStaysQuiet
  NewestIsDelivered
CHECK_DEADLOCK FALSE
