SPECIFICATION Spec
CONSTANTS
  fa = fa
  fb = fb
  FiatApps = {fa, fb}
  rn = rn
  FiatRequests = {r1, r2, rn}
  AppOf <- MCAppOf
  Asked <- MCAsked
  Lookers = {q1}
  Transferrers = {t1}
  Listings = {m1}
  Pages <- MCPages
  MaxCredit = 1
  MaxFiatFaults = 1
  pa = pa
  pb = pb
  ta = ta
  tb = tb
  sa = sa
  sb = sb
  ReportLinks = {pa, pb}
  ReportTxs = {ta, tb}
  TypeOf <- MCTypeOf
  SymbolOf <- MCSymbolOf
  CodeOf <- MCCodeOf
  AmountOf <- MCAmountOf
  FeeOf <- MCAmountOf
  Price <- MCPrice
  Top = 1
  LastTime = 6
  MonthIx <- MCMonthIx
  LocalMonthIx <- MCLocalMonthIx
  DayOf <- MCDayOf
  WeekOf <- MCWeekOf
  Midnights = {2, 4, 6}
  Overflowing = {6}
  wa = wa
  wb = wb
  wc = wc
  Entries = {wa, wb, wc}
  AddressOf <- MCAddressOf
  NoNetwork = {wb}
  Editors = {e1, e2}
  MaxCodes = 2
INVARIANTS
  TransfersAreCovered
  TotalIsCovered
  ReportsAgree
  WhitelistHolds
\* Every bound may be reached.
CHECK_DEADLOCK FALSE
