------------------------------ MODULE Reports ------------------------------
(***************************************************************************)
(* The reports of the dashboard: totals of payment links and of            *)
(* merchant_app_tx rows by month, quarter and year, tables of a range of   *)
(* days, the coins used most, and what a merchant's links have earned.     *)
(*                                                                         *)
(* A report is a formula over the documents.  The model lets documents     *)
(* come into being while time goes on, and asks in every state whether     *)
(* the reports that are computed in different ways tell the same story.    *)
(*                                                                         *)
(* Documents carry the time of their creation.  The database groups them   *)
(* by UTC; "this year" and "this month" are the server's, whose clock may  *)
(* be in another time zone.                                                *)
(***************************************************************************)
EXTENDS Integers, FiniteSets, FiniteSetsExt

CONSTANTS
  ReportLinks,   \* payment links
  ReportTxs,     \* merchant_app_tx rows
  TypeOf,        \* TypeOf[d]: DEPOSIT, PAYMENT_LINKS or WITHDRAW, of a row
  SymbolOf,      \* SymbolOf[d]: the symbol that a link or row was stored with
  CodeOf,        \* CodeOf[d]: the code of a link: several codes share a symbol
  AmountOf,      \* AmountOf[d]: amount or recivedAmount
  FeeOf,         \* FeeOf[d]: adminFee
  Price,         \* Price[s] in USD, 0 when none is known
  Top,           \* how many coins are shown, 5 in the code
  LastTime,      \* times are 1..LastTime
  MonthIx,       \* MonthIx[t]: the month of t in UTC, counted from year 0
  LocalMonthIx,  \* the same by the server's clock
  DayOf,         \* DayOf[t]: the day of t in UTC
  WeekOf,        \* WeekOf[t]: its ISO week
  Overflowing,   \* times at which eleven months ago has no day like today
  Midnights      \* the times at which a day begins

ReportDocs == ReportLinks \cup ReportTxs
Times == 1..LastTime

ASSUME ReportsAssumption ==
  /\ TypeOf \in [ReportTxs -> {"DEPOSIT", "PAYMENT_LINKS", "WITHDRAW"}]
  /\ AmountOf \in [ReportDocs -> Nat] /\ FeeOf \in [ReportDocs -> Nat]
  /\ \A d \in ReportDocs : Price[SymbolOf[d]] \in Nat
  /\ IsFiniteSet(ReportLinks) /\ IsFiniteSet(ReportTxs)
  /\ Top \in Nat /\ LastTime \in Nat \ {0}
  /\ MonthIx \in [Times -> Nat] /\ LocalMonthIx \in [Times -> Nat]
  /\ DayOf \in [Times -> Nat] /\ WeekOf \in [Times -> Nat] /\ Midnights \subseteq Times
  /\ Overflowing \subseteq Times

VARIABLES
  now,      \* the time
  created,  \* created[d]: createdAt, or 0 while d is not there
  settled   \* documents with status SUCCESS; for links, withdrawStatus as well

reportVars == <<now, created, settled>>

ReportsTypeOK ==
  /\ now \in Times
  /\ created \in [ReportDocs -> 0..LastTime]
  /\ settled \subseteq {d \in ReportDocs : created[d] # 0}

ReportsInit ==
  now = 1 /\ created = [d \in ReportDocs |-> 0] /\ settled = {}

TimePasses ==
  /\ now < LastTime
  /\ now' = now + 1
  /\ UNCHANGED <<created, settled>>

\* A link is created, and settled later; a row is SUCCESS when it is stored.
CreateDoc(d) ==
  /\ created[d] = 0
  /\ created' = [created EXCEPT ![d] = now]
  /\ settled' = IF d \in ReportTxs THEN settled \cup {d} ELSE settled
  /\ UNCHANGED now

SettleLink(d) ==
  /\ d \in ReportLinks \ settled /\ created[d] # 0
  /\ settled' = settled \cup {d}
  /\ UNCHANGED <<now, created>>

ReportsNext == TimePasses \/ \E d \in ReportDocs : CreateDoc(d) \/ SettleLink(d)

ReportsSpec == ReportsInit /\ [][ReportsNext]_reportVars

-----------------------------------------------------------------------------
(* Periods.                                                                *)

YearOf(ix) == ix \div 12
MonthOf(ix) == (ix % 12) + 1

\* The server's clock is UTC's or ahead of it, by less than a month, and a year
\* that it has reached begins in UTC as well.
ASSUME Calendar ==
  /\ \A t, u \in Times : t <= u =>
       /\ MonthIx[t] <= MonthIx[u] /\ LocalMonthIx[t] <= LocalMonthIx[u]
       /\ DayOf[t] <= DayOf[u]
  /\ \A t, u \in Times : DayOf[t] = DayOf[u] => MonthIx[t] = MonthIx[u]
  /\ \A t \in Times :
       /\ LocalMonthIx[t] \in MonthIx[t]..(MonthIx[t] + 1)
       /\ \E u \in Times : YearOf(MonthIx[u]) = YearOf(LocalMonthIx[t])

\* Mutant: March belongs to the second quarter.
MQuarterSwitch ==
  [m \in 1..12 |-> CASE m \in 1..2 -> 1 [] m \in 3..5 -> 2 [] m \in 6..8 -> 3 [] OTHER -> 4]

\* Two ways to tell the quarter of a month.
QuarterSwitch ==
  [m \in 1..12 |-> CASE m \in 1..3 -> 1 [] m \in 4..6 -> 2 [] m \in 7..9 -> 3 [] OTHER -> 4]
QuarterCeil == [m \in 1..12 |-> (m + 2) \div 3]

ThisYear == YearOf(LocalMonthIx[now])

\* The slots of a chart, and the slot of a time; 0 is outside of the chart.
Slots(period) == IF period = "MONTHLY" THEN 1..12 ELSE 1..4

SlotOf(period, t, quarter) ==
  CASE period = "MONTHLY" -> MonthOf(MonthIx[t])
    [] period = "QUARTERLY" -> quarter[MonthOf(MonthIx[t])]
    [] OTHER -> LET back == ThisYear - YearOf(MonthIx[t])
                IN  IF back \in 0..3 THEN back + 1 ELSE 0

Chart(docs, period, quarter, value) ==
  [s \in Slots(period) |->
     MapThenSumSet(LAMBDA d : value[d], {d \in docs : SlotOf(period, created[d], quarter) = s})]

Total(chart) == MapThenSumSet(LAMBDA s : chart[s], DOMAIN chart)

One == [d \in ReportDocs |-> 1]
WorthOf == [d \in ReportDocs |-> AmountOf[d] * Price[SymbolOf[d]]]

\* createdAt: { $gte: startOfYear } by the server's clock, without an end.
SinceNewYear(docs) == {d \in docs : YearOf(LocalMonthIx[created[d]]) >= ThisYear}

\* From the first to the last instant of that year in UTC.
WithinYear(docs, y) == {d \in docs : YearOf(MonthIx[created[d]]) = y}

SettledLinks == settled \cap ReportLinks
RowsOf(types) == {d \in settled \cap ReportTxs : TypeOf[d] \in types}
In(docs, symbol) == {d \in docs : SymbolOf[d] = symbol}
OfCode(docs, c) == {d \in docs : CodeOf[d] = c}

-----------------------------------------------------------------------------
(* Charts.                                                                 *)

Revenue(period, symbol) ==
  [paymentLinks |-> Chart(SinceNewYear(In(SettledLinks, symbol)), period, QuarterSwitch, FeeOf),
   merchant |-> Chart(SinceNewYear(In(RowsOf({"WITHDRAW"}), symbol)), period, QuarterSwitch, FeeOf)]

MerchantDepositWithdrawals(period, symbol) ==
  [withdrawals |-> Chart(SinceNewYear(In(RowsOf({"WITHDRAW"}), symbol)), period, QuarterCeil, AmountOf),
   deposits |-> Chart(SinceNewYear(In(RowsOf({"DEPOSIT", "PAYMENT_LINKS"}), symbol)), period,
                      QuarterCeil, AmountOf)]

\* The coins with most documents, by symbol or by code; ties are broken by chance.
TopCoins(docs, key) ==
  LET coins == {key[d] : d \in docs}
      count(s) == Cardinality({d \in docs : key[d] = s})
  IN  {T \in SUBSET coins :
         /\ Cardinality(T) = IF Cardinality(coins) < Top THEN Cardinality(coins) ELSE Top
         /\ \A s \in T, u \in coins \ T : count(s) >= count(u)}

\* For one of the choices T: how many rows of a coin there are in each slot.
CryptoMargins(period, T) ==
  [s \in T |-> Chart(In(WithinYear(RowsOf({"DEPOSIT", "PAYMENT_LINKS", "WITHDRAW"}), ThisYear), s),
                     period, QuarterCeil, One)]

\* Links by code.  The annual chart goes back four years, for this year's codes.
Count(period, T) ==
  LET years == IF period = "ANNUALLY" THEN (ThisYear - 3)..ThisYear ELSE {ThisYear}
      docs == UNION {WithinYear(SettledLinks, y) : y \in years}
  IN  [c \in T |-> Chart(OfCode(docs, c), period, QuarterSwitch, One)]

\* The links of one merchant, in the last twelve months, the current one last, at
\* today's prices.  The first of them is found by going back eleven months from
\* today, and only then to its first day: of a day that the month does not have,
\* that is the month after.
UserPaymentLinksAmountSum ==
  LET last == LocalMonthIx[now]
      start == IF now \in Overflowing THEN last - 10 ELSE last - 11
      docs == {d \in SettledLinks : LocalMonthIx[created[d]] >= start}
  IN  [i \in 0..11 |->
         MapThenSumSet(LAMBDA d : WorthOf[d],
                       {d \in docs : MonthIx[created[d]] = last - 11 + i})]

-----------------------------------------------------------------------------
(* Tables.                                                                 *)

\* Dates without a time: the range ends when the last day begins.
Between(docs, start, end) ==
  {d \in docs : LET t == created[d] IN
     DayOf[t] >= start /\ (DayOf[t] < end \/ (DayOf[t] = end /\ t \in Midnights))}

GroupOf(format, t) ==
  CASE format = "DAYS" -> DayOf[t]
    [] format = "WEEKS" -> WeekOf[t]
    [] format = "MONTHS" -> MonthIx[t]
    [] OTHER -> YearOf(MonthIx[t])

\* A row per group; "total" is the number of rows.
Table(docs, format, value) ==
  [g \in {GroupOf(format, created[d]) : d \in docs} |->
     MapThenSumSet(LAMBDA d : value[d], {d \in docs : GroupOf(format, created[d]) = g})]

TablePaymentLinkCount(start, end, symbol, format) ==
  Table(Between(In(SettledLinks, symbol), start, end), format, One)
TableMerchantDepositWithdrawCount(start, end, symbol, format) ==
  Table(Between(In(RowsOf({"DEPOSIT", "PAYMENT_LINKS"}), symbol), start, end), format, One)
TableMerchantAppTxRevenueReports(start, end, symbol, format) ==
  Table(Between(In(RowsOf({"WITHDRAW"}), symbol), start, end), format, FeeOf)
TablePaymentLinkRevenueReports(start, end, symbol, format) ==
  Table(Between(In(SettledLinks, symbol), start, end), format, FeeOf)

-----------------------------------------------------------------------------
(* Properties.                                                             *)

ReportCoins == {SymbolOf[d] : d \in ReportDocs}
LinkSymbols == {SymbolOf[d] : d \in ReportLinks}
LinkCodes == {CodeOf[d] : d \in ReportLinks}
Formats == {"DAYS", "WEEKS", "MONTHS", "YEARS"}

Periods == {"MONTHLY", "QUARTERLY", "ANNUALLY"}

Agree(chart) ==
  /\ \A q \in 1..4 : chart["QUARTERLY"][q] = chart["MONTHLY"][3 * q - 2]
                         + chart["MONTHLY"][3 * q - 1] + chart["MONTHLY"][3 * q]
  /\ Total(chart["ANNUALLY"]) = Total(chart["MONTHLY"])

\* A quarter is the sum of its three months in every chart, and the years of a
\* chart add up to its months: nothing falls into no slot, into two or into the
\* wrong one.  The annual chart of links alone reaches further back.
ChartsAgree ==
  /\ \A s \in ReportCoins :
    /\ Agree([p \in Periods |-> Revenue(p, s).paymentLinks])
    /\ Agree([p \in Periods |-> Revenue(p, s).merchant])
    /\ Agree([p \in Periods |-> MerchantDepositWithdrawals(p, s).withdrawals])
    /\ Agree([p \in Periods |-> MerchantDepositWithdrawals(p, s).deposits])
    /\ \A T \in TopCoins(WithinYear(RowsOf({"DEPOSIT", "PAYMENT_LINKS", "WITHDRAW"}), ThisYear),
                         SymbolOf) :
         s \in T => Agree([p \in Periods |-> CryptoMargins(p, T)[s]])
  /\ \A T \in TopCoins(WithinYear(SettledLinks, ThisYear), CodeOf) : \A c \in T :
       Agree([p \in Periods |->
         IF p = "ANNUALLY" THEN [i \in {1} |-> Count(p, T)[c][1]] ELSE Count(p, T)[c]])

\* The fees and counts of a year are the same in the charts and in the tables
\* from its first day to the day after its last one, whatever the rows of the
\* table are.  Only what was created while the year had begun by the server's
\* clock and not in UTC is in the charts of the revenue and in no table.  The
\* counts of links are by code in the chart and by symbol in the table: it is the
\* sum over all of them that agrees.  A merchant's links are counted once in the
\* last twelve months, but for those of the first month at a time when going back
\* to it overflows.  (For a server in UTC or east of it.)
ReportsAreComplete ==
  LET days == {DayOf[t] : t \in {u \in Times : YearOf(MonthIx[u]) = ThisYear}}
      first == CHOOSE x \in days : \A z \in days : x <= z
      after == 1 + CHOOSE x \in days : \A z \in days : x >= z
      early(docs) == MapThenSumSet(LAMBDA d : FeeOf[d], {d \in SinceNewYear(docs) :
                                           YearOf(MonthIx[created[d]]) < ThisYear})
      last == LocalMonthIx[now]
      missed == {d \in SettledLinks : now \in Overflowing /\ LocalMonthIx[created[d]] = last - 11}
  IN
  /\ \A s \in ReportCoins, f \in Formats :
       /\ Total(Revenue("MONTHLY", s).paymentLinks)
            = Total(TablePaymentLinkRevenueReports(first, after, s, f)) + early(In(SettledLinks, s))
       /\ Total(Revenue("MONTHLY", s).merchant)
            = Total(TableMerchantAppTxRevenueReports(first, after, s, f))
                + early(In(RowsOf({"WITHDRAW"}), s))
       /\ Total(TableMerchantDepositWithdrawCount(first, after, s, f))
            <= Total(CryptoMargins("MONTHLY", {s})[s])
  /\ \A f \in Formats :
       Total([c \in LinkCodes |-> Total(Count("MONTHLY", {c})[c])])
         = Total([s \in LinkSymbols |-> Total(TablePaymentLinkCount(first, after, s, f))])
  /\ Total(UserPaymentLinksAmountSum)
       = MapThenSumSet(LAMBDA d : WorthOf[d],
                       {d \in SettledLinks : MonthIx[created[d]] >= last - 11} \ missed)

\* All the reports tell the same story, once there is something to tell.
ReportsAgree == ReportsTypeOK /\ (settled # {} => ChartsAgree /\ ReportsAreComplete)
=============================================================================
