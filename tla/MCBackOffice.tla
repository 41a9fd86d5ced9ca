--------------------------- MODULE MCBackOffice ---------------------------
(* What people do at the dashboard: whitelists, fiat balances, reports.    *)
(* The three share no state: a behaviour follows one of them.              *)
EXTENDS FiatBalance, Reports, Whitelist

CONSTANTS fa, fb, rn, pa, pb, ta, tb, sa, sb, wa, wb, wc

VARIABLE part

MCAppOf == [r \in FiatRequests |-> fa]
\* Two requests for what a link is worth, and one for a negative amount.
MCAsked == [r \in FiatRequests |-> IF r = rn THEN -1 ELSE 1]
MCPages == {{fa, fb}, {fb}, {}}

MCTypeOf == [d \in ReportTxs |-> IF d = ta THEN "DEPOSIT" ELSE "WITHDRAW"]
MCSymbolOf == [d \in ReportDocs |-> IF d = tb THEN sb ELSE sa]
\* The two links have codes of their own that share a symbol.
MCCodeOf == [d \in ReportLinks |-> d]
MCAmountOf == [d \in ReportDocs |-> IF d \in {pa, ta} THEN 1 ELSE 2]
MCPrice == [s \in {sa, sb} |-> IF s = sa THEN 1 ELSE 2]

\* New Year's Eve in UTC, New Year at the server; midnight; the last day of February
\* and the first one of March; the next New Year's Eve; 30 January, eleven months
\* after a day that February does not have.
MCMonthIx == <<23, 24, 25, 26, 35, 36>>
MCLocalMonthIx == <<24, 24, 25, 26, 36, 36>>
MCDayOf == <<40, 41, 99, 100, 405, 435>>
MCWeekOf == <<6, 6, 14, 14, 58, 63>>

\* wb is the address of wa without a network.
MCAddressOf == [w \in Entries |-> IF w = wb THEN wa ELSE w]

vars == <<part, fiatVars, reportVars, whitelistVars>>

TypeOK ==
  /\ part \in {"fiat", "reports", "whitelist"}
  /\ FiatTypeOK /\ ReportsTypeOK /\ WhitelistTypeOK

\* Bounds: a negative request raises the balance once; two requests are transferred;
\* nobody looks at the balance of fb, which no transfer is compared with.
Bounded ==
  /\ \A a \in FiatApps : raised[a] <= 1 /\ transferred[a] <= 2
  /\ \A q \in Lookers : fb \notin looker[q].app

Init ==
  /\ part \in {"fiat", "reports", "whitelist"}
  /\ FiatInit /\ ReportsInit /\ WhitelistInit

Next ==
  /\ UNCHANGED part
  /\ \/ part = "fiat" /\ FiatNext /\ Bounded' /\ UNCHANGED <<reportVars, whitelistVars>>
     \/ part = "reports" /\ ReportsNext /\ UNCHANGED <<fiatVars, whitelistVars>>
     \/ part = "whitelist" /\ WhitelistNext /\ UNCHANGED <<fiatVars, reportVars>>

Spec == Init /\ [][Next]_vars
=============================================================================
