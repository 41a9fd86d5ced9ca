------------------------------ MODULE EvmPayout ------------------------------
(***************************************************************************)
(* Payout of confirmed EVM payment links.                                  *)
(*                                                                         *)
(* Every 10 seconds a cron tick selects the PARTIALLY_SUCCESS links with   *)
(* one aggregation and works through them: the platform funds gas, then    *)
(* the deposit wallet pays the admin fee and then the merchant, and the    *)
(* outcome is written to the link.  A tick is not prevented from starting  *)
(* while an earlier one still runs.  Admins may also move the money by     *)
(* hand.                                                                   *)
(*                                                                         *)
(* The chain is kept as balances.  Sending a transaction and waiting for   *)
(* its receipt is one step: it can also be lost (mined, but the wait ends  *)
(* in an error), fail (error, nothing mined) or be reverted.  Gas and its  *)
(* price are left out; that gas is missing is one way to fail.             *)
(***************************************************************************)
EXTENDS Naturals, FiniteSets

CONSTANTS
  Links,        \* links that have been paid: PARTIALLY_SUCCESS at the start
  Native,       \* those paid in the native coin; the others hold an ERC-20
  Received,     \* Received[l]: recivedAmount, which is on the deposit address
  AdminShare,   \* AdminShare[n]: the admin fee contained in the amount n
  Dust,         \* an admin fee below Dust is not worth its gas
  Ticks,        \* ticks of the withdraw cron that can run at the same time
  Clerks,       \* admin requests that can run at the same time
  FaultKinds,   \* the kinds of faults that may happen
  MaxFaults,    \* bound: number of faults
  MaxRetries,   \* bound: withdrawRetryCount is counted up to this value
  MaxManual,    \* bound: admin requests
  Nil           \* no link

Faults == {"lost", "failed", "reverted", "write", "abort"}
Amounts == UNION {0..Received[l] : l \in Links}

ASSUME PayoutAssumption ==
  /\ Native \subseteq Links
  /\ Received \in [Links -> Nat \ {0}]
  /\ AdminShare \in [Amounts -> Nat]
  /\ \A n \in Amounts : n > 0 => AdminShare[n] < n
  /\ AdminShare[0] = 0
  /\ Dust \in Nat
  /\ IsFiniteSet(Ticks)
  /\ FaultKinds \subseteq Faults
  /\ MaxFaults \in Nat /\ MaxRetries \in Nat /\ MaxManual \in Nat
  /\ Nil \notin Links

Status == {"PARTIALLY_SUCCESS", "SUCCESS"}
WithdrawStatus == {"PENDING", "NATIVE_TRANSFER", "ADMIN_CHARGES", "SUCCESS"}
Request == {"depositTxFee", "withdrawFundAdmin", "withdrawFundMerchant",
            "linkFundsAdmin", "linkFundsMerchant"}

VARIABLES
  status,     \* payment_links.status
  withdraw,   \* payment_links.withdrawStatus
  retries,    \* payment_links.withdrawRetryCount
  balance,    \* balance of the deposit address
  toMerchant, \* what has reached the merchant
  toAdmin,    \* what has reached the admin fee wallet
  tick,       \* what each tick of the cron knows
  clerk,      \* what each admin request knows
  manual,     \* admin requests so far
  faults,     \* faults so far
  happened,   \* history: the kinds of faults so far, and whether ticks overlapped
  waived      \* history: links for which an admin has had a fee of 0 transferred

dbVars == <<status, withdraw, retries>>
chainVars == <<balance, toMerchant, toAdmin>>
trouble == <<faults, happened, waived>>
vars == <<dbVars, chainVars, tick, clerk, manual, trouble>>

\* todo and seen are the result of the aggregation: seen[l] is withdrawStatus.
IdleTick == [pc |-> "idle", todo |-> {}, seen |-> [l \in Links |-> "PENDING"],
             link |-> Nil, charged |-> FALSE, fee |-> 0, net |-> 0,
             feePaid |-> FALSE, netPaid |-> FALSE]
IdleClerk == [pc |-> "idle", request |-> "depositTxFee", link |-> Nil,
              amount |-> 0, sawStatus |-> "SUCCESS", sawWithdraw |-> "SUCCESS"]

TickState ==
  [pc : {"idle", "next", "readStatus", "estimate", "fundGas", "recordGas", "split",
         "adminLeg", "merchantLeg", "recordAdmin", "recordMerchant", "announce"},
   todo : SUBSET Links, seen : [Links -> WithdrawStatus], link : Links \cup {Nil},
   charged : BOOLEAN, fee : Nat, net : Nat, feePaid : BOOLEAN, netPaid : BOOLEAN]
ClerkState ==
  [pc : {"idle", "transfer", "save"}, request : Request, link : Links \cup {Nil},
   amount : Nat, sawStatus : Status, sawWithdraw : WithdrawStatus]

TypeOK ==
  /\ status \in [Links -> Status]
  /\ withdraw \in [Links -> WithdrawStatus]
  /\ retries \in [Links -> 0..MaxRetries]
  /\ balance \in [Links -> Nat]
  /\ toMerchant \in [Links -> Nat]
  /\ toAdmin \in [Links -> Nat]
  /\ tick \in [Ticks -> TickState]
  /\ clerk \in [Clerks -> ClerkState]
  /\ manual \in 0..MaxManual
  /\ faults \in 0..MaxFaults
  /\ happened \subseteq Faults \cup {"overlap"}
  /\ waived \subseteq Links

Init ==
  /\ status = [l \in Links |-> "PARTIALLY_SUCCESS"]
  /\ withdraw = [l \in Links |-> "PENDING"]
  /\ retries = [l \in Links |-> 0]
  /\ balance = Received
  /\ toMerchant = [l \in Links |-> 0]
  /\ toAdmin = [l \in Links |-> 0]
  /\ tick = [w \in Ticks |-> IdleTick]
  /\ clerk = [c \in Clerks |-> IdleClerk]
  /\ manual = 0
  /\ faults = 0
  /\ happened = {} /\ waived = {}

Fault(k) ==
  /\ k \in FaultKinds
  /\ faults < MaxFaults
  /\ faults' = faults + 1
  /\ happened' = happened \cup {k}
  /\ UNCHANGED waived

-----------------------------------------------------------------------------
(* withdrawPaymentFromLinksAndUpdateStatus                                 *)

\* Mutant: links whose fee is paid are not selected.
MSelectedUncharged ==
  {l \in Links : status[l] = "PARTIALLY_SUCCESS" /\ withdraw[l] # "ADMIN_CHARGES"}

Selected == {l \in Links : status[l] = "PARTIALLY_SUCCESS"}

TickStart(w) ==
  /\ tick[w].pc = "idle"
  /\ Selected # {}
  /\ tick' = [tick EXCEPT ![w] = [@ EXCEPT !.pc = "next", !.todo = Selected, !.seen = withdraw]]
  /\ happened' = IF \E v \in Ticks : tick[v].pc # "idle" THEN happened \cup {"overlap"}
                                                          ELSE happened
  /\ UNCHANGED <<dbVars, chainVars, clerk, manual, faults, waived>>

\* The aggregation does not project withdrawRetryCount: the limit on the
\* retries compares 1 with 5 and never applies.  Only the counter is written.
TickNext(w) ==
  /\ tick[w].pc = "next"
  /\ \E l \in tick[w].todo :
       /\ retries' = [retries EXCEPT ![l] = IF @ < MaxRetries THEN @ + 1 ELSE @]
       /\ tick' = [tick EXCEPT ![w] = [@ EXCEPT
            !.pc = IF l \in Native THEN "readStatus" ELSE "fundGas",
            !.todo = tick[w].todo \ {l}, !.link = l,
            !.charged = tick[w].seen[l] = "ADMIN_CHARGES",
            !.feePaid = FALSE, !.netPaid = FALSE]]
  /\ UNCHANGED <<status, withdraw, chainVars, clerk, manual, trouble>>

TickEnd(w) ==
  /\ tick[w].pc = "next" /\ tick[w].todo = {}
  /\ tick' = [tick EXCEPT ![w] = IdleTick]
  /\ UNCHANGED <<dbVars, chainVars, clerk, manual, trouble>>

\* The native branch reads withdrawStatus again and splits the stored amount.
\* The merchant's part is not raised when a dust fee is skipped.
ReadStatus(w) ==
  LET n == Received[tick[w].link] IN
  /\ tick[w].pc = "readStatus"
  /\ tick' = [tick EXCEPT ![w] = [@ EXCEPT !.pc = "estimate",
       !.charged = withdraw[tick[w].link] = "ADMIN_CHARGES",
       !.fee = IF AdminShare[n] < Dust THEN 0 ELSE AdminShare[n],
       !.net = n - AdminShare[n]]]
  /\ UNCHANGED <<dbVars, chainVars, clerk, manual, trouble>>

\* The gas of either leg can only be estimated while the balance covers it.
Coverable(l) ==
  AdminShare[Received[l]] <= balance[l] /\ Received[l] - AdminShare[Received[l]] <= balance[l]

Estimate(w) ==
  /\ tick[w].pc = "estimate"
  /\ tick' = [tick EXCEPT ![w].pc = IF Coverable(tick[w].link) THEN "adminLeg" ELSE "next"]
  /\ UNCHANGED <<dbVars, chainVars, clerk, manual, trouble>>

\* Gas from the platform's wallet; the status it depends on is the one that
\* the aggregation returned.
FundGas(w) ==
  /\ tick[w].pc = "fundGas"
  /\ tick' = [tick EXCEPT ![w].pc =
       IF tick[w].seen[tick[w].link] = "PENDING" THEN "recordGas" ELSE "split"]
  /\ UNCHANGED <<dbVars, chainVars, clerk, manual, trouble>>

\* No estimate, or both transfers of gas failed: the link waits for a later tick.
SkipLink(w) ==
  /\ tick[w].pc \in {"estimate", "fundGas"}
  /\ Fault("failed")
  /\ tick' = [tick EXCEPT ![w].pc = "next"]
  /\ UNCHANGED <<dbVars, chainVars, clerk, manual>>

\* updatePaymentLinkModel reports an error of the database as false, which
\* nobody looks at.
Written(update) == update \/ (Fault("write") /\ UNCHANGED dbVars)

RecordGas(w) ==
  LET l == tick[w].link IN
  /\ tick[w].pc = "recordGas"
  /\ Written(/\ withdraw' = [withdraw EXCEPT ![l] = "NATIVE_TRANSFER"]
             /\ UNCHANGED <<status, retries, trouble>>)
  /\ tick' = [tick EXCEPT ![w].pc = "split"]
  /\ UNCHANGED <<chainVars, clerk, manual>>

\* calculateERC20SplitAmounts: the stored amount, capped to the balance.
Payable(l) == IF balance[l] < Received[l] THEN balance[l] ELSE Received[l]

\* Mutant: a dust fee is raised to the threshold instead.
MErc20Fee(n) == IF AdminShare[n] < Dust THEN Dust ELSE AdminShare[n]

\* A dust fee is left to the merchant.
Erc20Fee(n) == IF AdminShare[n] < Dust THEN 0 ELSE AdminShare[n]

Split(w) ==
  LET n == Payable(tick[w].link) IN
  /\ tick[w].pc = "split"
  /\ tick' = [tick EXCEPT ![w] =
       [@ EXCEPT !.pc = "adminLeg", !.fee = Erc20Fee(n), !.net = n - Erc20Fee(n)]]
  /\ UNCHANGED <<dbVars, chainVars, clerk, manual, trouble>>

\* Mutant: the status of the link is not considered.
MFeeIsDue(w) == tick[w].fee > 0

FeeIsDue(w) == tick[w].fee > 0 /\ ~tick[w].charged

SkipAdminLeg(w) ==
  /\ tick[w].pc = "adminLeg" /\ ~FeeIsDue(w)
  /\ tick' = [tick EXCEPT ![w].pc = "merchantLeg"]
  /\ UNCHANGED <<dbVars, chainVars, clerk, manual, trouble>>

PayAdmin(l, n) ==
  /\ n <= balance[l]
  /\ balance' = [balance EXCEPT ![l] = @ - n]
  /\ toAdmin' = [toAdmin EXCEPT ![l] = @ + n]
  /\ UNCHANGED toMerchant

\* Without a receipt neither leg counts, and the merchant's is not sent.  A
\* reverted fee is no obstacle to the merchant's transfer.
AdminLeg(w) ==
  LET l == tick[w].link
      goto(p, paid) == [tick EXCEPT ![w] = [@ EXCEPT !.pc = p, !.feePaid = paid]]
  IN
  /\ tick[w].pc = "adminLeg" /\ FeeIsDue(w)
  /\ \/ /\ PayAdmin(l, tick[w].fee)
        /\ tick' = goto("merchantLeg", TRUE)
        /\ UNCHANGED trouble
     \/ /\ PayAdmin(l, tick[w].fee) /\ Fault("lost")
        /\ tick' = goto("next", FALSE)
     \/ /\ UNCHANGED chainVars
        /\ \/ tick[w].fee > balance[l] /\ UNCHANGED trouble
           \/ Fault("failed")
        /\ tick' = goto("next", FALSE)
     \/ /\ l \notin Native /\ Fault("reverted") /\ UNCHANGED chainVars
        /\ tick' = goto("merchantLeg", FALSE)
  /\ UNCHANGED <<dbVars, clerk, manual>>

PayMerchant(l, n) ==
  /\ n <= balance[l]
  /\ balance' = [balance EXCEPT ![l] = @ - n]
  /\ toMerchant' = [toMerchant EXCEPT ![l] = @ + n]
  /\ UNCHANGED <<toAdmin>>

MerchantLeg(w) ==
  LET l == tick[w].link
      goto(paid) == [tick EXCEPT ![w] = [@ EXCEPT !.pc = "recordAdmin", !.netPaid = paid]]
  IN
  /\ tick[w].pc = "merchantLeg"
  /\ \/ /\ PayMerchant(l, tick[w].net)
        /\ tick' = goto(TRUE)
        /\ UNCHANGED trouble
     \/ /\ PayMerchant(l, tick[w].net) /\ Fault("lost")
        /\ tick' = goto(FALSE)
     \/ /\ UNCHANGED chainVars
        /\ \/ tick[w].net > balance[l] /\ UNCHANGED trouble
           \/ Fault("failed")
        /\ tick' = goto(FALSE)
  /\ UNCHANGED <<dbVars, clerk, manual>>

\* Mutant: the receipt of the merchant's transfer is not checked.
MRecordAnyway(w) ==
  /\ tick[w].pc = "recordAdmin"
  /\ tick' = [tick EXCEPT ![w].pc = "recordMerchant"]
  /\ UNCHANGED <<dbVars, chainVars, clerk, manual, trouble>>

RecordAdmin(w) ==
  LET l == tick[w].link IN
  /\ tick[w].pc = "recordAdmin"
  /\ tick' = [tick EXCEPT ![w].pc = IF tick[w].netPaid THEN "recordMerchant" ELSE "next"]
  /\ \/ /\ tick[w].feePaid
        /\ Written(/\ withdraw' = [withdraw EXCEPT ![l] = "ADMIN_CHARGES"]
                   /\ UNCHANGED <<status, retries, trouble>>)
     \/ ~tick[w].feePaid /\ UNCHANGED <<dbVars, trouble>>
  /\ UNCHANGED <<chainVars, clerk, manual>>

RecordMerchant(w) ==
  LET l == tick[w].link IN
  /\ tick[w].pc = "recordMerchant"
  /\ Written(/\ status' = [status EXCEPT ![l] = "SUCCESS"]
             /\ withdraw' = [withdraw EXCEPT ![l] = "SUCCESS"]
             /\ UNCHANGED <<retries, trouble>>)
  /\ tick' = [tick EXCEPT ![w].pc = "announce"]
  /\ UNCHANGED <<chainVars, clerk, manual>>

\* PAYMENT_SUCCESS; what becomes of the webhook is WebhookDelivery.
Announce(w) ==
  /\ tick[w].pc = "announce"
  /\ tick' = [tick EXCEPT ![w].pc = "next"]
  /\ UNCHANGED <<dbVars, chainVars, clerk, manual, trouble>>

\* A missing fee configuration or a crash ends the tick.
TickAborts(w) ==
  /\ tick[w].pc # "idle"
  /\ Fault("abort")
  /\ tick' = [tick EXCEPT ![w] = IdleTick]
  /\ UNCHANGED <<dbVars, chainVars, clerk, manual>>

-----------------------------------------------------------------------------
(* Admin requests: depositTxFeeByAdmin, withdrawFund and                   *)
(* withdrawPaymentLinkFundsByAdmin.                                        *)

\* What the endpoint demands of the link it has read.
Permitted(r, l) ==
  /\ r = "depositTxFee" => status[l] = "PARTIALLY_SUCCESS" /\ withdraw[l] = "PENDING"
  /\ r = "withdrawFundMerchant" => withdraw[l] = "ADMIN_CHARGES"

\* The endpoints reject no amount that can be sent, not even 0.
ClerkStart(c) ==
  /\ clerk[c].pc = "idle"
  /\ manual < MaxManual /\ manual' = manual + 1
  /\ \E r \in Request, l \in Links : \E n \in 0..Received[l] :
       /\ Permitted(r, l)
       /\ clerk' = [clerk EXCEPT ![c] =
            [pc |-> "transfer", request |-> r, link |-> l, amount |-> n,
             sawStatus |-> status[l], sawWithdraw |-> withdraw[l]]]
  /\ UNCHANGED <<dbVars, chainVars, tick, trouble>>

ToAdmin == {"withdrawFundAdmin", "linkFundsAdmin"}

ClerkTransfer(c) ==
  LET l == clerk[c].link
      n == clerk[c].amount
  IN
  /\ clerk[c].pc = "transfer"
  /\ \/ /\ CASE clerk[c].request = "depositTxFee" -> UNCHANGED chainVars
             [] clerk[c].request \in ToAdmin -> PayAdmin(l, n)
             [] OTHER -> PayMerchant(l, n)
        /\ waived' = IF clerk[c].request \in ToAdmin /\ n = 0 THEN waived \cup {l} ELSE waived
        /\ clerk' = [clerk EXCEPT ![c].pc = "save"]
     \/ /\ n > balance[l] /\ UNCHANGED <<chainVars, waived>>
        /\ clerk' = [clerk EXCEPT ![c] = IdleClerk]
  /\ UNCHANGED <<dbVars, tick, manual, faults, happened>>

\* What the request assigns to the document it has read.
NewStatus(k) ==
  IF k.request \in {"withdrawFundMerchant", "linkFundsMerchant"} THEN "SUCCESS"
                                                                  ELSE k.sawStatus
NewWithdraw(k) ==
  CASE k.request = "depositTxFee" -> "NATIVE_TRANSFER"
    [] k.request = "withdrawFundAdmin" -> "ADMIN_CHARGES"
    [] k.request = "linkFundsAdmin" ->
         IF k.sawStatus = "SUCCESS" THEN k.sawWithdraw ELSE "ADMIN_CHARGES"
    [] OTHER -> "SUCCESS"

\* Mutant: save() writes the whole document.
MClerkSave(c) ==
  LET k == clerk[c] IN
  /\ k.pc = "save"
  /\ status' = [status EXCEPT ![k.link] = NewStatus(k)]
  /\ withdraw' = [withdraw EXCEPT ![k.link] = NewWithdraw(k)]
  /\ clerk' = [clerk EXCEPT ![c] = IdleClerk]
  /\ UNCHANGED <<retries, chainVars, tick, manual, trouble>>

\* save() writes the fields that differ from the document that was read,
\* whatever the collection holds now.
ClerkSave(c) ==
  LET k == clerk[c]
      stored(old, saw, new) == IF new = saw THEN old ELSE new
  IN
  /\ k.pc = "save"
  /\ status' = [status EXCEPT ![k.link] = stored(@, k.sawStatus, NewStatus(k))]
  /\ withdraw' = [withdraw EXCEPT ![k.link] = stored(@, k.sawWithdraw, NewWithdraw(k))]
  /\ clerk' = [clerk EXCEPT ![c] = IdleClerk]
  /\ UNCHANGED <<retries, chainVars, tick, manual, trouble>>

-----------------------------------------------------------------------------
TickStep(w) ==
  \/ TickStart(w) \/ TickNext(w) \/ TickEnd(w)
  \/ ReadStatus(w) \/ Estimate(w) \/ FundGas(w) \/ RecordGas(w) \/ Split(w)
  \/ SkipAdminLeg(w) \/ AdminLeg(w) \/ MerchantLeg(w)
  \/ RecordAdmin(w) \/ RecordMerchant(w) \/ Announce(w)

Next ==
  \/ \E w \in Ticks : TickStep(w)
  \/ \E w \in Ticks : SkipLink(w)
  \/ \E w \in Ticks : TickAborts(w)
  \/ \E c \in Clerks : ClerkStart(c) \/ ClerkTransfer(c) \/ ClerkSave(c)

Spec == Init /\ [][Next]_vars

\* The cron keeps firing and Node resumes every tick.
FairSpec == Spec /\ \A w \in Ticks : WF_vars(TickStep(w))

-----------------------------------------------------------------------------
(* Properties.                                                             *)

\* A link that the cron settles has paid its merchant, whichever transfers were
\* lost, reverted or raced by another tick, unless ticks that overlap have each
\* taken the fee of a token until nothing was left: then a transfer of nothing
\* settles the link.
SuccessIsPaid ==
  manual = 0 => \A l \in Links : status[l] = "SUCCESS" =>
    \/ toMerchant[l] > 0
    \/ l \notin Native /\ "overlap" \in happened /\ toAdmin[l] = Received[l]

\* A settled link is never selected for payout again: neither an overlapping
\* tick nor an admin's save of an older document reopens it.
SuccessIsFinal ==
  [][\A l \in Links : status[l] = "SUCCESS" => status'[l] = "SUCCESS"]_vars

\* The admin fee is taken once, also when transfers fail or revert and are
\* repeated.  A lost receipt, a failed write, a crash and a second tick
\* can each have it taken again.
AdminFeeOnce ==
  manual = 0 /\ happened \subseteq {"failed", "reverted"} =>
    \A l \in Links : toAdmin[l] <= AdminShare[Received[l]]

\* A settled link has paid the merchant everything but the admin fee, also when
\* the fee reverts or a write fails.  A merchant's transfer that is repeated after
\* the fee was paid has the fee deducted again.
MerchantGetsNet ==
  manual = 0 /\ happened \subseteq {"reverted", "write"} =>
    \A l \in Links : status[l] = "SUCCESS" =>
      toMerchant[l] >= Received[l] - AdminShare[Received[l]]

\* A link that says that its admin fee is paid has paid it, whoever wrote that,
\* except when an admin had 0 transferred for it: that is recorded as a fee, too,
\* and the ticks do not take one any more.
ChargedIsPaid ==
  \A l \in Links : withdraw[l] = "ADMIN_CHARGES" => toAdmin[l] > 0 \/ l \in waived

\* Every paid link is settled in the end.  The gas of a native link can no longer
\* be estimated once its balance is less than its stored amounts: after an
\* unrecorded transfer it stays as it is.
EveryLinkIsSettled ==
  \A l \in Links :
    <>(status[l] = "SUCCESS" \/ (l \in Native /\ ~(manual = 0 /\ happened \subseteq {"failed"})))

\* What the database, the merchant, the admin and the deposit wallet tell agrees,
\* to the extent that the faults allow.
BooksAgree == TypeOK /\ ChargedIsPaid /\ AdminFeeOnce /\ MerchantGetsNet
=============================================================================
