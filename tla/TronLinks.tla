------------------------------ MODULE TronLinks ------------------------------
(***************************************************************************)
(* TRON payment links: detection of deposits, expiry and payout.           *)
(*                                                                         *)
(* Tatum calls handleTronWebhook for a transfer; every five minutes        *)
(* tronPaymentLink looks at the links that are still PENDING; every two    *)
(* minutes withdrawTronPaymentFromLinks pays out the PARTIALLY_SUCCESS     *)
(* ones, the merchant first and then the admin fee.  All of them write a   *)
(* link by _id, without a condition on its status, long after they have    *)
(* read it: each await ends an action, and what was read is kept in the    *)
(* record of the activation.                                               *)
(*                                                                         *)
(* Every link has its own address and one token.  TronGrid, which is asked *)
(* for balances, lags behind the chain.  A transfer and the wait for its   *)
(* receipt are one step.                                                   *)
(***************************************************************************)
EXTENDS Naturals, FiniteSets, FiniteSetsExt

CONSTANTS
  Links,          \* TRON payment links, PENDING at the start
  Native,         \* the links in TRX; the others hold a TRC-20 token
  Required,       \* Required[l]: amount * (1 - toleranceMargin / 100)
  Txs,            \* transfers of customers
  TxTo,           \* TxTo[t]: the link whose address receives t
  TxAmount,       \* TxAmount[t]: the amount, never zero
  NetOf,          \* NetOf[n]: the merchant's part of n, all of it if the fee is dust
  MayBreak,       \* links of which some may be broken: their transfers always fail
  Handlers,       \* activations of handleTronWebhook at the same time
  Crons,          \* ticks of tronPaymentLink at the same time
  Ticks,          \* ticks of withdrawTronPaymentFromLinks at the same time
  MaxRetries,     \* MAX_WITHDRAW_RETRIES, 5 in the code
  MaxDeliveries,  \* bound: deliveries of one transfer
  FaultKinds,     \* the kinds of faults that may happen
  MaxFaults,      \* bound: number of faults
  Nil             \* no link, no transfer

\* read: a TRC-20 balance cannot be read.  listing: the latest transfer is not
\* listed.  gas: no TRX for the transfer.  lost: sent, reported as an error.
\* failed: an error, nothing sent.  rejected: TRX only, refused without an
\* error.  unmined: TRC-20 only, taken for sent after a timeout.  abort: an
\* error or a crash ends an activation.
Faults == {"read", "listing", "gas", "lost", "failed", "rejected", "unmined", "abort"}

Arrivable(l) == MapThenSumSet(LAMBDA t : TxAmount[t], {t \in Txs : TxTo[t] = l})
Amounts == UNION {0..Arrivable(l) : l \in Links}

ASSUME TronAssumption ==
  /\ Native \subseteq Links /\ MayBreak \subseteq Links
  /\ Required \in [Links -> Nat \ {0}]
  /\ TxTo \in [Txs -> Links]
  /\ TxAmount \in [Txs -> Nat \ {0}]
  /\ NetOf \in [Amounts -> Nat]
  /\ \A n \in Amounts : NetOf[n] <= n /\ (n > 0 => NetOf[n] > 0)
  /\ IsFiniteSet(Ticks) /\ Ticks # {} /\ IsFiniteSet(Txs)
  /\ MaxRetries \in Nat /\ MaxDeliveries \in Nat /\ MaxFaults \in Nat
  /\ FaultKinds \subseteq Faults
  /\ Nil \notin Links \cup Txs

Status == {"PENDING", "PARTIALLY_SUCCESS", "SUCCESS", "EXPIRED"}
WithdrawStatus == {"PENDING", "NATIVE_TRANSFER", "ADMIN_CHARGES", "SUCCESS", "WITHDRAW_FAILED"}

VARIABLES
  status,     \* payment_links.status
  received,   \* payment_links.recivedAmount
  withdraw,   \* payment_links.withdrawStatus
  retries,    \* payment_links.withdrawRetryCount
  sent,       \* transfers that are on the chain
  balance,    \* balance of the link's address
  visible,    \* the balance that TronGrid reports
  toMerchant, \* what has reached the merchant
  toAdmin,    \* what has reached the admin
  deliveries, \* deliveries[t]: how often Tatum reported t
  handler,    \* what each activation of handleTronWebhook knows
  cron,       \* what each tick of tronPaymentLink knows
  tick,       \* what each tick of withdrawTronPaymentFromLinks knows
  attempts,   \* history: how often the payout of a link was attempted
  announced,  \* history: PAYMENT_SUCCESS webhooks sent
  faults,     \* faults so far
  happened,   \* history: the kinds of faults so far
  broken      \* the broken links

dbVars == <<status, received, withdraw, retries>>
chainVars == <<balance, toMerchant, toAdmin>>
history == <<attempts, announced>>
payVars == <<withdraw, retries, history>>
detectVars == <<deliveries, handler, cron>>
trouble == <<faults, happened, broken>>
vars == <<dbVars, sent, chainVars, visible, detectVars, tick, history, trouble>>

IdleHandler == [pc |-> "idle", tx |-> Nil, link |-> Nil, total |-> 0]
IdleCron == [pc |-> "idle", todo |-> {}, link |-> Nil, total |-> 0]
IdleTick == [pc |-> "idle", todo |-> {}, count |-> [l \in Links |-> 0],
             total |-> [l \in Links |-> 0], link |-> Nil, netPaid |-> FALSE,
             feePaid |-> FALSE, again |-> FALSE]

HandlerState ==
  [pc : {"idle", "find", "balance", "store", "notify"}, tx : Txs \cup {Nil},
   link : Links \cup {Nil}, total : Nat]
CronState ==
  [pc : {"idle", "next", "store", "notify"}, todo : SUBSET Links,
   link : Links \cup {Nil}, total : Nat]
TickState ==
  [pc : {"idle", "next", "gas", "merchant", "adminGas", "admin", "record", "announce"},
   todo : SUBSET Links, count : [Links -> Nat], total : [Links -> Nat],
   link : Links \cup {Nil}, netPaid : BOOLEAN, feePaid : BOOLEAN, again : BOOLEAN]

TypeOK ==
  /\ status \in [Links -> Status]
  /\ received \in [Links -> Nat]
  /\ withdraw \in [Links -> WithdrawStatus]
  /\ retries \in [Links -> Nat]
  /\ sent \in SUBSET Txs
  /\ balance \in [Links -> Nat] /\ visible \in [Links -> Nat]
  /\ toMerchant \in [Links -> Nat] /\ toAdmin \in [Links -> Nat]
  /\ deliveries \in [Txs -> 0..MaxDeliveries]
  /\ handler \in [Handlers -> HandlerState]
  /\ cron \in [Crons -> CronState]
  /\ tick \in [Ticks -> TickState]
  /\ attempts \in [Links -> Nat] /\ announced \in [Links -> Nat]
  /\ faults \in 0..MaxFaults
  /\ happened \subseteq Faults /\ broken \subseteq MayBreak

Init ==
  /\ status = [l \in Links |-> "PENDING"]
  /\ received = [l \in Links |-> 0]
  /\ withdraw = [l \in Links |-> "PENDING"]
  /\ retries = [l \in Links |-> 0]
  /\ sent = {}
  /\ balance = [l \in Links |-> 0] /\ visible = [l \in Links |-> 0]
  /\ toMerchant = [l \in Links |-> 0] /\ toAdmin = [l \in Links |-> 0]
  /\ deliveries = [t \in Txs |-> 0]
  /\ handler = [h \in Handlers |-> IdleHandler]
  /\ cron = [c \in Crons |-> IdleCron]
  /\ tick = [w \in Ticks |-> IdleTick]
  /\ attempts = [l \in Links |-> 0] /\ announced = [l \in Links |-> 0]
  /\ faults = 0 /\ happened = {}
  /\ broken \in SUBSET MayBreak

Fault(k) ==
  /\ k \in FaultKinds
  /\ faults < MaxFaults
  /\ faults' = faults + 1
  /\ happened' = happened \cup {k}
  /\ UNCHANGED broken

-----------------------------------------------------------------------------
(* The chain, and the end of a link's time.                                *)

\* A customer transfers to the address of a link.
Arrive(t) ==
  /\ t \notin sent
  /\ sent' = sent \cup {t}
  /\ balance' = [balance EXCEPT ![TxTo[t]] = @ + TxAmount[t]]
  /\ UNCHANGED <<dbVars, visible, toMerchant, toAdmin, detectVars, tick, history, trouble>>

\* TronGrid catches up.
Sync(l) ==
  /\ visible[l] # balance[l]
  /\ visible' = [visible EXCEPT ![l] = balance[l]]
  /\ UNCHANGED <<dbVars, sent, chainVars, detectVars, tick, history, trouble>>

\* The updateMany of the expiry cron that all kinds of links share.
Expire(l) ==
  /\ status[l] = "PENDING"
  /\ status' = [status EXCEPT ![l] = "EXPIRED"]
  /\ UNCHANGED <<received, payVars, sent, chainVars, visible, detectVars, tick, trouble>>

\* The amount that confirms a link, and lets PAYMENT_CONFIRMED be announced.
Suffices(l, n) == n >= Required[l]

\* Mutant: a link with a partial amount is confirmed too.
MStorePartial(l, n) ==
  /\ received' = [received EXCEPT ![l] = n]
  /\ status' = [status EXCEPT ![l] = "PARTIALLY_SUCCESS"]

\* The findOneAndUpdate of both detectors, by _id alone.
Store(l, n) ==
  /\ received' = [received EXCEPT ![l] = n]
  /\ status' = [status EXCEPT ![l] =
       IF Suffices(l, n) THEN "PARTIALLY_SUCCESS" ELSE "PENDING"]

-----------------------------------------------------------------------------
(* handleTronWebhook                                                       *)

Receive(h, t) ==
  /\ handler[h].pc = "idle"
  /\ t \in sent /\ deliveries[t] < MaxDeliveries
  /\ deliveries' = [deliveries EXCEPT ![t] = @ + 1]
  /\ handler' = [handler EXCEPT ![h] = [IdleHandler EXCEPT !.pc = "find", !.tx = t]]
  /\ UNCHANGED <<dbVars, sent, chainVars, visible, cron, tick, history, trouble>>

FindLink(h) ==
  LET l == TxTo[handler[h].tx] IN
  /\ handler[h].pc = "find"
  /\ handler' = [handler EXCEPT ![h] =
       IF status[l] = "PENDING" THEN [@ EXCEPT !.pc = "balance", !.link = l]
                                ELSE IdleHandler]
  /\ UNCHANGED <<dbVars, sent, chainVars, visible, deliveries, cron, tick, history, trouble>>

\* Five seconds later: the amount of the webhook replaces a balance of zero.
ReadBalance(h) ==
  LET l == handler[h].link
      told == TxAmount[handler[h].tx]
      found(n) == [handler EXCEPT ![h].pc = "store", ![h].total = n]
  IN
  /\ handler[h].pc = "balance"
  /\ \/ /\ handler' = found(IF visible[l] > 0 THEN visible[l] ELSE told)
        /\ UNCHANGED trouble
     \/ /\ l \notin Native /\ Fault("read")
        /\ handler' = found(told)
  /\ UNCHANGED <<dbVars, sent, chainVars, visible, deliveries, cron, tick, history>>

HandlerStore(h) ==
  LET l == handler[h].link
      n == handler[h].total
  IN
  /\ handler[h].pc = "store"
  /\ Store(l, n)
  /\ handler' = [handler EXCEPT ![h] =
       IF Suffices(l, n) THEN [@ EXCEPT !.pc = "notify"] ELSE IdleHandler]
  /\ UNCHANGED <<payVars, sent, chainVars, visible, deliveries, cron, tick, trouble>>

\* PAYMENT_CONFIRMED, or an error anywhere: the activation ends.
HandlerEnds(h) ==
  /\ \/ handler[h].pc = "notify" /\ UNCHANGED trouble
     \/ handler[h].pc # "idle" /\ Fault("abort")
  /\ handler' = [handler EXCEPT ![h] = IdleHandler]
  /\ UNCHANGED <<dbVars, sent, chainVars, visible, deliveries, cron, tick, history>>

-----------------------------------------------------------------------------
(* tronPaymentLink                                                         *)

Undetected == {l \in Links : status[l] = "PENDING"}

CronStart(c) ==
  /\ cron[c].pc = "idle"
  /\ Undetected # {}
  /\ cron' = [cron EXCEPT ![c] = [IdleCron EXCEPT !.pc = "next", !.todo = Undetected]]
  /\ UNCHANGED <<dbVars, sent, chainVars, visible, deliveries, handler, tick, history, trouble>>

\* The balance is read, and after another await the list of transfers.
CronLook(c) ==
  /\ cron[c].pc = "next"
  /\ \E l \in cron[c].todo :
       \/ /\ visible[l] > 0
          /\ cron' = [cron EXCEPT ![c] =
               [@ EXCEPT !.pc = "store", !.todo = cron[c].todo \ {l}, !.link = l,
                         !.total = visible[l]]]
          /\ UNCHANGED trouble
       \/ /\ (visible[l] = 0 /\ UNCHANGED trouble) \/ Fault("listing")
          /\ cron' = [cron EXCEPT ![c].todo = @ \ {l}]
  /\ UNCHANGED <<dbVars, sent, chainVars, visible, deliveries, handler, tick, history>>

CronStore(c) ==
  LET l == cron[c].link
      n == cron[c].total
  IN
  /\ cron[c].pc = "store"
  /\ Store(l, n)
  /\ cron' = [cron EXCEPT ![c].pc = IF Suffices(l, n) THEN "notify" ELSE "next"]
  /\ UNCHANGED <<payVars, sent, chainVars, visible, deliveries, handler, tick, trouble>>

\* PAYMENT_CONFIRMED
CronNotify(c) ==
  /\ cron[c].pc = "notify"
  /\ cron' = [cron EXCEPT ![c].pc = "next"]
  /\ UNCHANGED <<dbVars, sent, chainVars, visible, deliveries, handler, tick, history, trouble>>

\* The list is done, or an error ended the tick.
CronEnds(c) ==
  /\ \/ cron[c].pc = "next" /\ cron[c].todo = {} /\ UNCHANGED trouble
     \/ cron[c].pc # "idle" /\ Fault("abort")
  /\ cron' = [cron EXCEPT ![c] = IdleCron]
  /\ UNCHANGED <<dbVars, sent, chainVars, visible, deliveries, handler, tick, history>>
-----------------------------------------------------------------------------
(* withdrawTronPaymentFromLinks                                            *)

Selected == {l \in Links : status[l] = "PARTIALLY_SUCCESS" /\ withdraw[l] # "WITHDRAW_FAILED"}

TickStart(w) ==
  /\ tick[w].pc = "idle"
  /\ Selected # {}
  /\ tick' = [tick EXCEPT ![w] =
       [IdleTick EXCEPT !.pc = "next", !.todo = Selected, !.count = retries, !.total = received]]
  /\ UNCHANGED <<dbVars, sent, chainVars, visible, detectVars, history, trouble>>

\* Mutant: one attempt too many.
MGivenUp(w, l) == tick[w].count[l] > MaxRetries

GivenUp(w, l) == tick[w].count[l] + 1 > MaxRetries

\* An error, in transferTron for one, is thrown and ends the tick.
Throw(w) == tick' = [tick EXCEPT ![w] = IdleTick]

\* Mutant: the loop is left in place of going on, and nothing is stored.
MTickGivesUp(w) ==
  /\ tick[w].pc = "next"
  /\ \E l \in tick[w].todo : GivenUp(w, l)
  /\ Throw(w)
  /\ UNCHANGED <<dbVars, sent, chainVars, visible, detectVars, history, trouble>>

\* The limit compares the counter that the aggregation returned.
TickGivesUp(w) ==
  /\ tick[w].pc = "next"
  /\ \E l \in tick[w].todo :
       /\ GivenUp(w, l)
       /\ withdraw' = [withdraw EXCEPT ![l] = "WITHDRAW_FAILED"]
       /\ retries' = [retries EXCEPT ![l] = tick[w].count[l] + 1]
       /\ tick' = [tick EXCEPT ![w].todo = @ \ {l}]
  /\ UNCHANGED <<status, received, sent, chainVars, visible, detectVars, history, trouble>>

TickNext(w) ==
  /\ tick[w].pc = "next"
  /\ \E l \in tick[w].todo :
       /\ ~GivenUp(w, l)
       /\ retries' = [retries EXCEPT ![l] = @ + 1]
       /\ LET due == Suffices(l, tick[w].total[l]) IN
          /\ attempts' = [attempts EXCEPT ![l] = IF due THEN @ + 1 ELSE @]
          /\ tick' = [tick EXCEPT ![w] =
               [@ EXCEPT !.pc = IF ~due THEN "next" ELSE IF l \in Native THEN "merchant" ELSE "gas",
                         !.todo = tick[w].todo \ {l}, !.link = l,
                         !.netPaid = FALSE, !.feePaid = FALSE, !.again = FALSE]]
  /\ UNCHANGED <<status, received, withdraw, sent, chainVars, visible, detectVars, announced,
                 trouble>>

\* Gas for the merchant's transfer of a token; without it the loop continues.
FundGas(w) ==
  /\ tick[w].pc = "gas"
  /\ \/ tick' = [tick EXCEPT ![w].pc = "merchant"] /\ UNCHANGED trouble
     \/ tick' = [tick EXCEPT ![w].pc = "next"] /\ Fault("gas")
  /\ UNCHANGED <<dbVars, sent, chainVars, visible, detectVars, history>>

Net(w) == NetOf[tick[w].total[tick[w].link]]
Fee(w) == tick[w].total[tick[w].link] - Net(w)

\* The ways a transfer of n ends: mined and reported (ok), mined and thrown,
\* thrown, or not mined and not thrown.
Transfer(w, purse, n, ok, refused) ==
  LET l == tick[w].link
      mined == /\ n <= balance[l] /\ l \notin broken
               /\ balance' = [balance EXCEPT ![l] = @ - n]
               /\ purse' = [purse EXCEPT ![l] = @ + n]
  IN
  \/ mined /\ ok /\ UNCHANGED trouble
  \/ mined /\ Throw(w) /\ Fault("lost")
  \/ /\ UNCHANGED <<balance, purse>>
     /\ \/ (n > balance[l] \/ l \in broken) /\ Throw(w) /\ UNCHANGED trouble
        \/ Throw(w) /\ Fault("failed")
        \/ l \in Native /\ refused /\ Fault("rejected")
        \/ l \notin Native /\ ok /\ Fault("unmined")

AfterMerchant(w) ==
  CASE Fee(w) = 0 -> "record"
    [] tick[w].link \in Native -> "admin"
    [] OTHER -> "adminGas"

\* The local variable that is asked for the withdrawStatus starts undefined:
\* a merchant who was paid in an earlier tick is paid again.
MerchantLeg(w) ==
  LET goto(paid) == tick' = [tick EXCEPT ![w].pc = AfterMerchant(w), ![w].netPaid = paid] IN
  /\ tick[w].pc = "merchant"
  /\ Transfer(w, toMerchant, Net(w), goto(TRUE), goto(FALSE))
  /\ UNCHANGED <<dbVars, sent, visible, toAdmin, detectVars, history>>

\* Without gas for the fee the loop is left, and nothing is recorded.
FundAdminGas(w) ==
  /\ tick[w].pc = "adminGas"
  /\ \/ tick' = [tick EXCEPT ![w].pc = "admin"] /\ UNCHANGED trouble
     \/ Throw(w) /\ Fault("gas")
  /\ UNCHANGED <<dbVars, sent, chainVars, visible, detectVars, history>>

AdminLeg(w) ==
  LET goto(paid) == tick' = [tick EXCEPT ![w].pc = "record", ![w].feePaid = paid] IN
  /\ tick[w].pc = "admin"
  /\ Transfer(w, toAdmin, Fee(w), goto(TRUE), goto(FALSE))
  /\ UNCHANGED <<dbVars, sent, visible, toMerchant, detectVars, history>>

\* Mutant: the admin's transfer alone decides.
MSettled(w) == Fee(w) = 0 \/ tick[w].feePaid

Settled(w) == tick[w].netPaid /\ (Fee(w) = 0 \/ tick[w].feePaid)

Record(w) ==
  LET l == tick[w].link IN
  /\ tick[w].pc = "record"
  /\ status' = [status EXCEPT ![l] = IF Settled(w) THEN "SUCCESS" ELSE @]
  /\ withdraw' = [withdraw EXCEPT ![l] =
       IF Settled(w) THEN "SUCCESS"
       ELSE IF tick[w].feePaid THEN "ADMIN_CHARGES"
       ELSE IF tick[w].netPaid THEN "NATIVE_TRANSFER" ELSE @]
  /\ tick' = [tick EXCEPT ![w].pc = "announce"]
  /\ UNCHANGED <<received, retries, sent, chainVars, visible, detectVars, history, trouble>>

\* PAYMENT_SUCCESS if the link is settled.  The code of the native branch is
\* followed by the common one, which records and announces once more.
Announce(w) ==
  /\ tick[w].pc = "announce"
  /\ announced' = [announced EXCEPT ![tick[w].link] = IF Settled(w) THEN @ + 1 ELSE @]
  /\ tick' = [tick EXCEPT ![w] =
       IF tick[w].link \in Native /\ ~tick[w].again
         THEN [@ EXCEPT !.pc = "record", !.again = TRUE] ELSE [@ EXCEPT !.pc = "next"]]
  /\ UNCHANGED <<dbVars, sent, chainVars, visible, detectVars, attempts, trouble>>

TickEnds(w) ==
  /\ \/ tick[w].pc = "next" /\ tick[w].todo = {} /\ UNCHANGED trouble
     \/ tick[w].pc # "idle" /\ Fault("abort")
  /\ Throw(w)
  /\ UNCHANGED <<dbVars, sent, chainVars, visible, detectVars, history>>

-----------------------------------------------------------------------------
HandlerStep(h) == FindLink(h) \/ ReadBalance(h) \/ HandlerStore(h) \/ HandlerEnds(h)
CronStep(c) == CronStart(c) \/ CronLook(c) \/ CronStore(c) \/ CronNotify(c) \/ CronEnds(c)
TickStep(w) ==
  \/ TickStart(w) \/ TickGivesUp(w) \/ TickNext(w) \/ FundGas(w) \/ MerchantLeg(w)
  \/ FundAdminGas(w) \/ AdminLeg(w) \/ Record(w) \/ Announce(w) \/ TickEnds(w)

Next ==
  \/ \E t \in Txs : Arrive(t)
  \/ \E l \in Links : Sync(l) \/ Expire(l)
  \/ \E h \in Handlers, t \in Txs : Receive(h, t)
  \/ \E h \in Handlers : HandlerStep(h)
  \/ \E c \in Crons : CronStep(c)
  \/ \E w \in Ticks : TickStep(w)

Spec == Init /\ [][Next]_vars

\* TronGrid catches up, the crons keep firing and Node resumes every
\* activation.  Tatum need not call.
FairSpec ==
  /\ Spec
  /\ \A l \in Links : WF_vars(Sync(l))
  /\ \A h \in Handlers : WF_vars(HandlerStep(h))
  /\ \A c \in Crons : WF_vars(CronStep(c))
  /\ \A w \in Ticks : WF_vars(TickStep(w))

-----------------------------------------------------------------------------
(* Properties.                                                             *)

\* What the customers have transferred to link l so far.
Arrived(l) == MapThenSumSet(LAMBDA t : TxAmount[t], {t \in sent : TxTo[t] = l})

\* Redelivered webhooks and overlapping detectors never credit more than what
\* was transferred: a balance is stored, and not added to an amount.
CreditIsMoney == \A l \in Links : received[l] <= Arrived(l)

\* However the detectors overwrite each other, a link that waits for its payout
\* has an amount that suffices on record: status and amount are one write.
ConfirmedHasRequired ==
  \A l \in Links : status[l] = "PARTIALLY_SUCCESS" => received[l] >= Required[l]

\* What is credited is there, and what is confirmed suffices.
CreditsAreTrue == TypeOK /\ CreditIsMoney /\ ConfirmedHasRequired

\* The payout of a link is attempted MAX_WITHDRAW_RETRIES times, and once more
\* for each further tick that can run at the same time.
AttemptsBounded ==
  \A l \in Links : attempts[l] <= MaxRetries + Cardinality(Ticks) - 1

\* Unless a token transfer was taken for sent after its timeout, a settled link
\* has paid out the amount that was asked for, whatever failed on the way.
SuccessIsPaid ==
  "unmined" \notin happened =>
    \A l \in Links : status[l] = "SUCCESS" => toMerchant[l] + toAdmin[l] >= Required[l]

\* A customer who has transferred the amount is confirmed, although Tatum need
\* not call, unless the link expires first.
PaidIsDetected ==
  \A l \in Links : <>(Arrived(l) >= Required[l]) => <>(status[l] # "PENDING")

\* A link that cannot be paid out, and whose error ends tick after tick, does not
\* keep the others from being paid.
OthersAreSettled ==
  \A l \in Links :
    status[l] = "PARTIALLY_SUCCESS" ~>
      (status[l] = "SUCCESS" \/ l \in broken \/ happened # {})
=============================================================================
