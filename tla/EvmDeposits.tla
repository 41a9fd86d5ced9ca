----------------------------- MODULE EvmDeposits -----------------------------
(***************************************************************************)
(* Detection of EVM deposits and expiry of EVM payment links.              *)
(*                                                                         *)
(* Moralis calls the HTTP handler `stream` for every transfer to a watched *)
(* address, at least once and usually twice (unconfirmed, then confirmed). *)
(* The handler reads the payment_links collection several times, awaits in *)
(* between, and then writes the link by _id.  Every 30 seconds a cron      *)
(* expires the links whose monitor row is overdue.  Handlers and crons run *)
(* in one Node process and interleave at every await: each await is the    *)
(* end of an action here, and what was read before it is kept in the       *)
(* record of the handler or of the cron tick.                              *)
(*                                                                         *)
(* The model has one chain and one token, so that of the triple (address,  *)
(* chain, token) which checkWalletTx matches on the address decides.       *)
(***************************************************************************)
EXTENDS Naturals, FiniteSets, FiniteSetsExt

CONSTANTS
  Links,          \* payment links, all created and PENDING at the start
  Addresses,      \* deposit addresses and the wallet address of the app
  AppAddress,     \* the address of the app's own wallet
  Txs,            \* transfers on the chain
  Hashed,         \* transfers whose merged record carries `hash`; a bare
                  \* ERC-20 transfer record only has `transactionHash`
  Blocks,         \* blocks of the chain
  AddressOf,      \* AddressOf[l]: the deposit address derived for link l
  Required,       \* Required[l]: amount * (1 - toleranceMargin / 100)
  TxTo,           \* TxTo[t]: the receiving address
  TxAmount,       \* TxAmount[t]: the amount, never zero
  TxBlock,        \* TxBlock[t]: the block that contains t
  Handlers,       \* concurrent activations of the stream handler
  Sweepers,       \* concurrent ticks of the expiry cron
  MaxDeliveries,  \* bound: deliveries of one transfer
  MaxAborts,      \* bound: activations cut short by an error or a crash
  Nil             \* no link, no transfer, no block

ASSUME DepositsAssumption ==
  /\ AddressOf \in [Links -> Addresses]
  /\ \A l \in Links : AddressOf[l] # AppAddress
  /\ Required \in [Links -> Nat]
  /\ TxTo \in [Txs -> Addresses]
  /\ TxAmount \in [Txs -> Nat \ {0}]
  /\ TxBlock \in [Txs -> Blocks]
  /\ Hashed \subseteq Txs
  /\ IsFiniteSet(Links)
  /\ IsFiniteSet(Txs)
  /\ IsFiniteSet(Handlers)
  /\ IsFiniteSet(Sweepers)
  /\ MaxDeliveries \in Nat
  /\ MaxAborts \in Nat
  /\ Nil \notin Links \cup Txs \cup Blocks

Status == {"PENDING", "PARTIALLY_SUCCESS", "SUCCESS", "EXPIRED"}
Kind   == {"PAYMENT_LINK", "PARTIAL_PAYMENT_LINK", "APP", "NONE"}

VARIABLES
  status,      \* payment_links.status
  received,    \* payment_links.recivedAmount
  lastBlock,   \* payment_links.block
  lastHash,    \* payment_links.hash
  appRows,     \* appRows[t]: merchant_app_tx rows created for t
  monitors,    \* links with a row in wallet_monitors
  streamed,    \* addresses registered with the Moralis stream
  overdue,     \* links whose expireTime has passed
  deliveries,  \* deliveries[t]: how often t was delivered
  handler,     \* what each activation of stream knows
  sweeper,     \* what each tick of the expiry cron knows
  aborts,      \* activations cut short so far
  confirmations \* history: PAYMENT_CONFIRMED webhooks sent for each link

linkVars == <<status, received, lastBlock, lastHash>>
vars == <<linkVars, appRows, monitors, streamed, overdue, deliveries,
          handler, sweeper, aborts, confirmations>>

IdleHandler == [pc |-> "idle", tx |-> Nil, paid |-> FALSE, inApp |-> FALSE,
                kind |-> "NONE", link |-> Nil, total |-> 0]
IdleSweeper == [pc |-> "idle", batch |-> {}, pending |-> {}]

HandlerState ==
  [pc : {"idle", "findPayment", "findApp", "checkWalletTx", "credit", "notify"},
   tx : Txs \cup {Nil}, paid : BOOLEAN, inApp : BOOLEAN, kind : Kind,
   link : Links \cup {Nil}, total : Nat]
SweeperState ==
  [pc : {"idle", "deleteMonitors", "findPending", "expire", "notify"},
   batch : SUBSET Links, pending : SUBSET Links]

TypeOK ==
  /\ status \in [Links -> Status]
  /\ received \in [Links -> Nat]
  /\ lastBlock \in [Links -> Blocks \cup {Nil}]
  /\ lastHash \in [Links -> Txs \cup {Nil}]
  /\ appRows \in [Txs -> Nat]
  /\ monitors \in SUBSET Links
  /\ streamed \in SUBSET Addresses
  /\ overdue \in SUBSET Links
  /\ deliveries \in [Txs -> 0..MaxDeliveries]
  /\ handler \in [Handlers -> HandlerState]
  /\ sweeper \in [Sweepers -> SweeperState]
  /\ aborts \in 0..MaxAborts
  /\ confirmations \in [Links -> Nat]

Init ==
  /\ status = [l \in Links |-> "PENDING"]
  /\ received = [l \in Links |-> 0]
  /\ lastBlock = [l \in Links |-> Nil]
  /\ lastHash = [l \in Links |-> Nil]
  /\ appRows = [t \in Txs |-> 0]
  /\ monitors = Links
  /\ streamed = Addresses
  /\ overdue = {}
  /\ deliveries = [t \in Txs |-> 0]
  /\ handler = [h \in Handlers |-> IdleHandler]
  /\ sweeper = [s \in Sweepers |-> IdleSweeper]
  /\ aborts = 0
  /\ confirmations = [l \in Links |-> 0]

-----------------------------------------------------------------------------
(* stream(tx), for one transfer of the payload.                            *)

\* Moralis calls the handler with a transfer to a registered address.
Deliver(h, t) ==
  /\ handler[h].pc = "idle"
  /\ TxTo[t] \in streamed
  /\ deliveries[t] < MaxDeliveries
  /\ deliveries' = [deliveries EXCEPT ![t] = @ + 1]
  /\ handler' = [handler EXCEPT ![h] =
                   [IdleHandler EXCEPT !.pc = "findPayment", !.tx = t]]
  /\ UNCHANGED <<linkVars, appRows, monitors, streamed, overdue, sweeper,
                 aborts, confirmations>>

\* isPaymentExist: some link stores this hash, or stores this block.
PaymentExists(t) ==
  \E l \in Links : lastHash[l] = t \/ lastBlock[l] = TxBlock[t]

FindPayment(h) ==
  /\ handler[h].pc = "findPayment"
  /\ handler' = [handler EXCEPT ![h].pc = "findApp",
                                ![h].paid = PaymentExists(handler[h].tx)]
  /\ UNCHANGED <<linkVars, appRows, monitors, streamed, overdue, deliveries,
                 sweeper, aborts, confirmations>>

\* Mutant: the transfer is looked up among the payment links instead.
MAppRowExists(t) == \E l \in Links : lastHash[l] = t

\* isAppExist: a row with this hash; a row created without a hash never matches.
AppRowExists(t) == t \in Hashed /\ appRows[t] > 0

FindApp(h) ==
  /\ handler[h].pc = "findApp"
  /\ handler' = [handler EXCEPT ![h].pc = "checkWalletTx",
                                ![h].inApp = AppRowExists(handler[h].tx)]
  /\ UNCHANGED <<linkVars, appRows, monitors, streamed, overdue, deliveries,
                 sweeper, aborts, confirmations>>

\* Mutant: the link is found whatever its status.
MPendingAt(t) == {l \in Links : AddressOf[l] = TxTo[t]}

\* The PENDING links that findOne may return for the receiver of t.
PendingAt(t) == {l \in Links : AddressOf[l] = TxTo[t] /\ status[l] = "PENDING"}

\* Mutant: each transfer is judged alone.
MAccumulated(l, t) == TxAmount[t]

\* accumulatedAmount: what the link has on record plus this transfer.
Accumulated(l, t) == received[l] + TxAmount[t]

\* Mutant: the type has another name.
MLinkKindName(l, t) ==
  IF Accumulated(l, t) >= Required[l] THEN "PAYMENT_LINK" ELSE "PARTIAL_PAYMENT"

\* The transactionType that checkWalletTx returns for link l.
LinkKind(l, t) ==
  IF Accumulated(l, t) >= Required[l] THEN "PAYMENT_LINK"
                                      ELSE "PARTIAL_PAYMENT_LINK"

CheckWalletTx(h) ==
  LET t == handler[h].tx
      result(k, l, n) == [handler EXCEPT ![h].pc = "credit", ![h].kind = k,
                                         ![h].link = l, ![h].total = n]
  IN
  /\ handler[h].pc = "checkWalletTx"
  /\ \/ \E l \in PendingAt(t) :
          /\ handler' = result(LinkKind(l, t), l, Accumulated(l, t))
     \/ /\ PendingAt(t) = {} /\ TxTo[t] = AppAddress
        /\ handler' = result("APP", Nil, 0)
     \/ /\ PendingAt(t) = {} /\ TxTo[t] # AppAddress
        /\ handler' = result("NONE", Nil, 0)
  /\ UNCHANGED <<linkVars, appRows, monitors, streamed, overdue, deliveries,
                 sweeper, aborts, confirmations>>

\* Mutant: only the last transfer is stored.
MStoreDepositLast(h) ==
  LET l == handler[h].link IN
  /\ received' = [received EXCEPT ![l] = TxAmount[handler[h].tx]]
  /\ lastBlock' = [lastBlock EXCEPT ![l] = TxBlock[handler[h].tx]]
  /\ lastHash' = [lastHash EXCEPT ![l] =
                    IF handler[h].tx \in Hashed THEN handler[h].tx ELSE @]

\* The updateOne by _id that every credit performs: no condition on the status.
StoreDeposit(h) ==
  LET l == handler[h].link
      t == handler[h].tx
  IN
  /\ received' = [received EXCEPT ![l] = handler[h].total]
  /\ lastBlock' = [lastBlock EXCEPT ![l] = TxBlock[t]]
  /\ lastHash' = [lastHash EXCEPT ![l] = IF t \in Hashed THEN t ELSE @]

\* The link has its amount: PARTIALLY_SUCCESS, then PAYMENT_CONFIRMED.
CreditFull(h) ==
  LET l == handler[h].link IN
  /\ handler[h].pc = "credit"
  /\ handler[h].kind = "PAYMENT_LINK" /\ ~handler[h].paid
  /\ StoreDeposit(h)
  /\ status' = [status EXCEPT ![l] = "PARTIALLY_SUCCESS"]
  /\ handler' = [handler EXCEPT ![h].pc = "notify"]
  /\ UNCHANGED <<appRows, monitors, streamed, overdue, deliveries, sweeper,
                 aborts, confirmations>>

\* A part of the amount: the same fields, the status left alone.
CreditPartial(h) ==
  /\ handler[h].pc = "credit"
  /\ handler[h].kind = "PARTIAL_PAYMENT_LINK" /\ ~handler[h].paid
  /\ StoreDeposit(h)
  /\ handler' = [handler EXCEPT ![h] = IdleHandler]
  /\ UNCHANGED <<status, appRows, monitors, streamed, overdue,
                 deliveries, sweeper, aborts, confirmations>>

\* A transfer to the app's own wallet becomes a merchant_app_tx row.
CreditApp(h) ==
  LET t == handler[h].tx IN
  /\ handler[h].pc = "credit"
  /\ handler[h].kind = "APP" /\ ~handler[h].inApp
  /\ appRows' = [appRows EXCEPT ![t] = @ + 1]
  /\ handler' = [handler EXCEPT ![h] = IdleHandler]
  /\ UNCHANGED <<linkVars, monitors, streamed, overdue, deliveries, sweeper,
                 aborts, confirmations>>

\* "Not a valid transaction type": nothing to credit, or credited already.
Ignore(h) ==
  /\ handler[h].pc = "credit"
  /\ \/ handler[h].kind = "NONE"
     \/ handler[h].kind = "APP" /\ handler[h].inApp
     \/ handler[h].kind \in {"PAYMENT_LINK", "PARTIAL_PAYMENT_LINK"} /\ handler[h].paid
  /\ handler' = [handler EXCEPT ![h] = IdleHandler]
  /\ UNCHANGED <<linkVars, appRows, monitors, streamed, overdue, deliveries,
                 sweeper, aborts, confirmations>>

NotifyConfirmed(h) ==
  /\ handler[h].pc = "notify"
  /\ confirmations' = [confirmations EXCEPT ![handler[h].link] = @ + 1]
  /\ handler' = [handler EXCEPT ![h] = IdleHandler]
  /\ UNCHANGED <<linkVars, appRows, monitors, streamed, overdue, deliveries,
                 sweeper, aborts>>

\* A database error in one transfer is logged and swallowed; a crash of the
\* process ends every activation.
HandlerAborts(h) ==
  /\ handler[h].pc # "idle"
  /\ aborts < MaxAborts
  /\ aborts' = aborts + 1
  /\ handler' = [handler EXCEPT ![h] = IdleHandler]
  /\ UNCHANGED <<linkVars, appRows, monitors, streamed, overdue, deliveries,
                 sweeper, confirmations>>

-----------------------------------------------------------------------------
(* deletePaymentLinksWhichIsNotExistAnymore, every 30 seconds.             *)

\* One hour after its creation a link is overdue.
Elapse(l) ==
  /\ l \notin overdue
  /\ overdue' = overdue \cup {l}
  /\ UNCHANGED <<linkVars, appRows, monitors, streamed, deliveries, handler,
                 sweeper, aborts, confirmations>>

\* The links whose address is among the addresses of the batch.
SharesAddress(batch) ==
  {l \in Links : \E b \in batch : AddressOf[l] = AddressOf[b]}

SweepFind(s) ==
  /\ sweeper[s].pc = "idle"
  /\ monitors \cap overdue # {}
  /\ sweeper' = [sweeper EXCEPT ![s].pc = "deleteMonitors",
                                ![s].batch = monitors \cap overdue]
  /\ UNCHANGED <<linkVars, appRows, monitors, streamed, overdue, deliveries,
                 handler, aborts, confirmations>>

SweepDeleteMonitors(s) ==
  /\ sweeper[s].pc = "deleteMonitors"
  /\ monitors' = monitors \ sweeper[s].batch
  /\ sweeper' = [sweeper EXCEPT ![s].pc = "findPending"]
  /\ UNCHANGED <<linkVars, appRows, streamed, overdue, deliveries, handler,
                 aborts, confirmations>>

\* The links to be told PAYMENT_EXPIRED are read before the update.
ReadByCron(s) == {l \in SharesAddress(sweeper[s].batch) : status[l] = "PENDING"}

SweepFindPending(s) ==
  /\ sweeper[s].pc = "findPending"
  /\ sweeper' = [sweeper EXCEPT ![s].pc = "expire",
       ![s].pending = ReadByCron(s)]
  /\ UNCHANGED <<linkVars, appRows, monitors, streamed, overdue, deliveries,
                 handler, aborts, confirmations>>

\* Mutants: the update trusts the earlier read; links with a deposit are spared.
MExpirableStale(s) == sweeper[s].pending
MExpirableUnpaid(s) ==
  {l \in SharesAddress(sweeper[s].batch) : status[l] = "PENDING" /\ received[l] = 0}

\* The links that the updateMany changes: the status is part of its filter.
Expirable(s) == {l \in SharesAddress(sweeper[s].batch) : status[l] = "PENDING"}

SweepExpire(s) ==
  /\ sweeper[s].pc = "expire"
  /\ status' = [l \in Links |-> IF l \in Expirable(s) THEN "EXPIRED" ELSE status[l]]
  /\ sweeper' = [sweeper EXCEPT ![s].pc = "notify"]
  /\ UNCHANGED <<received, lastBlock, lastHash, appRows, monitors, streamed,
                 overdue, deliveries, handler, aborts, confirmations>>

\* PAYMENT_EXPIRED, one link after the other.
SweepNotify(s) ==
  /\ sweeper[s].pc = "notify"
  /\ \E l \in sweeper[s].pending : sweeper' = [sweeper EXCEPT ![s].pending = @ \ {l}]
  /\ UNCHANGED <<linkVars, appRows, monitors, streamed, overdue, deliveries,
                 handler, aborts, confirmations>>

SweepUnstream(s) ==
  /\ sweeper[s].pc = "notify" /\ sweeper[s].pending = {}
  /\ streamed' = streamed \ {AddressOf[l] : l \in sweeper[s].batch}
  /\ sweeper' = [sweeper EXCEPT ![s] = IdleSweeper]
  /\ UNCHANGED <<linkVars, appRows, monitors, overdue, deliveries, handler,
                 aborts, confirmations>>

SweeperAborts(s) ==
  /\ sweeper[s].pc # "idle"
  /\ aborts < MaxAborts
  /\ aborts' = aborts + 1
  /\ sweeper' = [sweeper EXCEPT ![s] = IdleSweeper]
  /\ UNCHANGED <<linkVars, appRows, monitors, streamed, overdue, deliveries,
                 handler, confirmations>>

-----------------------------------------------------------------------------
HandlerStep(h) ==
  \/ FindPayment(h) \/ FindApp(h) \/ CheckWalletTx(h)
  \/ CreditFull(h) \/ CreditPartial(h) \/ CreditApp(h) \/ Ignore(h)
  \/ NotifyConfirmed(h)

SweeperStep(s) ==
  \/ SweepFind(s) \/ SweepDeleteMonitors(s) \/ SweepFindPending(s)
  \/ SweepExpire(s) \/ SweepNotify(s) \/ SweepUnstream(s)

Next ==
  \/ \E h \in Handlers, t \in Txs : Deliver(h, t)
  \/ \E h \in Handlers : HandlerStep(h)
  \/ \E h \in Handlers : HandlerAborts(h)
  \/ \E l \in Links : Elapse(l)
  \/ \E s \in Sweepers : SweeperStep(s)
  \/ \E s \in Sweepers : SweeperAborts(s)

Spec == Init /\ [][Next]_vars

\* Node resumes every activation, the cron keeps firing, and Moralis delivers
\* each transfer to a registered address at least once.  Time may stand still.
Fairness ==
  /\ \A h \in Handlers : WF_vars(HandlerStep(h))
  /\ \A s \in Sweepers : WF_vars(SweeperStep(s))
  /\ \A t \in Txs : SF_vars(\E h \in Handlers : deliveries[t] = 0 /\ Deliver(h, t))

FairSpec == Spec /\ Fairness

-----------------------------------------------------------------------------
(* Properties.                                                             *)

Payments(l) == {t \in Txs : TxTo[t] = AddressOf[l]}

\* What the customer of link l has transferred, each transfer counted once.
Deposited(l) == MapThenSumSet(LAMBDA t : TxAmount[t], Payments(l))

\* What was delivered of it.
Delivered(l) ==
  MapThenSumSet(LAMBDA t : TxAmount[t], {t \in Payments(l) : deliveries[t] > 0})

\* While nothing has been delivered twice or aborted, a link that waits for money,
\* with no transfer in progress, has on record exactly what was delivered for it.
NothingLost ==
  /\ aborts = 0
  /\ \A t \in Txs : deliveries[t] <= 1
  /\ \A h \in Handlers : handler[h].pc = "idle"
  => \A l \in Links : status[l] = "PENDING" => received[l] = Delivered(l)

\* A link that is handed to the withdraw cron has its required amount on record.
ConfirmedHasRequired ==
  \A l \in Links : status[l] = "PARTIALLY_SUCCESS" => received[l] >= Required[l]

\* Redeliveries and races send PAYMENT_CONFIRMED at most once per concurrent
\* activation: checkWalletTx no longer finds a link that has been confirmed.
ConfirmationsBounded ==
  \A l \in Links : confirmations[l] <= Cardinality(Handlers)

\* A transfer to the app that carries its hash is stored at most once per
\* concurrent activation: isAppExist finds the row from then on.
AppRowsBounded == \A t \in Hashed : appRows[t] <= Cardinality(Handlers)

\* The cron never takes a confirmed payment back, although it selects the
\* links to expire several awaits before it updates them.
ConfirmedStays ==
  [][\A l \in Links : status[l] = "PARTIALLY_SUCCESS" => status'[l] = "PARTIALLY_SUCCESS"]_vars

\* While activations of stream do not overlap, the five steps in which a transfer
\* is credited amount to one atomic step of the ledger, with redeliveries, aborts
\* and the expiry cron in between.
Ledger == INSTANCE LinkLedger WITH status <- status, received <- received
CreditsAreAtomic == Ledger!Spec

\* Without an abort, a customer who transfers the required amount in time is
\* confirmed in time.
PaidLinkIsConfirmed ==
  \A l \in Links : Deposited(l) >= Required[l] =>
    <>(status[l] = "PARTIALLY_SUCCESS" \/ l \in overdue \/ aborts > 0)

\* Without an abort, the cron expires every link that is still PENDING after its
\* expireTime.
DeadlineIsEnforced ==
  \A l \in Links : l \in overdue ~> (status[l] # "PENDING" \/ aborts > 0)

\* What has to happen within the hour of a link happens: the confirmation or the
\* expiry.
LinksAreTimely == PaidLinkIsConfirmed /\ DeadlineIsEnforced
=============================================================================
