------------------------------ MODULE AppWallet ------------------------------
(***************************************************************************)
(* The wallet of a merchant's app: money that customers send to it         *)
(* directly, withdrawals by the merchant, and the merchant_app_tx rows      *)
(* that record both.                                                       *)
(*                                                                         *)
(* merchantWithdraw pays the merchant, then the platform fee, then renders *)
(* an invoice and only then stores a row.  Crons list the transactions of  *)
(* the wallet and store a row for every hash that has none.  Requests and  *)
(* ticks interleave at their awaits; two ticks of a cron may overlap.      *)
(*                                                                         *)
(* A behaviour follows one wallet of one app, chosen at the start.  Other  *)
(* apps matter in two ways.  A tick looks at the newest WalletPage apps,   *)
(* and a hash is looked for among the rows of all apps: what moves between *)
(* the wallets of two apps gets the row of one.  EVM deposits come by the  *)
(* stream and are the subject of EvmDeposits.                              *)
(***************************************************************************)
EXTENDS Naturals, FiniteSets, SequencesExt

CONSTANTS
  Deposits,     \* transfers to the wallet
  Requests,     \* calls of merchantWithdraw
  Wallets,      \* wallets of apps
  ChainOf,      \* ChainOf[x]: the family of chains of wallet x
  WalletOf,     \* the wallet of a deposit or a request
  Valid,        \* requests that pass the checks on app, address and amount
  Trc20,        \* deposits and requests in a TRC-20 token; the others are TRX
  Unreadable,   \* deposits listed without owner or receiver
  Value,        \* Value[d]: the amount of a deposit
  Net, Fee,     \* what request w pays to the merchant and to the admin
  Opening,      \* balance of each token at the start
  Window,       \* transactions that one listing returns
  Between,      \* transactions whose other end is the wallet of another app
  WalletPage,   \* apps that a tick looks at: 50
  MaxNewer,     \* bound: apps created after the one of the wallet
  Ticks,        \* overlapping ticks of the monitor
  Posted,       \* transactions that a client may report itself
  MaxFaults     \* bound: errors and crashes

Chains == {"EVM", "TRON", "BTC"}
Token  == {"TRC-20", "native"}
Legs   == Requests \X {"merchant", "fee"}
TxIds  == Deposits \cup Legs

ASSUME WalletAssumption ==
  /\ Deposits \cap Legs = {}
  /\ Opening \in Nat /\ Window \in Nat /\ MaxFaults \in Nat
  /\ ChainOf \in [Wallets -> Chains]
  /\ WalletOf \in [Deposits \cup Requests -> Wallets]
  /\ \A d \in Deposits : ChainOf[WalletOf[d]] # "EVM"
  /\ Value \in [Deposits -> Nat \ {0}]
  /\ Net \in [Requests -> Nat \ {0}]
  /\ Fee \in [Requests -> Nat]
  /\ Valid \subseteq Requests
  /\ Trc20 \subseteq {x \in Deposits \cup Requests : ChainOf[WalletOf[x]] = "TRON"}
  /\ Unreadable \subseteq Deposits \ Trc20
  /\ Posted \subseteq TxIds /\ Between \subseteq TxIds
  /\ WalletPage \in Nat /\ MaxNewer \in Nat
  /\ IsFiniteSet(Ticks)

VARIABLES
  wallet,     \* the wallet that the behaviour follows
  newer,      \* how many apps are newer than the one of the wallet
  elsewhere,  \* transactions with a row of another app
  balance,    \* balance[k]: what the wallet holds of token k
  ledger,     \* the executed transactions of the wallet, oldest first
  nonce,      \* EVM: how many transactions the wallet has sent
  incoming,   \* incoming[t]: rows for t that tell of money that came in
  outgoing,   \* outgoing[w]: WITHDRAW rows, with the hash of the merchant leg
  posted,     \* transactions reported by a client so far
  request,    \* what each call of merchantWithdraw knows
  tick,       \* what each tick of the monitor knows
  faults,     \* errors and crashes so far
  overlapped, \* history: requests that ran beside another one
  short       \* history: requests for more than the wallet held

others == <<newer, elsewhere>>
walletVars == <<balance, ledger, nonce>>
records == <<incoming, outgoing>>
vars == <<wallet, others, walletVars, records, posted, request, tick, faults,
          overlapped, short>>

IdleRequest == [pc |-> "idle", leg |-> "merchant", nonce |-> 0, ok |-> FALSE,
                feeTx |-> FALSE]
IdleTick == [pc |-> "idle", queue |-> <<>>]

RequestState ==
  [pc : {"idle", "check", "nonce", "send", "verify", "save", "done", "failed"},
   leg : {"merchant", "fee"}, nonce : Nat, ok : BOOLEAN, feeTx : BOOLEAN]
TickState ==
  [pc : {"idle", "list", "listTrc20", "find", "create", "distinct", "insert"},
   queue : Seq(TxIds)]

TypeOK ==
  /\ wallet \in Wallets
  /\ newer \in 0..MaxNewer /\ elsewhere \subseteq Between
  /\ balance \in [Token -> Nat]
  /\ ledger \in Seq(TxIds) /\ IsInjective(ledger)
  /\ nonce \in Nat
  /\ incoming \in [TxIds -> Nat] /\ outgoing \in [Requests -> Nat]
  /\ posted \subseteq Posted
  /\ request \in [Requests -> RequestState]
  /\ tick \in [Ticks -> TickState]
  /\ faults \in 0..MaxFaults
  /\ overlapped \subseteq Requests /\ short \subseteq Requests

Init ==
  /\ wallet \in Wallets
  /\ newer \in 0..MaxNewer /\ elsewhere = {}
  /\ balance = [k \in Token |-> Opening]
  /\ ledger = <<>> /\ nonce = 0
  /\ incoming = [t \in TxIds |-> 0] /\ outgoing = [w \in Requests |-> 0]
  /\ posted = {}
  /\ request = [w \in Requests |-> IdleRequest]
  /\ tick = [m \in Ticks |-> IdleTick]
  /\ faults = 0
  /\ overlapped = {} /\ short = {}

-----------------------------------------------------------------------------
(* The wallet.                                                             *)

chain == ChainOf[wallet]
Mined == ToSet(ledger)
Of(t) == IF t \in Deposits THEN t ELSE t[1]
InTrc20(t) == Of(t) \in Trc20

\* What a leg takes from the wallet: on Bitcoin one transaction pays both.
Amount(w, leg) ==
  IF leg = "fee" THEN Fee[w]
  ELSE IF chain = "BTC" THEN Net[w] + Fee[w] ELSE Net[w]

TokenOf(t) == IF InTrc20(t) THEN "TRC-20" ELSE "native"
Held(w) == balance[TokenOf(<<w, "merchant">>)]

\* A customer, or the payout of a payment link, sends money to the wallet.
Arrive(d) ==
  /\ WalletOf[d] = wallet /\ d \notin Mined
  /\ ledger' = Append(ledger, d)
  /\ balance' = [balance EXCEPT ![TokenOf(d)] = @ + Value[d]]
  /\ UNCHANGED <<wallet, others, nonce, records, posted, request, tick, faults,
                 overlapped, short>>

-----------------------------------------------------------------------------
(* merchantWithdraw(w).                                                    *)

Running(w) == request[w].pc \notin {"idle", "done", "failed"}
Goes(w, r) == request' = [request EXCEPT ![w] = r]
At(w, pc) == [request[w] EXCEPT !.pc = pc]

\* App, whitelist, token, minimum, fee and address are checked, then the key
\* is decrypted.  getFee splits the amount into Net[w] and Fee[w].
Submit(w) ==
  LET beside == {v \in Requests : Running(v)} IN
  /\ request[w].pc = "idle" /\ WalletOf[w] = wallet
  /\ Goes(w, At(w, IF w \in Valid THEN "check" ELSE "failed"))
  /\ overlapped' = IF w \in Valid /\ beside # {}
                     THEN overlapped \cup beside \cup {w} ELSE overlapped
  /\ UNCHANGED <<wallet, others, walletVars, records, posted, tick, faults, short>>


\* Where a paid leg leads.
AfterPaid(w) ==
  IF request[w].leg = "merchant" /\ Fee[w] > 0 /\ chain # "BTC"
    THEN [At(w, "check") EXCEPT !.leg = "fee"]
    ELSE [At(w, "save") EXCEPT !.feeTx = (Fee[w] > 0)]

\* Mutant: an unpaid merchant leg goes on.
MAfterUnpaidGoesOn(w, thrown) ==
  At(w, IF thrown /\ chain = "TRON" THEN "failed" ELSE "save")

\* Where an unpaid leg leads: nobody looks at the status of the fee leg, but
\* merchantTronFundWithdraw throws what it catches.
AfterUnpaid(w, thrown) ==
  IF request[w].leg = "merchant" \/ (thrown /\ chain = "TRON")
    THEN At(w, "failed") ELSE At(w, "save")

\* The balance, and the gas, which the admin's wallet tops up when it is low.
\* Nothing checks that the wallet holds the fee too before the merchant is paid.
CheckBalance(w) ==
  LET due == Amount(w, request[w].leg) IN
  /\ request[w].pc = "check"
  /\ \/ /\ Held(w) >= due
        /\ Goes(w, At(w, IF chain = "EVM" THEN "nonce" ELSE "send"))
     \/ /\ Held(w) < due
        /\ Goes(w, AfterUnpaid(w, FALSE))
  /\ short' = IF request[w].leg = "merchant" /\ Held(w) < Net[w] + Fee[w]
                THEN short \cup {w} ELSE short
  /\ UNCHANGED <<wallet, others, walletVars, records, posted, tick, faults, overlapped>>

\* getTransactionCount, before the transaction is signed and sent.
ReadNonce(w) ==
  /\ request[w].pc = "nonce"
  /\ Goes(w, [At(w, "send") EXCEPT !.nonce = nonce])
  /\ UNCHANGED <<wallet, others, walletVars, records, posted, tick, faults,
                 overlapped, short>>

\* The chain takes a transaction with the next nonce only.
Accepted(w) == chain = "EVM" => request[w].nonce = nonce

Executes(w) == Accepted(w) /\ Held(w) >= Amount(w, request[w].leg)

\* What a broadcast changes: an EVM transaction that reverts still counts.
Broadcast(w) ==
  /\ IF Executes(w)
       THEN /\ ledger' = Append(ledger, <<w, request[w].leg>>)
            /\ balance' = [balance EXCEPT ![TokenOf(<<w, "merchant">>)] =
                             @ - Amount(w, request[w].leg)]
       ELSE UNCHANGED <<ledger, balance>>
  /\ nonce' = IF chain = "EVM" /\ Accepted(w) THEN nonce + 1 ELSE nonce

\* A TRC-20 transfer is verified afterwards; the others answer at once.
Send(w) ==
  /\ request[w].pc = "send"
  /\ Broadcast(w)
  /\ Goes(w, IF InTrc20(<<w, "merchant">>) THEN [At(w, "verify") EXCEPT !.ok = Executes(w)]
             ELSE IF Executes(w) THEN AfterPaid(w) ELSE AfterUnpaid(w, TRUE))
  /\ UNCHANGED <<wallet, others, records, posted, tick, faults, overlapped, short>>

\* verifyTronTransaction: executed, or reverted.
Verify(w) ==
  /\ request[w].pc = "verify"
  /\ Goes(w, IF request[w].ok THEN AfterPaid(w) ELSE AfterUnpaid(w, FALSE))
  /\ UNCHANGED <<wallet, others, walletVars, records, posted, tick, faults,
                 overlapped, short>>

\* The row is stored after the invoice was rendered; its adminFee is Fee[w],
\* its adminFeeTxHash is there when request[w].feeTx is.
Save(w) ==
  /\ request[w].pc = "save"
  /\ outgoing' = [outgoing EXCEPT ![w] = @ + 1]
  /\ Goes(w, At(w, "done"))
  /\ UNCHANGED <<wallet, others, walletVars, incoming, posted, tick, faults,
                 overlapped, short>>

Fault == faults < MaxFaults /\ faults' = faults + 1

\* An RPC error before the transaction leaves.
LegErrs(w) ==
  /\ request[w].pc \in {"check", "nonce", "send"}
  /\ Fault
  /\ Goes(w, AfterUnpaid(w, TRUE))
  /\ UNCHANGED <<wallet, others, walletVars, records, posted, tick, overlapped, short>>

\* The transaction leaves and its answer is lost: an error, as if it had not.
AnswerLost(w) ==
  /\ request[w].pc = "send"
  /\ Fault
  /\ Broadcast(w)
  /\ Goes(w, AfterUnpaid(w, TRUE))
  /\ UNCHANGED <<wallet, others, records, posted, tick, overlapped, short>>

\* No receipt in time: the transfer counts as executed.
VerifyTimesOut(w) ==
  /\ request[w].pc = "verify"
  /\ Fault
  /\ Goes(w, AfterPaid(w))
  /\ UNCHANGED <<wallet, others, walletVars, records, posted, tick, overlapped, short>>

\* The error of the save is logged, and the merchant gets the receipts.
SaveFails(w) ==
  /\ request[w].pc = "save"
  /\ Fault
  /\ Goes(w, At(w, "done"))
  /\ UNCHANGED <<wallet, others, walletVars, records, posted, tick, overlapped, short>>

\* The process stops.
RequestCrashes(w) ==
  /\ Running(w)
  /\ Fault
  /\ Goes(w, At(w, "failed"))
  /\ UNCHANGED <<wallet, others, walletVars, records, posted, tick, overlapped, short>>

\* addTransaction: a row for a transaction that a client made itself.
AddTransaction(t) ==
  /\ t \in (Mined \cap Posted) \ posted
  /\ posted' = posted \cup {t}
  /\ incoming' = [incoming EXCEPT ![t] = @ + 1]
  /\ UNCHANGED <<wallet, others, walletVars, outgoing, request, tick, faults,
                 overlapped, short>>

-----------------------------------------------------------------------------
(* TRON_DIRECT_DEPOSIT_MONITOR and BITCOIN_DIRECT_DEPOSIT_MONITOR.         *)

TickGoes(m, r) == tick' = [tick EXCEPT ![m] = r]

\* TronGrid's list of incoming TRX, and its list of TRC-20 transfers in both
\* directions; Tatum's list of incoming transactions, which holds the
\* withdrawals as well: their change returns to the wallet.
Listed(t, trc20) ==
  \/ chain = "BTC" /\ ~trc20 /\ (t \in Deposits \/ t[2] = "merchant")
  \/ chain = "TRON" /\ InTrc20(t) = trc20 /\ (trc20 \/ t \in Deposits)

\* What stands in s at the positions P, in order.
Picked(s, P) ==
  LET upTo[i \in 0..Len(s)] ==
        IF i = 0 THEN <<>> ELSE IF i \in P THEN Append(upTo[i - 1], s[i]) ELSE upTo[i - 1]
  IN  upTo[Len(s)]

\* A listing: newest first, and no more than a page.
Page(trc20) ==
  LET all == Reverse(Picked(ledger, {i \in DOMAIN ledger : Listed(ledger[i], trc20)}))
  IN  SubSeq(all, 1, IF Len(all) < Window THEN Len(all) ELSE Window)

\* A row of any app: the hash alone is looked for.
HasRow(t) ==
  \/ incoming[t] > 0 \/ t \in elsewhere
  \/ t \in Legs /\ t[2] = "merchant" /\ outgoing[t[1]] > 0

\* The newest WalletPage apps are read; they are the ones the tick looks at.
TickStart(m) ==
  /\ tick[m].pc = "idle"
  /\ chain # "EVM" /\ newer < WalletPage
  /\ TickGoes(m, [tick[m] EXCEPT !.pc = "list"])
  /\ UNCHANGED <<wallet, others, walletVars, records, posted, request, faults,
                 overlapped, short>>

\* The first listing; Bitcoin's monitor has only one.
TickList(m) ==
  /\ tick[m].pc = "list"
  /\ TickGoes(m, [tick[m] EXCEPT !.pc = IF chain = "TRON" THEN "listTrc20" ELSE "distinct",
                                 !.queue = Page(FALSE)])
  /\ UNCHANGED <<wallet, others, walletVars, records, posted, request, faults,
                 overlapped, short>>

TickListTrc20(m) ==
  /\ tick[m].pc = "listTrc20"
  /\ TickGoes(m, [tick[m] EXCEPT !.pc = "find", !.queue = @ \o Page(TRUE)])
  /\ UNCHANGED <<wallet, others, walletVars, records, posted, request, faults,
                 overlapped, short>>

\* Mutants: the row is not looked for; a known transaction ends the pass.
MTickNextBlind(m) ==
  LET t == Head(tick[m].queue) IN
  IF t \in Unreadable THEN IdleTick
  ELSE [tick[m] EXCEPT !.pc = "create"]
MTickNextStops(m) ==
  LET t == Head(tick[m].queue) IN
  IF t \in Unreadable \/ HasRow(t) THEN IdleTick
  ELSE [tick[m] EXCEPT !.pc = "create"]

\* A transaction without owner or receiver throws, and with it ends the pass
\* over this wallet.  One with a row is skipped.
TickNext(m) ==
  LET t == Head(tick[m].queue) IN
  IF t \in Unreadable THEN IdleTick
  ELSE IF HasRow(t) THEN [tick[m] EXCEPT !.queue = Tail(@)]
  ELSE [tick[m] EXCEPT !.pc = "create"]

\* findOne by hash.  The settled links that are read next only choose between
\* the types DEPOSIT and PAYMENT_LINKS, both of them money that came in.
TickFind(m) ==
  /\ tick[m].pc = "find" /\ tick[m].queue # <<>>
  /\ TickGoes(m, TickNext(m))
  /\ UNCHANGED <<wallet, others, walletVars, records, posted, request, faults,
                 overlapped, short>>

TickCreate(m) ==
  /\ tick[m].pc = "create"
  /\ incoming' = [incoming EXCEPT ![Head(tick[m].queue)] = @ + 1]
  /\ TickGoes(m, [IdleTick EXCEPT !.pc = "find", !.queue = Tail(tick[m].queue)])
  /\ UNCHANGED <<wallet, others, walletVars, outgoing, posted, request, faults,
                 overlapped, short>>

\* distinct("hash"): what has no row remains.
TickDistinct(m) ==
  LET q == tick[m].queue IN
  /\ tick[m].pc = "distinct"
  /\ TickGoes(m, [tick[m] EXCEPT !.pc = "insert",
                                 !.queue = Picked(q, {i \in DOMAIN q : ~HasRow(q[i])})])
  /\ UNCHANGED <<wallet, others, walletVars, records, posted, request, faults,
                 overlapped, short>>

\* insertMany, and the type of the schema's default.
TickInsert(m) ==
  /\ tick[m].pc = "insert"
  /\ incoming' = [t \in TxIds |-> incoming[t] +
                               IF t \in ToSet(tick[m].queue) THEN 1 ELSE 0]
  /\ TickGoes(m, IdleTick)
  /\ UNCHANGED <<wallet, others, walletVars, outgoing, posted, request, faults,
                 overlapped, short>>

TickEnds(m) ==
  /\ tick[m].pc = "find" /\ tick[m].queue = <<>>
  /\ TickGoes(m, IdleTick)
  /\ UNCHANGED <<wallet, others, walletVars, records, posted, request, faults,
                 overlapped, short>>

\* An error of a listing or of the database skips the wallet; or a crash.
TickErrs(m) ==
  /\ tick[m].pc # "idle"
  /\ Fault
  /\ TickGoes(m, IdleTick)
  /\ UNCHANGED <<wallet, others, walletVars, records, posted, request, overlapped, short>>

-----------------------------------------------------------------------------
(* Other apps.                                                             *)

AppCreated ==
  /\ newer < MaxNewer /\ newer' = newer + 1
  /\ UNCHANGED <<wallet, elsewhere, walletVars, records, posted, request, tick, faults,
                 overlapped, short>>

AppDeleted ==
  /\ newer > 0 /\ newer' = newer - 1
  /\ UNCHANGED <<wallet, elsewhere, walletVars, records, posted, request, tick, faults,
                 overlapped, short>>

\* merchantWithdraw of another app, or the monitor for its wallet, stores a row
\* for t.
RowElsewhere(t) ==
  /\ t \in (Mined \cap Between) \ elsewhere
  /\ elsewhere' = elsewhere \cup {t}
  /\ UNCHANGED <<wallet, newer, walletVars, records, posted, request, tick, faults,
                 overlapped, short>>

-----------------------------------------------------------------------------
RequestStep(w) ==
  CheckBalance(w) \/ ReadNonce(w) \/ Send(w) \/ Verify(w) \/ Save(w)

RequestFault(w) ==
  LegErrs(w) \/ AnswerLost(w) \/ VerifyTimesOut(w) \/ SaveFails(w) \/ RequestCrashes(w)

TickStep(m) ==
  \/ TickStart(m) \/ TickList(m) \/ TickListTrc20(m) \/ TickFind(m) \/ TickCreate(m)
  \/ TickDistinct(m) \/ TickInsert(m) \/ TickEnds(m)

Next ==
  \/ \E d \in Deposits : Arrive(d)
  \/ \E w \in Requests : Submit(w) \/ RequestStep(w) \/ RequestFault(w)
  \/ \E t \in Posted : AddTransaction(t)
  \/ \E m \in Ticks : TickStep(m) \/ TickErrs(m)
  \/ AppCreated \/ AppDeleted
  \/ \E t \in Between : RowElsewhere(t)

Spec == Init /\ [][Next]_vars

\* The crons keep firing and some tick goes on; a request may hang for ever.
Fairness == WF_vars(\E m \in Ticks : TickStep(m))

FairSpec == Spec /\ Fairness

-----------------------------------------------------------------------------
(* Properties.                                                             *)

\* A WITHDRAW row, which tells the merchant that the money has left and the
\* admin that the fee came in, is true of both legs.  Only a verification that
\* timed out, a fault between the legs, a request beside it or a wallet that
\* never held the fee make it lie.
WithdrawRowIsTrue ==
  \A w \in Requests : outgoing[w] > 0 =>
    /\ faults > 0 \/ <<w, "merchant">> \in Mined
    /\ \/ <<w, "fee">> \in Mined \/ Fee[w] = 0 \/ chain = "BTC"
       \/ faults > 0 \/ w \in overlapped \cup short

\* A request that answers with an error has not paid: the merchant may repeat
\* it.  The exceptions are faults, and on TRON a request beside it that spends
\* the fee between the check and the transfer.
FailedIsUnpaid ==
  \A w \in Requests : request[w].pc = "failed" /\ faults = 0 =>
    <<w, "merchant">> \notin Mined \/ (chain = "TRON" /\ w \in overlapped)

\* A hash is stored at most once per overlapping tick, once more by the client
\* and once by the withdrawal itself.
RowsBounded ==
  /\ \A t \in TxIds : incoming[t] <= Cardinality(Ticks) + (IF t \in posted THEN 1 ELSE 0)
  /\ \A w \in Requests : outgoing[w] <= 1

\* What keeps t from being seen: newer transactions fill the page, or one that
\* cannot be read comes first.
Hidden(t) ==
  LET after == {u \in Mined : /\ Listed(u, InTrc20(u)) /\ InTrc20(u) = InTrc20(t)
                              /\ \E i, j \in DOMAIN ledger : i < j /\ ledger[i] = t /\ ledger[j] = u}
  IN  \/ Cardinality(after) >= Window
      \/ t \in Unreadable
      \/ Unreadable \cap Mined # {}

\* The monitors catch up again and again, unless WalletPage apps are newer than
\* the one of the wallet: every transaction they can list has a row, also a
\* withdrawal whose own save failed or whose request died.  Only of a transaction
\* between two apps is it left open whose row that is.
EveryTransferIsRecorded ==
  []<>(\/ newer >= WalletPage
       \/ \A t \in Mined : Listed(t, InTrc20(t)) =>
            \/ incoming[t] > 0 \/ t \in elsewhere
            \/ t \in Legs /\ outgoing[t[1]] > 0
            \/ Hidden(t))

\* What a row or an answer tells the merchant of a withdrawal is true.
RowsAreTrue == TypeOK /\ WithdrawRowIsTrue /\ FailedIsUnpaid
=============================================================================
