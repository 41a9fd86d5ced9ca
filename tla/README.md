# crypto-wallet-api in TLA+

A verification development for the payment core of this repository: TLA+
modules that model it, TLC configurations that check them, and TLAPS proofs of
the theorems that hold for every size of the system. Paths below are relative
to the repository's `src/` unless they say otherwise; `S` stands for
`src/moralis-tx/moralis-tx.service.ts`, which holds most of the core.

## 1. The system

A merchant registers apps; an app creates payment links. A link has a deposit
address of its own, an amount, a token and an hour to live. The service watches
the address, confirms the link when enough has arrived, pays the merchant and
the platform out of the deposit address, and tells the merchant's server about
every step by webhook. The end users of an app may request withdrawals from the
app's wallet. Everything runs in one Node process over MongoDB: HTTP handlers
and cron ticks that interleave at every `await`. Nest's `@Cron` starts a tick
whether or not the previous one has finished, documents are read and later
written back by `_id`, and nothing uses transactions or conditional updates.

| Component | State | Operations | Modelled in |
|---|---|---|---|
| EVM deposit detection, expiry (`S` 60-436) | `payment_links` (status, recivedAmount, block, hash), `wallet_monitors`, the Moralis stream, `merchant_app_tx` | `stream`, `checkWalletTx`, `deletePaymentLinksWhichIsNotExistAnymore` (30 s) | `EvmDeposits`, `LinkLedger` |
| EVM payout (`S` 438-883, `helpers/evm.helper.ts`) | status, withdrawStatus, withdrawRetryCount, the balance of the deposit address | `withdrawPaymentFromLinksAndUpdateStatus` (10 s), admin requests of `payment-link.service.ts` | `EvmPayout` |
| TRON links (`S` 886-1461, `tatum-webhook/`, `helpers/tron.helper.ts`) | the same fields; balances | `handleTronWebhook`, `tronPaymentLink` (5 min), `withdrawTronPaymentFromLinks` (2 min) | `TronLinks` |
| Webhook delivery (`webhook/webhook.service.ts`) | `webhook_logs` | `sendWebhook`, `executeWebhook`, `retryFailedWebhooks` (1 min) | `WebhookDelivery` |
| User withdrawals (`user-withdrawal/`) | `user_withdrawals`, the app's wallet | `createWithdrawalRequest`, `approveWithdrawal`, `declineWithdrawal`, `processWithdrawal` | `UserWithdrawal` |
| Bitcoin links (`S` 1701-2078) | the fields of a link; balances | `processBitcoinPaymentLinks`, `withdrawBTCPaymentFromLinksAndUpdateStatus` (1 min each) | `BtcLinks` |
| Link creation (`payment-link/payment-link.service.ts` 110-452) | the app's counters of derived addresses, the link, the monitor row | `addPaymentLink` | `LinkCreation` |
| Direct deposits and merchant withdrawals (`S` 2079-2412, `merchant-app-tx/`) | the wallet of an app, `merchant_app_tx` | two cron ticks (1 min), `merchantWithdraw`, `addTransaction` | `AppWallet` |
| Reclaim of gas (`S` 2413-2741) | fundsReclaimed, reclaimRetryCount, what is left on old deposit addresses | `reclaimLeftoverFunds` (15 min) | `Reclaim` |
| Apps (`apps/apps.service.ts`, `S` 394-436) | `apps`, `wallet_monitors`, the Moralis stream, the coins of the platform | `addApp`, `updateApp`, `deleteApp`, `deleteAppsWhichIsNotExistAnymore` (30 s) | `AppRegistry` |
| Whitelists (`apps/apps.service.ts` 893-1009) | the list and its version in `apps`, the password in `merchants` | `requestWhitelistOtp`, `addWhitelistWallet`, `removeWhitelistWallet` | `Whitelist` |
| Fiat balances (`apps/apps.service.ts`, `merchant-app-tx/`) | totalFiatBalance of `apps` and `merchants`, `fiat_withdraws` | `appById`, `getApps`, `merchantWithdrawFiat`, `adminFiatTransfer` | `FiatBalance` |
| Reports (`payment-link/payment-link.service.ts` 766-2775) | none of their own | `revenue`, `count`, `cryptoMargins`, the tables | `Reports` |
| Merchants, admins, authentication, reference data, pricing, notifications, content | independent documents | one-step creates, updates, reads | not modelled |

How they interact. Deposit detection hands a link over to the payout by the
status `PARTIALLY_SUCCESS`; expiry takes `PENDING` links away from detection.
The payout hands a settled link over to the reclaim and its worth to the fiat
balance and the reports. Creation hands
a link to detection by its row in `wallet_monitors` and its address at Moralis, and
expiry works from these rows. The monitors and the withdrawals of a merchant
share the wallet of an app and its rows. Detection, expiry, payout and
withdrawals all call `sendWebhook`, without waiting for the delivery to end.

What is hard. Redelivered and overlapping Moralis and Tatum calls; a status that
was read several awaits before it is written; the cron that expires a link while
a deposit is credited; ticks of one cron that overlap, each with its own stale
aggregation; a payout of two transfers of which one fails or whose receipt is
lost; retries of what was already done; a webhook retried after a newer one; two
approvals of one withdrawal; two links created from one counter; a row that is
looked up and then created; a balance that is a copy anybody recomputes; a list that
is written back whole; crashes between any two of these.

What makes the components correct. *Creation:* every customer has an address of
his own, which is watched for the hour of the link. *Deposits:* what is credited is what was
transferred, once; a confirmed link has its amount and stays confirmed; a paid
link is confirmed in time; an unpaid one expires, and not early. *Payout:* the
merchant gets the net amount and the platform its fee, once; a settled link has
been paid; every confirmed link is settled; a link that cannot be paid holds up
no other. *Webhooks:* delivered at least once while attempts last, not after a
newer event of the payment, a bounded number of times. *Withdrawals:* paid once,
never after a decline, within the limits, and the user is told what happened.
*Wallets of apps:* a row tells the truth about both transfers, an error means that
nothing was paid, and every transfer has a row. *Housekeeping:* failing costs a
bounded amount of gas, nothing of value stays behind, and nothing of an app that is
there is removed. *Back office:* what is transferred in fiat is covered, the
whitelist is what was acknowledged, and the reports agree with one another.

`PROJECT.json` lists the hazards line by line with the properties that watch
them.

## 2. Modules

Each component is a module with one action per stretch of code between two
awaits. An activation of a handler, a tick or a request is a record in a
function (`handler`, `tick`, `cron`, `clerk`, `job`, `creation`, ...): its `pc`
says at which await it stands, the other fields are the local variables that are
still used. An element of `Handlers`, `Ticks` and so on is an activation that can
run at the same time as the others; it becomes idle and may be used again, so
that the size of the set is how many overlap, not how many there ever are.

Components that share no state can be checked in one run, in which a behaviour
follows one of them: `MCHousekeeping` (`Reclaim`, `AppRegistry`), `MCBackOffice`
(`FiatBalance`, `Reports`, `Whitelist`), and the two halves of `MCTronLinks`. Their
specifications have variables and actions of their own names, so that the modules
can be extended together, and every one of them is a specification by itself.

Every `MC` module defines the function-valued constants of its instances, and a cfg
chooses among them. Counters that the code does not bound (deliveries, faults, admin
requests) have a bound that is a constant with `Max` in its name. `FaultKinds` selects
the faults of a run and `MaxFaults` bounds their number. The variables marked *history*
record what has happened (`happened`, `overlapped`, `handedOut`, `posts`, ...) and are
read by no guard: a property that survives some faults and not others names, as its
condition, those that it does not survive.

### LinkCreation

`ReadApp`, `Reject`, `SaveLink`, `SaveApp`, `AddAddress`, `SaveRow`, `Announce`
are the awaits of `addPaymentLink`, with `CreationFails` for an error or a crash
between them. The request remembers the `index` it has read: `app.save()` writes
that number plus one, and no increment. `SweepRows`, `SweepExpire` and
`SweepAddresses` are the expiry cron as far as it touches what a creation has
stored; it finds links by the addresses of its rows (`Found`). An address is
named by its index.

### EvmDeposits and LinkLedger

`stream` (`S` 60-320) handles one transfer in five steps: `Deliver`, `FindPayment`
(isPaymentExist), `FindApp` (isAppExist), `CheckWalletTx`, and `CreditFull`,
`CreditPartial`, `CreditApp` or `Ignore`; `NotifyConfirmed` is the webhook.
`HandlerAborts` is a database error or a crash at any await. The cron is `SweepFind`,
`SweepDeleteMonitors`, `SweepFindPending`, `SweepExpire`, `SweepNotify`,
`SweepUnstream`, with `SweeperAborts`. `Elapse` is the hour of a link running out.
`confirmations` is history. Abstracted: one chain and one token; a payload is delivered
as single transfers; `Hashed` are the transfers whose merged record carries the key
`hash` (an ERC-20 transfer without a transaction entry does not, and its `undefined` is
stripped from the update).

`LinkLedger` is the abstract specification of what detection and expiry do to a
link: a credit is one step that adds the transfer and confirms the link when the
amount is complete. With one activation of `stream` at a time, `EvmDeposits`
implements it (`CreditsAreAtomic == Ledger!Spec`, with `Ledger == INSTANCE
LinkLedger WITH status <- status, received <- received`): both variables are kept,
everything else of the detailed module stutters.

### PaymentLifecycle

It extends `EvmDeposits` by the ticks of the withdraw cron that work on the same
links: `PayerFind` is the aggregation with the amounts on record, `PayerPay` the
transfer out of the deposit wallet, which holds what was transferred to the address
and not yet paid out (`Funds`), `PayerRecord` the write of SUCCESS by `_id`. The legs
of a payout, its faults and overlapping ticks are those of `EvmPayout`; here it
matters what the two crons and `stream` do to each other.

### EvmPayout

A tick (`S` 438-883) selects with one aggregation (`TickStart`, which copies
withdrawStatus to `seen`) and takes up one link after the other (`TickNext`).
Native links: `ReadStatus`, `Estimate`. ERC-20 links: `FundGas`, `RecordGas`,
`Split`. Both: `AdminLeg` (or `SkipAdminLeg`), `MerchantLeg`, `RecordAdmin`,
`RecordMerchant`, `Announce`. A transfer and the wait for its receipt are one
step with four outcomes: mined; *lost* (mined, but an error is reported);
*failed*; *reverted*. Gas is not a quantity: that it is missing is one way to
fail. `withdrawRetryCount` is counted and never compared, because the aggregation
does not project it (`constants/index.ts` 5-17). The admin requests are
`ClerkStart`, `ClerkTransfer` and `ClerkSave`; they refuse no amount that can be
sent, not even 0; `ClerkSave` writes what differs from the document that was read,
as `save()` of Mongoose does. `waived` (history) holds the links for which an admin
has had a fee of 0 transferred: it is mined, and recorded like any other.

### TronLinks

`Receive`, `FindLink`, `ReadBalance`, `HandlerStore`, `HandlerEnds` are
`handleTronWebhook`; `CronStart`, `CronLook`, `CronStore`, `CronNotify`,
`CronEnds` are `tronPaymentLink`; `Store` is the update by `_id` that both
perform. A balance is stored, not a sum, and TronGrid lags: `Sync` lets it see
what has been sent. A payout tick is `TickStart`, `TickGivesUp` or `TickNext`,
`FundGas`, `MerchantLeg`, `FundAdminGas`, `AdminLeg`, `Record`, `Announce`,
`TickEnds`. Unlike on EVM chains the merchant is paid first, the limit on the
retries works, an error of a transfer ends the whole tick, and nothing is
recorded when the gas for the fee is missing. `MayBreak` names links whose
transfers may stop working for good.

### BtcLinks

`DetectStart`, `DetectLook`, `DetectMark`, `DetectStore`, `DetectEnd` are
`processBitcoinPaymentLinks`: it looks at the newest `Window` (50) of the rows
without a streamId (`Watched`, of those that are `Waiting`), sums up
all the outputs to the address, fills in the streamId of every link for which it
has found anything, and then stores the amounts, whatever the links have become.
`TickStart`, `Transfer`, `Record`, `TickEnd` are the payout, which sends the fee
and the merchant's part in one transaction, or the whole amount to the merchant
when the fee cannot be read or would be dust; what reads nothing from the database
between two links is one step. Links are created one by one (`Create`), in the order of
`CreatedAt`. `short` is history: links of which a tick has seen a part of the amount.

### WebhookDelivery

One log per event; the call of `sendWebhook` for `e` is the worker `e`, and the
ticks of the retry cron are the workers in `Crons`; both run `executeWebhook`
(`Load`, `GiveUp`, `Post`, `RecordSuccess`, `Reschedule`). `Caught` is a database
error inside its try block, `Uncaught` one outside, or a crash. The delays are
abstracted to `later` and `due`.

### AppWallet

A behaviour follows one wallet, on an EVM chain, on TRON or on Bitcoin. `Submit`,
`CheckBalance`, `ReadNonce`, `Send`, `Verify`, `Save` are `merchantWithdraw`: the
merchant's leg, then the fee's, whose outcome nobody looks at (`AfterUnpaid`), then the
row, whose loss is only logged (`SaveFails`). On EVM chains a transfer is executed if
its nonce is the next one; on Bitcoin one transaction pays both. `TickStart`,
`TickListTrc20`, `TickFind`, `TickCreate`, `TickEnds` are the TRON monitor, `TickStart`,
`TickDistinct`, `TickInsert` the Bitcoin monitor; a listing returns a page of the newest
transactions (`Window`). `Unreadable` are transactions that make the monitor throw.
Other apps appear as what they do to this wallet: a tick reads the newest `WalletPage`
apps (`TickStart`, `S` 2083-2087, 2286-2290), so that newer apps (`newer`: `AppCreated`,
`AppDeleted`) keep it from being looked at; and rows are looked up by hash alone, so
that a transaction between two apps (`Between`) that the other app or its monitor has
recorded (`elsewhere`: `RowElsewhere`) gets no row here.

### Reclaim

`Select` reads up to `Limit` links with their retry counters; `Attempt` raises the
counter, `GiveUp` closes a wallet whose attempts are used up. An attempt reads the
balances (`ReadTokens`), on TRON of the tokens that a listing returns, `TokenPage` (50)
at most, on EVM chains of the link's own token (`LooksFor`); funds and sends one token
after the other (`FundGas`, `SendToken`); and then sweeps the native coins
(`ReadNative`, `SendNative`, `MarkReclaimed`). An error of one token does not keep the
next from being swept, and each of them may cost gas (`funded` counts it per token).
Amounts are ordered by the thresholds of the code (`Dust`, `Small`, `Worth`; gas 0, 1, 2).

### AppRegistry

`AskApp`, `CheckName`, `CheckCount`, `Activate`, `SaveApp`, `Watch`, `StoreRow` are
`addApp`, in the order that `After` gives; `ListRows`, `CheckRow`, `DeleteRows`,
`DeleteAddresses` are the cron. An app stands for its address.

### FiatBalance

`Look`, `LookAtLinks`, `LookAtWithdrawals`, `StoreBalance` are `appById`;
`StartTransfer`, `ReadApp`, `LowerBalance`, `MarkTransferred` are
`adminFiatTransfer`; `List`, `ListLinks`, `ListWithdrawals`, `StoreTotal` are
`getApps`. An amount is any integer (`Asked`), as the request is checked for being
there and for nothing else (`merchant-app-tx.dto.ts` 128-129). The transfer of a
negative one passes the comparison with the balance and raises it. Three histories:
`raised`, by how much it did; `refunded`, what negative withdrawals on record
add to the balance and the total that are computed next; `disturbed`, apps with calls
that overlapped or a request that was transferred again, which nothing in the code
rules out.

### Whitelist

`ReadMerchant`, `ReadList`, `ClearCode`, `SaveAddition` or `SaveRemoval` are the two
calls. Mongoose sends an addition as a `$push`, and a removal as a whole list on
condition that the version of the document is the one that was read (`Current`).

### Reports

A report is an operator on the documents, which are created and settled while time
passes. Times carry their month in UTC and by the server's clock, their day and their
week (`Calendar` says how they go together: a server in UTC or ahead of it); every
report is computed from these as its code does it. A link has a symbol and a code, as
charts count by code (`Count`) and tables by symbol. Several codes can share a symbol, and
nothing is assumed of the two, since an admin may change a token (`token.service.ts`
204-213) that links were stored with. `Overflowing` are the times at which the month
eleven months back has no day like today, and `setMonth` ends up in the one after it
(`UserPaymentLinksAmountSum`).

### UserWithdrawal

`Submit`, `CheckCooldown`, `CheckLimits`, `CheckBalance`, `Insert`, `DeskStarts`
are `createWithdrawalRequest`; `Open`, `Decide`, `ClerkStarts` the two decisions;
`ReadStatus`, `Begin`, `Transfer`, `PayFee`, `Finish`, `Fail` are
`processWithdrawal`, which is started and not awaited. One user, one app, one
day, and a price of 1.

## 3. What the runs show

Runs that pass:

| Run | Instance | What holds |
|---|---|---|
| `link_creation` | three EVM links and a Bitcoin link, any interleaving, one activation cut short, expiry | addresses are not shared and are watched for their hour (`AddressIsOwn`, `HandedOutIsLive`), on networks where creations do not overlap |
| `deposits_sequential` | two links and the app, one activation, one transfer per block, a redelivery of a link's or of the app's transfer, an abort anywhere | nothing is lost without redelivery and abort, an app's transfer is stored once, a confirmed payment is not taken back, the steps implement `LinkLedger`, a paid link is confirmed and an overdue one expires (`LinksAreTimely`) |
| `lifecycle` | two links that have stored the same address and ask for 3 and 2, transfers of 1 and 2, two overlapping activations of `stream`, an abort or redeliveries, the expiry cron and the withdraw cron | a link is confirmed at most once per activation (`ConfirmationsBounded`), is settled at most once per payout tick and activation and never waits again (`SettledIsSound`), and has paid out the amount asked for, if it was calm (`SettledIsPaidFor`) |
| `payout` | an ERC-20 and a native link, two overlapping ticks with one fault of any kind, or one tick at a time with two faults, or with one and an admin request | a settled link has paid its merchant; the accounting, with the faults that each part of it survives (`BooksAgree`: `AdminFeeOnce`, `MerchantGetsNet`, `ChargedIsPaid`); `SUCCESS` is final against stale saves; every link is settled, unless it is native and a transfer went unrecorded |
| `tron` | one link paid in two transfers, a webhook activation, the fallback cron, expiry, payout, two errors; or a token and a TRX link, either of which may break, one fault of the payout | the amount on record has been transferred and suffices (`CreditsAreTrue`); a settled link has paid out what was asked for; attempts are bounded; a paid link is found although Tatum need not call, and a broken link does not keep the other from being settled (`PaidIsSettled`) |
| `btc_links` | a link with three transfers, expiry, and any two of: overlapping detectors, overlapping payouts, a fault, a newer link that takes the only place in `Window` | a settled link stays settled unless detectors overlap; a payment that is complete when it is first seen is settled, unless newer links keep the detector from looking at it until it expires |
| `webhook_overlap` | two events of a payment, two ticks, four refusals, an error or a crash | posts are bounded; a superseded log that nobody holds stays quiet and a delivered one is not posted again unless ticks overlap (`SettledStaysQuiet`); every event is delivered or replaced while attempts last |
| `withdrawal` | three withdrawals of 1, 3 and 1 against limits of two requests and an amount of 3, two decisions at a time, automatic approval, one fault of any kind | paid once and final after a decline unless two decisions overlap; limits and cooldown; FAILED and SUCCESS are true, with the faults that make them false named, and nothing is left behind without a crash (`OutcomesAreTrue`) |
| `app_wallet` | four wallets with seven withdrawals between them, two at a time; three deposits, one of them unreadable; two overlapping ticks, pages of two; a fault, a newer app that fills the page of apps, or a row of another app | a WITHDRAW row is true of both legs, and an error means that nothing was paid (`RowsAreTrue`); rows of a hash are bounded; the monitors record every transfer they can list, also when the save of a withdrawal failed, unless newer apps keep the wallet out of the page |
| `housekeeping` | a TRON wallet with two tokens, and a third that is paid in later, an EVM wallet and one without a key; two ticks, and two faults, a second payment or an overlap; two apps, two creations, two ticks, one fault | gas is sent three times for a token, and once more per further tick; a wallet closed by a successful attempt holds nothing worth sweeping; an app keeps its row and address, and their number is bounded (`AppsAreKept`); wallets are closed and deleted apps forgotten in the end (`EverythingIsTidy`) |
| `back_office` | two apps and three fiat requests, one of them negative, with each kind of call, one cut short; two links whose codes share a symbol and two rows, over two New Years and a 30 January; three whitelist entries, two calls, two passwords | transfers and totals are covered by settled links and by what negative requests have added; all reports tell the same story (`ChartsAgree`, `ReportsAreComplete`); `WhitelistHolds` |

A property that names several others in this table is their conjunction: they are
asked of the same states. One run exhibits a disagreement between the code and one of
its comments; the quotation is in `PROJECT.json` under `findings`: in
`withdrawal_double` two overlapping approvals pay twice.

What the conditions of the properties say. Each condition below was put into its
property after TLC had found the behaviour; without it the run fails.

* `NothingLost`: `TxBlock` is injective in the run. Two transfers of one block are
  taken for one (`S` 168-183). No abort: an error in the credit is swallowed, and
  Moralis gets its answer.
* `ConfirmedHasRequired`, `CreditsAreAtomic`: one activation. A partial credit that
  was computed earlier overwrites the amount of a link confirmed in between.
* `SettledIsPaidFor`: a transfer that is delivered again after a second deposit is
  credited again, since only the last hash and block of a link are compared (`S` 168),
  and the link is confirmed with less than its amount. Overlapping activations on one
  address do the same, and so does a second payout of a link, which takes what was sent
  to another. The property speaks of addresses that are not in `disturbed` (history) and
  of transfers that were delivered once.
* `SettlementsBounded`: one settlement per tick and activation. A credit that was
  computed before the payout sets SUCCESS back, and the link is paid and announced
  again, out of what its address still holds (`S` 206).
* `PaidLinkIsConfirmed`, `DeadlineIsEnforced`: no abort. After the rows are deleted an
  error leaves their links PENDING for ever.
* `AdminFeeOnce`: an overlap, a lost receipt or a failed write takes the fee again.
  `MerchantGetsNet`: a merchant's transfer that is repeated has the fee deducted
  again.
* `ChargedIsPaid`: an admin request for a fee of 0 writes `ADMIN_CHARGES`
  (`payment-link.service.ts` 1950-1952, 2009-2015, 2907-2911), and the ticks then take no
  fee of that link.
* `EveryLinkIsSettled`: a native link that has been emptied cannot be estimated
  any more. The limit on the retries (`S` 471) never applies.
* `SupersededStaysQuiet`: a worker that holds an older log makes it PENDING again
  after the newer one was sent (`webhook/webhook.service.ts` 201).
  `NewestIsDelivered`: a log without attempts stays PENDING, and one whose first post
  was cut short has no nextRetryAt and is not retried.
* `SuccessIsPaid` (EVM): two ticks that overlap may each take the fee of a token until
  nothing is left, and a transfer of nothing then settles the link.
* `SuccessIsPaid` (TRON): a transfer whose receipt times out counts as sent.
  `OthersAreSettled`: when the gas for the fee is missing, the merchant's transfer is
  repeated by the next tick, and the link is given up.
* `SettledIsFinal`, `PaidIsSettled` (Bitcoin): overlapping detectors confirm a
  settled link again; a link that was paid in part is never looked at again.
* `AddressIsOwn`, `HandedOutIsLive`: two creations that overlap derive the same
  address, and can move the counter backwards.
* `PaidOnce`, `DeclinedIsFinal`, `LimitsHold`: decisions or requests that overlap.
* `WithdrawRowIsTrue`: faults, a request beside it, and a wallet that does not hold
  the fee. `FailedIsUnpaid`: on TRON, where the fee's leg may throw after the merchant
  was paid, also a request beside it.
* `EveryTransferIsRecorded`: transactions that fall off the page, and those listed after
  one that cannot be read; a wallet behind 50 newer apps, which no tick looks at. Of a
  transfer between two apps it says only that one of them has a row: the other's lookup
  by hash finds that row (`S` 2131, 2202, 2364), and its merchant never sees the
  transfer.
* `WalletsAreEmptied`: money that came later, a second tick, a receipt that timed out, a
  listing that was cut short. On EVM chains it says nothing of tokens other than the link's,
  which no attempt looks for.
* `LiveAppsAreWatched`: a creation that was cut short after the app was stored.
* `TransfersAreCovered`: apps in `disturbed`. It adds `raised` to what settled links are
  worth, as `TotalIsCovered` adds `refunded`: a request for a negative amount is stored
  as any other (`merchant-app-tx.service.ts` 970), its transfer raises the balance
  (1208-1214), and every later sum of withdrawals is less by it (`apps.service.ts` 389,
  529).
* `FewDuplicates`: entries without a network, which are stored as "" and compared
  with undefined (`apps/apps.service.ts` 945): they can be listed any number of times.
* `ReportsAreComplete`: what was created while the year had begun by the server's clock
  and not in UTC is in the charts and in no table; a server in UTC or east of it. The
  counts of links agree over all codes and all symbols, and not for one of them. At a
  time in `Overflowing` the links of the first of the twelve months are missing from the
  merchant's earnings.
* `ReportIsTrue`: a lost receipt, or a failed save after the transfer, reports FAILED
  for what was paid.

Bounds. Two activations are enough for every race above: each is a read and a write of
one actor around a write of another, and the theorems of section 4 show that some of the
bounds grow exactly with the number of activations. Two transfers make a partial payment
and the one that completes it (Bitcoin has a third, which a second payout can take); two
deliveries are a redelivery. Two links are used where links disturb each other (shared
address, an error that ends a tick) and one otherwise. One fault at a time is enough
because each fault is recovered from, or not, before the next; the runs of a single tick
take two. `MaxAttempts` and `MaxRetries` are 1 or 2 instead of 5: the code compares the
counter with the limit and uses it for nothing else. In `payout` it is 0: the counter is
written and never read, so that a bound on it only keeps states apart that behave alike.
`MCEvmDeposits`, `MCPaymentLifecycle`, `MCEvmPayout`, `MCTronLinks`, `MCBtcLinks`,
`MCAppWallet`, `MCHousekeeping` and `MCBackOffice` bound their actions (`Bounded`),
because the product of all that can happen exceeds what TLC can explore: of the
transfers one is delivered twice; a lifecycle has an abort or redeliveries; a payout has
an overlap and a fault, or an admin request and a fault, or two faults; a Bitcoin
behaviour has two of the four kinds of trouble; `Window` is 1 there, so that one newer
link is a crowd; a wallet has a fault, a newer app (`WalletPage` is 1) or a row
elsewhere; a TRON behaviour looks closely at the detectors or at the payout; a sweep has
two faults, a second payment, or two ticks at one link (and then a fault, except at the
wallet with several tokens); of the fiat requests two are transferred, the negative one
raises the balance once, and nobody looks at the balance of the app that no request
names. `TokenPage` is 2 instead of 50: the third token of a wallet is the one too many.
`tron` has a single payout tick, so that `AttemptsBounded` is checked without the
overlap that its bound allows for. `withdrawal` has one request of the user at a time,
with two the limits are known not to hold. `AppLimit` and `Limit` are 1 instead of 3 and
10, so that the second app or link is the one too many. The six times of `back_office`
are the ones at which a year, a quarter or a day changes, with a server to the east of
UTC, and a day whose number February does not have. Symmetry is used in the runs without
liveness only: activations of `stream`, of `UserWithdrawal`, and requests for one
network. `CHECK_DEADLOCK FALSE` is set because the models really stop: deliveries,
events, links and requests are finite, and a settled or expired link has nothing left to
do.

Fairness. `FairSpec` is weak fairness of the steps of each activation (Node
resumes a handler whose promise settles, a cron fires again), and no fairness of
what the outside need not do: customers, merchants, admins, users, the passing of
a link's hour, faults. `EvmDeposits` adds strong fairness of the *first* delivery
of a transfer, since Moralis retries until it is answered and an activation
becomes free again and again. `TronLinks` has none for Tatum: the fallback cron is
there for that. In `AppWallet` and `Reclaim` it is the cron that is fair and not
each tick: some tick goes on; a request may hang for ever. The bounded runs state
fairness of the bounded steps. `LinkCreation`, `UserWithdrawal`, `PaymentLifecycle`,
`FiatBalance`, `Reports` and `Whitelist` state no liveness and have no `FairSpec`.

## 4. What is proved

Every safety property and every action property that a passing run checks is also a
theorem, for every value of the constants; `PROJECT.json` lists which theorem states
which property. Liveness is model-checked only, because it needs fairness and ENABLED.

The proofs rest on the assumptions that the modules state about their constants, which
TLC evaluates in the runs: amounts, fees and limits are natural numbers, except for what
is asked for in fiat, which is any integer; sets of activations, links and transfers are
finite, names are not `Nil`, a wallet's deposits are no legs of its withdrawals, and
`Calendar`. The three theorems that begin with `Sequential` have hypotheses of their
own, which are named in their statements.

All of them follow one argument. The property is not inductive: it speaks of what has
been stored, and a step stores what an activation has read, several awaits ago. The
invariant says what each activation may hold in its hands while the documents move on,
under the conditions of the property. It was checked by TLC on the instance of the run
before it was proved. Properties that bound a number are proved by counting: what has
happened and the activations that may still make it happen are, together, never more
than the bound (`Trying`, `Early`, `Storing`, `Admitted`, ... are such sets). In the
modules with many steps the actions are first restated by their effects on the variables
that the invariant speaks of (`Moves`, the `...Move` operators, the `...Moves` lemmas),
and each part of the invariant is then shown to be kept by a move.

`SumTheorems` holds the laws of `MapThenSumSet` of the community modules: the recursion
over subsets is well defined, the order of the elements does not matter, an element can
be added or taken away, one summand can change, sums are monotone in the function and in
the set, two disjoint sets add up, and adding up by a key adds up everything
(`SumByKey`). Induction is by a minimal counterexample among the subsets of a finite set
(`SubsetInduction`, `ElementInduction`), so that no theorem has an operator as a
parameter.

`PaymentLifecycle_proofs`, first about `EvmDeposits`:

* `TypeCorrect`, and `ConfirmedIsFinal`: the only other writer of the status is
  `SweepExpire`, whose filter contains the status (`Expirable`).
* `ConfirmedAtMostOncePerHandler` and `AppRowsAtMostOncePerHandler`, by counting
  (`ConfirmationsInv`, `AppRowsInv`): while a link is PENDING nobody has announced it.
* `SequentialConfirmedHasRequired` and `SequentialCreditsAreAtomic`, for one activation:
  the total it is going to store is the one that decided its kind, and its link has not
  been changed since (`RequiredInv`). The second one is the refinement of `LinkLedger`:
  the initial states map to an initial state, `CreditFull` and `CreditPartial` to
  `Credit`, `SweepExpire` to `Expire`, every other step to a stutter.
* `SequentialNothingLost`, for one activation, links with addresses of their own, and one
  transfer per block, as in the run: every transfer is either in the hands of the
  activation, or it has landed and is counted in the amount of its link (`LossInv`).

and about `PaymentLifecycle`:

* `LifecycleTypeCorrect`, with `FundsCover`: no address pays out more than it has
  received, whatever overlaps.
* `SettledLinksAreSound`: with `N` the number of payout ticks, the settlements of a link,
  `N` for every activation that is still going to credit it, and the ticks that will
  settle it now, are at most `N` times the number of activations (`SettledInv`).
* `SettledLinksArePaidFor`: at an address that is calm (no redelivery, not disturbed) the
  links have no more on record than has landed there (`AddressBooks`, a sum over the
  links against a sum over the transfers), a confirmed link has its amount, and who pays
  has read the amount that is still on record (`LinkBooks`); what an activation has read
  either is still true or can only overwrite something, which disturbs the address
  (`ReadOf`).

`EvmPayout_proofs`: `TypeCorrect`, `SettledIsPaid`, `SettledStays`, `BooksAreTrue`, for
any links, amounts and fees, overlapping ticks, admin requests and faults, from one
invariant. What a tick or an admin works on is confirmed or settled, and the fee has not
been paid before its leg (`LinksInOrder`); what was received is at the address or was
paid out (`Conserved`); a document that says the fee is paid tells the truth, or an
admin has had 0 transferred (`FeeNoted`), and so does one that says the merchant is
(`NetNoted`, where overlapping ticks may have found nothing left); without overlap one
tick works at a time and what it has read is still there (`Alone`); and without the
faults that the property names the fee was taken at most once (`FeeOnce`), and what is
left covers the merchant's part (`NetWhole`).

`TronLinks_proofs`: `CreditsAreAlwaysTrue`, `AttemptsAreBounded`, `SettledLinksHavePaid`.
`TronInv` says that what has arrived at an address is there, with the merchant or with the
admin (`MoneyInOrder`), and that whoever is about to store a balance has seen no more than
has arrived. Below the limit the counter counts the attempts; it reaches the limit once,
and from then on only ticks that had selected the link before can attempt it
(`AttemptsInv`). What a tick believes to have paid has been paid, unless a token transfer
was taken for sent after its timeout (`PaidInv`).

`BtcLinks_proofs`: `TypeCorrect` and `SettledStays`. The invariant `InOrder` says what the
two crons hold: a row is filled in before its link is confirmed (`RowFirst`), so that a
detector which starts later does not take the link (`DetectorsInOrder`); a payout holds
links that are confirmed, each once (`PayoutsInOrder`), and as long as no ticks of a cron
have overlapped (`OneAtATime`) none of them is settled by somebody else.

`UserWithdrawal_proofs`: `TypeCorrect`, `PaysOnce`, `DeclineIsFinal`, `LimitsAreKept`,
`OutcomesTrue`. An approved withdrawal is about to be taken by somebody and one that is
PROCESSING is being paid, or a crash has happened (`NobodyForgets`); successes and fees
come after a payment, unless TRON has not confirmed it (`MoneyInOrder`); without
overlapping decisions a withdrawal has one holder at most, and has been paid exactly as
far as that holder stands (`Undisputed`); without overlapping requests what a request has
checked is still so when it is inserted (`CooldownInOrder`, `LimitsInOrder`, a cardinality
and a sum over the withdrawals of the day).

`LinkServices_proofs`, in three parts.

* `LinkCreation`: `TypeCorrect`, `AddressesAreOwn`, `HandedOutIsLiveAlways`. What matters
  is where every other link stands when an address is derived or taken away. `Inv` says
  that on a network without overlap whoever has read the counter is alone and the counter
  is what he has read (`CounterIsHeld`); that the links which the counter has passed, and
  that still have a row, a place in a batch or a running request (`Counted`), have
  different addresses below the counter; that the batches of the expiry cron hold only
  overdue links; and that until its hour is over a link keeps what its request has stored
  (`StoredStays`). A tick can then take nothing from a link that is not overdue.
* `WebhookDelivery`: `WebhookTypeCorrect`, `PostsAreBounded`, `SettledStaysQuietAlways`.
  `CountInv` counts the posts of a log against the attempts on record, the activations
  that have posted and not yet recorded it, and the errors; a tick admits a log only
  while attempts are left (lemma `Room`). `QuietInv` says that a tick has taken out of its
  batch the log it works on, and that without overlapping ticks nobody holds a log that
  was delivered; a log that is over stays so because nobody holds it and the query of the
  cron does not find it.
* `Reports`: `ReportsAlwaysAgree`. Documents do not come from the future (`ReportsInv`);
  therefore each of this year's documents falls into exactly one slot of a chart
  (`ThisYearIsRecent`), a quarter is three disjoint months (`QuarterIsThreeMonths`), and a
  table from the first day of the year to the day after its last one shows exactly the
  documents of the year (`TableIsOfTheYear`). Charts by code and tables by symbol add up to
  the same because each of them adds up the same documents by a key (`SumByKey`); what an
  overflow misses is taken out on both sides (`Missed`).

`BackOffice_proofs`, in five parts.

* `FiatBalance`: `FiatTypeCorrect`, `TransfersAreAlwaysCovered`, `TotalIsAlwaysCovered`.
  What a transfer is compared with is a copy of a sum that somebody computed earlier, from
  two reads with awaits in between; `Books` says what each activation may hold
  (`LookersInOrder`, `TransfersInOrder`) and that nobody looks at an app while money is
  transferred for it (`Alone`), for the apps that were not disturbed. Money left is what
  settled links are worth and negative requests have raised, less what was transferred
  (`Remaining`). `TotalInv` says what a listing has added up so far, app by app: each
  summand is at most the app's `worth`, because withdrawals and what the negative ones
  among them add up to are never less than nothing (`WithdrawalsInOrder`), and the sum of
  the worths only grows (`WorthGrows`).
* `Whitelist`: `WhitelistTypeCorrect`, `AcknowledgedChangesStay`, `WhitelistAlwaysHolds`. A
  copy of the list is the list as long as the version is the same (`VersionInv`); a
  password's uses and the calls that may still use it are never more than the calls that
  can overlap (`CodeInv`), and likewise for an entry and the calls that will add it
  (`DuplicateInv`).
* `Reclaim`: `GasDrainIsAlwaysBounded`, `WalletsAreAlwaysEmptied`. `GasInv` counts the gas
  sent for a token, the ticks that may still send it (`Trying`) and those that have yet to
  raise the counter (`Early`): an attempt has each token in its list once. `SweptInv` says
  what a tick knows to be on a wallet, token by token, if no timeout, no second tick and no
  late payment has touched it.
* `AppRegistry`: `LiveAppsAreAlwaysWatched`, `AppsAreAlwaysKept`. A creation knows what it
  has stored (`CreatorsInOrder`), a tick holds only what was deleted (`CleanersInOrder`);
  the apps of a merchant and the creations that were admitted count against the limit
  (`LimitInv`).
* `AppWallet`: `RowsAreAlwaysTrue`, `RowsAreAlwaysBounded`. The rows of a hash and the
  ticks that are about to store one are at most one per tick, and one for the request
  (`RowsInv`); as long as nothing fails, a request that is alone at a wallet finds there
  what it saw (`PurseInv`), and where it stands tells which of its legs were paid
  (`PlaceInv`).

What the proofs have corrected. An attempt that failed for a good reason changed the
model or the property, after TLC had shown the counterexample: `SuccessIsPaid` of
`EvmPayout` has an exception for overlapping ticks that use up the deposit;
`SettledIsPaidFor` names the addresses that were disturbed; `SettlementsBounded` and the
bound on attempts grow with the number of overlapping ticks; the two tables of the
quarters in `Reports` have disjoint cases, as a CASE whose guards overlap has no definite
value; sets of links and transfers are assumed finite where something is added up over
them.

`SequentialConfirmedHasRequired`, `LiveAppsAreAlwaysWatched` and `AcknowledgedChangesStay`
state properties that no run lists by themselves: they are parts of, or implied by,
`CreditsAreAtomic`, `AppsAreKept` and `WhitelistHolds`.

Only model-checked: liveness (`LinksAreTimely`, `EveryLinkIsSettled`,
`NewestIsDelivered`, both `PaidIsSettled`, `EveryTransferIsRecorded`,
`EverythingIsTidy`); and `NeverPaidTwice`, which the code violates.

## 5. What is not modelled, and why

Chains and third parties are external: their answers are nondeterministic. Prices,
decimals and addresses are data that no property here depends on. Merchants, admins,
fiat currencies, tokens, networks and content are documents that one step creates,
reads, updates or deletes, without another step that relies on them. Authentication,
hashing and key derivation are libraries. Notifications and e-mails are
fire-and-forget. Of the apps, keys and webhook settings are left out; of the reports,
the counters of active merchants and apps, `getUserBalanceSum` and the listings, which
are single queries. What each modelled component leaves out is named in its section
and in `PROJECT.json`: two transfers merged into one record (`S` 141), the choice
between two types of rows, several chains at a time, several tokens
at a time (except in `Reclaim`), gas as a quantity.

## 6. Plan

1. An abstract specification of a payout, in which the legs of a link are one step, and
   the conditions under which `EvmPayout` and `TronLinks` implement it; the refinement as
   a theorem.
2. The safety half of the liveness properties as theorems: what an activation that goes
   on is going to do (a confirmed link is in some tick's list or will be selected by the
   next one), so that what is left to fairness is only that activations do go on.
3. `BtcLinks`: what a settled link has paid out, as on the other chains.
