--------------------------- MODULE PaymentLifecycle ---------------------------
(***************************************************************************)
(* The life of an EVM payment link from the first transfer to the payout:  *)
(* EvmDeposits and the withdraw cron work on the same rows.                *)
(*                                                                         *)
(* stream and the expiry cron are those of EvmDeposits.  A tick of the     *)
(* withdraw cron is reduced to the three awaits that matter between the    *)
(* two: the aggregation that selects confirmed links with their stored     *)
(* amounts, the transfer out of the deposit wallet, and the write of       *)
(* SUCCESS.  Its legs, its faults and overlapping ticks are EvmPayout.     *)
(***************************************************************************)
EXTENDS EvmDeposits

CONSTANT
  Payers          \* concurrent ticks of the withdraw cron

ASSUME LifecycleAssumption == IsFiniteSet(Payers)

VARIABLES
  payer,      \* what each tick of the withdraw cron knows
  paidOut,    \* paidOut[l]: what payouts of l have taken from its address
  settled,    \* history: PAYMENT_SUCCESS webhooks sent for each link
  disturbed   \* history: addresses where a credit was computed from an amount
              \* that is on record no longer, or a link was paid out again

payoutVars == <<payer, paidOut, settled>>
lifecycleVars == <<vars, payoutVars, disturbed>>

\* todo: the selected links still to be paid; stored: their recivedAmount as the
\* aggregation returned it; paid: the link whose SUCCESS is not yet written.
IdlePayer == [todo |-> {}, stored |-> [l \in Links |-> 0], paid |-> Nil]

LifecycleTypeOK ==
  /\ TypeOK
  /\ payer \in [Payers -> [todo : SUBSET Links, stored : [Links -> Nat],
                           paid : Links \cup {Nil}]]
  /\ paidOut \in [Links -> Nat]
  /\ settled \in [Links -> Nat]
  /\ disturbed \in SUBSET Addresses

LifecycleInit ==
  /\ Init
  /\ payer = [w \in Payers |-> IdlePayer]
  /\ paidOut = [l \in Links |-> 0]
  /\ settled = [l \in Links |-> 0]
  /\ disturbed = {}

\* The transfers that have reached address a are those that were delivered.
Funds(a) ==
  MapThenSumSet(LAMBDA t : TxAmount[t], {t \in Txs : TxTo[t] = a /\ deliveries[t] > 0})
    - MapThenSumSet(LAMBDA l : paidOut[l], {l \in Links : AddressOf[l] = a})

\* The aggregation: the links to pay, with the amounts on record.
PayerFind(w) ==
  /\ payer[w] = IdlePayer
  /\ \E l \in Links : status[l] = "PARTIALLY_SUCCESS"
  /\ payer' = [payer EXCEPT ![w] =
       [todo |-> {l \in Links : status[l] = "PARTIALLY_SUCCESS"},
        stored |-> [l \in Links |-> IF status[l] = "PARTIALLY_SUCCESS" THEN received[l] ELSE 0],
        paid |-> Nil]]
  /\ UNCHANGED <<vars, paidOut, settled, disturbed>>

\* Link l is dealt with; p is the link whose SUCCESS is to be written.
After(w, l, p) == [todo |-> payer[w].todo \ {l},
                   stored |-> [payer[w].stored EXCEPT ![l] = 0], paid |-> p]

\* The selected amount leaves the wallet, capped to what is there; or the tick
\* passes the link by: no estimate, no gas, a failed transfer.
PayerPay(w) ==
  /\ payer[w].paid = Nil
  /\ \E l \in payer[w].todo :
       \/ /\ payer' = [payer EXCEPT ![w] = After(w, l, l)]
          /\ paidOut' = [paidOut EXCEPT ![l] =
               @ + Min({payer[w].stored[l], Funds(AddressOf[l])})]
          /\ disturbed' = IF paidOut[l] > 0 THEN disturbed \cup {AddressOf[l]} ELSE disturbed
       \/ /\ payer' = [payer EXCEPT ![w] = After(w, l, Nil)]
          /\ UNCHANGED <<paidOut, disturbed>>
  /\ UNCHANGED <<vars, settled>>

\* updateOne by _id, whatever the status is by now; then PAYMENT_SUCCESS.
PayerRecord(w) ==
  LET l == payer[w].paid IN
  /\ l # Nil
  /\ status' = [status EXCEPT ![l] = "SUCCESS"]
  /\ settled' = [settled EXCEPT ![l] = @ + 1]
  /\ payer' = [payer EXCEPT ![w].paid = Nil]
  /\ UNCHANGED <<received, lastBlock, lastHash, appRows, monitors, streamed, overdue,
                 deliveries, handler, sweeper, aborts, confirmations, paidOut, disturbed>>

PayerStep(w) == PayerFind(w) \/ PayerPay(w) \/ PayerRecord(w)

\* The links whose amount a step replaces without adding to it: the credit was
\* computed before another one was stored.
Overwritten ==
  {l \in Links : \E h \in Handlers :
     /\ CreditFull(h) \/ CreditPartial(h)
     /\ handler[h].link = l /\ handler[h].total # Accumulated(l, handler[h].tx)}

DepositStep ==
  /\ Next
  /\ disturbed' = disturbed \cup {AddressOf[l] : l \in Overwritten}
  /\ UNCHANGED payoutVars

LifecycleNext ==
  \/ DepositStep
  \/ \E w \in Payers : PayerStep(w)

LifecycleSpec == LifecycleInit /\ [][LifecycleNext]_lifecycleVars

-----------------------------------------------------------------------------
(* Properties.                                                             *)

\* A credit that was computed before the payout sets SUCCESS back to
\* PARTIALLY_SUCCESS, and the link is paid and announced again: that happens at
\* most once per activation of stream that had read the link while it was PENDING
\* and per tick of the cron that can select it then.
SettlementsBounded ==
  \A l \in Links : settled[l] <= Cardinality(Payers) * Cardinality(Handlers)

\* While nothing is delivered twice, a settled link has paid out at least the
\* amount that was required of its customer: however the credits, the expiry and
\* two links that share an address interleave, unless a credit has been
\* overwritten at the address or a link was paid out again, which takes what
\* belongs to the other one.  Nothing in the code rules these out.
SettledIsPaidFor ==
  \A l \in Links :
    /\ settled[l] > 0
    /\ AddressOf[l] \notin disturbed
    /\ \A t \in Payments(l) : deliveries[t] <= 1
    => paidOut[l] >= Required[l]

\* Once a link has been settled it is never PENDING or EXPIRED again: the only way
\* back is the late credit, to PARTIALLY_SUCCESS.
SettledNeverWaits ==
  \A l \in Links : settled[l] > 0 => status[l] \in {"SUCCESS", "PARTIALLY_SUCCESS"}

\* However often it is paid out, a settled link never waits for money again.
SettledIsSound == LifecycleTypeOK /\ SettlementsBounded /\ SettledNeverWaits
=============================================================================
