------------------------------ MODULE BtcLinks ------------------------------
(***************************************************************************)
(* Payment links that are paid in Bitcoin.                                 *)
(*                                                                         *)
(* Every minute processBitcoinPaymentLinks asks Tatum for the transactions *)
(* of the links whose row in wallet_monitors has no streamId yet, stores   *)
(* what it finds and fills in the streamId, so that a link is looked at    *)
(* until something has been paid.  Every minute as well,                   *)
(* withdrawBTCPaymentFromLinksAndUpdateStatus pays confirmed links out, in *)
(* one transaction with an output for the merchant and one for the fee.    *)
(*                                                                         *)
(* The tolerance margin of the app does not appear: the rows have no appId *)
(* to find it by.  That change which returns to the address of a link is   *)
(* listed among its transactions is left out.                              *)
(***************************************************************************)
EXTENDS Naturals, FiniteSets

CONSTANTS
  Links,      \* payment links, one address each
  CreatedAt,  \* CreatedAt[l]: when its row in wallet_monitors is created
  Required,   \* Required[l]: the amount of the link
  Txs,        \* transfers of customers
  TxTo,       \* TxTo[t]: the link that t pays
  TxAmount,   \* TxAmount[t]: what it pays
  FeePercent, \* btcMerchantFee
  DustLimit,  \* BTC_DUST_LIMIT: the network rejects a smaller output
  Gas,        \* the network fee of a payout
  Window,     \* how many links a tick of the detection looks at (50)
  Detectors,  \* ticks of processBitcoinPaymentLinks that can run at the same time
  Ticks,      \* ticks of the payout that can run at the same time
  FaultKinds, \* faults that can happen
  MaxFaults,  \* bound: how many
  Nil         \* no link

Faults == {"listing", "fee", "refused", "lost", "write", "abort"}

ASSUME BtcAssumption ==
  /\ IsFiniteSet(Links)
  /\ CreatedAt \in [Links -> Nat]
  /\ \A l, m \in Links : CreatedAt[l] = CreatedAt[m] => l = m
  /\ Window \in Nat \ {0}
  /\ Required \in [Links -> Nat \ {0}]
  /\ TxTo \in [Txs -> Links]
  /\ TxAmount \in [Txs -> Nat \ {0}]
  /\ FeePercent \in 0..100 /\ DustLimit \in Nat /\ Gas \in Nat
  /\ FaultKinds \subseteq Faults
  /\ MaxFaults \in Nat
  /\ Nil \notin Links

VARIABLES
  status,     \* payment_links.status
  received,   \* payment_links.recivedAmount
  row,        \* the link's row in wallet_monitors: its streamId, or that there is none
  arrived,    \* transfers that Tatum reports
  deposited,  \* what these have brought to the address of each link
  toMerchant, \* what has reached the merchant
  toAdmin,    \* what has reached the admin
  spent,      \* what has left the address of the link
  detector,   \* what each tick of processBitcoinPaymentLinks knows
  tick,       \* what each tick of the payout knows
  faults,     \* faults so far
  happened,   \* history: the kinds of faults so far
  overlapped, \* history: the crons of which ticks have overlapped
  short       \* history: links of which a tick has seen a part of the amount

linkVars == <<status, received>>
inVars == <<arrived, deposited>>
chainVars == <<toMerchant, toAdmin, spent>>
trouble == <<faults, happened>>
history == <<overlapped, short>>
vars == <<linkVars, row, inVars, chainVars, detector, tick, trouble, history>>

IdleDetector == [pc |-> "idle", todo |-> {}, total |-> [l \in Links |-> 0]]
IdleTick == [pc |-> "idle", todo |-> {}, amount |-> [l \in Links |-> 0], link |-> Nil,
             free |-> FALSE]

DetectorState ==
  [pc : {"idle", "look", "mark", "store"}, todo : SUBSET Links, total : [Links -> Nat]]
TickState ==
  [pc : {"idle", "next", "record"}, todo : SUBSET Links,
   amount : [Links -> Nat], link : Links \cup {Nil}, free : BOOLEAN]

TypeOK ==
  /\ status \in [Links -> {"PENDING", "PARTIALLY_SUCCESS", "SUCCESS", "EXPIRED"}]
  /\ received \in [Links -> Nat]
  /\ row \in [Links -> {"absent", "none", "streamer", "deleted"}]
  /\ arrived \in SUBSET Txs
  /\ deposited \in [Links -> Nat]
  /\ toMerchant \in [Links -> Nat] /\ toAdmin \in [Links -> Nat]
  /\ spent \in [Links -> Nat]
  /\ detector \in [Detectors -> DetectorState]
  /\ tick \in [Ticks -> TickState]
  /\ faults \in 0..MaxFaults
  /\ happened \subseteq Faults
  /\ overlapped \subseteq {"detectors", "payouts"}
  /\ short \in SUBSET Links

Init ==
  /\ status = [l \in Links |-> "PENDING"]
  /\ received = [l \in Links |-> 0]
  /\ row = [l \in Links |-> "absent"]
  /\ arrived = {}
  /\ deposited = [l \in Links |-> 0]
  /\ toMerchant = [l \in Links |-> 0] /\ toAdmin = [l \in Links |-> 0]
  /\ spent = [l \in Links |-> 0]
  /\ detector = [d \in Detectors |-> IdleDetector]
  /\ tick = [w \in Ticks |-> IdleTick]
  /\ faults = 0
  /\ happened = {}
  /\ overlapped = {}
  /\ short = {}

Fault(kind) ==
  /\ kind \in FaultKinds /\ faults < MaxFaults
  /\ faults' = faults + 1
  /\ happened' = happened \cup {kind}

-----------------------------------------------------------------------------
(* The outside: merchants, customers, and the cron that expires links.     *)

Exists(l) == row[l] # "absent"

\* addPaymentLink, one link after the other.
Create(l) ==
  /\ ~Exists(l)
  /\ \A m \in Links : CreatedAt[m] < CreatedAt[l] => Exists(m)
  /\ row' = [row EXCEPT ![l] = "none"]
  /\ UNCHANGED <<linkVars, inVars, chainVars, detector, tick, trouble, history>>

Arrive(t) ==
  /\ t \notin arrived /\ Exists(TxTo[t])
  /\ arrived' = arrived \cup {t}
  /\ deposited' = [deposited EXCEPT ![TxTo[t]] = @ + TxAmount[t]]
  /\ UNCHANGED <<linkVars, row, chainVars, detector, tick, trouble, history>>

\* deletePaymentLinksWhichIsNotExistAnymore, an hour after the creation; it can
\* be cut short between the row and the status.
Expire(l) ==
  /\ row[l] \in {"none", "streamer"}
  /\ row' = [row EXCEPT ![l] = "deleted"]
  /\ \/ /\ status' = [status EXCEPT ![l] = IF @ = "PENDING" THEN "EXPIRED" ELSE @]
        /\ UNCHANGED trouble
     \/ Fault("abort") /\ UNCHANGED status
  /\ UNCHANGED <<received, inVars, chainVars, detector, tick, history>>

-----------------------------------------------------------------------------
(* processBitcoinPaymentLinks                                              *)

\* Links that are not expired and of which nothing has been found yet.
Waiting == {l \in Links : row[l] = "none"}

\* Mutant: rows that have been found are looked at again.
MWatched == {l \in Links : row[l] \in {"none", "streamer"}}

\* The newest of them: an older one waits until those before it are found or expire.
Watched ==
  {l \in Waiting : Cardinality({m \in Waiting : CreatedAt[m] > CreatedAt[l]}) < Window}

DetectStart(d) ==
  /\ detector[d].pc = "idle"
  /\ Watched # {}
  /\ detector' = [detector EXCEPT ![d] = [IdleDetector EXCEPT !.pc = "look", !.todo = Watched]]
  /\ overlapped' = IF \E e \in Detectors : detector[e].pc # "idle"
                   THEN overlapped \cup {"detectors"} ELSE overlapped
  /\ UNCHANGED <<linkVars, row, inVars, chainVars, tick, trouble, short>>

\* Tatum lists the transactions of all the addresses.  An error means that it
\* lists none.
DetectLook(d) ==
  /\ detector[d].pc = "look"
  /\ \/ /\ detector' = [detector EXCEPT ![d].pc = "mark",
              ![d].todo = {l \in @ : deposited[l] > 0},
              ![d].total = [l \in Links |-> IF l \in detector[d].todo THEN deposited[l] ELSE 0]]
        /\ UNCHANGED trouble
     \/ Fault("listing") /\ detector' = [detector EXCEPT ![d] = IdleDetector]
  /\ UNCHANGED <<linkVars, row, inVars, chainVars, tick, history>>

Enough(d, l) == detector[d].total[l] >= Required[l]

\* The rows of all links with a transfer, paid in full or in part.
DetectMark(d) ==
  /\ detector[d].pc = "mark"
  /\ row' = [l \in Links |->
       IF l \in detector[d].todo /\ row[l] # "deleted" THEN "streamer" ELSE row[l]]
  /\ short' = short \cup {l \in detector[d].todo : ~Enough(d, l)}
  /\ detector' = [detector EXCEPT ![d].pc = "store"]
  /\ UNCHANGED <<linkVars, inVars, chainVars, tick, trouble, overlapped>>

\* The links one by one, those paid in full first: PARTIALLY_SUCCESS for them, and
\* the amount for all, by _id and whatever the link has become.
DetectStore(d, l) ==
  /\ detector[d].pc = "store" /\ l \in detector[d].todo
  /\ Enough(d, l) \/ \A m \in detector[d].todo : ~Enough(d, m)
  /\ received' = [received EXCEPT ![l] = detector[d].total[l]]
  /\ status' = [status EXCEPT ![l] = IF Enough(d, l) THEN "PARTIALLY_SUCCESS" ELSE @]
  /\ detector' = [detector EXCEPT ![d].todo = @ \ {l}]
  /\ UNCHANGED <<row, inVars, chainVars, tick, trouble, history>>

\* The tick is over, or an error of the database or a crash ends it.
DetectEnd(d) ==
  /\ \/ detector[d].pc = "store" /\ detector[d].todo = {} /\ UNCHANGED trouble
     \/ detector[d].pc # "idle" /\ Fault("abort")
  /\ detector' = [detector EXCEPT ![d] = IdleDetector]
  /\ UNCHANGED <<linkVars, row, inVars, chainVars, tick, history>>

-----------------------------------------------------------------------------
(* withdrawBTCPaymentFromLinksAndUpdateStatus                              *)

\* One aggregation: what is to be paid out is what is on record now.  If the
\* platform's fee cannot be read, the tick pays out free of it.
TickStart(w) ==
  LET selected == {l \in Links : status[l] = "PARTIALLY_SUCCESS"}
      started(free) == [IdleTick EXCEPT !.pc = "next", !.todo = selected,
                                        !.amount = received, !.free = free]
  IN
  /\ tick[w].pc = "idle" /\ selected # {}
  /\ \/ tick' = [tick EXCEPT ![w] = started(FALSE)] /\ UNCHANGED trouble
     \/ tick' = [tick EXCEPT ![w] = started(TRUE)] /\ Fault("fee")
  /\ overlapped' = IF \E v \in Ticks : tick[v].pc # "idle"
                   THEN overlapped \cup {"payouts"} ELSE overlapped
  /\ UNCHANGED <<linkVars, row, inVars, chainVars, detector, short>>

\* The admin's output, unless it is dust.
Fee(n) == LET share == (n * FeePercent) \div 100 IN IF share >= DustLimit THEN share ELSE 0

\* The amount is enough for the network fee, which the merchant bears.
Payable(n, fee) == n > fee + Gas

\* btcTransferFromPaymentLinks, for one link after the other.  Without a
\* transaction id, because nothing was sent or because the answer to it was
\* lost, the link waits for the next tick.
Transfer(w, l) ==
  LET n == tick[w].amount[l]
      fee == IF tick[w].free THEN 0 ELSE Fee(n)
      possible == Payable(n, fee) /\ deposited[l] >= spent[l] + n
      spend ==
        /\ possible
        /\ toMerchant' = [toMerchant EXCEPT ![l] = @ + (n - fee - Gas)]
        /\ toAdmin' = [toAdmin EXCEPT ![l] = @ + fee]
        /\ spent' = [spent EXCEPT ![l] = @ + n]
      proceed(p) == tick' = [tick EXCEPT ![w].pc = p, ![w].link = l, ![w].todo = @ \ {l}]
  IN
  /\ tick[w].pc = "next" /\ l \in tick[w].todo
  /\ \/ spend /\ UNCHANGED trouble /\ proceed("record")
     \/ spend /\ Fault("lost") /\ proceed("next")
     \/ ~possible /\ UNCHANGED <<chainVars, trouble>> /\ proceed("next")
     \/ Fault("refused") /\ UNCHANGED chainVars /\ proceed("next")
  /\ UNCHANGED <<linkVars, row, inVars, detector, history>>

\* Mutant: the status is left to another cron.
MRecord(w) ==
  /\ tick[w].pc = "record"
  /\ UNCHANGED <<status, trouble>>
  /\ tick' = [tick EXCEPT ![w].pc = "next"]
  /\ UNCHANGED <<received, row, inVars, chainVars, detector, history>>

\* updatePaymentLinkModel swallows an error of the database.
Record(w) ==
  /\ tick[w].pc = "record"
  /\ \/ status' = [status EXCEPT ![tick[w].link] = "SUCCESS"] /\ UNCHANGED trouble
     \/ Fault("write") /\ UNCHANGED status
  /\ tick' = [tick EXCEPT ![w].pc = "next"]
  /\ UNCHANGED <<received, row, inVars, chainVars, detector, history>>

TickEnd(w) ==
  /\ \/ tick[w].pc = "next" /\ tick[w].todo = {} /\ UNCHANGED trouble
     \/ tick[w].pc # "idle" /\ Fault("abort")
  /\ tick' = [tick EXCEPT ![w] = IdleTick]
  /\ UNCHANGED <<linkVars, row, inVars, chainVars, detector, history>>

-----------------------------------------------------------------------------
DetectorStep(d) ==
  \/ DetectStart(d) \/ DetectLook(d) \/ DetectMark(d) \/ DetectEnd(d)
  \/ \E l \in Links : DetectStore(d, l)
TickStep(w) ==
  TickStart(w) \/ Record(w) \/ TickEnd(w) \/ \E l \in Links : Transfer(w, l)

Next ==
  \/ \E t \in Txs : Arrive(t)
  \/ \E l \in Links : Create(l) \/ Expire(l)
  \/ \E d \in Detectors : DetectorStep(d)
  \/ \E w \in Ticks : TickStep(w)

Spec == Init /\ [][Next]_vars

\* The crons keep firing and Node resumes their ticks.
FairSpec ==
  /\ Spec
  /\ \A d \in Detectors : WF_vars(DetectorStep(d))
  /\ \A w \in Ticks : WF_vars(TickStep(w))

-----------------------------------------------------------------------------
(* Properties.                                                             *)

\* A settled link stays settled, and nothing more is sent from its address: its row
\* is out of the way of the next tick.  Overlapping detectors can confirm it
\* again, and an overlapping payout can pay once more out of a later transfer.
SettledIsFinal ==
  [][\A l \in Links :
       status[l] = "SUCCESS" /\ "detectors" \notin overlapped =>
         /\ status'[l] = "SUCCESS"
         /\ "payouts" \notin overlapped => spent'[l] = spent[l]]_vars

\* A customer who transfers the amount in time sees the link settled, also by
\* payouts that overlap, unless the amount does not cover the network fee, a
\* tick has seen a part of it (nothing looks at the link again), detectors
\* overlap, or an answer or a write was lost.  It need not be as long as Window
\* newer links are waiting: no tick looks at it then, and it may expire.
PaidIsSettled ==
  \A l \in Links :
    deposited[l] >= Required[l] ~>
      \/ status[l] \in {"SUCCESS", "EXPIRED"}
      \/ l \in Waiting \ Watched
      \/ l \in short \/ ~Payable(received[l], Fee(received[l]))
      \/ "detectors" \in overlapped \/ happened \cap {"lost", "write", "abort"} # {}
=============================================================================
