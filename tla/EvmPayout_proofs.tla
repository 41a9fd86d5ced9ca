-------------------------- MODULE EvmPayout_proofs --------------------------
(***************************************************************************)
(* Proofs about EvmPayout, for any links, amounts and fees, any number of  *)
(* overlapping ticks and of admin requests, and any faults.                *)
(***************************************************************************)
EXTENDS EvmPayout, FiniteSetTheorems, TLAPS

(***************************************************************************)
(* What the ticks and the admin requests hold.                             *)

Working == {"readStatus", "estimate", "fundGas", "recordGas", "split",
            "adminLeg", "merchantLeg", "recordAdmin", "recordMerchant", "announce"}

\* What a tick and an admin request work on; the fee is not paid before its leg.
LinksInOrder ==
  /\ \A w \in Ticks : tick[w].pc \in Working => tick[w].link \in Links
  /\ \A w \in Ticks : tick[w].pc \in {"readStatus", "estimate"} => tick[w].link \in Native
  /\ \A w \in Ticks : tick[w].pc \in {"fundGas", "recordGas", "split"} => tick[w].link \notin Native
  /\ \A w \in Ticks : tick[w].pc \in Working \ {"merchantLeg", "recordAdmin", "recordMerchant", "announce"} =>
       ~tick[w].feePaid
  /\ \A c \in Clerks : clerk[c].pc # "idle" => clerk[c].link \in Links

\* Nothing is created on the way.
Conserved == \A l \in Links : balance[l] + toMerchant[l] + toAdmin[l] = Received[l]

\* Without an admin request no admin request runs.
NoClerks == manual = 0 => \A c \in Clerks : clerk[c].pc = "idle"

-----------------------------------------------------------------------------
(* Who says that a fee is paid has paid it, or an admin has waived it.     *)

FeeSettled(l) == toAdmin[l] > 0 \/ l \in waived

FeeNoted ==
  /\ \A l \in Links : withdraw[l] = "ADMIN_CHARGES" => FeeSettled(l)
  /\ \A w \in Ticks : tick[w].pc \in {"merchantLeg", "recordAdmin"} /\ tick[w].feePaid =>
       FeeSettled(tick[w].link)
  /\ \A c \in Clerks : clerk[c].pc = "save" /\ clerk[c].request \in ToAdmin =>
       FeeSettled(clerk[c].link)

\* Who says that the merchant is paid has paid the merchant, or has found nothing.
Spent(l) ==
  \/ toMerchant[l] > 0
  \/ l \notin Native /\ "overlap" \in happened /\ balance[l] = 0

NetNoted ==
  manual = 0 =>
    /\ \A l \in Links : status[l] = "SUCCESS" => Spent(l)
    /\ \A l \in Links : withdraw[l] = "SUCCESS" => status[l] = "SUCCESS"
    /\ \A w \in Ticks :
         /\ tick[w].pc \in {"estimate", "adminLeg", "merchantLeg"} /\ tick[w].net = 0 => Spent(tick[w].link)
         /\ tick[w].pc \in {"recordAdmin", "recordMerchant"} /\ tick[w].netPaid => Spent(tick[w].link)
         /\ tick[w].pc = "recordMerchant" => tick[w].netPaid

-----------------------------------------------------------------------------
(* Ticks that do not overlap.                                              *)

OneTick ==
  \A v, w \in Ticks : tick[v].pc # "idle" /\ tick[w].pc # "idle" => v = w

\* What the tick has read is still so.
UpToDate(w) ==
  LET l == tick[w].link IN
  /\ tick[w].pc # "idle" =>
       \A k \in tick[w].todo : status[k] = "PARTIALLY_SUCCESS" /\ tick[w].seen[k] = withdraw[k]
  /\ tick[w].pc \in Working => l \notin tick[w].todo
  /\ tick[w].pc \in Working \ {"announce"} => status[l] = "PARTIALLY_SUCCESS"
  /\ tick[w].pc = "fundGas" => tick[w].seen[l] = withdraw[l]
  /\ tick[w].pc = "recordGas" => ~tick[w].charged
  /\ tick[w].pc \in {"estimate", "fundGas", "recordGas", "split", "adminLeg"} =>
       (tick[w].charged <=> withdraw[l] = "ADMIN_CHARGES")

\* A token's fee is less than what there is.
FeeIsLess(w) ==
  tick[w].pc = "adminLeg" /\ tick[w].link \notin Native /\ tick[w].fee > 0 =>
    tick[w].fee < balance[tick[w].link]

Alone ==
  manual = 0 /\ "overlap" \notin happened =>
    /\ OneTick
    /\ \A w \in Ticks : UpToDate(w) /\ FeeIsLess(w)
    /\ \A l \in Links \ Native : balance[l] > 0 \/ toMerchant[l] > 0

-----------------------------------------------------------------------------
(* Faults that do not cost the fee twice.                                  *)

Share(l) == AdminShare[Received[l]]

\* The fee of l is not paid, and neither is the merchant.
FeeOpen(l) ==
  /\ withdraw[l] \in {"PENDING", "NATIVE_TRANSFER"} /\ status[l] # "SUCCESS"
  /\ \A w \in Ticks : tick[w].pc \in {"merchantLeg", "recordAdmin", "recordMerchant"} => tick[w].link # l

FeeOnce ==
  manual = 0 /\ happened \subseteq {"failed", "reverted"} =>
    /\ \A l \in Links : toAdmin[l] <= Share(l)
    /\ \A l \in Links : FeeOpen(l) => toAdmin[l] = 0 /\ toMerchant[l] = 0
    /\ \A w \in Ticks : tick[w].pc \in {"merchantLeg", "recordAdmin"} /\ ~tick[w].feePaid
                        /\ withdraw[tick[w].link] # "ADMIN_CHARGES" => toAdmin[tick[w].link] = 0
    /\ \A w \in Ticks : tick[w].pc = "merchantLeg" => toMerchant[tick[w].link] = 0
    /\ \A w \in Ticks : tick[w].pc \in {"recordAdmin"} /\ ~tick[w].netPaid => toMerchant[tick[w].link] = 0
    /\ \A l \in Links : status[l] # "SUCCESS" /\ toMerchant[l] > 0 =>
         \E w \in Ticks : tick[w].link = l /\ tick[w].netPaid /\ tick[w].pc \in {"recordAdmin", "recordMerchant"}
    /\ \A w \in Ticks : tick[w].pc \in {"estimate", "adminLeg"} /\ ~tick[w].charged => tick[w].fee <= Share(tick[w].link)

-----------------------------------------------------------------------------
(* Faults that do not cost the merchant.                                   *)

NetOf(l) == Received[l] - Share(l)

Untouched(l) ==
  /\ toMerchant[l] = 0 /\ toAdmin[l] = 0
  /\ withdraw[l] \in {"PENDING", "NATIVE_TRANSFER"} /\ status[l] # "SUCCESS"

NetWhole ==
  manual = 0 /\ happened \subseteq {"reverted", "write"} =>
    /\ \A l \in Links :
         \/ toMerchant[l] >= NetOf(l)
         \/ Untouched(l)
         \/ status[l] # "SUCCESS" /\ \E w \in Ticks : tick[w].pc = "merchantLeg" /\ tick[w].link = l
    /\ \A w \in Ticks :
         LET l == tick[w].link IN
         tick[w].pc \in Working /\ toMerchant[l] < NetOf(l) =>
           /\ tick[w].pc \in {"estimate", "adminLeg"} =>
                tick[w].net >= NetOf(l) /\ tick[w].fee + tick[w].net <= balance[l]
           /\ tick[w].pc = "merchantLeg" => tick[w].net >= NetOf(l) /\ tick[w].net <= balance[l]
           /\ tick[w].pc \notin {"recordAdmin", "recordMerchant"}

Inv ==
  /\ TypeOK /\ LinksInOrder /\ Conserved /\ NoClerks
  /\ FeeNoted /\ NetNoted /\ Alone /\ FeeOnce /\ NetWhole
-----------------------------------------------------------------------------
(* The steps again, with what each of them leaves in every variable that   *)
(* the invariant speaks of.                                                *)

GoesTo(w, p) ==
  /\ tick' \in [Ticks -> TickState]
  /\ tick'[w].pc = p
  /\ \A v \in Ticks : v # w => tick'[v] = tick[v]

KeepsTodo(w) == tick'[w].todo = tick[w].todo /\ tick'[w].seen = tick[w].seen /\ tick'[w].link = tick[w].link
KeepsSplit(w) == tick'[w].charged = tick[w].charged /\ tick'[w].fee = tick[w].fee /\ tick'[w].net = tick[w].net
KeepsNotes(w) == tick'[w].feePaid = tick[w].feePaid /\ tick'[w].netPaid = tick[w].netPaid

\* Only the program counter of w moves.
Moves(w, p) == GoesTo(w, p) /\ KeepsTodo(w) /\ KeepsSplit(w) /\ KeepsNotes(w)

LEMMA MovesEffect ==
  ASSUME tick \in [Ticks -> TickState], NEW w \in Ticks,
         NEW p \in {"next", "estimate", "recordGas", "split", "adminLeg", "merchantLeg",
                    "recordMerchant", "announce"},
         tick' = [tick EXCEPT ![w].pc = p]
  PROVE  Moves(w, p)
BY DEF Moves, GoesTo, KeepsTodo, KeepsSplit, KeepsNotes, TickState

LEMMA IdleEffect ==
  ASSUME tick \in [Ticks -> TickState], NEW w \in Ticks, tick' = [tick EXCEPT ![w] = IdleTick]
  PROVE  GoesTo(w, "idle")
BY DEF GoesTo, TickState, IdleTick, WithdrawStatus

LEMMA StartEffect ==
  ASSUME tick \in [Ticks -> TickState], NEW w \in Ticks,
         NEW S \in SUBSET Links, NEW f \in [Links -> WithdrawStatus],
         tick' = [tick EXCEPT ![w] = [@ EXCEPT !.pc = "next", !.todo = S, !.seen = f]]
  PROVE  GoesTo(w, "next") /\ tick'[w].todo = S /\ tick'[w].seen = f
<1> DEFINE r == [tick[w] EXCEPT !.pc = "next", !.todo = S, !.seen = f]
<1>1. r \in TickState /\ r.pc = "next" /\ r.todo = S /\ r.seen = f
  <2>1. tick[w] \in TickState
    OBVIOUS
  <2> QED BY <2>1 DEF TickState
<1>2. tick' = [tick EXCEPT ![w] = r]
  OBVIOUS
<1> HIDE DEF r
<1> QED BY <1>1, <1>2 DEF GoesTo

\* What the payments leave on the chain.
AdminIsPaid(l, n) ==
  /\ n <= balance[l] /\ UNCHANGED toMerchant
  /\ balance' \in [Links -> Nat] /\ toAdmin' \in [Links -> Nat]
  /\ balance'[l] = balance[l] - n /\ toAdmin'[l] = toAdmin[l] + n
  /\ \A k \in Links : k # l => balance'[k] = balance[k] /\ toAdmin'[k] = toAdmin[k]

MerchantIsPaid(l, n) ==
  /\ n <= balance[l] /\ UNCHANGED toAdmin
  /\ balance' \in [Links -> Nat] /\ toMerchant' \in [Links -> Nat]
  /\ balance'[l] = balance[l] - n /\ toMerchant'[l] = toMerchant[l] + n
  /\ \A k \in Links : k # l => balance'[k] = balance[k] /\ toMerchant'[k] = toMerchant[k]

LEMMA PaymentEffect ==
  ASSUME balance \in [Links -> Nat], toAdmin \in [Links -> Nat], toMerchant \in [Links -> Nat],
         NEW l \in Links, NEW n \in Nat
  PROVE  /\ PayAdmin(l, n) => AdminIsPaid(l, n)
         /\ PayMerchant(l, n) => MerchantIsPaid(l, n)
BY DEF PayAdmin, PayMerchant, AdminIsPaid, MerchantIsPaid

\* A fault of kind k, or none.
Strikes(k) == happened' = happened \cup {k}
Calm == UNCHANGED happened

StartMove(w) ==
  /\ tick[w].pc = "idle" /\ UNCHANGED <<dbVars, chainVars, clerk, manual>>
  /\ GoesTo(w, "next") /\ tick'[w].todo = Selected /\ tick'[w].seen = withdraw
  /\ \/ Strikes("overlap")
     \/ Calm /\ \A v \in Ticks : tick[v].pc = "idle"

NextMove(w) ==
  /\ tick[w].pc = "next" /\ UNCHANGED <<status, withdraw, chainVars, clerk, manual, happened>>
  /\ \E l \in tick[w].todo :
       /\ GoesTo(w, IF l \in Native THEN "readStatus" ELSE "fundGas")
       /\ tick'[w].todo = tick[w].todo \ {l} /\ tick'[w].seen = tick[w].seen /\ tick'[w].link = l
       /\ tick'[w].charged = (tick[w].seen[l] = "ADMIN_CHARGES")
       /\ tick'[w].feePaid = FALSE /\ tick'[w].netPaid = FALSE

StopMove(w) ==
  /\ UNCHANGED <<status, withdraw, chainVars, clerk, manual>>
  /\ tick[w].pc # "idle" /\ GoesTo(w, "idle")
  /\ (tick[w].pc = "next" /\ Calm) \/ Strikes("abort")

ReadMove(w) ==
  LET n == Received[tick[w].link] IN
  /\ tick[w].pc = "readStatus" /\ UNCHANGED <<dbVars, chainVars, clerk, manual, happened>>
  /\ GoesTo(w, "estimate") /\ KeepsTodo(w) /\ KeepsNotes(w)
  /\ tick'[w].charged = (withdraw[tick[w].link] = "ADMIN_CHARGES")
  /\ tick'[w].fee = (IF AdminShare[n] < Dust THEN 0 ELSE AdminShare[n])
  /\ tick'[w].net = n - AdminShare[n]

EstimateMove(w) ==
  /\ tick[w].pc = "estimate" /\ UNCHANGED <<dbVars, chainVars, clerk, manual, happened>>
  /\ \/ Coverable(tick[w].link) /\ Moves(w, "adminLeg")
     \/ ~Coverable(tick[w].link) /\ Moves(w, "next")

FundGasMove(w) ==
  /\ tick[w].pc = "fundGas" /\ UNCHANGED <<dbVars, chainVars, clerk, manual, happened>>
  /\ \/ tick[w].seen[tick[w].link] = "PENDING" /\ Moves(w, "recordGas")
     \/ tick[w].seen[tick[w].link] # "PENDING" /\ Moves(w, "split")

SkipLinkMove(w) ==
  /\ tick[w].pc \in {"estimate", "fundGas"} /\ UNCHANGED <<dbVars, chainVars, clerk, manual>>
  /\ Moves(w, "next") /\ Strikes("failed")

WithdrawBecomes(l, s) ==
  /\ withdraw' \in [Links -> WithdrawStatus] /\ withdraw'[l] = s
  /\ \A k \in Links : k # l => withdraw'[k] = withdraw[k]

StatusBecomes(l, s) ==
  /\ status' \in [Links -> Status] /\ status'[l] = s
  /\ \A k \in Links : k # l => status'[k] = status[k]

RecordGasMove(w) ==
  /\ tick[w].pc = "recordGas" /\ UNCHANGED <<status, chainVars, clerk, manual>>
  /\ Moves(w, "split")
  /\ \/ WithdrawBecomes(tick[w].link, "NATIVE_TRANSFER") /\ Calm
     \/ UNCHANGED withdraw /\ Strikes("write")

SplitMove(w) ==
  LET n == Payable(tick[w].link) IN
  /\ tick[w].pc = "split" /\ UNCHANGED <<dbVars, chainVars, clerk, manual, happened>>
  /\ GoesTo(w, "adminLeg") /\ KeepsTodo(w) /\ KeepsNotes(w) /\ tick'[w].charged = tick[w].charged
  /\ tick'[w].fee = Erc20Fee(n) /\ tick'[w].net = n - Erc20Fee(n)

SkipFeeMove(w) ==
  /\ tick[w].pc = "adminLeg" /\ ~FeeIsDue(w) /\ UNCHANGED <<dbVars, chainVars, clerk, manual, happened>>
  /\ Moves(w, "merchantLeg")

FeeMove(w) ==
  /\ tick[w].pc = "adminLeg" /\ FeeIsDue(w) /\ UNCHANGED <<dbVars, clerk, manual>>
  /\ KeepsTodo(w) /\ KeepsSplit(w) /\ tick'[w].netPaid = tick[w].netPaid
  /\ \/ /\ AdminIsPaid(tick[w].link, tick[w].fee) /\ Calm
        /\ GoesTo(w, "merchantLeg") /\ tick'[w].feePaid = TRUE
     \/ /\ AdminIsPaid(tick[w].link, tick[w].fee) /\ Strikes("lost")
        /\ GoesTo(w, "next") /\ tick'[w].feePaid = FALSE
     \/ /\ UNCHANGED chainVars /\ GoesTo(w, "next") /\ tick'[w].feePaid = FALSE
        /\ \/ Calm /\ tick[w].fee > balance[tick[w].link]
           \/ Strikes("failed")
     \/ /\ UNCHANGED chainVars /\ tick[w].link \notin Native /\ Strikes("reverted")
        /\ GoesTo(w, "merchantLeg") /\ tick'[w].feePaid = FALSE

NetMove(w) ==
  /\ tick[w].pc = "merchantLeg" /\ UNCHANGED <<dbVars, clerk, manual>>
  /\ KeepsTodo(w) /\ KeepsSplit(w) /\ tick'[w].feePaid = tick[w].feePaid
  /\ GoesTo(w, "recordAdmin")
  /\ \/ /\ MerchantIsPaid(tick[w].link, tick[w].net) /\ Calm /\ tick'[w].netPaid = TRUE
     \/ /\ MerchantIsPaid(tick[w].link, tick[w].net) /\ Strikes("lost") /\ tick'[w].netPaid = FALSE
     \/ /\ UNCHANGED chainVars /\ tick'[w].netPaid = FALSE
        /\ \/ Calm /\ tick[w].net > balance[tick[w].link]
           \/ Strikes("failed")

RecordAdminMove(w) ==
  /\ tick[w].pc = "recordAdmin" /\ UNCHANGED <<status, chainVars, clerk, manual>>
  /\ \/ tick[w].netPaid /\ Moves(w, "recordMerchant")
     \/ ~tick[w].netPaid /\ Moves(w, "next")
  /\ \/ tick[w].feePaid /\ WithdrawBecomes(tick[w].link, "ADMIN_CHARGES") /\ Calm
     \/ tick[w].feePaid /\ UNCHANGED withdraw /\ Strikes("write")
     \/ ~tick[w].feePaid /\ UNCHANGED withdraw /\ Calm

RecordMerchantMove(w) ==
  /\ tick[w].pc = "recordMerchant" /\ UNCHANGED <<chainVars, clerk, manual>>
  /\ Moves(w, "announce")
  /\ \/ /\ StatusBecomes(tick[w].link, "SUCCESS") /\ WithdrawBecomes(tick[w].link, "SUCCESS")
        /\ Calm
     \/ UNCHANGED <<status, withdraw>> /\ Strikes("write")

AnnounceMove(w) ==
  /\ tick[w].pc = "announce" /\ UNCHANGED <<dbVars, chainVars, clerk, manual, happened>>
  /\ Moves(w, "next")

TickMove(w) ==
  \/ StartMove(w) \/ NextMove(w) \/ StopMove(w) \/ ReadMove(w) \/ EstimateMove(w)
  \/ FundGasMove(w) \/ SkipLinkMove(w) \/ RecordGasMove(w) \/ SplitMove(w) \/ SkipFeeMove(w)
  \/ FeeMove(w) \/ NetMove(w) \/ RecordAdminMove(w) \/ RecordMerchantMove(w) \/ AnnounceMove(w)

ClerkGoesTo(c, p) ==
  /\ clerk' \in [Clerks -> ClerkState] /\ clerk'[c].pc = p
  /\ \A b \in Clerks : b # c => clerk'[b] = clerk[b]

OpenMove(c) ==
  /\ clerk[c].pc = "idle" /\ manual' = manual + 1
  /\ UNCHANGED <<dbVars, chainVars, tick, happened>>
  /\ ClerkGoesTo(c, "transfer") /\ clerk'[c].link \in Links

HandMove(c) ==
  LET l == clerk[c].link
      n == clerk[c].amount
  IN
  /\ clerk[c].pc = "transfer" /\ UNCHANGED <<dbVars, tick, manual, happened>>
  /\ \/ /\ ClerkGoesTo(c, "save") /\ clerk'[c].link = l /\ clerk'[c].amount = n
        /\ clerk'[c].request = clerk[c].request
        /\ IF clerk[c].request = "depositTxFee" THEN UNCHANGED chainVars
           ELSE IF clerk[c].request \in ToAdmin THEN AdminIsPaid(l, n)
           ELSE MerchantIsPaid(l, n)
        /\ clerk[c].request \in ToAdmin => n > 0 \/ l \in waived'
     \/ ClerkGoesTo(c, "idle") /\ UNCHANGED chainVars

SaveMove(c) ==
  LET l == clerk[c].link IN
  /\ clerk[c].pc = "save" /\ UNCHANGED <<chainVars, tick, manual, happened>>
  /\ ClerkGoesTo(c, "idle")
  /\ UNCHANGED status \/ StatusBecomes(l, "SUCCESS")
  /\ \/ UNCHANGED withdraw
     \/ WithdrawBecomes(l, "NATIVE_TRANSFER") \/ WithdrawBecomes(l, "SUCCESS")
     \/ WithdrawBecomes(l, "ADMIN_CHARGES") /\ clerk[c].request \in ToAdmin

Kept == UNCHANGED vars

Move ==
  /\ \/ \E w \in Ticks : TickMove(w)
     \/ \E c \in Clerks : OpenMove(c) \/ HandMove(c) \/ SaveMove(c)
     \/ Kept
  /\ waived \subseteq waived'

\* Every fault is one of Faults.
LEMMA FaultEffect ==
  ASSUME TypeOK, NEW k, Fault(k)
  PROVE  faults' \in 0..MaxFaults /\ happened' \subseteq Faults \cup {"overlap"} /\ Strikes(k) /\ waived' \subseteq Links
BY PayoutAssumption DEF TypeOK, Fault, Strikes

\* What the fees and the nets are computed from.
LEMMA ShareFacts ==
  ASSUME TypeOK, NEW l \in Links
  PROVE  /\ Received[l] \in Nat /\ Received[l] > 0 /\ Received[l] \in Amounts
         /\ Payable(l) \in Nat /\ Payable(l) \in Amounts
         /\ Payable(l) <= Received[l] /\ Payable(l) <= balance[l]
         /\ Payable(l) \in {Received[l], balance[l]}
         /\ AdminShare[Received[l]] \in Nat /\ AdminShare[Received[l]] < Received[l]
         /\ Erc20Fee(Payable(l)) \in Nat /\ Erc20Fee(Payable(l)) <= Payable(l)
         /\ Payable(l) > 0 => Erc20Fee(Payable(l)) < Payable(l)
<1>0. Received[l] \in Nat /\ Received[l] > 0 /\ balance[l] \in Nat
  BY PayoutAssumption DEF TypeOK
<1>1. \A n \in 0..Received[l] : n \in Amounts
  BY DEF Amounts
<1>2. /\ Payable(l) \in 0..Received[l] /\ Payable(l) <= balance[l]
      /\ Payable(l) \in {Received[l], balance[l]}
  BY <1>0 DEF Payable
<1>3. Received[l] \in Amounts /\ Payable(l) \in Amounts
  BY <1>0, <1>1, <1>2
<1> HIDE DEF Payable
<1>4. \A n \in Amounts : n \in Nat => AdminShare[n] \in Nat /\ AdminShare[n] <= n /\ (n > 0 => AdminShare[n] < n)
  BY PayoutAssumption
<1>5. \A n \in Amounts : n \in Nat => /\ Erc20Fee(n) \in Nat /\ Erc20Fee(n) <= n
                                      /\ n > 0 => Erc20Fee(n) < n
  BY <1>4 DEF Erc20Fee
<1> QED BY <1>0, <1>2, <1>3, <1>4, <1>5

LEMMA StepIsMove == TypeOK /\ LinksInOrder /\ [Next]_vars => Move /\ TypeOK'
<1> SUFFICES ASSUME TypeOK, LinksInOrder, [Next]_vars PROVE Move /\ TypeOK'
  OBVIOUS
<1> USE DEF dbVars, chainVars, trouble
<1>0. /\ status \in [Links -> Status] /\ withdraw \in [Links -> WithdrawStatus]
      /\ retries \in [Links -> 0..MaxRetries]
      /\ balance \in [Links -> Nat] /\ toMerchant \in [Links -> Nat] /\ toAdmin \in [Links -> Nat]
      /\ tick \in [Ticks -> TickState] /\ clerk \in [Clerks -> ClerkState]
      /\ manual \in 0..MaxManual /\ faults \in 0..MaxFaults
      /\ happened \subseteq Faults \cup {"overlap"} /\ waived \subseteq Links
  BY DEF TypeOK
<1>q. ASSUME status' \in [Links -> Status], withdraw' \in [Links -> WithdrawStatus],
             retries' \in [Links -> 0..MaxRetries],
             balance' \in [Links -> Nat], toMerchant' \in [Links -> Nat], toAdmin' \in [Links -> Nat],
             tick' \in [Ticks -> TickState], clerk' \in [Clerks -> ClerkState],
             manual' \in 0..MaxManual, faults' \in 0..MaxFaults,
             happened' \subseteq Faults \cup {"overlap"}, waived' \subseteq Links
      PROVE  TypeOK'
  BY <1>q DEF TypeOK
<1>l. \A w \in Ticks : tick[w].pc \in Working => tick[w].link \in Links
  BY DEF LinksInOrder
<1>k. \A w \in Ticks : /\ tick[w].pc \in {"idle", "next"} \cup Working
                       /\ tick[w].todo \subseteq Links /\ tick[w].seen \in [Links -> WithdrawStatus]
                       /\ tick[w].fee \in Nat /\ tick[w].net \in Nat
                       /\ tick[w].charged \in BOOLEAN /\ tick[w].feePaid \in BOOLEAN
                       /\ tick[w].netPaid \in BOOLEAN
  BY <1>0 DEF TickState, Working
<1>1. ASSUME NEW w \in Ticks, TickStart(w) PROVE StartMove(w) /\ TypeOK'
  <2>1. GoesTo(w, "next") /\ tick'[w].todo = Selected /\ tick'[w].seen = withdraw
    <3>1. Selected \in SUBSET Links
      BY DEF Selected
    <3>2. tick' = [tick EXCEPT ![w] = [@ EXCEPT !.pc = "next", !.todo = Selected, !.seen = withdraw]]
      BY <1>1 DEF TickStart
    <3> HIDE DEF Selected
    <3> QED BY <1>0, <3>1, <3>2, StartEffect
  <2> QED BY <1>0, <1>1, <1>q, <2>1 DEF TickStart, StartMove, Strikes, Calm, GoesTo
<1>2. ASSUME NEW w \in Ticks, TickNext(w) PROVE NextMove(w) /\ TypeOK'
  <2>1. PICK l \in tick[w].todo :
          /\ retries' = [retries EXCEPT ![l] = IF @ < MaxRetries THEN @ + 1 ELSE @]
          /\ tick' = [tick EXCEPT ![w] = [@ EXCEPT
               !.pc = IF l \in Native THEN "readStatus" ELSE "fundGas",
               !.todo = tick[w].todo \ {l}, !.link = l,
               !.charged = tick[w].seen[l] = "ADMIN_CHARGES",
               !.feePaid = FALSE, !.netPaid = FALSE]]
    BY <1>2 DEF TickNext
  <2>2. l \in Links
    BY <1>k
  <2>3. retries' \in [Links -> 0..MaxRetries]
    BY <1>0, <2>1, <2>2, PayoutAssumption
  <2> DEFINE p == IF l \in Native THEN "readStatus" ELSE "fundGas"
             t == tick[w].todo \ {l}
             a == (tick[w].seen[l] = "ADMIN_CHARGES")
  <2>4. p \in {"readStatus", "fundGas"} /\ t \in SUBSET Links /\ a \in BOOLEAN
    BY <1>k
  <2>5. tick' = [tick EXCEPT ![w] = [@ EXCEPT !.pc = p, !.todo = t, !.link = l, !.charged = a,
                                              !.feePaid = FALSE, !.netPaid = FALSE]]
    BY <2>1
  <2>6. /\ GoesTo(w, p) /\ tick'[w].todo = t /\ tick'[w].seen = tick[w].seen /\ tick'[w].link = l
        /\ tick'[w].charged = a /\ tick'[w].feePaid = FALSE /\ tick'[w].netPaid = FALSE
    <3> DEFINE r == [tick[w] EXCEPT !.pc = p, !.todo = t, !.link = l, !.charged = a,
                                    !.feePaid = FALSE, !.netPaid = FALSE]
    <3>1. tick[w] \in TickState
      BY <1>0
    <3>2. tick' = [tick EXCEPT ![w] = r]
      BY <2>5
    <3> HIDE DEF p, t, a
    <3>3. /\ r.pc = p /\ r.todo = t /\ r.seen = tick[w].seen /\ r.link = l /\ r.charged = a
          /\ r.feePaid = FALSE /\ r.netPaid = FALSE
      BY <3>1 DEF TickState
    <3>4. r \in TickState
      BY <2>2, <2>4, <3>1 DEF TickState
    <3> HIDE DEF r
    <3> QED BY <1>0, <3>2, <3>3, <3>4 DEF GoesTo
  <2>7. NextMove(w)
    BY <1>2, <2>6 DEF TickNext, NextMove
  <2> QED BY <1>0, <1>2, <1>q, <2>3, <2>6, <2>7 DEF TickNext, GoesTo
<1>3. ASSUME NEW w \in Ticks, TickEnd(w) \/ TickAborts(w) PROVE StopMove(w) /\ TypeOK'
  <2>1. GoesTo(w, "idle")
    BY <1>0, <1>3, IdleEffect DEF TickEnd, TickAborts
  <2> QED BY <1>0, <1>3, <1>q, <2>1, FaultEffect DEF TickEnd, TickAborts, StopMove, Calm, GoesTo
<1>4. ASSUME NEW w \in Ticks, ReadStatus(w) PROVE ReadMove(w) /\ TypeOK'
  <2> DEFINE n == Received[tick[w].link]
             f == IF AdminShare[n] < Dust THEN 0 ELSE AdminShare[n]
             m == n - AdminShare[n]
             a == (withdraw[tick[w].link] = "ADMIN_CHARGES")
  <2>1. tick[w].link \in Links
    BY <1>4, <1>l DEF ReadStatus, Working
  <2>2. f \in Nat /\ m \in Nat /\ a \in BOOLEAN
    BY <2>1, ShareFacts
  <2>3. tick' = [tick EXCEPT ![w] = [@ EXCEPT !.pc = "estimate", !.charged = a, !.fee = f, !.net = m]]
    BY <1>4 DEF ReadStatus
  <2>4. /\ GoesTo(w, "estimate") /\ KeepsTodo(w) /\ KeepsNotes(w)
        /\ tick'[w].charged = a /\ tick'[w].fee = f /\ tick'[w].net = m
    <3> HIDE DEF f, m, a
    <3> QED BY <1>0, <2>2, <2>3 DEF TickState, GoesTo, KeepsTodo, KeepsNotes
  <2>5. ReadMove(w)
    BY <1>4, <2>4 DEF ReadStatus, ReadMove
  <2> QED BY <1>0, <1>4, <1>q, <2>4, <2>5 DEF ReadStatus, GoesTo
<1>5. ASSUME NEW w \in Ticks, Estimate(w) PROVE EstimateMove(w) /\ TypeOK'
  <2>1. \/ Coverable(tick[w].link) /\ Moves(w, "adminLeg")
        \/ ~Coverable(tick[w].link) /\ Moves(w, "next")
    <3>1. CASE Coverable(tick[w].link)
      BY <1>0, <1>5, <3>1, MovesEffect DEF Estimate
    <3>2. CASE ~Coverable(tick[w].link)
      BY <1>0, <1>5, <3>2, MovesEffect DEF Estimate
    <3> QED BY <3>1, <3>2
  <2> QED BY <1>0, <1>5, <1>q, <2>1 DEF Estimate, EstimateMove, Moves, GoesTo
<1>6. ASSUME NEW w \in Ticks, FundGas(w) PROVE FundGasMove(w) /\ TypeOK'
  <2>1. \/ tick[w].seen[tick[w].link] = "PENDING" /\ Moves(w, "recordGas")
        \/ tick[w].seen[tick[w].link] # "PENDING" /\ Moves(w, "split")
    <3>1. CASE tick[w].seen[tick[w].link] = "PENDING"
      BY <1>0, <1>6, <3>1, MovesEffect DEF FundGas
    <3>2. CASE tick[w].seen[tick[w].link] # "PENDING"
      BY <1>0, <1>6, <3>2, MovesEffect DEF FundGas
    <3> QED BY <3>1, <3>2
  <2> QED BY <1>0, <1>6, <1>q, <2>1 DEF FundGas, FundGasMove, Moves, GoesTo
<1>7. ASSUME NEW w \in Ticks, SkipLink(w) PROVE SkipLinkMove(w) /\ TypeOK'
  <2>1. Moves(w, "next")
    BY <1>0, <1>7, MovesEffect DEF SkipLink
  <2> QED BY <1>0, <1>7, <1>q, <2>1, FaultEffect DEF SkipLink, SkipLinkMove, Moves, GoesTo
<1>8. ASSUME NEW w \in Ticks, RecordGas(w) PROVE RecordGasMove(w) /\ TypeOK'
  <2>1. Moves(w, "split") /\ tick[w].link \in Links
    BY <1>0, <1>8, <1>l, MovesEffect DEF RecordGas, Working
  <2>2. \/ WithdrawBecomes(tick[w].link, "NATIVE_TRANSFER") /\ UNCHANGED <<status, retries, trouble>>
        \/ UNCHANGED dbVars /\ Fault("write")
    BY <1>0, <1>8, <2>1 DEF RecordGas, Written, WithdrawBecomes, WithdrawStatus
  <2> QED BY <1>0, <1>8, <1>q, <2>1, <2>2, FaultEffect
      DEF RecordGas, RecordGasMove, Moves, GoesTo, WithdrawBecomes, Calm
<1>9. ASSUME NEW w \in Ticks, Split(w) PROVE SplitMove(w) /\ TypeOK'
  <2> DEFINE n == Payable(tick[w].link)
             f == Erc20Fee(n)
             m == n - f
  <2>1. tick[w].link \in Links
    BY <1>9, <1>l DEF Split, Working
  <2>2. f \in Nat /\ m \in Nat
    BY <2>1, ShareFacts
  <2>3. tick' = [tick EXCEPT ![w] = [@ EXCEPT !.pc = "adminLeg", !.fee = f, !.net = m]]
    BY <1>9 DEF Split
  <2>4. /\ GoesTo(w, "adminLeg") /\ KeepsTodo(w) /\ KeepsNotes(w) /\ tick'[w].charged = tick[w].charged
        /\ tick'[w].fee = f /\ tick'[w].net = m
    <3> HIDE DEF f, m
    <3> QED BY <1>0, <2>2, <2>3 DEF TickState, GoesTo, KeepsTodo, KeepsNotes
  <2>5. SplitMove(w)
    BY <1>9, <2>4 DEF Split, SplitMove
  <2> QED BY <1>0, <1>9, <1>q, <2>4, <2>5 DEF Split, GoesTo
<1>10. ASSUME NEW w \in Ticks, SkipAdminLeg(w) PROVE SkipFeeMove(w) /\ TypeOK'
  <2>1. Moves(w, "merchantLeg")
    BY <1>0, <1>10, MovesEffect DEF SkipAdminLeg
  <2> QED BY <1>0, <1>10, <1>q, <2>1 DEF SkipAdminLeg, SkipFeeMove, Moves, GoesTo
<1>11. ASSUME NEW w \in Ticks, AdminLeg(w) PROVE FeeMove(w) /\ TypeOK'
  <2> DEFINE l == tick[w].link
             Rest == KeepsTodo(w) /\ KeepsSplit(w) /\ tick'[w].netPaid = tick[w].netPaid
             Goto(p, b) == tick' = [tick EXCEPT ![w] = [@ EXCEPT !.pc = p, !.feePaid = b]]
  <2>1. ASSUME NEW p \in {"next", "merchantLeg"}, NEW b \in BOOLEAN, Goto(p, b)
        PROVE  GoesTo(w, p) /\ Rest /\ tick'[w].feePaid = b
    BY <1>0, <2>1 DEF TickState, GoesTo, KeepsTodo, KeepsSplit
  <2>2. l \in Links /\ tick[w].fee \in Nat
    BY <1>11, <1>l, <1>k DEF AdminLeg, Working
  <2>3. PayAdmin(l, tick[w].fee) => AdminIsPaid(l, tick[w].fee)
    BY <1>0, <2>2, PaymentEffect
  <2>4. /\ tick[w].pc = "adminLeg" /\ FeeIsDue(w) /\ UNCHANGED <<dbVars, clerk, manual>>
        /\ \/ PayAdmin(l, tick[w].fee) /\ Goto("merchantLeg", TRUE) /\ UNCHANGED trouble
           \/ PayAdmin(l, tick[w].fee) /\ Fault("lost") /\ Goto("next", FALSE)
           \/ /\ UNCHANGED chainVars /\ Goto("next", FALSE)
              /\ (tick[w].fee > balance[l] /\ UNCHANGED trouble) \/ Fault("failed")
           \/ l \notin Native /\ Fault("reverted") /\ UNCHANGED chainVars /\ Goto("merchantLeg", FALSE)
    BY <1>11 DEF AdminLeg
  <2> HIDE DEF Goto
  <2>5. CASE PayAdmin(l, tick[w].fee) /\ Goto("merchantLeg", TRUE) /\ UNCHANGED trouble
    BY <1>0, <1>q, <2>1, <2>3, <2>4, <2>5 DEF FeeMove, AdminIsPaid, Calm, GoesTo
  <2>6. CASE PayAdmin(l, tick[w].fee) /\ Fault("lost") /\ Goto("next", FALSE)
    BY <1>0, <1>q, <2>1, <2>3, <2>4, <2>6, FaultEffect DEF FeeMove, AdminIsPaid, GoesTo
  <2>7. CASE /\ UNCHANGED chainVars /\ Goto("next", FALSE)
             /\ (tick[w].fee > balance[l] /\ UNCHANGED trouble) \/ Fault("failed")
    BY <1>0, <1>q, <2>1, <2>4, <2>7, FaultEffect DEF FeeMove, Calm, GoesTo
  <2>8. CASE l \notin Native /\ Fault("reverted") /\ UNCHANGED chainVars /\ Goto("merchantLeg", FALSE)
    BY <1>0, <1>q, <2>1, <2>4, <2>8, FaultEffect DEF FeeMove, GoesTo
  <2> QED BY <2>4, <2>5, <2>6, <2>7, <2>8
<1>12. ASSUME NEW w \in Ticks, MerchantLeg(w) PROVE NetMove(w) /\ TypeOK'
  <2> DEFINE l == tick[w].link
             Rest == KeepsTodo(w) /\ KeepsSplit(w) /\ tick'[w].feePaid = tick[w].feePaid
             Goto(b) == tick' = [tick EXCEPT ![w] = [@ EXCEPT !.pc = "recordAdmin", !.netPaid = b]]
  <2>1. ASSUME NEW b \in BOOLEAN, Goto(b)
        PROVE  GoesTo(w, "recordAdmin") /\ Rest /\ tick'[w].netPaid = b
    BY <1>0, <2>1 DEF TickState, GoesTo, KeepsTodo, KeepsSplit
  <2>2. l \in Links /\ tick[w].net \in Nat
    BY <1>12, <1>l, <1>k DEF MerchantLeg, Working
  <2>3. PayMerchant(l, tick[w].net) => MerchantIsPaid(l, tick[w].net)
    BY <1>0, <2>2, PaymentEffect
  <2>4. /\ tick[w].pc = "merchantLeg" /\ UNCHANGED <<dbVars, clerk, manual>>
        /\ \/ PayMerchant(l, tick[w].net) /\ Goto(TRUE) /\ UNCHANGED trouble
           \/ PayMerchant(l, tick[w].net) /\ Fault("lost") /\ Goto(FALSE)
           \/ /\ UNCHANGED chainVars /\ Goto(FALSE)
              /\ (tick[w].net > balance[l] /\ UNCHANGED trouble) \/ Fault("failed")
    BY <1>12 DEF MerchantLeg
  <2> HIDE DEF Goto
  <2>5. CASE PayMerchant(l, tick[w].net) /\ Goto(TRUE) /\ UNCHANGED trouble
    BY <1>0, <1>q, <2>1, <2>3, <2>4, <2>5 DEF NetMove, MerchantIsPaid, Calm, GoesTo
  <2>6. CASE PayMerchant(l, tick[w].net) /\ Fault("lost") /\ Goto(FALSE)
    BY <1>0, <1>q, <2>1, <2>3, <2>4, <2>6, FaultEffect DEF NetMove, MerchantIsPaid, GoesTo
  <2>7. CASE /\ UNCHANGED chainVars /\ Goto(FALSE)
             /\ (tick[w].net > balance[l] /\ UNCHANGED trouble) \/ Fault("failed")
    BY <1>0, <1>q, <2>1, <2>4, <2>7, FaultEffect DEF NetMove, Calm, GoesTo
  <2> QED BY <2>4, <2>5, <2>6, <2>7
<1>13. ASSUME NEW w \in Ticks, RecordAdmin(w) PROVE RecordAdminMove(w) /\ TypeOK'
  <2>0. tick[w].link \in Links
    BY <1>13, <1>l DEF RecordAdmin, Working
  <2>1. \/ tick[w].netPaid /\ Moves(w, "recordMerchant")
        \/ ~tick[w].netPaid /\ Moves(w, "next")
    <3>1. CASE tick[w].netPaid
      BY <1>0, <1>13, <3>1, MovesEffect DEF RecordAdmin
    <3>2. CASE ~tick[w].netPaid
      BY <1>0, <1>13, <3>2, MovesEffect DEF RecordAdmin
    <3> QED BY <3>1, <3>2
  <2>2. \/ /\ tick[w].feePaid /\ WithdrawBecomes(tick[w].link, "ADMIN_CHARGES")
           /\ UNCHANGED <<status, retries, trouble>>
        \/ tick[w].feePaid /\ UNCHANGED dbVars /\ Fault("write")
        \/ ~tick[w].feePaid /\ UNCHANGED <<dbVars, trouble>>
    BY <1>0, <1>13, <2>0 DEF RecordAdmin, Written, WithdrawBecomes, WithdrawStatus
  <2>3. tick[w].pc = "recordAdmin" /\ UNCHANGED <<chainVars, clerk, manual>>
    BY <1>13 DEF RecordAdmin
  <2> QED BY <1>0, <1>q, <2>1, <2>2, <2>3, FaultEffect
      DEF RecordAdminMove, Moves, GoesTo, WithdrawBecomes, Calm
<1>14. ASSUME NEW w \in Ticks, RecordMerchant(w) PROVE RecordMerchantMove(w) /\ TypeOK'
  <2>0. tick[w].link \in Links
    BY <1>14, <1>l DEF RecordMerchant, Working
  <2>1. Moves(w, "announce")
    BY <1>0, <1>14, MovesEffect DEF RecordMerchant
  <2>2. \/ /\ StatusBecomes(tick[w].link, "SUCCESS") /\ WithdrawBecomes(tick[w].link, "SUCCESS")
           /\ UNCHANGED <<retries, trouble>>
        \/ UNCHANGED dbVars /\ Fault("write")
    BY <1>0, <1>14, <2>0
    DEF RecordMerchant, Written, StatusBecomes, Status, WithdrawBecomes, WithdrawStatus
  <2>3. tick[w].pc = "recordMerchant" /\ UNCHANGED <<chainVars, clerk, manual>>
    BY <1>14 DEF RecordMerchant
  <2> QED BY <1>0, <1>q, <2>1, <2>2, <2>3, FaultEffect
      DEF RecordMerchantMove, Moves, GoesTo, StatusBecomes, WithdrawBecomes, Calm
<1>15. ASSUME NEW w \in Ticks, Announce(w) PROVE AnnounceMove(w) /\ TypeOK'
  <2>1. Moves(w, "next")
    BY <1>0, <1>15, MovesEffect DEF Announce
  <2> QED BY <1>0, <1>15, <1>q, <2>1 DEF Announce, AnnounceMove, Moves, GoesTo
<1>16. ASSUME NEW c \in Clerks, ClerkStart(c) PROVE OpenMove(c) /\ TypeOK'
  <2>1. PICK r \in Request, l \in Links : \E n \in 0..Received[l] :
          clerk' = [clerk EXCEPT ![c] =
            [pc |-> "transfer", request |-> r, link |-> l, amount |-> n,
             sawStatus |-> status[l], sawWithdraw |-> withdraw[l]]]
    BY <1>16 DEF ClerkStart
  <2>2. PICK n \in 0..Received[l] :
          clerk' = [clerk EXCEPT ![c] =
            [pc |-> "transfer", request |-> r, link |-> l, amount |-> n,
             sawStatus |-> status[l], sawWithdraw |-> withdraw[l]]]
    BY <2>1
  <2>3. n \in Nat /\ status[l] \in Status /\ withdraw[l] \in WithdrawStatus
    BY <1>0, <2>2, ShareFacts
  <2>4. ClerkGoesTo(c, "transfer") /\ clerk'[c].link \in Links
    BY <1>0, <2>2, <2>3 DEF ClerkGoesTo, ClerkState
  <2>5. clerk[c].pc = "idle" /\ manual' = manual + 1 /\ manual' \in 0..MaxManual
        /\ UNCHANGED <<dbVars, chainVars, tick, trouble>>
    BY <1>0, <1>16, PayoutAssumption DEF ClerkStart
  <2> QED BY <1>0, <1>q, <2>4, <2>5 DEF OpenMove, ClerkGoesTo
<1>c. \A c \in Clerks : /\ clerk[c].pc # "idle" => clerk[c].link \in Links
                        /\ clerk[c].amount \in Nat /\ clerk[c].request \in Request
                        /\ clerk[c].sawStatus \in Status /\ clerk[c].sawWithdraw \in WithdrawStatus
  BY <1>0 DEF LinksInOrder, ClerkState
<1>i. ASSUME NEW c \in Clerks, clerk' = [clerk EXCEPT ![c] = IdleClerk] PROVE ClerkGoesTo(c, "idle")
  BY <1>0, <1>i DEF ClerkGoesTo, ClerkState, IdleClerk, Request, Status, WithdrawStatus
<1>17. ASSUME NEW c \in Clerks, ClerkTransfer(c) PROVE HandMove(c) /\ TypeOK'
  <2> DEFINE l == clerk[c].link
             n == clerk[c].amount
  <2>1. clerk[c].pc = "transfer" /\ l \in Links /\ n \in Nat /\ UNCHANGED <<dbVars, tick, manual, faults, happened>>
        /\ waived' \subseteq Links
    BY <1>0, <1>17, <1>c DEF ClerkTransfer
  <2>2. CASE clerk' = [clerk EXCEPT ![c] = IdleClerk] /\ UNCHANGED chainVars
    BY <1>0, <1>q, <1>i, <2>1, <2>2 DEF HandMove, ClerkGoesTo
  <2>3. CASE /\ clerk' = [clerk EXCEPT ![c].pc = "save"]
             /\ CASE clerk[c].request = "depositTxFee" -> UNCHANGED chainVars
                  [] clerk[c].request \in ToAdmin -> PayAdmin(l, n)
                  [] OTHER -> PayMerchant(l, n)
             /\ waived' = IF clerk[c].request \in ToAdmin /\ n = 0 THEN waived \cup {l} ELSE waived
    <3>1. /\ ClerkGoesTo(c, "save") /\ clerk'[c].link = l /\ clerk'[c].amount = n
          /\ clerk'[c].request = clerk[c].request
      BY <1>0, <2>3 DEF ClerkGoesTo, ClerkState
    <3>2. IF clerk[c].request = "depositTxFee" THEN UNCHANGED chainVars
          ELSE IF clerk[c].request \in ToAdmin THEN AdminIsPaid(l, n)
          ELSE MerchantIsPaid(l, n)
      BY <1>0, <2>1, <2>3, PaymentEffect DEF ToAdmin
    <3>4. clerk[c].request \in ToAdmin => n > 0 \/ l \in waived'
      BY <2>1, <2>3
    <3>3. balance' \in [Links -> Nat] /\ toMerchant' \in [Links -> Nat] /\ toAdmin' \in [Links -> Nat]
      BY <1>0, <3>2 DEF AdminIsPaid, MerchantIsPaid
    <3> QED BY <1>0, <1>q, <2>1, <3>1, <3>2, <3>3, <3>4 DEF HandMove, ClerkGoesTo
  <2> QED BY <1>17, <2>2, <2>3 DEF ClerkTransfer
<1>18. ASSUME NEW c \in Clerks, ClerkSave(c) PROVE SaveMove(c) /\ TypeOK'
  <2> DEFINE k == clerk[c]
             l == k.link
             s == IF NewStatus(k) = k.sawStatus THEN status[l] ELSE NewStatus(k)
             u == IF NewWithdraw(k) = k.sawWithdraw THEN withdraw[l] ELSE NewWithdraw(k)
  <2>1. clerk[c].pc = "save" /\ l \in Links /\ UNCHANGED <<retries, chainVars, tick, manual, trouble>>
        /\ ClerkGoesTo(c, "idle")
    BY <1>18, <1>c, <1>i DEF ClerkSave
  <2>2. /\ status' = [status EXCEPT ![l] = s]
        /\ withdraw' = [withdraw EXCEPT ![l] = u]
    BY <1>0, <1>18, <2>1 DEF ClerkSave
  <2>3. s \in {status[l], "SUCCESS"}
    BY DEF NewStatus
  <2>4. \/ u \in {withdraw[l], "NATIVE_TRANSFER", "SUCCESS"}
        \/ u = "ADMIN_CHARGES" /\ k.request \in ToAdmin
    BY <1>c DEF NewWithdraw, Request, ToAdmin
  <2> HIDE DEF s, u
  <2>5. UNCHANGED status \/ StatusBecomes(l, "SUCCESS")
    BY <1>0, <2>1, <2>2, <2>3 DEF StatusBecomes, Status
  <2>6. \/ UNCHANGED withdraw
        \/ WithdrawBecomes(l, "NATIVE_TRANSFER") \/ WithdrawBecomes(l, "SUCCESS")
        \/ WithdrawBecomes(l, "ADMIN_CHARGES") /\ clerk[c].request \in ToAdmin
    BY <1>0, <2>1, <2>2, <2>4 DEF WithdrawBecomes, WithdrawStatus
  <2>7. status' \in [Links -> Status] /\ withdraw' \in [Links -> WithdrawStatus]
    BY <1>0, <2>5, <2>6 DEF StatusBecomes, WithdrawBecomes
  <2> QED BY <1>0, <1>q, <2>1, <2>5, <2>6, <2>7 DEF SaveMove, ClerkGoesTo
<1>19. CASE UNCHANGED vars
  BY <1>0, <1>19, <1>q DEF vars, Move, Kept
<1>20. waived \subseteq waived'
  BY DEF Next, TickStep, vars, Fault, Written, TickStart, TickNext, TickEnd, ReadStatus, Estimate, FundGas,
    RecordGas, Split, SkipAdminLeg, AdminLeg, MerchantLeg, RecordAdmin, RecordMerchant, Announce,
    SkipLink, TickAborts, ClerkStart, ClerkTransfer, ClerkSave
<1> QED BY <1>1, <1>2, <1>3, <1>4, <1>5, <1>6, <1>7, <1>8, <1>9, <1>10, <1>11, <1>12, <1>13, <1>14,
           <1>15, <1>16, <1>17, <1>18, <1>19, <1>20 DEF Next, TickStep, Move, TickMove
-----------------------------------------------------------------------------
(* Each part of the invariant is kept.                                     *)

\* The fields of a tick and of an admin request.
LEMMA FieldTypes ==
  ASSUME TypeOK
  PROVE  /\ \A w \in Ticks :
              /\ tick[w].pc \in {"idle", "next"} \cup Working
              /\ tick[w].todo \subseteq Links /\ tick[w].seen \in [Links -> WithdrawStatus]
              /\ tick[w].fee \in Nat /\ tick[w].net \in Nat
              /\ tick[w].charged \in BOOLEAN /\ tick[w].feePaid \in BOOLEAN
              /\ tick[w].netPaid \in BOOLEAN
         /\ \A c \in Clerks : clerk[c].pc \in {"idle", "transfer", "save"} /\ clerk[c].amount \in Nat
         /\ \A l \in Links : /\ balance[l] \in Nat /\ toMerchant[l] \in Nat /\ toAdmin[l] \in Nat
                             /\ status[l] \in Status /\ withdraw[l] \in WithdrawStatus
BY DEF TypeOK, TickState, ClerkState, Working

LEMMA LinksInOrderKept == TypeOK /\ TypeOK' /\ LinksInOrder /\ Move => LinksInOrder'
<1> SUFFICES ASSUME TypeOK, TypeOK', LinksInOrder, Move PROVE LinksInOrder'
  OBVIOUS
<1> USE FieldTypes DEF LinksInOrder, Working
<1>1. ASSUME NEW w \in Ticks, StartMove(w) PROVE LinksInOrder'
  BY <1>1, PayoutAssumption
  DEF StartMove, GoesTo, Moves, KeepsTodo, KeepsNotes
<1>2. ASSUME NEW w \in Ticks, NextMove(w) PROVE LinksInOrder'
  BY <1>2, PayoutAssumption
  DEF NextMove, GoesTo, Moves, KeepsTodo, KeepsNotes
<1>3. ASSUME NEW w \in Ticks, StopMove(w) PROVE LinksInOrder'
  BY <1>3, PayoutAssumption
  DEF StopMove, GoesTo, Moves, KeepsTodo, KeepsNotes
<1>4. ASSUME NEW w \in Ticks, ReadMove(w) PROVE LinksInOrder'
  BY <1>4, PayoutAssumption
  DEF ReadMove, GoesTo, Moves, KeepsTodo, KeepsNotes
<1>5. ASSUME NEW w \in Ticks, EstimateMove(w) PROVE LinksInOrder'
  BY <1>5, PayoutAssumption
  DEF EstimateMove, GoesTo, Moves, KeepsTodo, KeepsNotes
<1>6. ASSUME NEW w \in Ticks, FundGasMove(w) PROVE LinksInOrder'
  BY <1>6, PayoutAssumption
  DEF FundGasMove, GoesTo, Moves, KeepsTodo, KeepsNotes
<1>7. ASSUME NEW w \in Ticks, SkipLinkMove(w) PROVE LinksInOrder'
  BY <1>7, PayoutAssumption
  DEF SkipLinkMove, GoesTo, Moves, KeepsTodo, KeepsNotes
<1>8. ASSUME NEW w \in Ticks, RecordGasMove(w) PROVE LinksInOrder'
  BY <1>8, PayoutAssumption
  DEF RecordGasMove, GoesTo, Moves, KeepsTodo, KeepsNotes
<1>9. ASSUME NEW w \in Ticks, SplitMove(w) PROVE LinksInOrder'
  BY <1>9, PayoutAssumption
  DEF SplitMove, GoesTo, Moves, KeepsTodo, KeepsNotes
<1>10. ASSUME NEW w \in Ticks, SkipFeeMove(w) PROVE LinksInOrder'
  BY <1>10, PayoutAssumption
  DEF SkipFeeMove, GoesTo, Moves, KeepsTodo, KeepsNotes
<1>11. ASSUME NEW w \in Ticks, FeeMove(w) PROVE LinksInOrder'
  BY <1>11, PayoutAssumption
  DEF FeeMove, GoesTo, Moves, KeepsTodo, KeepsNotes
<1>12. ASSUME NEW w \in Ticks, NetMove(w) PROVE LinksInOrder'
  BY <1>12, PayoutAssumption
  DEF NetMove, GoesTo, Moves, KeepsTodo, KeepsNotes
<1>13. ASSUME NEW w \in Ticks, RecordAdminMove(w) PROVE LinksInOrder'
  BY <1>13, PayoutAssumption
  DEF RecordAdminMove, GoesTo, Moves, KeepsTodo, KeepsNotes
<1>14. ASSUME NEW w \in Ticks, RecordMerchantMove(w) PROVE LinksInOrder'
  BY <1>14, PayoutAssumption
  DEF RecordMerchantMove, GoesTo, Moves, KeepsTodo, KeepsNotes
<1>15. ASSUME NEW w \in Ticks, AnnounceMove(w) PROVE LinksInOrder'
  BY <1>15, PayoutAssumption
  DEF AnnounceMove, GoesTo, Moves, KeepsTodo, KeepsNotes
<1>16. ASSUME NEW c \in Clerks, OpenMove(c) \/ HandMove(c) \/ SaveMove(c) PROVE LinksInOrder'
  BY <1>16 DEF OpenMove, HandMove, SaveMove, ClerkGoesTo
<1>17. CASE Kept
  BY <1>17 DEF Kept, vars
<1> QED BY <1>1, <1>2, <1>3, <1>4, <1>5, <1>6, <1>7, <1>8, <1>9, <1>10, <1>11, <1>12, <1>13, <1>14,
           <1>15, <1>16, <1>17 DEF Move, TickMove

\* The accounts of a link in one step: most steps leave them alone.
Pays(l, n) == AdminIsPaid(l, n) \/ MerchantIsPaid(l, n)
ChainStep == \/ UNCHANGED chainVars
             \/ \E l \in Links, n \in Nat : Pays(l, n)

LEMMA ChainSteps == TypeOK /\ LinksInOrder /\ Move => ChainStep
<1> SUFFICES ASSUME TypeOK, LinksInOrder, Move PROVE ChainStep
  OBVIOUS
<1> USE FieldTypes DEF chainVars
<1>1. ASSUME NEW w \in Ticks, FeeMove(w) \/ NetMove(w) PROVE ChainStep
  <2>1. tick[w].link \in Links
    BY <1>1 DEF FeeMove, NetMove, LinksInOrder, Working
  <2> QED BY <1>1, <2>1 DEF FeeMove, NetMove, ChainStep, Pays
<1>2. ASSUME NEW c \in Clerks, HandMove(c) PROVE ChainStep
  <2>1. clerk[c].link \in Links
    BY <1>2 DEF HandMove, LinksInOrder
  <2> QED BY <1>2, <2>1 DEF HandMove, ChainStep, Pays
<1> QED BY <1>1, <1>2 DEF Move, TickMove, ChainStep, StartMove, NextMove, StopMove, ReadMove,
        EstimateMove, FundGasMove, SkipLinkMove, RecordGasMove, SplitMove, SkipFeeMove,
        RecordAdminMove, RecordMerchantMove, AnnounceMove, OpenMove, SaveMove, Kept, vars

\* Nothing that has been paid comes back.
LEMMA ChainKept ==
  ASSUME TypeOK, ChainStep
  PROVE  /\ Conserved => Conserved'
         /\ \A l \in Links : /\ toAdmin[l] <= toAdmin'[l] /\ toMerchant[l] <= toMerchant'[l]
                             /\ balance'[l] <= balance[l]
<1> USE FieldTypes
<1>1. CASE UNCHANGED chainVars
  BY <1>1, PayoutAssumption DEF chainVars, Conserved
<1>2. ASSUME NEW l \in Links, NEW n \in Nat, Pays(l, n)
      PROVE  /\ Conserved => Conserved'
             /\ \A k \in Links : /\ toAdmin[k] <= toAdmin'[k] /\ toMerchant[k] <= toMerchant'[k]
                                 /\ balance'[k] <= balance[k]
  BY <1>2, PayoutAssumption DEF Pays, AdminIsPaid, MerchantIsPaid, Conserved
<1> QED BY <1>1, <1>2 DEF ChainStep

LEMMA NoClerksKept == TypeOK /\ NoClerks /\ Move => NoClerks'
<1> SUFFICES ASSUME TypeOK, NoClerks, Move PROVE NoClerks'
  OBVIOUS
<1>1. UNCHANGED <<clerk, manual>> => NoClerks'
  BY DEF NoClerks
<1>2. ASSUME NEW c \in Clerks, OpenMove(c) \/ HandMove(c) \/ SaveMove(c) PROVE NoClerks'
  BY <1>2 DEF OpenMove, HandMove, SaveMove, NoClerks, TypeOK
<1> QED BY <1>1, <1>2 DEF Move, TickMove, StartMove, NextMove, StopMove, ReadMove,
        EstimateMove, FundGasMove, SkipLinkMove, RecordGasMove, SplitMove, SkipFeeMove, FeeMove, NetMove,
        RecordAdminMove, RecordMerchantMove, AnnounceMove, Kept, vars

LEMMA FeeNotedKept == TypeOK /\ TypeOK' /\ LinksInOrder /\ FeeNoted /\ Move => FeeNoted'
<1> SUFFICES ASSUME TypeOK, TypeOK', LinksInOrder, FeeNoted, Move PROVE FeeNoted'
  OBVIOUS
<1>a. \A l \in Links : toAdmin[l] \in Nat /\ toAdmin'[l] \in Nat /\ toAdmin[l] <= toAdmin'[l]
  BY ChainSteps, ChainKept DEF TypeOK
<1>d. /\ waived \subseteq waived'
      /\ \A l \in Links : FeeSettled(l) => FeeSettled(l)'
  BY <1>a DEF Move, FeeSettled
<1>b. /\ \A w \in Ticks : tick[w].pc \in Working => tick[w].link \in Links
      /\ \A c \in Clerks : clerk[c].pc # "idle" => clerk[c].link \in Links
  BY DEF LinksInOrder
<1>c. \A w \in Ticks : tick[w].pc = "adminLeg" => ~tick[w].feePaid
  BY DEF LinksInOrder, Working
<1> USE FieldTypes DEF FeeNoted, FeeSettled
<1>1. ASSUME NEW w \in Ticks, StartMove(w) PROVE FeeNoted'
  BY <1>1, <1>a, <1>b, <1>c, <1>d
  DEF StartMove, GoesTo, Moves, KeepsTodo, KeepsNotes, AdminIsPaid, FeeIsDue, WithdrawBecomes, StatusBecomes, Working, dbVars
<1>2. ASSUME NEW w \in Ticks, NextMove(w) PROVE FeeNoted'
  BY <1>2, <1>a, <1>b, <1>c, <1>d
  DEF NextMove, GoesTo, Moves, KeepsTodo, KeepsNotes, AdminIsPaid, FeeIsDue, WithdrawBecomes, StatusBecomes, Working, dbVars
<1>3. ASSUME NEW w \in Ticks, StopMove(w) PROVE FeeNoted'
  BY <1>3, <1>a, <1>b, <1>c, <1>d
  DEF StopMove, GoesTo, Moves, KeepsTodo, KeepsNotes, AdminIsPaid, FeeIsDue, WithdrawBecomes, StatusBecomes, Working, dbVars
<1>4. ASSUME NEW w \in Ticks, ReadMove(w) PROVE FeeNoted'
  BY <1>4, <1>a, <1>b, <1>c, <1>d
  DEF ReadMove, GoesTo, Moves, KeepsTodo, KeepsNotes, AdminIsPaid, FeeIsDue, WithdrawBecomes, StatusBecomes, Working, dbVars
<1>5. ASSUME NEW w \in Ticks, EstimateMove(w) PROVE FeeNoted'
  BY <1>5, <1>a, <1>b, <1>c, <1>d
  DEF EstimateMove, GoesTo, Moves, KeepsTodo, KeepsNotes, AdminIsPaid, FeeIsDue, WithdrawBecomes, StatusBecomes, Working, dbVars
<1>6. ASSUME NEW w \in Ticks, FundGasMove(w) PROVE FeeNoted'
  BY <1>6, <1>a, <1>b, <1>c, <1>d
  DEF FundGasMove, GoesTo, Moves, KeepsTodo, KeepsNotes, AdminIsPaid, FeeIsDue, WithdrawBecomes, StatusBecomes, Working, dbVars
<1>7. ASSUME NEW w \in Ticks, SkipLinkMove(w) PROVE FeeNoted'
  BY <1>7, <1>a, <1>b, <1>c, <1>d
  DEF SkipLinkMove, GoesTo, Moves, KeepsTodo, KeepsNotes, AdminIsPaid, FeeIsDue, WithdrawBecomes, StatusBecomes, Working, dbVars
<1>8. ASSUME NEW w \in Ticks, RecordGasMove(w) PROVE FeeNoted'
  BY <1>8, <1>a, <1>b, <1>c, <1>d
  DEF RecordGasMove, GoesTo, Moves, KeepsTodo, KeepsNotes, AdminIsPaid, FeeIsDue, WithdrawBecomes, StatusBecomes, Working, dbVars
<1>9. ASSUME NEW w \in Ticks, SplitMove(w) PROVE FeeNoted'
  BY <1>9, <1>a, <1>b, <1>c, <1>d
  DEF SplitMove, GoesTo, Moves, KeepsTodo, KeepsNotes, AdminIsPaid, FeeIsDue, WithdrawBecomes, StatusBecomes, Working, dbVars
<1>10. ASSUME NEW w \in Ticks, SkipFeeMove(w) PROVE FeeNoted'
  BY <1>10, <1>a, <1>b, <1>c, <1>d
  DEF SkipFeeMove, GoesTo, Moves, KeepsTodo, KeepsNotes, AdminIsPaid, FeeIsDue, WithdrawBecomes, StatusBecomes, Working, dbVars
<1>11. ASSUME NEW w \in Ticks, FeeMove(w) PROVE FeeNoted'
  BY <1>11, <1>a, <1>b, <1>c, <1>d
  DEF FeeMove, GoesTo, Moves, KeepsTodo, KeepsNotes, AdminIsPaid, FeeIsDue, WithdrawBecomes, StatusBecomes, Working, dbVars
<1>12. ASSUME NEW w \in Ticks, NetMove(w) PROVE FeeNoted'
  BY <1>12, <1>a, <1>b, <1>c, <1>d
  DEF NetMove, GoesTo, Moves, KeepsTodo, KeepsNotes, AdminIsPaid, FeeIsDue, WithdrawBecomes, StatusBecomes, Working, dbVars
<1>13. ASSUME NEW w \in Ticks, RecordAdminMove(w) PROVE FeeNoted'
  BY <1>13, <1>a, <1>b, <1>c, <1>d
  DEF RecordAdminMove, GoesTo, Moves, KeepsTodo, KeepsNotes, AdminIsPaid, FeeIsDue, WithdrawBecomes, StatusBecomes, Working, dbVars
<1>14. ASSUME NEW w \in Ticks, RecordMerchantMove(w) PROVE FeeNoted'
  BY <1>14, <1>a, <1>b, <1>c, <1>d
  DEF RecordMerchantMove, GoesTo, Moves, KeepsTodo, KeepsNotes, AdminIsPaid, FeeIsDue, WithdrawBecomes, StatusBecomes, Working, dbVars
<1>15. ASSUME NEW w \in Ticks, AnnounceMove(w) PROVE FeeNoted'
  BY <1>15, <1>a, <1>b, <1>c, <1>d
  DEF AnnounceMove, GoesTo, Moves, KeepsTodo, KeepsNotes, AdminIsPaid, FeeIsDue, WithdrawBecomes, StatusBecomes, Working, dbVars
<1>16. ASSUME NEW c \in Clerks, OpenMove(c) \/ HandMove(c) \/ SaveMove(c) PROVE FeeNoted'
  <2>1. CASE OpenMove(c)
    BY <1>a, <1>b, <1>d, <2>1 DEF OpenMove, ClerkGoesTo, dbVars, chainVars
  <2>2. CASE HandMove(c)
    BY <1>a, <1>b, <1>d, <2>2 DEF HandMove, ClerkGoesTo, AdminIsPaid, ToAdmin, Working, dbVars
  <2>3. CASE SaveMove(c)
    BY <1>a, <1>b, <1>d, <2>3 DEF SaveMove, ClerkGoesTo, WithdrawBecomes, Working
  <2> QED BY <1>16, <2>1, <2>2, <2>3
<1>17. CASE Kept
  BY <1>17 DEF Kept, vars, dbVars, chainVars, trouble
<1> QED BY <1>1, <1>2, <1>3, <1>4, <1>5, <1>6, <1>7, <1>8, <1>9, <1>10, <1>11, <1>12, <1>13, <1>14,
           <1>15, <1>16, <1>17 DEF Move, TickMove

\* What has been spent stays spent.
LEMMA SpentStays ==
  ASSUME TypeOK, TypeOK', LinksInOrder, Move, NEW l \in Links, Spent(l)
  PROVE  Spent(l)'
<1>1. \A k \in Links : /\ toMerchant[k] \in Nat /\ toMerchant'[k] \in Nat /\ toMerchant[k] <= toMerchant'[k]
                       /\ balance[k] \in Nat /\ balance'[k] \in Nat /\ balance'[k] <= balance[k]
  BY ChainSteps, ChainKept DEF TypeOK
<1>2. happened \subseteq happened'
  BY DEF Move, TickMove, Strikes, Calm, StartMove, NextMove, StopMove, ReadMove,
        EstimateMove, FundGasMove, SkipLinkMove, RecordGasMove, SplitMove, SkipFeeMove, FeeMove, NetMove,
        RecordAdminMove, RecordMerchantMove, AnnounceMove, OpenMove, HandMove, SaveMove, Kept, vars, trouble
<1> QED BY <1>1, <1>2 DEF Spent

LEMMA NetNotedKept ==
  TypeOK /\ TypeOK' /\ LinksInOrder /\ NoClerks /\ Alone /\ NetNoted /\ Move => NetNoted'
<1> SUFFICES ASSUME TypeOK, TypeOK', LinksInOrder, NoClerks, Alone, NetNoted, Move, manual' = 0
             PROVE  NetNoted'
  BY DEF NetNoted
<1>a. \A l \in Links : Spent(l) => Spent(l)'
  BY SpentStays
<1>b. \A w \in Ticks : tick[w].pc \in Working => tick[w].link \in Links
  BY DEF LinksInOrder
<1>d. manual = 0
  <2>1. manual' = manual \/ manual' = manual + 1
    BY DEF Move, TickMove, StartMove, NextMove, StopMove, ReadMove,
        EstimateMove, FundGasMove, SkipLinkMove, RecordGasMove, SplitMove, SkipFeeMove, FeeMove, NetMove,
        RecordAdminMove, RecordMerchantMove, AnnounceMove, OpenMove, HandMove, SaveMove, Kept, vars
  <2> QED BY <2>1, PayoutAssumption DEF TypeOK
<1>e. /\ \A l \in Links : status[l] = "SUCCESS" => Spent(l)
      /\ \A l \in Links : withdraw[l] = "SUCCESS" => status[l] = "SUCCESS"
      /\ \A w \in Ticks :
         /\ tick[w].pc \in {"estimate", "adminLeg", "merchantLeg"} /\ tick[w].net = 0 => Spent(tick[w].link)
         /\ tick[w].pc \in {"recordAdmin", "recordMerchant"} /\ tick[w].netPaid => Spent(tick[w].link)
         /\ tick[w].pc = "recordMerchant" => tick[w].netPaid
  BY <1>d DEF NetNoted
<1> USE FieldTypes
\* Where only the notes of one tick and the database matter.
<1> DEFINE Later(l) == \/ toMerchant'[l] > 0
                       \/ l \notin Native /\ "overlap" \in happened' /\ balance'[l] = 0
           Books == /\ \A l \in Links : status'[l] = "SUCCESS" => status[l] = "SUCCESS" \/ Spent(l)
                    /\ \A l \in Links : withdraw'[l] = "SUCCESS" => status'[l] = "SUCCESS"
           Notes == \A w \in Ticks :
                    /\ tick'[w].pc \in {"estimate", "adminLeg", "merchantLeg"} /\ tick'[w].net = 0 =>
                         tick'[w].link \in Links /\ Later(tick'[w].link)
                    /\ tick'[w].pc \in {"recordAdmin", "recordMerchant"} /\ tick'[w].netPaid =>
                         tick'[w].link \in Links /\ Later(tick'[w].link)
                    /\ tick'[w].pc = "recordMerchant" => tick'[w].netPaid
<1>g. \A l \in Links : Spent(l) => Later(l)
  BY <1>a DEF Spent
<1>f. SUFFICES Books /\ Notes
  BY <1>a, <1>e, <1>g DEF NetNoted, Spent
<1> HIDE DEF Later
<1>1. ASSUME NEW w \in Ticks, StartMove(w) PROVE Books /\ Notes
  BY <1>1, <1>g, <1>b, <1>e
  DEF StartMove, GoesTo, Moves, KeepsTodo, KeepsSplit, KeepsNotes, WithdrawBecomes, StatusBecomes, Working, dbVars
<1>2. ASSUME NEW w \in Ticks, NextMove(w) PROVE Books /\ Notes
  BY <1>2, <1>g, <1>b, <1>e
  DEF NextMove, GoesTo, Moves, KeepsTodo, KeepsSplit, KeepsNotes, WithdrawBecomes, StatusBecomes, Working, dbVars
<1>3. ASSUME NEW w \in Ticks, StopMove(w) PROVE Books /\ Notes
  BY <1>3, <1>g, <1>b, <1>e
  DEF StopMove, GoesTo, Moves, KeepsTodo, KeepsSplit, KeepsNotes, WithdrawBecomes, StatusBecomes, Working, dbVars
<1>4. ASSUME NEW w \in Ticks, ReadMove(w) PROVE Books /\ Notes
  <2>1. tick[w].link \in Links /\ tick'[w].net > 0
    BY <1>4, <1>b, ShareFacts DEF ReadMove, Working
  <2> QED BY <1>4, <1>g, <1>b, <1>e, <2>1 DEF ReadMove, GoesTo, Working, dbVars
<1>5. ASSUME NEW w \in Ticks, EstimateMove(w) PROVE Books /\ Notes
  BY <1>5, <1>g, <1>b, <1>e
  DEF EstimateMove, GoesTo, Moves, KeepsTodo, KeepsSplit, KeepsNotes, WithdrawBecomes, StatusBecomes, Working, dbVars
<1>6. ASSUME NEW w \in Ticks, FundGasMove(w) PROVE Books /\ Notes
  BY <1>6, <1>g, <1>b, <1>e
  DEF FundGasMove, GoesTo, Moves, KeepsTodo, KeepsSplit, KeepsNotes, WithdrawBecomes, StatusBecomes, Working, dbVars
<1>7. ASSUME NEW w \in Ticks, SkipLinkMove(w) PROVE Books /\ Notes
  BY <1>7, <1>g, <1>b, <1>e
  DEF SkipLinkMove, GoesTo, Moves, KeepsTodo, KeepsSplit, KeepsNotes, WithdrawBecomes, StatusBecomes, Working, dbVars
<1>8. ASSUME NEW w \in Ticks, RecordGasMove(w) PROVE Books /\ Notes
  BY <1>8, <1>g, <1>b, <1>e
  DEF RecordGasMove, GoesTo, Moves, KeepsTodo, KeepsSplit, KeepsNotes, WithdrawBecomes, StatusBecomes, Working, dbVars
<1>9. ASSUME NEW w \in Ticks, SplitMove(w) PROVE Books /\ Notes
  <2> DEFINE l == tick[w].link
  <2>1. l \in Links /\ l \notin Native /\ tick'[w].link = l /\ tick'[w].net = Payable(l) - Erc20Fee(Payable(l))
    BY <1>9, <1>b DEF SplitMove, KeepsTodo, LinksInOrder, Working
  <2>2. tick'[w].net = 0 => balance[l] = 0
    BY <2>1, ShareFacts
  <2>3. balance[l] = 0 => Spent(l)
    BY <1>d, <2>1 DEF Alone, Spent
  <2> QED BY <1>9, <1>g, <1>b, <1>e, <2>1, <2>2, <2>3 DEF SplitMove, GoesTo, Working, dbVars
<1>10. ASSUME NEW w \in Ticks, SkipFeeMove(w) PROVE Books /\ Notes
  BY <1>10, <1>g, <1>b, <1>e
  DEF SkipFeeMove, GoesTo, Moves, KeepsTodo, KeepsSplit, KeepsNotes, WithdrawBecomes, StatusBecomes, Working, dbVars
<1>11. ASSUME NEW w \in Ticks, FeeMove(w) PROVE Books /\ Notes
  BY <1>11, <1>g, <1>b, <1>e
  DEF FeeMove, GoesTo, Moves, KeepsTodo, KeepsSplit, KeepsNotes, WithdrawBecomes, StatusBecomes, Working, dbVars
<1>12. ASSUME NEW w \in Ticks, NetMove(w) PROVE Books /\ Notes
  <2> DEFINE l == tick[w].link
  <2>1. l \in Links /\ tick'[w].link = l
    BY <1>12, <1>b DEF NetMove, KeepsTodo, Working
  <2>2. tick'[w].netPaid => toMerchant'[l] > 0 \/ tick[w].net = 0
    BY <1>12, <2>1 DEF NetMove, MerchantIsPaid
  <2>3. tick'[w].netPaid => Later(l)
    BY <1>12, <1>g, <1>e, <2>1, <2>2 DEF NetMove, Working, Later
  <2> QED BY <1>12, <1>g, <1>b, <1>e, <2>1, <2>3 DEF NetMove, GoesTo, Working, dbVars
<1>13. ASSUME NEW w \in Ticks, RecordAdminMove(w) PROVE Books /\ Notes
  BY <1>13, <1>g, <1>b, <1>e
  DEF RecordAdminMove, GoesTo, Moves, KeepsTodo, KeepsSplit, KeepsNotes, WithdrawBecomes, StatusBecomes, Working, dbVars
<1>14. ASSUME NEW w \in Ticks, RecordMerchantMove(w) PROVE Books /\ Notes
  BY <1>14, <1>g, <1>b, <1>e
  DEF RecordMerchantMove, GoesTo, Moves, KeepsTodo, KeepsSplit, KeepsNotes, WithdrawBecomes, StatusBecomes, Working, dbVars
<1>15. ASSUME NEW w \in Ticks, AnnounceMove(w) PROVE Books /\ Notes
  BY <1>15, <1>g, <1>b, <1>e
  DEF AnnounceMove, GoesTo, Moves, KeepsTodo, KeepsSplit, KeepsNotes, WithdrawBecomes, StatusBecomes, Working, dbVars
<1>16. ASSUME NEW c \in Clerks, OpenMove(c) \/ HandMove(c) \/ SaveMove(c) PROVE FALSE
  BY <1>16, <1>d DEF OpenMove, HandMove, SaveMove, NoClerks
<1>17. CASE Kept
  BY <1>17, <1>g, <1>b, <1>e DEF Kept, vars, dbVars, Working
<1> QED BY <1>1, <1>2, <1>3, <1>4, <1>5, <1>6, <1>7, <1>8, <1>9, <1>10, <1>11, <1>12, <1>13, <1>14,
           <1>15, <1>16, <1>17 DEF Move, TickMove

\* Without an admin request the ticks do everything.
LEMMA ByTicks ==
  ASSUME TypeOK, NoClerks, Move, manual' = 0
  PROVE  manual = 0 /\ happened \subseteq happened' /\ (Kept \/ \E w \in Ticks : TickMove(w))
<1>1. CASE Kept
  BY <1>1 DEF Kept, vars, trouble
<1>2. ASSUME NEW w \in Ticks, TickMove(w) PROVE manual = 0 /\ happened \subseteq happened'
  BY <1>2 DEF TickMove, Strikes, Calm, StartMove, NextMove, StopMove, ReadMove,
      EstimateMove, FundGasMove, SkipLinkMove, RecordGasMove, SplitMove, SkipFeeMove, FeeMove, NetMove,
      RecordAdminMove, RecordMerchantMove, AnnounceMove
<1>3. ASSUME NEW c \in Clerks, OpenMove(c) \/ HandMove(c) \/ SaveMove(c) PROVE FALSE
  <2>1. CASE OpenMove(c)
    BY <2>1, PayoutAssumption DEF OpenMove, TypeOK
  <2>2. CASE HandMove(c) \/ SaveMove(c)
    BY <2>2 DEF HandMove, SaveMove, NoClerks
  <2> QED BY <1>3, <2>1, <2>2
<1> QED BY <1>1, <1>2, <1>3 DEF Move

\* Without an overlap the tick that moves is the only one.
LEMMA Single ==
  ASSUME OneTick, "overlap" \notin happened', NEW w \in Ticks, TickMove(w)
  PROVE  OneTick' /\ \A v \in Ticks : v # w => tick[v].pc = "idle" /\ tick'[v] = tick[v]
<1>1. \A v \in Ticks : v # w => tick[v].pc = "idle"
  <2>1. CASE StartMove(w)
    BY <2>1 DEF StartMove, Strikes
  <2>2. CASE tick[w].pc # "idle"
    BY <2>2 DEF OneTick
  <2> QED BY <2>1, <2>2 DEF TickMove, StartMove, NextMove, StopMove, ReadMove,
      EstimateMove, FundGasMove, SkipLinkMove, RecordGasMove, SplitMove, SkipFeeMove, FeeMove, NetMove,
      RecordAdminMove, RecordMerchantMove, AnnounceMove
<1>2. \A v \in Ticks : v # w => tick'[v] = tick[v]
  BY DEF TickMove, GoesTo, Moves, StartMove, NextMove, StopMove, ReadMove,
      EstimateMove, FundGasMove, SkipLinkMove, RecordGasMove, SplitMove, SkipFeeMove, FeeMove, NetMove,
      RecordAdminMove, RecordMerchantMove, AnnounceMove
<1> QED BY <1>1, <1>2 DEF OneTick

LEMMA AloneKept == TypeOK /\ TypeOK' /\ LinksInOrder /\ NoClerks /\ Alone /\ Move => Alone'
<1> SUFFICES ASSUME TypeOK, TypeOK', LinksInOrder, NoClerks, Alone, Move,
                    manual' = 0, "overlap" \notin happened'
             PROVE  Alone'
  BY DEF Alone
<1>a. manual = 0 /\ "overlap" \notin happened /\ (Kept \/ \E w \in Ticks : TickMove(w))
  BY ByTicks
<1> DEFINE Tokens == \A l \in Links \ Native : balance[l] > 0 \/ toMerchant[l] > 0
<1>b. OneTick /\ (\A w \in Ticks : UpToDate(w) /\ FeeIsLess(w)) /\ Tokens
  BY <1>a DEF Alone
<1>c. \A w \in Ticks : tick[w].pc \in Working => tick[w].link \in Links
  BY DEF LinksInOrder
<1>d. ASSUME NEW w \in Ticks, TickMove(w), UpToDate(w)', FeeIsLess(w)', Tokens' PROVE Alone'
  <2>1. OneTick' /\ \A v \in Ticks : v # w => tick'[v].pc = "idle"
    BY <1>a, <1>b, <1>d, Single
  <2>2. \A v \in Ticks : v # w => UpToDate(v)' /\ FeeIsLess(v)'
    BY <2>1 DEF UpToDate, FeeIsLess, Working
  <2> QED BY <1>d, <2>1, <2>2 DEF Alone
<1> USE FieldTypes
<1>1. ASSUME NEW w \in Ticks, StartMove(w) PROVE UpToDate(w)' /\ FeeIsLess(w)' /\ Tokens'
  BY <1>1, <1>b DEF StartMove, GoesTo, UpToDate, FeeIsLess, Selected, Working, chainVars, dbVars
<1>2. ASSUME NEW w \in Ticks, NextMove(w) PROVE UpToDate(w)' /\ FeeIsLess(w)' /\ Tokens'
  <2>1. PICK l \in tick[w].todo :
       /\ GoesTo(w, IF l \in Native THEN "readStatus" ELSE "fundGas")
       /\ tick'[w].todo = tick[w].todo \ {l} /\ tick'[w].seen = tick[w].seen /\ tick'[w].link = l
       /\ tick'[w].charged = (tick[w].seen[l] = "ADMIN_CHARGES")
    BY <1>2 DEF NextMove
  <2>2. UNCHANGED <<status, withdraw, chainVars>> /\ tick[w].pc = "next"
    BY <1>2 DEF NextMove
  <2>3. \A k \in tick[w].todo : status[k] = "PARTIALLY_SUCCESS" /\ tick[w].seen[k] = withdraw[k]
    BY <1>b, <2>2 DEF UpToDate
  <2>4. tick'[w].pc \in {"readStatus", "fundGas"}
    BY <2>1 DEF GoesTo
  <2>5. tick'[w].charged <=> withdraw[l] = "ADMIN_CHARGES"
    BY <2>1, <2>3
  <2>6. UpToDate(w)'
    BY <2>1, <2>2, <2>3, <2>4, <2>5 DEF UpToDate, Working
  <2> QED BY <1>b, <2>2, <2>4, <2>6 DEF FeeIsLess, chainVars
<1>3. ASSUME NEW w \in Ticks, StopMove(w) PROVE UpToDate(w)' /\ FeeIsLess(w)' /\ Tokens'
  BY <1>3, <1>b, <1>c
  DEF StopMove, GoesTo, Moves, KeepsTodo, KeepsSplit, UpToDate, FeeIsLess,
      WithdrawBecomes, StatusBecomes, Working, dbVars, chainVars
<1>4. ASSUME NEW w \in Ticks, ReadMove(w) PROVE UpToDate(w)' /\ FeeIsLess(w)' /\ Tokens'
  <2>1. tick'[w].charged <=> withdraw[tick[w].link] = "ADMIN_CHARGES"
    BY <1>4 DEF ReadMove
  <2>2. UpToDate(w)'
    BY <1>4, <1>b, <1>c, <2>1 DEF ReadMove, GoesTo, KeepsTodo, UpToDate, Working, dbVars
  <2> QED BY <1>4, <1>b, <2>2 DEF ReadMove, GoesTo, FeeIsLess, chainVars
<1>5. ASSUME NEW w \in Ticks, EstimateMove(w) PROVE UpToDate(w)' /\ FeeIsLess(w)' /\ Tokens'
  <2>1. UpToDate(w)'
    BY <1>5, <1>b, <1>c DEF EstimateMove, GoesTo, Moves, KeepsTodo, KeepsSplit, UpToDate, Working, dbVars
  <2>2. FeeIsLess(w)'
    BY <1>5 DEF EstimateMove, Moves, KeepsTodo, FeeIsLess, LinksInOrder
  <2> QED BY <1>5, <1>b, <2>1, <2>2 DEF EstimateMove, chainVars
<1>6. ASSUME NEW w \in Ticks, FundGasMove(w) PROVE UpToDate(w)' /\ FeeIsLess(w)' /\ Tokens'
  BY <1>6, <1>b, <1>c
  DEF FundGasMove, GoesTo, Moves, KeepsTodo, KeepsSplit, UpToDate, FeeIsLess,
      WithdrawBecomes, StatusBecomes, Working, dbVars, chainVars
<1>7. ASSUME NEW w \in Ticks, SkipLinkMove(w) PROVE UpToDate(w)' /\ FeeIsLess(w)' /\ Tokens'
  BY <1>7, <1>b, <1>c
  DEF SkipLinkMove, GoesTo, Moves, KeepsTodo, KeepsSplit, UpToDate, FeeIsLess,
      WithdrawBecomes, StatusBecomes, Working, dbVars, chainVars
<1>8. ASSUME NEW w \in Ticks, RecordGasMove(w) PROVE UpToDate(w)' /\ FeeIsLess(w)' /\ Tokens'
  BY <1>8, <1>b, <1>c
  DEF RecordGasMove, GoesTo, Moves, KeepsTodo, KeepsSplit, UpToDate, FeeIsLess,
      WithdrawBecomes, StatusBecomes, Working, dbVars, chainVars
<1>9. ASSUME NEW w \in Ticks, SplitMove(w) PROVE UpToDate(w)' /\ FeeIsLess(w)' /\ Tokens'
  <2> DEFINE l == tick[w].link
  <2>1. l \in Links /\ tick'[w].link = l /\ tick'[w].fee = Erc20Fee(Payable(l))
    BY <1>9, <1>c DEF SplitMove, KeepsTodo, Working
  <2>2. tick'[w].fee > 0 => tick'[w].fee < balance[l]
    BY <2>1, ShareFacts
  <2>3. FeeIsLess(w)' /\ Tokens'
    BY <1>9, <1>b, <2>1, <2>2 DEF SplitMove, FeeIsLess, chainVars
  <2>4. UpToDate(w)'
    BY <1>9, <1>b, <2>1 DEF SplitMove, GoesTo, KeepsTodo, UpToDate, Working, dbVars
  <2> QED BY <2>3, <2>4
<1>10. ASSUME NEW w \in Ticks, SkipFeeMove(w) PROVE UpToDate(w)' /\ FeeIsLess(w)' /\ Tokens'
  BY <1>10, <1>b, <1>c
  DEF SkipFeeMove, GoesTo, Moves, KeepsTodo, KeepsSplit, UpToDate, FeeIsLess,
      WithdrawBecomes, StatusBecomes, Working, dbVars, chainVars
<1>11. ASSUME NEW w \in Ticks, FeeMove(w) PROVE UpToDate(w)' /\ FeeIsLess(w)' /\ Tokens'
  <2>1. tick[w].link \in Links /\ FeeIsLess(w)
    BY <1>11, <1>b, <1>c DEF FeeMove, Working
  <2>2. Tokens' /\ FeeIsLess(w)'
    BY <1>11, <1>b, <2>1 DEF FeeMove, GoesTo, FeeIsLess, FeeIsDue, AdminIsPaid, chainVars
  <2>3. UpToDate(w)'
    BY <1>11, <1>b, <2>1 DEF FeeMove, GoesTo, KeepsTodo, KeepsSplit, UpToDate, Working, dbVars
  <2> QED BY <2>2, <2>3
<1>12. ASSUME NEW w \in Ticks, NetMove(w) PROVE UpToDate(w)' /\ FeeIsLess(w)' /\ Tokens'
  <2>1. tick[w].link \in Links
    BY <1>12, <1>c DEF NetMove, Working
  <2>2. ASSUME NEW k \in Links \ Native PROVE balance'[k] > 0 \/ toMerchant'[k] > 0
    <3>1. CASE MerchantIsPaid(tick[w].link, tick[w].net) /\ k = tick[w].link
      <4>1. /\ balance'[k] = balance[k] - tick[w].net /\ toMerchant'[k] = toMerchant[k] + tick[w].net
            /\ tick[w].net <= balance[k]
        BY <3>1 DEF MerchantIsPaid
      <4>2. balance[k] \in Nat /\ toMerchant[k] \in Nat /\ tick[w].net \in Nat
            /\ (balance[k] > 0 \/ toMerchant[k] > 0)
        BY <1>b
      <4> QED BY <4>1, <4>2
    <3>2. CASE MerchantIsPaid(tick[w].link, tick[w].net) /\ k # tick[w].link
      BY <1>b, <3>2 DEF MerchantIsPaid
    <3>3. CASE UNCHANGED chainVars
      BY <1>b, <3>3 DEF chainVars
    <3> QED BY <1>12, <3>1, <3>2, <3>3 DEF NetMove
  <2>4. FeeIsLess(w)'
    BY <1>12 DEF NetMove, GoesTo, FeeIsLess
  <2>3. UpToDate(w)'
    BY <1>12, <1>b, <2>1 DEF NetMove, GoesTo, KeepsTodo, KeepsSplit, UpToDate, Working, dbVars
  <2> QED BY <2>2, <2>3, <2>4
<1>13. ASSUME NEW w \in Ticks, RecordAdminMove(w) PROVE UpToDate(w)' /\ FeeIsLess(w)' /\ Tokens'
  BY <1>13, <1>b, <1>c
  DEF RecordAdminMove, GoesTo, Moves, KeepsTodo, KeepsSplit, UpToDate, FeeIsLess,
      WithdrawBecomes, StatusBecomes, Working, dbVars, chainVars
<1>14. ASSUME NEW w \in Ticks, RecordMerchantMove(w) PROVE UpToDate(w)' /\ FeeIsLess(w)' /\ Tokens'
  BY <1>14, <1>b, <1>c
  DEF RecordMerchantMove, GoesTo, Moves, KeepsTodo, KeepsSplit, UpToDate, FeeIsLess,
      WithdrawBecomes, StatusBecomes, Working, dbVars, chainVars
<1>15. ASSUME NEW w \in Ticks, AnnounceMove(w) PROVE UpToDate(w)' /\ FeeIsLess(w)' /\ Tokens'
  BY <1>15, <1>b, <1>c
  DEF AnnounceMove, GoesTo, Moves, KeepsTodo, KeepsSplit, UpToDate, FeeIsLess,
      WithdrawBecomes, StatusBecomes, Working, dbVars, chainVars
<1>16. CASE Kept
  BY <1>16, <1>a, <1>b DEF Kept, vars, dbVars, chainVars, Alone, OneTick, UpToDate, FeeIsLess
<1> HIDE DEF Tokens
<1>17. ASSUME NEW w \in Ticks, TickMove(w) PROVE UpToDate(w)' /\ FeeIsLess(w)' /\ Tokens'
  BY <1>17, <1>1, <1>2, <1>3, <1>4, <1>5, <1>6, <1>7, <1>8, <1>9,
      <1>10, <1>11, <1>12, <1>13, <1>14, <1>15 DEF TickMove
<1> QED BY <1>a, <1>d, <1>16, <1>17

-----------------------------------------------------------------------------
(* What the fee and the merchant's part amount to, seen from the only tick *)
(* that runs.                                                              *)

Others(w) == \A v \in Ticks : v # w => tick[v].pc = "idle"

FeeOnceBy(w) ==
  LET t == tick[w] IN
  /\ \A l \in Links : toAdmin[l] <= Share(l)
  /\ \A l \in Links :
       /\ withdraw[l] \in {"PENDING", "NATIVE_TRANSFER"} /\ status[l] # "SUCCESS"
       /\ t.pc \in {"merchantLeg", "recordAdmin", "recordMerchant"} => t.link # l
       => toAdmin[l] = 0 /\ toMerchant[l] = 0
  /\ t.pc \in {"merchantLeg", "recordAdmin"} /\ ~t.feePaid /\ withdraw[t.link] # "ADMIN_CHARGES" =>
       toAdmin[t.link] = 0
  /\ t.pc = "merchantLeg" => toMerchant[t.link] = 0
  /\ t.pc = "recordAdmin" /\ ~t.netPaid => toMerchant[t.link] = 0
  /\ \A l \in Links : status[l] # "SUCCESS" /\ toMerchant[l] > 0 =>
       t.link = l /\ t.netPaid /\ t.pc \in {"recordAdmin", "recordMerchant"}
  /\ t.pc \in {"estimate", "adminLeg"} /\ ~t.charged => t.fee <= Share(t.link)

FeeOnceIsBy == \A w \in Ticks :
  Others(w) /\ manual = 0 /\ happened \subseteq {"failed", "reverted"} => (FeeOnce <=> FeeOnceBy(w))

LEMMA FeeOnceSeen == FeeOnceIsBy
<1> SUFFICES ASSUME NEW w \in Ticks, Others(w), manual = 0, happened \subseteq {"failed", "reverted"}
             PROVE  FeeOnce <=> FeeOnceBy(w)
  BY DEF FeeOnceIsBy
<1> USE DEF FeeOnceBy, FeeOnce, FeeOpen, Others
<1>1. \A l \in Links :
        FeeOpen(l) <=> /\ withdraw[l] \in {"PENDING", "NATIVE_TRANSFER"} /\ status[l] # "SUCCESS"
                       /\ tick[w].pc \in {"merchantLeg", "recordAdmin", "recordMerchant"} => tick[w].link # l
  OBVIOUS
<1>2. \A l \in Links :
        (\E v \in Ticks : tick[v].link = l /\ tick[v].netPaid /\ tick[v].pc \in {"recordAdmin", "recordMerchant"})
        <=> tick[w].link = l /\ tick[w].netPaid /\ tick[w].pc \in {"recordAdmin", "recordMerchant"}
  OBVIOUS
<1>3. FeeOnce => FeeOnceBy(w)
  <2> HIDE DEF FeeOpen
  <2> QED BY <1>1, <1>2
<1>4. FeeOnceBy(w) => FeeOnce
  <2> HIDE DEF FeeOpen
  <2> QED BY <1>1, <1>2
<1> QED BY <1>3, <1>4

LEMMA FeeOnceSeenNext == FeeOnceIsBy'
BY FeeOnceSeen, PTL

NetWholeBy(w) ==
  LET t == tick[w] IN
  /\ \A l \in Links :
       toMerchant[l] >= NetOf(l) \/ Untouched(l) \/ (status[l] # "SUCCESS" /\ t.pc = "merchantLeg" /\ t.link = l)
  /\ t.pc \in Working /\ toMerchant[t.link] < NetOf(t.link) =>
       /\ t.pc \in {"estimate", "adminLeg"} => t.net >= NetOf(t.link) /\ t.fee + t.net <= balance[t.link]
       /\ t.pc = "merchantLeg" => t.net >= NetOf(t.link) /\ t.net <= balance[t.link]
       /\ t.pc \notin {"recordAdmin", "recordMerchant"}

NetWholeIsBy == \A w \in Ticks :
  Others(w) /\ manual = 0 /\ happened \subseteq {"reverted", "write"} => (NetWhole <=> NetWholeBy(w))

LEMMA NetWholeSeen == NetWholeIsBy
<1> SUFFICES ASSUME NEW w \in Ticks, Others(w), manual = 0, happened \subseteq {"reverted", "write"}
             PROVE  NetWhole <=> NetWholeBy(w)
  BY DEF NetWholeIsBy
<1>1. NetWhole => NetWholeBy(w)
  BY DEF NetWholeBy, NetWhole, Others, Working
<1>2. NetWholeBy(w) => NetWhole
  BY DEF NetWholeBy, NetWhole, Others, Working
<1> QED BY <1>1, <1>2

LEMMA NetWholeSeenNext == NetWholeIsBy'
BY NetWholeSeen, PTL

LEMMA FeeOnceKept ==
  TypeOK /\ TypeOK' /\ LinksInOrder /\ Conserved /\ NoClerks /\ NetNoted /\ Alone /\ FeeOnce /\ Move => FeeOnce'
<1> SUFFICES ASSUME TypeOK, TypeOK', LinksInOrder, Conserved, NoClerks, NetNoted, Alone, FeeOnce, Move,
                    manual' = 0, happened' \subseteq {"failed", "reverted"}
             PROVE  FeeOnce'
  BY DEF FeeOnce
<1>a. /\ manual = 0 /\ happened \subseteq {"failed", "reverted"} /\ "overlap" \notin happened'
      /\ Kept \/ \E w \in Ticks : TickMove(w)
  BY ByTicks
<1>b. OneTick /\ \A w \in Ticks : UpToDate(w)
  BY <1>a DEF Alone
<1>c. \A l \in Links : /\ balance[l] \in Nat /\ toMerchant[l] \in Nat /\ toAdmin[l] \in Nat
                      /\ Received[l] \in Nat /\ Share(l) \in Nat
                      /\ balance[l] + toMerchant[l] + toAdmin[l] = Received[l]
  BY FieldTypes, ShareFacts DEF Conserved, Share
<1>d. \A l \in Links : withdraw[l] # "ADMIN_CHARGES" /\ status[l] # "SUCCESS" =>
        withdraw[l] \in {"PENDING", "NATIVE_TRANSFER"}
  BY <1>a, FieldTypes DEF NetNoted, WithdrawStatus
<1>1. CASE Kept
  BY <1>1 DEF Kept, vars, dbVars, chainVars, trouble, FeeOnce, FeeOpen
<1>2. ASSUME NEW w \in Ticks, TickMove(w) PROVE FeeOnce'
  <2> DEFINE l == tick[w].link
  <2>a. Others(w) /\ Others(w)'
    BY <1>a, <1>b, <1>2, Single DEF Others
  <2>b. FeeOnceBy(w)
    BY <1>a, <2>a, FeeOnceSeen DEF FeeOnceIsBy
  <2>c. SUFFICES FeeOnceBy(w)'
    BY <2>a, FeeOnceSeenNext DEF FeeOnceIsBy
  <2>d. /\ tick[w].pc \in Working => l \in Links
        /\ tick[w].pc \in Working \ {"announce"} => status[l] = "PARTIALLY_SUCCESS"
        /\ tick[w].pc \in {"estimate", "fundGas", "recordGas", "split", "adminLeg"} =>
             (tick[w].charged <=> withdraw[l] = "ADMIN_CHARGES")
        /\ tick[w].pc = "recordGas" => ~tick[w].charged
    BY <1>b DEF UpToDate, LinksInOrder
  \* While the fee is not due or not paid, l has paid nobody.
  <2>e. /\ tick[w].pc \in Working \ {"merchantLeg", "recordAdmin", "recordMerchant", "announce"}
        /\ withdraw[l] # "ADMIN_CHARGES"
        => toAdmin[l] = 0 /\ toMerchant[l] = 0
    BY <1>d, <2>b, <2>d DEF FeeOnceBy, Working
  <2>f. tick[w].pc \in Working \ {"recordAdmin", "recordMerchant", "announce"} => toMerchant[l] = 0
    BY <1>c, <2>b, <2>d DEF FeeOnceBy, Working
  <2>g. /\ tick[w].fee \in Nat /\ tick[w].net \in Nat
        /\ tick[w].feePaid \in BOOLEAN /\ tick[w].netPaid \in BOOLEAN
    BY FieldTypes
  <2>1. CASE StartMove(w)
    BY <2>1, <2>b, <2>d
    DEF StartMove, GoesTo, Moves, KeepsTodo, KeepsSplit, KeepsNotes, WithdrawBecomes, StatusBecomes,
      Strikes, FeeOnceBy, Working, dbVars, chainVars
  <2>2. CASE NextMove(w)
    BY <2>2, <2>b, <2>d
    DEF NextMove, GoesTo, Moves, KeepsTodo, KeepsSplit, KeepsNotes, WithdrawBecomes, StatusBecomes,
      Strikes, FeeOnceBy, Working, dbVars, chainVars
  <2>3. CASE StopMove(w)
    BY <2>3, <2>b DEF StopMove, Strikes, GoesTo, FeeOnceBy, chainVars
  <2>4. CASE ReadMove(w)
    <3>1. l \in Links /\ tick'[w].fee <= Share(l)
      BY <2>4, <1>c, <2>d DEF ReadMove, Share, Working
    <3> QED BY <2>4, <2>b, <3>1 DEF ReadMove, GoesTo, KeepsTodo, KeepsNotes, FeeOnceBy, dbVars, chainVars
  <2>5. CASE EstimateMove(w)
    BY <2>5, <2>b, <2>d
    DEF EstimateMove, GoesTo, Moves, KeepsTodo, KeepsSplit, KeepsNotes, WithdrawBecomes, StatusBecomes,
      Strikes, FeeOnceBy, Working, dbVars, chainVars
  <2>6. CASE FundGasMove(w)
    BY <2>6, <2>b, <2>d
    DEF FundGasMove, GoesTo, Moves, KeepsTodo, KeepsSplit, KeepsNotes, WithdrawBecomes, StatusBecomes,
      Strikes, FeeOnceBy, Working, dbVars, chainVars
  <2>7. CASE SkipLinkMove(w)
    BY <2>7, <2>b, <2>d
    DEF SkipLinkMove, GoesTo, Moves, KeepsTodo, KeepsSplit, KeepsNotes, WithdrawBecomes, StatusBecomes,
      Strikes, FeeOnceBy, Working, dbVars, chainVars
  <2>8. CASE RecordGasMove(w)
    <3>1. /\ l \in Links /\ tick[w].pc = "recordGas" /\ tick'[w].pc = "split" /\ tick'[w].link = l
          /\ UNCHANGED <<status, balance, toMerchant, toAdmin>> /\ WithdrawBecomes(l, "NATIVE_TRANSFER")
      BY <2>8, <2>d DEF RecordGasMove, Moves, GoesTo, KeepsTodo, Working, chainVars, Strikes
    <3>2. toAdmin[l] = 0 /\ toMerchant[l] = 0
      BY <2>d, <2>e, <3>1 DEF Working
    <3> QED BY <1>c, <2>b, <3>1, <3>2 DEF FeeOnceBy, WithdrawBecomes
  <2>9. CASE SplitMove(w)
    <3>1. l \in Links /\ tick[w].pc = "split"
      BY <2>9, <2>d DEF SplitMove, Working
    <3>2. ~tick'[w].charged => balance[l] = Received[l]
      BY <2>9, <1>c, <2>d, <2>e, <3>1 DEF SplitMove, Working
    <3>3. balance[l] = Received[l] => Erc20Fee(Payable(l)) <= Share(l)
      BY <1>c, <3>1, PayoutAssumption DEF Payable, Erc20Fee, Share
    <3>4. ~tick'[w].charged => tick'[w].fee <= Share(l)
      BY <2>9, <3>2, <3>3 DEF SplitMove
    <3> QED BY <2>9, <2>b, <3>1, <3>4 DEF SplitMove, GoesTo, KeepsTodo, KeepsNotes, FeeOnceBy, dbVars, chainVars
  <2>10. CASE SkipFeeMove(w)
    <3>1. /\ l \in Links /\ tick[w].pc = "adminLeg" /\ toMerchant[l] = 0 /\ tick'[w].link = l
          /\ UNCHANGED <<status, withdraw, toAdmin, toMerchant>> /\ tick'[w].pc = "merchantLeg"
      BY <2>10, <2>d, <2>f DEF SkipFeeMove, Moves, GoesTo, KeepsTodo, Working, dbVars, chainVars
    <3> QED BY <1>c, <2>b, <2>e, <3>1 DEF FeeOnceBy, Working
  <2>11. CASE FeeMove(w)
    <3>1. /\ l \in Links /\ tick[w].pc = "adminLeg" /\ status[l] # "SUCCESS" /\ tick'[w].link = l
          /\ UNCHANGED <<status, withdraw>> /\ UNCHANGED toMerchant
      BY <2>11, <2>d DEF FeeMove, KeepsTodo, Working, dbVars, chainVars, AdminIsPaid
    <3>2. toAdmin[l] = 0 /\ toMerchant[l] = 0 /\ tick[w].fee <= Share(l)
      BY <2>11, <2>b, <2>d, <2>e, <3>1 DEF FeeMove, FeeIsDue, FeeOnceBy, Working
    <3>3. CASE /\ AdminIsPaid(l, tick[w].fee) /\ GoesTo(w, "merchantLeg") /\ tick'[w].feePaid = TRUE
      BY <1>c, <2>b, <2>g, <3>1, <3>2, <3>3 DEF AdminIsPaid, GoesTo, FeeOnceBy, Share
    <3>4. CASE UNCHANGED chainVars /\ GoesTo(w, "next")
      BY <1>c, <2>b, <3>1, <3>2, <3>4 DEF GoesTo, FeeOnceBy, chainVars
    <3>5. CASE UNCHANGED chainVars /\ GoesTo(w, "merchantLeg") /\ tick'[w].feePaid = FALSE
      BY <1>c, <2>b, <3>1, <3>2, <3>5 DEF GoesTo, FeeOnceBy, chainVars
    <3>6. ~Strikes("lost")
      BY DEF Strikes
    <3> QED BY <2>11, <3>3, <3>4, <3>5, <3>6, Zenon DEF FeeMove
  <2>12. CASE NetMove(w)
    <3>1. /\ l \in Links /\ tick[w].pc = "merchantLeg" /\ status[l] # "SUCCESS" /\ tick'[w].link = l
          /\ UNCHANGED <<status, withdraw, toAdmin>> /\ tick'[w].pc = "recordAdmin"
          /\ tick'[w].feePaid = tick[w].feePaid
      BY <2>12, <2>d DEF NetMove, GoesTo, KeepsTodo, Working, dbVars, chainVars, MerchantIsPaid
    <3>3. CASE MerchantIsPaid(l, tick[w].net) /\ tick'[w].netPaid = TRUE
      BY <1>c, <2>b, <3>1, <3>3 DEF MerchantIsPaid, FeeOnceBy
    <3>4. CASE UNCHANGED chainVars /\ tick'[w].netPaid = FALSE
      BY <1>c, <2>b, <3>1, <3>4 DEF FeeOnceBy, chainVars
    <3>6. ~Strikes("lost")
      BY DEF Strikes
    <3> QED BY <2>12, <3>3, <3>4, <3>6, Zenon DEF NetMove
  <2>13. CASE RecordAdminMove(w)
    <3>1. /\ l \in Links /\ tick[w].pc = "recordAdmin" /\ tick'[w].link = l
          /\ UNCHANGED <<status, balance, toMerchant, toAdmin>> /\ tick'[w].netPaid = tick[w].netPaid
          /\ tick'[w].feePaid = tick[w].feePaid
      BY <2>13, <2>d DEF RecordAdminMove, Moves, KeepsTodo, KeepsNotes, Working, chainVars
    <3>2. tick'[w].pc = IF tick[w].netPaid THEN "recordMerchant" ELSE "next"
      BY <2>13 DEF RecordAdminMove, Moves, GoesTo
    <3>3. \/ tick[w].feePaid /\ WithdrawBecomes(l, "ADMIN_CHARGES")
          \/ ~tick[w].feePaid /\ UNCHANGED withdraw
      BY <2>13 DEF RecordAdminMove, Strikes
    <3> QED BY <1>c, <2>b, <2>g, <3>1, <3>2, <3>3 DEF WithdrawBecomes, FeeOnceBy
  <2>14. CASE RecordMerchantMove(w)
    <3>1. /\ l \in Links /\ tick[w].pc = "recordMerchant" /\ tick'[w].pc = "announce"
          /\ UNCHANGED <<balance, toMerchant, toAdmin>>
          /\ StatusBecomes(l, "SUCCESS") /\ WithdrawBecomes(l, "SUCCESS")
      BY <2>14, <2>d DEF RecordMerchantMove, Moves, GoesTo, Working, chainVars, Strikes
    <3> QED BY <1>c, <2>b, <3>1 DEF WithdrawBecomes, StatusBecomes, FeeOnceBy
  <2>15. CASE AnnounceMove(w)
    BY <2>15, <2>b, <2>d
    DEF AnnounceMove, GoesTo, Moves, KeepsTodo, KeepsSplit, KeepsNotes, WithdrawBecomes, StatusBecomes,
      Strikes, FeeOnceBy, Working, dbVars, chainVars
  <2> QED BY <1>2, <2>1, <2>2, <2>3, <2>4, <2>5, <2>6, <2>7, <2>8, <2>9,
         <2>10, <2>11, <2>12, <2>13, <2>14, <2>15 DEF TickMove
<1> QED BY <1>a, <1>1, <1>2

LEMMA NetWholeKept ==
  TypeOK /\ TypeOK' /\ LinksInOrder /\ Conserved /\ NoClerks /\ Alone /\ NetWhole /\ Move => NetWhole'
<1> SUFFICES ASSUME TypeOK, TypeOK', LinksInOrder, Conserved, NoClerks, Alone, NetWhole, Move,
                    manual' = 0, happened' \subseteq {"reverted", "write"}
             PROVE  NetWhole'
  BY DEF NetWhole
<1>a. /\ manual = 0 /\ happened \subseteq {"reverted", "write"} /\ "overlap" \notin happened'
      /\ Kept \/ \E w \in Ticks : TickMove(w)
  BY ByTicks
<1>b. OneTick /\ \A w \in Ticks : UpToDate(w)
  BY <1>a DEF Alone
<1>c. \A l \in Links : /\ balance[l] \in Nat /\ toMerchant[l] \in Nat /\ toAdmin[l] \in Nat
                      /\ Received[l] \in Nat /\ Share(l) \in Nat /\ NetOf(l) \in Nat
                      /\ NetOf(l) = Received[l] - Share(l)
                      /\ balance[l] + toMerchant[l] + toAdmin[l] = Received[l]
  BY FieldTypes, ShareFacts DEF Conserved, Share, NetOf
<1>m. \A l \in Links : toMerchant[l] <= toMerchant'[l] /\ toMerchant'[l] \in Nat /\ balance'[l] \in Nat
  BY ChainSteps, ChainKept DEF TypeOK
<1>1. CASE Kept
  BY <1>1 DEF Kept, vars, dbVars, chainVars, trouble, NetWhole, Untouched
<1>2. ASSUME NEW w \in Ticks, TickMove(w) PROVE NetWhole'
  <2> DEFINE l == tick[w].link
  <2>a. Others(w) /\ Others(w)'
    BY <1>a, <1>b, <1>2, Single DEF Others
  <2>b. NetWholeBy(w)
    BY <1>a, <2>a, NetWholeSeen DEF NetWholeIsBy
  <2>c. SUFFICES NetWholeBy(w)'
    BY <2>a, NetWholeSeenNext DEF NetWholeIsBy
  <2>d. /\ tick[w].pc \in Working => l \in Links
        /\ tick[w].pc \in Working \ {"announce"} => status[l] = "PARTIALLY_SUCCESS"
    BY <1>b DEF UpToDate, LinksInOrder
  \* A link that is not paid yet still has everything before its fee.
  <2>e. tick[w].pc \in Working \ {"merchantLeg", "recordAdmin", "recordMerchant"} /\ toMerchant[l] < NetOf(l) =>
          Untouched(l) /\ balance[l] = Received[l]
    BY <1>c, <2>b, <2>d DEF NetWholeBy, Untouched, Working
  <2>g. /\ tick[w].fee \in Nat /\ tick[w].net \in Nat
        /\ tick[w].feePaid \in BOOLEAN /\ tick[w].netPaid \in BOOLEAN
    BY FieldTypes
  <2>n. \A k \in Links : NetOf(k)' = NetOf(k)
    BY DEF NetOf, Share
  <2>1. CASE StartMove(w)
    BY <2>1, <1>c, <2>b, <2>d, <2>g, <2>n
    DEF StartMove, GoesTo, Moves, KeepsTodo, KeepsSplit, WithdrawBecomes, StatusBecomes,
      Strikes, NetWholeBy, Untouched, Working, dbVars, chainVars
  <2>2. CASE NextMove(w)
    BY <2>2, <1>c, <2>b, <2>d, <2>g, <2>n
    DEF NextMove, GoesTo, Moves, KeepsTodo, KeepsSplit, WithdrawBecomes, StatusBecomes,
      Strikes, NetWholeBy, Untouched, Working, dbVars, chainVars
  <2>3. CASE StopMove(w)
    BY <2>3, <1>c, <2>b, <2>d, <2>g, <2>n
    DEF StopMove, GoesTo, Moves, KeepsTodo, KeepsSplit, WithdrawBecomes, StatusBecomes,
      Strikes, NetWholeBy, Untouched, Working, dbVars, chainVars
  <2>4. CASE ReadMove(w)
    <3>1. /\ l \in Links /\ tick[w].pc = "readStatus" /\ tick'[w].pc = "estimate" /\ tick'[w].link = l
          /\ UNCHANGED <<status, withdraw, balance, toMerchant, toAdmin>>
      BY <2>4, <2>d DEF ReadMove, GoesTo, KeepsTodo, Working, dbVars, chainVars
    <3>2. tick'[w].fee <= Share(l) /\ tick'[w].fee \in Nat /\ tick'[w].net = NetOf(l)
      BY <2>4, <1>c, <3>1 DEF ReadMove, Share, NetOf
    <3> QED BY <1>c, <2>b, <2>e, <3>1, <3>2 DEF NetWholeBy, Untouched, NetOf, Share, Working
  <2>5. CASE EstimateMove(w)
    BY <2>5, <1>c, <2>b, <2>d, <2>g, <2>n
    DEF EstimateMove, GoesTo, Moves, KeepsTodo, KeepsSplit, WithdrawBecomes, StatusBecomes,
      Strikes, NetWholeBy, Untouched, Working, dbVars, chainVars
  <2>6. CASE FundGasMove(w)
    BY <2>6, <1>c, <2>b, <2>d, <2>g, <2>n
    DEF FundGasMove, GoesTo, Moves, KeepsTodo, KeepsSplit, WithdrawBecomes, StatusBecomes,
      Strikes, NetWholeBy, Untouched, Working, dbVars, chainVars
  <2>7. CASE SkipLinkMove(w)
    BY <2>7, <1>c, <2>b, <2>d, <2>g, <2>n
    DEF SkipLinkMove, GoesTo, Moves, KeepsTodo, KeepsSplit, WithdrawBecomes, StatusBecomes,
      Strikes, NetWholeBy, Untouched, Working, dbVars, chainVars
  <2>8. CASE RecordGasMove(w)
    BY <2>8, <1>c, <2>b, <2>d, <2>g, <2>n
    DEF RecordGasMove, GoesTo, Moves, KeepsTodo, KeepsSplit, WithdrawBecomes, StatusBecomes,
      Strikes, NetWholeBy, Untouched, Working, dbVars, chainVars
  <2>9. CASE SplitMove(w)
    <3>1. /\ l \in Links /\ tick[w].pc = "split" /\ tick'[w].pc = "adminLeg" /\ tick'[w].link = l
          /\ UNCHANGED <<status, withdraw, balance, toMerchant, toAdmin>>
      BY <2>9, <2>d DEF SplitMove, GoesTo, KeepsTodo, Working, dbVars, chainVars
    <3>2. balance[l] = Received[l] => /\ Payable(l) = Received[l]
                                     /\ Erc20Fee(Payable(l)) \in Nat /\ Erc20Fee(Payable(l)) <= Share(l)
      BY <1>c, <3>1, ShareFacts DEF Payable, Erc20Fee, Share
    <3>3. balance[l] = Received[l] => /\ tick'[w].fee + tick'[w].net = balance[l]
                                     /\ tick'[w].net >= NetOf(l)
      BY <2>9, <1>c, <3>1, <3>2 DEF SplitMove
    <3> QED BY <1>c, <2>b, <2>e, <3>1, <3>3 DEF NetWholeBy, Untouched, NetOf, Share, Working
  <2>10. CASE SkipFeeMove(w)
    <3>1. /\ l \in Links /\ tick[w].pc = "adminLeg" /\ tick'[w].pc = "merchantLeg" /\ tick'[w].link = l
          /\ tick'[w].net = tick[w].net /\ UNCHANGED <<status, withdraw, balance, toMerchant, toAdmin>>
      BY <2>10, <2>d DEF SkipFeeMove, Moves, GoesTo, KeepsTodo, KeepsSplit, Working, dbVars, chainVars
    <3> QED BY <1>c, <2>b, <2>d, <2>g, <3>1 DEF NetWholeBy, Untouched, NetOf, Share, Working
  <2>11. CASE FeeMove(w)
    <3>1. /\ l \in Links /\ tick[w].pc = "adminLeg" /\ status[l] # "SUCCESS" /\ tick'[w].link = l
          /\ tick'[w].net = tick[w].net /\ UNCHANGED <<status, withdraw>> /\ UNCHANGED toMerchant
      BY <2>11, <2>d DEF FeeMove, KeepsTodo, KeepsSplit, Working, dbVars, chainVars, AdminIsPaid
    <3>3. CASE AdminIsPaid(l, tick[w].fee) /\ GoesTo(w, "merchantLeg")
      BY <1>c, <2>b, <2>g, <3>1, <3>3 DEF AdminIsPaid, GoesTo, NetWholeBy, Untouched, NetOf, Share, Working
    <3>4. CASE UNCHANGED chainVars /\ GoesTo(w, "next")
      BY <1>c, <2>b, <3>1, <3>4 DEF GoesTo, NetWholeBy, Untouched, NetOf, Share, Working, chainVars
    <3>5. CASE UNCHANGED chainVars /\ GoesTo(w, "merchantLeg")
      BY <1>c, <2>b, <2>g, <3>1, <3>5 DEF GoesTo, NetWholeBy, Untouched, NetOf, Share, Working, chainVars
    <3> QED BY <2>11, <3>3, <3>4, <3>5 DEF FeeMove, Strikes
  <2>12. CASE NetMove(w)
    <3>1. /\ l \in Links /\ tick[w].pc = "merchantLeg" /\ tick'[w].pc = "recordAdmin" /\ tick'[w].link = l
          /\ UNCHANGED <<status, withdraw>>
      BY <2>12, <2>d DEF NetMove, GoesTo, KeepsTodo, Working, dbVars
    <3>2. toMerchant[l] < NetOf(l) => tick[w].net >= NetOf(l) /\ tick[w].net <= balance[l]
      BY <2>b, <3>1 DEF NetWholeBy, Working
    <3>3. CASE MerchantIsPaid(l, tick[w].net)
      <4>1. toMerchant'[l] >= NetOf(l)
        BY <1>c, <2>g, <3>1, <3>2, <3>3 DEF MerchantIsPaid
      <4>2. \A k \in Links : k # l => toMerchant'[k] = toMerchant[k] /\ toAdmin'[k] = toAdmin[k]
        BY <3>3 DEF MerchantIsPaid
      <4> HIDE DEF l
      <4> QED BY <1>c, <1>m, <2>b, <2>n, <3>1, <4>1, <4>2 DEF NetWholeBy, Untouched, l
    <3>4. CASE UNCHANGED chainVars /\ tick[w].net > balance[l]
      <4>1. toMerchant[l] >= NetOf(l)
        BY <1>c, <2>g, <3>1, <3>2, <3>4
      <4> QED BY <1>c, <2>b, <2>n, <3>1, <3>4, <4>1 DEF NetWholeBy, Untouched, chainVars
    <3> QED BY <2>12, <3>3, <3>4 DEF NetMove, Strikes
  <2>13. CASE RecordAdminMove(w)
    <3>1. /\ l \in Links /\ tick[w].pc = "recordAdmin" /\ tick'[w].link = l
          /\ UNCHANGED <<status, balance, toMerchant, toAdmin>> /\ tick'[w].pc \in {"recordMerchant", "next"}
      BY <2>13, <2>d DEF RecordAdminMove, Moves, GoesTo, KeepsTodo, Working, chainVars
    <3>2. toMerchant[l] >= NetOf(l)
      BY <1>c, <2>b, <3>1 DEF NetWholeBy, Working
    <3>3. \A k \in Links : k # l => withdraw'[k] = withdraw[k]
      BY <2>13 DEF RecordAdminMove, WithdrawBecomes
    <3> QED BY <1>c, <2>b, <2>n, <3>1, <3>2, <3>3 DEF NetWholeBy, Untouched
  <2>14. CASE RecordMerchantMove(w)
    <3>1. /\ l \in Links /\ tick[w].pc = "recordMerchant" /\ tick'[w].link = l
          /\ UNCHANGED <<balance, toMerchant, toAdmin>> /\ tick'[w].pc = "announce"
      BY <2>14, <2>d DEF RecordMerchantMove, Moves, GoesTo, KeepsTodo, Working, chainVars
    <3>2. toMerchant[l] >= NetOf(l)
      BY <1>c, <2>b, <3>1 DEF NetWholeBy, Working
    <3>3. \A k \in Links : k # l => withdraw'[k] = withdraw[k] /\ status'[k] = status[k]
      BY <2>14 DEF RecordMerchantMove, WithdrawBecomes, StatusBecomes
    <3> QED BY <1>c, <2>b, <2>n, <3>1, <3>2, <3>3 DEF NetWholeBy, Untouched
  <2>15. CASE AnnounceMove(w)
    BY <2>15, <1>c, <2>b, <2>d, <2>g, <2>n
    DEF AnnounceMove, GoesTo, Moves, KeepsTodo, KeepsSplit, WithdrawBecomes, StatusBecomes,
      Strikes, NetWholeBy, Untouched, Working, dbVars, chainVars
  <2> QED BY <1>2, <2>1, <2>2, <2>3, <2>4, <2>5, <2>6, <2>7, <2>8, <2>9,
         <2>10, <2>11, <2>12, <2>13, <2>14, <2>15 DEF TickMove
<1> QED BY <1>a, <1>1, <1>2

-----------------------------------------------------------------------------
(* The theorems.                                                           *)

LEMMA InvInit == Init => Inv
<1> SUFFICES ASSUME Init PROVE Inv
  OBVIOUS
<1> USE DEF Init, IdleTick, IdleClerk
<1>1. TypeOK
  <2>1. balance \in [Links -> Nat]
    BY PayoutAssumption
  <2>2. tick \in [Ticks -> TickState] /\ clerk \in [Clerks -> ClerkState]
    BY DEF TickState, ClerkState, WithdrawStatus, Status, Request
  <2>3. manual \in 0..MaxManual /\ faults \in 0..MaxFaults /\ retries \in [Links -> 0..MaxRetries]
    BY PayoutAssumption
  <2>4. /\ status \in [Links -> Status] /\ withdraw \in [Links -> WithdrawStatus]
        /\ toMerchant \in [Links -> Nat] /\ toAdmin \in [Links -> Nat] /\ happened = {} /\ waived = {}
    BY DEF Status, WithdrawStatus
  <2> QED BY ONLY <2>1, <2>2, <2>3, <2>4 DEF TypeOK
<1>2. LinksInOrder /\ NoClerks /\ FeeNoted /\ NetNoted
  BY DEF LinksInOrder, NoClerks, FeeNoted, NetNoted, Working
<1>3. Conserved
  BY PayoutAssumption DEF Conserved
<1>4. Alone
  BY PayoutAssumption DEF Alone, OneTick, UpToDate, FeeIsLess, Working
<1>5. \A l \in Links : Share(l) \in Nat
  BY <1>1, ShareFacts DEF Share
<1>6. FeeOnce
  <2> HIDE DEF Share
  <2> QED BY <1>5 DEF FeeOnce, FeeOpen
<1>7. NetWhole
  BY DEF NetWhole, Untouched, Working
<1> QED BY <1>1, <1>2, <1>3, <1>4, <1>6, <1>7 DEF Inv

LEMMA InvStep == Inv /\ [Next]_vars => Inv' /\ Move
<1> SUFFICES ASSUME Inv, [Next]_vars PROVE Inv' /\ Move
  OBVIOUS
<1>0. TypeOK /\ LinksInOrder /\ Conserved /\ NoClerks /\ FeeNoted /\ NetNoted /\ Alone /\ FeeOnce /\ NetWhole
  BY DEF Inv
<1>1. Move /\ TypeOK'
  BY <1>0, StepIsMove
<1>2. LinksInOrder' /\ NoClerks'
  BY <1>0, <1>1, LinksInOrderKept, NoClerksKept
<1>3. Conserved'
  BY <1>0, <1>1, ChainSteps, ChainKept
<1>4. FeeNoted' /\ NetNoted' /\ Alone'
  BY <1>0, <1>1, FeeNotedKept, NetNotedKept, AloneKept
<1>5. FeeOnce' /\ NetWhole'
  BY <1>0, <1>1, FeeOnceKept, NetWholeKept
<1> QED BY <1>1, <1>2, <1>3, <1>4, <1>5 DEF Inv

LEMMA Invariant == Spec => []Inv
BY InvInit, InvStep, PTL DEF Spec

\* Every link, tick and admin request stays in its types.
THEOREM TypeCorrect == Spec => []TypeOK
<1>1. Inv => TypeOK
  BY DEF Inv
<1> QED BY <1>1, Invariant, PTL

\* A link that the cron settles has paid its merchant, unless overlapping ticks
\* have given everything to the admin (withdrawPaymentFromLinksAndUpdateStatus).
THEOREM SettledIsPaid == Spec => []SuccessIsPaid
<1>1. Inv => SuccessIsPaid
  <2> SUFFICES ASSUME Inv, manual = 0, NEW l \in Links, status[l] = "SUCCESS"
               PROVE  \/ toMerchant[l] > 0
                      \/ l \notin Native /\ "overlap" \in happened /\ toAdmin[l] = Received[l]
    BY DEF SuccessIsPaid
  <2>1. Spent(l)
    BY DEF Inv, NetNoted
  <2>2. /\ balance[l] + toMerchant[l] + toAdmin[l] = Received[l]
        /\ balance[l] \in Nat /\ toMerchant[l] \in Nat /\ toAdmin[l] \in Nat
    BY DEF Inv, Conserved, TypeOK
  <2> QED BY <2>1, <2>2 DEF Spent
<1> QED BY <1>1, Invariant, PTL

\* A settled link is never reopened, neither by an overlapping tick nor by the
\* save of an admin request that has read it before.
THEOREM SettledStays == Spec => SuccessIsFinal
<1> DEFINE Step == \A l \in Links : status[l] = "SUCCESS" => status'[l] = "SUCCESS"
<1>1. Inv /\ [Next]_vars => [Step]_vars
  <2> SUFFICES ASSUME Inv, [Next]_vars PROVE Step
    OBVIOUS
  <2>1. Move
    BY InvStep
  <2>2. UNCHANGED status \/ \E l : StatusBecomes(l, "SUCCESS")
    BY <2>1 DEF Move, TickMove, StartMove, NextMove, StopMove, ReadMove,
        EstimateMove, FundGasMove, SkipLinkMove, RecordGasMove, SplitMove, SkipFeeMove, FeeMove, NetMove,
        RecordAdminMove, RecordMerchantMove, AnnounceMove, OpenMove, HandMove, SaveMove, Kept, vars, dbVars
  <2> QED BY <2>2 DEF StatusBecomes
<1> QED BY <1>1, Invariant, PTL DEF Spec, SuccessIsFinal

\* The fee is noted only when it is paid, it is not taken twice, and the merchant
\* gets the rest, to the extent that the faults allow.
THEOREM BooksAreTrue == Spec => []BooksAgree
<1>1. Inv => BooksAgree
  <2> SUFFICES ASSUME Inv PROVE BooksAgree
    OBVIOUS
  <2>1. TypeOK /\ ChargedIsPaid
    BY DEF Inv, FeeNoted, FeeSettled, ChargedIsPaid
  <2>2. AdminFeeOnce
    BY DEF Inv, FeeOnce, AdminFeeOnce, Share
  <2>3. MerchantGetsNet
    <3> SUFFICES ASSUME manual = 0, happened \subseteq {"reverted", "write"}, NEW l \in Links, status[l] = "SUCCESS"
                 PROVE  toMerchant[l] >= Received[l] - AdminShare[Received[l]]
      BY DEF MerchantGetsNet
    <3> QED BY DEF Inv, NetWhole, Untouched, NetOf, Share
  <2> QED BY <2>1, <2>2, <2>3 DEF BooksAgree
<1> QED BY <1>1, Invariant, PTL
=============================================================================
