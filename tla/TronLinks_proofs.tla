-------------------------- MODULE TronLinks_proofs --------------------------
(***************************************************************************)
(* Proofs about TronLinks, for any links, transfers, activations, ticks,   *)
(* faults and bounds.                                                      *)
(*                                                                         *)
(* TronInv says what the activations know, and that no money is lost: what *)
(* has arrived at an address is there, or with the merchant or the admin.  *)
(* The actions are restated by their effects (Moves), once; each invariant *)
(* is then shown to be kept by a move.                                     *)
(***************************************************************************)
EXTENDS TronLinks, SumTheorems

-----------------------------------------------------------------------------
(* What has arrived.                                                       *)

\* Arrived(l), if the transfers of s are the ones on the chain.
Got(s, l) == SumOver(TxAmount, {t \in s : TxTo[t] = l})

LEMMA ArrivedIsGot == ASSUME NEW l PROVE Arrived(l) = Got(sent, l)
BY DEF Arrived, Got, SumOver

LEMMA GotFacts ==
  ASSUME NEW s \in SUBSET Txs, NEW l \in Links
  PROVE  /\ Got(s, l) \in Nat
         /\ \A n \in Nat : n <= Got(s, l) => n \in Amounts
         /\ \A t \in s : TxTo[t] = l => TxAmount[t] <= Got(s, l)
<1> DEFINE S == {t \in s : TxTo[t] = l}
           T == {t \in Txs : TxTo[t] = l}
<1>1. IsFiniteSet(T) /\ S \subseteq T /\ IsFiniteSet(S)
  BY TronAssumption, FS_Subset
<1>2. \A t \in T : TxAmount[t] \in Nat
  BY TronAssumption
<1>3. Got(s, l) = SumOver(TxAmount, S) /\ Arrivable(l) = SumOver(TxAmount, T)
  BY DEF Got, Arrivable, SumOver
<1>4. SumOver(TxAmount, S) \in Nat /\ SumOver(TxAmount, T) \in Nat
  <2> HIDE DEF S, T
  <2> QED BY <1>1, <1>2, SumNat
<1>5. SumOver(TxAmount, S) <= SumOver(TxAmount, T)
  <2> HIDE DEF S, T
  <2> QED BY <1>1, <1>2, SumSubset
<1>6. ASSUME NEW n \in Nat, n <= Got(s, l) PROVE n \in Amounts
  BY <1>3, <1>4, <1>5, <1>6 DEF Amounts
<1>7. ASSUME NEW t \in s, TxTo[t] = l PROVE TxAmount[t] <= Got(s, l)
  <2>1. t \in S /\ Summable(TxAmount, S)
    BY <1>1, <1>2, <1>7 DEF Summable
  <2>2. SumOver(TxAmount, S) = TxAmount[t] + SumOver(TxAmount, S \ {t})
    <3> HIDE DEF S
    <3> QED BY <2>1, SumRemove
  <2>3. SumOver(TxAmount, S \ {t}) \in Nat /\ TxAmount[t] \in Nat
    <3>1. IsFiniteSet(S \ {t}) /\ \A x \in S \ {t} : TxAmount[x] \in Nat
      BY <1>1, <1>2, FS_Subset
    <3>2. TxAmount[t] \in Nat
      BY <1>1, <1>2, <2>1
    <3> HIDE DEF S
    <3> QED BY <3>1, <3>2, SumNat
  <2> QED BY <1>3, <2>2, <2>3
<1> QED BY <1>3, <1>4, <1>6, <1>7

LEMMA GotGrows ==
  ASSUME NEW s \in SUBSET Txs, NEW t \in Txs \ s, NEW l \in Links
  PROVE  Got(s \cup {t}, l) = Got(s, l) + (IF TxTo[t] = l THEN TxAmount[t] ELSE 0)
<1> DEFINE S == {x \in s : TxTo[x] = l}
           S1 == {x \in s \cup {t} : TxTo[x] = l}
<1>1. Got(s, l) = SumOver(TxAmount, S) /\ Got(s \cup {t}, l) = SumOver(TxAmount, S1)
  BY DEF Got
<1>2. TxAmount[t] \in Int /\ Summable(TxAmount, S) /\ t \notin S /\ SumOver(TxAmount, S) \in Int
  <2>1. IsFiniteSet(S)
    <3>1. S \subseteq Txs
      OBVIOUS
    <3> QED BY <3>1, TronAssumption, FS_Subset
  <2>2. Summable(TxAmount, S)
    BY <2>1, TronAssumption DEF Summable
  <2> QED BY <2>2, SumType, TronAssumption
<1>3. CASE TxTo[t] = l
  <2>1. S1 = S \cup {t}
    BY <1>3
  <2>2. SumOver(TxAmount, S \cup {t}) = TxAmount[t] + SumOver(TxAmount, S)
    <3> HIDE DEF S
    <3> QED BY <1>2, SumAdd
  <2> HIDE DEF S, S1
  <2> QED BY <1>1, <1>2, <1>3, <2>1, <2>2
<1>4. CASE TxTo[t] # l
  <2>1. S1 = S
    BY <1>4
  <2> HIDE DEF S, S1
  <2> QED BY <1>1, <1>2, <1>4, <2>1
<1> QED BY <1>3, <1>4

-----------------------------------------------------------------------------
(* Types, what the activations know, and where the money is.              *)

HandlerKnows(r, s) ==
  /\ r.pc # "idle" => r.tx \in s
  /\ r.pc \in {"balance", "store", "notify"} => r.link = TxTo[r.tx]
  /\ r.pc = "store" => r.total <= Got(s, r.link)

CronKnows(r, s) ==
  /\ r.pc \in {"store", "notify"} => r.link \in Links
  /\ r.pc = "store" => r.total <= Got(s, r.link)

HandlersInOrder == \A h \in Handlers : HandlerKnows(handler[h], sent)

CronsInOrder == \A c \in Crons : CronKnows(cron[c], sent)

TicksInOrder ==
  \A w \in Ticks :
    /\ \A l \in Links : tick[w].total[l] <= Got(sent, l)
    /\ tick[w].pc \notin {"idle", "next"} =>
         /\ tick[w].link \in Links /\ tick[w].link \notin tick[w].todo
         /\ Suffices(tick[w].link, tick[w].total[tick[w].link])

MoneyInOrder ==
  \A l \in Links :
    /\ received[l] <= Got(sent, l) /\ visible[l] <= Got(sent, l)
    /\ balance[l] + toMerchant[l] + toAdmin[l] = Got(sent, l)

TronInv ==
  TypeOK /\ HandlersInOrder /\ CronsInOrder /\ TicksInOrder /\ MoneyInOrder

\* The steps, told by what they change.
Trouble ==
  /\ faults' \in 0..MaxFaults /\ broken' = broken
  /\ happened \subseteq happened' /\ happened' \subseteq Faults

Comes ==
  \E t \in Txs \ sent :
    /\ sent' = sent \cup {t}
    /\ balance' = [balance EXCEPT ![TxTo[t]] = @ + TxAmount[t]]
    /\ UNCHANGED <<dbVars, visible, toMerchant, toAdmin, detectVars, tick, history, trouble>>

Syncs ==
  /\ visible' \in [Links -> Nat] /\ \A l \in Links : visible'[l] \in {visible[l], balance[l]}
  /\ UNCHANGED <<dbVars, sent, chainVars, detectVars, tick, history, trouble>>

\* Handlers, detector ticks and the expiry cron.
Detects ==
  /\ deliveries' \in [Txs -> 0..MaxDeliveries]
  /\ handler' \in [Handlers -> HandlerState] /\ HandlersInOrder'
  /\ cron' \in [Crons -> CronState] /\ CronsInOrder'
  /\ Trouble
  /\ UNCHANGED <<payVars, sent, chainVars, visible, tick>>
  /\ \/ UNCHANGED <<status, received>>
     \/ \E l \in Links : /\ status[l] = "PENDING" /\ status' = [status EXCEPT ![l] = "EXPIRED"]
                         /\ UNCHANGED received
     \/ \E l \in Links, n \in Nat : n <= Got(sent, l) /\ Store(l, n)

Others(w) ==
  /\ tick' \in [Ticks -> TickState]
  /\ \A v \in Ticks : v # w => tick'[v] = tick[v]

Idles(w) == tick'[w] = IdleTick

\* w stays with the link that it works on, unless it goes on to the next.
Keeps(w) ==
  /\ tick'[w].todo = tick[w].todo /\ tick'[w].count = tick[w].count
  /\ tick'[w].total = tick[w].total /\ tick'[w].link = tick[w].link
  /\ tick'[w].pc = "next" \/ tick[w].pc \notin {"idle", "next"}
  /\ tick'[w].pc # "idle"

Starts(w) ==
  /\ UNCHANGED <<dbVars, chainVars, history>>
  /\ tick'[w].pc = "next" /\ tick'[w].link = Nil
  /\ tick'[w].count = retries /\ tick'[w].total = received

GivesUp(w) ==
  /\ UNCHANGED <<status, received, chainVars, history>>
  /\ tick[w].pc = "next" /\ tick'[w].pc = "next"
  /\ tick'[w].count = tick[w].count /\ tick'[w].total = tick[w].total
  /\ tick'[w].link = tick[w].link
  /\ tick'[w].netPaid = tick[w].netPaid /\ tick'[w].feePaid = tick[w].feePaid
  /\ \E l \in tick[w].todo :
       /\ GivenUp(w, l) /\ tick'[w].todo = tick[w].todo \ {l}
       /\ withdraw' \in [Links -> WithdrawStatus]
       /\ retries' = [retries EXCEPT ![l] = tick[w].count[l] + 1]

Tries(w) ==
  /\ UNCHANGED <<status, received, withdraw, chainVars, announced>>
  /\ tick[w].pc = "next"
  /\ tick'[w].count = tick[w].count /\ tick'[w].total = tick[w].total
  /\ ~tick'[w].netPaid /\ ~tick'[w].feePaid
  /\ \E l \in tick[w].todo :
       /\ ~GivenUp(w, l) /\ tick'[w].todo = tick[w].todo \ {l} /\ tick'[w].link = l
       /\ tick'[w].pc = "next" \/ (Suffices(l, tick[w].total[l]) /\ tick'[w].pc # "idle")
       /\ retries' = [retries EXCEPT ![l] = @ + 1]
       /\ attempts' \in [Links -> Nat]
       /\ attempts'[l] \in {attempts[l], attempts[l] + 1}
       /\ \A k \in Links : k # l => attempts'[k] = attempts[k]

Walks(w) ==
  /\ UNCHANGED <<dbVars, chainVars, attempts>>
  /\ announced' \in [Links -> Nat]
  /\ \/ Idles(w)
     \/ Keeps(w) /\ tick'[w].netPaid = tick[w].netPaid /\ tick'[w].feePaid = tick[w].feePaid

\* A leg moves money from the address to the merchant or the admin.
PaysMerchant(w) ==
  LET l == tick[w].link IN
  /\ UNCHANGED <<dbVars, toAdmin, history>>
  /\ balance' \in [Links -> Nat] /\ toMerchant' \in [Links -> Nat]
  /\ \A k \in Links : /\ toMerchant'[k] >= toMerchant[k]
                      /\ balance'[k] + toMerchant'[k] = balance[k] + toMerchant[k]
  /\ \/ Idles(w)
     \/ /\ Keeps(w) /\ tick'[w].feePaid = tick[w].feePaid
        /\ tick'[w].netPaid => toMerchant'[l] >= Net(w) \/ "unmined" \in happened'

PaysAdmin(w) ==
  LET l == tick[w].link IN
  /\ UNCHANGED <<dbVars, toMerchant, history>>
  /\ balance' \in [Links -> Nat] /\ toAdmin' \in [Links -> Nat]
  /\ \A k \in Links : /\ toAdmin'[k] >= toAdmin[k]
                      /\ balance'[k] + toAdmin'[k] = balance[k] + toAdmin[k]
  /\ \/ Idles(w)
     \/ /\ Keeps(w) /\ tick'[w].netPaid = tick[w].netPaid
        /\ tick'[w].feePaid => toAdmin'[l] >= Fee(w) \/ "unmined" \in happened'

Records(w) ==
  LET l == tick[w].link IN
  /\ UNCHANGED <<received, retries, chainVars, history>>
  /\ tick[w].pc = "record" /\ tick'[w].pc = "announce"
  /\ Keeps(w) /\ tick'[w].netPaid = tick[w].netPaid /\ tick'[w].feePaid = tick[w].feePaid
  /\ withdraw' \in [Links -> WithdrawStatus]
  /\ status' = [status EXCEPT ![l] = IF Settled(w) THEN "SUCCESS" ELSE @]

Works ==
  \E w \in Ticks :
    /\ Others(w) /\ Trouble
    /\ UNCHANGED <<sent, visible, detectVars>>
    /\ \/ Starts(w) \/ GivesUp(w) \/ Tries(w) \/ Walks(w)
       \/ PaysMerchant(w) \/ PaysAdmin(w) \/ Records(w)

Moves == Comes \/ Syncs \/ Detects \/ Works

LEMMA TickFacts ==
  ASSUME TronInv, NEW w \in Ticks
  PROVE  /\ tick[w] \in TickState /\ tick \in [Ticks -> TickState]
         /\ \A l \in Links : tick[w].total[l] \in Nat /\ tick[w].count[l] \in Nat
         /\ tick[w].pc \notin {"idle", "next"} =>
              /\ tick[w].link \in Links
              /\ Net(w) \in Nat /\ Fee(w) \in Nat /\ Net(w) + Fee(w) = tick[w].total[tick[w].link]
<1>1. tick[w] \in TickState /\ tick \in [Ticks -> TickState]
  BY DEF TronInv, TypeOK
<1>2. \A l \in Links : tick[w].total[l] \in Nat /\ tick[w].count[l] \in Nat
  BY <1>1 DEF TickState
<1>3. ASSUME tick[w].pc \notin {"idle", "next"}
      PROVE  /\ tick[w].link \in Links
             /\ Net(w) \in Nat /\ Fee(w) \in Nat /\ Net(w) + Fee(w) = tick[w].total[tick[w].link]
  <2> DEFINE l == tick[w].link
             n == tick[w].total[l]
  <2>1. l \in Links
    BY <1>3 DEF TronInv, TicksInOrder
  <2>2. n \in Nat /\ n <= Got(sent, l)
    BY <1>2, <2>1 DEF TronInv, TicksInOrder
  <2>3. n \in Amounts
    BY <2>1, <2>2, GotFacts DEF TronInv, TypeOK
  <2>4. NetOf[n] \in Nat /\ NetOf[n] <= n
    BY <2>3, TronAssumption
  <2> QED BY <2>1, <2>2, <2>4 DEF Net, Fee
<1> QED BY <1>1, <1>2, <1>3

LEMMA HandlerGoes ==
  ASSUME TronInv, sent' = sent, NEW h \in Handlers, NEW r \in HandlerState, HandlerKnows(r, sent),
         handler' = [handler EXCEPT ![h] = r]
  PROVE  handler' \in [Handlers -> HandlerState] /\ HandlersInOrder'
<1>1. handler \in [Handlers -> HandlerState] /\ \A g \in Handlers : HandlerKnows(handler[g], sent)
  BY DEF TronInv, TypeOK, HandlersInOrder
<1>2. \A g \in Handlers : HandlerKnows(handler'[g], sent')
  BY <1>1
<1> QED BY <1>1, <1>2 DEF HandlersInOrder

LEMMA CronGoes ==
  ASSUME TronInv, sent' = sent, NEW c \in Crons, NEW r \in CronState, CronKnows(r, sent),
         cron' = [cron EXCEPT ![c] = r]
  PROVE  cron' \in [Crons -> CronState] /\ CronsInOrder'
<1>1. cron \in [Crons -> CronState] /\ \A g \in Crons : CronKnows(cron[g], sent)
  BY DEF TronInv, TypeOK, CronsInOrder
<1>2. \A g \in Crons : CronKnows(cron'[g], sent')
  BY <1>1
<1> QED BY <1>1, <1>2 DEF CronsInOrder

LEMMA TroubleKept ==
  ASSUME TronInv, UNCHANGED trouble \/ \E k : Fault(k)
  PROVE  Trouble
BY TronAssumption DEF TronInv, TypeOK, trouble, Fault, Trouble

LEMMA HandlerMoves ==
  ASSUME TronInv, NEW h \in Handlers,
         (\E t \in Txs : Receive(h, t)) \/ HandlerStep(h)
  PROVE  Detects
<1>0. /\ handler[h] \in HandlerState /\ HandlerKnows(handler[h], sent) /\ sent \subseteq Txs
      /\ cron \in [Crons -> CronState] /\ CronsInOrder /\ visible \in [Links -> Nat]
      /\ deliveries \in [Txs -> 0..MaxDeliveries] /\ MaxDeliveries \in Nat
      /\ \A l \in Links : visible[l] <= Got(sent, l)
  BY TronAssumption DEF TronInv, TypeOK, HandlersInOrder, MoneyInOrder
<1>1. IdleHandler \in HandlerState /\ HandlerKnows(IdleHandler, sent)
  BY DEF IdleHandler, HandlerState, HandlerKnows
<1>2. UNCHANGED <<sent, cron>> => cron' \in [Crons -> CronState] /\ CronsInOrder'
  BY <1>0 DEF CronsInOrder
<1>3. ASSUME NEW t \in Txs, Receive(h, t) PROVE Detects
  <2> DEFINE r == [IdleHandler EXCEPT !.pc = "find", !.tx = t]
  <2>1. r \in HandlerState /\ HandlerKnows(r, sent)
    BY <1>3 DEF IdleHandler, HandlerState, HandlerKnows, Receive
  <2>2. handler' \in [Handlers -> HandlerState] /\ HandlersInOrder'
    <3>1. handler' = [handler EXCEPT ![h] = r] /\ sent' = sent
      BY <1>3 DEF Receive
    <3> HIDE DEF r
    <3> QED BY <2>1, <3>1, HandlerGoes
  <2>3. deliveries' \in [Txs -> 0..MaxDeliveries]
    <3>1. deliveries[t] + 1 \in 0..MaxDeliveries
      <4>1. deliveries[t] \in 0..MaxDeliveries /\ deliveries[t] < MaxDeliveries
        BY <1>0, <1>3 DEF Receive
      <4> QED BY <1>0, <4>1
    <3>2. deliveries' = [deliveries EXCEPT ![t] = deliveries[t] + 1]
      BY <1>3 DEF Receive
    <3> QED BY <1>0, <3>1, <3>2
  <2> QED BY <1>2, <1>3, <2>2, <2>3, TroubleKept DEF Receive, Detects, dbVars, payVars, history
<1>4. CASE FindLink(h)
  <2> DEFINE l == TxTo[handler[h].tx]
             r == [handler[h] EXCEPT !.pc = "balance", !.link = l]
  <2>1. r \in HandlerState /\ HandlerKnows(r, sent)
    <3>1. handler[h].tx \in sent
      BY <1>0, <1>4 DEF FindLink, HandlerKnows
    <3>2. l \in Links
      BY <1>0, <3>1, TronAssumption
    <3> HIDE DEF l
    <3>3. r \in HandlerState /\ r.pc = "balance" /\ r.tx = handler[h].tx /\ r.link = l
      BY <1>0, <3>2 DEF HandlerState
    <3> QED BY <3>1, <3>3 DEF HandlerKnows, l
  <2>2. handler' = [handler EXCEPT ![h] = r] \/ handler' = [handler EXCEPT ![h] = IdleHandler]
    BY <1>4 DEF FindLink
  <2>3. sent' = sent
    BY <1>4 DEF FindLink
  <2>4. handler' \in [Handlers -> HandlerState] /\ HandlersInOrder'
    <3> HIDE DEF r
    <3> QED BY <1>1, <2>1, <2>2, <2>3, HandlerGoes
  <2> QED BY <1>0, <1>2, <1>4, <2>4, TroubleKept DEF FindLink, Detects, dbVars, payVars, history
<1>5. CASE ReadBalance(h)
  <2> DEFINE l == handler[h].link
             told == TxAmount[handler[h].tx]
             r(n) == [handler[h] EXCEPT !.pc = "store", !.total = n]
  <2>1. handler[h].tx \in sent /\ l = TxTo[handler[h].tx] /\ sent' = sent
    BY <1>0, <1>5 DEF ReadBalance, HandlerKnows
  <2>2. l \in Links /\ told \in Nat /\ told <= Got(sent, l) /\ visible[l] \in Nat /\ visible[l] <= Got(sent, l)
    BY <1>0, <2>1, GotFacts, TronAssumption
  <2>3. ASSUME NEW n \in Nat, n <= Got(sent, l) PROVE r(n) \in HandlerState /\ HandlerKnows(r(n), sent)
    <3>1. /\ r(n) \in HandlerState /\ r(n).pc = "store" /\ r(n).total = n /\ r(n).link = l
          /\ r(n).tx = handler[h].tx
      BY <1>0 DEF HandlerState
    <3> QED BY <2>1, <2>3, <3>1 DEF HandlerKnows
  <2>4. PICK n \in {visible[l], told} : handler' = [handler EXCEPT ![h] = r(n)]
    BY <1>5 DEF ReadBalance
  <2>5. handler' \in [Handlers -> HandlerState] /\ HandlersInOrder'
    <3>1. n \in Nat /\ n <= Got(sent, l)
      BY <2>2, <2>4
    <3>2. r(n) \in HandlerState /\ HandlerKnows(r(n), sent)
      BY <2>3, <3>1
    <3> HIDE DEF r
    <3> QED BY <2>1, <2>4, <3>2, HandlerGoes
  <2>6. Trouble
    BY <1>5, TroubleKept DEF ReadBalance
  <2> QED BY <1>0, <1>2, <1>5, <2>5, <2>6 DEF ReadBalance, Detects, dbVars, payVars, history
<1>6. CASE HandlerStore(h)
  <2> DEFINE l == handler[h].link
             n == handler[h].total
             r == [handler[h] EXCEPT !.pc = "notify"]
  <2>1. l = TxTo[handler[h].tx] /\ handler[h].tx \in sent /\ n <= Got(sent, l) /\ n \in Nat /\ sent' = sent
    BY <1>0, <1>6 DEF HandlerStore, HandlerKnows, HandlerState
  <2>2. l \in Links
    BY <1>0, <2>1, TronAssumption
  <2>3. r \in HandlerState /\ HandlerKnows(r, sent)
    <3>1. r \in HandlerState /\ r.pc = "notify" /\ r.link = l /\ r.tx = handler[h].tx
      BY <1>0 DEF HandlerState
    <3> QED BY <2>1, <3>1 DEF HandlerKnows
  <2>4. handler' = [handler EXCEPT ![h] = r] \/ handler' = [handler EXCEPT ![h] = IdleHandler]
    BY <1>6 DEF HandlerStore
  <2>5. handler' \in [Handlers -> HandlerState] /\ HandlersInOrder'
    <3> HIDE DEF r
    <3> QED BY <1>1, <2>1, <2>3, <2>4, HandlerGoes
  <2>6. Store(l, n)
    BY <1>6 DEF HandlerStore
  <2> QED BY <1>0, <1>2, <1>6, <2>1, <2>2, <2>5, <2>6, TroubleKept DEF HandlerStore, Detects
<1>7. CASE HandlerEnds(h)
  <2>1. handler' = [handler EXCEPT ![h] = IdleHandler] /\ sent' = sent
    BY <1>7 DEF HandlerEnds
  <2>2. handler' \in [Handlers -> HandlerState] /\ HandlersInOrder'
    BY <1>1, <2>1, HandlerGoes
  <2>3. Trouble
    BY <1>7, TroubleKept DEF HandlerEnds
  <2> QED BY <1>0, <1>2, <1>7, <2>2, <2>3 DEF HandlerEnds, Detects, dbVars, payVars, history
<1> QED BY <1>3, <1>4, <1>5, <1>6, <1>7 DEF HandlerStep

LEMMA CronMoves ==
  ASSUME TronInv, NEW c \in Crons, CronStep(c)
  PROVE  Detects
<1>0. /\ cron[c] \in CronState /\ CronKnows(cron[c], sent) /\ sent \subseteq Txs
      /\ handler \in [Handlers -> HandlerState] /\ HandlersInOrder /\ visible \in [Links -> Nat]
      /\ deliveries \in [Txs -> 0..MaxDeliveries]
      /\ \A l \in Links : visible[l] <= Got(sent, l)
  BY DEF TronInv, TypeOK, CronsInOrder, MoneyInOrder
<1>1. IdleCron \in CronState /\ CronKnows(IdleCron, sent)
  BY DEF IdleCron, CronState, CronKnows
<1>2. UNCHANGED <<sent, handler>> => handler' \in [Handlers -> HandlerState] /\ HandlersInOrder'
  BY <1>0 DEF HandlersInOrder
<1>3. ASSUME NEW r \in CronState, CronKnows(r, sent), cron' = [cron EXCEPT ![c] = r],
             UNCHANGED <<dbVars, sent, chainVars, visible, deliveries, handler, tick, history>>, Trouble
      PROVE  Detects
  <2>1. cron' \in [Crons -> CronState] /\ CronsInOrder'
    BY <1>3, CronGoes
  <2> QED BY <1>0, <1>2, <1>3, <2>1 DEF Detects, dbVars, payVars, history
<1>4. CASE CronStart(c)
  <2> DEFINE r == [IdleCron EXCEPT !.pc = "next", !.todo = Undetected]
  <2>1. r \in CronState /\ CronKnows(r, sent)
    BY DEF IdleCron, CronState, CronKnows, Undetected
  <2>2. cron' = [cron EXCEPT ![c] = r]
    BY <1>4 DEF CronStart
  <2> HIDE DEF r
  <2> QED BY <1>3, <1>4, <2>1, <2>2, TroubleKept DEF CronStart
<1>5. CASE CronLook(c)
  <2>1. PICK l \in cron[c].todo :
          \/ /\ visible[l] > 0
             /\ cron' = [cron EXCEPT ![c] =
                  [@ EXCEPT !.pc = "store", !.todo = cron[c].todo \ {l}, !.link = l,
                            !.total = visible[l]]]
             /\ UNCHANGED trouble
          \/ /\ (visible[l] = 0 /\ UNCHANGED trouble) \/ Fault("listing")
             /\ cron' = [cron EXCEPT ![c].todo = @ \ {l}]
    BY <1>5 DEF CronLook
  <2> DEFINE r == [cron[c] EXCEPT !.pc = "store", !.todo = cron[c].todo \ {l}, !.link = l,
                                 !.total = visible[l]]
             q == [cron[c] EXCEPT !.todo = @ \ {l}]
  <2>2. l \in Links /\ cron[c].pc = "next"
    BY <1>0, <1>5 DEF CronState, CronLook
  <2>3. r \in CronState /\ CronKnows(r, sent)
    <3>1. r \in CronState /\ r.pc = "store" /\ r.link = l /\ r.total = visible[l]
      BY <1>0, <2>2 DEF CronState
    <3> QED BY <1>0, <2>2, <3>1 DEF CronKnows
  <2>4. q \in CronState /\ CronKnows(q, sent)
    <3>1. q \in CronState /\ q.pc = "next"
      BY <1>0, <2>2 DEF CronState
    <3> QED BY <3>1 DEF CronKnows
  <2>5. cron' = [cron EXCEPT ![c] = r] \/ cron' = [cron EXCEPT ![c] = q]
    <3>1. [cron EXCEPT ![c].todo = @ \ {l}] = [cron EXCEPT ![c] = q]
      OBVIOUS
    <3> QED BY <2>1, <3>1
  <2>6. Trouble
    BY <2>1, TroubleKept
  <2> HIDE DEF r, q
  <2> QED BY <1>3, <1>5, <2>3, <2>4, <2>5, <2>6 DEF CronLook
<1>6. CASE CronStore(c)
  <2> DEFINE l == cron[c].link
             n == cron[c].total
             r(p) == [cron[c] EXCEPT !.pc = p]
  <2>1. l \in Links /\ n <= Got(sent, l) /\ n \in Nat /\ sent' = sent
    BY <1>0, <1>6 DEF CronStore, CronKnows, CronState
  <2>2. \A p \in {"notify", "next"} : r(p) \in CronState /\ CronKnows(r(p), sent)
    <3>1. \A p \in {"notify", "next"} : r(p) \in CronState /\ r(p).pc = p /\ r(p).link = l
      BY <1>0 DEF CronState
    <3> QED BY <2>1, <3>1 DEF CronKnows
  <2>3. PICK p \in {"notify", "next"} : cron' = [cron EXCEPT ![c] = r(p)]
    BY <1>6 DEF CronStore
  <2>4. cron' \in [Crons -> CronState] /\ CronsInOrder'
    <3> HIDE DEF r
    <3> QED BY <2>1, <2>2, <2>3, CronGoes
  <2>5. Store(l, n)
    BY <1>6 DEF CronStore
  <2> QED BY <1>0, <1>2, <1>6, <2>1, <2>4, <2>5, TroubleKept DEF CronStore, Detects
<1>7. CASE CronNotify(c)
  <2> DEFINE r == [cron[c] EXCEPT !.pc = "next"]
  <2>1. r \in CronState /\ r.pc = "next"
    BY <1>0 DEF CronState
  <2>2. CronKnows(r, sent)
    BY <2>1 DEF CronKnows
  <2>3. cron' = [cron EXCEPT ![c] = r]
    BY <1>7 DEF CronNotify
  <2> HIDE DEF r
  <2> QED BY <1>3, <1>7, <2>1, <2>2, <2>3, TroubleKept DEF CronNotify
<1>8. CASE CronEnds(c)
  <2>1. cron' = [cron EXCEPT ![c] = IdleCron]
    BY <1>8 DEF CronEnds
  <2>2. Trouble
    BY <1>8, TroubleKept DEF CronEnds
  <2> QED BY <1>1, <1>3, <1>8, <2>1, <2>2 DEF CronEnds
<1> QED BY <1>4, <1>5, <1>6, <1>7, <1>8 DEF CronStep
LEMMA TickGoes ==
  ASSUME TronInv, NEW w \in Ticks, NEW r \in TickState, tick' = [tick EXCEPT ![w] = r]
  PROVE  Others(w) /\ tick'[w] = r
BY TickFacts DEF Others

LEMMA ThrowGoes ==
  ASSUME TronInv, NEW w \in Ticks, Throw(w)
  PROVE  Others(w) /\ Idles(w)
<1>1. IdleTick \in TickState
  BY DEF IdleTick, TickState
<1> QED BY <1>1, TickGoes DEF Throw, Idles

\* The step of w is a step of one kind, if w goes on with r.
LEMMA TickOnlyGoes ==
  ASSUME TronInv, NEW w \in Ticks, NEW p \in {"next", "merchant", "adminGas", "admin", "record", "announce"},
         NEW a \in BOOLEAN, NEW b \in BOOLEAN, NEW c \in BOOLEAN,
         tick' = [tick EXCEPT ![w] = [@ EXCEPT !.pc = p, !.netPaid = a, !.feePaid = b, !.again = c]],
         p = "next" \/ tick[w].pc \notin {"idle", "next"}
  PROVE  /\ Others(w) /\ Keeps(w) /\ tick'[w].pc = p
         /\ tick'[w].netPaid = a /\ tick'[w].feePaid = b
<1> DEFINE r == [tick[w] EXCEPT !.pc = p, !.netPaid = a, !.feePaid = b, !.again = c]
<1>0. tick[w] \in TickState
  BY TickFacts
<1>1. r \in TickState
  BY <1>0 DEF TickState
<1>2. /\ r.pc = p /\ r.netPaid = a /\ r.feePaid = b
      /\ r.todo = tick[w].todo /\ r.count = tick[w].count /\ r.total = tick[w].total
      /\ r.link = tick[w].link
  BY TickFacts DEF TickState
<1>3. tick' = [tick EXCEPT ![w] = r]
  OBVIOUS
<1> HIDE DEF r
<1>4. Others(w) /\ tick'[w] = r
  BY <1>1, <1>3, TickGoes
<1> QED BY <1>2, <1>4 DEF Keeps

\* A transfer that is mined moves n.
LEMMA Pours ==
  ASSUME NEW b \in [Links -> Nat], NEW p \in [Links -> Nat], NEW l \in Links, NEW n \in Nat,
         NEW b2, NEW p2, n <= b[l], b2 = [b EXCEPT ![l] = @ - n], p2 = [p EXCEPT ![l] = @ + n]
  PROVE  /\ b2 \in [Links -> Nat] /\ p2 \in [Links -> Nat]
         /\ \A k \in Links : p2[k] >= p[k] /\ b2[k] + p2[k] = b[k] + p[k]
         /\ p2[l] >= n
<1>1. b[l] - n \in Nat
  OBVIOUS
<1>2. b2 \in [Links -> Nat] /\ p2 \in [Links -> Nat]
  BY <1>1
<1>3. ASSUME NEW k \in Links PROVE p2[k] >= p[k] /\ b2[k] + p2[k] = b[k] + p[k]
  <2>1. CASE k = l
    BY <2>1
  <2>2. CASE k # l
    BY <2>2
  <2> QED BY <2>1, <2>2
<1> QED BY <1>2, <1>3

LEMMA TickMoves ==
  ASSUME TronInv, NEW w \in Ticks, TickStep(w)
  PROVE  Works
<1>0. /\ tick[w] \in TickState /\ tick \in [Ticks -> TickState]
      /\ withdraw \in [Links -> WithdrawStatus] /\ retries \in [Links -> Nat]
      /\ received \in [Links -> Nat] /\ attempts \in [Links -> Nat] /\ announced \in [Links -> Nat]
  BY TickFacts DEF TronInv, TypeOK
<1>1. CASE TickStart(w)
  <2> DEFINE r == [IdleTick EXCEPT !.pc = "next", !.todo = Selected, !.count = retries,
                                   !.total = received]
  <2>1. r \in TickState
    BY <1>0 DEF TickState, IdleTick, Selected
  <2>2. r.pc = "next" /\ r.link = Nil /\ r.count = retries /\ r.total = received
    BY DEF IdleTick
  <2>3. tick' = [tick EXCEPT ![w] = r]
    BY <1>1 DEF TickStart
  <2> HIDE DEF r
  <2>4. Others(w) /\ tick'[w] = r
    BY <2>1, <2>3, TickGoes
  <2>5. Starts(w)
    BY <1>1, <2>2, <2>4 DEF TickStart, Starts
  <2> QED BY <1>1, <2>4, <2>5, TroubleKept DEF TickStart, Works
<1>2. CASE TickGivesUp(w)
  <2>1. PICK l \in tick[w].todo :
          /\ GivenUp(w, l)
          /\ withdraw' = [withdraw EXCEPT ![l] = "WITHDRAW_FAILED"]
          /\ retries' = [retries EXCEPT ![l] = tick[w].count[l] + 1]
          /\ tick' = [tick EXCEPT ![w].todo = @ \ {l}]
    BY <1>2 DEF TickGivesUp
  <2> DEFINE r == [tick[w] EXCEPT !.todo = tick[w].todo \ {l}]
  <2>2. r \in TickState
    BY <1>0 DEF TickState
  <2>3. /\ r.pc = tick[w].pc /\ r.todo = tick[w].todo \ {l} /\ r.count = tick[w].count
        /\ r.total = tick[w].total /\ r.link = tick[w].link
        /\ r.netPaid = tick[w].netPaid /\ r.feePaid = tick[w].feePaid
    BY <1>0 DEF TickState
  <2>4. tick' = [tick EXCEPT ![w] = r]
    BY <2>1
  <2> HIDE DEF r
  <2>5. Others(w) /\ tick'[w] = r
    BY <2>2, <2>4, TickGoes
  <2>6. withdraw' \in [Links -> WithdrawStatus]
    BY <1>0, <2>1 DEF WithdrawStatus
  <2>7. GivesUp(w)
    BY <1>2, <2>1, <2>3, <2>5, <2>6 DEF TickGivesUp, GivesUp
  <2> QED BY <1>2, <2>5, <2>7, TroubleKept DEF TickGivesUp, Works
<1>3. CASE TickNext(w)
  <2>1. PICK l \in tick[w].todo :
          /\ ~GivenUp(w, l)
          /\ retries' = [retries EXCEPT ![l] = @ + 1]
          /\ LET due == Suffices(l, tick[w].total[l]) IN
             /\ attempts' = [attempts EXCEPT ![l] = IF due THEN @ + 1 ELSE @]
             /\ tick' = [tick EXCEPT ![w] =
                  [@ EXCEPT !.pc = IF ~due THEN "next" ELSE IF l \in Native THEN "merchant" ELSE "gas",
                            !.todo = tick[w].todo \ {l}, !.link = l,
                            !.netPaid = FALSE, !.feePaid = FALSE, !.again = FALSE]]
    BY <1>3 DEF TickNext
  <2>2. l \in Links
    BY <1>0 DEF TickState
  <2>3. PICK p \in {"next", "merchant", "gas"} :
          /\ p = "next" \/ Suffices(l, tick[w].total[l])
          /\ tick' = [tick EXCEPT ![w] =
               [@ EXCEPT !.pc = p, !.todo = tick[w].todo \ {l}, !.link = l,
                         !.netPaid = FALSE, !.feePaid = FALSE, !.again = FALSE]]
    BY <2>1
  <2> DEFINE r == [tick[w] EXCEPT !.pc = p, !.todo = tick[w].todo \ {l}, !.link = l,
                                  !.netPaid = FALSE, !.feePaid = FALSE, !.again = FALSE]
  <2>4. r \in TickState
    BY <1>0, <2>2 DEF TickState
  <2>5. /\ r.pc = p /\ r.todo = tick[w].todo \ {l} /\ r.count = tick[w].count
        /\ r.total = tick[w].total /\ r.link = l /\ ~r.netPaid /\ ~r.feePaid
    BY <1>0 DEF TickState
  <2>6. tick' = [tick EXCEPT ![w] = r]
    BY <2>3
  <2> HIDE DEF r
  <2>7. Others(w) /\ tick'[w] = r
    BY <2>4, <2>6, TickGoes
  <2>8. /\ attempts' \in [Links -> Nat] /\ attempts'[l] \in {attempts[l], attempts[l] + 1}
        /\ \A k \in Links : k # l => attempts'[k] = attempts[k]
    BY <1>0, <2>1, <2>2
  <2>9. Tries(w)
    BY <1>3, <2>1, <2>3, <2>5, <2>7, <2>8 DEF TickNext, Tries
  <2> QED BY <1>3, <2>7, <2>9, TroubleKept DEF TickNext, Works
<1> DEFINE Same(p) ==
      tick' = [tick EXCEPT ![w] = [@ EXCEPT !.pc = p, !.netPaid = tick[w].netPaid,
                                            !.feePaid = tick[w].feePaid, !.again = tick[w].again]]
<1>4. \A p : tick' = [tick EXCEPT ![w].pc = p] => Same(p)
  BY <1>0 DEF TickState
<1>5. tick[w].netPaid \in BOOLEAN /\ tick[w].feePaid \in BOOLEAN /\ tick[w].again \in BOOLEAN
  BY <1>0 DEF TickState
<1>6. CASE FundGas(w)
  <2>1. Trouble
    BY <1>6, TroubleKept DEF FundGas
  <2>2. PICK p \in {"merchant", "next"} : Same(p)
    BY <1>4, <1>6 DEF FundGas
  <2>3. tick[w].pc = "gas"
    BY <1>6 DEF FundGas
  <2>4. /\ Others(w) /\ Keeps(w)
        /\ tick'[w].netPaid = tick[w].netPaid /\ tick'[w].feePaid = tick[w].feePaid
    BY <1>5, <2>2, <2>3, TickOnlyGoes
  <2>5. Walks(w)
    BY <1>0, <1>6, <2>4 DEF FundGas, Walks, history
  <2> QED BY <1>6, <2>1, <2>4, <2>5 DEF FundGas, Works
<1>7. CASE FundAdminGas(w)
  <2>1. Trouble
    BY <1>7, TroubleKept DEF FundAdminGas
  <2>2. tick[w].pc = "adminGas" /\ (Same("admin") \/ Throw(w))
    BY <1>4, <1>7 DEF FundAdminGas
  <2>3. Same("admin") =>
          /\ Others(w) /\ Keeps(w)
          /\ tick'[w].netPaid = tick[w].netPaid /\ tick'[w].feePaid = tick[w].feePaid
    BY <1>5, <2>2, TickOnlyGoes
  <2>4. Others(w) /\ Walks(w)
    BY <1>0, <1>7, <2>2, <2>3, ThrowGoes DEF FundAdminGas, Walks, history
  <2> QED BY <1>7, <2>1, <2>4 DEF FundAdminGas, Works
<1>8. CASE Announce(w)
  <2>1. PICK p \in {"record", "next"}, b \in BOOLEAN :
          tick' = [tick EXCEPT ![w] = [@ EXCEPT !.pc = p, !.netPaid = tick[w].netPaid,
                                                !.feePaid = tick[w].feePaid, !.again = b]]
    <3>1. CASE tick' = [tick EXCEPT ![w] = [@ EXCEPT !.pc = "record", !.again = TRUE]]
      <4>1. tick' = [tick EXCEPT ![w] = [@ EXCEPT !.pc = "record", !.netPaid = tick[w].netPaid,
                                                  !.feePaid = tick[w].feePaid, !.again = TRUE]]
        BY <1>0, <3>1 DEF TickState
      <4> QED BY <4>1
    <3>2. CASE tick' = [tick EXCEPT ![w] = [@ EXCEPT !.pc = "next"]]
      BY <1>4, <1>5, <3>2
    <3> QED BY <1>8, <3>1, <3>2 DEF Announce
  <2>2. /\ Others(w) /\ Keeps(w)
        /\ tick'[w].netPaid = tick[w].netPaid /\ tick'[w].feePaid = tick[w].feePaid
    BY <1>5, <1>8, <2>1, TickOnlyGoes DEF Announce
  <2>3. announced' \in [Links -> Nat]
    <3>1. announced' = [announced EXCEPT ![tick[w].link] = announced[tick[w].link]]
          \/ announced' = [announced EXCEPT ![tick[w].link] = announced[tick[w].link] + 1]
      BY <1>8 DEF Announce
    <3> QED BY <1>0, <3>1
  <2>4. Walks(w)
    BY <1>8, <2>2, <2>3 DEF Announce, Walks
  <2> QED BY <1>8, <2>2, <2>4, TroubleKept DEF Announce, Works
<1>9. CASE TickEnds(w)
  <2>1. Trouble
    BY <1>9, TroubleKept DEF TickEnds
  <2>2. Others(w) /\ Walks(w)
    BY <1>0, <1>9, ThrowGoes DEF TickEnds, Walks, history
  <2> QED BY <1>9, <2>1, <2>2 DEF TickEnds, Works
<1>10. CASE Record(w)
  <2>1. tick[w].pc = "record" /\ Same("announce")
    BY <1>4, <1>10 DEF Record
  <2>2. /\ Others(w) /\ Keeps(w) /\ tick'[w].pc = "announce"
        /\ tick'[w].netPaid = tick[w].netPaid /\ tick'[w].feePaid = tick[w].feePaid
    BY <1>5, <2>1, TickOnlyGoes
  <2>3. withdraw' \in [Links -> WithdrawStatus]
    BY <1>0, <1>10 DEF Record, WithdrawStatus
  <2>4. Records(w)
    BY <1>10, <2>1, <2>2, <2>3 DEF Record, Records
  <2> QED BY <1>10, <2>2, <2>4, TroubleKept DEF Record, Works
<1>11. CASE MerchantLeg(w)
  <2> DEFINE l == tick[w].link
             Goto(b) == tick' = [tick EXCEPT ![w].pc = AfterMerchant(w), ![w].netPaid = b]
             Mined == /\ Net(w) <= balance[l]
                      /\ balance' = [balance EXCEPT ![l] = @ - Net(w)]
                      /\ toMerchant' = [toMerchant EXCEPT ![l] = @ + Net(w)]
  <2>1. tick[w].pc = "merchant" /\ l \in Links /\ Net(w) \in Nat
    BY <1>11, TickFacts DEF MerchantLeg
  <2>2. Transfer(w, toMerchant, Net(w), Goto(TRUE), Goto(FALSE))
    BY <1>11 DEF MerchantLeg
  <2>3. ASSUME NEW b \in BOOLEAN, Goto(b)
        PROVE  Others(w) /\ Keeps(w) /\ tick'[w].netPaid = b /\ tick'[w].feePaid = tick[w].feePaid
    <3>1. PICK p \in {"adminGas", "admin", "record"} : p = AfterMerchant(w)
      BY DEF AfterMerchant
    <3>2. tick' = [tick EXCEPT ![w] = [@ EXCEPT !.pc = p, !.netPaid = b,
                                                !.feePaid = tick[w].feePaid, !.again = tick[w].again]]
      BY <1>0, <2>3, <3>1 DEF TickState
    <3>3. tick' = [tick EXCEPT ![w] = [@ EXCEPT !.pc = p, !.netPaid = b,
                                                !.feePaid = tick[w].feePaid,
                                                !.again = tick[w].again]]
      BY <1>0, <3>2 DEF TickState
    <3> QED BY <1>5, <2>1, <2>3, <3>3, TickOnlyGoes
  <2>4. Trouble
    BY <2>2, TroubleKept DEF Transfer
  <2>5. Mined \/ UNCHANGED <<balance, toMerchant>>
    BY <2>2 DEF Transfer
  <2>6. \/ Throw(w)
        \/ Goto(FALSE)
        \/ Goto(TRUE) /\ Mined
        \/ Goto(TRUE) /\ "unmined" \in happened'
    BY <2>2 DEF Transfer, Fault
  <2>7. /\ balance' \in [Links -> Nat] /\ toMerchant' \in [Links -> Nat]
        /\ \A k \in Links : /\ toMerchant'[k] >= toMerchant[k]
                            /\ balance'[k] + toMerchant'[k] = balance[k] + toMerchant[k]
        /\ Mined => toMerchant'[l] >= Net(w)
    <3>1. balance \in [Links -> Nat] /\ toMerchant \in [Links -> Nat]
      BY DEF TronInv, TypeOK
    <3>2. CASE Mined
      BY <2>1, <3>1, <3>2, Pours
    <3>3. CASE UNCHANGED <<balance, toMerchant>> /\ ~Mined
      BY <3>1, <3>3
    <3> QED BY <2>5, <3>2, <3>3
  <2> HIDE DEF Mined, Goto
  <2>8. Others(w)
    BY <2>3, <2>6, ThrowGoes
  <2>9. UNCHANGED <<dbVars, toAdmin, history>>
    BY <1>11 DEF MerchantLeg
  <2>10. \/ Idles(w)
         \/ /\ Keeps(w) /\ tick'[w].feePaid = tick[w].feePaid
            /\ tick'[w].netPaid => toMerchant'[l] >= Net(w) \/ "unmined" \in happened'
    <3>1. CASE Throw(w)
      BY <3>1, ThrowGoes
    <3>2. CASE Goto(FALSE)
      BY <2>3, <3>2
    <3>3. CASE Goto(TRUE) /\ (Mined \/ "unmined" \in happened')
      BY <2>3, <2>7, <3>3
    <3> QED BY <2>6, <3>1, <3>2, <3>3
  <2>11. PaysMerchant(w)
    BY <2>7, <2>9, <2>10 DEF PaysMerchant
  <2> QED BY <1>11, <2>4, <2>8, <2>11 DEF MerchantLeg, Works
<1>12. CASE AdminLeg(w)
  <2> DEFINE l == tick[w].link
             Goto(b) == tick' = [tick EXCEPT ![w].pc = "record", ![w].feePaid = b]
             Mined == /\ Fee(w) <= balance[l]
                      /\ balance' = [balance EXCEPT ![l] = @ - Fee(w)]
                      /\ toAdmin' = [toAdmin EXCEPT ![l] = @ + Fee(w)]
  <2>1. tick[w].pc = "admin" /\ l \in Links /\ Fee(w) \in Nat
    BY <1>12, TickFacts DEF AdminLeg
  <2>2. Transfer(w, toAdmin, Fee(w), Goto(TRUE), Goto(FALSE))
    BY <1>12 DEF AdminLeg
  <2>3. ASSUME NEW b \in BOOLEAN, Goto(b)
        PROVE  Others(w) /\ Keeps(w) /\ tick'[w].feePaid = b /\ tick'[w].netPaid = tick[w].netPaid
    <3>1. PICK p \in {"adminGas", "admin", "record"} : p = "record"
      OBVIOUS
    <3>2. tick' = [tick EXCEPT ![w] = [@ EXCEPT !.pc = p, !.feePaid = b,
                                                !.netPaid = tick[w].netPaid, !.again = tick[w].again]]
      BY <1>0, <2>3, <3>1 DEF TickState
    <3>3. tick' = [tick EXCEPT ![w] = [@ EXCEPT !.pc = p, !.netPaid = tick[w].netPaid,
                                                !.feePaid = b,
                                                !.again = tick[w].again]]
      BY <1>0, <3>2 DEF TickState
    <3> QED BY <1>5, <2>1, <2>3, <3>3, TickOnlyGoes
  <2>4. Trouble
    BY <2>2, TroubleKept DEF Transfer
  <2>5. Mined \/ UNCHANGED <<balance, toAdmin>>
    BY <2>2 DEF Transfer
  <2>6. \/ Throw(w)
        \/ Goto(FALSE)
        \/ Goto(TRUE) /\ Mined
        \/ Goto(TRUE) /\ "unmined" \in happened'
    BY <2>2 DEF Transfer, Fault
  <2>7. /\ balance' \in [Links -> Nat] /\ toAdmin' \in [Links -> Nat]
        /\ \A k \in Links : /\ toAdmin'[k] >= toAdmin[k]
                            /\ balance'[k] + toAdmin'[k] = balance[k] + toAdmin[k]
        /\ Mined => toAdmin'[l] >= Fee(w)
    <3>1. balance \in [Links -> Nat] /\ toAdmin \in [Links -> Nat]
      BY DEF TronInv, TypeOK
    <3>2. CASE Mined
      BY <2>1, <3>1, <3>2, Pours
    <3>3. CASE UNCHANGED <<balance, toAdmin>> /\ ~Mined
      BY <3>1, <3>3
    <3> QED BY <2>5, <3>2, <3>3
  <2> HIDE DEF Mined, Goto
  <2>8. Others(w)
    BY <2>3, <2>6, ThrowGoes
  <2>9. UNCHANGED <<dbVars, toMerchant, history>>
    BY <1>12 DEF AdminLeg
  <2>10. \/ Idles(w)
         \/ /\ Keeps(w) /\ tick'[w].netPaid = tick[w].netPaid
            /\ tick'[w].feePaid => toAdmin'[l] >= Fee(w) \/ "unmined" \in happened'
    <3>1. CASE Throw(w)
      BY <3>1, ThrowGoes
    <3>2. CASE Goto(FALSE)
      BY <2>3, <3>2
    <3>3. CASE Goto(TRUE) /\ (Mined \/ "unmined" \in happened')
      BY <2>3, <2>7, <3>3
    <3> QED BY <2>6, <3>1, <3>2, <3>3
  <2>11. PaysAdmin(w)
    BY <2>7, <2>9, <2>10 DEF PaysAdmin
  <2> QED BY <1>12, <2>4, <2>8, <2>11 DEF AdminLeg, Works
<1> QED BY <1>1, <1>2, <1>3, <1>6, <1>7, <1>8, <1>9, <1>10, <1>11, <1>12 DEF TickStep
LEMMA NextMoves ==
  ASSUME TronInv, Next
  PROVE  Moves
<1>1. ASSUME NEW t \in Txs, Arrive(t) PROVE Comes
  BY <1>1 DEF Arrive, Comes
<1>2. ASSUME NEW l \in Links, Sync(l) PROVE Syncs
  BY <1>2 DEF Sync, Syncs, TronInv, TypeOK
<1>3. ASSUME NEW l \in Links, Expire(l) PROVE Detects
  <2>1. /\ deliveries' \in [Txs -> 0..MaxDeliveries]
        /\ handler' \in [Handlers -> HandlerState] /\ HandlersInOrder'
        /\ cron' \in [Crons -> CronState] /\ CronsInOrder'
    BY <1>3 DEF Expire, detectVars, TronInv, TypeOK, HandlersInOrder, CronsInOrder
  <2>2. Trouble
    BY <1>3, TroubleKept DEF Expire
  <2> QED BY <1>3, <2>1, <2>2 DEF Expire, Detects
<1> QED BY <1>1, <1>2, <1>3, HandlerMoves, CronMoves, TickMoves DEF Next, Moves

-----------------------------------------------------------------------------
(* The steps preserve the types and the order.                             *)

\* What has arrived stays.
LEMMA GotKept ==
  ASSUME TronInv, Comes \/ sent' = sent
  PROVE  sent' \subseteq Txs /\ \A l \in Links : Got(sent, l) <= Got(sent', l)
<1>1. sent \subseteq Txs
  BY DEF TronInv, TypeOK
<1>2. CASE Comes
  <2>1. PICK t \in Txs \ sent : sent' = sent \cup {t}
    BY <1>2 DEF Comes
  <2>2. ASSUME NEW l \in Links PROVE Got(sent, l) <= Got(sent', l)
    <3>1. Got(sent', l) = Got(sent, l) + (IF TxTo[t] = l THEN TxAmount[t] ELSE 0)
      BY <1>1, <2>1, GotGrows
    <3>2. Got(sent, l) \in Nat /\ TxAmount[t] \in Nat
      BY <1>1, GotFacts, TronAssumption
    <3> QED BY <3>1, <3>2
  <2> QED BY <1>1, <2>1, <2>2
<1>3. CASE sent' = sent
  BY <1>1, <1>3, GotFacts
<1> QED BY <1>2, <1>3

LEMMA ComesKeeps ==
  ASSUME TronInv, Comes
  PROVE  TronInv'
<1>1. /\ sent \subseteq Txs /\ sent' \subseteq Txs /\ sent \subseteq sent'
      /\ \A l \in Links : Got(sent, l) <= Got(sent', l)
      /\ \A l \in Links : Got(sent, l) \in Nat /\ Got(sent', l) \in Nat
  BY GotKept, GotFacts DEF Comes, TronInv, TypeOK
<1>2. PICK t \in Txs \ sent :
        /\ sent' = sent \cup {t}
        /\ balance' = [balance EXCEPT ![TxTo[t]] = @ + TxAmount[t]]
        /\ UNCHANGED <<dbVars, visible, toMerchant, toAdmin, detectVars, tick, history, trouble>>
  BY DEF Comes
<1>3. TypeOK'
  <2>1. balance' \in [Links -> Nat]
    BY <1>2, TronAssumption DEF TronInv, TypeOK
  <2> QED BY <1>1, <1>2, <2>1 DEF TronInv, TypeOK, dbVars, detectVars, history, trouble
<1>4. HandlersInOrder'
  <2>1. ASSUME NEW h \in Handlers PROVE HandlerKnows(handler'[h], sent')
    <3>1. handler'[h] = handler[h] /\ handler[h] \in HandlerState /\ HandlerKnows(handler[h], sent)
      BY <1>2 DEF TronInv, TypeOK, HandlersInOrder, detectVars
    <3>2. handler[h].pc = "store" => handler[h].link \in Links
      BY <1>1, <3>1, TronAssumption DEF HandlerKnows
    <3> QED BY <1>1, <3>1, <3>2 DEF HandlerKnows, HandlerState
  <2> QED BY <2>1 DEF HandlersInOrder
<1>5. CronsInOrder'
  <2>1. ASSUME NEW c \in Crons PROVE CronKnows(cron'[c], sent')
    <3>1. cron'[c] = cron[c] /\ cron[c] \in CronState /\ CronKnows(cron[c], sent)
      BY <1>2 DEF TronInv, TypeOK, CronsInOrder, detectVars
    <3> QED BY <1>1, <3>1 DEF CronKnows, CronState
  <2> QED BY <2>1 DEF CronsInOrder
<1>6. TicksInOrder'
  <2>1. tick' = tick
    BY <1>2
  <2>2. ASSUME NEW w \in Ticks, NEW l \in Links PROVE tick[w].total[l] <= Got(sent', l)
    BY <1>1, TickFacts DEF TronInv, TicksInOrder
  <2> QED BY <2>1, <2>2 DEF TronInv, TicksInOrder
<1>7. MoneyInOrder'
  <2>1. ASSUME NEW l \in Links
        PROVE  /\ received'[l] <= Got(sent', l) /\ visible'[l] <= Got(sent', l)
               /\ balance'[l] + toMerchant'[l] + toAdmin'[l] = Got(sent', l)
    <3>1. Got(sent', l) = Got(sent, l) + (IF TxTo[t] = l THEN TxAmount[t] ELSE 0)
      BY <1>1, <1>2, GotGrows
    <3>2. balance'[l] = balance[l] + (IF TxTo[t] = l THEN TxAmount[t] ELSE 0)
      BY <1>2, TronAssumption DEF TronInv, TypeOK
    <3>3. /\ received'[l] = received[l] /\ visible'[l] = visible[l]
          /\ toMerchant'[l] = toMerchant[l] /\ toAdmin'[l] = toAdmin[l]
      BY <1>2 DEF dbVars
    <3>4. /\ received[l] \in Nat /\ visible[l] \in Nat /\ balance[l] \in Nat
          /\ toMerchant[l] \in Nat /\ toAdmin[l] \in Nat /\ TxAmount[t] \in Nat
      BY TronAssumption DEF TronInv, TypeOK
    <3>5. /\ received[l] <= Got(sent, l) /\ visible[l] <= Got(sent, l)
          /\ balance[l] + toMerchant[l] + toAdmin[l] = Got(sent, l)
      BY DEF TronInv, MoneyInOrder
    <3> QED BY <1>1, <3>1, <3>2, <3>3, <3>4, <3>5
  <2> QED BY <2>1 DEF MoneyInOrder
<1> QED BY <1>3, <1>4, <1>5, <1>6, <1>7 DEF TronInv

LEMMA SyncsKeep ==
  ASSUME TronInv, Syncs
  PROVE  TronInv'
<1>1. TypeOK'
  BY DEF TronInv, TypeOK, Syncs, dbVars, chainVars, detectVars, history, trouble
<1>2. HandlersInOrder' /\ CronsInOrder' /\ TicksInOrder'
  BY DEF TronInv, HandlersInOrder, CronsInOrder, TicksInOrder, Syncs, detectVars
<1>3. MoneyInOrder'
  <2>1. ASSUME NEW l \in Links PROVE visible'[l] <= Got(sent, l)
    <3>1. /\ visible'[l] \in {visible[l], balance[l]} /\ visible[l] <= Got(sent, l)
          /\ balance[l] + toMerchant[l] + toAdmin[l] = Got(sent, l)
      BY DEF TronInv, MoneyInOrder, Syncs
    <3>2. balance[l] \in Nat /\ toMerchant[l] \in Nat /\ toAdmin[l] \in Nat
      BY DEF TronInv, TypeOK
    <3> QED BY <3>1, <3>2
  <2> QED BY <2>1 DEF TronInv, MoneyInOrder, Syncs, dbVars, chainVars
<1> QED BY <1>1, <1>2, <1>3 DEF TronInv

LEMMA DetectsKeeps ==
  ASSUME TronInv, Detects
  PROVE  TronInv'
<1>1. /\ status \in [Links -> Status] /\ received \in [Links -> Nat]
      /\ \A l \in Links : received[l] <= Got(sent, l)
  BY DEF TronInv, TypeOK, MoneyInOrder
<1>2. /\ status' \in [Links -> Status] /\ received' \in [Links -> Nat]
      /\ \A l \in Links : received'[l] <= Got(sent, l)
  <2>1. CASE UNCHANGED <<status, received>>
    BY <1>1, <2>1
  <2>2. CASE \E l \in Links : /\ status[l] = "PENDING" /\ status' = [status EXCEPT ![l] = "EXPIRED"]
                              /\ UNCHANGED received
    BY <1>1, <2>2 DEF Status
  <2>3. CASE \E l \in Links, n \in Nat : n <= Got(sent, l) /\ Store(l, n)
    <3>1. PICK l \in Links, n \in Nat : n <= Got(sent, l) /\ Store(l, n)
      BY <2>3
    <3>2. received' = [received EXCEPT ![l] = n]
      BY <3>1 DEF Store
    <3>3. status' = [status EXCEPT ![l] = "PARTIALLY_SUCCESS"]
          \/ status' = [status EXCEPT ![l] = "PENDING"]
      BY <3>1 DEF Store
    <3>4. status' \in [Links -> Status]
      BY <1>1, <3>3 DEF Status
    <3> QED BY <1>1, <3>1, <3>2, <3>4
  <2> QED BY <2>1, <2>2, <2>3 DEF Detects
<1>3. TypeOK'
  BY <1>2 DEF Detects, TronInv, TypeOK, Trouble, payVars, chainVars, history
<1>4. TicksInOrder'
  BY DEF TronInv, TicksInOrder, Detects
<1>5. MoneyInOrder'
  BY <1>2 DEF TronInv, MoneyInOrder, Detects, chainVars
<1> QED BY <1>3, <1>4, <1>5 DEF Detects, TronInv

LEMMA WorksKeeps ==
  ASSUME TronInv, Works
  PROVE  TronInv'
<1>1. PICK w \in Ticks :
        /\ Others(w) /\ Trouble
        /\ UNCHANGED <<sent, visible, detectVars>>
        /\ \/ Starts(w) \/ GivesUp(w) \/ Tries(w) \/ Walks(w)
           \/ PaysMerchant(w) \/ PaysAdmin(w) \/ Records(w)
  BY DEF Works
<1>2. /\ tick[w] \in TickState /\ tick'[w] \in TickState
      /\ status \in [Links -> Status] /\ retries \in [Links -> Nat] /\ received \in [Links -> Nat]
      /\ \A l \in Links : tick[w].total[l] \in Nat /\ tick[w].count[l] \in Nat
  BY <1>1, TickFacts DEF Others, TronInv, TypeOK
<1>3. status' \in [Links -> Status] /\ retries' \in [Links -> Nat] /\ received' = received
  <2>1. CASE GivesUp(w)
    <3>1. PICK l \in Links : retries' = [retries EXCEPT ![l] = tick[w].count[l] + 1]
      BY <1>2, <2>1 DEF GivesUp, TickState
    <3>2. tick[w].count[l] + 1 \in Nat
      BY <1>2
    <3>3. retries' \in [Links -> Nat]
      BY <1>2, <3>1, <3>2
    <3> QED BY <1>2, <2>1, <3>3 DEF GivesUp
  <2>2. CASE Tries(w)
    <3>1. PICK l \in Links : retries' = [retries EXCEPT ![l] = @ + 1]
      BY <1>2, <2>2 DEF Tries, TickState
    <3> QED BY <1>2, <2>2, <3>1 DEF Tries
  <2>3. CASE Records(w)
    <3>1. status' = [status EXCEPT ![tick[w].link] = "SUCCESS"] \/ status' = [status EXCEPT ![tick[w].link] = @]
      BY <2>3 DEF Records
    <3> QED BY <1>2, <2>3, <3>1 DEF Records, Status
  <2>4. CASE Starts(w) \/ Walks(w) \/ PaysMerchant(w) \/ PaysAdmin(w)
    BY <1>2, <2>4 DEF Starts, Walks, PaysMerchant, PaysAdmin, dbVars
  <2> QED BY <1>1, <2>1, <2>2, <2>3, <2>4
<1>4. /\ withdraw' \in [Links -> WithdrawStatus]
      /\ attempts' \in [Links -> Nat] /\ announced' \in [Links -> Nat]
  <2>1. withdraw \in [Links -> WithdrawStatus] /\ attempts \in [Links -> Nat] /\ announced \in [Links -> Nat]
    BY DEF TronInv, TypeOK
  <2> QED BY <1>1, <2>1 DEF Starts, GivesUp, Tries, Walks, PaysMerchant, PaysAdmin, Records,
                             dbVars, history
<1>5. /\ balance' \in [Links -> Nat] /\ toMerchant' \in [Links -> Nat] /\ toAdmin' \in [Links -> Nat]
      /\ \A l \in Links : balance'[l] + toMerchant'[l] + toAdmin'[l]
                            = balance[l] + toMerchant[l] + toAdmin[l]
  <2>1. balance \in [Links -> Nat] /\ toMerchant \in [Links -> Nat] /\ toAdmin \in [Links -> Nat]
    BY DEF TronInv, TypeOK
  <2>2. CASE UNCHANGED chainVars
    BY <2>1, <2>2 DEF chainVars
  <2>3. CASE PaysMerchant(w)
    <3>1. /\ toAdmin' = toAdmin /\ balance' \in [Links -> Nat] /\ toMerchant' \in [Links -> Nat]
          /\ \A k \in Links : balance'[k] + toMerchant'[k] = balance[k] + toMerchant[k]
      BY <2>3 DEF PaysMerchant
    <3> QED BY <2>1, <3>1
  <2>4. CASE PaysAdmin(w)
    <3>1. /\ toMerchant' = toMerchant /\ balance' \in [Links -> Nat] /\ toAdmin' \in [Links -> Nat]
          /\ \A k \in Links : balance'[k] + toAdmin'[k] = balance[k] + toAdmin[k]
      BY <2>4 DEF PaysAdmin
    <3>2. ASSUME NEW l \in Links
          PROVE  balance'[l] + toMerchant'[l] + toAdmin'[l] = balance[l] + toMerchant[l] + toAdmin[l]
      BY <2>1, <3>1
    <3> QED BY <2>1, <3>1, <3>2
  <2> QED BY <1>1, <2>2, <2>3, <2>4 DEF Starts, GivesUp, Tries, Walks, Records
<1>6. TypeOK'
  BY <1>1, <1>3, <1>4, <1>5 DEF TronInv, TypeOK, Trouble, Others, detectVars
<1>7. HandlersInOrder' /\ CronsInOrder'
  BY <1>1 DEF TronInv, HandlersInOrder, CronsInOrder, detectVars
<1>8. TicksInOrder'
  <2>1. ASSUME NEW v \in Ticks, v # w
        PROVE  /\ \A l \in Links : tick'[v].total[l] <= Got(sent', l)
               /\ tick'[v].pc \notin {"idle", "next"} =>
                    /\ tick'[v].link \in Links /\ tick'[v].link \notin tick'[v].todo
                    /\ Suffices(tick'[v].link, tick'[v].total[tick'[v].link])
    BY <1>1, <2>1 DEF Others, TronInv, TicksInOrder
  <2>2. \A l \in Links : tick'[w].total[l] <= Got(sent', l)
    <3>1. CASE Starts(w)
      BY <1>1, <3>1 DEF Starts, TronInv, MoneyInOrder
    <3>2. CASE Idles(w)
      <4>1. \A l \in Links : Got(sent, l) \in Nat
        BY GotFacts DEF TronInv, TypeOK
      <4> QED BY <1>1, <3>2, <4>1 DEF Idles, IdleTick
    <3>3. CASE tick'[w].total = tick[w].total
      BY <1>1, <3>3 DEF TronInv, TicksInOrder
    <3> QED BY <1>1, <3>1, <3>2, <3>3 DEF GivesUp, Tries, Walks, PaysMerchant, PaysAdmin, Records, Keeps
  <2>3. ASSUME tick'[w].pc \notin {"idle", "next"}
        PROVE  /\ tick'[w].link \in Links /\ tick'[w].link \notin tick'[w].todo
               /\ Suffices(tick'[w].link, tick'[w].total[tick'[w].link])
    <3>1. CASE Tries(w)
      <4>1. PICK l \in tick[w].todo :
              /\ tick'[w].todo = tick[w].todo \ {l} /\ tick'[w].link = l
              /\ tick'[w].pc = "next" \/ Suffices(l, tick[w].total[l])
        BY <3>1 DEF Tries
      <4> QED BY <1>2, <2>3, <3>1, <4>1 DEF Tries, TickState
    <3>2. CASE Keeps(w)
      BY <2>3, <3>2 DEF Keeps, TronInv, TicksInOrder
    <3>3. CASE Starts(w) \/ GivesUp(w) \/ Idles(w)
      BY <2>3, <3>3 DEF Starts, GivesUp, Idles, IdleTick
    <3> QED BY <1>1, <3>1, <3>2, <3>3 DEF Walks, PaysMerchant, PaysAdmin, Records
  <2> QED BY <2>1, <2>2, <2>3 DEF TicksInOrder
<1>9. MoneyInOrder'
  BY <1>1, <1>3, <1>5 DEF TronInv, MoneyInOrder
<1> QED BY <1>6, <1>7, <1>8, <1>9 DEF TronInv

LEMMA TronInvStarts == Init => TronInv
<1> SUFFICES ASSUME Init PROVE TronInv
  OBVIOUS
<1>1. TypeOK
  BY TronAssumption DEF Init, TypeOK, Status, WithdrawStatus, IdleHandler, HandlerState,
                        IdleCron, CronState, IdleTick, TickState, Faults
<1>2. \A l \in Links : Got(sent, l) = 0
  <2>1. {t \in {} : FALSE} = {}
    OBVIOUS
  <2> QED BY SumEmpty DEF Init, Got
<1>3. HandlersInOrder /\ CronsInOrder
  BY DEF Init, HandlersInOrder, CronsInOrder, HandlerKnows, CronKnows, IdleHandler, IdleCron
<1>4. TicksInOrder
  BY <1>2 DEF Init, TicksInOrder, IdleTick
<1>5. MoneyInOrder
  BY <1>2 DEF Init, MoneyInOrder
<1> QED BY <1>1, <1>3, <1>4, <1>5 DEF TronInv

LEMMA TronInvStep == TronInv /\ [Next]_vars => TronInv'
<1> SUFFICES ASSUME TronInv, [Next]_vars PROVE TronInv'
  OBVIOUS
<1>1. CASE Next
  BY <1>1, NextMoves, ComesKeeps, SyncsKeep, DetectsKeeps, WorksKeeps DEF Moves
<1>2. CASE UNCHANGED vars
  BY <1>2 DEF vars, dbVars, chainVars, detectVars, history, trouble, TronInv, TypeOK,
              HandlersInOrder, CronsInOrder, TicksInOrder, MoneyInOrder
<1> QED BY <1>1, <1>2
-----------------------------------------------------------------------------
(* What is credited is there, and what is confirmed suffices.              *)

LEMMA ConfirmedStep ==
  ASSUME TronInv, ConfirmedHasRequired, Next
  PROVE  ConfirmedHasRequired'
<1>0. status \in [Links -> Status] /\ received \in [Links -> Nat]
  BY DEF TronInv, TypeOK
<1>1. \A l \in Links : status[l] = "PARTIALLY_SUCCESS" => received[l] >= Required[l]
  BY DEF ConfirmedHasRequired
<1>2. CASE Comes \/ Syncs
  BY <1>1, <1>2 DEF Comes, Syncs, dbVars, ConfirmedHasRequired
<1>3. CASE Detects
  <2>1. CASE UNCHANGED <<status, received>>
    BY <1>1, <2>1 DEF ConfirmedHasRequired
  <2>2. CASE \E l \in Links : /\ status[l] = "PENDING" /\ status' = [status EXCEPT ![l] = "EXPIRED"]
                              /\ UNCHANGED received
    BY <1>0, <1>1, <2>2 DEF ConfirmedHasRequired
  <2>3. CASE \E l \in Links, n \in Nat : n <= Got(sent, l) /\ Store(l, n)
    <3>1. PICK l \in Links, n \in Nat : Store(l, n)
      BY <2>3
    <3>2. ASSUME NEW k \in Links, status'[k] = "PARTIALLY_SUCCESS" PROVE received'[k] >= Required[k]
      <4>1. CASE k = l
        <5>1. received'[l] = n /\ (status'[l] = "PARTIALLY_SUCCESS" => Suffices(l, n))
          BY <1>0, <3>1 DEF Store
        <5> QED BY <3>2, <4>1, <5>1 DEF Suffices
      <4>2. CASE k # l
        BY <1>0, <1>1, <3>1, <3>2, <4>2 DEF Store
      <4> QED BY <4>1, <4>2
    <3> QED BY <3>2 DEF ConfirmedHasRequired
  <2> QED BY <1>3, <2>1, <2>2, <2>3 DEF Detects
<1>4. CASE Works
  <2>1. PICK w \in Ticks :
          Starts(w) \/ GivesUp(w) \/ Tries(w) \/ Walks(w) \/ PaysMerchant(w) \/ PaysAdmin(w) \/ Records(w)
    BY <1>4 DEF Works
  <2>2. received' = received /\ (status' = status \/ Records(w))
    BY <2>1 DEF Starts, GivesUp, Tries, Walks, PaysMerchant, PaysAdmin, Records, dbVars
  <2>3. CASE Records(w)
    <3>1. status' = [status EXCEPT ![tick[w].link] = "SUCCESS"]
          \/ status' = [status EXCEPT ![tick[w].link] = @]
      BY <2>3 DEF Records
    <3> QED BY <1>0, <1>1, <2>2, <3>1 DEF ConfirmedHasRequired
  <2> QED BY <1>1, <2>2, <2>3 DEF ConfirmedHasRequired
<1> QED BY <1>2, <1>3, <1>4, NextMoves DEF Moves

\* Whatever is delivered, redelivered or read late: a link is never credited
\* more than was transferred to it, and never confirmed for less than it asked
\* for, in handleTronWebhook and in tronPaymentLink.
THEOREM CreditsAreAlwaysTrue == Spec => []CreditsAreTrue
<1>1. Init => TronInv /\ ConfirmedHasRequired
  BY TronInvStarts DEF Init, ConfirmedHasRequired
<1>2. TronInv /\ ConfirmedHasRequired /\ [Next]_vars => (TronInv /\ ConfirmedHasRequired)'
  BY TronInvStep, ConfirmedStep DEF vars, dbVars, ConfirmedHasRequired
<1>3. TronInv /\ ConfirmedHasRequired => CreditsAreTrue
  BY ArrivedIsGot DEF TronInv, MoneyInOrder, CreditsAreTrue, CreditIsMoney
<1> QED BY <1>1, <1>2, <1>3, PTL DEF Spec

-----------------------------------------------------------------------------
(* How often a payout is attempted.                                        *)

\* The ticks that will still attempt l.
Trying(l) == {w \in Ticks : l \in tick[w].todo /\ ~GivenUp(w, l)}

\* Below the limit the counter counts the attempts.  It gets there once; from
\* then on only ticks that had selected the link before can attempt it.
AttemptsInOrder(l) ==
  /\ retries[l] < MaxRetries => attempts[l] <= retries[l]
  /\ retries[l] >= MaxRetries =>
       attempts[l] + Cardinality(Trying(l)) <= MaxRetries + Cardinality(Ticks) - 1
  /\ \A w \in Ticks : l \in tick[w].todo /\ GivenUp(w, l) => retries[l] >= MaxRetries

AttemptsInv == \A l \in Links : AttemptsInOrder(l)

LEMMA TryingFacts ==
  ASSUME NEW l
  PROVE  /\ IsFiniteSet(Trying(l)) /\ Cardinality(Trying(l)) \in Nat
         /\ Cardinality(Trying(l)) <= Cardinality(Ticks)
         /\ Cardinality(Ticks) \in Nat /\ Cardinality(Ticks) >= 1
<1>1. Trying(l) \subseteq Ticks /\ IsFiniteSet(Ticks) /\ Ticks # {}
  BY TronAssumption DEF Trying
<1>2. IsFiniteSet(Trying(l)) /\ Cardinality(Trying(l)) <= Cardinality(Ticks)
  BY <1>1, FS_Subset
<1>3. Cardinality(Trying(l)) \in Nat /\ Cardinality(Ticks) \in Nat /\ Cardinality(Ticks) # 0
  BY <1>1, <1>2, FS_CardinalityType, FS_EmptySet
<1> QED BY <1>1, <1>2, <1>3

LEMMA TryingShrinks ==
  ASSUME NEW l, Trying(l)' \subseteq Trying(l)
  PROVE  /\ Cardinality(Trying(l)') \in Nat
         /\ Cardinality(Trying(l)') <= Cardinality(Trying(l))
BY TryingFacts, FS_Subset, FS_CardinalityType

\* A step that leaves the counters of l, and adds no tick that will attempt it.
LEMMA AttemptsKept ==
  ASSUME TronInv, TronInv', NEW l \in Links, AttemptsInOrder(l),
         retries'[l] = retries[l] \/ (retries'[l] >= MaxRetries /\ retries[l] >= MaxRetries),
         attempts'[l] = attempts[l],
         retries[l] >= MaxRetries => Trying(l)' \subseteq Trying(l),
         \A w \in Ticks : (l \in tick[w].todo /\ GivenUp(w, l))' =>
                            retries[l] >= MaxRetries
  PROVE  AttemptsInOrder(l)'
<1>1. /\ retries[l] \in Nat /\ retries'[l] \in Nat /\ attempts[l] \in Nat /\ MaxRetries \in Nat
      /\ Cardinality(Ticks) \in Nat /\ Cardinality(Trying(l)) \in Nat
  BY TryingFacts, TronAssumption DEF TronInv, TypeOK
<1>2. CASE retries[l] >= MaxRetries
  <2>1. Cardinality(Trying(l)') \in Nat /\ Cardinality(Trying(l)') <= Cardinality(Trying(l))
    BY <1>2, TryingShrinks
  <2>2. attempts[l] + Cardinality(Trying(l)) <= MaxRetries + Cardinality(Ticks) - 1
    BY <1>2 DEF AttemptsInOrder
  <2>3. retries'[l] >= MaxRetries
    BY <1>2
  <2>4. attempts'[l] + Cardinality(Trying(l)') <= MaxRetries + Cardinality(Ticks) - 1
    BY <1>1, <2>1, <2>2
  <2> QED BY <1>1, <2>3, <2>4 DEF AttemptsInOrder
<1>3. CASE retries[l] < MaxRetries
  <2>1. attempts[l] <= retries[l] /\ retries'[l] = retries[l]
    BY <1>1, <1>3 DEF AttemptsInOrder
  <2>2. \A w \in Ticks : ~(l \in tick[w].todo /\ GivenUp(w, l))'
    BY <1>1, <1>3
  <2> QED BY <1>1, <1>3, <2>1, <2>2 DEF AttemptsInOrder
<1> QED BY <1>1, <1>2, <1>3

\* A tick that keeps what it has selected, or drops some of it.
LEMMA TodoShrinks ==
  ASSUME TronInv, NEW w \in Ticks, Others(w), NEW l \in Links,
         l \in tick'[w].todo => l \in tick[w].todo /\ tick'[w].count = tick[w].count
  PROVE  /\ Trying(l)' \subseteq Trying(l)
         /\ \A v \in Ticks : (l \in tick[v].todo /\ GivenUp(v, l))' =>
                               l \in tick[v].todo /\ GivenUp(v, l)
<1>1. ASSUME NEW v \in Ticks, l \in tick'[v].todo
      PROVE  l \in tick[v].todo /\ tick'[v].count = tick[v].count
  BY <1>1 DEF Others
<1> QED BY <1>1 DEF Trying, GivenUp

LEMMA AttemptsStep ==
  ASSUME TronInv, AttemptsInv, Next
  PROVE  AttemptsInv'
<1>0. TronInv'
  BY TronInvStep
<1>1. CASE UNCHANGED <<retries, attempts, tick>>
  BY <1>1 DEF AttemptsInv, AttemptsInOrder, Trying, GivenUp
<1>2. CASE Works
  <2>1. PICK w \in Ticks :
          /\ Others(w)
          /\ \/ Starts(w) \/ GivesUp(w) \/ Tries(w) \/ Walks(w)
             \/ PaysMerchant(w) \/ PaysAdmin(w) \/ Records(w)
    BY <1>2 DEF Works
  <2> SUFFICES ASSUME NEW l \in Links PROVE AttemptsInOrder(l)'
    BY DEF AttemptsInv
  <2>2. /\ AttemptsInOrder(l) /\ MaxRetries \in Nat
        /\ retries \in [Links -> Nat] /\ attempts \in [Links -> Nat]
        /\ \A v \in Ticks : tick[v].count[l] \in Nat
    BY TickFacts, TronAssumption DEF AttemptsInv, TronInv, TypeOK
  <2>3. CASE Starts(w)
    <3>1. retries' = retries /\ attempts' = attempts /\ tick'[w].count = retries
      BY <2>3 DEF Starts, dbVars, history
    <3>2. GivenUp(w, l)' <=> retries[l] >= MaxRetries
      BY <2>2, <3>1 DEF GivenUp
    <3>3. retries[l] >= MaxRetries => Trying(l)' \subseteq Trying(l)
      BY <2>1, <3>2 DEF Trying, GivenUp, Others
    <3>4. ASSUME NEW v \in Ticks, (l \in tick[v].todo /\ GivenUp(v, l))' PROVE retries[l] >= MaxRetries
      <4>1. CASE v = w
        BY <3>2, <3>4, <4>1
      <4>2. CASE v # w
        BY <2>1, <2>2, <3>4, <4>2 DEF Others, GivenUp, AttemptsInOrder
      <4> QED BY <4>1, <4>2
    <3> QED BY <1>0, <2>2, <3>1, <3>3, <3>4, AttemptsKept
  <2>4. CASE GivesUp(w)
    <3>1. PICK k \in tick[w].todo :
            /\ GivenUp(w, k) /\ tick'[w].todo = tick[w].todo \ {k}
            /\ retries' = [retries EXCEPT ![k] = tick[w].count[k] + 1]
      BY <2>4 DEF GivesUp
    <3>2. attempts' = attempts /\ tick'[w].count = tick[w].count
      BY <2>4 DEF GivesUp, history
    <3>3. /\ Trying(l)' \subseteq Trying(l)
          /\ \A v \in Ticks : (l \in tick[v].todo /\ GivenUp(v, l))' =>
                                l \in tick[v].todo /\ GivenUp(v, l)
      BY <2>1, <3>1, <3>2, TodoShrinks
    <3>4. retries'[l] = retries[l] \/ (retries'[l] >= MaxRetries /\ retries[l] >= MaxRetries)
      <4>1. CASE k = l
        <5>1. retries[l] >= MaxRetries
          BY <2>2, <3>1, <4>1 DEF AttemptsInOrder
        <5>2. retries'[l] = tick[w].count[l] + 1 /\ tick[w].count[l] + 1 > MaxRetries
          BY <2>2, <3>1, <4>1 DEF GivenUp
        <5> QED BY <2>2, <5>1, <5>2
      <4>2. CASE k # l
        BY <2>2, <3>1, <4>2
      <4> QED BY <4>1, <4>2
    <3>5. \A v \in Ticks : (l \in tick[v].todo /\ GivenUp(v, l))' => retries[l] >= MaxRetries
      BY <2>2, <3>3 DEF AttemptsInOrder
    <3> QED BY <1>0, <2>2, <3>2, <3>3, <3>4, <3>5, AttemptsKept
  <2>5. CASE Tries(w)
    <3>1. PICK k \in tick[w].todo :
            /\ ~GivenUp(w, k) /\ tick'[w].todo = tick[w].todo \ {k}
            /\ retries' = [retries EXCEPT ![k] = @ + 1]
            /\ attempts'[k] \in {attempts[k], attempts[k] + 1}
            /\ \A x \in Links : x # k => attempts'[x] = attempts[x]
      BY <2>5 DEF Tries
    <3>2. tick'[w].count = tick[w].count
      BY <2>5 DEF Tries
    <3>3. /\ Trying(l)' \subseteq Trying(l)
          /\ \A v \in Ticks : (l \in tick[v].todo /\ GivenUp(v, l))' =>
                                l \in tick[v].todo /\ GivenUp(v, l)
      BY <2>1, <3>1, <3>2, TodoShrinks
    <3>4. \A v \in Ticks : (l \in tick[v].todo /\ GivenUp(v, l))' => retries[l] >= MaxRetries
      BY <2>2, <3>3 DEF AttemptsInOrder
    <3>5. CASE k # l
      BY <1>0, <2>2, <3>1, <3>3, <3>4, <3>5, AttemptsKept
    <3>6. CASE k = l
      <4>1. retries'[l] = retries[l] + 1 /\ attempts'[l] \in Nat /\ attempts'[l] <= attempts[l] + 1
        BY <2>2, <3>1, <3>6
      <4>2. w \in Trying(l) /\ w \notin Trying(l)'
        BY <3>1, <3>6 DEF Trying
      <4>3. /\ IsFiniteSet(Trying(l)) /\ Cardinality(Trying(l)) \in Nat
            /\ Cardinality(Trying(l)) <= Cardinality(Ticks) /\ Cardinality(Ticks) \in Nat
        BY TryingFacts
      <4>4. Cardinality(Trying(l)') \in Nat /\ Cardinality(Trying(l)') <= Cardinality(Trying(l)) - 1
        <5>1. /\ IsFiniteSet(Trying(l) \ {w})
              /\ Cardinality(Trying(l) \ {w}) = Cardinality(Trying(l)) - 1
          BY <4>2, <4>3, FS_RemoveElement
        <5>2. Trying(l)' \subseteq Trying(l) \ {w}
          BY <3>3, <4>2
        <5>3. /\ IsFiniteSet(Trying(l)')
              /\ Cardinality(Trying(l)') <= Cardinality(Trying(l) \ {w})
          BY <5>1, <5>2, FS_Subset
        <5>4. Cardinality(Trying(l)') \in Nat
          BY <5>3, FS_CardinalityType
        <5> QED BY <5>1, <5>3, <5>4
      <4>5. retries'[l] < MaxRetries => attempts'[l] <= retries'[l]
        BY <2>2, <4>1 DEF AttemptsInOrder
      <4>6. retries'[l] >= MaxRetries =>
              attempts'[l] + Cardinality(Trying(l)') <= MaxRetries + Cardinality(Ticks) - 1
        <5>1. CASE retries[l] >= MaxRetries
          <6>1. attempts[l] + Cardinality(Trying(l)) <= MaxRetries + Cardinality(Ticks) - 1
            BY <2>2, <5>1 DEF AttemptsInOrder
          <6> QED BY <2>2, <4>1, <4>3, <4>4, <6>1
        <5>2. CASE retries[l] < MaxRetries
          <6>1. attempts[l] <= retries[l]
            BY <2>2, <5>2 DEF AttemptsInOrder
          <6> QED BY <2>2, <4>1, <4>3, <4>4, <5>2, <6>1
        <5> QED BY <2>2, <5>1, <5>2
      <4>7. \A v \in Ticks : (l \in tick[v].todo /\ GivenUp(v, l))' => retries'[l] >= MaxRetries
        BY <2>2, <3>4, <4>1
      <4> QED BY <4>5, <4>6, <4>7 DEF AttemptsInOrder
    <3> QED BY <3>5, <3>6
  <2>6. CASE Walks(w) \/ PaysMerchant(w) \/ PaysAdmin(w) \/ Records(w)
    <3>1. retries' = retries /\ attempts' = attempts /\ (Idles(w) \/ Keeps(w))
      BY <2>6 DEF Walks, PaysMerchant, PaysAdmin, Records, dbVars, history
    <3>2. l \in tick'[w].todo => l \in tick[w].todo /\ tick'[w].count = tick[w].count
      BY <3>1 DEF Idles, IdleTick, Keeps
    <3>3. /\ Trying(l)' \subseteq Trying(l)
          /\ \A v \in Ticks : (l \in tick[v].todo /\ GivenUp(v, l))' =>
                                l \in tick[v].todo /\ GivenUp(v, l)
      BY <2>1, <3>2, TodoShrinks
    <3>4. \A v \in Ticks : (l \in tick[v].todo /\ GivenUp(v, l))' => retries[l] >= MaxRetries
      BY <2>2, <3>3 DEF AttemptsInOrder
    <3> QED BY <1>0, <2>2, <3>1, <3>3, <3>4, AttemptsKept
  <2> QED BY <2>1, <2>3, <2>4, <2>5, <2>6
<1> QED BY <1>1, <1>2, NextMoves DEF Moves, Comes, Syncs, Detects, dbVars, payVars, history

\* MAX_WITHDRAW_RETRIES bounds the attempts of withdrawTronPaymentFromLinks on
\* a link, and each further tick at the same time adds one at most.
THEOREM AttemptsAreBounded == Spec => []AttemptsBounded
<1>1. Init => TronInv /\ AttemptsInv
  <2> SUFFICES ASSUME Init PROVE TronInv /\ AttemptsInv
    OBVIOUS
  <2>1. \A l \in Links : Trying(l) = {}
    BY DEF Init, Trying, IdleTick
  <2>2. ASSUME NEW l \in Links PROVE AttemptsInOrder(l)
    <3>1. /\ attempts[l] = 0 /\ retries[l] = 0 /\ MaxRetries \in Nat
          /\ Cardinality(Trying(l)) = 0
          /\ Cardinality(Ticks) \in Nat /\ Cardinality(Ticks) >= 1
      BY <2>1, TryingFacts, TronAssumption, FS_EmptySet DEF Init
    <3>2. \A w \in Ticks : l \notin tick[w].todo
      BY DEF Init, IdleTick
    <3> QED BY <3>1, <3>2 DEF AttemptsInOrder
  <2> QED BY <2>2, TronInvStarts DEF AttemptsInv
<1>2. TronInv /\ AttemptsInv /\ [Next]_vars => (TronInv /\ AttemptsInv)'
  <2>1. UNCHANGED vars /\ AttemptsInv => AttemptsInv'
    BY DEF vars, dbVars, history, AttemptsInv, AttemptsInOrder, Trying, GivenUp
  <2> QED BY <2>1, TronInvStep, AttemptsStep
<1>3. TronInv /\ AttemptsInv => AttemptsBounded
  <2> SUFFICES ASSUME TronInv, AttemptsInv, NEW l \in Links
               PROVE  attempts[l] <= MaxRetries + Cardinality(Ticks) - 1
    BY DEF AttemptsBounded
  <2>1. /\ retries[l] \in Nat /\ attempts[l] \in Nat /\ MaxRetries \in Nat
        /\ Cardinality(Ticks) \in Nat /\ Cardinality(Ticks) >= 1
        /\ Cardinality(Trying(l)) \in Nat
    BY TryingFacts, TronAssumption DEF TronInv, TypeOK
  <2>2. AttemptsInOrder(l)
    BY DEF AttemptsInv
  <2> QED BY <2>1, <2>2 DEF AttemptsInOrder
<1> QED BY <1>1, <1>2, <1>3, PTL DEF Spec

-----------------------------------------------------------------------------
(* What a settled link has paid out.                                       *)

\* Unless a token transfer was taken for sent after its timeout: what a tick
\* believes to have paid has been paid, and settled links have paid.
PaidInv ==
  "unmined" \notin happened =>
    /\ \A w \in Ticks : tick[w].link \in Links =>
         /\ tick[w].netPaid => toMerchant[tick[w].link] >= Net(w)
         /\ tick[w].feePaid => toAdmin[tick[w].link] >= Fee(w)
    /\ \A l \in Links : status[l] = "SUCCESS" => toMerchant[l] + toAdmin[l] >= Required[l]

LEMMA PaidStep ==
  ASSUME TronInv, PaidInv, Next
  PROVE  PaidInv'
<1> SUFFICES ASSUME "unmined" \notin happened'
             PROVE  /\ \A w \in Ticks : tick'[w].link \in Links =>
                         /\ tick'[w].netPaid => toMerchant'[tick'[w].link] >= Net(w)'
                         /\ tick'[w].feePaid => toAdmin'[tick'[w].link] >= Fee(w)'
                    /\ \A l \in Links : status'[l] = "SUCCESS" =>
                         toMerchant'[l] + toAdmin'[l] >= Required[l]
  BY DEF PaidInv
<1>0. /\ status \in [Links -> Status]
      /\ toMerchant \in [Links -> Nat] /\ toAdmin \in [Links -> Nat]
      /\ Required \in [Links -> Nat \ {0}]
  BY TronAssumption DEF TronInv, TypeOK
<1>1. "unmined" \notin happened
  BY NextMoves DEF Moves, Comes, Syncs, Detects, Works, Trouble, trouble
<1>2. /\ \A w \in Ticks : tick[w].link \in Links =>
           /\ tick[w].netPaid => toMerchant[tick[w].link] >= Net(w)
           /\ tick[w].feePaid => toAdmin[tick[w].link] >= Fee(w)
      /\ \A l \in Links : status[l] = "SUCCESS" => toMerchant[l] + toAdmin[l] >= Required[l]
  BY <1>1 DEF PaidInv
<1>3. CASE Comes \/ Syncs
  BY <1>2, <1>3 DEF Comes, Syncs, dbVars, chainVars, Net, Fee
<1>4. CASE Detects
  <2>1. UNCHANGED <<tick, toMerchant, toAdmin>>
    BY <1>4 DEF Detects, chainVars
  <2>2. \A l \in Links : status'[l] = "SUCCESS" => status[l] = "SUCCESS"
    <3>1. CASE \E l \in Links, n \in Nat : Store(l, n)
      <4>1. PICK l \in Links, n \in Nat : Store(l, n)
        BY <3>1
      <4>2. status' = [status EXCEPT ![l] = "PARTIALLY_SUCCESS"]
            \/ status' = [status EXCEPT ![l] = "PENDING"]
        BY <4>1 DEF Store
      <4> QED BY <1>0, <4>2
    <3>2. CASE \E l \in Links : status' = [status EXCEPT ![l] = "EXPIRED"]
      BY <1>0, <3>2
    <3> QED BY <1>4, <3>1, <3>2 DEF Detects
  <2> QED BY <1>2, <2>1, <2>2 DEF Net, Fee
<1>5. CASE Works
  <2>1. PICK w \in Ticks :
          /\ Others(w)
          /\ \/ Starts(w) \/ GivesUp(w) \/ Tries(w) \/ Walks(w)
             \/ PaysMerchant(w) \/ PaysAdmin(w) \/ Records(w)
    BY <1>5 DEF Works
  <2>2. /\ \A l \in Links : toMerchant'[l] >= toMerchant[l] /\ toAdmin'[l] >= toAdmin[l]
        /\ toMerchant' \in [Links -> Nat] /\ toAdmin' \in [Links -> Nat]
    <3>1. CASE UNCHANGED chainVars
      BY <1>0, <3>1 DEF chainVars
    <3>2. CASE PaysMerchant(w) \/ PaysAdmin(w)
      BY <1>0, <3>2 DEF PaysMerchant, PaysAdmin
    <3> QED BY <2>1, <3>1, <3>2 DEF Starts, GivesUp, Tries, Walks, Records
  <2>3. ASSUME NEW v \in Ticks, tick'[v].link = tick[v].link, tick'[v].total = tick[v].total,
               tick'[v].netPaid = tick[v].netPaid, tick[v].link \in Links, tick'[v].netPaid
        PROVE  toMerchant'[tick'[v].link] >= Net(v)'
    <3>1. Net(v)' = Net(v) /\ toMerchant[tick[v].link] >= Net(v)
      BY <1>2, <2>3 DEF Net
    <3>2. tick[v].total[tick[v].link] \in Amounts
      <4>1. tick[v].total[tick[v].link] \in Nat
        BY <2>3, TickFacts
      <4>2. tick[v].total[tick[v].link] <= Got(sent, tick[v].link)
        BY <2>3 DEF TronInv, TicksInOrder
      <4> QED BY <2>3, <4>1, <4>2, GotFacts DEF TronInv, TypeOK
    <3>3. Net(v) \in Nat
      BY <3>2, TronAssumption DEF Net
    <3>4. toMerchant[tick[v].link] \in Nat /\ toMerchant'[tick[v].link] \in Nat
          /\ toMerchant'[tick[v].link] >= toMerchant[tick[v].link]
      BY <1>0, <2>2, <2>3
    <3> QED BY <2>3, <3>1, <3>3, <3>4
  <2>4. ASSUME NEW v \in Ticks, tick'[v].link = tick[v].link, tick'[v].total = tick[v].total,
               tick'[v].feePaid = tick[v].feePaid, tick[v].link \in Links, tick'[v].feePaid
        PROVE  toAdmin'[tick'[v].link] >= Fee(v)'
    <3>1. Fee(v)' = Fee(v) /\ toAdmin[tick[v].link] >= Fee(v)
      BY <1>2, <2>4 DEF Fee, Net
    <3>2. tick[v].total[tick[v].link] \in Amounts /\ tick[v].total[tick[v].link] \in Nat
      <4>1. tick[v].total[tick[v].link] \in Nat
        BY <2>4, TickFacts
      <4>2. tick[v].total[tick[v].link] <= Got(sent, tick[v].link)
        BY <2>4 DEF TronInv, TicksInOrder
      <4> QED BY <2>4, <4>1, <4>2, GotFacts DEF TronInv, TypeOK
    <3>3. Fee(v) \in Int
      BY <3>2, TronAssumption DEF Fee, Net
    <3>4. toAdmin[tick[v].link] \in Nat /\ toAdmin'[tick[v].link] \in Nat
          /\ toAdmin'[tick[v].link] >= toAdmin[tick[v].link]
      BY <1>0, <2>2, <2>4
    <3> QED BY <2>4, <3>1, <3>3, <3>4
  <2>5. ASSUME NEW v \in Ticks, tick'[v].link \in Links
        PROVE  /\ tick'[v].netPaid => toMerchant'[tick'[v].link] >= Net(v)'
               /\ tick'[v].feePaid => toAdmin'[tick'[v].link] >= Fee(v)'
    <3>1. CASE /\ tick'[v].link = tick[v].link /\ tick'[v].total = tick[v].total
               /\ tick'[v].netPaid = tick[v].netPaid /\ tick'[v].feePaid = tick[v].feePaid
      BY <2>3, <2>4, <2>5, <3>1
    <3>2. CASE v # w
      BY <2>1, <3>1, <3>2 DEF Others
    <3>3. CASE v = w /\ (Starts(w) \/ Idles(w))
      BY <2>5, <3>3, TronAssumption DEF Starts, Idles, IdleTick
    <3>4. CASE v = w /\ Tries(w)
      BY <3>4 DEF Tries
    <3>5. CASE v = w /\ PaysMerchant(w) /\ ~Idles(w)
      <4>1. /\ Keeps(w) /\ tick'[w].feePaid = tick[w].feePaid
            /\ tick'[w].netPaid => toMerchant'[tick[w].link] >= Net(w)
        BY <3>5 DEF PaysMerchant
      <4>2. Net(w)' = Net(w) /\ tick'[w].link = tick[w].link /\ tick'[w].total = tick[w].total
        BY <4>1 DEF Keeps, Net
      <4> QED BY <2>4, <2>5, <3>5, <4>1, <4>2
    <3>6. CASE v = w /\ PaysAdmin(w) /\ ~Idles(w)
      <4>1. /\ Keeps(w) /\ tick'[w].netPaid = tick[w].netPaid
            /\ tick'[w].feePaid => toAdmin'[tick[w].link] >= Fee(w)
        BY <3>6 DEF PaysAdmin
      <4>2. Fee(w)' = Fee(w) /\ tick'[w].link = tick[w].link /\ tick'[w].total = tick[w].total
        BY <4>1 DEF Keeps, Net, Fee
      <4> QED BY <2>3, <2>5, <3>6, <4>1, <4>2
    <3>7. CASE v = w /\ (GivesUp(w) \/ Walks(w) \/ Records(w)) /\ ~Idles(w)
      BY <3>1, <3>7 DEF GivesUp, Walks, Records, Keeps
    <3> QED BY <2>1, <3>2, <3>3, <3>4, <3>5, <3>6, <3>7
  <2>6. ASSUME NEW l \in Links, status'[l] = "SUCCESS"
        PROVE  toMerchant'[l] + toAdmin'[l] >= Required[l]
    <3>1. CASE status[l] = "SUCCESS"
      <4>1. toMerchant[l] + toAdmin[l] >= Required[l]
        BY <1>2, <3>1
      <4>2. /\ toMerchant[l] \in Nat /\ toAdmin[l] \in Nat /\ Required[l] \in Nat
            /\ toMerchant'[l] \in Nat /\ toAdmin'[l] \in Nat
            /\ toMerchant'[l] >= toMerchant[l] /\ toAdmin'[l] >= toAdmin[l]
        BY <1>0, <2>2
      <4> QED BY <4>1, <4>2
    <3>2. CASE status[l] # "SUCCESS"
      <4>1. Records(w)
        BY <2>1, <2>6, <3>2 DEF Starts, GivesUp, Tries, Walks, PaysMerchant, PaysAdmin, dbVars
      <4>2. l = tick[w].link /\ Settled(w) /\ UNCHANGED <<toMerchant, toAdmin>>
        BY <1>0, <2>6, <3>2, <4>1 DEF Records, chainVars
      <4>3. /\ tick[w].pc = "record" /\ Suffices(l, tick[w].total[l])
        BY <4>1, <4>2 DEF Records, TronInv, TicksInOrder
      <4>4. Net(w) \in Nat /\ Fee(w) \in Nat /\ Net(w) + Fee(w) = tick[w].total[l]
        BY <4>2, <4>3, TickFacts
      <4>5. /\ toMerchant[l] >= Net(w) /\ (Fee(w) = 0 \/ toAdmin[l] >= Fee(w))
        BY <1>2, <2>6, <4>2 DEF Settled
      <4>6. toMerchant[l] \in Nat /\ toAdmin[l] \in Nat /\ Required[l] \in Nat
        BY <1>0, <2>6
      <4> QED BY <4>2, <4>3, <4>4, <4>5, <4>6 DEF Suffices
    <3> QED BY <3>1, <3>2
  <2> QED BY <2>5, <2>6
<1> QED BY <1>3, <1>4, <1>5, NextMoves DEF Moves

\* A link is SUCCESS only when what was asked for has left its address, in
\* withdrawTronPaymentFromLinks, whatever was thrown, refused, reported wrongly
\* or repeated, unless a token transfer was taken for sent after a timeout.
THEOREM SettledLinksHavePaid == Spec => []SuccessIsPaid
<1>1. Init => TronInv /\ PaidInv
  BY TronInvStarts, TronAssumption DEF Init, PaidInv, IdleTick
<1>2. TronInv /\ PaidInv /\ [Next]_vars => (TronInv /\ PaidInv)'
  <2>1. UNCHANGED vars /\ PaidInv => PaidInv'
    BY DEF vars, dbVars, chainVars, trouble, PaidInv, Net, Fee
  <2> QED BY <2>1, TronInvStep, PaidStep
<1>3. PaidInv => SuccessIsPaid
  BY DEF PaidInv, SuccessIsPaid
<1> QED BY <1>1, <1>2, <1>3, PTL DEF Spec
=============================================================================
