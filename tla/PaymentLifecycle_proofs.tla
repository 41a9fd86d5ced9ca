------------------------ MODULE PaymentLifecycle_proofs ------------------------
(***************************************************************************)
(* Proofs about EvmDeposits, for every set of links, transfers, handlers   *)
(* and cron ticks, and about PaymentLifecycle, which adds the ticks of the *)
(* withdraw cron.                                                          *)
(***************************************************************************)
EXTENDS PaymentLifecycle, SumTheorems

-----------------------------------------------------------------------------
(* Type correctness.                                                       *)

\* A busy handler knows its transfer; one that found a link knows the link.
Bound ==
  \A h \in Handlers :
    /\ handler[h].pc # "idle" => handler[h].tx \in Txs
    /\ handler[h].kind \in {"PAYMENT_LINK", "PARTIAL_PAYMENT_LINK"} =>
         handler[h].link \in Links
    /\ handler[h].pc = "notify" => handler[h].kind = "PAYMENT_LINK"

Typed == TypeOK /\ Bound

LEMMA IdleHandlerType == IdleHandler \in HandlerState
BY DEF IdleHandler, HandlerState, Kind

\* The types, and what a busy handler knows, are kept by every step.
LEMMA TypedStep == Typed /\ [Next]_vars => Typed'
<1> SUFFICES ASSUME Typed, [Next]_vars PROVE TypeOK' /\ Bound'
  BY DEF Typed
<1>0. /\ handler \in [Handlers -> HandlerState]
      /\ sweeper \in [Sweepers -> SweeperState]
      /\ TypeOK /\ Bound
  BY DEF Typed, TypeOK
<1>1. ASSUME NEW h \in Handlers, NEW t \in Txs, Deliver(h, t) PROVE TypeOK' /\ Bound'
  <2>1. handler' \in [Handlers -> HandlerState]
    BY <1>0, <1>1 DEF Deliver, IdleHandler, HandlerState, Kind
  <2>2. Bound'
    BY <1>0, <1>1 DEF Deliver, Bound, IdleHandler
  <2>3. TypeOK'
    BY <1>0, DepositsAssumption, <1>1, <2>1 DEF TypeOK, Deliver, linkVars
  <2> QED BY <2>2, <2>3
<1>2. ASSUME NEW h \in Handlers, FindPayment(h) PROVE TypeOK' /\ Bound'
  <2>1. handler' \in [Handlers -> HandlerState]
    <3> DEFINE seen == PaymentExists(handler[h].tx)
    <3>1. seen \in BOOLEAN
      BY DEF PaymentExists
    <3> DEFINE r == [handler[h] EXCEPT !.pc = "findApp", !.paid = seen]
    <3>2. handler' = [handler EXCEPT ![h] = r]
      BY <1>2 DEF FindPayment
    <3> HIDE DEF seen
    <3>3. handler[h] \in HandlerState
      BY <1>0
    <3>4. r \in HandlerState
      BY <3>1, <3>3 DEF HandlerState
    <3> HIDE DEF r
    <3> QED BY <1>0, <3>2, <3>4
  <2>2. Bound'
    BY <1>0, <1>2 DEF FindPayment, Bound, HandlerState
  <2>3. TypeOK'
    BY <1>0, DepositsAssumption, <1>2, <2>1 DEF TypeOK, FindPayment, linkVars
  <2> QED BY <2>2, <2>3
<1>3. ASSUME NEW h \in Handlers, FindApp(h) PROVE TypeOK' /\ Bound'
  <2>1. handler' \in [Handlers -> HandlerState]
    <3> DEFINE seen == AppRowExists(handler[h].tx)
    <3>1. seen \in BOOLEAN
      BY DEF AppRowExists
    <3> DEFINE r == [handler[h] EXCEPT !.pc = "checkWalletTx", !.inApp = seen]
    <3>2. handler' = [handler EXCEPT ![h] = r]
      BY <1>3 DEF FindApp
    <3> HIDE DEF seen
    <3>3. handler[h] \in HandlerState
      BY <1>0
    <3>4. r \in HandlerState
      BY <3>1, <3>3 DEF HandlerState
    <3> HIDE DEF r
    <3> QED BY <1>0, <3>2, <3>4
  <2>2. Bound'
    BY <1>0, <1>3 DEF FindApp, Bound, HandlerState
  <2>3. TypeOK'
    BY <1>0, DepositsAssumption, <1>3, <2>1 DEF TypeOK, FindApp, linkVars
  <2> QED BY <2>2, <2>3
<1>4. ASSUME NEW h \in Handlers, CheckWalletTx(h) PROVE TypeOK' /\ Bound'
  <2>0. /\ handler[h] \in HandlerState
        /\ handler[h].tx \in Txs
    BY <1>0, <1>4 DEF CheckWalletTx, Bound
  <2>a. PICK k \in Kind, l \in Links \cup {Nil}, n \in Nat :
          /\ k \in {"PAYMENT_LINK", "PARTIAL_PAYMENT_LINK"} => l \in Links
          /\ handler' = [handler EXCEPT ![h].pc = "credit", ![h].kind = k,
                                        ![h].link = l, ![h].total = n]
    <3>1. \A l \in Links : /\ Accumulated(l, handler[h].tx) \in Nat
                           /\ LinkKind(l, handler[h].tx) \in Kind
      BY <1>0, <2>0, DepositsAssumption DEF TypeOK, Accumulated, LinkKind, Kind
    <3>2. CASE \E l \in PendingAt(handler[h].tx) : handler' =
                 [handler EXCEPT ![h].pc = "credit", ![h].kind = LinkKind(l, handler[h].tx),
                    ![h].link = l, ![h].total = Accumulated(l, handler[h].tx)]
      <4>1. PICK l \in PendingAt(handler[h].tx) : handler' =
                 [handler EXCEPT ![h].pc = "credit", ![h].kind = LinkKind(l, handler[h].tx),
                    ![h].link = l, ![h].total = Accumulated(l, handler[h].tx)]
        BY <3>2
      <4>2. l \in Links
        BY DEF PendingAt
      <4> QED BY <3>1, <4>1, <4>2
    <3>3. CASE handler' = [handler EXCEPT ![h].pc = "credit", ![h].kind = "APP",
                             ![h].link = Nil, ![h].total = 0]
      <4>1. "APP" \in Kind /\ "APP" \notin {"PAYMENT_LINK", "PARTIAL_PAYMENT_LINK"}
        BY DEF Kind
      <4> QED BY <4>1, <3>3
    <3>4. CASE handler' = [handler EXCEPT ![h].pc = "credit", ![h].kind = "NONE",
                             ![h].link = Nil, ![h].total = 0]
      <4>1. "NONE" \in Kind /\ "NONE" \notin {"PAYMENT_LINK", "PARTIAL_PAYMENT_LINK"}
        BY DEF Kind
      <4> QED BY <4>1, <3>4
    <3> QED BY <1>4, <3>2, <3>3, <3>4 DEF CheckWalletTx
  <2>1. handler' \in [Handlers -> HandlerState]
    <3>1. [handler[h] EXCEPT !.pc = "credit", !.kind = k, !.link = l, !.total = n]
            \in HandlerState
      BY <2>0 DEF HandlerState
    <3> QED BY <1>0, <2>a, <3>1
  <2>2. Bound'
    BY <1>0, <2>0, <2>a DEF Bound, HandlerState
  <2>3. TypeOK'
    BY <1>0, DepositsAssumption, <1>4, <2>1 DEF TypeOK, CheckWalletTx, linkVars
  <2> QED BY <2>2, <2>3
<1>5. ASSUME NEW h \in Handlers, CreditFull(h) PROVE TypeOK' /\ Bound'
  <2>0. handler[h] \in HandlerState /\ handler[h].tx \in Txs /\ handler[h].link \in Links
    BY <1>0, <1>5 DEF CreditFull, Bound, HandlerState
  <2>1. handler' \in [Handlers -> HandlerState]
    BY <1>0, <1>5 DEF CreditFull, HandlerState
  <2>2. Bound'
    BY <1>0, <1>5 DEF CreditFull, Bound, HandlerState
  <2>3. TypeOK'
    BY <1>0, DepositsAssumption, <1>5, <2>1, <2>0 DEF TypeOK, CreditFull, StoreDeposit, HandlerState, Status, linkVars
  <2> QED BY <2>2, <2>3
<1>6. ASSUME NEW h \in Handlers, CreditPartial(h) PROVE TypeOK' /\ Bound'
  <2>0. handler[h] \in HandlerState /\ handler[h].tx \in Txs /\ handler[h].link \in Links
    BY <1>0, <1>6 DEF CreditPartial, Bound, HandlerState
  <2>1. handler' \in [Handlers -> HandlerState]
    BY <1>0, <1>6, IdleHandlerType DEF CreditPartial
  <2>2. Bound'
    BY <1>0, <1>6 DEF CreditPartial, Bound, IdleHandler
  <2>3. TypeOK'
    BY <1>0, DepositsAssumption, <1>6, <2>1, <2>0 DEF TypeOK, CreditPartial, StoreDeposit, HandlerState, Status, linkVars
  <2> QED BY <2>2, <2>3
<1>7. ASSUME NEW h \in Handlers, CreditApp(h) PROVE TypeOK' /\ Bound'
  <2>1. handler' \in [Handlers -> HandlerState]
    BY <1>0, <1>7, IdleHandlerType DEF CreditApp
  <2>2. Bound'
    BY <1>0, <1>7 DEF CreditApp, Bound, IdleHandler
  <2>3. TypeOK'
    <3>1. handler[h].tx \in Txs /\ appRows' \in [Txs -> Nat]
      BY <1>0, <1>7 DEF TypeOK, CreditApp, Bound
    <3> QED BY <1>0, <1>7, <2>1, <3>1 DEF TypeOK, CreditApp, linkVars
  <2> QED BY <2>2, <2>3
<1>8. ASSUME NEW h \in Handlers, Ignore(h) PROVE TypeOK' /\ Bound'
  <2>1. handler' \in [Handlers -> HandlerState]
    BY <1>0, <1>8, IdleHandlerType DEF Ignore
  <2>2. Bound'
    BY <1>0, <1>8 DEF Ignore, Bound, IdleHandler
  <2>3. TypeOK'
    BY <1>0, DepositsAssumption, <1>8, <2>1 DEF TypeOK, Ignore, linkVars
  <2> QED BY <2>2, <2>3
<1>9. ASSUME NEW h \in Handlers, NotifyConfirmed(h) PROVE TypeOK' /\ Bound'
  <2>1. handler' \in [Handlers -> HandlerState]
    BY <1>0, <1>9, IdleHandlerType DEF NotifyConfirmed
  <2>2. Bound'
    BY <1>0, <1>9 DEF NotifyConfirmed, Bound, IdleHandler
  <2>3. TypeOK'
    <3>1. handler[h].link \in Links /\ confirmations' \in [Links -> Nat]
      BY <1>0, <1>9 DEF TypeOK, NotifyConfirmed, Bound
    <3> QED BY <1>0, <1>9, <2>1, <3>1 DEF TypeOK, NotifyConfirmed, linkVars
  <2> QED BY <2>2, <2>3
<1>10. ASSUME NEW h \in Handlers, HandlerAborts(h) PROVE TypeOK' /\ Bound'
  <2>1. handler' \in [Handlers -> HandlerState]
    BY <1>0, <1>10, IdleHandlerType DEF HandlerAborts
  <2>2. Bound'
    BY <1>0, <1>10 DEF HandlerAborts, Bound, IdleHandler
  <2>3. TypeOK'
    BY <1>0, DepositsAssumption, <1>10, <2>1 DEF TypeOK, HandlerAborts, linkVars
  <2> QED BY <2>2, <2>3
<1>11. ASSUME NEW l \in Links, Elapse(l) PROVE TypeOK' /\ Bound'
  BY <1>0, <1>11 DEF TypeOK, Elapse, Bound, linkVars
<1>12. ASSUME NEW s \in Sweepers, SweepFind(s) PROVE TypeOK' /\ Bound'
  <2>1. sweeper' \in [Sweepers -> SweeperState]
    <3>1. monitors \cap overdue \in SUBSET Links
      BY <1>0 DEF TypeOK
    <3>2. [sweeper[s] EXCEPT !.pc = "deleteMonitors", !.batch = monitors \cap overdue]
            \in SweeperState
      BY <1>0, <3>1 DEF SweeperState
    <3> QED BY <1>0, <1>12, <3>2 DEF SweepFind
  <2> QED BY <1>0, <1>12, <2>1 DEF TypeOK, SweepFind, Bound, SweeperState, linkVars
<1>13. ASSUME NEW s \in Sweepers, SweepDeleteMonitors(s) PROVE TypeOK' /\ Bound'
  <2>1. sweeper' \in [Sweepers -> SweeperState]
    BY <1>0, <1>13 DEF SweepDeleteMonitors, SweeperState
  <2> QED BY <1>0, <1>13, <2>1 DEF TypeOK, SweepDeleteMonitors, Bound, SweeperState, linkVars
<1>14. ASSUME NEW s \in Sweepers, SweepFindPending(s) PROVE TypeOK' /\ Bound'
  <2>1. sweeper' \in [Sweepers -> SweeperState]
    <3>1. ReadByCron(s) \in SUBSET Links
      BY DEF ReadByCron, SharesAddress
    <3> QED BY <1>0, <1>14, <3>1 DEF SweepFindPending, SweeperState
  <2> QED BY <1>0, <1>14, <2>1 DEF TypeOK, SweepFindPending, Bound, SweeperState, linkVars
<1>15. ASSUME NEW s \in Sweepers, SweepExpire(s) PROVE TypeOK' /\ Bound'
  <2>1. sweeper' \in [Sweepers -> SweeperState]
    BY <1>0, <1>15 DEF SweepExpire, SweeperState, Status
  <2> QED BY <1>0, <1>15, <2>1 DEF TypeOK, SweepExpire, Bound, Status, SweeperState, linkVars
<1>16. ASSUME NEW s \in Sweepers, SweepNotify(s) PROVE TypeOK' /\ Bound'
  <2>1. sweeper' \in [Sweepers -> SweeperState]
    BY <1>0, <1>16 DEF SweepNotify, SweeperState
  <2> QED BY <1>0, <1>16, <2>1 DEF TypeOK, SweepNotify, Bound, linkVars
<1>17. ASSUME NEW s \in Sweepers, SweepUnstream(s) PROVE TypeOK' /\ Bound'
  <2>1. sweeper' \in [Sweepers -> SweeperState]
    BY <1>0, <1>17 DEF SweepUnstream, SweeperState, IdleSweeper
  <2> QED BY <1>0, <1>17, <2>1 DEF TypeOK, SweepUnstream, Bound, SweeperState, linkVars
<1>18. ASSUME NEW s \in Sweepers, SweeperAborts(s) PROVE TypeOK' /\ Bound'
  <2>1. sweeper' \in [Sweepers -> SweeperState]
    BY <1>0, <1>18 DEF SweeperAborts, SweeperState, IdleSweeper
  <2> QED BY <1>0, DepositsAssumption, <1>18, <2>1 DEF TypeOK, SweeperAborts, Bound, SweeperState, linkVars
<1>19. ASSUME UNCHANGED vars PROVE TypeOK' /\ Bound'
  BY <1>0, <1>19 DEF TypeOK, vars, Bound, linkVars
<1> QED
  BY <1>1, <1>2, <1>3, <1>4, <1>5, <1>6, <1>7, <1>8, <1>9, <1>10, <1>11, <1>12,
     <1>13, <1>14, <1>15, <1>16, <1>17, <1>18, <1>19 DEF Next, HandlerStep, SweeperStep

LEMMA TypedInv == Spec => []Typed
<1>1. Init => Typed
  BY DepositsAssumption, IdleHandlerType DEF Init, Typed, TypeOK, Bound, Status, Kind,
     IdleHandler, IdleSweeper, SweeperState
<1> QED BY <1>1, TypedStep, PTL DEF Spec

\* Every variable of the deposit handling and of the expiry cron keeps its type.
THEOREM TypeCorrect == Spec => []TypeOK
<1>1. Typed => TypeOK
  BY DEF Typed
<1> QED BY <1>1, TypedInv, PTL

-----------------------------------------------------------------------------
(* A confirmed payment is never taken back, and is announced a bounded      *)
(* number of times.                                                        *)

\* No step of a handler or of the cron takes PARTIALLY_SUCCESS away from a
\* link: the cron repeats its condition on the status in the update.
THEOREM ConfirmedIsFinal == Spec => ConfirmedStays
<1> DEFINE Stays == \A l \in Links :
      status[l] = "PARTIALLY_SUCCESS" => status'[l] = "PARTIALLY_SUCCESS"
<1>1. TypeOK /\ [Next]_vars => [Stays]_vars
  <2> SUFFICES ASSUME TypeOK, Next PROVE Stays
    OBVIOUS
  <2>1. ASSUME NEW h \in Handlers, CreditFull(h) PROVE Stays
    BY <2>1 DEF CreditFull, TypeOK
  <2>2. ASSUME NEW s \in Sweepers, SweepExpire(s) PROVE Stays
    BY <2>2 DEF SweepExpire, Expirable, TypeOK
  <2>3. CASE UNCHANGED status
    BY <2>3
  <2> QED
    BY <2>1, <2>2, <2>3 DEF Next, HandlerStep, SweeperStep, linkVars, Deliver, FindPayment,
       FindApp, CheckWalletTx, CreditPartial, CreditApp, Ignore, NotifyConfirmed,
       HandlerAborts, Elapse, SweepFind, SweepDeleteMonitors, SweepFindPending,
       SweepNotify, SweepUnstream, SweeperAborts
<1> QED BY <1>1, TypeCorrect, PTL DEF Spec, ConfirmedStays

\* The activations that will send PAYMENT_CONFIRMED for link l.
Confirming(l) ==
  {h \in Handlers : /\ handler[h].pc \in {"credit", "notify"}
                    /\ handler[h].kind = "PAYMENT_LINK"
                    /\ handler[h].link = l}

\* While a link is PENDING nothing has been announced; from then on no
\* activation joins those that will announce it.
ConfirmationsInv ==
  \A l \in Links :
    /\ status[l] = "PENDING" =>
         /\ confirmations[l] = 0
         /\ \A h \in Handlers : handler[h].pc = "notify" => handler[h].link # l
    /\ confirmations[l] + Cardinality(Confirming(l)) <= Cardinality(Handlers)

LEMMA ConfirmingFinite ==
  ASSUME NEW l
  PROVE  /\ IsFiniteSet(Confirming(l))
         /\ Cardinality(Confirming(l)) \in Nat
         /\ Cardinality(Handlers) \in Nat
         /\ Cardinality(Confirming(l)) <= Cardinality(Handlers)
BY DepositsAssumption, FS_Subset, FS_CardinalityType, Confirming(l) \subseteq Handlers
   DEF Confirming

LEMMA ConfirmationsStep ==
  Typed /\ Typed' /\ ConfirmationsInv /\ [Next]_vars => ConfirmationsInv'
<1> SUFFICES ASSUME Typed, Typed', ConfirmationsInv, [Next]_vars, NEW l \in Links
             PROVE  /\ status'[l] = "PENDING" =>
                         /\ confirmations'[l] = 0
                         /\ \A h \in Handlers : handler'[h].pc = "notify" => handler'[h].link # l
                    /\ confirmations'[l] + Cardinality(Confirming(l)') <= Cardinality(Handlers)
  BY DEF ConfirmationsInv
<1> DEFINE Goal ==
      /\ status'[l] = "PENDING" =>
           /\ confirmations'[l] = 0
           /\ \A h \in Handlers : handler'[h].pc = "notify" => handler'[h].link # l
      /\ confirmations'[l] + Cardinality(Confirming(l)') <= Cardinality(Handlers)
<1>0. /\ handler \in [Handlers -> HandlerState]
      /\ status \in [Links -> Status]
      /\ confirmations \in [Links -> Nat]
      /\ Bound
  BY DEF Typed, TypeOK
<1>1. /\ Cardinality(Confirming(l)') \in Nat
      /\ Cardinality(Confirming(l)') <= Cardinality(Handlers)
      /\ IsFiniteSet(Confirming(l))
      /\ Cardinality(Confirming(l)) \in Nat
      /\ Cardinality(Handlers) \in Nat
  <2>1. Confirming(l)' \subseteq Handlers
    BY DEF Confirming
  <2> QED BY <2>1, ConfirmingFinite, DepositsAssumption, FS_Subset, FS_CardinalityType
\* A step that leaves what is announced alone and adds no announcer.
<1>2. ASSUME status'[l] = "PENDING" => status[l] = "PENDING",
             confirmations' = confirmations,
             \A k \in Handlers : handler'[k] = handler[k]
                                   \/ handler'[k].pc \notin {"credit", "notify"}
      PROVE  Goal
  <2>1. Confirming(l)' \subseteq Confirming(l)
    BY <1>2 DEF Confirming
  <2>2. Cardinality(Confirming(l)') <= Cardinality(Confirming(l))
    BY <1>1, <2>1, FS_Subset
  <2>3. \A h \in Handlers : handler'[h].pc = "notify" => handler'[h] = handler[h]
    BY <1>2
  <2> QED BY <1>0, <1>1, <1>2, <2>2, <2>3 DEF ConfirmationsInv
<1>3. ASSUME NEW h \in Handlers, CheckWalletTx(h) PROVE Goal
  <2>1. PICK k \in Links \cup {Nil} :
          /\ handler'[h].link = k /\ handler'[h].pc = "credit"
          /\ \A g \in Handlers : g # h => handler'[g] = handler[g]
          /\ handler'[h].kind = "PAYMENT_LINK" => k \in Links /\ status[k] = "PENDING"
    <3>1. CASE \E m \in PendingAt(handler[h].tx) : handler' =
                 [handler EXCEPT ![h].pc = "credit", ![h].kind = LinkKind(m, handler[h].tx),
                    ![h].link = m, ![h].total = Accumulated(m, handler[h].tx)]
      <4>1. PICK m \in PendingAt(handler[h].tx) : handler' =
                 [handler EXCEPT ![h].pc = "credit", ![h].kind = LinkKind(m, handler[h].tx),
                    ![h].link = m, ![h].total = Accumulated(m, handler[h].tx)]
        BY <3>1
      <4>2. m \in Links /\ status[m] = "PENDING"
        BY DEF PendingAt
      <4>3. /\ handler'[h].link = m /\ handler'[h].pc = "credit"
            /\ \A g \in Handlers : g # h => handler'[g] = handler[g]
        BY <1>0, <4>1 DEF HandlerState
      <4> QED BY <4>2, <4>3
    <3>2. CASE \E c \in {"APP", "NONE"} : handler' =
                 [handler EXCEPT ![h].pc = "credit", ![h].kind = c,
                    ![h].link = Nil, ![h].total = 0]
      <4>1. /\ handler'[h].link = Nil /\ handler'[h].pc = "credit"
            /\ handler'[h].kind # "PAYMENT_LINK"
            /\ \A g \in Handlers : g # h => handler'[g] = handler[g]
        BY <1>0, <3>2 DEF HandlerState
      <4> QED BY <4>1
    <3> QED BY <1>3, <3>1, <3>2 DEF CheckWalletTx
  <2>2. UNCHANGED <<status, confirmations>>
    BY <1>3 DEF CheckWalletTx, linkVars
  <2>3. CASE status[l] = "PENDING"
    BY <1>0, <1>1, <2>1, <2>2, <2>3 DEF ConfirmationsInv
  <2>4. CASE status[l] # "PENDING"
    <3>1. Confirming(l)' \subseteq Confirming(l)
      BY <2>1, <2>4 DEF Confirming
    <3>2. Cardinality(Confirming(l)') <= Cardinality(Confirming(l))
      BY <1>1, <3>1, FS_Subset
    <3> QED BY <1>0, <1>1, <2>2, <2>4, <3>2 DEF ConfirmationsInv
  <2> QED BY <2>3, <2>4
<1>4. ASSUME NEW h \in Handlers, CreditFull(h) PROVE Goal
  <2>1. /\ handler' = [handler EXCEPT ![h].pc = "notify"]
        /\ handler[h].pc = "credit" /\ handler[h].kind = "PAYMENT_LINK"
        /\ status' = [status EXCEPT ![handler[h].link] = "PARTIALLY_SUCCESS"]
        /\ confirmations' = confirmations
    BY <1>4 DEF CreditFull
  <2>2. /\ \A g \in Handlers : g # h => handler'[g] = handler[g]
        /\ handler'[h].pc = "notify" /\ handler'[h].kind = handler[h].kind
        /\ handler'[h].link = handler[h].link
    BY <1>0, <2>1 DEF HandlerState
  <2>3. Confirming(l)' \subseteq Confirming(l)
    BY <2>1, <2>2 DEF Confirming
  <2>4. Cardinality(Confirming(l)') <= Cardinality(Confirming(l))
    BY <1>1, <2>3, FS_Subset
  <2>5. status'[l] = "PENDING" => status[l] = "PENDING" /\ handler[h].link # l
    BY <1>0, <2>1 DEF Status
  <2> QED BY <1>0, <1>1, <2>1, <2>2, <2>4, <2>5 DEF ConfirmationsInv
<1>5. ASSUME NEW h \in Handlers, NotifyConfirmed(h) PROVE Goal
  <2>1. /\ handler[h].pc = "notify" /\ handler[h].kind = "PAYMENT_LINK"
        /\ confirmations' = [confirmations EXCEPT ![handler[h].link] = @ + 1]
        /\ status' = status
        /\ handler' = [handler EXCEPT ![h] = IdleHandler]
    BY <1>0, <1>5 DEF NotifyConfirmed, linkVars, Bound
  <2>2. /\ \A g \in Handlers : g # h => handler'[g] = handler[g]
        /\ handler'[h].pc = "idle"
    BY <1>0, <2>1 DEF IdleHandler
  <2>3. CASE handler[h].link = l
    <3>1. h \in Confirming(l) /\ Confirming(l)' \subseteq Confirming(l) \ {h}
      BY <2>1, <2>2, <2>3 DEF Confirming
    <3>2. /\ Cardinality(Confirming(l) \ {h}) = Cardinality(Confirming(l)) - 1
          /\ IsFiniteSet(Confirming(l) \ {h})
      BY <1>1, <3>1, FS_RemoveElement
    <3>3. Cardinality(Confirming(l)') <= Cardinality(Confirming(l)) - 1
      BY <3>1, <3>2, FS_Subset
    <3>4. status[l] # "PENDING"
      BY <2>1, <2>3 DEF ConfirmationsInv
    <3> QED BY <1>0, <1>1, <2>1, <2>3, <3>3, <3>4 DEF ConfirmationsInv
  <2>4. CASE handler[h].link # l
    <3>1. Confirming(l)' \subseteq Confirming(l)
      BY <2>2 DEF Confirming
    <3>2. Cardinality(Confirming(l)') <= Cardinality(Confirming(l))
      BY <1>1, <3>1, FS_Subset
    <3>3. confirmations'[l] = confirmations[l]
      BY <1>0, <2>1, <2>4
    <3> QED BY <1>0, <1>1, <2>1, <2>2, <3>2, <3>3 DEF ConfirmationsInv
  <2> QED BY <2>3, <2>4
<1>6. ASSUME NEW h \in Handlers,
             \/ \E t \in Txs : Deliver(h, t)
             \/ FindPayment(h) \/ FindApp(h) \/ CreditPartial(h) \/ CreditApp(h)
             \/ Ignore(h) \/ HandlerAborts(h)
      PROVE  Goal
  <2>1. UNCHANGED <<status, confirmations>>
    BY <1>6 DEF Deliver, FindPayment, FindApp, CreditPartial, CreditApp, Ignore,
       HandlerAborts, linkVars
  <2>2. \A g \in Handlers : g # h => handler'[g] = handler[g]
    BY <1>0, <1>6 DEF Deliver, FindPayment, FindApp, CreditPartial, CreditApp, Ignore,
       HandlerAborts
  <2>3. handler'[h].pc \notin {"credit", "notify"}
    <3>1. ASSUME NEW t \in Txs, Deliver(h, t) PROVE handler'[h].pc = "findPayment"
      BY <1>0, <3>1 DEF Deliver, IdleHandler
    <3>2. ASSUME FindPayment(h) \/ FindApp(h)
          PROVE  handler'[h].pc \in {"findApp", "checkWalletTx"}
      BY <1>0, <3>2 DEF FindPayment, FindApp, HandlerState
    <3>3. ASSUME CreditPartial(h) \/ CreditApp(h) \/ Ignore(h) \/ HandlerAborts(h)
          PROVE  handler'[h].pc = "idle"
      BY <1>0, <3>3 DEF CreditPartial, CreditApp, Ignore, HandlerAborts, IdleHandler
    <3> QED BY <1>6, <3>1, <3>2, <3>3
  <2> QED BY <1>2, <2>1, <2>2, <2>3
<1>7. ASSUME \/ \E k \in Links : Elapse(k)
             \/ \E s \in Sweepers : SweeperStep(s) \/ SweeperAborts(s)
             \/ UNCHANGED vars
      PROVE  Goal
  <2>1. UNCHANGED <<handler, confirmations>>
    BY <1>7 DEF Elapse, SweeperStep, SweepFind, SweepDeleteMonitors, SweepFindPending,
       SweepExpire, SweepNotify, SweepUnstream, SweeperAborts, vars
  <2>2. status'[l] = "PENDING" => status[l] = "PENDING"
    BY <1>0, <1>7 DEF Elapse, SweeperStep, SweepFind, SweepDeleteMonitors, SweepFindPending,
       SweepExpire, SweepNotify, SweepUnstream, SweeperAborts, vars, linkVars
  <2> QED BY <1>2, <2>1, <2>2
<1> QED
  BY <1>3, <1>4, <1>5, <1>6, <1>7 DEF Next, HandlerStep

\* However often a transfer is delivered and however the activations and the
\* cron interleave, PAYMENT_CONFIRMED is sent at most once per activation that
\* can run at the same time.
THEOREM ConfirmedAtMostOncePerHandler == Spec => []ConfirmationsBounded
<1>1. Init => ConfirmationsInv
  <2> SUFFICES ASSUME Init, NEW l \in Links
               PROVE  /\ confirmations[l] = 0
                      /\ \A h \in Handlers : handler[h].pc = "idle"
                      /\ confirmations[l] + Cardinality(Confirming(l)) <= Cardinality(Handlers)
    BY DEF ConfirmationsInv
  <2>1. confirmations[l] = 0 /\ \A h \in Handlers : handler[h].pc = "idle"
    BY DEF Init, IdleHandler
  <2> QED BY <2>1, ConfirmingFinite
<1>2. Typed /\ ConfirmationsInv => ConfirmationsBounded
  <2> SUFFICES ASSUME Typed, ConfirmationsInv, NEW l \in Links
               PROVE  confirmations[l] <= Cardinality(Handlers)
    BY DEF ConfirmationsBounded
  <2>1. confirmations[l] \in Nat
    BY DEF Typed, TypeOK
  <2> QED BY <2>1, ConfirmingFinite DEF ConfirmationsInv
<1> QED BY <1>1, <1>2, ConfirmationsStep, TypedInv, PTL DEF Spec

-----------------------------------------------------------------------------
(* One activation at a time: a confirmed link has its required amount.     *)

SingleHandler == \E h : Handlers = {h}

\* The activation is about to store what the link has on record now plus its
\* transfer, and the link has not been confirmed in the meantime.
UpToDate(h) ==
  LET l == handler[h].link
      t == handler[h].tx
  IN
  /\ status[l] # "PARTIALLY_SUCCESS"
  /\ TxTo[t] = AddressOf[l]
  /\ handler[h].total = Accumulated(l, t)
  /\ handler[h].kind = LinkKind(l, t)

RequiredInv ==
  /\ ConfirmedHasRequired
  /\ \A h \in Handlers :
       handler[h].pc = "credit" /\ handler[h].link \in Links => UpToDate(h)

LEMMA RequiredStep ==
  ASSUME SingleHandler
  PROVE  Typed /\ RequiredInv /\ [Next]_vars => RequiredInv'
<1> SUFFICES ASSUME Typed, RequiredInv, [Next]_vars PROVE RequiredInv'
  OBVIOUS
<1>0. /\ handler \in [Handlers -> HandlerState]
      /\ status \in [Links -> Status]
      /\ received \in [Links -> Nat]
      /\ Bound
  BY DEF Typed, TypeOK
<1>1. ASSUME NEW h \in Handlers, CheckWalletTx(h) PROVE RequiredInv'
  <2>1. UNCHANGED <<status, received>>
    BY <1>1 DEF CheckWalletTx, linkVars
  <2>2. \A g \in Handlers : g = h
    BY SingleHandler DEF SingleHandler
  <2>3. CASE \E m \in PendingAt(handler[h].tx) : handler' =
               [handler EXCEPT ![h].pc = "credit", ![h].kind = LinkKind(m, handler[h].tx),
                  ![h].link = m, ![h].total = Accumulated(m, handler[h].tx)]
    <3>1. PICK m \in PendingAt(handler[h].tx) : handler' =
               [handler EXCEPT ![h].pc = "credit", ![h].kind = LinkKind(m, handler[h].tx),
                  ![h].link = m, ![h].total = Accumulated(m, handler[h].tx)]
      BY <2>3
    <3>2. m \in Links /\ status[m] = "PENDING" /\ AddressOf[m] = TxTo[handler[h].tx]
      BY DEF PendingAt
    <3>3. /\ handler'[h].link = m
          /\ handler'[h].tx = handler[h].tx
          /\ handler'[h].kind = LinkKind(m, handler[h].tx)
          /\ handler'[h].total = Accumulated(m, handler[h].tx)
      BY <1>0, <3>1 DEF HandlerState
    <3>4. UpToDate(h)'
      BY <2>1, <3>2, <3>3 DEF UpToDate, Accumulated, LinkKind
    <3> QED BY <2>1, <2>2, <3>4 DEF RequiredInv, ConfirmedHasRequired
  <2>4. CASE \E c \in {"APP", "NONE"} : handler' =
               [handler EXCEPT ![h].pc = "credit", ![h].kind = c,
                  ![h].link = Nil, ![h].total = 0]
    <3>1. handler'[h].link = Nil
      BY <1>0, <2>4 DEF HandlerState
    <3> QED BY DepositsAssumption, <2>1, <2>2, <3>1 DEF RequiredInv, ConfirmedHasRequired
  <2> QED BY <1>1, <2>3, <2>4 DEF CheckWalletTx
<1>2. ASSUME NEW h \in Handlers, CreditFull(h) PROVE RequiredInv'
  <2>1. /\ handler[h].link \in Links
        /\ handler[h].total >= Required[handler[h].link]
        /\ received' = [received EXCEPT ![handler[h].link] = handler[h].total]
        /\ status' = [status EXCEPT ![handler[h].link] = "PARTIALLY_SUCCESS"]
    BY <1>0, <1>2 DEF CreditFull, StoreDeposit, Bound, RequiredInv, UpToDate, LinkKind
  <2>2. ConfirmedHasRequired'
    BY <1>0, <2>1 DEF RequiredInv, ConfirmedHasRequired
  <2>3. \A g \in Handlers : handler'[g].pc # "credit"
    BY <1>0, <1>2, SingleHandler DEF CreditFull, SingleHandler, HandlerState
  <2> QED BY <2>2, <2>3 DEF RequiredInv
<1>3. ASSUME NEW h \in Handlers, CreditPartial(h) PROVE RequiredInv'
  <2>1. /\ handler[h].link \in Links
        /\ status[handler[h].link] # "PARTIALLY_SUCCESS"
        /\ received' = [received EXCEPT ![handler[h].link] = handler[h].total]
        /\ status' = status
    BY <1>0, <1>3 DEF CreditPartial, StoreDeposit, Bound, RequiredInv, UpToDate
  <2>2. ConfirmedHasRequired'
    BY <1>0, <2>1 DEF RequiredInv, ConfirmedHasRequired
  <2>3. \A g \in Handlers : handler'[g].pc # "credit"
    BY <1>0, <1>3, SingleHandler DEF CreditPartial, SingleHandler, IdleHandler
  <2> QED BY <2>2, <2>3 DEF RequiredInv
<1>4. ASSUME NEW h \in Handlers,
             \/ \E t \in Txs : Deliver(h, t)
             \/ FindPayment(h) \/ FindApp(h) \/ CreditApp(h) \/ Ignore(h)
             \/ NotifyConfirmed(h) \/ HandlerAborts(h)
      PROVE  RequiredInv'
  <2>1. UNCHANGED <<status, received>>
    BY <1>4 DEF Deliver, FindPayment, FindApp, CreditApp, Ignore, NotifyConfirmed,
       HandlerAborts, linkVars
  <2>2. \A g \in Handlers : handler'[g] = handler[g] \/ handler'[g].pc # "credit"
    <3>1. ASSUME NEW t \in Txs, Deliver(h, t) PROVE handler'[h].pc = "findPayment"
      BY <1>0, <3>1 DEF Deliver, IdleHandler
    <3>2. ASSUME FindPayment(h) \/ FindApp(h)
          PROVE  handler'[h].pc \in {"findApp", "checkWalletTx"}
      BY <1>0, <3>2 DEF FindPayment, FindApp, HandlerState
    <3>3. ASSUME CreditApp(h) \/ Ignore(h) \/ NotifyConfirmed(h) \/ HandlerAborts(h)
          PROVE  handler'[h].pc = "idle"
      BY <1>0, <3>3 DEF CreditApp, Ignore, NotifyConfirmed, HandlerAborts, IdleHandler
    <3>4. handler'[h].pc # "credit"
      BY <1>4, <3>1, <3>2, <3>3
    <3> QED BY <3>4, SingleHandler DEF SingleHandler
  <2> QED BY <2>1, <2>2 DEF RequiredInv, ConfirmedHasRequired, UpToDate, Accumulated, LinkKind
<1>5. ASSUME \/ \E l \in Links : Elapse(l)
             \/ \E s \in Sweepers : SweeperStep(s) \/ SweeperAborts(s)
             \/ UNCHANGED vars
      PROVE  RequiredInv'
  <2>1. UNCHANGED <<handler, received>>
    BY <1>5 DEF Elapse, SweeperStep, SweepFind, SweepDeleteMonitors, SweepFindPending,
       SweepExpire, SweepNotify, SweepUnstream, SweeperAborts, vars, linkVars
  <2>2. \A l \in Links : status'[l] = "PARTIALLY_SUCCESS" => status[l] = "PARTIALLY_SUCCESS"
    BY <1>0, <1>5 DEF Elapse, SweeperStep, SweepFind, SweepDeleteMonitors, SweepFindPending,
       SweepExpire, SweepNotify, SweepUnstream, SweeperAborts, vars, linkVars
  <2> QED
    BY <2>1, <2>2 DEF RequiredInv, ConfirmedHasRequired, UpToDate, Accumulated, LinkKind
<1> QED BY <1>1, <1>2, <1>3, <1>4, <1>5 DEF Next, HandlerStep

LEMMA SingleInv ==
  ASSUME SingleHandler
  PROVE  Spec => []RequiredInv
<1>1. Init => RequiredInv
  BY DEF Init, RequiredInv, ConfirmedHasRequired, IdleHandler
<1>2. Typed /\ RequiredInv /\ [Next]_vars => RequiredInv'
  BY SingleHandler, RequiredStep
<1> QED BY <1>1, <1>2, TypedInv, PTL DEF Spec

\* If stream never runs twice at the same time, a link that was handed to the
\* withdraw cron has at least its required amount on record, whatever the
\* deliveries, the blocks, the aborts and the expiry cron do.
THEOREM SequentialConfirmedHasRequired ==
  ASSUME SingleHandler
  PROVE  Spec => []ConfirmedHasRequired
<1>1. Spec => []RequiredInv
  BY SingleHandler, SingleInv
<1>2. RequiredInv => ConfirmedHasRequired
  BY DEF RequiredInv
<1> QED BY <1>1, <1>2, PTL

-----------------------------------------------------------------------------
(* One activation at a time: the five steps of a credit are as good as one. *)

\* Every step credits a transfer, expires links, or does not concern the ledger.
LEMMA LedgerStep == Typed /\ RequiredInv /\ [Next]_vars => [Ledger!Next]_(Ledger!vars)
<1> SUFFICES ASSUME Typed, RequiredInv, [Next]_vars
             PROVE  Ledger!Next \/ UNCHANGED <<status, received>>
  BY DEF Ledger!vars
<1>0. /\ handler \in [Handlers -> HandlerState]
      /\ status \in [Links -> Status]
      /\ received \in [Links -> Nat]
      /\ Bound
  BY DEF Typed, TypeOK
<1>1. ASSUME NEW h \in Handlers, CreditFull(h) \/ CreditPartial(h) PROVE Ledger!Next
  <2> DEFINE l == handler[h].link
             t == handler[h].tx
  <2>1. l \in Links /\ t \in Txs /\ UpToDate(h)
    BY <1>0, <1>1 DEF CreditFull, CreditPartial, Bound, RequiredInv
  <2>2. received' = [received EXCEPT ![l] = @ + TxAmount[t]]
    BY <1>0, <1>1, <2>1
       DEF CreditFull, CreditPartial, StoreDeposit, UpToDate, Accumulated
  <2>3. received'[l] = received[l] + TxAmount[t]
    BY <1>0, <2>1, <2>2
  <2>4. CASE CreditFull(h)
    <3>1. received'[l] >= Required[l]
      BY <2>1, <2>3, <2>4 DEF CreditFull, UpToDate, LinkKind, Accumulated
    <3>2. status' = [status EXCEPT ![l] = "PARTIALLY_SUCCESS"]
      BY <2>4 DEF CreditFull
    <3>3. Ledger!Credit(l, t)
      BY <2>1, <2>2, <3>1, <3>2 DEF Ledger!Credit, UpToDate
    <3> QED BY <2>1, <3>3 DEF Ledger!Next
  <2>5. CASE CreditPartial(h)
    <3>1. ~(received'[l] >= Required[l])
      BY <2>1, <2>3, <2>5 DEF CreditPartial, UpToDate, LinkKind, Accumulated
    <3>2. status' = [status EXCEPT ![l] = @]
      BY <1>0, <2>1, <2>5 DEF CreditPartial
    <3>3. Ledger!Credit(l, t)
      BY <2>1, <2>2, <3>1, <3>2 DEF Ledger!Credit, UpToDate
    <3> QED BY <2>1, <3>3 DEF Ledger!Next
  <2> QED BY <1>1, <2>4, <2>5
<1>2. ASSUME NEW s \in Sweepers, SweepExpire(s) PROVE Ledger!Next
  <2>1. Expirable(s) \in SUBSET Links /\ \A l \in Expirable(s) : status[l] = "PENDING"
    BY DEF Expirable, SharesAddress
  <2>2. Ledger!Expire(Expirable(s))
    BY <1>2, <2>1 DEF SweepExpire, Ledger!Expire
  <2> QED BY <2>1, <2>2 DEF Ledger!Next
<1>3. ASSUME \/ \E h \in Handlers :
                   \/ \E t \in Txs : Deliver(h, t)
                   \/ FindPayment(h) \/ FindApp(h) \/ CheckWalletTx(h) \/ CreditApp(h)
                   \/ Ignore(h) \/ NotifyConfirmed(h) \/ HandlerAborts(h)
             \/ \E l \in Links : Elapse(l)
             \/ \E s \in Sweepers :
                   \/ SweepFind(s) \/ SweepDeleteMonitors(s) \/ SweepFindPending(s)
                   \/ SweepNotify(s) \/ SweepUnstream(s) \/ SweeperAborts(s)
             \/ UNCHANGED vars
      PROVE  UNCHANGED <<status, received>>
  BY <1>3 DEF Deliver, FindPayment, FindApp, CheckWalletTx, CreditApp, Ignore,
     NotifyConfirmed, HandlerAborts, Elapse, SweepFind, SweepDeleteMonitors,
     SweepFindPending, SweepNotify, SweepUnstream, SweeperAborts, vars, linkVars
<1> QED BY <1>1, <1>2, <1>3 DEF Next, HandlerStep, SweeperStep

\* If stream never runs twice at the same time, crediting a transfer is atomic:
\* the deposits and the expiry of links implement the ledger, whatever is
\* delivered again or cut short.
THEOREM SequentialCreditsAreAtomic ==
  ASSUME SingleHandler
  PROVE  Spec => CreditsAreAtomic
<1>1. Init => Ledger!Init
  BY DEF Init, Ledger!Init
<1>2. Typed /\ RequiredInv /\ [Next]_vars => [Ledger!Next]_(Ledger!vars)
  BY LedgerStep
<1>3. Spec => []RequiredInv
  BY SingleHandler, SingleInv
<1> QED BY <1>1, <1>2, <1>3, TypedInv, PTL DEF Spec, CreditsAreAtomic, Ledger!Spec

-----------------------------------------------------------------------------
(* Duplicate rows for a transfer to the app's own wallet.                  *)

\* The activations that may still store a row for transfer t.
Storing(t) ==
  {h \in Handlers : /\ handler[h].pc \in {"checkWalletTx", "credit"}
                    /\ handler[h].tx = t
                    /\ ~handler[h].inApp}

\* Once a row exists, no activation joins those that may store another.
AppRowsInv ==
  \A t \in Hashed :
    appRows[t] = 0 \/ appRows[t] + Cardinality(Storing(t)) <= Cardinality(Handlers)

LEMMA StoringFinite ==
  ASSUME NEW t
  PROVE  /\ IsFiniteSet(Storing(t))
         /\ Cardinality(Storing(t)) \in Nat
         /\ Cardinality(Handlers) \in Nat
         /\ Cardinality(Storing(t)) <= Cardinality(Handlers)
BY DepositsAssumption, FS_Subset, FS_CardinalityType, Storing(t) \subseteq Handlers
   DEF Storing

LEMMA AppRowsStep == Typed /\ AppRowsInv /\ [Next]_vars => AppRowsInv'
<1> SUFFICES ASSUME Typed, AppRowsInv, [Next]_vars, NEW t \in Hashed
             PROVE  appRows'[t] = 0 \/
                      appRows'[t] + Cardinality(Storing(t)') <= Cardinality(Handlers)
  BY DEF AppRowsInv
<1> DEFINE Goal == appRows'[t] = 0 \/
                     appRows'[t] + Cardinality(Storing(t)') <= Cardinality(Handlers)
<1>0. /\ handler \in [Handlers -> HandlerState]
      /\ appRows \in [Txs -> Nat]
      /\ t \in Txs
      /\ Bound
  BY DepositsAssumption DEF Typed, TypeOK
<1>1. /\ IsFiniteSet(Storing(t))
      /\ Cardinality(Storing(t)) \in Nat
      /\ Cardinality(Storing(t)') \in Nat
      /\ Cardinality(Handlers) \in Nat
      /\ Cardinality(Storing(t)) <= Cardinality(Handlers)
  <2>1. Storing(t)' \subseteq Handlers
    BY DEF Storing
  <2> QED BY <2>1, StoringFinite, DepositsAssumption, FS_Subset, FS_CardinalityType
\* A step that stores no row and lets no activation join.
<1>2. ASSUME appRows' = appRows,
             \A h \in Handlers : h \in Storing(t)' => h \in Storing(t) \/ appRows[t] = 0
      PROVE  Goal
  <2>1. CASE appRows[t] = 0
    BY <1>2, <2>1
  <2>2. CASE appRows[t] # 0
    <3>1. Storing(t)' \subseteq Storing(t)
      BY <1>2, <2>2 DEF Storing
    <3>2. Cardinality(Storing(t)') <= Cardinality(Storing(t))
      BY <1>1, <3>1, FS_Subset
    <3> QED BY <1>0, <1>1, <1>2, <2>2, <3>2 DEF AppRowsInv
  <2> QED BY <2>1, <2>2
<1>3. ASSUME NEW h \in Handlers, FindApp(h) PROVE Goal
  <2>1. /\ handler' = [handler EXCEPT ![h].pc = "checkWalletTx",
                                      ![h].inApp = AppRowExists(handler[h].tx)]
        /\ appRows' = appRows
    BY <1>3 DEF FindApp
  <2>2. /\ \A g \in Handlers : g # h => handler'[g] = handler[g]
        /\ handler'[h].tx = handler[h].tx
        /\ handler'[h].inApp = AppRowExists(handler[h].tx)
    BY <1>0, <2>1 DEF HandlerState
  <2>3. h \in Storing(t)' => appRows[t] = 0
    <3>1. handler'[h].inApp \/ handler[h].tx # t \/ appRows[t] = 0
      <4>1. AppRowExists(t) \/ appRows[t] = 0
        BY <1>0 DEF AppRowExists
      <4> QED BY <2>2, <4>1
    <3> QED BY <2>2, <3>1 DEF Storing
  <2>4. \A g \in Handlers : g \in Storing(t)' => g \in Storing(t) \/ appRows[t] = 0
    BY <2>2, <2>3 DEF Storing
  <2> QED BY <1>2, <2>1, <2>4
<1>4. ASSUME NEW h \in Handlers, CreditApp(h) PROVE Goal
  <2>1. /\ handler[h].pc = "credit" /\ ~handler[h].inApp
        /\ appRows' = [appRows EXCEPT ![handler[h].tx] = @ + 1]
        /\ \A g \in Handlers : g # h => handler'[g] = handler[g]
        /\ handler'[h].pc = "idle"
    BY <1>0, <1>4 DEF CreditApp, IdleHandler
  <2>2. CASE handler[h].tx = t
    <3>1. h \in Storing(t) /\ Storing(t)' \subseteq Storing(t) \ {h}
      BY <2>1, <2>2 DEF Storing
    <3>2. /\ Cardinality(Storing(t) \ {h}) = Cardinality(Storing(t)) - 1
          /\ IsFiniteSet(Storing(t) \ {h})
      BY <1>1, <3>1, FS_RemoveElement
    <3>3. Cardinality(Storing(t)') <= Cardinality(Storing(t)) - 1
      BY <3>1, <3>2, FS_Subset
    <3>4. appRows'[t] = appRows[t] + 1
      BY <1>0, <2>1, <2>2
    <3> QED BY <1>0, <1>1, <3>3, <3>4 DEF AppRowsInv
  <2>3. CASE handler[h].tx # t
    <3>1. Storing(t)' \subseteq Storing(t)
      BY <2>1 DEF Storing
    <3>2. Cardinality(Storing(t)') <= Cardinality(Storing(t))
      BY <1>1, <3>1, FS_Subset
    <3>3. appRows'[t] = appRows[t]
      BY <1>0, <2>1, <2>3
    <3> QED BY <1>0, <1>1, <3>2, <3>3 DEF AppRowsInv
  <2> QED BY <2>2, <2>3
<1>5. ASSUME NEW h \in Handlers,
             \/ \E u \in Txs : Deliver(h, u)
             \/ FindPayment(h) \/ CreditFull(h) \/ CreditPartial(h)
             \/ Ignore(h) \/ NotifyConfirmed(h) \/ HandlerAborts(h)
      PROVE  Goal
  <2>1. appRows' = appRows
    BY <1>5 DEF Deliver, FindPayment, CreditFull, CreditPartial, Ignore, NotifyConfirmed,
       HandlerAborts
  <2>2. \A g \in Handlers : g # h => handler'[g] = handler[g]
    BY <1>0, <1>5 DEF Deliver, FindPayment, CreditFull, CreditPartial, Ignore,
       NotifyConfirmed, HandlerAborts
  <2>3. handler'[h].pc \in {"findPayment", "findApp", "notify", "idle"}
    <3>1. ASSUME NEW u \in Txs, Deliver(h, u) PROVE handler'[h].pc = "findPayment"
      BY <1>0, <3>1 DEF Deliver, IdleHandler
    <3>2. ASSUME FindPayment(h) \/ CreditFull(h)
          PROVE  handler'[h].pc \in {"findApp", "notify"}
      BY <1>0, <3>2 DEF FindPayment, CreditFull, HandlerState
    <3>3. ASSUME CreditPartial(h) \/ Ignore(h) \/ NotifyConfirmed(h) \/ HandlerAborts(h)
          PROVE  handler'[h].pc = "idle"
      BY <1>0, <3>3 DEF CreditPartial, Ignore, NotifyConfirmed, HandlerAborts, IdleHandler
    <3> QED BY <1>5, <3>1, <3>2, <3>3
  <2>4. \A g \in Handlers : g \in Storing(t)' => g \in Storing(t)
    BY <2>2, <2>3 DEF Storing
  <2> QED BY <1>2, <2>1, <2>4
<1>6. ASSUME NEW h \in Handlers, CheckWalletTx(h) PROVE Goal
  <2>1. appRows' = appRows /\ handler[h].pc = "checkWalletTx"
    BY <1>6 DEF CheckWalletTx
  <2>2. /\ \A g \in Handlers : g # h => handler'[g] = handler[g]
        /\ handler'[h].tx = handler[h].tx
        /\ handler'[h].inApp = handler[h].inApp
    <3>1. \E k, l, n : handler' = [handler EXCEPT ![h].pc = "credit", ![h].kind = k,
                                    ![h].link = l, ![h].total = n]
      <4>1. CASE \E m \in PendingAt(handler[h].tx) : handler' =
                 [handler EXCEPT ![h].pc = "credit", ![h].kind = LinkKind(m, handler[h].tx),
                    ![h].link = m, ![h].total = Accumulated(m, handler[h].tx)]
        BY <4>1
      <4>2. CASE \E c \in {"APP", "NONE"} : handler' =
                 [handler EXCEPT ![h].pc = "credit", ![h].kind = c,
                    ![h].link = Nil, ![h].total = 0]
        BY <4>2
      <4> QED BY <1>6, <4>1, <4>2 DEF CheckWalletTx
    <3> QED BY <1>0, <3>1 DEF HandlerState
  <2>3. \A g \in Handlers : g \in Storing(t)' => g \in Storing(t)
    BY <2>1, <2>2 DEF Storing
  <2> QED BY <1>2, <2>1, <2>3
<1>7. ASSUME \/ \E k \in Links : Elapse(k)
             \/ \E s \in Sweepers : SweeperStep(s) \/ SweeperAborts(s)
             \/ UNCHANGED vars
      PROVE  Goal
  <2>1. UNCHANGED <<handler, appRows>>
    BY <1>7 DEF Elapse, SweeperStep, SweepFind, SweepDeleteMonitors, SweepFindPending,
       SweepExpire, SweepNotify, SweepUnstream, SweeperAborts, vars
  <2> QED BY <1>2, <2>1 DEF Storing
<1> QED
  BY <1>3, <1>4, <1>5, <1>6, <1>7 DEF Next, HandlerStep

\* A transfer to the app's own wallet that carries its hash is stored at most
\* once per activation that can run at the same time.
THEOREM AppRowsAtMostOncePerHandler == Spec => []AppRowsBounded
<1>1. Init => AppRowsInv
  BY DepositsAssumption DEF Init, AppRowsInv
<1>2. Typed /\ AppRowsInv => AppRowsBounded
  <2> SUFFICES ASSUME Typed, AppRowsInv, NEW t \in Hashed
               PROVE  appRows[t] <= Cardinality(Handlers)
    BY DEF AppRowsBounded
  <2>1. appRows[t] \in Nat
    BY DepositsAssumption DEF Typed, TypeOK
  <2> QED BY <2>1, StoringFinite DEF AppRowsInv
<1> QED BY <1>1, <1>2, AppRowsStep, TypedInv, PTL DEF Spec

-----------------------------------------------------------------------------
(* Transfers in flight, and those that have landed.                        *)

\* The activation has a transfer that it may still credit.
InFlight(h) == handler[h].pc \notin {"idle", "notify"}

\* The transfer was delivered, and no activation has it in hand any more.
Landed(t) ==
  deliveries[t] > 0 /\ \A h \in Handlers : InFlight(h) => handler[h].tx # t

\* The transfers that pay a link.
IsPayment(t) == \E l \in Links : TxTo[t] = AddressOf[l]

\* What checkWalletTx may leave in the record of an activation.
LEMMA CheckResult ==
  ASSUME Typed, NEW h \in Handlers, CheckWalletTx(h)
  PROVE  /\ \A g \in Handlers : g # h => handler'[g] = handler[g]
         /\ handler[h].pc = "checkWalletTx" /\ handler[h].tx \in Txs
         /\ handler'[h].pc = "credit" /\ handler'[h].tx = handler[h].tx
         /\ handler'[h].paid = handler[h].paid
         /\ \/ \E m \in PendingAt(handler[h].tx) :
                 /\ handler'[h].link = m /\ handler'[h].kind = LinkKind(m, handler[h].tx)
                 /\ handler'[h].total = Accumulated(m, handler[h].tx)
            \/ /\ PendingAt(handler[h].tx) = {} /\ handler'[h].link = Nil
               /\ handler'[h].kind \in {"APP", "NONE"}
<1>0. handler \in [Handlers -> HandlerState] /\ handler[h].pc = "checkWalletTx"
      /\ handler[h].tx \in Txs
  BY DEF Typed, TypeOK, Bound, CheckWalletTx
<1>1. CASE \E m \in PendingAt(handler[h].tx) : handler' =
             [handler EXCEPT ![h].pc = "credit", ![h].kind = LinkKind(m, handler[h].tx),
                ![h].link = m, ![h].total = Accumulated(m, handler[h].tx)]
  <2>1. PICK m \in PendingAt(handler[h].tx) : handler' =
             [handler EXCEPT ![h].pc = "credit", ![h].kind = LinkKind(m, handler[h].tx),
                ![h].link = m, ![h].total = Accumulated(m, handler[h].tx)]
    BY <1>1
  <2>2. /\ \A g \in Handlers : g # h => handler'[g] = handler[g]
        /\ handler'[h].pc = "credit" /\ handler'[h].tx = handler[h].tx
        /\ handler'[h].paid = handler[h].paid
        /\ handler'[h].link = m /\ handler'[h].kind = LinkKind(m, handler[h].tx)
        /\ handler'[h].total = Accumulated(m, handler[h].tx)
    BY <1>0, <2>1 DEF HandlerState
  <2> QED BY <1>0, <2>2
<1>2. CASE /\ PendingAt(handler[h].tx) = {}
           /\ \E c \in {"APP", "NONE"} : handler' =
                [handler EXCEPT ![h].pc = "credit", ![h].kind = c,
                   ![h].link = Nil, ![h].total = 0]
  <2>1. PICK c \in {"APP", "NONE"} : handler' =
             [handler EXCEPT ![h].pc = "credit", ![h].kind = c,
                ![h].link = Nil, ![h].total = 0]
    BY <1>2
  <2>2. /\ \A g \in Handlers : g # h => handler'[g] = handler[g]
        /\ handler'[h].pc = "credit" /\ handler'[h].tx = handler[h].tx
        /\ handler'[h].paid = handler[h].paid
        /\ handler'[h].link = Nil /\ handler'[h].kind = c
    BY <1>0, <2>1 DEF HandlerState
  <2> QED BY <1>0, <1>2, <2>2
<1> QED BY <1>1, <1>2 DEF CheckWalletTx

\* What a credit of an activation does.
LEMMA CreditResult ==
  ASSUME Typed, NEW h \in Handlers, CreditFull(h) \/ CreditPartial(h)
  PROVE  LET l == handler[h].link
             t == handler[h].tx
         IN  /\ l \in Links /\ t \in Txs
             /\ handler[h].pc = "credit" /\ ~handler[h].paid
             /\ received' = [received EXCEPT ![l] = handler[h].total]
             /\ lastBlock' = [lastBlock EXCEPT ![l] = TxBlock[t]]
             /\ lastHash' = [lastHash EXCEPT ![l] = IF t \in Hashed THEN t ELSE @]
             /\ \/ CreditFull(h) /\ handler[h].kind = "PAYMENT_LINK"
                   /\ status' = [status EXCEPT ![l] = "PARTIALLY_SUCCESS"]
                \/ CreditPartial(h) /\ handler[h].kind = "PARTIAL_PAYMENT_LINK"
                   /\ status' = status
             /\ handler'[h].pc \in {"idle", "notify"}
             /\ \A g \in Handlers : g # h => handler'[g] = handler[g]
             /\ deliveries' = deliveries /\ aborts' = aborts
<1>0. handler \in [Handlers -> HandlerState] /\ Bound
  BY DEF Typed, TypeOK
<1>1. CASE CreditFull(h)
  <2>1. /\ handler'[h].pc = "notify" /\ \A g \in Handlers : g # h => handler'[g] = handler[g]
    BY <1>0, <1>1 DEF CreditFull, HandlerState
  <2> QED BY <1>0, <1>1, <2>1 DEF CreditFull, StoreDeposit, Bound
<1>2. CASE CreditPartial(h)
  <2>1. /\ handler'[h].pc = "idle" /\ \A g \in Handlers : g # h => handler'[g] = handler[g]
    BY <1>0, <1>2 DEF CreditPartial, IdleHandler
  <2> QED BY <1>0, <1>2, <2>1 DEF CreditPartial, StoreDeposit, Bound
<1> QED BY <1>1, <1>2

\* What the remaining steps of an activation leave alone.
LEMMA OtherResult ==
  ASSUME Typed, NEW h \in Handlers,
         FindPayment(h) \/ FindApp(h) \/ CreditApp(h) \/ Ignore(h) \/ NotifyConfirmed(h)
  PROVE  /\ UNCHANGED <<linkVars, deliveries, aborts>>
         /\ \A g \in Handlers : g # h => handler'[g] = handler[g]
         /\ \/ /\ FindPayment(h) \/ FindApp(h)
               /\ handler'[h].pc \in {"findApp", "checkWalletTx"}
               /\ handler'[h].tx = handler[h].tx
               /\ handler'[h].paid = IF FindPayment(h) THEN PaymentExists(handler[h].tx)
                                                       ELSE handler[h].paid
               /\ InFlight(h)
            \/ /\ CreditApp(h) \/ Ignore(h) \/ NotifyConfirmed(h)
               /\ handler'[h].pc = "idle"
<1>0. handler \in [Handlers -> HandlerState]
  BY DEF Typed, TypeOK
<1>1. CASE FindPayment(h)
  <2>1. /\ handler'[h].pc = "findApp" /\ handler'[h].tx = handler[h].tx
        /\ handler'[h].paid = PaymentExists(handler[h].tx)
        /\ \A g \in Handlers : g # h => handler'[g] = handler[g]
    BY <1>0, <1>1 DEF FindPayment, HandlerState
  <2> QED BY <1>1, <2>1 DEF FindPayment, linkVars, InFlight
<1>2. CASE FindApp(h)
  <2>1. /\ handler'[h].pc = "checkWalletTx" /\ handler'[h].tx = handler[h].tx
        /\ handler'[h].paid = handler[h].paid
        /\ \A g \in Handlers : g # h => handler'[g] = handler[g]
    BY <1>0, <1>2 DEF FindApp, HandlerState
  <2>2. ~FindPayment(h) /\ InFlight(h)
    BY <1>2 DEF FindApp, FindPayment, InFlight
  <2> QED BY <1>2, <2>1, <2>2 DEF FindApp, linkVars
<1>3. CASE CreditApp(h) \/ Ignore(h) \/ NotifyConfirmed(h)
  <2>1. handler'[h].pc = "idle" /\ \A g \in Handlers : g # h => handler'[g] = handler[g]
    BY <1>0, <1>3 DEF CreditApp, Ignore, NotifyConfirmed, IdleHandler
  <2> QED BY <1>3, <2>1 DEF CreditApp, Ignore, NotifyConfirmed, linkVars
<1> QED BY <1>1, <1>2, <1>3

-----------------------------------------------------------------------------
(* One activation at a time: no transfer is lost.                          *)

OwnAddresses == \A l, k \in Links : AddressOf[l] = AddressOf[k] => l = k

\* isPaymentExist takes a transfer in the block of another one for a repetition.
OneTransferPerBlock ==
  \A t, u \in Txs : IsPayment(t) /\ IsPayment(u) /\ TxBlock[t] = TxBlock[u] => t = u

Quiet == aborts = 0 /\ \A t \in Txs : deliveries[t] <= 1

LandedAt(l) == {t \in Payments(l) : Landed(t)}

\* The activation will credit the link that waits at the address of its transfer.
Credits(h) ==
  LET t == handler[h].tx IN
  /\ InFlight(h) /\ IsPayment(t) => ~handler[h].paid
  /\ handler[h].pc = "credit" => \A l \in PendingAt(t) :
       /\ handler[h].link = l
       /\ handler[h].kind \in {"PAYMENT_LINK", "PARTIAL_PAYMENT_LINK"}

Recorded ==
  /\ \A l \in Links, t \in Txs : lastHash[l] = t => Landed(t)
  /\ \A l \in Links : lastBlock[l] # Nil =>
       \E t \in Txs : IsPayment(t) /\ Landed(t) /\ TxBlock[t] = lastBlock[l]
  /\ \A l \in Links : status[l] = "PENDING" => received[l] = SumOver(TxAmount, LandedAt(l))

Flying ==
  \A h \in Handlers : InFlight(h) => handler[h].tx \in Txs /\ deliveries[handler[h].tx] > 0

LossInv == Quiet => Flying /\ Recorded /\ \A h \in Handlers : Credits(h)

\* Amounts can be added up over any set of transfers.
LEMMA AmountSums ==
  ASSUME NEW S \in SUBSET Txs
  PROVE  Summable(TxAmount, S) /\ SumOver(TxAmount, S) \in Nat
<1>1. IsFiniteSet(S)
  BY DepositsAssumption, FS_Subset
<1>2. \A t \in S : TxAmount[t] \in Nat
  BY DepositsAssumption
<1>3. Summable(TxAmount, S)
  BY <1>1, <1>2 DEF Summable
<1> QED BY <1>1, <1>2, <1>3, SumNat

LEMMA LossStep ==
  ASSUME SingleHandler, OwnAddresses, OneTransferPerBlock
  PROVE  Typed /\ Typed' /\ RequiredInv /\ LossInv /\ [Next]_vars => LossInv'
<1> SUFFICES ASSUME Typed, Typed', RequiredInv, LossInv, [Next]_vars, Quiet'
             PROVE  Flying' /\ Recorded' /\ \A h \in Handlers : Credits(h)'
  BY DEF LossInv
<1> DEFINE Goal == Flying' /\ Recorded' /\ \A h \in Handlers : Credits(h)'
<1>0. /\ handler \in [Handlers -> HandlerState]
      /\ status \in [Links -> Status]
      /\ received \in [Links -> Nat]
      /\ lastHash \in [Links -> Txs \cup {Nil}]
      /\ lastBlock \in [Links -> Blocks \cup {Nil}]
      /\ deliveries \in [Txs -> 0..MaxDeliveries] /\ aborts \in 0..MaxAborts
      /\ MaxDeliveries \in Nat /\ MaxAborts \in Nat
      /\ Nil \notin Txs /\ Nil \notin Blocks /\ Nil \notin Links
      /\ TxBlock \in [Txs -> Blocks]
      /\ Bound
  BY DepositsAssumption DEF Typed, TypeOK
<1>1. \A g, h \in Handlers : g = h
  BY SingleHandler DEF SingleHandler
\* A step that delivers and credits nothing and keeps what has landed.
<1>2. ASSUME Quiet, UNCHANGED <<received, lastHash, lastBlock, deliveries>>,
             \A l \in Links : status'[l] = "PENDING" => status[l] = "PENDING",
             \A h \in Handlers : InFlight(h)' <=> InFlight(h),
             \A h \in Handlers : InFlight(h) => handler'[h].tx = handler[h].tx
      PROVE  Flying' /\ Recorded'
  <2>1. Flying /\ Recorded
    BY <1>2 DEF LossInv
  <2>2. \A t : Landed(t)' <=> Landed(t)
    BY <1>2 DEF Landed
  <2>3. \A l : LandedAt(l)' = LandedAt(l)
    BY <2>2 DEF LandedAt, Payments
  <2>4. Flying'
    BY <1>2, <2>1 DEF Flying
  <2>5. Recorded'
    BY <1>2, <2>1, <2>2, <2>3 DEF Recorded
  <2> QED BY <2>4, <2>5
<1>3. ASSUME NEW h \in Handlers, NEW t \in Txs, Deliver(h, t) PROVE Goal
  <2>1. /\ handler[h].pc = "idle" /\ handler'[h].pc = "findPayment" /\ handler'[h].tx = t
        /\ ~handler'[h].paid /\ InFlight(h)' /\ ~InFlight(h)
        /\ deliveries' = [deliveries EXCEPT ![t] = @ + 1]
        /\ UNCHANGED <<status, received, lastHash, lastBlock, aborts>>
    BY <1>0, <1>3 DEF Deliver, IdleHandler, linkVars, InFlight
  <2>2. deliveries[t] = 0 /\ deliveries'[t] > 0 /\ Quiet
    BY <1>0, <2>1 DEF Quiet
  <2>3. Flying /\ Recorded
    BY <2>2 DEF LossInv
  <2>4. \A u \in Txs : Landed(u)' <=> Landed(u)
    <3>1. ASSUME NEW u \in Txs, u # t PROVE Landed(u)' <=> Landed(u)
      <4>1. deliveries'[u] = deliveries[u]
        BY <1>0, <2>1, <3>1
      <4> QED BY <1>1, <2>1, <3>1, <4>1 DEF Landed
    <3>2. ~Landed(t)' /\ ~Landed(t)
      BY <2>1, <2>2 DEF Landed
    <3> QED BY <3>1, <3>2
  <2>5. \A l : LandedAt(l)' = LandedAt(l)
    BY <2>4 DEF LandedAt, Payments
  <2>6. Flying'
    BY <1>1, <2>1, <2>2 DEF Flying
  <2>7. Recorded'
    BY <1>0, <2>1, <2>3, <2>4, <2>5 DEF Recorded
  <2>8. \A g \in Handlers : Credits(g)'
    BY <1>1, <2>1 DEF Credits
  <2> QED BY <2>6, <2>7, <2>8
<1>4. ASSUME NEW h \in Handlers,
             FindPayment(h) \/ FindApp(h) \/ CreditApp(h) \/ Ignore(h) \/ NotifyConfirmed(h)
      PROVE  Goal
  <2>1. /\ UNCHANGED <<status, received, lastHash, lastBlock, deliveries, aborts>>
        /\ \/ /\ FindPayment(h) \/ FindApp(h)
              /\ handler'[h].pc \in {"findApp", "checkWalletTx"}
              /\ handler'[h].tx = handler[h].tx
              /\ handler'[h].paid = IF FindPayment(h) THEN PaymentExists(handler[h].tx)
                                                      ELSE handler[h].paid
              /\ InFlight(h)
           \/ /\ CreditApp(h) \/ Ignore(h) \/ NotifyConfirmed(h)
              /\ handler'[h].pc = "idle"
    BY <1>4, OtherResult DEF linkVars
  <2>2. Quiet
    BY <2>1 DEF Quiet
  <2>3. Flying /\ Recorded /\ Credits(h)
    BY <2>2 DEF LossInv
  <2>4. CASE FindPayment(h) \/ FindApp(h)
    <3>1. /\ handler'[h].pc \in {"findApp", "checkWalletTx"}
          /\ handler'[h].tx = handler[h].tx /\ InFlight(h) /\ InFlight(h)'
          /\ handler'[h].paid = IF FindPayment(h) THEN PaymentExists(handler[h].tx)
                                                  ELSE handler[h].paid
      <4>1. ~CreditApp(h) /\ ~Ignore(h) /\ ~NotifyConfirmed(h)
        BY <2>4 DEF FindPayment, FindApp, CreditApp, Ignore, NotifyConfirmed
      <4> QED BY <2>1, <4>1 DEF InFlight
    <3>2. Flying' /\ Recorded'
      BY <1>1, <1>2, <2>1, <2>2, <3>1
    <3>3. ASSUME IsPayment(handler[h].tx) PROVE ~PaymentExists(handler[h].tx)
      <4> DEFINE t == handler[h].tx
      <4>1. t \in Txs /\ ~Landed(t)
        BY <2>3, <3>1 DEF Flying, Landed
      <4>2. \A l \in Links : lastHash[l] # t
        BY <1>0, <2>3, <4>1 DEF Recorded
      <4>3. ASSUME NEW l \in Links, lastBlock[l] = TxBlock[t] PROVE FALSE
        <5>1. lastBlock[l] # Nil
          BY <1>0, <4>1, <4>3
        <5>2. PICK u \in Txs : IsPayment(u) /\ Landed(u) /\ TxBlock[u] = lastBlock[l]
          BY <2>3, <5>1 DEF Recorded
        <5>3. u = t
          BY <3>3, <4>1, <4>3, <5>2, OneTransferPerBlock DEF OneTransferPerBlock
        <5> QED BY <4>1, <5>2, <5>3
      <4> QED BY <4>2, <4>3 DEF PaymentExists
    <3>4. Credits(h)'
      BY <2>3, <3>1, <3>3 DEF Credits, IsPayment
    <3> QED BY <1>1, <3>2, <3>4
  <2>5. CASE NotifyConfirmed(h)
    <3>1. handler'[h].pc = "idle" /\ ~InFlight(h) /\ ~InFlight(h)'
      <4>1. ~FindPayment(h) /\ ~FindApp(h) /\ ~InFlight(h)
        BY <2>5 DEF FindPayment, FindApp, NotifyConfirmed, InFlight
      <4> QED BY <2>1, <4>1 DEF InFlight
    <3>2. Flying' /\ Recorded'
      BY <1>1, <1>2, <2>1, <2>2, <3>1
    <3>3. Credits(h)'
      BY <3>1 DEF Credits
    <3> QED BY <1>1, <3>2, <3>3
  \* Nothing waits at the address of a transfer that is not credited.
  <2>6. CASE CreditApp(h) \/ Ignore(h)
    <3> DEFINE t == handler[h].tx
    <3>1. /\ handler[h].pc = "credit" /\ handler'[h].pc = "idle" /\ InFlight(h) /\ ~InFlight(h)'
          /\ handler[h].kind \in {"APP", "NONE"} \/ handler[h].paid
      <4>1. /\ ~FindPayment(h) /\ ~FindApp(h) /\ InFlight(h) /\ handler[h].pc = "credit"
            /\ handler[h].kind \in {"APP", "NONE"} \/ handler[h].paid
        BY <2>6 DEF FindPayment, FindApp, CreditApp, Ignore, InFlight
      <4> QED BY <2>1, <4>1 DEF InFlight
    <3>2. t \in Txs /\ PendingAt(t) = {}
      <4>1. t \in Txs
        BY <2>3, <3>1 DEF Flying
      <4>2. ASSUME NEW l \in PendingAt(t) PROVE FALSE
        <5>1. IsPayment(t)
          BY DEF PendingAt, IsPayment
        <5>2. ~handler[h].paid
          BY <2>3, <3>1, <5>1 DEF Credits
        <5>3. handler[h].kind \in {"PAYMENT_LINK", "PARTIAL_PAYMENT_LINK"}
          BY <2>3, <3>1 DEF Credits
        <5> QED BY <3>1, <5>2, <5>3
      <4> QED BY <4>1, <4>2
    <3>3. \A u \in Txs : Landed(u) => Landed(u)'
      BY <1>1, <2>1, <3>1 DEF Landed
    <3>4. \A u \in Txs : Landed(u)' => Landed(u) \/ u = t
      BY <1>1, <2>1, <3>1 DEF Landed
    <3>5. ASSUME NEW l \in Links, status[l] = "PENDING" PROVE LandedAt(l)' = LandedAt(l)
      <4>1. TxTo[t] # AddressOf[l]
        BY <3>2, <3>5 DEF PendingAt
      <4> QED BY <3>3, <3>4, <4>1 DEF LandedAt, Payments
    <3>6. Recorded'
      <4>1. \A l \in Links, u \in Txs : lastHash'[l] = u => Landed(u)'
        BY <2>1, <2>3, <3>3 DEF Recorded
      <4>2. \A l \in Links : lastBlock'[l] # Nil =>
              \E u \in Txs : IsPayment(u) /\ Landed(u)' /\ TxBlock[u] = lastBlock'[l]
        BY <2>1, <2>3, <3>3 DEF Recorded
      <4>3. \A l \in Links : status'[l] = "PENDING" =>
              received'[l] = SumOver(TxAmount, LandedAt(l)')
        BY <2>1, <2>3, <3>5 DEF Recorded
      <4> QED BY <4>1, <4>2, <4>3 DEF Recorded, IsPayment
    <3>7. Flying' /\ Credits(h)'
      BY <1>1, <3>1 DEF Flying, Credits, InFlight
    <3> QED BY <1>1, <3>6, <3>7
  <2> QED BY <1>4, <2>4, <2>5, <2>6
<1>5. ASSUME NEW h \in Handlers, CheckWalletTx(h) PROVE Goal
  <2>0. PICK t \in Txs : t = handler[h].tx
    BY <1>5, CheckResult
  <2>1. /\ handler[h].pc = "checkWalletTx"
        /\ handler'[h].pc = "credit" /\ handler'[h].tx = t
        /\ handler'[h].paid = handler[h].paid
        /\ \/ \E m \in PendingAt(t) :
                handler'[h].link = m /\ handler'[h].kind = LinkKind(m, t)
           \/ PendingAt(t) = {}
    BY <1>5, <2>0, CheckResult
  <2>2. UNCHANGED <<status, received, lastHash, lastBlock, deliveries, aborts>>
    BY <1>5 DEF CheckWalletTx, linkVars
  <2>3. Quiet /\ InFlight(h) /\ InFlight(h)'
    BY <2>1, <2>2 DEF Quiet, InFlight
  <2>4. Flying' /\ Recorded'
    BY <1>1, <1>2, <2>0, <2>1, <2>2, <2>3
  <2>5. Credits(h)
    BY <2>3 DEF LossInv
  <2>6. ASSUME NEW l \in PendingAt(t)
        PROVE  /\ handler'[h].link = l
               /\ handler'[h].kind \in {"PAYMENT_LINK", "PARTIAL_PAYMENT_LINK"}
    <3>1. PICK m \in PendingAt(t) : handler'[h].link = m /\ handler'[h].kind = LinkKind(m, t)
      BY <2>1
    <3>2. m = l
      BY OwnAddresses DEF OwnAddresses, PendingAt
    <3> QED BY <3>1, <3>2 DEF LinkKind
  <2>7. PendingAt(t)' = PendingAt(t)
    BY <2>2 DEF PendingAt
  <2>8. Credits(h)'
    BY <2>0, <2>1, <2>3, <2>5, <2>6, <2>7 DEF Credits, IsPayment, PendingAt
  <2> QED BY <1>1, <2>4, <2>8
<1>6. ASSUME NEW h \in Handlers, CreditFull(h) \/ CreditPartial(h) PROVE Goal
  <2>0. PICK l \in Links, t \in Txs : l = handler[h].link /\ t = handler[h].tx
    BY <1>6, CreditResult
  <2>1. /\ handler[h].pc = "credit" /\ ~handler[h].paid
        /\ received' = [received EXCEPT ![l] = handler[h].total]
        /\ lastBlock' = [lastBlock EXCEPT ![l] = TxBlock[t]]
        /\ lastHash' = [lastHash EXCEPT ![l] = IF t \in Hashed THEN t ELSE @]
        /\ \/ status' = [status EXCEPT ![l] = "PARTIALLY_SUCCESS"]
           \/ status' = status
        /\ handler'[h].pc \in {"idle", "notify"}
        /\ deliveries' = deliveries /\ aborts' = aborts
    BY <1>6, <2>0, CreditResult
  <2>2. Quiet /\ InFlight(h) /\ ~InFlight(h)'
    BY <2>1 DEF Quiet, InFlight
  <2>3. Flying /\ Recorded /\ Credits(h)
    BY <2>2 DEF LossInv
  <2>4. UpToDate(h) /\ TxTo[t] = AddressOf[l] /\ handler[h].total = received[l] + TxAmount[t]
    BY <2>0, <2>1 DEF RequiredInv, UpToDate, Accumulated
  <2>5. IsPayment(t) /\ Landed(t)' /\ ~Landed(t)
    <3>1. deliveries[t] > 0
      BY <2>0, <2>2, <2>3 DEF Flying
    <3>2. ~Landed(t)
      BY <2>0, <2>2 DEF Landed
    <3> QED BY <1>1, <2>1, <2>2, <2>4, <3>1, <3>2 DEF IsPayment, Landed
  <2>6. \A u \in Txs : (Landed(u)' <=> Landed(u) \/ u = t)
    BY <1>1, <2>0, <2>1, <2>2, <2>5 DEF Landed
  <2>7. \A k \in Links, u \in Txs : lastHash'[k] = u => Landed(u)'
    <3> SUFFICES ASSUME NEW k \in Links, NEW u \in Txs, lastHash'[k] = u PROVE Landed(u)'
      OBVIOUS
    <3>1. u = t \/ lastHash[k] = u
      BY <1>0, <2>1
    <3>2. u = t \/ Landed(u)
      BY <2>3, <3>1 DEF Recorded
    <3> QED BY <2>6, <3>2
  <2>8. \A k \in Links : lastBlock'[k] # Nil =>
          \E u \in Txs : IsPayment(u) /\ Landed(u)' /\ TxBlock[u] = lastBlock'[k]
    <3> SUFFICES ASSUME NEW k \in Links, lastBlock'[k] # Nil
                 PROVE  \E u \in Txs : IsPayment(u) /\ Landed(u)' /\ TxBlock[u] = lastBlock'[k]
      OBVIOUS
    <3>1. lastBlock'[k] = TxBlock[t] \/ lastBlock'[k] = lastBlock[k]
      BY <1>0, <2>1
    <3>2. CASE lastBlock'[k] = TxBlock[t]
      BY <2>1, <2>5, <3>2
    <3>3. CASE lastBlock'[k] = lastBlock[k]
      <4>1. PICK u \in Txs : IsPayment(u) /\ Landed(u) /\ TxBlock[u] = lastBlock[k]
        BY <2>3, <3>3 DEF Recorded
      <4> QED BY <2>6, <3>3, <4>1
    <3> QED BY <3>1, <3>2, <3>3
  <2>9. ASSUME NEW k \in Links, status'[k] = "PENDING"
        PROVE  received'[k] = SumOver(TxAmount, LandedAt(k)')
    <3>1. status[k] = "PENDING" /\ received[k] = SumOver(TxAmount, LandedAt(k))
      BY <1>0, <2>1, <2>3, <2>9 DEF Recorded
    <3>2. LandedAt(k) \in SUBSET Txs
      BY DEF LandedAt, Payments
    <3>3. CASE k = l
      <4>1. LandedAt(k)' = LandedAt(k) \cup {t} /\ t \notin LandedAt(k)
        BY <2>1, <2>4, <2>5, <2>6, <3>3 DEF LandedAt, Payments
      <4>2. Summable(TxAmount, LandedAt(k)) /\ TxAmount[t] \in Int
        BY <2>1, <3>2, AmountSums, DepositsAssumption
      <4>3. SumOver(TxAmount, LandedAt(k) \cup {t}) = TxAmount[t] + SumOver(TxAmount, LandedAt(k))
        BY <4>1, <4>2, SumAdd
      <4>4. received'[k] = received[k] + TxAmount[t]
        BY <1>0, <2>1, <2>4, <3>3
      <4>5. SumOver(TxAmount, LandedAt(k)) \in Int
        BY <3>2, AmountSums
      <4> QED BY <3>1, <4>1, <4>2, <4>3, <4>4, <4>5
    <3>4. CASE k # l
      <4>1. TxTo[t] # AddressOf[k]
        BY <2>1, <2>4, <3>4, OwnAddresses DEF OwnAddresses
      <4>2. LandedAt(k)' = LandedAt(k)
        BY <2>6, <4>1 DEF LandedAt, Payments
      <4>3. received'[k] = received[k]
        BY <1>0, <2>1, <3>4
      <4> QED BY <3>1, <4>2, <4>3
    <3> QED BY <3>3, <3>4
  <2>10. Recorded'
    BY <2>7, <2>8, <2>9 DEF Recorded, IsPayment
  <2>11. Flying' /\ Credits(h)'
    BY <1>1, <2>1, <2>2 DEF Flying, Credits, InFlight
  <2> QED BY <1>1, <2>10, <2>11
<1>7. ASSUME \/ \E h \in Handlers : HandlerAborts(h)
             \/ \E s \in Sweepers : SweeperAborts(s)
      PROVE  FALSE
  <2>1. aborts' = aborts + 1
    BY <1>7 DEF HandlerAborts, SweeperAborts
  <2> QED BY <1>0, <2>1 DEF Quiet
<1>8. ASSUME \/ \E l \in Links : Elapse(l)
             \/ \E s \in Sweepers : SweeperStep(s)
             \/ UNCHANGED vars
      PROVE  Goal
  <2>1. UNCHANGED <<handler, received, lastHash, lastBlock, deliveries, aborts>>
    BY <1>8 DEF Elapse, SweeperStep, SweepFind, SweepDeleteMonitors, SweepFindPending,
       SweepExpire, SweepNotify, SweepUnstream, vars, linkVars
  <2>2. \A l \in Links : status'[l] = "PENDING" => status[l] = "PENDING"
    BY <1>0, <1>8 DEF Elapse, SweeperStep, SweepFind, SweepDeleteMonitors, SweepFindPending,
       SweepExpire, SweepNotify, SweepUnstream, vars, linkVars
  <2>3. Quiet
    BY <2>1 DEF Quiet
  <2>4. \A h \in Handlers : (InFlight(h)' <=> InFlight(h)) /\ handler'[h] = handler[h]
    BY <2>1 DEF InFlight
  <2>5. Flying' /\ Recorded'
    BY <1>2, <2>1, <2>2, <2>3, <2>4
  <2>6. ASSUME NEW h \in Handlers PROVE Credits(h)'
    <3>1. Credits(h)
      BY <2>3 DEF LossInv
    <3>2. PendingAt(handler[h].tx)' \subseteq PendingAt(handler[h].tx)
      BY <2>1, <2>2 DEF PendingAt
    <3> QED BY <2>1, <2>4, <3>1, <3>2 DEF Credits, IsPayment
  <2> QED BY <2>5, <2>6
<1> QED
  BY <1>3, <1>4, <1>5, <1>6, <1>7, <1>8 DEF Next, HandlerStep

\* If stream never runs twice at the same time, every link has an address of its
\* own and no two of their transfers share a block, then whatever was delivered
\* for a link that waits is on its record: no credit, expiry or look-up loses it,
\* for any transfers, any number of expiry ticks and any order of them.
THEOREM SequentialNothingLost ==
  ASSUME SingleHandler, OwnAddresses, OneTransferPerBlock
  PROVE  Spec => []NothingLost
<1>1. Init => LossInv
  <2> SUFFICES ASSUME Init PROVE Flying /\ Recorded /\ \A h \in Handlers : Credits(h)
    BY DEF LossInv
  <2>1. /\ \A h \in Handlers : handler[h].pc = "idle"
        /\ \A t \in Txs : ~Landed(t)
    BY DEF Init, IdleHandler, Landed
  <2>2. \A l \in Links : LandedAt(l) = {}
    BY <2>1 DEF LandedAt, Payments
  <2>3. \A l \in Links : received[l] = 0 /\ lastHash[l] = Nil /\ lastBlock[l] = Nil
    BY DEF Init
  <2>4. Recorded
    BY <2>1, <2>2, <2>3, SumEmpty, DepositsAssumption DEF Recorded
  <2> QED BY <2>1, <2>4 DEF Flying, Credits, InFlight
<1>2. Typed /\ Typed' /\ RequiredInv /\ LossInv /\ [Next]_vars => LossInv'
  BY SingleHandler, OwnAddresses, OneTransferPerBlock, LossStep
<1>3. Typed /\ LossInv => NothingLost
  <2> SUFFICES ASSUME Typed, LossInv, Quiet, \A h \in Handlers : handler[h].pc = "idle",
                      NEW l \in Links, status[l] = "PENDING"
               PROVE  received[l] = Delivered(l)
    BY DEF NothingLost, Quiet
  <2>1. received[l] = SumOver(TxAmount, LandedAt(l))
    BY DEF LossInv, Recorded
  <2>2. LandedAt(l) = {t \in Payments(l) : deliveries[t] > 0}
    BY DEF LandedAt, Landed, InFlight
  <2> QED BY <2>1, <2>2 DEF Delivered, SumOver
<1>4. Spec => []RequiredInv
  BY SingleHandler, SingleInv
<1> QED BY <1>1, <1>2, <1>3, <1>4, TypedInv, PTL DEF Spec

-----------------------------------------------------------------------------
(* PaymentLifecycle: types.                                                *)

PayerState == [todo : SUBSET Links, stored : [Links -> Nat], paid : Links \cup {Nil}]

LinksOf(a) == {l \in Links : AddressOf[l] = a}

Arrived(a) == {t \in Txs : TxTo[t] = a /\ deliveries[t] > 0}

\* No address has paid out more than has arrived at it.
FundsCover ==
  \A a \in Addresses : SumOver(paidOut, LinksOf(a)) <= SumOver(TxAmount, Arrived(a))

LifeTyped ==
  /\ Typed
  /\ payer \in [Payers -> PayerState]
  /\ paidOut \in [Links -> Nat] /\ settled \in [Links -> Nat]
  /\ disturbed \in SUBSET Addresses
  /\ FundsCover

LEMMA MinOfTwo ==
  ASSUME NEW m \in Int, NEW n \in Int
  PROVE  Min({m, n}) \in {m, n} /\ Min({m, n}) <= m /\ Min({m, n}) <= n
<1>1. \E x \in {m, n} : \A y \in {m, n} : x <= y
  OBVIOUS
<1> DEFINE x == CHOOSE x \in {m, n} : \A y \in {m, n} : x <= y
<1>2. x \in {m, n} /\ \A y \in {m, n} : x <= y
  BY <1>1
<1>3. Min({m, n}) = x
  BY DEF Min
<1> HIDE DEF x
<1> QED BY <1>2, <1>3

\* Natural numbers can be added up over any set of links.
LEMMA LinkSums ==
  ASSUME NEW f \in [Links -> Nat], NEW S \in SUBSET Links
  PROVE  Summable(f, S) /\ SumOver(f, S) \in Nat
<1>1. IsFiniteSet(S)
  BY DepositsAssumption, FS_Subset
<1>2. Summable(f, S)
  BY <1>1 DEF Summable
<1> QED BY <1>1, <1>2, SumNat

LEMMA FundsAre ==
  ASSUME LifeTyped, NEW a \in Addresses
  PROVE  /\ Funds(a) = SumOver(TxAmount, Arrived(a)) - SumOver(paidOut, LinksOf(a))
         /\ SumOver(TxAmount, Arrived(a)) \in Nat /\ SumOver(paidOut, LinksOf(a)) \in Nat
         /\ Funds(a) \in Nat
<1>1. Funds(a) = SumOver(TxAmount, Arrived(a)) - SumOver(paidOut, LinksOf(a))
  BY DEF Funds, SumOver, Arrived, LinksOf
<1>2. SumOver(TxAmount, Arrived(a)) \in Nat
  BY AmountSums DEF Arrived
<1>3. SumOver(paidOut, LinksOf(a)) \in Nat
  BY LinkSums DEF LifeTyped, LinksOf
<1>4. SumOver(paidOut, LinksOf(a)) <= SumOver(TxAmount, Arrived(a))
  BY DEF LifeTyped, FundsCover
<1> QED BY <1>1, <1>2, <1>3, <1>4

\* A delivery is not forgotten.
LEMMA DeliveriesGrow ==
  ASSUME Typed, [Next]_vars
  PROVE  \A t \in Txs : /\ deliveries[t] \in Nat /\ deliveries'[t] \in Nat
                        /\ deliveries[t] <= deliveries'[t]
<1>0. deliveries \in [Txs -> 0..MaxDeliveries] /\ MaxDeliveries \in Nat
  BY DepositsAssumption DEF Typed, TypeOK
<1>1. ASSUME NEW h \in Handlers, NEW u \in Txs, Deliver(h, u)
      PROVE  \A t \in Txs : /\ deliveries[t] \in Nat /\ deliveries'[t] \in Nat
                            /\ deliveries[t] <= deliveries'[t]
  BY <1>0, <1>1 DEF Deliver
<1>2. CASE UNCHANGED deliveries
  BY <1>0, <1>2
<1> QED
  BY <1>1, <1>2 DEF Next, HandlerStep, SweeperStep, FindPayment, FindApp, CheckWalletTx,
     CreditFull, CreditPartial, CreditApp, Ignore, NotifyConfirmed, HandlerAborts, Elapse,
     SweepFind, SweepDeleteMonitors, SweepFindPending, SweepExpire, SweepNotify,
     SweepUnstream, SweeperAborts, vars

\* What a payout takes from an address is natural, and there.
LEMMA PayoutResult ==
  ASSUME LifeTyped, NEW w \in Payers, PayerPay(w)
  PROVE  /\ UNCHANGED <<vars, settled>>
         /\ payer[w].paid = Nil
         /\ \E l \in payer[w].todo :
              /\ l \in Links
              /\ \/ /\ payer' = [payer EXCEPT ![w] = After(w, l, l)]
                    /\ \E m \in Nat :
                         /\ m = payer[w].stored[l] \/ m = Funds(AddressOf[l])
                         /\ m <= payer[w].stored[l] /\ m <= Funds(AddressOf[l])
                         /\ paidOut' = [paidOut EXCEPT ![l] = paidOut[l] + m]
                    /\ disturbed' = IF paidOut[l] > 0 THEN disturbed \cup {AddressOf[l]}
                                                      ELSE disturbed
                 \/ /\ payer' = [payer EXCEPT ![w] = After(w, l, Nil)]
                    /\ UNCHANGED <<paidOut, disturbed>>
<1>1. PICK l \in payer[w].todo :
        \/ /\ payer' = [payer EXCEPT ![w] = After(w, l, l)]
           /\ paidOut' = [paidOut EXCEPT ![l] =
                @ + Min({payer[w].stored[l], Funds(AddressOf[l])})]
           /\ disturbed' = IF paidOut[l] > 0 THEN disturbed \cup {AddressOf[l]} ELSE disturbed
        \/ /\ payer' = [payer EXCEPT ![w] = After(w, l, Nil)]
           /\ UNCHANGED <<paidOut, disturbed>>
  BY DEF PayerPay
<1>2. l \in Links /\ payer[w].stored[l] \in Nat /\ AddressOf[l] \in Addresses
  BY DepositsAssumption DEF LifeTyped, PayerState
<1>3. Funds(AddressOf[l]) \in Nat
  BY <1>2, FundsAre
<1> DEFINE m == Min({payer[w].stored[l], Funds(AddressOf[l])})
<1>4. /\ m = payer[w].stored[l] \/ m = Funds(AddressOf[l])
      /\ m <= payer[w].stored[l] /\ m <= Funds(AddressOf[l]) /\ m \in Nat
  <2> DEFINE s == payer[w].stored[l]
             f == Funds(AddressOf[l])
  <2>1. s \in Int /\ f \in Int
    BY <1>2, <1>3
  <2> HIDE DEF s, f
  <2>2. Min({s, f}) \in {s, f} /\ Min({s, f}) <= s /\ Min({s, f}) <= f
    BY <2>1, MinOfTwo
  <2>3. m = Min({s, f})
    BY DEF s, f
  <2>4. s \in Nat /\ f \in Nat
    BY <1>2, <1>3 DEF s, f
  <2> HIDE DEF m
  <2>5. (m = s \/ m = f) /\ m <= s /\ m <= f /\ m \in Nat
    BY <2>2, <2>3, <2>4
  <2> QED BY <2>5 DEF s, f
<1>5. UNCHANGED <<vars, settled>> /\ payer[w].paid = Nil
  BY DEF PayerPay
<1>6. CASE /\ payer' = [payer EXCEPT ![w] = After(w, l, l)]
           /\ paidOut' = [paidOut EXCEPT ![l] =
                @ + Min({payer[w].stored[l], Funds(AddressOf[l])})]
           /\ disturbed' = IF paidOut[l] > 0 THEN disturbed \cup {AddressOf[l]} ELSE disturbed
  <2>1. paidOut' = [paidOut EXCEPT ![l] = paidOut[l] + m]
    BY <1>2, <1>6 DEF LifeTyped
  <2> HIDE DEF m
  <2> QED BY <1>2, <1>4, <1>5, <1>6, <2>1
<1>7. CASE payer' = [payer EXCEPT ![w] = After(w, l, Nil)] /\ UNCHANGED <<paidOut, disturbed>>
  BY <1>2, <1>5, <1>7
<1> QED BY <1>1, <1>6, <1>7

LEMMA AfterType ==
  ASSUME LifeTyped, NEW w \in Payers, NEW l \in Links, NEW p \in Links \cup {Nil}
  PROVE  /\ After(w, l, p) \in PayerState
         /\ After(w, l, p).todo = payer[w].todo \ {l} /\ After(w, l, p).paid = p
         /\ \A k \in Links : k # l => After(w, l, p).stored[k] = payer[w].stored[k]
<1>1. payer[w] \in PayerState
  BY DEF LifeTyped
<1> QED BY <1>1 DEF After, PayerState

LEMMA LifeTypedStep == LifeTyped /\ [LifecycleNext]_lifecycleVars => LifeTyped'
<1> SUFFICES ASSUME LifeTyped, [LifecycleNext]_lifecycleVars PROVE LifeTyped'
  OBVIOUS
<1>0. /\ Typed /\ payer \in [Payers -> PayerState]
      /\ paidOut \in [Links -> Nat] /\ settled \in [Links -> Nat]
      /\ disturbed \in SUBSET Addresses /\ FundsCover
      /\ AddressOf \in [Links -> Addresses] /\ Nil \notin Links
  BY DepositsAssumption DEF LifeTyped
<1>1. ASSUME [Next]_vars, UNCHANGED payoutVars, disturbed' \in SUBSET Addresses
      PROVE  LifeTyped'
  <2>1. Typed'
    BY <1>0, <1>1, TypedStep
  <2>2. FundsCover'
    <3> SUFFICES ASSUME NEW a \in Addresses
                 PROVE  SumOver(paidOut, LinksOf(a)) <= SumOver(TxAmount, Arrived(a)')
      BY <1>1 DEF FundsCover, payoutVars, LinksOf
    <3>1. Arrived(a) \in SUBSET Arrived(a)' /\ Arrived(a)' \in SUBSET Txs
      BY <1>0, <1>1, DeliveriesGrow DEF Arrived
    <3>2. IsFiniteSet(Arrived(a)') /\ \A t \in Arrived(a)' : TxAmount[t] \in Nat
      BY <3>1, DepositsAssumption, FS_Subset
    <3>3. SumOver(TxAmount, Arrived(a)) <= SumOver(TxAmount, Arrived(a)')
      BY <3>1, <3>2, SumSubset
    <3>4. SumOver(TxAmount, Arrived(a)') \in Nat
      BY <3>1, AmountSums
    <3> QED BY <3>3, <3>4, FundsAre DEF LifeTyped, FundsCover
  <2> QED BY <1>0, <1>1, <2>1, <2>2 DEF LifeTyped, payoutVars
<1>2. CASE DepositStep
  <2>1. disturbed' \in SUBSET Addresses
    BY <1>0, <1>2 DEF DepositStep, Overwritten
  <2> QED BY <1>1, <1>2, <2>1 DEF DepositStep
<1>3. ASSUME NEW w \in Payers, PayerFind(w) PROVE LifeTyped'
  <2> DEFINE chosen == {l \in Links : status[l] = "PARTIALLY_SUCCESS"}
             amounts == [l \in Links |->
                           IF status[l] = "PARTIALLY_SUCCESS" THEN received[l] ELSE 0]
             r == [todo |-> chosen, stored |-> amounts, paid |-> Nil]
  <2>1. received \in [Links -> Nat]
    BY <1>0 DEF Typed, TypeOK
  <2>2. r \in PayerState
    BY <2>1 DEF PayerState
  <2>3. payer' = [payer EXCEPT ![w] = r]
    BY <1>3 DEF PayerFind
  <2> HIDE DEF r
  <2>4. payer' \in [Payers -> PayerState]
    BY <1>0, <2>2, <2>3
  <2>5. UNCHANGED <<vars, paidOut, settled, disturbed>>
    BY <1>3 DEF PayerFind
  <2>6. Typed' /\ FundsCover'
    <3>1. Typed'
      BY <1>0, <2>5, TypedStep
    <3>2. FundsCover'
      BY <1>0, <2>5 DEF FundsCover, LinksOf, Arrived, vars
    <3> QED BY <3>1, <3>2
  <2> QED BY <1>0, <2>4, <2>5, <2>6 DEF LifeTyped
<1>4. ASSUME NEW w \in Payers, PayerPay(w) PROVE LifeTyped'
  <2>1. /\ UNCHANGED <<vars, settled>>
        /\ \E l \in payer[w].todo :
             /\ l \in Links
             /\ \/ /\ payer' = [payer EXCEPT ![w] = After(w, l, l)]
                   /\ \E m \in Nat :
                        /\ m <= Funds(AddressOf[l])
                        /\ paidOut' = [paidOut EXCEPT ![l] = paidOut[l] + m]
                   /\ disturbed' = IF paidOut[l] > 0 THEN disturbed \cup {AddressOf[l]}
                                                     ELSE disturbed
                \/ /\ payer' = [payer EXCEPT ![w] = After(w, l, Nil)]
                   /\ UNCHANGED <<paidOut, disturbed>>
    BY <1>4, PayoutResult
  <2>2. PICK l \in Links :
          \/ /\ payer' = [payer EXCEPT ![w] = After(w, l, l)]
             /\ \E m \in Nat :
                  /\ m <= Funds(AddressOf[l])
                  /\ paidOut' = [paidOut EXCEPT ![l] = paidOut[l] + m]
             /\ disturbed' = IF paidOut[l] > 0 THEN disturbed \cup {AddressOf[l]} ELSE disturbed
          \/ /\ payer' = [payer EXCEPT ![w] = After(w, l, Nil)]
             /\ UNCHANGED <<paidOut, disturbed>>
    BY <2>1
  <2>3. Typed'
    BY <1>0, <2>1, TypedStep
  <2>4. payer' \in [Payers -> PayerState] /\ disturbed' \in SUBSET Addresses
    <3>1. After(w, l, l) \in PayerState /\ After(w, l, Nil) \in PayerState
      BY AfterType
    <3>2. payer' \in [Payers -> PayerState]
      BY <1>0, <2>2, <3>1
    <3>3. disturbed' = disturbed \/ disturbed' = disturbed \cup {AddressOf[l]}
      BY <2>2
    <3> QED BY <1>0, <3>2, <3>3
  <2>5. CASE UNCHANGED paidOut
    <3>1. FundsCover'
      BY <1>0, <2>1, <2>5 DEF FundsCover, LinksOf, Arrived, vars
    <3> QED BY <1>0, <2>1, <2>3, <2>4, <2>5, <3>1 DEF LifeTyped
  <2>6. ASSUME NEW m \in Nat, m <= Funds(AddressOf[l]),
               paidOut' = [paidOut EXCEPT ![l] = paidOut[l] + m]
        PROVE  LifeTyped'
    <3>1. /\ paidOut' \in [Links -> Nat] /\ paidOut'[l] = paidOut[l] + m
          /\ \A k \in Links : k # l => paidOut'[k] = paidOut[k]
      BY <1>0, <2>6
    <3>2. FundsCover'
      <4> SUFFICES ASSUME NEW a \in Addresses
                   PROVE  SumOver(paidOut', LinksOf(a)) <= SumOver(TxAmount, Arrived(a))
        BY <2>1 DEF FundsCover, LinksOf, Arrived, vars
      <4>1. LinksOf(a) \in SUBSET Links
        BY DEF LinksOf
      <4>2. Summable(paidOut, LinksOf(a)) /\ SumOver(paidOut, LinksOf(a)) \in Nat
        BY <1>0, <4>1, LinkSums
      <4>3. CASE a = AddressOf[l]
        <5>1. l \in LinksOf(a)
          BY <4>3 DEF LinksOf
        <5>2. paidOut'[l] \in Int /\ \A k \in LinksOf(a) \ {l} : paidOut[k] = paidOut'[k]
          BY <1>0, <3>1, <4>1
        <5>3. SumOver(paidOut', LinksOf(a)) = SumOver(paidOut, LinksOf(a)) - paidOut[l] + paidOut'[l]
          BY <4>2, <5>1, <5>2, SumUpdate
        <5>4. /\ Funds(a) = SumOver(TxAmount, Arrived(a)) - SumOver(paidOut, LinksOf(a))
              /\ SumOver(TxAmount, Arrived(a)) \in Nat
          BY FundsAre
        <5> QED BY <1>0, <2>6, <3>1, <4>2, <4>3, <5>3, <5>4
      <4>4. CASE a # AddressOf[l]
        <5>1. \A k \in LinksOf(a) : paidOut[k] = paidOut'[k]
          BY <3>1, <4>4 DEF LinksOf
        <5>2. SumOver(paidOut, LinksOf(a)) = SumOver(paidOut', LinksOf(a))
          BY <4>2, <5>1, SumSame
        <5> QED BY <1>0, <5>2 DEF FundsCover
      <4> QED BY <4>3, <4>4
    <3> QED BY <1>0, <2>1, <2>3, <2>4, <3>1, <3>2 DEF LifeTyped
  <2> QED BY <2>2, <2>5, <2>6
<1>5. ASSUME NEW w \in Payers, PayerRecord(w) PROVE LifeTyped'
  <2>1. payer[w] \in PayerState /\ payer[w].paid \in Links
    BY <1>0, <1>5 DEF PayerRecord, PayerState
  <2>2. payer' \in [Payers -> PayerState]
    <3>1. [payer[w] EXCEPT !.paid = Nil] \in PayerState
      BY <2>1 DEF PayerState
    <3> QED BY <1>0, <1>5, <3>1 DEF PayerRecord
  <2>3. settled' \in [Links -> Nat]
    BY <1>0, <1>5, <2>1 DEF PayerRecord
  <2>4. Typed'
    <3>1. status' \in [Links -> Status]
      BY <1>0, <1>5, <2>1 DEF PayerRecord, Typed, TypeOK, Status
    <3> QED BY <1>0, <1>5, <3>1 DEF PayerRecord, Typed, TypeOK, Bound
  <2>5. FundsCover'
    BY <1>0, <1>5 DEF PayerRecord, FundsCover, LinksOf, Arrived
  <2> QED BY <1>0, <1>5, <2>2, <2>3, <2>4, <2>5 DEF PayerRecord, LifeTyped
<1>6. CASE UNCHANGED lifecycleVars
  BY <1>0, <1>1, <1>6 DEF lifecycleVars
<1> QED
  BY <1>2, <1>3, <1>4, <1>5, <1>6 DEF LifecycleNext, PayerStep

LEMMA LifeTypedInv == LifecycleSpec => []LifeTyped
<1>1. LifecycleInit => LifeTyped
  <2> SUFFICES ASSUME LifecycleInit PROVE LifeTyped
    OBVIOUS
  <2>1. Typed
    BY DepositsAssumption, IdleHandlerType
       DEF LifecycleInit, Init, Typed, TypeOK, Bound, Status, Kind, IdleHandler, IdleSweeper,
           SweeperState
  <2>2. /\ payer \in [Payers -> PayerState] /\ paidOut = [l \in Links |-> 0]
        /\ paidOut \in [Links -> Nat] /\ settled \in [Links -> Nat]
        /\ disturbed \in SUBSET Addresses
    BY DEF LifecycleInit, IdlePayer, PayerState
  <2>3. FundsCover
    <3> SUFFICES ASSUME NEW a \in Addresses
                 PROVE  SumOver(paidOut, LinksOf(a)) <= SumOver(TxAmount, Arrived(a))
      BY DEF FundsCover
    <3>1. Arrived(a) = {}
      BY DEF LifecycleInit, Init, Arrived
    <3>2. SumOver(paidOut, LinksOf(a)) = 0
      <4>1. IsFiniteSet(LinksOf(a))
        BY DepositsAssumption, FS_Subset DEF LinksOf
      <4>2. \A l \in LinksOf(a) : paidOut[l] = 0
        BY <2>2 DEF LinksOf
      <4> QED BY <4>1, <4>2, SumZero
    <3> QED BY <3>1, <3>2, SumEmpty
  <2> QED BY <2>1, <2>2, <2>3 DEF LifeTyped
<1> QED BY <1>1, LifeTypedStep, PTL DEF LifecycleSpec

\* Every reachable state of the composition is well typed, and no payout takes
\* from an address what has not arrived there.
THEOREM LifecycleTypeCorrect == LifecycleSpec => [](LifecycleTypeOK /\ FundsCover)
<1>1. LifeTyped => LifecycleTypeOK /\ FundsCover
  BY DEF LifeTyped, LifecycleTypeOK, Typed, PayerState
<1> QED BY <1>1, LifeTypedInv, PTL

-----------------------------------------------------------------------------
(* PaymentLifecycle: how often a link is settled.                          *)

\* Tick w will pay link l, or has paid it and will write SUCCESS.
Holds(w, l) == l \in payer[w].todo \/ payer[w].paid = l

Holders(l) == {w \in Payers : Holds(w, l)}

\* The activations that will confirm link l.
Crediting(l) ==
  {h \in Handlers : /\ handler[h].pc = "credit" /\ handler[h].kind = "PAYMENT_LINK"
                    /\ handler[h].link = l}

\* The settlements of l that are to be expected without another confirmation.
Due(l) ==
  IF status[l] = "PARTIALLY_SUCCESS" THEN Cardinality(Payers) ELSE Cardinality(Holders(l))

\* A tick writes a link after it has paid it, and a link that waits for money is
\* in no tick's hands.  Each confirmation lets every tick settle the link once.
SettledInv ==
  /\ \A w \in Payers : payer[w].paid \notin payer[w].todo
  /\ \A l \in Links : status[l] \in {"PENDING", "EXPIRED"} =>
       settled[l] = 0 /\ paidOut[l] = 0 /\ Holders(l) = {}
  /\ \A l \in Links :
       settled[l] + Cardinality(Payers) * Cardinality(Crediting(l)) + Due(l)
         <= Cardinality(Payers) * Cardinality(Handlers)

LEMMA Products ==
  ASSUME NEW n \in Nat, NEW a \in Nat, NEW b \in Nat
  PROVE  /\ n * a \in Nat
         /\ a <= b => n * a <= n * b
         /\ a < b => n * a + n <= n * b
<1>1. n * a \in Nat /\ n * b \in Nat
  OBVIOUS
<1>2. ASSUME a <= b PROVE n * a <= n * b
  <2>1. PICK d \in Nat : b = a + d
    <3>1. b - a \in Nat /\ b = a + (b - a)
      BY <1>2
    <3> QED BY <3>1
  <2>2. n * b = n * a + n * d /\ n * d >= 0
    BY <2>1
  <2> QED BY <1>1, <2>2
<1>3. ASSUME a < b PROVE n * a + n <= n * b
  <2>1. PICK d \in Nat : b = a + 1 + d
    <3>1. b - a - 1 \in Nat /\ b = a + 1 + (b - a - 1)
      BY <1>3
    <3> QED BY <3>1
  <2>2. n * b = n * a + n + n * d /\ n * d >= 0
    BY <2>1
  <2> QED BY <1>1, <2>2
<1> QED BY <1>1, <1>2, <1>3

LEMMA PartSize ==
  ASSUME NEW S, IsFiniteSet(S), NEW T \in SUBSET S
  PROVE  IsFiniteSet(T) /\ Cardinality(T) \in Nat /\ Cardinality(S) \in Nat
         /\ Cardinality(T) <= Cardinality(S)
BY FS_Subset, FS_CardinalityType

LEMMA PartSmaller ==
  ASSUME NEW S, IsFiniteSet(S), NEW x \in S, NEW T \in SUBSET (S \ {x})
  PROVE  Cardinality(T) \in Nat /\ Cardinality(S) \in Nat
         /\ Cardinality(T) < Cardinality(S)
<1>1. IsFiniteSet(S \ {x}) /\ Cardinality(S \ {x}) = Cardinality(S) - 1
  BY FS_RemoveElement
<1>2. Cardinality(T) <= Cardinality(S \ {x}) /\ Cardinality(T) \in Nat /\ Cardinality(S) \in Nat
  BY <1>1, FS_Subset, FS_CardinalityType
<1> QED BY <1>1, <1>2

\* What a step of stream or of the expiry cron does to a link: nothing joins those
\* that will confirm it, unless it is PENDING and stays so; it is confirmed by one
\* of them; or it expires.
LEMMA DepositResult ==
  ASSUME Typed, [Next]_vars, NEW l \in Links
  PROVE  \/ status[l] = "PENDING" /\ status'[l] = "PENDING"
         \/ /\ Crediting(l)' \in SUBSET Crediting(l)
            /\ status'[l] = status[l] \/ (status[l] = "PENDING" /\ status'[l] = "EXPIRED")
         \/ \E h \in Crediting(l) :
              CreditFull(h) /\ Crediting(l)' \in SUBSET (Crediting(l) \ {h})
                /\ status'[l] = "PARTIALLY_SUCCESS"
<1>0. /\ handler \in [Handlers -> HandlerState] /\ status \in [Links -> Status] /\ Bound
  BY DEF Typed, TypeOK
<1> DEFINE Same == /\ Crediting(l)' \in SUBSET Crediting(l)
                   /\ status'[l] = status[l]
                        \/ (status[l] = "PENDING" /\ status'[l] = "EXPIRED")
           Confirmed == \E h \in Crediting(l) :
                          CreditFull(h) /\ Crediting(l)' \in SUBSET (Crediting(l) \ {h})
                            /\ status'[l] = "PARTIALLY_SUCCESS"
\* A step of one activation after which it is not about to credit anything.
<1>1. ASSUME NEW h \in Handlers, handler'[h].pc # "credit", UNCHANGED status,
             \A g \in Handlers : g # h => handler'[g] = handler[g]
      PROVE  Same
  BY <1>1 DEF Crediting
<1>2. ASSUME NEW h \in Handlers, CheckWalletTx(h)
      PROVE  (status[l] = "PENDING" /\ status'[l] = "PENDING") \/ Same
  <2>1. /\ \A g \in Handlers : g # h => handler'[g] = handler[g]
        /\ \/ \E m \in PendingAt(handler[h].tx) : handler'[h].link = m
           \/ handler'[h].kind \in {"APP", "NONE"}
    BY <1>2, CheckResult
  <2>2. UNCHANGED status
    BY <1>2 DEF CheckWalletTx, linkVars
  <2>3. CASE handler'[h].link = l /\ handler'[h].kind = "PAYMENT_LINK"
    BY <2>1, <2>2, <2>3 DEF PendingAt
  <2>4. CASE ~(handler'[h].link = l /\ handler'[h].kind = "PAYMENT_LINK")
    BY <2>1, <2>2, <2>4 DEF Crediting
  <2> QED BY <2>3, <2>4
<1>3. ASSUME NEW h \in Handlers, CreditFull(h) PROVE Same \/ Confirmed
  <2>1. /\ handler'[h].pc = "notify" /\ handler[h].pc = "credit"
        /\ handler[h].kind = "PAYMENT_LINK" /\ handler[h].link \in Links
        /\ \A g \in Handlers : g # h => handler'[g] = handler[g]
        /\ status' = [status EXCEPT ![handler[h].link] = "PARTIALLY_SUCCESS"]
    BY <1>0, <1>3 DEF CreditFull, HandlerState, Bound
  <2>2. CASE handler[h].link = l
    BY <1>0, <1>3, <2>1, <2>2 DEF Crediting
  <2>3. CASE handler[h].link # l
    <3>1. status'[l] = status[l]
      BY <1>0, <2>1, <2>3
    <3> QED BY <2>1, <2>3, <3>1 DEF Crediting
  <2> QED BY <2>2, <2>3
<1>4. ASSUME NEW h \in Handlers, CreditPartial(h) PROVE Same
  <2>1. handler'[h].pc = "idle" /\ UNCHANGED status
        /\ \A g \in Handlers : g # h => handler'[g] = handler[g]
    BY <1>0, <1>4 DEF CreditPartial, IdleHandler
  <2> QED BY <1>1, <2>1
<1>5. ASSUME NEW h \in Handlers,
             FindPayment(h) \/ FindApp(h) \/ CreditApp(h) \/ Ignore(h) \/ NotifyConfirmed(h)
      PROVE  Same
  <2>1. UNCHANGED status /\ handler'[h].pc # "credit"
        /\ \A g \in Handlers : g # h => handler'[g] = handler[g]
    BY <1>5, OtherResult DEF linkVars
  <2> QED BY <1>1, <2>1
<1>6. ASSUME NEW h \in Handlers, HandlerAborts(h) \/ \E t \in Txs : Deliver(h, t)
      PROVE  Same
  <2>1. UNCHANGED status /\ handler'[h].pc # "credit"
        /\ \A g \in Handlers : g # h => handler'[g] = handler[g]
    <3>1. ASSUME HandlerAborts(h)
          PROVE  handler' = [handler EXCEPT ![h] = IdleHandler] /\ UNCHANGED status
      BY <3>1 DEF HandlerAborts, linkVars
    <3>2. ASSUME NEW t \in Txs, Deliver(h, t)
          PROVE  UNCHANGED status /\ handler'[h].pc = "findPayment"
                 /\ \A g \in Handlers : g # h => handler'[g] = handler[g]
      BY <1>0, <3>2 DEF Deliver, IdleHandler, linkVars
    <3> QED BY <1>0, <1>6, <3>1, <3>2 DEF IdleHandler
  <2> QED BY <1>1, <2>1
<1>7. ASSUME \/ \E k \in Links : Elapse(k)
             \/ \E s \in Sweepers : SweeperStep(s) \/ SweeperAborts(s)
             \/ UNCHANGED vars
      PROVE  Same
  <2>1. UNCHANGED handler
    BY <1>7 DEF Elapse, SweeperStep, SweepFind, SweepDeleteMonitors, SweepFindPending,
       SweepExpire, SweepNotify, SweepUnstream, SweeperAborts, vars
  <2>2. status'[l] = status[l] \/ (status[l] = "PENDING" /\ status'[l] = "EXPIRED")
    BY <1>0, <1>7 DEF Elapse, SweeperStep, SweepFind, SweepDeleteMonitors, SweepFindPending,
       SweepExpire, Expirable, SweepNotify, SweepUnstream, SweeperAborts, vars, linkVars
  <2> QED BY <2>1, <2>2 DEF Crediting
<1> QED BY <1>2, <1>3, <1>4, <1>5, <1>6, <1>7 DEF Next, HandlerStep

LEMMA SettledStep ==
  LifeTyped /\ LifeTyped' /\ SettledInv /\ [LifecycleNext]_lifecycleVars => SettledInv'
<1> DEFINE N == Cardinality(Payers)
           H == Cardinality(Handlers)
           Waits(l) == status[l] \in {"PENDING", "EXPIRED"}
           Apart == \A w \in Payers : payer[w].paid \notin payer[w].todo
           Untouched(l) == Waits(l) => settled[l] = 0 /\ paidOut[l] = 0 /\ Holders(l) = {}
           Few(l) == settled[l] + N * Cardinality(Crediting(l)) + Due(l) <= N * H
<1> SUFFICES ASSUME LifeTyped, LifeTyped', SettledInv, [LifecycleNext]_lifecycleVars
             PROVE  Apart' /\ \A l \in Links : Untouched(l)' /\ Few(l)'
  BY DEF SettledInv
<1>0. /\ Apart /\ \A l \in Links : Untouched(l) /\ Few(l)
      /\ Typed /\ status \in [Links -> Status]
      /\ handler \in [Handlers -> HandlerState]
      /\ payer \in [Payers -> PayerState]
      /\ settled \in [Links -> Nat] /\ paidOut \in [Links -> Nat]
      /\ settled' \in [Links -> Nat]
      /\ Nil \notin Links
  BY DepositsAssumption DEF LifeTyped, SettledInv, Typed, TypeOK
<1>1. /\ N \in Nat /\ H \in Nat /\ N * H \in Nat
      /\ \A l \in Links :
           /\ IsFiniteSet(Crediting(l)) /\ Cardinality(Crediting(l)) \in Nat
           /\ Cardinality(Crediting(l)) <= H
           /\ IsFiniteSet(Holders(l)) /\ Cardinality(Holders(l)) \in Nat
           /\ Cardinality(Holders(l)) <= N
           /\ N * Cardinality(Crediting(l)) \in Nat
           /\ N * Cardinality(Crediting(l)) <= N * H
           /\ Cardinality(Crediting(l)') \in Nat
           /\ Cardinality(Crediting(l)') <= H
           /\ Cardinality(Holders(l)') \in Nat
           /\ Cardinality(Holders(l)') <= N
           /\ N * Cardinality(Crediting(l)') \in Nat
           /\ N * Cardinality(Crediting(l)') <= N * H
  <2>1. /\ \A l \in Links : Crediting(l) \in SUBSET Handlers /\ Holders(l) \in SUBSET Payers
        /\ \A l \in Links : Crediting(l)' \in SUBSET Handlers /\ Holders(l)' \in SUBSET Payers
    BY DEF Crediting, Holders
  <2>2. IsFiniteSet(Handlers) /\ IsFiniteSet(Payers)
    BY DepositsAssumption, LifecycleAssumption
  <2>3. N \in Nat /\ H \in Nat
    BY <2>2, FS_CardinalityType
  <2> HIDE DEF N, H
  <2>4. N * H \in Nat
    BY <2>3, Products
  <2> SUFFICES ASSUME NEW l \in Links
               PROVE  /\ IsFiniteSet(Crediting(l)) /\ Cardinality(Crediting(l)) \in Nat
                      /\ Cardinality(Crediting(l)) <= H
                      /\ IsFiniteSet(Holders(l)) /\ Cardinality(Holders(l)) \in Nat
                      /\ Cardinality(Holders(l)) <= N
                      /\ N * Cardinality(Crediting(l)) \in Nat
                      /\ N * Cardinality(Crediting(l)) <= N * H
                      /\ Cardinality(Crediting(l)') \in Nat
                      /\ Cardinality(Crediting(l)') <= H
                      /\ Cardinality(Holders(l)') \in Nat
                      /\ Cardinality(Holders(l)') <= N
                      /\ N * Cardinality(Crediting(l)') \in Nat
                      /\ N * Cardinality(Crediting(l)') <= N * H
    BY <2>3, <2>4
  <2>5. /\ IsFiniteSet(Crediting(l)) /\ Cardinality(Crediting(l)) \in Nat
        /\ Cardinality(Crediting(l)) <= H
        /\ Cardinality(Crediting(l)') \in Nat
        /\ Cardinality(Crediting(l)') <= H
    BY <2>1, <2>2, PartSize DEF H
  <2>6. /\ IsFiniteSet(Holders(l)) /\ Cardinality(Holders(l)) \in Nat
        /\ Cardinality(Holders(l)) <= N
        /\ Cardinality(Holders(l)') \in Nat
        /\ Cardinality(Holders(l)') <= N
    BY <2>1, <2>2, PartSize DEF N
  <2>7. /\ N * Cardinality(Crediting(l)) \in Nat
        /\ N * Cardinality(Crediting(l)) <= N * H
        /\ N * Cardinality(Crediting(l)') \in Nat
        /\ N * Cardinality(Crediting(l)') <= N * H
    BY <2>3, <2>5, Products
  <2> QED BY <2>5, <2>6, <2>7
\* A step of stream or of the expiry cron.
<1>2. ASSUME [Next]_vars, UNCHANGED payoutVars PROVE Apart' /\ \A l \in Links : Untouched(l)' /\ Few(l)'
  <2>1. Apart' /\ \A l \in Links : Holders(l)' = Holders(l)
    BY <1>0, <1>2 DEF payoutVars, Holders, Holds
  <2>2. UNCHANGED <<settled, paidOut>>
    BY <1>2 DEF payoutVars
  <2> SUFFICES ASSUME NEW l \in Links PROVE Untouched(l)' /\ Few(l)'
    BY <2>1
  <2>3. Untouched(l) /\ Few(l) /\ Holders(l)' = Holders(l) /\ settled[l] \in Nat
    BY <1>0, <2>1
  <2>4. CASE status[l] = "PENDING" /\ status'[l] = "PENDING"
    <3>1. settled'[l] = 0 /\ Due(l)' = 0 /\ Untouched(l)'
      BY <2>2, <2>3, <2>4, FS_EmptySet DEF Due
    <3> QED BY <1>1, <3>1
  <2>5. CASE /\ Crediting(l)' \in SUBSET Crediting(l)
             /\ status'[l] = status[l] \/ (status[l] = "PENDING" /\ status'[l] = "EXPIRED")
    <3>1. Untouched(l)' /\ Due(l)' = Due(l)
      BY <2>2, <2>3, <2>5 DEF Due
    <3>2. Cardinality(Crediting(l)') <= Cardinality(Crediting(l))
      BY <1>1, <2>5, PartSize
    <3>3. N * Cardinality(Crediting(l)') <= N * Cardinality(Crediting(l))
      <4> HIDE DEF N
      <4> QED BY <1>1, <3>2, Products
    <3>4. Due(l) \in Nat
      BY <1>1 DEF Due
    <3> HIDE DEF N, H
    <3> QED BY <1>1, <2>2, <2>3, <3>1, <3>3, <3>4
  <2>6. ASSUME NEW h \in Crediting(l), Crediting(l)' \in SUBSET (Crediting(l) \ {h}),
               status'[l] = "PARTIALLY_SUCCESS"
        PROVE  Untouched(l)' /\ Few(l)'
    <3>1. Untouched(l)' /\ Due(l)' = N /\ Due(l) \in Nat
      BY <1>1, <2>6 DEF Due
    <3>2. Cardinality(Crediting(l)') < Cardinality(Crediting(l))
      BY <1>1, <2>6, PartSmaller
    <3>3. N * Cardinality(Crediting(l)') + N <= N * Cardinality(Crediting(l))
      <4> HIDE DEF N
      <4> QED BY <1>1, <3>2, Products
    <3> HIDE DEF N, H
    <3> QED BY <1>1, <2>2, <2>3, <3>1, <3>3
  <2> QED BY <1>0, <1>2, <2>4, <2>5, <2>6, DepositResult
\* A step of the withdraw cron that leaves the links and what is settled alone.
<1>3. ASSUME NEW w \in Payers, UNCHANGED <<handler, status, settled>>, Apart',
             \A v \in Payers : v # w => payer'[v] = payer[v],
             \A l \in Links : Holds(w, l)' => Holds(w, l) \/ status[l] = "PARTIALLY_SUCCESS",
             \A l \in Links : paidOut'[l] = paidOut[l] \/ Holds(w, l)
      PROVE  Apart' /\ \A l \in Links : Untouched(l)' /\ Few(l)'
  <2> SUFFICES ASSUME NEW l \in Links PROVE Untouched(l)' /\ Few(l)'
    BY <1>3
  <2>1. Untouched(l) /\ Few(l) /\ Crediting(l)' = Crediting(l)
    BY <1>0, <1>3 DEF Crediting
  <2>2. CASE status[l] = "PARTIALLY_SUCCESS"
    <3>1. Due(l) = N /\ Due(l)' = N
      BY <1>3, <2>2 DEF Due
    <3> QED BY <1>3, <2>1, <2>2, <3>1
  <2>3. CASE status[l] # "PARTIALLY_SUCCESS"
    <3>1. Holders(l)' \in SUBSET Holders(l)
      BY <1>3, <2>3 DEF Holders, Holds
    <3>2. Cardinality(Holders(l)') <= Cardinality(Holders(l))
      BY <1>1, <3>1, PartSize
    <3>3. Few(l)'
      <4>1. Due(l) = Cardinality(Holders(l)) /\ Due(l)' = Cardinality(Holders(l)')
        BY <1>3, <2>3 DEF Due
      <4>2. settled[l] \in Nat /\ settled'[l] = settled[l]
        BY <1>0, <1>3
      <4> HIDE DEF N, H
      <4> QED BY <1>1, <2>1, <3>2, <4>1, <4>2
    <3>4. Untouched(l)'
      <4> SUFFICES ASSUME Waits(l) PROVE settled'[l] = 0 /\ paidOut'[l] = 0 /\ Holders(l)' = {}
        BY <1>3
      <4>1. settled[l] = 0 /\ paidOut[l] = 0 /\ Holders(l) = {}
        BY <2>1
      <4>2. ~Holds(w, l)
        BY <4>1 DEF Holders
      <4> QED BY <1>3, <3>1, <4>1, <4>2
    <3> QED BY <3>3, <3>4
  <2> QED BY <2>2, <2>3
<1>4. ASSUME NEW w \in Payers, PayerFind(w)
      PROVE  Apart' /\ \A l \in Links : Untouched(l)' /\ Few(l)'
  <2>1. /\ \A v \in Payers : v # w => payer'[v] = payer[v]
        /\ payer'[w].todo = {l \in Links : status[l] = "PARTIALLY_SUCCESS"}
        /\ payer'[w].paid = Nil
        /\ UNCHANGED <<handler, status, settled, paidOut>>
    BY <1>0, <1>4 DEF PayerFind, vars, linkVars
  <2>2. Apart'
    BY <1>0, <2>1
  <2>3. \A l \in Links : Holds(w, l)' => status[l] = "PARTIALLY_SUCCESS"
    BY <1>0, <2>1 DEF Holds
  <2> QED BY <1>3, <2>1, <2>2, <2>3
<1>5. ASSUME NEW w \in Payers, PayerPay(w)
      PROVE  Apart' /\ \A l \in Links : Untouched(l)' /\ Few(l)'
  <2>1. /\ UNCHANGED <<vars, settled>> /\ payer[w].paid = Nil
        /\ \E l \in payer[w].todo :
             /\ l \in Links
             /\ \E p \in {l, Nil} : payer' = [payer EXCEPT ![w] = After(w, l, p)]
             /\ \A k \in Links : k # l => paidOut'[k] = paidOut[k]
    <3>1. /\ UNCHANGED <<vars, settled>> /\ payer[w].paid = Nil
          /\ \E l \in payer[w].todo :
               /\ l \in Links
               /\ \/ /\ payer' = [payer EXCEPT ![w] = After(w, l, l)]
                     /\ \E m \in Nat : paidOut' = [paidOut EXCEPT ![l] = paidOut[l] + m]
                  \/ /\ payer' = [payer EXCEPT ![w] = After(w, l, Nil)]
                     /\ UNCHANGED paidOut
      BY <1>5, PayoutResult
    <3> QED BY <1>0, <3>1
  <2>2. PICK l \in payer[w].todo :
          /\ l \in Links
          /\ \E p \in {l, Nil} : payer' = [payer EXCEPT ![w] = After(w, l, p)]
          /\ \A k \in Links : k # l => paidOut'[k] = paidOut[k]
    BY <2>1
  <2>3. PICK p \in {l, Nil} : payer' = [payer EXCEPT ![w] = After(w, l, p)]
    BY <2>2
  <2>4. /\ After(w, l, p).todo = payer[w].todo \ {l} /\ After(w, l, p).paid = p
    BY <2>2, <2>3, AfterType
  <2>5. /\ \A v \in Payers : v # w => payer'[v] = payer[v]
        /\ payer'[w].todo = payer[w].todo \ {l} /\ payer'[w].paid = p
    BY <1>0, <2>3, <2>4
  <2>6. Apart'
    <3>1. payer[w].todo \in SUBSET Links
      BY <1>0 DEF PayerState
    <3> QED BY <1>0, <2>3, <2>5, <3>1
  <2>7. \A k \in Links : Holds(w, k)' => Holds(w, k)
    BY <1>0, <2>2, <2>3, <2>5 DEF Holds
  <2>8. \A k \in Links : paidOut'[k] = paidOut[k] \/ Holds(w, k)
    BY <2>2 DEF Holds
  <2>9. UNCHANGED <<handler, status, settled>>
    BY <2>1 DEF vars, linkVars
  <2> QED BY <1>3, <2>5, <2>6, <2>7, <2>8, <2>9
<1>6. ASSUME NEW w \in Payers, PayerRecord(w)
      PROVE  Apart' /\ \A l \in Links : Untouched(l)' /\ Few(l)'
  <2> DEFINE k == payer[w].paid
  <2>1. k \in Links /\ k # Nil
    BY <1>0, <1>6 DEF PayerRecord, PayerState
  <2>2. /\ \A v \in Payers : v # w => payer'[v] = payer[v]
        /\ payer'[w].todo = payer[w].todo /\ payer'[w].paid = Nil
    BY <1>0, <1>6 DEF PayerRecord, PayerState
  <2>3. /\ status' = [status EXCEPT ![k] = "SUCCESS"]
        /\ settled' = [settled EXCEPT ![k] = @ + 1]
        /\ UNCHANGED <<handler, paidOut>>
    BY <1>6 DEF PayerRecord
  <2>4. Apart'
    BY <1>0, <2>2 DEF PayerState
  <2> SUFFICES ASSUME NEW l \in Links PROVE Untouched(l)' /\ Few(l)'
    BY <2>4
  <2>5. Untouched(l) /\ Few(l) /\ Crediting(l)' = Crediting(l) /\ settled[l] \in Nat
    BY <1>0, <2>3 DEF Crediting
  <2>6. CASE l = k
    <3>1. status'[l] = "SUCCESS" /\ settled'[l] = settled[l] + 1
      BY <1>0, <2>1, <2>3, <2>6
    <3>2. w \in Holders(l) /\ Holders(l)' \in SUBSET (Holders(l) \ {w})
      <4>1. ~Holds(w, l)' /\ Holds(w, l)
        BY <1>0, <2>1, <2>2, <2>6 DEF Holds
      <4> QED BY <2>2, <4>1 DEF Holders, Holds
    <3>3. Cardinality(Holders(l)') < Cardinality(Holders(l))
      BY <1>1, <3>2, PartSmaller
    <3>4. Due(l)' = Cardinality(Holders(l)')
          /\ (Due(l) = N \/ Due(l) = Cardinality(Holders(l)))
      BY <3>1 DEF Due
    <3>5. Few(l)'
      <4> HIDE DEF N, H
      <4> QED BY <1>1, <2>5, <3>1, <3>3, <3>4
    <3> QED BY <3>1, <3>5
  <2>7. CASE l # k
    <3>1. status'[l] = status[l] /\ settled'[l] = settled[l] /\ paidOut'[l] = paidOut[l]
      BY <1>0, <2>1, <2>3, <2>7
    <3>2. Holders(l)' = Holders(l)
      <4>1. Holds(w, l)' <=> Holds(w, l)
        BY <1>0, <2>2, <2>7 DEF Holds
      <4> QED BY <2>2, <4>1 DEF Holders, Holds
    <3> QED BY <2>5, <3>1, <3>2 DEF Due
  <2> QED BY <2>6, <2>7
<1>7. CASE DepositStep
  BY <1>2, <1>7 DEF DepositStep
<1>8. CASE UNCHANGED lifecycleVars
  BY <1>2, <1>8 DEF lifecycleVars
<1> HIDE DEF Apart, Untouched, Few
<1> QED BY <1>4, <1>5, <1>6, <1>7, <1>8 DEF LifecycleNext, PayerStep

LEMMA SettledAlways == LifecycleSpec => []SettledInv
<1>1. LifecycleInit => SettledInv
  <2> SUFFICES ASSUME LifecycleInit PROVE SettledInv
    OBVIOUS
  <2>1. /\ \A w \in Payers : payer[w].todo = {} /\ payer[w].paid = Nil
        /\ \A l \in Links : status[l] = "PENDING" /\ settled[l] = 0 /\ paidOut[l] = 0
        /\ \A h \in Handlers : handler[h].pc = "idle"
    BY DEF LifecycleInit, Init, IdlePayer, IdleHandler
  <2>2. \A l \in Links : Holders(l) = {} /\ Crediting(l) = {}
    BY <2>1, DepositsAssumption DEF Holders, Holds, Crediting
  <2>3. Cardinality(Payers) \in Nat /\ Cardinality(Handlers) \in Nat
    BY DepositsAssumption, LifecycleAssumption, FS_CardinalityType
  <2>4. Cardinality(Payers) * Cardinality(Handlers) \in Nat /\ Cardinality(Payers) * 0 = 0
    BY <2>3, Products
  <2>5. \A l \in Links : Due(l) = 0 /\ Cardinality(Crediting(l)) = 0
    BY <2>1, <2>2, FS_EmptySet DEF Due
  <2> QED BY <2>1, <2>2, <2>4, <2>5 DEF SettledInv
<1> QED BY <1>1, SettledStep, LifeTypedInv, PTL DEF LifecycleSpec

\* Whatever is delivered, in whatever order the activations, the expiry cron and the
\* ticks of the withdraw cron run: a link is settled at most once per confirmation and
\* tick, and never waits for money again.
THEOREM SettledLinksAreSound == LifecycleSpec => []SettledIsSound
<1>1. LifeTyped /\ SettledInv => SettledIsSound
  <2> SUFFICES ASSUME LifeTyped, SettledInv PROVE SettlementsBounded /\ SettledNeverWaits
    BY DEF SettledIsSound, LifecycleTypeOK, LifeTyped, Typed, PayerState
  <2>1. SettlementsBounded
    <3> SUFFICES ASSUME NEW l \in Links
                 PROVE  settled[l] <= Cardinality(Payers) * Cardinality(Handlers)
      BY DEF SettlementsBounded
    <3>1. /\ IsFiniteSet(Payers) /\ IsFiniteSet(Handlers)
          /\ Crediting(l) \in SUBSET Handlers /\ Holders(l) \in SUBSET Payers
      BY DepositsAssumption, LifecycleAssumption DEF Crediting, Holders
    <3>2. /\ Cardinality(Payers) \in Nat /\ Cardinality(Handlers) \in Nat
          /\ Cardinality(Crediting(l)) \in Nat /\ Cardinality(Holders(l)) \in Nat
      BY <3>1, PartSize
    <3>3. Cardinality(Payers) * Cardinality(Crediting(l)) \in Nat
          /\ Cardinality(Payers) * Cardinality(Handlers) \in Nat
      BY <3>2, Products
    <3>4. Due(l) \in Nat /\ settled[l] \in Nat
      BY <3>2 DEF Due, LifeTyped
    <3>5. settled[l] + Cardinality(Payers) * Cardinality(Crediting(l)) + Due(l)
            <= Cardinality(Payers) * Cardinality(Handlers)
      BY DEF SettledInv
    <3> DEFINE a == Cardinality(Payers) * Cardinality(Crediting(l))
               b == Cardinality(Payers) * Cardinality(Handlers)
    <3> HIDE DEF a, b
    <3>6. a \in Nat /\ b \in Nat /\ settled[l] + a + Due(l) <= b
      BY <3>3, <3>5 DEF a, b
    <3>7. settled[l] <= b
      BY <3>4, <3>6
    <3> QED BY <3>7 DEF b
  <2>2. SettledNeverWaits
    BY DEF SettledNeverWaits, SettledInv, LifeTyped, Typed, TypeOK, Status
  <2> QED BY <2>1, <2>2
<1> QED BY <1>1, LifeTypedInv, SettledAlways, PTL

-----------------------------------------------------------------------------
(* PaymentLifecycle: a settled link has paid out what was required.        *)

\* Nothing has disturbed the books of address a.
Calm(a) == a \notin disturbed /\ \A t \in Txs : TxTo[t] = a => deliveries[t] <= 1

LandedTo(a) == {t \in Txs : TxTo[t] = a /\ Landed(t)}

Waiting(l) == status[l] \in {"PENDING", "EXPIRED"}

\* What an activation has read of the link that it is about to credit.  While
\* the address is calm, amounts only grow: a total that is not stale was read of a
\* link that has not been confirmed since.
ReadOf(h) ==
  LET l == handler[h].link
      t == handler[h].tx
  IN
  handler[h].pc = "credit" /\ l \in Links =>
    /\ TxTo[t] = AddressOf[l]
    /\ handler[h].kind = "PAYMENT_LINK" => handler[h].total >= Required[l]
    /\ Calm(AddressOf[l]) =>
         /\ handler[h].total <= Accumulated(l, t)
         /\ handler[h].total = Accumulated(l, t) => Waiting(l)

\* A transfer that was delivered once is in the hands of one activation.
InOneHand(a) ==
  \A h \in Handlers : InFlight(h) /\ TxTo[handler[h].tx] = a =>
    /\ deliveries[handler[h].tx] = 1
    /\ \A g \in Handlers : InFlight(g) /\ handler[g].tx = handler[h].tx => g = h

LinkBooks(l) ==
  /\ ~Waiting(l) => received[l] >= Required[l]
  /\ paidOut[l] = 0 \/ paidOut[l] = received[l]
  /\ settled[l] > 0 => paidOut[l] = received[l]
  /\ \A w \in Payers : payer[w].paid = l => paidOut[l] = received[l]
  /\ \A w \in Payers : l \in payer[w].todo => payer[w].stored[l] = received[l]

\* The links of an address have no more on record than has landed there.
AddressBooks(a) ==
  /\ InOneHand(a)
  /\ SumOver(received, LinksOf(a)) <= SumOver(TxAmount, LandedTo(a))
  /\ \A l \in LinksOf(a) : LinkBooks(l)

PaidInv ==
  /\ \A h \in Handlers : ReadOf(h)
  /\ \A a \in Addresses : Calm(a) => AddressBooks(a)

\* A calm address was calm before, and amounts at it only grow.
LEMMA CalmBefore ==
  ASSUME Typed, [Next]_vars, disturbed \subseteq disturbed', NEW a, Calm(a)'
  PROVE  Calm(a)
<1>1. \A t \in Txs : deliveries[t] \in Nat /\ deliveries'[t] \in Nat
                     /\ deliveries[t] <= deliveries'[t]
  BY DeliveriesGrow
<1> QED BY <1>1 DEF Calm

\* A step that credits nothing and forgets no transfer that has landed.
LEMMA BooksKept ==
  ASSUME LifeTyped, UNCHANGED <<received, paidOut, settled, payer>>,
         NEW a \in Addresses, AddressBooks(a), InOneHand(a)',
         \A l \in LinksOf(a) : status'[l] = status[l]
                                 \/ (status[l] = "PENDING" /\ status'[l] = "EXPIRED"),
         LandedTo(a) \in SUBSET LandedTo(a)'
  PROVE  AddressBooks(a)'
<1>1. \A l \in LinksOf(a) : LinkBooks(l)'
  BY DEF AddressBooks, LinkBooks, Waiting
<1>2. SumOver(TxAmount, LandedTo(a)) <= SumOver(TxAmount, LandedTo(a)')
  <2>1. LandedTo(a)' \in SUBSET Txs
    BY DEF LandedTo
  <2>2. IsFiniteSet(LandedTo(a)') /\ \A t \in LandedTo(a)' : TxAmount[t] \in Nat
    BY <2>1, DepositsAssumption, FS_Subset
  <2> QED BY <2>2, SumSubset
<1>3. LinksOf(a)' = LinksOf(a) /\ LinksOf(a) \in SUBSET Links
  BY DEF LinksOf
<1>4. SumOver(received, LinksOf(a)) \in Nat
  BY <1>3, LinkSums DEF LifeTyped, Typed, TypeOK
<1>5. SumOver(TxAmount, LandedTo(a)) \in Nat /\ SumOver(TxAmount, LandedTo(a)') \in Nat
  <2>1. LandedTo(a)' \in SUBSET Txs /\ LandedTo(a) \in SUBSET Txs
    BY DEF LandedTo
  <2> QED BY <2>1, AmountSums
<1>6. SumOver(received, LinksOf(a)) <= SumOver(TxAmount, LandedTo(a)')
  BY <1>2, <1>4, <1>5 DEF AddressBooks
<1> QED BY <1>1, <1>3, <1>6 DEF AddressBooks

\* A credit that was computed from the amount on record.
LEMMA CreditStep ==
  ASSUME LifeTyped, LifeTyped', SettledInv, PaidInv, NEW h \in Handlers,
         CreditFull(h) \/ CreditPartial(h), UNCHANGED payoutVars,
         disturbed' = disturbed \cup {AddressOf[l] : l \in Overwritten}
  PROVE  PaidInv'
<1>l. PICK l \in Links : l = handler[h].link
  BY CreditResult DEF LifeTyped
<1>t. PICK t \in Txs : t = handler[h].tx
  BY CreditResult DEF LifeTyped
<1>m. PICK m \in Addresses : m = AddressOf[l]
  BY DepositsAssumption
<1>0. /\ Typed /\ status \in [Links -> Status] /\ received \in [Links -> Nat]
      /\ handler \in [Handlers -> HandlerState]
      /\ AddressOf \in [Links -> Addresses] /\ TxAmount \in [Txs -> Nat \ {0}]
      /\ Required \in [Links -> Nat]
      /\ UNCHANGED <<paidOut, settled, payer>>
  BY DepositsAssumption DEF LifeTyped, Typed, TypeOK, payoutVars
<1>1. /\ l \in Links /\ t \in Txs
      /\ l = handler[h].link /\ t = handler[h].tx /\ m = AddressOf[l]
      /\ handler[h].pc = "credit"
      /\ received' = [received EXCEPT ![l] = handler[h].total]
      /\ \/ handler[h].kind = "PAYMENT_LINK"
            /\ status' = [status EXCEPT ![l] = "PARTIALLY_SUCCESS"]
         \/ status' = status
      /\ handler'[h].pc \in {"idle", "notify"}
      /\ \A g \in Handlers : g # h => handler'[g] = handler[g]
      /\ deliveries' = deliveries
  BY <1>0, <1>l, <1>t, <1>m, CreditResult
<1>2. TxTo[t] = m /\ m \in Addresses
  BY <1>0, <1>1 DEF PaidInv, ReadOf
<1>3. \A a : Calm(a)' => Calm(a)
  BY <1>1 DEF Calm
\* While the address stays calm, the link waits and the amount is added to it.
<1>4. ASSUME Calm(m)'
      PROVE  /\ handler[h].total = received[l] + TxAmount[t] /\ Waiting(l)
             /\ received'[l] = received[l] + TxAmount[t]
             /\ Calm(m) /\ AddressBooks(m)
  <2>1. handler[h].total = Accumulated(l, t)
    <3> SUFFICES ASSUME handler[h].total # Accumulated(l, t) PROVE FALSE
      OBVIOUS
    <3>1. l \in Overwritten
      BY <1>1 DEF Overwritten
    <3>2. m \in disturbed'
      BY <1>1, <3>1
    <3> QED BY <1>4, <3>2 DEF Calm
  <2>2. Calm(m) /\ AddressBooks(m)
    BY <1>2, <1>3, <1>4 DEF PaidInv
  <2>3. Waiting(l)
    BY <1>1, <2>1, <2>2 DEF PaidInv, ReadOf
  <2>4. received'[l] = handler[h].total
    BY <1>0, <1>1
  <2> QED BY <2>1, <2>2, <2>3, <2>4 DEF Accumulated
<1>5. ASSUME NEW k \in Links, k # l
      PROVE  received'[k] = received[k] /\ status'[k] = status[k]
  BY <1>0, <1>1, <1>5
<1>6. \A u \in Txs : u # t => (Landed(u)' <=> Landed(u))
  BY <1>1 DEF Landed, InFlight
<1>7. \A g \in Handlers : InFlight(g)' <=> InFlight(g) /\ g # h
  BY <1>1 DEF InFlight
<1>8. ASSUME NEW a \in Addresses, Calm(a)', a # m PROVE AddressBooks(a)'
  <2>1. AddressBooks(a)
    BY <1>3, <1>8 DEF PaidInv
  <2>2. LandedTo(a)' = LandedTo(a)
    BY <1>2, <1>6, <1>8 DEF LandedTo
  <2>3. InOneHand(a)'
    BY <1>1, <1>7, <2>1 DEF AddressBooks, InOneHand
  <2>4. \A k \in LinksOf(a) : k \in Links /\ k # l
    BY <1>1, <1>8 DEF LinksOf
  <2>5. \A k \in LinksOf(a) : LinkBooks(k)'
    BY <1>0, <1>5, <2>1, <2>4 DEF AddressBooks, LinkBooks, Waiting
  <2>6. SumOver(received', LinksOf(a)) = SumOver(received, LinksOf(a))
    <3>1. LinksOf(a) \in SUBSET Links
      BY DEF LinksOf
    <3>2. Summable(received, LinksOf(a))
      BY <1>0, <3>1, LinkSums
    <3>3. \A k \in LinksOf(a) : received[k] = received'[k]
      BY <1>5, <2>4
    <3> QED BY <3>2, <3>3, SumSame
  <2>7. LinksOf(a)' = LinksOf(a)
    BY DEF LinksOf
  <2> QED BY <2>1, <2>2, <2>3, <2>5, <2>6, <2>7 DEF AddressBooks
<1>9. ASSUME Calm(m)' PROVE AddressBooks(m)'
  <2>0. /\ received'[l] = received[l] + TxAmount[t] /\ Waiting(l)
        /\ handler[h].total = received[l] + TxAmount[t]
        /\ Calm(m) /\ AddressBooks(m)
    BY <1>4, <1>9
  <2>1. InFlight(h)
    BY <1>1 DEF InFlight
  <2>2. /\ deliveries[t] = 1
        /\ \A g \in Handlers : InFlight(g) /\ handler[g].tx = t => g = h
    BY <1>1, <1>2, <2>0, <2>1 DEF AddressBooks, InOneHand
  <2>3. Landed(t)' /\ ~Landed(t)
    <3>1. ~Landed(t)
      BY <1>1, <2>1 DEF Landed
    <3>2. Landed(t)'
      BY <1>1, <1>7, <2>2 DEF Landed
    <3> QED BY <3>1, <3>2
  <2>4. LandedTo(m)' = LandedTo(m) \cup {t} /\ t \notin LandedTo(m)
    BY <1>1, <1>2, <1>6, <2>3 DEF LandedTo
  <2>5. InOneHand(m)'
    <3>1. InOneHand(m)
      BY <2>0 DEF AddressBooks
    <3> QED BY <1>1, <1>7, <3>1 DEF InOneHand
  <2>6. l \in LinksOf(m) /\ LinksOf(m) \in SUBSET Links /\ LinksOf(m)' = LinksOf(m)
    BY <1>1 DEF LinksOf
  <2>7. SumOver(received', LinksOf(m)) = SumOver(received, LinksOf(m)) + TxAmount[t]
    <3>1. Summable(received, LinksOf(m)) /\ SumOver(received, LinksOf(m)) \in Nat
      BY <1>0, <2>6, LinkSums
    <3>2. received'[l] \in Int /\ \A k \in LinksOf(m) \ {l} : received[k] = received'[k]
      BY <1>0, <1>1, <1>5, <2>0, <2>6
    <3>3. SumOver(received', LinksOf(m)) = SumOver(received, LinksOf(m)) - received[l] + received'[l]
      BY <2>6, <3>1, <3>2, SumUpdate
    <3>4. received[l] \in Nat /\ TxAmount[t] \in Nat
      BY <1>0, <1>1
    <3> QED BY <2>0, <3>1, <3>3, <3>4
  <2>8. SumOver(TxAmount, LandedTo(m)') = TxAmount[t] + SumOver(TxAmount, LandedTo(m))
    <3>1. LandedTo(m) \in SUBSET Txs
      BY DEF LandedTo
    <3>2. Summable(TxAmount, LandedTo(m)) /\ TxAmount[t] \in Int
      BY <1>0, <1>1, <3>1, AmountSums
    <3> QED BY <2>4, <3>2, SumAdd
  <2>9. SumOver(received', LinksOf(m)) <= SumOver(TxAmount, LandedTo(m)')
    <3>1. SumOver(received, LinksOf(m)) \in Nat
      BY <1>0, <2>6, LinkSums
    <3>2. SumOver(TxAmount, LandedTo(m)) \in Nat
      BY AmountSums DEF LandedTo
    <3>3. TxAmount[t] \in Nat
      BY <1>0, <1>1
    <3>4. SumOver(received, LinksOf(m)) <= SumOver(TxAmount, LandedTo(m))
      BY <2>0 DEF AddressBooks
    <3> QED BY <2>7, <2>8, <3>1, <3>2, <3>3, <3>4
  <2>10. LinkBooks(l)'
    <3>1. settled[l] = 0 /\ paidOut[l] = 0 /\ Holders(l) = {}
      BY <1>1, <2>0 DEF SettledInv, Waiting
    <3>2. \A w \in Payers : payer[w].paid # l /\ l \notin payer[w].todo
      BY <3>1 DEF Holders, Holds
    <3>3. ~Waiting(l)' => received'[l] >= Required[l]
      <4>1. CASE status' = status
        BY <2>0, <4>1 DEF Waiting
      <4>2. CASE handler[h].kind = "PAYMENT_LINK"
        <5>1. handler[h].total >= Required[l]
          BY <1>1, <4>2 DEF PaidInv, ReadOf
        <5> QED BY <2>0, <5>1
      <4> QED BY <1>1, <4>1, <4>2
    <3> QED BY <1>0, <3>1, <3>2, <3>3 DEF LinkBooks
  <2>11. \A k \in LinksOf(m) : LinkBooks(k)'
    <3> SUFFICES ASSUME NEW k \in LinksOf(m), k # l PROVE LinkBooks(k)'
      BY <2>10
    <3>1. LinkBooks(k) /\ received'[k] = received[k] /\ status'[k] = status[k]
      BY <1>5, <2>0, <2>6 DEF AddressBooks
    <3> QED BY <1>0, <3>1 DEF LinkBooks, Waiting
  <2> QED BY <2>5, <2>6, <2>9, <2>11 DEF AddressBooks
<1>10. ASSUME NEW g \in Handlers PROVE ReadOf(g)'
  <2>1. CASE g = h
    BY <1>1, <2>1 DEF ReadOf
  <2>2. CASE g # h
    <3>1. handler'[g] = handler[g]
      BY <1>1, <2>2
    <3> SUFFICES ASSUME handler[g].pc = "credit", NEW k \in Links, k = handler[g].link,
                        NEW u, u = handler[g].tx
                 PROVE  /\ TxTo[u] = AddressOf[k]
                        /\ handler[g].kind = "PAYMENT_LINK" => handler[g].total >= Required[k]
                        /\ Calm(AddressOf[k])' =>
                             /\ handler[g].total <= received'[k] + TxAmount[u]
                             /\ handler[g].total = received'[k] + TxAmount[u] => Waiting(k)'
      BY <3>1 DEF ReadOf, Accumulated
    <3>2. /\ TxTo[u] = AddressOf[k]
          /\ handler[g].kind = "PAYMENT_LINK" => handler[g].total >= Required[k]
          /\ Calm(AddressOf[k]) =>
               /\ handler[g].total <= received[k] + TxAmount[u]
               /\ handler[g].total = received[k] + TxAmount[u] => Waiting(k)
      BY DEF PaidInv, ReadOf, Accumulated
    <3> SUFFICES ASSUME Calm(AddressOf[k])'
                 PROVE  /\ handler[g].total <= received'[k] + TxAmount[u]
                        /\ handler[g].total = received'[k] + TxAmount[u] => Waiting(k)'
      BY <3>2
    <3>3. Calm(AddressOf[k])
      BY <1>3
    <3>4. CASE k # l
      BY <1>5, <3>2, <3>3, <3>4 DEF Waiting
    <3>5. CASE k = l
      <4>1. received'[k] = received[k] + TxAmount[t]
        BY <1>1, <1>4, <3>5
      <4>2. received[k] \in Nat /\ TxAmount[t] \in Nat \ {0} /\ u \in Txs
        BY <1>0, <1>1, <3>5 DEF Typed, Bound
      <4>3. TxAmount[u] \in Nat /\ handler[g].total \in Nat
        BY <1>0, <4>2 DEF HandlerState
      <4>4. handler[g].total <= received[k] + TxAmount[u]
        BY <3>2, <3>3
      <4> QED BY <4>1, <4>2, <4>3, <4>4
    <3> QED BY <3>4, <3>5
  <2> QED BY <2>1, <2>2
<1>11. \A a \in Addresses : Calm(a)' => AddressBooks(a)'
  BY <1>8, <1>9
<1> QED BY <1>10, <1>11 DEF PaidInv

\* A step of one activation that credits nothing: its transfer stays in its hands,
\* or has landed after it.
LEMMA HandlerKeepsBooks ==
  ASSUME LifeTyped, PaidInv, UNCHANGED payoutVars, UNCHANGED <<status, received, deliveries>>,
         disturbed \subseteq disturbed', NEW h \in Handlers,
         \A g \in Handlers : g # h => handler'[g] = handler[g],
         InFlight(h)' => InFlight(h) /\ handler'[h].tx = handler[h].tx,
         ReadOf(h)'
  PROVE  PaidInv'
<1>1. \A a : Calm(a)' => Calm(a)
  BY DEF Calm
<1>2. ASSUME NEW g \in Handlers PROVE ReadOf(g)'
  <2>1. CASE g = h
    BY <2>1
  <2>2. CASE g # h
    BY <1>1, <2>2 DEF PaidInv, ReadOf, Accumulated, Waiting
  <2> QED BY <2>1, <2>2
<1>3. \A g \in Handlers : InFlight(g)' => InFlight(g) /\ handler'[g].tx = handler[g].tx
  BY DEF InFlight
<1>4. ASSUME NEW a \in Addresses, Calm(a)' PROVE AddressBooks(a)'
  <2>1. AddressBooks(a)
    BY <1>1, <1>4 DEF PaidInv
  <2>2. LandedTo(a) \in SUBSET LandedTo(a)'
    BY <1>3 DEF LandedTo, Landed
  <2>3. InOneHand(a)'
    BY <1>3, <2>1 DEF AddressBooks, InOneHand
  <2> QED BY <2>1, <2>2, <2>3, BooksKept DEF payoutVars
<1> QED BY <1>2, <1>4 DEF PaidInv

LEMMA DeliverKeepsBooks ==
  ASSUME LifeTyped, PaidInv, UNCHANGED payoutVars, disturbed \subseteq disturbed',
         NEW h \in Handlers, NEW t \in Txs, Deliver(h, t)
  PROVE  PaidInv'
<1>0. /\ handler \in [Handlers -> HandlerState] /\ deliveries \in [Txs -> 0..MaxDeliveries]
      /\ MaxDeliveries \in Nat
  BY DepositsAssumption DEF LifeTyped, Typed, TypeOK
<1>1. /\ handler[h].pc = "idle" /\ handler'[h].pc = "findPayment" /\ handler'[h].tx = t
      /\ \A g \in Handlers : g # h => handler'[g] = handler[g]
      /\ deliveries' = [deliveries EXCEPT ![t] = @ + 1]
      /\ UNCHANGED <<status, received>>
  BY <1>0 DEF Deliver, IdleHandler, linkVars
<1>2. /\ \A u \in Txs : deliveries[u] \in Nat
      /\ deliveries'[t] = deliveries[t] + 1
      /\ \A u \in Txs : u # t => deliveries'[u] = deliveries[u]
  BY <1>0, <1>1
<1>3. \A a : Calm(a)' => Calm(a)
  BY <1>2 DEF Calm
<1>4. ASSUME NEW g \in Handlers PROVE ReadOf(g)'
  <2>1. CASE g = h
    BY <1>1, <2>1 DEF ReadOf
  <2>2. CASE g # h
    BY <1>1, <1>3, <2>2 DEF PaidInv, ReadOf, Accumulated, Waiting
  <2> QED BY <2>1, <2>2
<1>5. InFlight(h)' /\ ~InFlight(h) /\ \A g \in Handlers : g # h => (InFlight(g)' <=> InFlight(g))
  BY <1>1 DEF InFlight
<1>6. ASSUME NEW a \in Addresses, Calm(a)' PROVE AddressBooks(a)'
  <2>1. AddressBooks(a)
    BY <1>3, <1>6 DEF PaidInv
  <2>2. TxTo[t] = a => deliveries[t] = 0 /\ deliveries'[t] = 1
    BY <1>2, <1>6 DEF Calm
  <2>3. LandedTo(a) \in SUBSET LandedTo(a)'
    BY <1>1, <1>2, <1>5, <2>2 DEF LandedTo, Landed
  <2>4. TxTo[t] = a => \A g \in Handlers : InFlight(g) => handler[g].tx # t
    BY <2>1, <2>2 DEF AddressBooks, InOneHand
  <2>5. InOneHand(a)'
    <3> SUFFICES ASSUME NEW g \in Handlers, InFlight(g)', NEW u, u = handler'[g].tx, TxTo[u] = a
                 PROVE  /\ deliveries'[u] = 1
                        /\ \A k \in Handlers : InFlight(k)' /\ handler'[k].tx = u => k = g
      BY DEF InOneHand
    <3>1. CASE g = h
      BY <1>1, <1>5, <2>2, <2>4, <3>1
    <3>2. CASE g # h
      <4>1. handler'[g] = handler[g] /\ InFlight(g)
        BY <1>1, <1>5, <3>2
      <4>2. u \in Txs
        BY <4>1 DEF LifeTyped, Typed, Bound, InFlight
      <4>3. u # t
        BY <2>4, <4>1
      <4>4. deliveries[u] = 1 /\ \A k \in Handlers : InFlight(k) /\ handler[k].tx = u => k = g
        BY <2>1, <4>1 DEF AddressBooks, InOneHand
      <4> QED BY <1>1, <1>2, <1>5, <4>2, <4>3, <4>4
    <3> QED BY <3>1, <3>2
  <2> QED BY <1>1, <2>1, <2>3, <2>5, BooksKept DEF payoutVars
<1> QED BY <1>4, <1>6 DEF PaidInv

\* A step of the expiry cron, or of no one.
LEMMA SweeperKeepsBooks ==
  ASSUME LifeTyped, PaidInv, UNCHANGED payoutVars, disturbed \subseteq disturbed',
         UNCHANGED <<handler, received, deliveries>>,
         \A l \in Links : status'[l] = status[l]
                            \/ (status[l] = "PENDING" /\ status'[l] = "EXPIRED")
  PROVE  PaidInv'
<1>1. \A a : Calm(a)' => Calm(a)
  BY DEF Calm
<1>2. ASSUME NEW g \in Handlers PROVE ReadOf(g)'
  <2>1. \A l \in Links : Waiting(l) => Waiting(l)'
    BY DEF Waiting
  <2> QED BY <1>1, <2>1 DEF PaidInv, ReadOf, Accumulated
<1>3. \A g \in Handlers : InFlight(g)' <=> InFlight(g)
  BY DEF InFlight
<1>4. ASSUME NEW a \in Addresses, Calm(a)' PROVE AddressBooks(a)'
  <2>1. AddressBooks(a)
    BY <1>1, <1>4 DEF PaidInv
  <2>2. LandedTo(a) \in SUBSET LandedTo(a)'
    BY <1>3 DEF LandedTo, Landed
  <2>3. InOneHand(a)'
    BY <1>3, <2>1 DEF AddressBooks, InOneHand
  <2>4. \A l \in LinksOf(a) : l \in Links
    BY DEF LinksOf
  <2> QED BY <2>1, <2>2, <2>3, <2>4, BooksKept DEF payoutVars
<1> QED BY <1>2, <1>4 DEF PaidInv

LEMMA DepositStepPaid ==
  ASSUME LifeTyped, LifeTyped', SettledInv, PaidInv, DepositStep
  PROVE  PaidInv'
<1>0. /\ UNCHANGED payoutVars /\ disturbed' = disturbed \cup {AddressOf[l] : l \in Overwritten}
      /\ disturbed \subseteq disturbed' /\ Next /\ Typed
      /\ handler \in [Handlers -> HandlerState] /\ status \in [Links -> Status]
  BY DEF DepositStep, LifeTyped, Typed, TypeOK
<1>1. ASSUME NEW h \in Handlers, CreditFull(h) \/ CreditPartial(h) PROVE PaidInv'
  BY <1>0, <1>1, CreditStep
<1>2. ASSUME NEW h \in Handlers, NEW t \in Txs, Deliver(h, t) PROVE PaidInv'
  BY <1>0, <1>2, DeliverKeepsBooks
<1>3. ASSUME NEW h \in Handlers, CheckWalletTx(h) PROVE PaidInv'
  <2>1. /\ \A g \in Handlers : g # h => handler'[g] = handler[g]
        /\ handler[h].pc = "checkWalletTx" /\ handler'[h].pc = "credit"
        /\ handler'[h].tx = handler[h].tx
        /\ \/ \E m \in PendingAt(handler[h].tx) :
                /\ handler'[h].link = m /\ handler'[h].kind = LinkKind(m, handler[h].tx)
                /\ handler'[h].total = Accumulated(m, handler[h].tx)
           \/ handler'[h].link = Nil
    BY <1>0, <1>3, CheckResult
  <2>2. UNCHANGED <<status, received, deliveries>>
    BY <1>3 DEF CheckWalletTx, linkVars
  <2>3. ReadOf(h)'
    <3>1. CASE handler'[h].link = Nil
      BY <3>1, DepositsAssumption DEF ReadOf
    <3>2. CASE \E m \in PendingAt(handler[h].tx) :
                 /\ handler'[h].link = m /\ handler'[h].kind = LinkKind(m, handler[h].tx)
                 /\ handler'[h].total = Accumulated(m, handler[h].tx)
      <4>1. PICK t : t = handler[h].tx
        OBVIOUS
      <4>2. PICK m \in PendingAt(t) :
              /\ handler'[h].link = m /\ handler'[h].kind = LinkKind(m, t)
              /\ handler'[h].total = Accumulated(m, t)
        BY <3>2, <4>1
      <4>3. m \in Links /\ AddressOf[m] = TxTo[t] /\ status[m] = "PENDING"
        BY DEF PendingAt
      <4>4. Accumulated(m, t)' = Accumulated(m, t) /\ Accumulated(m, t) \in Int
        <5>1. t \in Txs
          BY <2>1, <4>1 DEF LifeTyped, Typed, Bound
        <5>2. received[m] \in Nat /\ TxAmount[t] \in Nat
          BY <4>3, <5>1, DepositsAssumption DEF LifeTyped, Typed, TypeOK
        <5> QED BY <2>2, <5>2 DEF Accumulated
      <4>5. handler'[h].kind = "PAYMENT_LINK" => Accumulated(m, t) >= Required[m]
        BY <4>2 DEF LinkKind
      <4>6. Waiting(m)'
        BY <2>2, <4>3 DEF Waiting
      <4>7. handler'[h].tx = t
        BY <2>1, <4>1
      <4> QED BY <4>2, <4>3, <4>4, <4>5, <4>6, <4>7 DEF ReadOf
    <3> QED BY <2>1, <3>1, <3>2
  <2>4. InFlight(h)
    BY <2>1 DEF InFlight
  <2> QED BY <1>0, <2>1, <2>2, <2>3, <2>4, HandlerKeepsBooks
<1>4. ASSUME NEW h \in Handlers,
             FindPayment(h) \/ FindApp(h) \/ CreditApp(h) \/ Ignore(h) \/ NotifyConfirmed(h)
      PROVE  PaidInv'
  <2>1. /\ UNCHANGED <<linkVars, deliveries, aborts>>
        /\ \A g \in Handlers : g # h => handler'[g] = handler[g]
        /\ \/ /\ handler'[h].pc \in {"findApp", "checkWalletTx"}
              /\ handler'[h].tx = handler[h].tx /\ InFlight(h)
           \/ handler'[h].pc = "idle"
    BY <1>0, <1>4, OtherResult
  <2>2. InFlight(h)' => InFlight(h) /\ handler'[h].tx = handler[h].tx
    BY <2>1 DEF InFlight
  <2>3. ReadOf(h)'
    BY <2>1 DEF ReadOf
  <2> QED BY <1>0, <2>1, <2>2, <2>3, HandlerKeepsBooks DEF linkVars
<1>5. ASSUME NEW h \in Handlers, HandlerAborts(h) PROVE PaidInv'
  <2>1. /\ handler'[h].pc = "idle" /\ \A g \in Handlers : g # h => handler'[g] = handler[g]
        /\ UNCHANGED <<status, received, deliveries>>
    BY <1>0, <1>5 DEF HandlerAborts, IdleHandler, linkVars
  <2>2. ReadOf(h)' /\ ~InFlight(h)'
    BY <2>1 DEF ReadOf, InFlight
  <2> QED BY <1>0, <2>1, <2>2, HandlerKeepsBooks
<1>6. ASSUME \/ \E l \in Links : Elapse(l)
             \/ \E s \in Sweepers : SweeperStep(s) \/ SweeperAborts(s)
      PROVE  PaidInv'
  <2>1. UNCHANGED <<handler, received, deliveries>>
    BY <1>6 DEF Elapse, SweeperStep, SweepFind, SweepDeleteMonitors, SweepFindPending,
       SweepExpire, SweepNotify, SweepUnstream, SweeperAborts, linkVars
  <2>2. \A l \in Links : status'[l] = status[l]
                            \/ (status[l] = "PENDING" /\ status'[l] = "EXPIRED")
    BY <1>0, <1>6 DEF Elapse, SweeperStep, SweepFind, SweepDeleteMonitors, SweepFindPending,
       SweepExpire, Expirable, SweepNotify, SweepUnstream, SweeperAborts, linkVars
  <2> QED BY <1>0, <2>1, <2>2, SweeperKeepsBooks
<1> QED BY <1>0, <1>1, <1>2, <1>3, <1>4, <1>5, <1>6 DEF Next, HandlerStep

\* What is on record for a link at a calm address is there to be paid out.
LEMMA FundsThere ==
  ASSUME LifeTyped, NEW l \in Links, NEW a \in Addresses, a = AddressOf[l],
         AddressBooks(a), paidOut[l] = 0
  PROVE  received[l] <= Funds(a) /\ received[l] \in Nat /\ Funds(a) \in Nat
<1>0. received \in [Links -> Nat] /\ paidOut \in [Links -> Nat]
  BY DEF LifeTyped, Typed, TypeOK
<1>1. l \in LinksOf(a) /\ LinksOf(a) \in SUBSET Links
  BY DEF LinksOf
<1>2. Summable(received, LinksOf(a)) /\ SumOver(received, LinksOf(a)) \in Nat
      /\ Summable(paidOut, LinksOf(a)) /\ SumOver(paidOut, LinksOf(a)) \in Nat
  BY <1>0, <1>1, LinkSums
<1>3. SumOver(TxAmount, LandedTo(a)) <= SumOver(TxAmount, Arrived(a))
  <2>1. Arrived(a) \in SUBSET Txs /\ LandedTo(a) \in SUBSET Arrived(a)
    BY DEF Arrived, LandedTo, Landed
  <2>2. IsFiniteSet(Arrived(a)) /\ \A t \in Arrived(a) : TxAmount[t] \in Nat
    BY <2>1, DepositsAssumption, FS_Subset
  <2> QED BY <2>1, <2>2, SumSubset
<1>4. SumOver(TxAmount, LandedTo(a)) \in Nat
  BY AmountSums DEF LandedTo
<1>5. SumOver(paidOut, LinksOf(a)) <= SumOver(received, LinksOf(a)) - received[l]
  <2> DEFINE others == [received EXCEPT ![l] = 0]
  <2>1. others \in [Links -> Nat] /\ others[l] = 0
        /\ \A k \in LinksOf(a) \ {l} : received[k] = others[k]
    BY <1>0, <1>1
  <2> HIDE DEF others
  <2>2. Summable(others, LinksOf(a)) /\ SumOver(others, LinksOf(a)) \in Nat
    BY <1>1, <2>1, LinkSums
  <2>3. SumOver(others, LinksOf(a)) = SumOver(received, LinksOf(a)) - received[l] + others[l]
    BY <1>1, <1>2, <2>1, SumUpdate
  <2>4. ASSUME NEW k \in LinksOf(a) PROVE paidOut[k] <= others[k]
    <3>1. paidOut[k] = 0 \/ paidOut[k] = received[k]
      BY DEF AddressBooks, LinkBooks
    <3>2. CASE k = l
      BY <2>1, <3>2
    <3>3. CASE k # l
      BY <1>0, <1>1, <2>1, <3>1, <3>3
    <3> QED BY <3>2, <3>3
  <2>5. SumOver(paidOut, LinksOf(a)) <= SumOver(others, LinksOf(a))
    BY <1>2, <2>2, <2>4, SumMonotone
  <2> QED BY <1>0, <1>2, <2>1, <2>2, <2>3, <2>5
<1>6. /\ Funds(a) = SumOver(TxAmount, Arrived(a)) - SumOver(paidOut, LinksOf(a))
      /\ SumOver(TxAmount, Arrived(a)) \in Nat /\ Funds(a) \in Nat
  BY FundsAre
<1>7. SumOver(received, LinksOf(a)) <= SumOver(TxAmount, LandedTo(a))
  BY DEF AddressBooks
<1>8. received[l] \in Nat
  BY <1>0
<1> QED BY <1>2, <1>3, <1>4, <1>5, <1>6, <1>7, <1>8

\* A step of a tick concerns its links only.
LEMMA PayerKeepsBooks ==
  ASSUME LifeTyped, PaidInv, UNCHANGED <<handler, received, deliveries>>,
         disturbed \subseteq disturbed',
         \A l \in Links : Calm(AddressOf[l]) /\ Waiting(l) => Waiting(l)',
         \A l \in Links : Calm(AddressOf[l])' /\ LinkBooks(l) => LinkBooks(l)'
  PROVE  PaidInv'
<1>1. \A a : Calm(a)' => Calm(a)
  BY DEF Calm
<1>2. ASSUME NEW g \in Handlers PROVE ReadOf(g)'
  BY <1>1 DEF PaidInv, ReadOf, Accumulated
<1>3. \A g \in Handlers : InFlight(g)' <=> InFlight(g)
  BY DEF InFlight
<1>4. ASSUME NEW a \in Addresses, Calm(a)' PROVE AddressBooks(a)'
  <2>1. AddressBooks(a)
    BY <1>1, <1>4 DEF PaidInv
  <2>2. LandedTo(a)' = LandedTo(a) /\ LinksOf(a)' = LinksOf(a)
    BY <1>3 DEF LandedTo, Landed, LinksOf
  <2>3. InOneHand(a)'
    BY <1>3, <2>1 DEF AddressBooks, InOneHand
  <2>4. \A l \in LinksOf(a) : LinkBooks(l)'
    BY <1>4, <2>1 DEF AddressBooks, LinksOf
  <2> QED BY <2>1, <2>2, <2>3, <2>4 DEF AddressBooks
<1> QED BY <1>2, <1>4 DEF PaidInv

LEMMA PayerStepPaid ==
  ASSUME LifeTyped, LifeTyped', SettledInv, PaidInv, NEW w \in Payers, PayerStep(w)
  PROVE  PaidInv'
<1>0. /\ payer \in [Payers -> PayerState] /\ received \in [Links -> Nat]
      /\ paidOut \in [Links -> Nat] /\ settled \in [Links -> Nat]
      /\ status \in [Links -> Status]
      /\ AddressOf \in [Links -> Addresses] /\ Nil \notin Links
  BY DepositsAssumption DEF LifeTyped, Typed, TypeOK
<1>1. CASE PayerFind(w)
  <2>1. /\ \A v \in Payers : v # w => payer'[v] = payer[v]
        /\ payer'[w].paid = Nil
        /\ payer'[w].todo = {l \in Links : status[l] = "PARTIALLY_SUCCESS"}
        /\ \A l \in Links : payer'[w].stored[l] =
             IF status[l] = "PARTIALLY_SUCCESS" THEN received[l] ELSE 0
        /\ UNCHANGED <<handler, received, deliveries, status, paidOut, settled, disturbed>>
    BY <1>0, <1>1 DEF PayerFind, vars, linkVars
  <2>2. \A l \in Links : LinkBooks(l) => LinkBooks(l)'
    BY <1>0, <2>1 DEF LinkBooks, Waiting
  <2> QED BY <2>1, <2>2, PayerKeepsBooks DEF Waiting
<1>2. CASE PayerPay(w)
  <2>1. /\ UNCHANGED <<vars, settled>> /\ payer[w].paid = Nil
        /\ \E l \in payer[w].todo :
             /\ l \in Links
             /\ \/ /\ payer' = [payer EXCEPT ![w] = After(w, l, l)]
                   /\ \E m \in Nat :
                        /\ m = payer[w].stored[l] \/ m = Funds(AddressOf[l])
                        /\ m <= payer[w].stored[l] /\ m <= Funds(AddressOf[l])
                        /\ paidOut' = [paidOut EXCEPT ![l] = paidOut[l] + m]
                   /\ disturbed' = IF paidOut[l] > 0 THEN disturbed \cup {AddressOf[l]}
                                                     ELSE disturbed
                \/ /\ payer' = [payer EXCEPT ![w] = After(w, l, Nil)]
                   /\ UNCHANGED <<paidOut, disturbed>>
    BY <1>2, PayoutResult
  <2>2. PICK l \in payer[w].todo :
          /\ l \in Links
          /\ \/ /\ payer' = [payer EXCEPT ![w] = After(w, l, l)]
                /\ \E m \in Nat :
                     /\ m = payer[w].stored[l] \/ m = Funds(AddressOf[l])
                     /\ m <= payer[w].stored[l] /\ m <= Funds(AddressOf[l])
                     /\ paidOut' = [paidOut EXCEPT ![l] = paidOut[l] + m]
                /\ disturbed' = IF paidOut[l] > 0 THEN disturbed \cup {AddressOf[l]}
                                                  ELSE disturbed
             \/ /\ payer' = [payer EXCEPT ![w] = After(w, l, Nil)]
                /\ UNCHANGED <<paidOut, disturbed>>
    BY <2>1
  <2>3. UNCHANGED <<handler, received, deliveries, status, settled>>
    BY <2>1 DEF vars, linkVars
  <2>4. disturbed \subseteq disturbed'
    BY <2>2
  <2>5. \E p \in {l, Nil} : payer' = [payer EXCEPT ![w] = After(w, l, p)]
    BY <2>2
  <2>6. PICK p \in {l, Nil} : payer' = [payer EXCEPT ![w] = After(w, l, p)]
    BY <2>5
  <2>7. /\ payer'[w] = After(w, l, p)
        /\ After(w, l, p).todo = payer[w].todo \ {l} /\ After(w, l, p).paid = p
        /\ \A k \in Links : k # l => After(w, l, p).stored[k] = payer[w].stored[k]
        /\ \A v \in Payers : v # w => payer'[v] = payer[v]
    BY <1>0, <2>2, <2>6, AfterType
  <2>8. ASSUME NEW k \in Links, k # l, LinkBooks(k) PROVE LinkBooks(k)'
    <3>1. paidOut'[k] = paidOut[k]
      BY <1>0, <2>2, <2>8
    <3>2. payer'[w].paid # k
      BY <1>0, <2>6, <2>7, <2>8
    <3>3. k \in payer'[w].todo => k \in payer[w].todo /\ payer'[w].stored[k] = payer[w].stored[k]
      BY <2>7, <2>8
    <3> QED BY <2>3, <2>7, <2>8, <3>1, <3>2, <3>3 DEF LinkBooks, Waiting
  <2>9. ASSUME Calm(AddressOf[l])', LinkBooks(l) PROVE LinkBooks(l)'
    <3>1. l \notin payer'[w].todo
      BY <2>7
    <3>2. \A v \in Payers : v # w => payer'[v] = payer[v]
      BY <2>7
    <3>3. CASE UNCHANGED paidOut /\ payer' = [payer EXCEPT ![w] = After(w, l, Nil)]
      <4>1. payer'[w].paid = Nil
        BY <1>0, <2>2, <3>3, AfterType
      <4> QED BY <1>0, <2>2, <2>3, <2>9, <3>1, <3>2, <3>3, <4>1 DEF LinkBooks, Waiting
    <3>4. ASSUME NEW m \in Nat,
                 m = payer[w].stored[l] \/ m = Funds(AddressOf[l]),
                 m <= payer[w].stored[l], m <= Funds(AddressOf[l]),
                 paidOut' = [paidOut EXCEPT ![l] = paidOut[l] + m],
                 disturbed' = IF paidOut[l] > 0 THEN disturbed \cup {AddressOf[l]} ELSE disturbed
          PROVE  LinkBooks(l)'
      <4>1. AddressOf[l] \in Addresses /\ Calm(AddressOf[l])
        BY <1>0, <2>2, <2>3, <2>4, <2>9 DEF Calm
      <4>2. paidOut[l] = 0
        <5>1. AddressOf[l] \notin disturbed'
          BY <2>9 DEF Calm
        <5>2. ~(paidOut[l] > 0)
          BY <3>4, <5>1
        <5> QED BY <1>0, <2>2, <5>2
      <4>3. received[l] <= Funds(AddressOf[l]) /\ Funds(AddressOf[l]) \in Nat
        BY <2>2, <4>1, <4>2, FundsThere DEF PaidInv
      <4>4. payer[w].stored[l] = received[l] /\ received[l] \in Nat
        BY <1>0, <2>2, <2>9 DEF LinkBooks
      <4>5. m = received[l]
        BY <3>4, <4>3, <4>4
      <4>6. paidOut'[l] = received'[l]
        BY <1>0, <2>2, <2>3, <3>4, <4>2, <4>4, <4>5
      <4>7. \A v \in Payers : l \in payer'[v].todo => payer'[v].stored[l] = received'[l]
        BY <2>3, <2>9, <3>1, <3>2 DEF LinkBooks
      <4> QED BY <2>3, <2>9, <4>6, <4>7 DEF LinkBooks, Waiting
    <3> QED BY <2>2, <3>3, <3>4
  <2>10. \A k \in Links : Calm(AddressOf[k])' /\ LinkBooks(k) => LinkBooks(k)'
    BY <2>8, <2>9
  <2> QED BY <2>3, <2>4, <2>10, PayerKeepsBooks DEF Waiting
<1>3. CASE PayerRecord(w)
  <2>1. PICK k : k = payer[w].paid
    OBVIOUS
  <2>2. /\ k \in Links
        /\ status' = [status EXCEPT ![k] = "SUCCESS"]
        /\ settled' = [settled EXCEPT ![k] = @ + 1]
        /\ payer' = [payer EXCEPT ![w].paid = Nil]
        /\ UNCHANGED <<handler, received, deliveries, paidOut, disturbed>>
    BY <1>0, <1>3, <2>1 DEF PayerRecord, PayerState
  <2>3. ~Waiting(k)
    <3>1. w \in Holders(k)
      BY <2>1 DEF Holders, Holds
    <3> QED BY <2>2, <3>1 DEF SettledInv, Waiting
  <2>4. \A l \in Links : Waiting(l)' <=> Waiting(l)
    BY <1>0, <2>2, <2>3 DEF Waiting
  <2>5. /\ payer'[w].paid = Nil /\ payer'[w].todo = payer[w].todo
        /\ payer'[w].stored = payer[w].stored
        /\ \A v \in Payers : v # w => payer'[v] = payer[v]
    BY <1>0, <2>2 DEF PayerState
  <2>6. ASSUME NEW l \in Links, LinkBooks(l) PROVE LinkBooks(l)'
    <3>1. settled'[l] > 0 => paidOut[l] = received[l]
      <4>1. CASE l = k
        BY <2>1, <2>6, <4>1 DEF LinkBooks
      <4>2. CASE l # k
        BY <1>0, <2>2, <2>6, <4>2 DEF LinkBooks
      <4> QED BY <4>1, <4>2
    <3> QED BY <1>0, <2>2, <2>4, <2>5, <2>6, <3>1 DEF LinkBooks
  <2> QED BY <2>2, <2>4, <2>6, PayerKeepsBooks
<1> QED BY <1>1, <1>2, <1>3 DEF PayerStep

LEMMA PaidInvAlways == LifecycleSpec => []PaidInv
<1>1. LifecycleInit => PaidInv
  <2> SUFFICES ASSUME LifecycleInit PROVE PaidInv
    OBVIOUS
  <2>1. /\ \A h \in Handlers : handler[h].pc = "idle"
        /\ \A l \in Links : /\ status[l] = "PENDING" /\ settled[l] = 0 /\ paidOut[l] = 0
                            /\ received[l] = 0
        /\ \A t \in Txs : ~Landed(t)
    BY DEF LifecycleInit, Init, IdleHandler, Landed
  <2>2. \A w \in Payers : payer[w].todo = {} /\ payer[w].paid = Nil
    BY DEF LifecycleInit, IdlePayer
  <2>3. ASSUME NEW a \in Addresses PROVE AddressBooks(a)
    <3>1. InOneHand(a) /\ LandedTo(a) = {}
      BY <2>1 DEF InOneHand, InFlight, LandedTo
    <3>2. \A l \in LinksOf(a) : LinkBooks(l)
      BY <2>1, <2>2, DepositsAssumption DEF LinksOf, LinkBooks, Waiting
    <3>3. SumOver(received, LinksOf(a)) = 0
      <4>1. IsFiniteSet(LinksOf(a)) /\ \A l \in LinksOf(a) : received[l] = 0
        BY <2>1, DepositsAssumption, FS_Subset DEF LinksOf
      <4> QED BY <4>1, SumZero
    <3> QED BY <3>1, <3>2, <3>3, SumEmpty DEF AddressBooks
  <2> QED BY <2>1, <2>3 DEF PaidInv, ReadOf
<1>2. LifeTyped /\ LifeTyped' /\ SettledInv /\ PaidInv /\ [LifecycleNext]_lifecycleVars => PaidInv'
  <2> SUFFICES ASSUME LifeTyped, LifeTyped', SettledInv, PaidInv, [LifecycleNext]_lifecycleVars
               PROVE  PaidInv'
    OBVIOUS
  <2>1. CASE DepositStep
    BY <2>1, DepositStepPaid
  <2>2. ASSUME NEW w \in Payers, PayerStep(w) PROVE PaidInv'
    BY <2>2, PayerStepPaid
  <2>3. CASE UNCHANGED lifecycleVars
    <3>1. UNCHANGED <<handler, received, deliveries, status, payoutVars, disturbed>>
      BY <2>3 DEF lifecycleVars, vars, linkVars
    <3>2. disturbed \subseteq disturbed' /\ \A l \in Links : status'[l] = status[l]
      BY <3>1
    <3> QED BY <3>1, <3>2, SweeperKeepsBooks
  <2> QED BY <2>1, <2>2, <2>3 DEF LifecycleNext
<1> QED BY <1>1, <1>2, LifeTypedInv, SettledAlways, PTL DEF LifecycleSpec

\* However the activations of stream, the expiry cron and the ticks of the withdraw
\* cron interleave, and however many links share an address: a settled link has
\* paid out what was required, as long as nothing is delivered twice, no credit has
\* been overwritten at its address and no link there has been paid out again.
THEOREM SettledLinksArePaidFor == LifecycleSpec => []SettledIsPaidFor
<1>1. LifeTyped /\ SettledInv /\ PaidInv => SettledIsPaidFor
  <2> SUFFICES ASSUME LifeTyped, SettledInv, PaidInv, NEW l \in Links, settled[l] > 0,
                      AddressOf[l] \notin disturbed, \A t \in Payments(l) : deliveries[t] <= 1
               PROVE  paidOut[l] >= Required[l]
    BY DEF SettledIsPaidFor
  <2>1. AddressOf[l] \in Addresses /\ Calm(AddressOf[l])
    BY DepositsAssumption DEF Calm, Payments
  <2>2. LinkBooks(l)
    BY <2>1 DEF PaidInv, AddressBooks, LinksOf
  <2>3. ~Waiting(l)
    BY DEF SettledInv, Waiting
  <2> QED BY <2>2, <2>3 DEF LinkBooks
<1> QED BY <1>1, LifeTypedInv, SettledAlways, PaidInvAlways, PTL
=============================================================================
