------------------------- MODULE BackOffice_proofs -------------------------
(***************************************************************************)
(* Proofs about the back office, for any apps, requests, amounts, entries, *)
(* passwords, links and activations: FiatBalance, Whitelist, Reclaim,      *)
(* AppRegistry and AppWallet, one after the other.                         *)
(*                                                                         *)
(* What the admin has transferred for an app is covered by its settled     *)
(* links and what negative requests gave to its balance, unless calls for  *)
(* the app were repeated or overlapped.                                    *)
(* TransfersAreCovered is not inductive: the balance that a transfer is    *)
(* compared with is a copy of a sum that was computed earlier, by whoever  *)
(* looked at the app.  Books says what each activation may hold in its     *)
(* hands while the documents move on.                                      *)
(*                                                                         *)
(* The total of a merchant is covered by what its documents show as earned *)
(* (worth): ListingInOrder says what a listing has added up so far, the    *)
(* laws of SumTheorems say that the sum over the rest is enough.           *)
(*                                                                         *)
(* Of Reclaim: gas is sent by ticks that are Trying or Early, each of them *)
(* counted; who holds an orderly wallet knows what is on it (SweptInv).    *)
(* Of AppRegistry: a tick only removes what was deleted (CleanersInOrder), *)
(* and who was admitted counts against the limit (LimitInv).               *)
(*                                                                         *)
(* Of AppWallet: a tick that is about to store a row counts as one         *)
(* (RowsInv); a request alone at the wallet still finds what it saw there  *)
(* (PurseInv), and its place tells which of its legs are paid (PlaceInv).  *)
(***************************************************************************)
EXTENDS FiatBalance, Whitelist, Reclaim, AppRegistry, AppWallet, SumTheorems, SequenceTheorems

\* An activation works on one app, or on one request, or is idle.
Single(S) == \A x, y \in S : x = y

OneEach ==
  /\ \A q \in Lookers : Single(looker[q].app)
  /\ \A q \in Lookers : looker[q].pc = "idle" => looker[q].app = {}
  /\ \A t \in Transferrers : Single(transferrer[t].request)
  /\ \A t \in Transferrers : transferrer[t].pc = "idle" => transferrer[t].request = {}

\* What may still be transferred for app a.
Remaining(a) == credited[a] + raised[a] - transferred[a]

\* Who looks at app a holds no more than that.
LookersInOrder(a) ==
  \A q \in Lookers : a \in looker[q].app =>
    /\ looker[q].pc = "withdrawals" => looker[q].sum <= credited[a]
    /\ looker[q].pc = "store" => looker[q].sum <= Remaining(a)

\* A transfer of request r is covered from the moment the balance is compared,
\* and the stored balance is lowered, or raised, before the documents are.
TransferInOrder(t, r) ==
  LET a == AppOf[r] IN
  /\ fiatRequest[r] # "SUCCESS"
  /\ transferrer[t].pc = "store" =>
       Asked[r] <= transferrer[t].balance /\ transferrer[t].balance <= Remaining(a)
  /\ transferrer[t].pc = "mark" =>
       /\ fiatBalance[a] <= Remaining(a) - Taken(r) /\ Taken(r) <= Remaining(a)
       /\ refunded[a] + Given(r) <= raised[a]

TransfersInOrder(a) ==
  \A t \in Transferrers, r \in FiatRequests :
    r \in transferrer[t].request /\ AppOf[r] = a => TransferInOrder(t, r)

\* Nobody looks at app a while money is transferred for it, once at a time.
Alone(a) ==
  /\ Single(TransfersOf(a))
  /\ TransfersOf(a) = {} \/ LooksAt(a) = {}

Books(a) ==
  /\ transferred[a] = withdrawn[a] + refunded[a]
  /\ refunded[a] <= raised[a] /\ 0 <= Remaining(a)
  /\ fiatBalance[a] <= Remaining(a)
  /\ LookersInOrder(a) /\ TransfersInOrder(a) /\ Alone(a)

BooksInOrder == \A a \in FiatApps \ disturbed : Books(a)

FiatInv == FiatTypeOK /\ OneEach /\ BooksInOrder

\* The two sides of an amount.
LEMMA TakenAndGiven ==
  ASSUME NEW r \in FiatRequests
  PROVE  /\ Asked[r] \in Int /\ Taken(r) \in Nat /\ Given(r) \in Nat
         /\ Asked[r] = Taken(r) - Given(r)
         /\ \A n \in Int : 0 <= n /\ Asked[r] <= n => Taken(r) <= n
<1>1. Asked[r] \in Int
  BY FiatAssumption DEF FiatAssumption
<1> QED BY <1>1 DEF Taken, Given

-----------------------------------------------------------------------------
(* Types.                                                                  *)

LEMMA FiatTypedStep == FiatTypeOK /\ OneEach /\ [FiatNext]_fiatVars => FiatTypeOK'
<1> SUFFICES ASSUME FiatTypeOK, OneEach, [FiatNext]_fiatVars PROVE FiatTypeOK'
  OBVIOUS
<1> USE FiatAssumption
<1>0. /\ credited \in [FiatApps -> Nat] /\ withdrawn \in [FiatApps -> Int]
      /\ fiatBalance \in [FiatApps -> Int]
      /\ looker \in [Lookers -> LookerState]
      /\ transferrer \in [Transferrers -> TransferState]
      /\ listing \in [Listings -> ListingState]
  BY DEF FiatTypeOK
<1>1. ASSUME NEW a \in FiatApps, LinkSettles(a) PROVE FiatTypeOK'
  BY <1>1 DEF LinkSettles, FiatTypeOK, histories
<1>2. ASSUME NEW r \in FiatRequests, AskFor(r) PROVE FiatTypeOK'
  BY <1>2 DEF AskFor, FiatTypeOK, histories
<1>3. ASSUME NEW q \in Lookers, LookFails(q) PROVE FiatTypeOK'
  <2>1. IdleCall \in LookerState
    BY DEF IdleCall, LookerState
  <2> QED BY <1>3, <2>1 DEF LookFails, FiatFault, FiatTypeOK, documents, histories
<1>4. ASSUME NEW q \in Lookers, NEW a \in FiatApps, LookStep(q, a) PROVE FiatTypeOK'
  <2>1. /\ looker[q] \in LookerState /\ IdleCall \in LookerState
        /\ \A s \in Int : [pc |-> "links", app |-> {a}, sum |-> s] \in LookerState
        /\ \A s \in Int : [pc |-> "withdrawals", app |-> {a}, sum |-> s] \in LookerState
        /\ \A s \in Int : [pc |-> "store", app |-> {a}, sum |-> s] \in LookerState
    BY <1>0 DEF LookerState, IdleCall
  <2>2. looker[q].sum \in Int /\ looker[q].sum - withdrawn[a] \in Int /\ credited[a] \in Int
    BY <1>0, <2>1 DEF LookerState
  <2>3. CASE Look(q, a)
    BY <2>1, <2>3 DEF Look, FiatTypeOK, documents, histories
  <2>4. CASE LookAtLinks(q, a)
    BY <2>1, <2>2, <2>4 DEF LookAtLinks, FiatTypeOK, documents, histories
  <2>5. CASE LookAtWithdrawals(q, a)
    BY <2>1, <2>2, <2>5 DEF LookAtWithdrawals, FiatTypeOK, documents, histories
  <2>6. CASE StoreBalance(q, a)
    BY <2>1, <2>2, <2>6 DEF StoreBalance, FiatTypeOK, documents, histories
  <2> QED BY <1>4, <2>3, <2>4, <2>5, <2>6 DEF LookStep
<1>5. ASSUME NEW t \in Transferrers, TransferFails(t) PROVE FiatTypeOK'
  <2>1. IdleTransfer \in TransferState
    BY DEF IdleTransfer, TransferState
  <2> QED BY <1>5, <2>1 DEF TransferFails, FiatFault, FiatTypeOK, documents, histories
<1>6. ASSUME NEW t \in Transferrers, NEW r \in FiatRequests, TransferStep(t, r) PROVE FiatTypeOK'
  <2>1. /\ IdleTransfer \in TransferState
        /\ [pc |-> "app", request |-> {r}, balance |-> 0] \in TransferState
        /\ \A b \in Int : [pc |-> "store", request |-> {r}, balance |-> b] \in TransferState
        /\ [transferrer[t] EXCEPT !.pc = "mark"] \in TransferState
    BY <1>0 DEF TransferState, IdleTransfer
  <2>2. /\ AppOf[r] \in FiatApps /\ fiatBalance[AppOf[r]] \in Int /\ Asked[r] \in Int
        /\ Taken(r) \in Nat /\ Given(r) \in Nat
        /\ transferrer[t].balance \in Int
    BY <1>0, TakenAndGiven DEF FiatAssumption, TransferState
  <2>3. CASE StartTransfer(t, r)
    BY <2>1, <2>2, <2>3 DEF StartTransfer, FiatTypeOK, documents, histories
  <2>4. CASE ReadApp(t, r)
    BY <2>1, <2>2, <2>4 DEF ReadApp, FiatTypeOK, documents, histories
  <2>5. CASE LowerBalance(t, r)
    <3>1. fiatBalance' \in [FiatApps -> Int] /\ raised' \in [FiatApps -> Nat]
      BY <2>2, <2>5 DEF LowerBalance, FiatTypeOK
    <3>2. transferrer' \in [Transferrers -> TransferState]
      BY <1>0, <2>1, <2>5 DEF LowerBalance
    <3> QED BY <2>5, <3>1, <3>2 DEF LowerBalance, FiatTypeOK, documents
  <2>6. CASE MarkTransferred(t, r)
    <3>1. /\ fiatRequest' \in [FiatRequests -> {"none", "PENDING", "SUCCESS"}]
          /\ withdrawn' \in [FiatApps -> Int] /\ transferred' \in [FiatApps -> Nat]
          /\ refunded' \in [FiatApps -> Nat]
      BY <2>2, <2>6 DEF MarkTransferred, FiatTypeOK
    <3>2. transferrer' \in [Transferrers -> TransferState]
      BY <1>0, <2>1, <2>6 DEF MarkTransferred
    <3> QED BY <2>6, <3>1, <3>2 DEF MarkTransferred, FiatTypeOK
  <2> QED BY <1>6, <2>3, <2>4, <2>5, <2>6 DEF TransferStep
<1>7. ASSUME NEW m \in Listings, ListingFails(m) \/ StoreTotal(m) PROVE FiatTypeOK'
  <2>1. /\ IdleListing \in ListingState /\ listing[m] \in ListingState
        /\ [pc |-> "links", page |-> listing[m].page, app |-> {}, sum |-> 0,
            total |-> listing[m].total] \in ListingState
        /\ listing[m].total \in Int
    BY <1>0 DEF IdleListing, ListingState
  <2>2. CASE ListingFails(m)
    BY <2>1, <2>2 DEF ListingFails, FiatFault, FiatTypeOK, documents, histories
  <2>3. CASE StoreTotal(m)
    <3>1. listing' \in [Listings -> ListingState]
      BY <1>0, <2>1, <2>3 DEF StoreTotal
    <3> QED BY <2>1, <2>3, <3>1 DEF StoreTotal, FiatTypeOK, documents, histories
  <2> QED BY <1>7, <2>2, <2>3
<1>8. ASSUME NEW m \in Listings, NEW page \in Pages, List(m, page) PROVE FiatTypeOK'
  <2>1. [pc |-> "links", page |-> page, app |-> {}, sum |-> 0, total |-> 0] \in ListingState
    BY DEF FiatAssumption, ListingState
  <2> QED BY <1>8, <2>1 DEF List, FiatTypeOK, documents, histories
<1>9. ASSUME NEW m \in Listings, NEW a \in FiatApps, ListLinks(m, a) \/ ListWithdrawals(m, a)
      PROVE  FiatTypeOK'
  <2>1. listing[m] \in ListingState /\ credited[a] \in Int /\ withdrawn[a] \in Int
    BY <1>0
  <2>2. /\ [pc |-> "withdrawals", page |-> listing[m].page \ {a}, app |-> {a},
            sum |-> credited[a], total |-> listing[m].total] \in ListingState
        /\ [pc |-> "store", page |-> listing[m].page, app |-> {a}, sum |-> 0,
            total |-> listing[m].total + listing[m].sum - withdrawn[a]] \in ListingState
    BY <2>1 DEF ListingState
  <2> QED BY <1>9, <2>2 DEF ListLinks, ListWithdrawals, FiatTypeOK, documents, histories
<1>10. CASE UNCHANGED fiatVars
  BY <1>10 DEF fiatVars, documents, histories, FiatTypeOK
<1> QED
  BY <1>1, <1>2, <1>3, <1>4, <1>5, <1>6, <1>7, <1>8, <1>9, <1>10 DEF FiatNext

-----------------------------------------------------------------------------
(* One app and one request each.                                           *)

LEMMA OneEachStep == FiatTypeOK /\ OneEach /\ [FiatNext]_fiatVars => OneEach'
<1> SUFFICES ASSUME FiatTypeOK, OneEach, [FiatNext]_fiatVars PROVE OneEach'
  OBVIOUS
<1>0. looker \in [Lookers -> LookerState] /\ transferrer \in [Transferrers -> TransferState]
  BY DEF FiatTypeOK
<1>1. CASE UNCHANGED <<looker, transferrer>>
  BY <1>1 DEF OneEach
<1>2. ASSUME NEW q \in Lookers, transferrer' = transferrer, NEW c,
             looker' = [looker EXCEPT ![q] = c],
             Single(c.app), c.pc = "idle" => c.app = {}
      PROVE  OneEach'
  BY <1>0, <1>2 DEF OneEach
<1>3. ASSUME NEW t \in Transferrers, looker' = looker, NEW c,
             transferrer' = [transferrer EXCEPT ![t] = c],
             Single(c.request), c.pc = "idle" => c.request = {}
      PROVE  OneEach'
  BY <1>0, <1>3 DEF OneEach
<1>4. ASSUME NEW q \in Lookers, LookFails(q) PROVE OneEach'
  <2>1. Single(IdleCall.app) /\ IdleCall.app = {}
    BY DEF IdleCall, Single
  <2> QED BY <1>2, <1>4, <2>1 DEF LookFails
<1>5. ASSUME NEW q \in Lookers, NEW a \in FiatApps, LookStep(q, a) PROVE OneEach'
  <2>1. Single({a}) /\ Single({}) /\ IdleCall.app = {}
    BY DEF IdleCall, Single
  <2>2. CASE Look(q, a)
    <3> DEFINE c == [pc |-> "links", app |-> {a}, sum |-> 0]
    <3>1. looker' = [looker EXCEPT ![q] = c] /\ transferrer' = transferrer
      BY <2>2 DEF Look
    <3>2. Single(c.app) /\ c.pc # "idle"
      BY <2>1
    <3> HIDE DEF c
    <3> QED BY <1>2, <3>1, <3>2
  <2>3. CASE LookAtLinks(q, a)
    BY <1>2, <2>1, <2>3 DEF LookAtLinks
  <2>4. CASE LookAtWithdrawals(q, a)
    BY <1>2, <2>1, <2>4 DEF LookAtWithdrawals
  <2>5. CASE StoreBalance(q, a)
    BY <1>2, <2>1, <2>5 DEF StoreBalance
  <2> QED BY <1>5, <2>2, <2>3, <2>4, <2>5 DEF LookStep
<1>6. ASSUME NEW t \in Transferrers, TransferFails(t) PROVE OneEach'
  <2>1. Single(IdleTransfer.request) /\ IdleTransfer.request = {}
    BY DEF IdleTransfer, Single
  <2> QED BY <1>3, <1>6, <2>1 DEF TransferFails
<1>7. ASSUME NEW t \in Transferrers, NEW r \in FiatRequests, TransferStep(t, r) PROVE OneEach'
  <2>1. Single({r}) /\ Single({}) /\ IdleTransfer.request = {}
    BY DEF IdleTransfer, Single
  <2>2. CASE StartTransfer(t, r)
    <3> DEFINE c == [pc |-> "app", request |-> {r}, balance |-> 0]
    <3>1. transferrer' = [transferrer EXCEPT ![t] = c] /\ looker' = looker
      BY <2>2 DEF StartTransfer
    <3>2. Single(c.request) /\ c.pc # "idle"
      BY <2>1
    <3> HIDE DEF c
    <3> QED BY <1>3, <3>1, <3>2
  <2>3. CASE ReadApp(t, r)
    BY <1>3, <2>1, <2>3 DEF ReadApp
  <2>4. CASE LowerBalance(t, r)
    <3>1. LET c == [transferrer[t] EXCEPT !.pc = "mark"]
          IN  Single(c.request) /\ c.pc # "idle"
      BY <1>0 DEF OneEach, TransferState
    <3> QED BY <1>3, <2>4, <3>1 DEF LowerBalance
  <2>5. CASE MarkTransferred(t, r)
    BY <1>3, <2>1, <2>5 DEF MarkTransferred
  <2> QED BY <1>7, <2>2, <2>3, <2>4, <2>5 DEF TransferStep
<1>8. ASSUME NEW m \in Listings, ListingFails(m) \/ StoreTotal(m) PROVE OneEach'
  BY <1>1, <1>8 DEF ListingFails, StoreTotal
<1>9. ASSUME NEW m \in Listings, NEW page \in Pages, List(m, page) PROVE OneEach'
  BY <1>1, <1>9 DEF List
<1>10. ASSUME NEW m \in Listings, NEW a \in FiatApps, ListLinks(m, a) \/ ListWithdrawals(m, a)
       PROVE  OneEach'
  BY <1>1, <1>10 DEF ListLinks, ListWithdrawals
<1>11. ASSUME NEW a \in FiatApps, LinkSettles(a) PROVE OneEach'
  BY <1>1, <1>11 DEF LinkSettles
<1>12. ASSUME NEW r \in FiatRequests, AskFor(r) PROVE OneEach'
  BY <1>1, <1>12 DEF AskFor
<1>13. CASE UNCHANGED fiatVars
  BY <1>1, <1>13 DEF fiatVars
<1> QED
  BY <1>4, <1>5, <1>6, <1>7, <1>8, <1>9, <1>10, <1>11, <1>12, <1>13 DEF FiatNext

-----------------------------------------------------------------------------
(* The books of an app.                                                    *)

LEMMA BooksStep == FiatInv /\ [FiatNext]_fiatVars => BooksInOrder'
<1> SUFFICES ASSUME FiatInv, [FiatNext]_fiatVars, NEW a \in FiatApps, a \notin disturbed'
             PROVE  Books(a)'
  BY DEF BooksInOrder
<1>0. /\ credited \in [FiatApps -> Nat] /\ withdrawn \in [FiatApps -> Int]
      /\ transferred \in [FiatApps -> Nat]
      /\ raised \in [FiatApps -> Nat] /\ refunded \in [FiatApps -> Nat]
      /\ fiatBalance \in [FiatApps -> Int]
      /\ fiatRequest \in [FiatRequests -> {"none", "PENDING", "SUCCESS"}]
      /\ looker \in [Lookers -> LookerState]
      /\ transferrer \in [Transferrers -> TransferState]
      /\ OneEach
      /\ AppOf \in [FiatRequests -> FiatApps] /\ Asked \in [FiatRequests -> Int]
  BY FiatAssumption DEF FiatInv, FiatTypeOK
\* No step takes an app back from those that were disturbed.
<1>1. ASSUME disturbed \subseteq disturbed' PROVE Books(a)
  BY <1>1 DEF FiatInv, BooksInOrder
\* A step that moves no money of a, and of whose activations none begins.
<1>2. ASSUME Books(a), credited'[a] >= credited[a], credited'[a] \in Nat,
             withdrawn' = withdrawn, UNCHANGED histories,
             fiatBalance'[a] = fiatBalance[a],
             \A r \in FiatRequests : fiatRequest'[r] = "SUCCESS" => fiatRequest[r] = "SUCCESS",
             \A q \in Lookers : looker'[q] = looker[q] \/ looker'[q].app = {},
             \A t \in Transferrers :
               transferrer'[t] = transferrer[t] \/ transferrer'[t].request = {}
      PROVE  Books(a)'
  <2>1. /\ credited[a] \in Nat /\ withdrawn[a] \in Int /\ fiatBalance[a] \in Int
        /\ \A q \in Lookers : looker[q].sum \in Int
        /\ \A t \in Transferrers : transferrer[t].balance \in Int
        /\ transferred[a] \in Nat /\ raised[a] \in Nat /\ refunded[a] \in Nat
        /\ \A r \in FiatRequests : Asked[r] \in Int /\ Taken(r) \in Nat /\ Given(r) \in Nat
    BY <1>0, TakenAndGiven DEF LookerState, TransferState
  <2>2. Remaining(a)' \in Int /\ Remaining(a) \in Int /\ Remaining(a)' >= Remaining(a)
    BY <1>2, <2>1 DEF Remaining, histories
  <2>3. LookersInOrder(a)'
    BY <1>2, <2>1, <2>2 DEF LookersInOrder, Books
  <2>4. TransfersInOrder(a)'
    BY <1>2, <2>1, <2>2 DEF TransfersInOrder, TransferInOrder, Books, histories, Taken, Given
  <2>5. Alone(a)'
    <3>1. TransfersOf(a)' \subseteq TransfersOf(a) /\ LooksAt(a)' \subseteq LooksAt(a)
      BY <1>2 DEF TransfersOf, LooksAt
    <3> QED BY <1>2, <3>1 DEF Alone, Single, Books
  <2> QED BY <1>2, <2>1, <2>2, <2>3, <2>4, <2>5 DEF Books, histories
<1>3. ASSUME NEW b \in FiatApps, LinkSettles(b) PROVE Books(a)'
  <2>1. credited'[a] >= credited[a] /\ credited'[a] \in Nat
    BY <1>0, <1>3 DEF LinkSettles
  <2> QED BY <1>1, <1>2, <1>3, <2>1 DEF LinkSettles, histories
<1>4. ASSUME NEW r \in FiatRequests, AskFor(r) PROVE Books(a)'
  BY <1>0, <1>1, <1>2, <1>4 DEF AskFor
<1>5. ASSUME NEW q \in Lookers, LookFails(q) PROVE Books(a)'
  BY <1>0, <1>1, <1>2, <1>5 DEF LookFails, IdleCall, documents
<1>6. ASSUME NEW t \in Transferrers, TransferFails(t) PROVE Books(a)'
  BY <1>0, <1>1, <1>2, <1>6 DEF TransferFails, IdleTransfer, documents
<1>7. ASSUME NEW m \in Listings,
             \/ ListingFails(m) \/ StoreTotal(m)
             \/ \E page \in Pages : List(m, page)
             \/ \E b \in FiatApps : ListLinks(m, b) \/ ListWithdrawals(m, b)
      PROVE  Books(a)'
  <2>1. UNCHANGED <<documents, fiatBalance, looker, transferrer, histories, disturbed>>
    BY <1>7 DEF ListingFails, StoreTotal, List, ListLinks, ListWithdrawals
  <2> QED BY <1>0, <1>1, <1>2, <2>1 DEF documents
<1>8. CASE UNCHANGED fiatVars
  BY <1>0, <1>1, <1>2, <1>8 DEF fiatVars, documents
\* appById.
<1>9. ASSUME NEW q \in Lookers, NEW b \in FiatApps, LookStep(q, b) PROVE Books(a)'
  <2>0. /\ credited' = credited /\ withdrawn' = withdrawn /\ fiatRequest' = fiatRequest
        /\ UNCHANGED histories /\ transferrer' = transferrer
        /\ disturbed \subseteq disturbed' /\ Books(a)
    BY <1>1, <1>9 DEF LookStep, Look, LookAtLinks, LookAtWithdrawals, StoreBalance, documents
  <2>1. /\ credited[a] \in Nat /\ withdrawn[a] \in Int /\ fiatBalance[a] \in Int
        /\ looker[q].sum \in Int
        /\ transferred[a] \in Nat /\ raised[a] \in Nat /\ refunded[a] \in Nat
    BY <1>0 DEF LookerState
  <2>2. \A p \in Lookers : p # q => looker'[p] = looker[p]
    BY <1>0, <1>9 DEF LookStep, Look, LookAtLinks, LookAtWithdrawals, StoreBalance
  <2>3. TransfersOf(a)' = TransfersOf(a)
    BY <2>0 DEF TransfersOf
  <2>4. CASE Look(q, b)
    <3>1. /\ looker'[q] = [pc |-> "links", app |-> {b}, sum |-> 0]
          /\ fiatBalance' = fiatBalance
          /\ disturbed' = IF TransfersOf(b) = {} THEN disturbed ELSE disturbed \cup {b}
      BY <1>0, <2>4 DEF Look
    <3>2. LookersInOrder(a)'
      BY <2>0, <2>2, <3>1 DEF LookersInOrder, Books, Remaining, histories
    <3>3. TransfersInOrder(a)'
      BY <2>0, <3>1 DEF TransfersInOrder, TransferInOrder, Books, Remaining, histories, Taken, Given
    <3>4. Alone(a)'
      <4>1. CASE a = b
        <5>1. TransfersOf(a) = {}
          BY <3>1, <4>1
        <5> QED BY <2>0, <2>3, <5>1 DEF Alone, Books
      <4>2. CASE a # b
        <5>1. LooksAt(a)' \subseteq LooksAt(a)
          BY <2>2, <3>1, <4>2 DEF LooksAt
        <5> QED BY <2>0, <2>3, <5>1 DEF Alone, Books
      <4> QED BY <4>1, <4>2
    <3> QED BY <2>0, <3>1, <3>2, <3>3, <3>4 DEF Books, Remaining, histories
  <2>5. CASE LookAtLinks(q, b) \/ LookAtWithdrawals(q, b)
    <3>1. /\ b \in looker[q].app /\ looker'[q].app = {b} /\ fiatBalance' = fiatBalance
          /\ \/ looker'[q].pc = "withdrawals" /\ looker'[q].sum = credited[b]
             \/ /\ looker[q].pc = "withdrawals" /\ looker'[q].pc = "store"
                /\ looker'[q].sum = looker[q].sum - withdrawn[b]
      BY <1>0, <2>5 DEF LookAtLinks, LookAtWithdrawals
    <3>2. LookersInOrder(a)'
      <4>1. ASSUME a \in looker'[q].app
            PROVE  /\ looker'[q].pc = "withdrawals" => looker'[q].sum <= credited[a]
                   /\ looker'[q].pc = "store" => looker'[q].sum <= Remaining(a)
        <5>1. a = b
          BY <3>1, <4>1
        <5> QED BY <2>0, <2>1, <3>1, <5>1 DEF LookersInOrder, Books, Remaining
      <4> QED BY <2>0, <2>2, <4>1 DEF LookersInOrder, Books, Remaining, histories
    <3>3. TransfersInOrder(a)'
      BY <2>0, <3>1 DEF TransfersInOrder, TransferInOrder, Books, Remaining, histories, Taken, Given
    <3>4. Alone(a)'
      <4>1. LooksAt(a)' \subseteq LooksAt(a)
        BY <2>2, <3>1 DEF LooksAt
      <4> QED BY <2>0, <2>3, <4>1 DEF Alone, Books
    <3> QED BY <2>0, <3>1, <3>2, <3>3, <3>4 DEF Books, Remaining, histories
  <2>6. CASE StoreBalance(q, b)
    <3>1. /\ b \in looker[q].app /\ looker[q].pc = "store" /\ looker'[q].app = {}
          /\ fiatBalance' = [fiatBalance EXCEPT ![b] = looker[q].sum]
      BY <1>0, <2>6 DEF StoreBalance, IdleCall
    <3>2. fiatBalance'[a] <= Remaining(a)
      BY <1>0, <2>0, <2>1, <3>1 DEF LookersInOrder, Books
    <3>3. LookersInOrder(a)'
      BY <2>0, <2>2, <3>1 DEF LookersInOrder, Books, Remaining, histories
    <3>4. TransfersInOrder(a)'
      <4>1. CASE a = b
        <5>1. LooksAt(a) # {}
          BY <3>1, <4>1 DEF LooksAt
        <5>2. TransfersOf(a)' = {}
          BY <2>0, <2>3, <5>1 DEF Alone, Books
        <5> QED BY <5>2 DEF TransfersInOrder, TransfersOf
      <4>2. CASE a # b
        <5>1. fiatBalance'[a] = fiatBalance[a]
          BY <1>0, <3>1, <4>2
        <5> QED BY <2>0, <5>1 DEF TransfersInOrder, TransferInOrder, Books, Remaining, histories, Taken, Given
      <4> QED BY <4>1, <4>2
    <3>5. Alone(a)'
      <4>1. LooksAt(a)' \subseteq LooksAt(a)
        BY <2>2, <3>1 DEF LooksAt
      <4> QED BY <2>0, <2>3, <4>1 DEF Alone, Books
    <3> QED BY <2>0, <3>2, <3>3, <3>4, <3>5 DEF Books, Remaining, histories
  <2> QED BY <1>9, <2>4, <2>5, <2>6 DEF LookStep
\* adminFiatTransfer.
<1>10. ASSUME NEW t \in Transferrers, NEW r \in FiatRequests, TransferStep(t, r) PROVE Books(a)'
  <2> DEFINE b == AppOf[r]
  <2>0. /\ credited' = credited /\ looker' = looker
        /\ disturbed \subseteq disturbed' /\ Books(a) /\ b \in FiatApps
    BY <1>0, <1>1, <1>10
       DEF TransferStep, StartTransfer, ReadApp, LowerBalance, MarkTransferred, documents
  <2>1. /\ credited[a] \in Nat /\ withdrawn[a] \in Int /\ fiatBalance[a] \in Int
        /\ transferrer[t].balance \in Int
        /\ transferred[a] \in Nat /\ raised[a] \in Nat /\ refunded[a] \in Nat
        /\ Asked[r] \in Int /\ Taken(r) \in Nat /\ Given(r) \in Nat
        /\ Asked[r] = Taken(r) - Given(r)
        /\ \A n \in Int : 0 <= n /\ Asked[r] <= n => Taken(r) <= n
        /\ \A q \in Lookers : looker[q].sum \in Int
        /\ \A s \in Transferrers : transferrer[s].balance \in Int
    BY <1>0, TakenAndGiven DEF LookerState, TransferState
  <2>2. \A s \in Transferrers : s # t => transferrer'[s] = transferrer[s]
    BY <1>0, <1>10
       DEF TransferStep, StartTransfer, ReadApp, LowerBalance, MarkTransferred
  <2>3. LooksAt(a)' = LooksAt(a)
    BY <2>0 DEF LooksAt
  \* A transfer for another app.
  <2>4. CASE a # b
    <3>1. /\ withdrawn'[a] = withdrawn[a] /\ transferred'[a] = transferred[a]
          /\ raised'[a] = raised[a] /\ refunded'[a] = refunded[a]
          /\ fiatBalance'[a] = fiatBalance[a]
          /\ \A u \in FiatRequests : AppOf[u] = a => fiatRequest'[u] = fiatRequest[u]
          /\ transferrer'[t].request = {} \/ transferrer'[t].request = {r}
      <4>1. r \in transferrer[t].request => transferrer[t].request = {r}
        BY <1>0 DEF OneEach, Single
      <4>2. CASE StartTransfer(t, r)
        BY <1>0, <4>2 DEF StartTransfer, documents, histories
      <4>3. CASE ReadApp(t, r)
        BY <1>0, <4>3 DEF ReadApp, documents, IdleTransfer, histories
      <4>4. CASE LowerBalance(t, r)
        <5>1. transferrer'[t].request = transferrer[t].request
          BY <1>0, <4>4 DEF LowerBalance, TransferState
        <5> QED BY <1>0, <2>4, <4>1, <4>4, <5>1 DEF LowerBalance, documents
      <4>5. CASE MarkTransferred(t, r)
        BY <1>0, <2>4, <4>5 DEF MarkTransferred, IdleTransfer
      <4> QED BY <1>10, <4>2, <4>3, <4>4, <4>5 DEF TransferStep
    <3>2. TransfersOf(a)' \subseteq TransfersOf(a)
      BY <2>2, <2>4, <3>1 DEF TransfersOf
    <3>3. \A s \in Transferrers, u \in FiatRequests :
            u \in transferrer'[s].request /\ AppOf[u] = a => transferrer'[s] = transferrer[s]
      BY <2>2, <2>4, <3>1
    <3>4. LookersInOrder(a)'
      BY <2>0, <3>1 DEF LookersInOrder, Books, Remaining, histories
    <3>5. TransfersInOrder(a)'
      BY <2>0, <3>1, <3>3 DEF TransfersInOrder, TransferInOrder, Books, Remaining, histories, Taken, Given
    <3>6. Alone(a)'
      BY <2>0, <2>3, <3>2 DEF Alone, Single, Books
    <3> QED BY <2>0, <3>1, <3>4, <3>5, <3>6 DEF Books, Remaining, histories
  <2>5. CASE a = b
    <3>1. CASE StartTransfer(t, r)
      <4>1. /\ transferrer'[t] = [pc |-> "app", request |-> {r}, balance |-> 0]
            /\ withdrawn' = withdrawn /\ UNCHANGED histories
            /\ fiatBalance' = fiatBalance /\ fiatRequest' = fiatRequest
        BY <1>0, <3>1 DEF StartTransfer, documents, histories
      <4>2. TransfersOf(a) = {} /\ LooksAt(a) = {} /\ fiatRequest[r] # "SUCCESS"
        BY <2>5, <3>1 DEF StartTransfer
      <4>3. \A s \in Transferrers, u \in FiatRequests :
              u \in transferrer'[s].request /\ AppOf[u] = a => s = t /\ u = r
        BY <2>2, <4>1, <4>2 DEF TransfersOf
      <4>4. LookersInOrder(a)'
        BY <2>0, <4>1 DEF LookersInOrder, Books, Remaining, histories
      <4>5. TransfersInOrder(a)'
        BY <4>1, <4>2, <4>3 DEF TransfersInOrder, TransferInOrder
      <4>6. Alone(a)'
        <5>1. TransfersOf(a)' \subseteq {t}
          BY <2>2, <4>2 DEF TransfersOf
        <5> QED BY <2>3, <4>2, <5>1 DEF Alone, Single
      <4> QED BY <2>0, <4>1, <4>4, <4>5, <4>6 DEF Books, Remaining, histories
    <3>2. CASE ReadApp(t, r) \/ LowerBalance(t, r) \/ MarkTransferred(t, r)
      <4>1. r \in transferrer[t].request /\ transferrer[t].request = {r}
        BY <1>0, <3>2 DEF OneEach, Single, ReadApp, LowerBalance, MarkTransferred
      <4>2. t \in TransfersOf(a) /\ LooksAt(a) = {} /\ LooksAt(a)' = {}
        BY <2>0, <2>3, <2>5, <4>1 DEF TransfersOf, Alone, Books
      <4>3. transferrer'[t].request = {} \/ transferrer'[t].request = {r}
        BY <1>0, <3>2, <4>1
           DEF ReadApp, LowerBalance, MarkTransferred, IdleTransfer, TransferState
      <4>4. TransfersOf(a)' \subseteq {t}
        BY <2>0, <2>2, <4>2 DEF TransfersOf, Alone, Single, Books
      <4>5. Alone(a)'
        BY <4>2, <4>4 DEF Alone, Single
      <4>6. LookersInOrder(a)'
        BY <4>2 DEF LookersInOrder, LooksAt
      <4>7. \A s \in Transferrers, u \in FiatRequests :
              u \in transferrer'[s].request /\ AppOf[u] = a => s = t /\ u = r
        BY <4>3, <4>4 DEF TransfersOf
      <4>8. TransferInOrder(t, r) /\ fiatRequest[r] # "SUCCESS"
        BY <2>0, <2>5, <4>1 DEF TransfersInOrder, TransferInOrder, Books
      <4>9. CASE ReadApp(t, r)
        <5>1. /\ withdrawn' = withdrawn /\ UNCHANGED histories
              /\ fiatBalance' = fiatBalance /\ fiatRequest' = fiatRequest
              /\ \/ transferrer'[t].request = {}
                 \/ /\ transferrer'[t].pc = "store" /\ transferrer'[t].balance = fiatBalance[a]
                    /\ fiatBalance[a] >= Asked[r]
          BY <1>0, <2>5, <4>9 DEF ReadApp, Enough, IdleTransfer, documents, histories
        <5>2. TransfersInOrder(a)'
          <6>1. ASSUME transferrer'[t].request # {} PROVE TransferInOrder(t, r)'
            BY <2>0, <2>1, <2>5, <4>8, <5>1, <6>1 DEF TransferInOrder, Books, Remaining, histories, Taken, Given
          <6> QED BY <4>7, <6>1 DEF TransfersInOrder
        <5> QED BY <2>0, <4>5, <4>6, <5>1, <5>2 DEF Books, Remaining, histories
      <4>10. CASE LowerBalance(t, r)
        <5>1. /\ withdrawn' = withdrawn /\ transferred' = transferred /\ refunded' = refunded
              /\ raised'[a] = raised[a] + Given(r)
              /\ fiatRequest' = fiatRequest
              /\ transferrer[t].pc = "store" /\ transferrer'[t].pc = "mark"
              /\ fiatBalance'[a] = transferrer[t].balance - Asked[r]
          BY <1>0, <2>5, <4>10 DEF LowerBalance, documents, TransferState
        <5>2. Asked[r] <= transferrer[t].balance /\ transferrer[t].balance <= Remaining(a)
          BY <2>5, <4>8, <5>1 DEF TransferInOrder
        <5>3. /\ Remaining(a)' = Remaining(a) + Given(r) /\ Remaining(a) \in Int
              /\ 0 <= Remaining(a) /\ refunded[a] <= raised[a]
          BY <2>0, <2>1, <5>1 DEF Remaining, Books
        <5>4. Taken(r) <= Remaining(a)
          BY <2>1, <5>2, <5>3
        <5>5. /\ fiatBalance'[a] <= Remaining(a)' - Taken(r) /\ Taken(r) <= Remaining(a)'
              /\ fiatBalance'[a] <= Remaining(a)' /\ 0 <= Remaining(a)'
              /\ refunded'[a] + Given(r) <= raised'[a] /\ refunded'[a] <= raised'[a]
          BY <2>1, <5>1, <5>2, <5>3, <5>4
        <5>6. TransfersInOrder(a)'
          BY <2>5, <4>7, <4>8, <5>1, <5>5 DEF TransfersInOrder, TransferInOrder, Taken, Given
        <5> QED BY <2>0, <4>5, <4>6, <5>1, <5>5, <5>6 DEF Books
      <4>11. CASE MarkTransferred(t, r)
        <5>1. /\ withdrawn'[a] = withdrawn[a] + Asked[r]
              /\ transferred'[a] = transferred[a] + Taken(r)
              /\ refunded'[a] = refunded[a] + Given(r) /\ raised' = raised
              /\ fiatBalance' = fiatBalance
              /\ transferrer[t].pc = "mark" /\ transferrer'[t].request = {}
          BY <1>0, <2>5, <4>8, <4>11 DEF MarkTransferred, IdleTransfer
        <5>2. /\ fiatBalance[a] <= Remaining(a) - Taken(r) /\ Taken(r) <= Remaining(a)
              /\ refunded[a] + Given(r) <= raised[a]
          BY <2>5, <4>8, <5>1 DEF TransferInOrder
        <5>3. TransfersInOrder(a)'
          BY <4>7, <5>1 DEF TransfersInOrder
        <5>4. /\ fiatBalance'[a] <= Remaining(a)' /\ 0 <= Remaining(a)'
              /\ transferred'[a] = withdrawn'[a] + refunded'[a]
              /\ refunded'[a] <= raised'[a]
          BY <2>0, <2>1, <5>1, <5>2 DEF Remaining, Books
        <5> QED BY <4>5, <4>6, <5>3, <5>4 DEF Books
      <4> QED BY <3>2, <4>9, <4>10, <4>11
    <3> QED BY <1>10, <3>1, <3>2 DEF TransferStep
  <2> QED BY <2>4, <2>5
<1> QED
  BY <1>3, <1>4, <1>5, <1>6, <1>7, <1>8, <1>9, <1>10 DEF FiatNext

-----------------------------------------------------------------------------
LEMMA FiatInvHolds == FiatSpec => []FiatInv
<1>1. FiatInit => FiatInv
  <2> SUFFICES ASSUME FiatInit PROVE FiatInv
    OBVIOUS
  <2>1. FiatTypeOK
    BY FiatAssumption
       DEF FiatInit, FiatTypeOK, IdleCall, IdleTransfer, IdleListing,
           LookerState, TransferState, ListingState
  <2>2. OneEach
    BY DEF FiatInit, OneEach, Single, IdleCall, IdleTransfer
  <2>3. BooksInOrder
    BY DEF FiatInit, BooksInOrder, Books, LookersInOrder, TransfersInOrder, Alone, Single,
           Remaining, TransfersOf, LooksAt, IdleCall, IdleTransfer
  <2> QED BY <2>1, <2>2, <2>3 DEF FiatInv
<1>2. FiatInv /\ [FiatNext]_fiatVars => FiatInv'
  BY FiatTypedStep, OneEachStep, BooksStep DEF FiatInv
<1> QED BY <1>1, <1>2, PTL DEF FiatSpec

\* Every reachable state of the fiat balances is well typed.
THEOREM FiatTypeCorrect == FiatSpec => []FiatTypeOK
<1>1. FiatInv => FiatTypeOK
  BY DEF FiatInv
<1> QED BY <1>1, FiatInvHolds, PTL

\* adminFiatTransfer never pays out more than the settled links of an app are
\* worth and transfers of negative amounts have added to its balance, although it
\* compares with a copy of the balance: for any apps, requests and amounts, with
\* activations cut short anywhere, unless calls for the app overlap or a request is
\* transferred twice.
THEOREM TransfersAreAlwaysCovered == FiatSpec => []TransfersAreCovered
<1>1. FiatInv => TransfersAreCovered
  BY DEF FiatInv, BooksInOrder, Books, Remaining, TransfersAreCovered, FiatTypeOK
<1> QED BY <1>1, FiatInvHolds, PTL

-----------------------------------------------------------------------------
(* The total of the merchant.                                              *)

\* The apps whose links a listing may have added to its total: not those that
\* are left on the page, nor the one in hand.
Added(m) ==
  FiatApps \ (listing[m].page
    \cup (IF listing[m].pc = "withdrawals" THEN listing[m].app ELSE {}))

\* The total of a listing is covered by the apps it has been through, although
\* the links of an app and its withdrawals are added up at different times.
ListingInOrder(m) ==
  listing[m].pc # "idle" =>
    /\ listing[m].total <= SumOver(worth, Added(m))
    /\ listing[m].pc = "withdrawals" =>
         \E a \in FiatApps : /\ listing[m].app = {a} /\ a \notin listing[m].page
                             /\ listing[m].sum <= credited[a]

\* More is on record as withdrawn than as refunded, but for the refunds.
WithdrawalsInOrder == \A a \in FiatApps : 0 <= withdrawn[a] + refunded[a]

TotalInv ==
  /\ merchantTotal <= SumOver(worth, FiatApps)
  /\ \A m \in Listings : ListingInOrder(m)

\* What the apps are worth can be added up.
LEMMA WorthSums ==
  ASSUME FiatTypeOK, NEW S \in SUBSET FiatApps
  PROVE  /\ worth \in [FiatApps -> Nat] /\ worth \in [FiatApps -> Int]
         /\ Summable(worth, S) /\ SumOver(worth, S) \in Nat
         /\ \A T \in SUBSET S : /\ SumOver(worth, T) \in Nat
                                /\ SumOver(worth, T) <= SumOver(worth, S)
<1>1. IsFiniteSet(FiatApps) /\ IsFiniteSet(S)
  BY FiatAssumption, FS_Subset
<1>2. worth \in [FiatApps -> Nat] /\ worth \in [FiatApps -> Int]
  <2>1. \A a \in FiatApps : credited[a] + refunded[a] \in Nat
    BY DEF FiatTypeOK
  <2> QED BY <2>1 DEF worth
<1>3. Summable(worth, S) /\ SumOver(worth, S) \in Nat
  <2>1. Summable(worth, S)
    BY <1>1, <1>2 DEF Summable
  <2>2. SumOver(worth, S) \in Nat
    BY <1>1, <1>2, SumNat
  <2> QED BY <2>1, <2>2
<1>4. ASSUME NEW T \in SUBSET S
      PROVE  SumOver(worth, T) \in Nat /\ SumOver(worth, T) <= SumOver(worth, S)
  <2>1. IsFiniteSet(T)
    BY <1>1, FS_Subset
  <2>2. SumOver(worth, T) \in Nat
    BY <1>2, <2>1, SumNat
  <2>3. SumOver(worth, T) <= SumOver(worth, S)
    BY <1>1, <1>2, SumSubset
  <2> QED BY <2>2, <2>3
<1> QED BY <1>2, <1>3, <1>4

\* Nothing that the documents show as earned is taken back.
LEMMA WorthStep ==
  FiatTypeOK /\ [FiatNext]_fiatVars =>
    \A a \in FiatApps : credited[a] <= credited'[a] /\ worth[a] <= worth'[a]
<1> SUFFICES ASSUME FiatTypeOK, [FiatNext]_fiatVars
             PROVE  \A a \in FiatApps : credited[a] <= credited'[a] /\ worth[a] <= worth'[a]
  OBVIOUS
<1>0. credited \in [FiatApps -> Nat] /\ refunded \in [FiatApps -> Nat]
  BY DEF FiatTypeOK
<1>1. ASSUME UNCHANGED <<credited, refunded>>
      PROVE  \A a \in FiatApps : credited[a] <= credited'[a] /\ refunded[a] <= refunded'[a]
  BY <1>0, <1>1
<1>2. \A a \in FiatApps : /\ credited[a] <= credited'[a] /\ refunded[a] <= refunded'[a]
                          /\ credited'[a] \in Int /\ refunded'[a] \in Int
  <2>1. ASSUME NEW a \in FiatApps, LinkSettles(a)
        PROVE  \A b \in FiatApps : /\ credited[b] <= credited'[b] /\ refunded[b] <= refunded'[b]
                                   /\ credited'[b] \in Int /\ refunded'[b] \in Int
    BY <1>0, <2>1 DEF LinkSettles, histories
  <2>2. ASSUME NEW t \in Transferrers, NEW r \in FiatRequests, MarkTransferred(t, r)
        PROVE  \A b \in FiatApps : /\ credited[b] <= credited'[b] /\ refunded[b] <= refunded'[b]
                                   /\ credited'[b] \in Int /\ refunded'[b] \in Int
    <3>1. Given(r) \in Nat
      BY TakenAndGiven
    <3> QED BY <1>0, <2>2, <3>1 DEF MarkTransferred
  <2>3. \/ UNCHANGED <<credited, refunded>>
        \/ \E a \in FiatApps : LinkSettles(a)
        \/ \E t \in Transferrers, r \in FiatRequests : MarkTransferred(t, r)
    BY DEF FiatNext, AskFor, LookFails, LookStep, Look, LookAtLinks, LookAtWithdrawals,
           StoreBalance, TransferFails, TransferStep, StartTransfer, ReadApp, LowerBalance,
           ListingFails, StoreTotal, List, ListLinks, ListWithdrawals, fiatVars, documents,
           histories
  <2> QED BY <1>0, <1>1, <2>1, <2>2, <2>3
<1> QED BY <1>0, <1>2 DEF worth

\* A transfer puts on record what it takes and what it gives.
LEMMA WithdrawalsStep ==
  FiatTypeOK /\ WithdrawalsInOrder /\ [FiatNext]_fiatVars => WithdrawalsInOrder'
<1> SUFFICES ASSUME FiatTypeOK, WithdrawalsInOrder, [FiatNext]_fiatVars
             PROVE  WithdrawalsInOrder'
  OBVIOUS
<1>1. ASSUME UNCHANGED <<withdrawn, refunded>> PROVE WithdrawalsInOrder'
  BY <1>1 DEF WithdrawalsInOrder
<1>2. ASSUME NEW t \in Transferrers, NEW r \in FiatRequests, MarkTransferred(t, r)
      PROVE  WithdrawalsInOrder'
  <2>1. /\ Given(r) \in Nat /\ Taken(r) \in Nat /\ Asked[r] = Taken(r) - Given(r)
        /\ Asked[r] \in Int
    BY TakenAndGiven
  <2>2. withdrawn \in [FiatApps -> Int] /\ refunded \in [FiatApps -> Nat]
    BY DEF FiatTypeOK
  <2> QED BY <1>2, <2>1, <2>2 DEF MarkTransferred, WithdrawalsInOrder
<1>3. \/ UNCHANGED <<withdrawn, refunded>>
      \/ \E t \in Transferrers, r \in FiatRequests : MarkTransferred(t, r)
  BY DEF FiatNext, AskFor, LinkSettles, LookFails, LookStep, Look, LookAtLinks,
         LookAtWithdrawals, StoreBalance, TransferFails, TransferStep, StartTransfer, ReadApp,
         LowerBalance, ListingFails, StoreTotal, List, ListLinks, ListWithdrawals, fiatVars,
         documents, histories
<1> QED BY <1>1, <1>2, <1>3

\* No app loses worth, so no sum of them does.
LEMMA WorthGrows ==
  ASSUME FiatTypeOK, FiatTypeOK',
         \A a \in FiatApps : worth[a] <= worth'[a],
         NEW S \in SUBSET FiatApps
  PROVE  /\ SumOver(worth, S) \in Int /\ SumOver(worth', S) \in Int
         /\ SumOver(worth, S) <= SumOver(worth', S)
<1>1. IsFiniteSet(S)
  BY FiatAssumption, FS_Subset
<1>2. Summable(worth, S) /\ Summable(worth', S)
  <2>1. \A a \in FiatApps : credited[a] + refunded[a] \in Int /\ (credited[a] + refunded[a])' \in Int
    BY DEF FiatTypeOK
  <2> QED BY <1>1, <2>1 DEF Summable, worth
<1>3. SumOver(worth, S) \in Int /\ SumOver(worth', S) \in Int
  BY <1>2, SumType
<1>4. \A a \in S : worth[a] <= worth'[a]
  OBVIOUS
<1>5. SumOver(worth, S) <= SumOver(worth', S)
  BY <1>2, <1>4, SumMonotone
<1> QED BY <1>3, <1>5

LEMMA TotalStep ==
  FiatTypeOK /\ FiatTypeOK' /\ WithdrawalsInOrder /\ TotalInv /\ [FiatNext]_fiatVars => TotalInv'
<1> SUFFICES ASSUME FiatTypeOK, FiatTypeOK', WithdrawalsInOrder, TotalInv, [FiatNext]_fiatVars
             PROVE  TotalInv'
  OBVIOUS
<1>0. /\ credited \in [FiatApps -> Nat] /\ withdrawn \in [FiatApps -> Int]
      /\ refunded \in [FiatApps -> Nat]
      /\ \A a \in FiatApps : credited[a] <= credited'[a] /\ worth[a] <= worth'[a]
      /\ listing \in [Listings -> ListingState] /\ merchantTotal \in Int
  BY WorthStep DEF FiatTypeOK
\* Whatever happens to the documents, a listing at rest stays in order.
<1>1. ASSUME NEW m \in Listings, listing'[m] = listing[m]
      PROVE  ListingInOrder(m)'
  <2>1. ListingInOrder(m)
    BY DEF TotalInv
  <2>2. Added(m)' = Added(m) /\ Added(m) \in SUBSET FiatApps
    BY <1>1 DEF Added
  <2>3. listing[m].total \in Int /\ listing[m].sum \in Int
    BY <1>0 DEF ListingState
  <2>4. /\ SumOver(worth, Added(m)) \in Int /\ SumOver(worth', Added(m)) \in Int
        /\ SumOver(worth, Added(m)) <= SumOver(worth', Added(m))
    BY <1>0, <2>2, WorthGrows
  <2> SUFFICES ASSUME listing[m].pc # "idle"
               PROVE  /\ listing[m].total <= SumOver(worth', Added(m))
                      /\ listing[m].pc = "withdrawals" =>
                           \E a \in FiatApps : /\ listing[m].app = {a} /\ a \notin listing[m].page
                                               /\ listing[m].sum <= credited'[a]
    BY <1>1, <2>2 DEF ListingInOrder
  <2>5. listing[m].total <= SumOver(worth', Added(m))
    BY <2>1, <2>3, <2>4 DEF ListingInOrder
  <2>6. ASSUME listing[m].pc = "withdrawals"
        PROVE  \E a \in FiatApps : /\ listing[m].app = {a} /\ a \notin listing[m].page
                                   /\ listing[m].sum <= credited'[a]
    <3>1. PICK a \in FiatApps : /\ listing[m].app = {a} /\ a \notin listing[m].page
                                /\ listing[m].sum <= credited[a]
      BY <2>1, <2>6 DEF ListingInOrder
    <3>2. credited[a] \in Int /\ credited'[a] \in Int /\ credited[a] <= credited'[a]
      BY <1>0, <1>1 DEF FiatTypeOK
    <3>3. listing[m].sum <= credited'[a]
      BY <2>3, <3>1, <3>2
    <3> QED BY <3>1, <3>3
  <2> QED BY <2>5, <2>6
\* Any step but those of a listing.
<1>2. ASSUME listing' = listing, merchantTotal' = merchantTotal
      PROVE  TotalInv'
  <2>1. /\ SumOver(worth, FiatApps) \in Int /\ SumOver(worth', FiatApps) \in Int
        /\ SumOver(worth, FiatApps) <= SumOver(worth', FiatApps)
    BY <1>0, WorthGrows
  <2>2. merchantTotal' <= SumOver(worth', FiatApps)
    BY <1>0, <1>2, <2>1 DEF TotalInv
  <2>3. \A m \in Listings : ListingInOrder(m)'
    BY <1>1, <1>2
  <2> QED BY <2>2, <2>3 DEF TotalInv
\* A step of one listing, which leaves the documents alone.
<1>3. ASSUME NEW m \in Listings, worth' = worth,
             \A n \in Listings : n # m => listing'[n] = listing[n],
             ListingInOrder(m)', merchantTotal' <= SumOver(worth, FiatApps)
      PROVE  TotalInv'
  <2>1. \A n \in Listings : ListingInOrder(n)'
    BY <1>1, <1>3
  <2> QED BY <1>3, <2>1 DEF TotalInv
<1>4. ASSUME NEW a \in FiatApps, LinkSettles(a) PROVE TotalInv'
  BY <1>2, <1>4 DEF LinkSettles
<1>5. ASSUME UNCHANGED <<listing, merchantTotal>> PROVE TotalInv'
  BY <1>2, <1>5
<1>6. ASSUME NEW r \in FiatRequests, AskFor(r) PROVE TotalInv'
  BY <1>5, <1>6 DEF AskFor
<1>7. ASSUME NEW q \in Lookers, LookFails(q) \/ \E a \in FiatApps : LookStep(q, a)
      PROVE  TotalInv'
  BY <1>5, <1>7 DEF LookFails, LookStep, Look, LookAtLinks, LookAtWithdrawals,
                    StoreBalance, documents
<1>8. ASSUME NEW t \in Transferrers, TransferFails(t) \/ \E r \in FiatRequests : TransferStep(t, r)
      PROVE  TotalInv'
  <2>1. UNCHANGED <<listing, merchantTotal>>
    BY <1>8 DEF TransferFails, TransferStep, StartTransfer, ReadApp, LowerBalance,
                MarkTransferred, documents
  <2> QED BY <1>5, <2>1
<1>9. ASSUME NEW m \in Listings, ListingFails(m) PROVE TotalInv'
  <2>1. /\ worth' = worth /\ credited' = credited /\ merchantTotal' = merchantTotal
        /\ listing'[m].pc = "idle" /\ \A n \in Listings : n # m => listing'[n] = listing[n]
    BY <1>0, <1>9 DEF ListingFails, documents, histories, worth, IdleListing
  <2>2. ListingInOrder(m)'
    BY <2>1 DEF ListingInOrder
  <2> QED BY <1>3, <2>1, <2>2 DEF TotalInv
<1>10. ASSUME NEW m \in Listings, StoreTotal(m) PROVE TotalInv'
  <2>0. /\ listing[m].pc = "store" /\ listing[m].total \in Int /\ listing[m].page \subseteq FiatApps
        /\ worth' = worth /\ credited' = credited /\ merchantTotal' = listing[m].total
        /\ \A n \in Listings : n # m => listing'[n] = listing[n]
        /\ \/ listing'[m] = IdleListing
           \/ listing'[m] = [pc |-> "links", page |-> listing[m].page, app |-> {}, sum |-> 0,
                             total |-> listing[m].total]
    BY <1>0, <1>10 DEF StoreTotal, documents, histories, worth, ListingState
  <2>1. Added(m) = FiatApps \ listing[m].page
    BY <2>0 DEF Added
  <2>2. listing[m].total <= SumOver(worth, Added(m))
    BY <2>0 DEF TotalInv, ListingInOrder
  <2>3. merchantTotal' <= SumOver(worth, FiatApps)
    <3>1. /\ Added(m) \in SUBSET FiatApps /\ FiatApps \in SUBSET FiatApps
      BY <2>1
    <3>2. /\ SumOver(worth, Added(m)) \in Int /\ SumOver(worth, FiatApps) \in Int
          /\ SumOver(worth, Added(m)) <= SumOver(worth, FiatApps)
      BY <3>1, WorthSums
    <3> QED BY <2>0, <2>2, <3>2
  <2>4. ListingInOrder(m)'
    <3>1. CASE listing'[m] = IdleListing
      BY <3>1 DEF ListingInOrder, IdleListing
    <3>2. CASE listing'[m] = [pc |-> "links", page |-> listing[m].page, app |-> {}, sum |-> 0,
                              total |-> listing[m].total]
      <4>1. /\ listing'[m].pc = "links" /\ listing'[m].page = listing[m].page
            /\ listing'[m].total = listing[m].total
        BY <3>2
      <4>2. Added(m)' = Added(m)
        BY <2>1, <4>1 DEF Added
      <4> QED BY <2>0, <2>2, <4>1, <4>2 DEF ListingInOrder
    <3> QED BY <2>0, <3>1, <3>2
  <2> QED BY <1>3, <2>0, <2>3, <2>4
<1>11. ASSUME NEW m \in Listings, NEW page \in Pages, List(m, page) PROVE TotalInv'
  <2>1. /\ worth' = worth /\ credited' = credited /\ merchantTotal' = merchantTotal
        /\ listing'[m].pc = "links" /\ listing'[m].total = 0
        /\ \A n \in Listings : n # m => listing'[n] = listing[n]
    BY <1>0, <1>11 DEF List, documents, histories, worth
  <2>2. ListingInOrder(m)'
    <3>1. Added(m)' \in SUBSET FiatApps
      BY DEF Added
    <3>2. SumOver(worth, Added(m)') \in Nat
      BY <3>1, WorthSums
    <3> QED BY <2>1, <3>2 DEF ListingInOrder
  <2> QED BY <1>3, <2>1, <2>2 DEF TotalInv
\* The app that is taken from the page is in hand, and no longer among the added.
<1>12. ASSUME NEW m \in Listings, NEW a \in FiatApps, ListLinks(m, a) PROVE TotalInv'
  <2>1. /\ listing[m].pc = "links" /\ a \in listing[m].page
        /\ worth' = worth /\ credited' = credited /\ merchantTotal' = merchantTotal
        /\ listing'[m] = [pc |-> "withdrawals", page |-> listing[m].page \ {a}, app |-> {a},
                          sum |-> credited[a], total |-> listing[m].total]
        /\ \A n \in Listings : n # m => listing'[n] = listing[n]
    BY <1>0, <1>12 DEF ListLinks, documents, histories, worth
  <2>2. /\ listing'[m].pc = "withdrawals" /\ listing'[m].page = listing[m].page \ {a}
        /\ listing'[m].app = {a} /\ listing'[m].sum = credited[a]
        /\ listing'[m].total = listing[m].total
    BY <2>1
  <2>3. Added(m)' = Added(m)
    BY <2>1, <2>2 DEF Added
  <2>4. credited[a] <= credited[a]
    BY <1>0
  <2>5. ListingInOrder(m)'
    BY <2>1, <2>2, <2>3, <2>4 DEF ListingInOrder, TotalInv
  <2> QED BY <1>3, <2>1, <2>5 DEF TotalInv
\* It has been added, less what was withdrawn.
<1>13. ASSUME NEW m \in Listings, NEW a \in FiatApps, ListWithdrawals(m, a) PROVE TotalInv'
  <2>1. /\ listing[m].pc = "withdrawals" /\ a \in listing[m].app
        /\ worth' = worth /\ credited' = credited /\ merchantTotal' = merchantTotal
        /\ listing'[m] = [pc |-> "store", page |-> listing[m].page, app |-> {a}, sum |-> 0,
                          total |-> listing[m].total + listing[m].sum - withdrawn[a]]
        /\ \A n \in Listings : n # m => listing'[n] = listing[n]
    BY <1>0, <1>13 DEF ListWithdrawals, documents, histories, worth
  <2>2. /\ listing[m].app = {a} /\ a \notin listing[m].page
        /\ listing[m].sum <= credited[a]
        /\ listing[m].total <= SumOver(worth, Added(m))
    BY <2>1 DEF TotalInv, ListingInOrder
  <2>3. /\ listing'[m].pc = "store" /\ listing'[m].page = listing[m].page
        /\ listing'[m].total = listing[m].total + listing[m].sum - withdrawn[a]
    BY <2>1
  <2>4. /\ Added(m)' = Added(m) \cup {a} /\ a \notin Added(m)
        /\ Added(m) \in SUBSET FiatApps
    BY <2>1, <2>2, <2>3 DEF Added
  <2>5. Summable(worth, Added(m)) /\ SumOver(worth, Added(m)) \in Int
    BY <2>4, WorthSums
  <2>6. /\ worth[a] \in Int /\ worth[a] = credited[a] + refunded[a]
        /\ credited[a] \in Int /\ refunded[a] \in Int
    BY <1>0 DEF worth
  <2>7. SumOver(worth, Added(m)') = worth[a] + SumOver(worth, Added(m))
    BY <2>4, <2>5, <2>6, SumAdd
  <2>8. /\ listing[m].total \in Int /\ listing[m].sum \in Int /\ withdrawn[a] \in Int
        /\ 0 <= withdrawn[a] + refunded[a]
    BY <1>0 DEF ListingState, WithdrawalsInOrder
  <2>9. listing'[m].total <= SumOver(worth, Added(m)')
    BY <2>2, <2>3, <2>5, <2>6, <2>7, <2>8
  <2>10. ListingInOrder(m)'
    BY <2>1, <2>3, <2>9 DEF ListingInOrder
  <2> QED BY <1>3, <2>1, <2>10 DEF TotalInv
<1>14. CASE UNCHANGED fiatVars
  BY <1>5, <1>14 DEF fiatVars, documents
<1> QED
  BY <1>4, <1>6, <1>7, <1>8, <1>9, <1>10, <1>11, <1>12, <1>13, <1>14 DEF FiatNext

\* The total that getApps stores for a merchant is never more than its settled
\* links are worth, and the negative withdrawals on record, for any amounts, pages
\* and searches and any number of them at a time, although it adds up documents
\* that change while it does.
THEOREM TotalIsAlwaysCovered == FiatSpec => []TotalIsCovered
<1>1. FiatInit => TotalInv /\ WithdrawalsInOrder
  <2> SUFFICES ASSUME FiatInit PROVE TotalInv /\ WithdrawalsInOrder
    OBVIOUS
  <2>1. FiatTypeOK
    BY FiatAssumption
       DEF FiatInit, FiatTypeOK, IdleCall, IdleTransfer, IdleListing,
           LookerState, TransferState, ListingState
  <2>2. SumOver(worth, FiatApps) \in Nat
    BY <2>1, WorthSums
  <2>3. \A m \in Listings : ListingInOrder(m)
    BY DEF FiatInit, ListingInOrder, IdleListing
  <2> QED BY <2>2, <2>3 DEF FiatInit, TotalInv, WithdrawalsInOrder
<1>2. TotalInv => TotalIsCovered
  BY DEF TotalInv, TotalIsCovered, SumOver
<1> QED BY <1>1, <1>2, WithdrawalsStep, TotalStep, FiatTypeCorrect, PTL DEF FiatSpec
-----------------------------------------------------------------------------
(* Whitelist.                                                              *)

\* An activation that runs has an entry of its own and a password that was sent.
EditorInv ==
  \A e \in Editors : editor[e].pc # "idle" =>
    /\ \E w \in Entries : editor[e].entry = {w}
    /\ editor[e].code \in 1..issued

WhitelistTyped == WhitelistTypeOK /\ code <= issued /\ EditorInv

\* The copy of an activation is the list, unless the version has moved on.
VersionInv ==
  \A e \in Editors : editor[e].pc \in {"clear", "save"} =>
    /\ editor[e].version <= version
    /\ editor[e].version = version => editor[e].copy = listed

\* The activations that may still use password k.
Holding(k) == {e \in Editors : editor[e].pc # "idle" /\ editor[e].code = k}

\* A password that can still be read has not been used, nor cleared by anybody
\* who has read it.
CodeInv ==
  /\ \A k \in 1..MaxCodes : k > issued => uses[k] = 0
  /\ code # 0 => /\ uses[code] = 0
                 /\ \A e \in Editors : editor[e].pc = "save" => editor[e].code # code
  /\ \A k \in 1..MaxCodes : uses[k] + Cardinality(Holding(k)) <= Cardinality(Editors)

\* The activations that will add w, because it was not on the list they have read.
Adding(w) ==
  {e \in Editors : /\ editor[e].pc \in {"clear", "save"} /\ editor[e].kind = "add"
                   /\ editor[e].entry = {w} /\ editor[e].copy[w] = 0}

DuplicateInv ==
  \A w \in Entries \ NoNetwork :
    listed[w] = 0 \/ listed[w] + Cardinality(Adding(w)) <= Cardinality(Editors)

ListInv == VersionInv /\ AcknowledgedStays

-----------------------------------------------------------------------------
(* Types.                                                                  *)

LEMMA IdleEditorType ==
  IdleEditor \in [pc : {"idle"}, kind : {"add"}, entry : {{}}, code : {0},
                  copy : [Entries -> Nat], version : {0}]
BY DEF IdleEditor

\* The entry of an activation that runs.
LEMMA EntryType ==
  ASSUME WhitelistTyped, NEW e \in Editors, editor[e].pc # "idle"
  PROVE  Entry(e) \in Entries /\ editor[e].entry = {Entry(e)}
<1>1. PICK w \in Entries : editor[e].entry = {w}
  BY DEF WhitelistTyped, EditorInv
<1> QED BY <1>1 DEF Entry

LEMMA WhitelistTypedStep == WhitelistTyped /\ [WhitelistNext]_whitelistVars => WhitelistTyped'
<1> SUFFICES ASSUME WhitelistTyped, [WhitelistNext]_whitelistVars PROVE WhitelistTyped'
  OBVIOUS
<1> USE WhitelistAssumption
<1>0. /\ listed \in [Entries -> Nat] /\ version \in Nat
      /\ code \in 0..MaxCodes /\ issued \in 0..MaxCodes /\ code <= issued
      /\ editor \in [Editors -> EditorState]
      /\ uses \in [1..MaxCodes -> Nat]
      /\ wanted \subseteq Entries
      /\ EditorInv
  BY DEF WhitelistTyped, WhitelistTypeOK
\* A change of one activation.
<1>1. ASSUME NEW e \in Editors, NEW r \in EditorState,
             editor' = [editor EXCEPT ![e] = r], issued' = issued,
             r.pc # "idle" => /\ \E w \in Entries : r.entry = {w}
                              /\ r.code \in 1..issued
      PROVE  editor' \in [Editors -> EditorState] /\ EditorInv'
  BY <1>0, <1>1 DEF EditorInv
<1>2. IdleEditor \in EditorState /\ IdleEditor.pc = "idle"
  BY IdleEditorType DEF EditorState
<1>3. CASE RequestCode
  BY <1>0, <1>3 DEF RequestCode, WhitelistTyped, WhitelistTypeOK, EditorInv
<1>4. CASE CodeExpires
  BY <1>0, <1>4 DEF CodeExpires, WhitelistTyped, WhitelistTypeOK, EditorInv
<1>5. ASSUME NEW e \in Editors, NEW kind \in {"add", "remove"}, NEW w \in Entries,
             ReadMerchant(e, kind, w)
      PROVE  WhitelistTyped'
  <2> DEFINE r == [IdleEditor EXCEPT !.pc = "app", !.kind = kind, !.entry = {w}, !.code = code]
  <2>1. r \in EditorState /\ r.entry = {w} /\ r.code = code
    BY <1>0 DEF EditorState, IdleEditor
  <2>2. code \in 1..issued
    BY <1>0, <1>5 DEF ReadMerchant
  <2>3. editor' = [editor EXCEPT ![e] = r] /\ issued' = issued
    BY <1>5 DEF ReadMerchant
  <2> HIDE DEF r
  <2>4. editor' \in [Editors -> EditorState] /\ EditorInv'
    BY <1>1, <2>1, <2>2, <2>3
  <2> QED BY <1>0, <1>5, <2>4 DEF ReadMerchant, WhitelistTyped, WhitelistTypeOK
<1>6. ASSUME NEW e \in Editors, ReadList(e) PROVE WhitelistTyped'
  <2> DEFINE r == [editor[e] EXCEPT !.pc = "clear", !.copy = listed, !.version = version]
  <2>1. /\ r \in EditorState /\ r.entry = editor[e].entry /\ r.code = editor[e].code
        /\ editor[e].pc # "idle"
    BY <1>0, <1>6 DEF EditorState, ReadList
  <2>2. editor' = [editor EXCEPT ![e] = r] /\ issued' = issued
    BY <1>0, <1>6 DEF ReadList
  <2> HIDE DEF r
  <2>3. editor' \in [Editors -> EditorState] /\ EditorInv'
    BY <1>0, <1>1, <2>1, <2>2 DEF EditorInv
  <2> QED BY <1>0, <1>6, <2>3 DEF ReadList, WhitelistTyped, WhitelistTypeOK
<1>7. ASSUME NEW e \in Editors, ClearCode(e) PROVE WhitelistTyped'
  <2> DEFINE r == [editor[e] EXCEPT !.pc = "save"]
  <2>1. /\ r \in EditorState /\ r.entry = editor[e].entry /\ r.code = editor[e].code
        /\ editor[e].pc # "idle"
    BY <1>0, <1>7 DEF EditorState, ClearCode
  <2>2. editor' = [editor EXCEPT ![e] = r] /\ issued' = issued
    BY <1>0, <1>7 DEF ClearCode
  <2> HIDE DEF r
  <2>3. editor' \in [Editors -> EditorState] /\ EditorInv'
    BY <1>0, <1>1, <2>1, <2>2 DEF EditorInv
  <2> QED BY <1>0, <1>7, <2>3 DEF ClearCode, WhitelistTyped, WhitelistTypeOK
<1>8. ASSUME NEW e \in Editors, SaveAddition(e) \/ SaveRemoval(e) PROVE WhitelistTyped'
  <2>1. editor[e].pc # "idle" /\ Acknowledged(e)
    BY <1>8 DEF SaveAddition, SaveRemoval
  <2>2. editor[e].code \in 1..MaxCodes
    BY <1>0, <2>1 DEF EditorInv
  <2>3. Entry(e) \in Entries
    BY <2>1, EntryType
  <2>4. uses' \in [1..MaxCodes -> Nat] /\ version' \in Nat
    BY <1>0, <2>1, <2>2 DEF Acknowledged
  <2>5. editor' \in [Editors -> EditorState] /\ EditorInv'
    BY <1>1, <1>2, <2>1 DEF Acknowledged
  <2>6. editor[e].copy \in [Entries -> Nat]
    BY <1>0 DEF EditorState
  <2>7. listed' \in [Entries -> Nat] /\ wanted' \subseteq Entries
    <3>1. CASE SaveAddition(e)
      BY <1>0, <2>3, <3>1 DEF SaveAddition
    <3>2. CASE SaveRemoval(e)
      BY <1>0, <2>6, <3>2 DEF SaveRemoval
    <3> QED BY <1>8, <3>1, <3>2
  <2> QED BY <1>0, <2>1, <2>4, <2>5, <2>7 DEF Acknowledged, WhitelistTyped, WhitelistTypeOK
<1>9. ASSUME NEW e \in Editors, EditStops(e) PROVE WhitelistTyped'
  <2>1. editor' \in [Editors -> EditorState] /\ EditorInv'
    BY <1>1, <1>2, <1>9 DEF EditStops
  <2> QED BY <1>0, <1>9, <2>1 DEF EditStops, WhitelistTyped, WhitelistTypeOK
<1>10. CASE UNCHANGED whitelistVars
  BY <1>0, <1>10 DEF whitelistVars, WhitelistTyped, WhitelistTypeOK, EditorInv
<1> QED
  BY <1>3, <1>4, <1>5, <1>6, <1>7, <1>8, <1>9, <1>10 DEF WhitelistNext

\* Every reachable state is well typed: an entry is counted, a password is one
\* that was sent, and whoever runs has read it.
THEOREM WhitelistTypeCorrect == WhitelistSpec => []WhitelistTyped
<1>1. WhitelistInit => WhitelistTyped
  BY WhitelistAssumption, IdleEditorType
     DEF WhitelistInit, WhitelistTyped, WhitelistTypeOK, EditorInv, EditorState
<1> QED BY <1>1, WhitelistTypedStep, PTL DEF WhitelistSpec

-----------------------------------------------------------------------------
(* The list.                                                               *)

LEMMA ListStep == WhitelistTyped /\ ListInv /\ [WhitelistNext]_whitelistVars => ListInv'
<1> SUFFICES ASSUME WhitelistTyped, ListInv, [WhitelistNext]_whitelistVars PROVE ListInv'
  OBVIOUS
<1>0. /\ listed \in [Entries -> Nat] /\ version \in Nat
      /\ editor \in [Editors -> EditorState]
      /\ wanted \subseteq Entries
      /\ VersionInv /\ AcknowledgedStays
  BY DEF WhitelistTyped, WhitelistTypeOK, ListInv
<1>1. CASE RequestCode \/ CodeExpires \/ UNCHANGED whitelistVars
  <2>1. UNCHANGED <<listed, version, editor, wanted>>
    BY <1>1 DEF RequestCode, CodeExpires, whitelistVars
  <2> QED BY <1>0, <2>1 DEF ListInv, VersionInv, AcknowledgedStays
\* A step of one activation that leaves the list alone.
<1>2. ASSUME NEW e \in Editors, UNCHANGED <<listed, version, wanted>>,
             \A f \in Editors : f # e => editor'[f] = editor[f],
             editor'[e].pc \in {"clear", "save"} =>
               \/ editor'[e].version = version /\ editor'[e].copy = listed
               \/ /\ editor[e].pc \in {"clear", "save"}
                  /\ editor'[e].version = editor[e].version
                  /\ editor'[e].copy = editor[e].copy
      PROVE  ListInv'
  <2>1. VersionInv'
    BY <1>0, <1>2 DEF VersionInv
  <2> QED BY <1>0, <1>2, <2>1 DEF ListInv, AcknowledgedStays
<1>3. ASSUME NEW e \in Editors, NEW kind \in {"add", "remove"}, NEW w \in Entries,
             ReadMerchant(e, kind, w)
      PROVE  ListInv'
  BY <1>0, <1>2, <1>3 DEF ReadMerchant, IdleEditor
<1>4. ASSUME NEW e \in Editors, ReadList(e) PROVE ListInv'
  BY <1>0, <1>2, <1>4 DEF ReadList, EditorState
<1>5. ASSUME NEW e \in Editors, ClearCode(e) PROVE ListInv'
  BY <1>0, <1>2, <1>5 DEF ClearCode, EditorState
<1>6. ASSUME NEW e \in Editors, EditStops(e) PROVE ListInv'
  BY <1>0, <1>2, <1>6 DEF EditStops, IdleEditor
\* A save raises the version: no other copy is taken for the list any more.
<1>7. ASSUME NEW e \in Editors, Acknowledged(e) PROVE VersionInv'
  <2>1. /\ version' = version + 1 /\ editor'[e].pc = "idle"
        /\ \A f \in Editors : f # e => editor'[f] = editor[f]
    BY <1>0, <1>7 DEF Acknowledged, IdleEditor
  <2> SUFFICES ASSUME NEW f \in Editors, editor'[f].pc \in {"clear", "save"}
               PROVE  editor'[f].version <= version /\ version < version'
    <3>1. \A f \in Editors : editor'[f].version \in Nat
      BY WhitelistTypedStep DEF WhitelistTyped, WhitelistTypeOK, EditorState
    <3> QED BY <1>0, <2>1, <3>1 DEF VersionInv
  <2>2. f # e /\ editor'[f] = editor[f]
    BY <2>1
  <2> QED BY <1>0, <2>1, <2>2 DEF VersionInv
<1>8. ASSUME NEW e \in Editors, SaveAddition(e) PROVE ListInv'
  <2>1. editor[e].pc # "idle" /\ Acknowledged(e)
    BY <1>8 DEF SaveAddition
  <2>2. Entry(e) \in Entries
    BY <2>1, EntryType
  <2>3. AcknowledgedStays'
    BY <1>0, <1>8, <2>2 DEF SaveAddition, AcknowledgedStays
  <2> QED BY <1>7, <2>1, <2>3 DEF ListInv
<1>9. ASSUME NEW e \in Editors, SaveRemoval(e) PROVE ListInv'
  <2>1. Acknowledged(e) /\ editor[e].copy = listed
    BY <1>0, <1>9 DEF SaveRemoval, Current, VersionInv
  <2>2. AcknowledgedStays'
    BY <1>0, <1>9, <2>1 DEF SaveRemoval, AcknowledgedStays
  <2> QED BY <1>7, <2>1, <2>2 DEF ListInv
<1> QED
  BY <1>1, <1>3, <1>4, <1>5, <1>6, <1>8, <1>9 DEF WhitelistNext

\* What was acknowledged stays on the list, however many calls overlap.
THEOREM AcknowledgedChangesStay == WhitelistSpec => []AcknowledgedStays
<1>1. WhitelistInit => ListInv
  BY DEF WhitelistInit, ListInv, VersionInv, AcknowledgedStays, IdleEditor
<1>2. ListInv => AcknowledgedStays
  BY DEF ListInv
<1> QED BY <1>1, <1>2, ListStep, WhitelistTypeCorrect, PTL DEF WhitelistSpec

-----------------------------------------------------------------------------
(* Passwords and duplicates.                                               *)

LEMMA EditorsFinite ==
  ASSUME NEW S \in SUBSET Editors
  PROVE  /\ IsFiniteSet(S) /\ Cardinality(S) \in Nat
         /\ Cardinality(Editors) \in Nat
         /\ Cardinality(S) <= Cardinality(Editors)
         /\ \A T \in SUBSET S : Cardinality(T) \in Nat /\ Cardinality(T) <= Cardinality(S)
         /\ \A e \in S : \A T \in SUBSET (S \ {e}) :
              Cardinality(T) \in Nat /\ Cardinality(T) <= Cardinality(S) - 1
<1>1. IsFiniteSet(Editors)
  BY WhitelistAssumption
<1>2. IsFiniteSet(S) /\ Cardinality(S) <= Cardinality(Editors)
  BY <1>1, FS_Subset
<1>3. Cardinality(S) \in Nat /\ Cardinality(Editors) \in Nat
  BY <1>1, <1>2, FS_CardinalityType
<1>4. ASSUME NEW T \in SUBSET S
      PROVE  Cardinality(T) \in Nat /\ Cardinality(T) <= Cardinality(S)
  BY <1>2, FS_Subset, FS_CardinalityType
<1>5. ASSUME NEW e \in S, NEW T \in SUBSET (S \ {e})
      PROVE  Cardinality(T) \in Nat /\ Cardinality(T) <= Cardinality(S) - 1
  <2>1. IsFiniteSet(S \ {e}) /\ Cardinality(S \ {e}) = Cardinality(S) - 1
    BY <1>2, FS_RemoveElement
  <2>2. IsFiniteSet(T) /\ Cardinality(T) <= Cardinality(S \ {e})
    BY <2>1, FS_Subset
  <2> QED BY <2>1, <2>2, FS_CardinalityType
<1> QED BY <1>2, <1>3, <1>4, <1>5

LEMMA CodeStep == WhitelistTyped /\ CodeInv /\ [WhitelistNext]_whitelistVars => CodeInv'
<1> SUFFICES ASSUME WhitelistTyped, CodeInv, [WhitelistNext]_whitelistVars PROVE CodeInv'
  OBVIOUS
<1>0. /\ code \in 0..MaxCodes /\ issued \in 0..MaxCodes /\ code <= issued
      /\ MaxCodes \in Nat
      /\ editor \in [Editors -> EditorState]
      /\ uses \in [1..MaxCodes -> Nat]
      /\ EditorInv
  BY WhitelistAssumption DEF WhitelistTyped, WhitelistTypeOK
<1>1. \A k : Holding(k) \in SUBSET Editors /\ Holding(k)' \in SUBSET Editors
  BY DEF Holding
\* A step that uses no password and lets nobody hold one who did not.
<1>2. ASSUME uses' = uses, issued' = issued, code' \in {code, 0},
             \A e \in Editors : editor'[e].pc # "idle" =>
               editor[e].pc # "idle" /\ editor'[e].code = editor[e].code,
             code' # 0 => \A e \in Editors : editor'[e].pc = "save" => editor[e].pc = "save"
      PROVE  CodeInv'
  <2>1. ASSUME NEW k \in 1..MaxCodes
        PROVE  uses'[k] + Cardinality(Holding(k)') <= Cardinality(Editors)
    <3>1. Holding(k)' \in SUBSET Holding(k)
      BY <1>2 DEF Holding
    <3>2. /\ Cardinality(Holding(k)') \in Nat /\ Cardinality(Holding(k)) \in Nat
          /\ Cardinality(Holding(k)') <= Cardinality(Holding(k))
          /\ Cardinality(Editors) \in Nat
      BY <1>1, <3>1, EditorsFinite
    <3> QED BY <1>0, <1>2, <3>2 DEF CodeInv
  <2>2. code' # 0 => /\ uses'[code'] = 0
                     /\ \A e \in Editors : editor'[e].pc = "save" => editor'[e].code # code'
    BY <1>0, <1>2 DEF CodeInv
  <2> QED BY <1>0, <1>2, <2>1, <2>2 DEF CodeInv
<1>3. CASE RequestCode
  <2>1. /\ uses' = uses /\ editor' = editor /\ issued' = issued + 1 /\ code' = issued + 1
        /\ code' \in 1..MaxCodes
    BY <1>0, <1>3 DEF RequestCode
  <2>2. uses'[code'] = 0
    BY <1>0, <2>1 DEF CodeInv
  <2>3. \A e \in Editors : editor'[e].pc = "save" => editor'[e].code # code'
    BY <1>0, <2>1 DEF EditorInv
  <2>4. \A k : Holding(k)' = Holding(k)
    BY <2>1 DEF Holding
  <2> QED BY <1>0, <2>1, <2>2, <2>3, <2>4 DEF CodeInv
<1>4. CASE CodeExpires \/ UNCHANGED whitelistVars
  BY <1>2, <1>4 DEF CodeExpires, whitelistVars
<1>5. ASSUME NEW e \in Editors, NEW kind \in {"add", "remove"}, NEW w \in Entries,
             ReadMerchant(e, kind, w)
      PROVE  CodeInv'
  <2>1. /\ uses' = uses /\ issued' = issued /\ code' = code /\ code \in 1..MaxCodes
        /\ \A f \in Editors : f # e => editor'[f] = editor[f]
        /\ editor'[e].pc = "app" /\ editor'[e].code = code
    BY <1>0, <1>5 DEF ReadMerchant, IdleEditor
  <2>2. ASSUME NEW k \in 1..MaxCodes
        PROVE  uses'[k] + Cardinality(Holding(k)') <= Cardinality(Editors)
    <3>1. CASE k = code
      <4>1. Cardinality(Holding(k)') \in Nat /\ Cardinality(Holding(k)') <= Cardinality(Editors)
        BY <1>1, EditorsFinite
      <4>2. uses'[k] = 0
        BY <2>1, <3>1 DEF CodeInv
      <4> QED BY <4>1, <4>2
    <3>2. CASE k # code
      <4>1. Holding(k)' \in SUBSET Holding(k)
        BY <2>1, <3>2 DEF Holding
      <4>2. /\ Cardinality(Holding(k)') \in Nat /\ Cardinality(Holding(k)) \in Nat
            /\ Cardinality(Holding(k)') <= Cardinality(Holding(k))
            /\ Cardinality(Editors) \in Nat
        BY <1>1, <4>1, EditorsFinite
      <4> QED BY <1>0, <2>1, <4>2 DEF CodeInv
    <3> QED BY <3>1, <3>2
  <2>3. \A f \in Editors : editor'[f].pc = "save" => editor'[f].code # code'
    BY <2>1 DEF CodeInv
  <2> QED BY <2>1, <2>2, <2>3 DEF CodeInv
<1>6. ASSUME NEW e \in Editors, ReadList(e) \/ ClearCode(e) \/ EditStops(e) PROVE CodeInv'
  <2>1. editor[e] \in EditorState
    BY <1>0
  <2>2. uses' = uses /\ issued' = issued
    BY <1>6 DEF ReadList, ClearCode, EditStops
  <2>3. \A f \in Editors : f # e => editor'[f] = editor[f]
    BY <1>0, <1>6 DEF ReadList, ClearCode, EditStops
  <2>4. CASE ReadList(e)
    <3>1. /\ code' = code /\ editor[e].pc = "app"
          /\ editor'[e].pc = "clear" /\ editor'[e].code = editor[e].code
      BY <1>0, <2>1, <2>4 DEF ReadList, EditorState
    <3> QED BY <1>2, <2>2, <2>3, <3>1
  <2>5. CASE ClearCode(e)
    <3>1. /\ code' = 0 /\ editor[e].pc = "clear"
          /\ editor'[e].pc = "save" /\ editor'[e].code = editor[e].code
      BY <1>0, <2>1, <2>5 DEF ClearCode, EditorState
    <3> QED BY <1>2, <2>2, <2>3, <3>1
  <2>6. CASE EditStops(e)
    <3>1. code' = code /\ editor'[e].pc = "idle"
      BY <1>0, <2>6 DEF EditStops, IdleEditor
    <3> QED BY <1>2, <2>2, <2>3, <3>1
  <2> QED BY <1>6, <2>4, <2>5, <2>6
<1>7. ASSUME NEW e \in Editors, SaveAddition(e) \/ SaveRemoval(e) PROVE CodeInv'
  <2> DEFINE c == editor[e].code
  <2>1. /\ editor[e].pc = "save" /\ c \in 1..issued /\ c \in 1..MaxCodes
        /\ uses' = [uses EXCEPT ![c] = @ + 1]
        /\ issued' = issued /\ code' = code
        /\ \A f \in Editors : f # e => editor'[f] = editor[f]
        /\ editor'[e].pc = "idle"
    BY <1>0, <1>7 DEF SaveAddition, SaveRemoval, Acknowledged, IdleEditor, EditorInv
  <2>2. ASSUME NEW k \in 1..MaxCodes
        PROVE  uses'[k] + Cardinality(Holding(k)') <= Cardinality(Editors)
    <3>0. /\ Cardinality(Holding(k)) \in Nat /\ Cardinality(Editors) \in Nat
          /\ Cardinality(Holding(k)') \in Nat
      BY <1>1, EditorsFinite
    <3>1. CASE k = c
      <4>1. e \in Holding(k) /\ Holding(k)' \in SUBSET (Holding(k) \ {e})
        BY <2>1, <3>1 DEF Holding
      <4>2. Cardinality(Holding(k)') <= Cardinality(Holding(k)) - 1
        BY <1>1, <4>1, EditorsFinite
      <4>3. uses'[k] = uses[k] + 1
        BY <1>0, <2>1, <3>1
      <4> QED BY <1>0, <3>0, <4>2, <4>3 DEF CodeInv
    <3>2. CASE k # c
      <4>1. Holding(k)' \in SUBSET Holding(k)
        BY <2>1 DEF Holding
      <4>2. Cardinality(Holding(k)') <= Cardinality(Holding(k))
        BY <1>1, <4>1, EditorsFinite
      <4>3. uses'[k] = uses[k]
        BY <1>0, <2>1, <3>2
      <4> QED BY <1>0, <3>0, <4>2, <4>3 DEF CodeInv
    <3> QED BY <3>1, <3>2
  <2>3. \A k \in 1..MaxCodes : k > issued' => uses'[k] = 0
    BY <1>0, <2>1 DEF CodeInv
  <2>4. code' # 0 => /\ uses'[code'] = 0
                     /\ \A f \in Editors : editor'[f].pc = "save" => editor'[f].code # code'
    BY <1>0, <2>1 DEF CodeInv
  <2> QED BY <2>2, <2>3, <2>4 DEF CodeInv
<1> QED
  BY <1>3, <1>4, <1>5, <1>6, <1>7 DEF WhitelistNext

LEMMA DuplicateStep ==
  WhitelistTyped /\ ListInv /\ DuplicateInv /\ [WhitelistNext]_whitelistVars => DuplicateInv'
<1> SUFFICES ASSUME WhitelistTyped, ListInv, DuplicateInv, [WhitelistNext]_whitelistVars,
                    NEW w \in Entries \ NoNetwork
             PROVE  listed'[w] = 0
                      \/ listed'[w] + Cardinality(Adding(w)') <= Cardinality(Editors)
  BY DEF DuplicateInv
<1> DEFINE Goal == listed'[w] = 0
                     \/ listed'[w] + Cardinality(Adding(w)') <= Cardinality(Editors)
<1>0. /\ listed \in [Entries -> Nat]
      /\ editor \in [Editors -> EditorState]
      /\ Adding(w) \in SUBSET Editors /\ Adding(w)' \in SUBSET Editors
      /\ Cardinality(Adding(w)) \in Nat /\ Cardinality(Adding(w)') \in Nat
      /\ Cardinality(Editors) \in Nat
      /\ Cardinality(Adding(w)) <= Cardinality(Editors)
  <2>1. Adding(w) \in SUBSET Editors /\ Adding(w)' \in SUBSET Editors
    BY DEF Adding
  <2> QED BY <2>1, EditorsFinite DEF WhitelistTyped, WhitelistTypeOK
\* A step that adds nothing, and lets nobody join who has seen the entry.
<1>1. ASSUME listed'[w] = listed[w] \/ listed'[w] = 0,
             \A e \in Editors : e \in Adding(w)' => e \in Adding(w) \/ listed[w] = 0
      PROVE  Goal
  <2>1. CASE listed[w] = 0
    BY <1>1, <2>1
  <2>2. CASE listed[w] # 0
    <3>1. Adding(w)' \in SUBSET Adding(w)
      BY <1>1, <2>2 DEF Adding
    <3>2. Cardinality(Adding(w)') <= Cardinality(Adding(w))
      BY <1>0, <3>1, EditorsFinite
    <3> QED BY <1>0, <1>1, <2>2, <3>2 DEF DuplicateInv
  <2> QED BY <2>1, <2>2
<1>2. CASE RequestCode \/ CodeExpires \/ UNCHANGED whitelistVars
  <2>1. UNCHANGED <<listed, editor>>
    BY <1>2 DEF RequestCode, CodeExpires, whitelistVars
  <2> QED BY <1>1, <2>1 DEF Adding
<1>3. ASSUME NEW e \in Editors, NEW kind \in {"add", "remove"}, NEW v \in Entries,
             ReadMerchant(e, kind, v)
      PROVE  Goal
  <2>1. /\ listed' = listed /\ editor'[e].pc = "app"
        /\ \A f \in Editors : f # e => editor'[f] = editor[f]
    BY <1>0, <1>3 DEF ReadMerchant, IdleEditor
  <2> QED BY <1>1, <2>1 DEF Adding
<1>4. ASSUME NEW e \in Editors, ReadList(e) PROVE Goal
  <2>1. /\ listed' = listed /\ editor'[e].copy = listed
        /\ \A f \in Editors : f # e => editor'[f] = editor[f]
    BY <1>0, <1>4 DEF ReadList, EditorState
  <2> QED BY <1>1, <2>1 DEF Adding
<1>5. ASSUME NEW e \in Editors, ClearCode(e) PROVE Goal
  <2>1. /\ listed' = listed /\ editor[e].pc = "clear"
        /\ editor'[e] = [editor[e] EXCEPT !.pc = "save"]
        /\ \A f \in Editors : f # e => editor'[f] = editor[f]
    BY <1>0, <1>5 DEF ClearCode
  <2>2. /\ editor'[e].kind = editor[e].kind /\ editor'[e].entry = editor[e].entry
        /\ editor'[e].copy = editor[e].copy
    BY <1>0, <2>1 DEF EditorState
  <2> QED BY <1>1, <2>1, <2>2 DEF Adding
<1>6. ASSUME NEW e \in Editors, EditStops(e) PROVE Goal
  <2>1. /\ listed' = listed /\ editor'[e].pc = "idle"
        /\ \A f \in Editors : f # e => editor'[f] = editor[f]
    BY <1>0, <1>6 DEF EditStops, IdleEditor
  <2> QED BY <1>1, <2>1 DEF Adding
<1>7. ASSUME NEW e \in Editors, SaveAddition(e) PROVE Goal
  <2>1. /\ editor[e].pc = "save" /\ editor[e].kind = "add" /\ ~Exists(e)
        /\ listed' = [listed EXCEPT ![Entry(e)] = @ + 1]
        /\ editor'[e].pc = "idle"
        /\ \A f \in Editors : f # e => editor'[f] = editor[f]
    BY <1>0, <1>7 DEF SaveAddition, Acknowledged, IdleEditor
  <2>2. Entry(e) \in Entries /\ editor[e].entry = {Entry(e)}
    BY <2>1, EntryType
  <2>3. CASE Entry(e) = w
    <3>1. editor[e].copy[w] = 0
      BY <1>0, <2>1, <2>3 DEF Exists, EditorState
    <3>2. e \in Adding(w) /\ Adding(w)' \in SUBSET (Adding(w) \ {e})
      BY <2>1, <2>2, <2>3, <3>1 DEF Adding
    <3>3. Cardinality(Adding(w)') <= Cardinality(Adding(w)) - 1
      BY <1>0, <3>2, EditorsFinite
    <3>4. listed'[w] = listed[w] + 1
      BY <1>0, <2>1, <2>3
    <3> QED BY <1>0, <3>3, <3>4 DEF DuplicateInv
  <2>4. CASE Entry(e) # w
    <3>1. listed'[w] = listed[w]
      BY <1>0, <2>1, <2>4
    <3> QED BY <1>1, <2>1, <3>1 DEF Adding
  <2> QED BY <2>3, <2>4
<1>8. ASSUME NEW e \in Editors, SaveRemoval(e) PROVE Goal
  <2>1. /\ editor'[e].pc = "idle"
        /\ \A f \in Editors : f # e => editor'[f] = editor[f]
    BY <1>0, <1>8 DEF SaveRemoval, Acknowledged, IdleEditor
  <2>2. editor[e].copy = listed
    BY <1>8 DEF SaveRemoval, Current, ListInv, VersionInv
  <2>3. listed'[w] = listed[w] \/ listed'[w] = 0
    BY <1>8, <2>2 DEF SaveRemoval
  <2> QED BY <1>1, <2>1, <2>3 DEF Adding
<1> QED
  BY <1>2, <1>3, <1>4, <1>5, <1>6, <1>7, <1>8 DEF WhitelistNext

\* For any number of calls and passwords: acknowledged changes stay, a password
\* buys at most one change per call that can overlap, and an entry is listed at
\* most once per call that can overlap.
THEOREM WhitelistAlwaysHolds == WhitelistSpec => []WhitelistHolds
<1> DEFINE Inv == WhitelistTyped /\ ListInv /\ CodeInv /\ DuplicateInv
<1>1. WhitelistInit => Inv
  <2> SUFFICES ASSUME WhitelistInit PROVE Inv
    OBVIOUS
  <2>1. WhitelistTyped
    BY WhitelistAssumption, IdleEditorType
       DEF WhitelistInit, WhitelistTyped, WhitelistTypeOK, EditorInv, EditorState
  <2>2. ListInv
    BY DEF WhitelistInit, ListInv, VersionInv, AcknowledgedStays, IdleEditor
  <2>3. \A k : Holding(k) = {}
    BY DEF WhitelistInit, Holding, IdleEditor
  <2>4. CodeInv
    <3>1. Cardinality({}) = 0 /\ Cardinality(Editors) \in Nat
      BY WhitelistAssumption, FS_EmptySet, FS_CardinalityType
    <3>2. code = 0 /\ issued = 0 /\ \A k \in 1..MaxCodes : uses[k] = 0
      BY DEF WhitelistInit
    <3>3. ASSUME NEW k \in 1..MaxCodes
          PROVE  uses[k] + Cardinality(Holding(k)) <= Cardinality(Editors)
      <4>1. Cardinality(Holding(k)) = 0
        BY <2>3, <3>1
      <4> QED BY <3>1, <3>2, <3>3, <4>1
    <3> QED BY <3>2, <3>3 DEF CodeInv
  <2>5. DuplicateInv
    BY DEF WhitelistInit, DuplicateInv
  <2> QED BY <2>1, <2>2, <2>4, <2>5
<1>2. Inv /\ [WhitelistNext]_whitelistVars => Inv'
  BY WhitelistTypedStep, ListStep, CodeStep, DuplicateStep
<1>3. Inv => WhitelistHolds
  <2> SUFFICES ASSUME Inv PROVE CodesAreSpent /\ FewDuplicates
    BY DEF WhitelistHolds, ListInv
  <2>1. CodesAreSpent
    <3> SUFFICES ASSUME NEW k \in 1..MaxCodes PROVE uses[k] <= Cardinality(Editors)
      BY DEF CodesAreSpent
    <3>1. uses[k] \in Nat
      BY DEF WhitelistTyped, WhitelistTypeOK
    <3>2. Cardinality(Holding(k)) \in Nat /\ Cardinality(Editors) \in Nat
      BY EditorsFinite DEF Holding
    <3> QED BY <3>1, <3>2 DEF CodeInv
  <2>2. FewDuplicates
    <3> SUFFICES ASSUME NEW w \in Entries \ NoNetwork PROVE listed[w] <= Cardinality(Editors)
      BY DEF FewDuplicates
    <3>1. listed[w] \in Nat
      BY DEF WhitelistTyped, WhitelistTypeOK
    <3>2. Cardinality(Adding(w)) \in Nat /\ Cardinality(Editors) \in Nat
      BY EditorsFinite DEF Adding
    <3> QED BY <3>1, <3>2 DEF DuplicateInv
  <2> QED BY <2>1, <2>2
<1> QED BY <1>1, <1>2, <1>3, PTL DEF WhitelistSpec

-----------------------------------------------------------------------------
(* Reclaim: types.                                                         *)

Sweeping == {"readTokens", "tokens", "sendToken", "sendNative", "mark"}

\* A tick that is sending a token is sending one.
CoinInHand(c) == IF c.pc = "sendToken" THEN \E t \in Tokens : c.coin = {t} ELSE c.coin = {}

\* A tick works on one link at a time, which it has taken from its list.
CollectorsInOrder ==
  \A m \in Collectors :
    /\ collector[m].pc = "idle" => collector[m].queue = {}
    /\ collector[m].pc \in {"idle", "next"} => collector[m].link = {}
    /\ collector[m].pc \in Sweeping =>
         \E l \in Settled : collector[m].link = {l} /\ l \notin collector[m].queue
    /\ CoinInHand(collector[m])

ReclaimTyped == ReclaimTypeOK /\ CollectorsInOrder

LEMMA IdleCollectorType == IdleCollector \in CollectorState
BY DEF IdleCollector, CollectorState

LEMMA WorkIsLink ==
  ASSUME NEW m, NEW l, collector[m].link = {l}
  PROVE  Work(m) = l
BY DEF Work

LEMMA CoinIsToken ==
  ASSUME NEW m, NEW t, collector[m].coin = {t}
  PROVE  Coin(m) = t
BY DEF Coin

LEMMA ReclaimTypedInit == ReclaimInit => ReclaimTyped
BY IdleCollectorType, ReclaimAssumption
   DEF ReclaimInit, ReclaimTyped, ReclaimTypeOK, CollectorsInOrder, CoinInHand, IdleCollector, Sweeping

-----------------------------------------------------------------------------
(* Reclaim: the steps again, with what each of them leaves in the          *)
(* variables that the invariants speak of.                                 *)

linkDocuments == <<reclaimed, retries, crowded>>

\* Tick m goes to p, where it works on the links in k.
Stands(m, p, k) ==
  /\ collector' \in [Collectors -> CollectorState]
  /\ collector'[m].pc = p /\ collector'[m].link = k /\ CoinInHand(collector'[m])
  /\ \A n \in Collectors : n # m => collector'[n] = collector[n]

KeepsList(m) ==
  collector'[m].queue = collector[m].queue /\ collector'[m].seen = collector[m].seen

\* l is taken from the list of tick m.
Takes(m, l) ==
  /\ collector[m].pc = "next" /\ l \in collector[m].queue
  /\ collector'[m].queue = collector[m].queue \ {l}
  /\ \A k \in Settled : k # l => collector'[m].seen[k] = collector[m].seen[k]

WaitMove ==
  UNCHANGED <<linkDocuments, gas, funded, collector, unseen>>
    /\ \/ UNCHANGED <<tokens, late>>
       \/ \E l \in Settled : /\ late' = late \cup {l} /\ tokens' \in [Settled -> [Tokens -> Nat]]
                             /\ \A k \in Settled : k # l => tokens'[k] = tokens[k]

SelectMove(m) ==
  /\ UNCHANGED <<reclaimed, retries, walletState, late, unseen>>
  /\ Stands(m, "next", {})
  /\ \A l \in collector'[m].queue : ~reclaimed[l] /\ collector'[m].seen[l] = retries[l]
  /\ crowded' = crowded \cup (collector'[m].queue \cap HeldByOthers(m))

EndMove(m) ==
  /\ UNCHANGED <<linkDocuments, walletState, late, unseen>>
  /\ Stands(m, "idle", {}) /\ collector'[m].queue = {}

SkipMove(m, l) ==
  /\ UNCHANGED <<linkDocuments, walletState, late, unseen>>
  /\ Takes(m, l) /\ Stands(m, "next", {})

GiveUpMove(m, l) ==
  /\ UNCHANGED <<walletState, crowded, late, unseen>>
  /\ Takes(m, l) /\ Stands(m, "next", {})
  /\ Spent(m, l)
  /\ reclaimed' = [reclaimed EXCEPT ![l] = TRUE]
  /\ retries' = [retries EXCEPT ![l] = collector[m].seen[l] + 1]

AttemptMove(m, l) ==
  /\ UNCHANGED <<reclaimed, crowded, walletState, late, unseen>>
  /\ Takes(m, l) /\ Stands(m, IF l \in Keyless THEN "mark" ELSE "readTokens", {l})
  /\ ~Spent(m, l)
  /\ retries' = [retries EXCEPT ![l] = @ + 1]

\* The link in hand is left, for one reason or another.
LeaveMove(m, l) ==
  /\ Stands(m, "next", {}) /\ KeepsList(m)
  /\ UNCHANGED <<retries, crowded, tokens, funded, late, unseen>>
  /\ \/ UNCHANGED <<gas, reclaimed>>
     \/ /\ UNCHANGED reclaimed /\ gas' \in [Settled -> 0..2]
        /\ \A k \in Settled : k # l => gas'[k] = gas[k]
     \/ /\ UNCHANGED gas /\ collector[m].pc = "mark"
        /\ reclaimed' = [reclaimed EXCEPT ![l] = TRUE]

\* A listing that is complete misses nothing worth sweeping, if it does not fail.
ReadTokensMove(m, l) ==
  /\ UNCHANGED <<linkDocuments, walletState, late>>
  /\ collector[m].pc = "readTokens" /\ KeepsList(m) /\ Stands(m, "tokens", {l})
  /\ \/ unseen' = unseen \cup {l}
     \/ /\ UNCHANGED unseen
        /\ \A t \in LooksFor(l) :
             \/ collector'[m].listed[t] = tokens[l][t]
             \/ collector'[m].listed[t] = 0 /\ (collector'[m].ok => tokens[l][t] <= Small)

\* Tick m is done with token t of its listing.
Strikes(m, t) ==
  /\ KeepsList(m) /\ collector'[m].listed = [collector[m].listed EXCEPT ![t] = 0]
  /\ collector'[m].ok => collector[m].ok

\* Gas is sent for token t, or it is not.
FundMove(m, l, t) ==
  /\ UNCHANGED <<linkDocuments, tokens, late, unseen>>
  /\ collector[m].pc = "tokens" /\ collector[m].listed[t] > 0 /\ Strikes(m, t)
  /\ UNCHANGED <<gas, funded>> \/ SendGas(l, t)
  /\ \/ /\ Stands(m, "sendToken", {l})
        /\ collector'[m].coin = {t} /\ collector'[m].amount = collector[m].listed[t]
     \/ Stands(m, "tokens", {l}) /\ (collector'[m].ok => collector[m].listed[t] <= Small)

\* Token t is sent, or it is not.
SendTokenMove(m, l, t) ==
  /\ UNCHANGED <<linkDocuments, funded, late>>
  /\ collector[m].pc = "sendToken" /\ collector[m].coin = {t} /\ Strikes(m, t)
  /\ Stands(m, "tokens", {l})
  /\ \/ /\ UNCHANGED unseen
        /\ tokens' = [tokens EXCEPT ![l] = [tokens[l] EXCEPT ![t] =
                        IF tokens[l][t] >= collector[m].amount /\ gas[l] = 2
                          THEN @ - collector[m].amount ELSE @]]
        /\ gas' \in [Settled -> 0..2]
        /\ \A k \in Settled : k # l => gas'[k] = gas[k]
        /\ collector'[m].ok => tokens[l][t] >= collector[m].amount /\ gas[l] = 2
     \/ UNCHANGED <<tokens, gas, unseen>> /\ ~collector'[m].ok
     \/ UNCHANGED <<tokens, gas>> /\ unseen' = unseen \cup {l}

ReadNativeMove(m, l) ==
  /\ UNCHANGED <<linkDocuments, walletState, late, unseen>>
  /\ TokensDone(m) /\ KeepsList(m)
  /\ \/ gas[l] = 0 /\ collector[m].ok /\ Stands(m, "mark", {l})
     \/ Stands(m, "sendNative", {l}) /\ collector'[m].amount = gas[l] /\ collector'[m].ok = collector[m].ok

SendNativeMove(m, l) ==
  /\ UNCHANGED <<linkDocuments, tokens, funded, late, unseen>>
  /\ collector[m].pc = "sendNative" /\ KeepsList(m) /\ Stands(m, "mark", {l})
  /\ collector[m].ok /\ gas[l] >= collector[m].amount
  /\ gas' = [gas EXCEPT ![l] = @ - collector[m].amount]

WorkMove(m, l) ==
  /\ collector[m].link = {l} /\ collector[m].pc \in Sweeping
  /\ \/ LeaveMove(m, l) \/ ReadTokensMove(m, l)
     \/ \E t \in Tokens : FundMove(m, l, t) \/ SendTokenMove(m, l, t)
     \/ ReadNativeMove(m, l) \/ SendNativeMove(m, l)

ReclaimMove ==
  \/ WaitMove
  \/ \E m \in Collectors : SelectMove(m) \/ EndMove(m)
  \/ \E m \in Collectors, l \in Settled :
       SkipMove(m, l) \/ GiveUpMove(m, l) \/ AttemptMove(m, l) \/ WorkMove(m, l)

\* What a tick becomes is a state of a tick.
LEMMA BecomesEffect ==
  ASSUME ReclaimTyped, NEW m \in Collectors, NEW c \in CollectorState, Becomes(m, c),
         CoinInHand(c)
  PROVE  collector'[m] = c /\ Stands(m, c.pc, c.link)
BY DEF ReclaimTyped, ReclaimTypeOK, Becomes, Stands

LEMMA StageEffect ==
  ASSUME ReclaimTyped, NEW m \in Collectors,
         NEW p \in {"idle", "next"} \cup Sweeping
  PROVE  /\ Stage(m, p) \in CollectorState
         /\ Stage(m, p).pc = p /\ Stage(m, p).link = collector[m].link
         /\ Stage(m, p).queue = collector[m].queue /\ Stage(m, p).seen = collector[m].seen
         /\ Stage(m, p).listed = collector[m].listed /\ Stage(m, p).coin = collector[m].coin
         /\ Stage(m, p).amount = collector[m].amount /\ Stage(m, p).ok = collector[m].ok
BY DEF ReclaimTyped, ReclaimTypeOK, Stage, CollectorState, Sweeping

\* Nothing is being sent.
LEMMA NoCoin ==
  ASSUME ReclaimTyped, NEW m \in Collectors, collector[m].pc # "sendToken"
  PROVE  collector[m].coin = {}
BY DEF ReclaimTyped, CollectorsInOrder, CoinInHand

LEMMA ClosingEffect ==
  ASSUME ReclaimTyped, NEW m \in Collectors, NEW b \in BOOLEAN, Becomes(m, Closing(m, b)),
         collector[m].pc # "sendToken"
  PROVE  /\ KeepsList(m)
         /\ b => Stands(m, "mark", collector[m].link)
         /\ ~b => Stands(m, "next", {})
<1>1. Closing(m, b) \in CollectorState
  BY DEF Closing, ReclaimTyped, ReclaimTypeOK, Stage, CollectorState
<1>2. /\ Closing(m, b).pc = (IF b THEN "mark" ELSE "next") /\ Closing(m, b).coin = {}
      /\ Closing(m, b).link = (IF b THEN collector[m].link ELSE {})
      /\ Closing(m, b).queue = collector[m].queue /\ Closing(m, b).seen = collector[m].seen
  BY NoCoin DEF Closing, ReclaimTyped, ReclaimTypeOK, Stage, CollectorState
<1> QED BY <1>1, <1>2, BecomesEffect DEF KeepsList, CoinInHand

LEMMA DequeuedEffect ==
  ASSUME ReclaimTyped, NEW m \in Collectors, NEW l \in Settled
  PROVE  /\ Dequeued(m, l) \in CollectorState
         /\ Dequeued(m, l).pc = collector[m].pc /\ Dequeued(m, l).link = collector[m].link
         /\ Dequeued(m, l).coin = collector[m].coin
         /\ Dequeued(m, l).queue = collector[m].queue \ {l}
         /\ \A k \in Settled : k # l => Dequeued(m, l).seen[k] = collector[m].seen[k]
BY DEF Dequeued, ReclaimTyped, ReclaimTypeOK, CollectorState

\* The native part, with the amount n; done with a token, with the outcome b.
LEMMA StageAmount ==
  ASSUME ReclaimTyped, NEW m \in Collectors, collector[m].pc # "sendToken",
         NEW n \in Nat, Becomes(m, [Stage(m, "sendNative") EXCEPT !.amount = n])
  PROVE  /\ Stands(m, "sendNative", collector[m].link) /\ KeepsList(m)
         /\ collector'[m].amount = n /\ collector'[m].ok = collector[m].ok
<1> DEFINE s == Stage(m, "sendNative")
           c == [s EXCEPT !.amount = n]
<1>1. /\ s \in CollectorState /\ s.pc = "sendNative" /\ s.link = collector[m].link
      /\ s.queue = collector[m].queue /\ s.seen = collector[m].seen /\ s.ok = collector[m].ok
      /\ s.coin = {}
  BY StageEffect, NoCoin DEF Sweeping
<1>2. Becomes(m, c)
  OBVIOUS
<1> HIDE DEF s
<1>3. /\ c \in CollectorState /\ c.pc = "sendNative" /\ c.link = s.link /\ c.coin = s.coin
      /\ c.queue = s.queue /\ c.seen = s.seen /\ c.amount = n /\ c.ok = s.ok
  BY <1>1 DEF CollectorState
<1> HIDE DEF c
<1> QED BY <1>1, <1>2, <1>3, BecomesEffect DEF KeepsList, CoinInHand

LEMMA DoneEffect ==
  ASSUME ReclaimTyped, NEW m \in Collectors, NEW t \in Tokens,
         NEW b \in BOOLEAN, Becomes(m, Done(m, t, b))
  PROVE  /\ Stands(m, "tokens", collector[m].link) /\ Strikes(m, t)
         /\ collector'[m].ok = (collector[m].ok /\ b)
<1> DEFINE s == Stage(m, "tokens")
           c == [s EXCEPT !.listed[t] = 0, !.coin = {}, !.ok = @ /\ b]
<1>1. /\ s \in CollectorState /\ s.pc = "tokens" /\ s.link = collector[m].link
      /\ s.queue = collector[m].queue /\ s.seen = collector[m].seen
      /\ s.listed = collector[m].listed /\ s.ok = collector[m].ok
  BY StageEffect DEF Sweeping
<1>2. Becomes(m, c)
  BY DEF Done
<1> HIDE DEF s
<1>3. /\ c \in CollectorState /\ c.pc = "tokens" /\ c.link = s.link /\ c.coin = {}
      /\ c.queue = s.queue /\ c.seen = s.seen /\ c.listed = [s.listed EXCEPT ![t] = 0]
      /\ c.ok = (s.ok /\ b)
  BY <1>1 DEF CollectorState
<1> HIDE DEF c
<1> QED BY <1>1, <1>2, <1>3, BecomesEffect DEF KeepsList, CoinInHand, Strikes

\* A tick that works on a link works on one.
LEMMA InHand ==
  ASSUME ReclaimTyped, NEW m \in Collectors, collector[m].pc \in Sweeping
  PROVE  \E l \in Settled : /\ collector[m].link = {l} /\ Work(m) = l
                            /\ l \notin collector[m].queue
BY WorkIsLink DEF ReclaimTyped, CollectorsInOrder

\* What the steps of a tick between two links do.
LEMMA ListMoves ==
  ASSUME ReclaimTyped, NEW m \in Collectors
  PROVE  /\ Select(m) => SelectMove(m)
         /\ TickIsOver(m) \/ CollectorCrashes(m) => EndMove(m)
         /\ \A l \in Settled : GiveUp(m, l) => GiveUpMove(m, l)
         /\ \A l \in Settled : Attempt(m, l) => AttemptMove(m, l)
<1> USE DEF linkDocuments
<1>1. ASSUME Select(m) PROVE SelectMove(m)
  <2>1. PICK q \in SUBSET Ready :
          /\ Becomes(m, [IdleCollector EXCEPT
               !.pc = "next", !.queue = q,
               !.seen = [l \in Settled |-> IF l \in q THEN retries[l] ELSE 0]])
          /\ crowded' = crowded \cup (q \cap HeldByOthers(m))
    BY <1>1 DEF Select
  <2> DEFINE c == [IdleCollector EXCEPT
               !.pc = "next", !.queue = q,
               !.seen = [l \in Settled |-> IF l \in q THEN retries[l] ELSE 0]]
  <2>2. retries \in [Settled -> Nat] /\ paidOut \subseteq Settled
    BY ReclaimAssumption DEF ReclaimTyped, ReclaimTypeOK
  <2>3. /\ c \in CollectorState /\ c.pc = "next" /\ c.link = {} /\ c.queue = q /\ c.coin = {}
        /\ \A l \in q : c.seen[l] = retries[l]
    BY <2>2 DEF IdleCollector, CollectorState, Ready
  <2> HIDE DEF c
  <2>4. collector'[m] = c /\ Stands(m, "next", {})
    <3>1. Becomes(m, c)
      BY <2>1 DEF c
    <3> QED BY <2>3, <3>1, BecomesEffect DEF CoinInHand
  <2> QED BY <1>1, <2>1, <2>3, <2>4 DEF Select, SelectMove, Ready
<1>2. ASSUME TickIsOver(m) \/ CollectorCrashes(m) PROVE EndMove(m)
  <2>1. collector'[m] = IdleCollector /\ Stands(m, "idle", {})
    <3>1. IdleCollector.pc = "idle" /\ IdleCollector.link = {} /\ CoinInHand(IdleCollector)
      BY DEF IdleCollector, CoinInHand
    <3> QED BY <1>2, <3>1, BecomesEffect, IdleCollectorType DEF TickIsOver, CollectorCrashes
  <2> QED BY <1>2, <2>1 DEF TickIsOver, CollectorCrashes, EndMove, IdleCollector
<1>3. ASSUME NEW l \in Settled, GiveUp(m, l) PROVE GiveUpMove(m, l)
  <2>1. /\ collector'[m] = Dequeued(m, l)
        /\ Stands(m, collector[m].pc, collector[m].link)
    <3>1. CoinInHand(Dequeued(m, l))
      BY <1>3, DequeuedEffect, NoCoin DEF GiveUp, CoinInHand
    <3> QED BY <1>3, <3>1, DequeuedEffect, BecomesEffect DEF GiveUp
  <2>2. collector[m].link = {}
    BY <1>3 DEF GiveUp, ReclaimTyped, CollectorsInOrder
  <2> QED BY <1>3, <2>1, <2>2, DequeuedEffect DEF GiveUp, GiveUpMove, Takes
<1>4. ASSUME NEW l \in Settled, Attempt(m, l) PROVE AttemptMove(m, l)
  <2> DEFINE p == IF l \in Keyless THEN "mark" ELSE "readTokens"
             d == Dequeued(m, l)
             c == [d EXCEPT !.pc = p, !.link = {l}]
  <2>1. /\ d \in CollectorState /\ d.queue = collector[m].queue \ {l} /\ d.coin = {}
        /\ \A k \in Settled : k # l => d.seen[k] = collector[m].seen[k]
    BY <1>4, DequeuedEffect, NoCoin DEF Attempt
  <2> HIDE DEF d
  <2>2. /\ c \in CollectorState /\ c.pc = p /\ c.link = {l} /\ CoinInHand(c)
        /\ c.queue = d.queue /\ c.seen = d.seen
    BY <2>1 DEF CollectorState, CoinInHand
  <2> HIDE DEF c, p
  <2>3. collector'[m] = c /\ Stands(m, p, {l})
    BY <1>4, <2>2, BecomesEffect DEF Attempt, c, p, d
  <2> QED BY <1>4, <2>1, <2>2, <2>3 DEF Attempt, AttemptMove, Takes, p
<1> QED BY <1>1, <1>2, <1>3, <1>4

\* What the steps of a tick on link l do, one after the other.
LEMMA ReadMoves ==
  ASSUME ReclaimTyped, NEW m \in Collectors, NEW l \in Settled,
         collector[m].link = {l}, ReadTokens(m)
  PROVE  ReadTokensMove(m, l)
<1>1. Work(m) = l
  BY WorkIsLink
<1>2. tokens[l] \in [Tokens -> Nat]
  BY DEF ReclaimTyped, ReclaimTypeOK
<1>3. PICK q \in ListingsOf(l),
           dear \in SUBSET {t \in Holds(l) : tokens[l][t] <= Small /\ l \notin OnTron} :
        /\ Becomes(m, [Stage(m, "tokens") EXCEPT
             !.listed = [t \in Tokens |->
               IF t \in q \ dear /\ tokens[l][t] > Dust THEN tokens[l][t] ELSE 0]])
        /\ unseen' = IF q = Holds(l) THEN unseen ELSE unseen \cup {l}
  BY <1>1 DEF ReadTokens
<1> DEFINE f == [t \in Tokens |-> IF t \in q \ dear /\ tokens[l][t] > Dust THEN tokens[l][t] ELSE 0]
           s == Stage(m, "tokens")
           c == [s EXCEPT !.listed = f]
<1>4. /\ s \in CollectorState /\ s.pc = "tokens" /\ s.link = {l} /\ s.coin = {}
      /\ s.queue = collector[m].queue /\ s.seen = collector[m].seen
  BY StageEffect, NoCoin DEF Sweeping, ReadTokens
<1>5. f \in [Tokens -> Nat]
  BY <1>2
<1>6. Becomes(m, c)
  BY <1>3
<1>7. ASSUME q = Holds(l), NEW t \in LooksFor(l)
      PROVE  f[t] = tokens[l][t] \/ (f[t] = 0 /\ tokens[l][t] <= Small)
  <2>1. t \in Tokens
    BY ReclaimAssumption DEF LooksFor
  <2> QED BY <1>2, <1>7, <2>1 DEF Holds, Dust, Small
<1> HIDE DEF s, f
<1>8. /\ c \in CollectorState /\ c.pc = "tokens" /\ c.link = s.link /\ c.coin = s.coin
      /\ c.queue = s.queue /\ c.seen = s.seen /\ c.listed = f
  BY <1>4, <1>5 DEF CollectorState
<1> HIDE DEF c
<1>9. Stands(m, "tokens", {l}) /\ KeepsList(m) /\ collector'[m].listed = f
  <2>1. CoinInHand(c)
    BY <1>4, <1>8 DEF CoinInHand
  <2>2. collector'[m] = c /\ Stands(m, c.pc, c.link)
    BY <1>6, <1>8, <2>1, BecomesEffect
  <2> QED BY <1>4, <1>8, <2>2 DEF KeepsList
<1>10. UNCHANGED <<linkDocuments, walletState, late>> /\ collector[m].pc = "readTokens"
  BY DEF ReadTokens, linkDocuments
<1> QED BY <1>3, <1>7, <1>9, <1>10 DEF ReadTokensMove

LEMMA FundMoves ==
  ASSUME ReclaimTyped, NEW m \in Collectors, NEW l \in Settled, NEW t \in Tokens,
         collector[m].link = {l}, FundGas(m, t)
  PROVE  FundMove(m, l, t)
<1> DEFINE due == collector[m].listed[t]
<1>1. Work(m) = l
  BY WorkIsLink
<1>2. due \in Nat /\ due > 0 /\ collector[m].pc = "tokens" /\ collector[m].ok \in BOOLEAN
  BY DEF ReclaimTyped, ReclaimTypeOK, CollectorState, FundGas
<1>3. SendGas(l, t) /\ UNCHANGED <<linkDocuments, tokens, late, unseen>>
  BY <1>1 DEF FundGas, SendGas, linkDocuments
<1>4. CASE due <= Small /\ Becomes(m, Done(m, t, TRUE))
  BY <1>2, <1>3, <1>4, DoneEffect DEF FundMove
<1>5. CASE Becomes(m, [Stage(m, "sendToken") EXCEPT !.coin = {t}, !.amount = due, !.listed[t] = 0])
  <2> DEFINE s == Stage(m, "sendToken")
             c == [s EXCEPT !.coin = {t}, !.amount = due, !.listed[t] = 0]
  <2>1. /\ s \in CollectorState /\ s.pc = "sendToken" /\ s.link = {l}
        /\ s.queue = collector[m].queue /\ s.seen = collector[m].seen
        /\ s.listed = collector[m].listed /\ s.ok = collector[m].ok
    BY StageEffect DEF Sweeping
  <2>2. Becomes(m, c)
    BY <1>5
  <2> HIDE DEF s, due
  <2>3. /\ c \in CollectorState /\ c.pc = "sendToken" /\ c.link = s.link /\ c.coin = {t}
        /\ c.queue = s.queue /\ c.seen = s.seen /\ c.listed = [s.listed EXCEPT ![t] = 0]
        /\ c.amount = due /\ c.ok = s.ok
    BY <1>2, <2>1 DEF CollectorState
  <2> HIDE DEF c
  <2>4. /\ Stands(m, "sendToken", {l}) /\ Strikes(m, t) /\ collector'[m].coin = {t}
        /\ collector'[m].amount = due
    <3>1. CoinInHand(c)
      BY <2>1, <2>3 DEF CoinInHand
    <3>2. collector'[m] = c /\ Stands(m, c.pc, c.link)
      BY <2>2, <2>3, <3>1, BecomesEffect
    <3> QED BY <2>1, <2>3, <3>2 DEF KeepsList, Strikes
  <2> QED BY <1>2, <1>3, <2>4 DEF FundMove, due
<1> QED BY <1>1, <1>4, <1>5 DEF FundGas

\* The chain: what a transfer does, whether its answer arrives or not.
LEMMA TransferEffect ==
  ASSUME ReclaimTyped, NEW m \in Collectors, NEW l \in Settled, NEW t \in Tokens,
         collector[m].link = {l}, collector[m].coin = {t}, TokenTransfer(m)
  PROVE  /\ tokens' = [tokens EXCEPT ![l] = [tokens[l] EXCEPT ![t] =
                         IF tokens[l][t] >= collector[m].amount /\ gas[l] = 2
                           THEN @ - collector[m].amount ELSE @]]
         /\ gas' \in [Settled -> 0..2] /\ UNCHANGED funded
         /\ \A k \in Settled : k # l => gas'[k] = gas[k]
<1>1. Work(m) = l /\ Coin(m) = t
  BY WorkIsLink, CoinIsToken
<1>2. tokens \in [Settled -> [Tokens -> Nat]] /\ gas \in [Settled -> 0..2]
  BY DEF ReclaimTyped, ReclaimTypeOK
<1>3. UNCHANGED funded /\ gas' \in [Settled -> 0..2] /\ \A k \in Settled : k # l => gas'[k] = gas[k]
  BY <1>1, <1>2 DEF TokenTransfer
<1>4. CASE MovesTokens(m)
  <2>1. tokens' = [tokens EXCEPT ![l] = [tokens[l] EXCEPT ![t] = @ - collector[m].amount]]
    BY <1>1, <1>4 DEF TokenTransfer
  <2>2. tokens[l][t] >= collector[m].amount /\ gas[l] = 2
    BY <1>1, <1>4 DEF MovesTokens
  <2> QED BY <1>3, <2>1, <2>2
<1>5. CASE ~MovesTokens(m)
  <2>1. tokens' = tokens
    BY <1>5 DEF TokenTransfer
  <2>2. ~(tokens[l][t] >= collector[m].amount /\ gas[l] = 2)
    BY <1>1, <1>5 DEF MovesTokens
  <2>3. tokens = [tokens EXCEPT ![l] = [tokens[l] EXCEPT ![t] = @]]
    BY <1>2
  <2> QED BY <1>3, <2>1, <2>2, <2>3
<1> QED BY <1>4, <1>5

LEMMA SendMoves ==
  ASSUME ReclaimTyped, NEW m \in Collectors, NEW l \in Settled,
         collector[m].link = {l}, SendToken(m)
  PROVE  \E t \in Tokens : SendTokenMove(m, l, t)
<1>1. PICK t \in Tokens : collector[m].coin = {t}
  BY DEF SendToken, ReclaimTyped, CollectorsInOrder, CoinInHand
<1>2. Work(m) = l /\ Coin(m) = t
  BY <1>1, WorkIsLink, CoinIsToken
<1> DEFINE b == MovesTokens(m)
<1>3. b \in BOOLEAN /\ (b <=> tokens[l][t] >= collector[m].amount /\ gas[l] = 2)
  BY <1>2 DEF MovesTokens
<1>4. Becomes(m, Done(m, t, b)) /\ TokenTransfer(m)
  BY <1>2 DEF SendToken
<1>5. UNCHANGED <<linkDocuments, late, unseen>> /\ collector[m].pc = "sendToken"
  BY DEF SendToken, linkDocuments
<1> HIDE DEF b
<1>6. Stands(m, "tokens", {l}) /\ Strikes(m, t) /\ collector'[m].ok = (collector[m].ok /\ b)
  BY <1>3, <1>4, DoneEffect
<1> QED BY <1>1, <1>3, <1>4, <1>5, <1>6, TransferEffect DEF SendTokenMove

LEMMA NativeMoves ==
  ASSUME ReclaimTyped, NEW m \in Collectors, NEW l \in Settled,
         collector[m].link = {l}, collector[m].pc \in Sweeping
  PROVE  /\ ReadNative(m) => ReadNativeMove(m, l) \/ LeaveMove(m, l)
         /\ SendNative(m) => SendNativeMove(m, l) \/ LeaveMove(m, l)
         /\ MarkReclaimed(m) => LeaveMove(m, l)
<1>1. Work(m) = l
  BY WorkIsLink
<1>2. gas \in [Settled -> 0..2] /\ collector[m].amount \in Nat /\ collector[m].ok \in BOOLEAN
  BY DEF ReclaimTyped, ReclaimTypeOK, CollectorState
<1> USE DEF linkDocuments, Sweeping, walletState
<1>3. ASSUME ReadNative(m) PROVE ReadNativeMove(m, l) \/ LeaveMove(m, l)
  <2>1. /\ UNCHANGED <<linkDocuments, walletState, late, unseen>>
        /\ TokensDone(m) /\ collector[m].pc # "sendToken"
    BY <1>3 DEF ReadNative, TokensDone
  <2>2. CASE gas[l] = 0 /\ Becomes(m, Closing(m, collector[m].ok))
    BY <1>2, <2>1, <2>2, ClosingEffect DEF ReadNativeMove, LeaveMove
  <2>3. CASE Becomes(m, [Stage(m, "sendNative") EXCEPT !.amount = gas[l]])
    <3>1. gas[l] \in Nat
      BY <1>2
    <3>3. /\ Stands(m, "sendNative", {l}) /\ KeepsList(m) /\ collector'[m].amount = gas[l]
          /\ collector'[m].ok = collector[m].ok
      BY <2>1, <2>3, <3>1, StageAmount
    <3> QED BY <2>1, <3>3 DEF ReadNativeMove
  <2> QED BY <1>1, <1>3, <2>2, <2>3 DEF ReadNative
<1>4. ASSUME SendNative(m) PROVE SendNativeMove(m, l) \/ LeaveMove(m, l)
  <2> DEFINE b == collector[m].ok /\ gas[l] >= collector[m].amount
  <2>1. UNCHANGED <<linkDocuments, tokens, funded, late, unseen>> /\ collector[m].pc = "sendNative"
    BY <1>4 DEF SendNative
  <2>2. /\ gas' = [gas EXCEPT ![l] = IF @ >= collector[m].amount THEN @ - collector[m].amount ELSE @]
        /\ Becomes(m, Closing(m, b))
    BY <1>1, <1>4 DEF SendNative
  <2>3. /\ KeepsList(m) /\ b => Stands(m, "mark", {l})
        /\ ~b => Stands(m, "next", {})
        /\ KeepsList(m)
    BY <1>2, <2>1, <2>2, ClosingEffect
  <2>4. /\ gas' \in [Settled -> 0..2] /\ \A k \in Settled : k # l => gas'[k] = gas[k]
    BY <1>2, <2>2
  <2>5. CASE b
    BY <1>2, <2>1, <2>2, <2>3, <2>5 DEF SendNativeMove
  <2>6. CASE ~b
    <3> HIDE DEF b
    <3> QED BY <2>1, <2>3, <2>4, <2>6 DEF LeaveMove
  <2> QED BY <2>5, <2>6
<1>5. ASSUME MarkReclaimed(m) PROVE LeaveMove(m, l)
  <2>1. Stands(m, "next", {}) /\ KeepsList(m)
    BY <1>5, ClosingEffect DEF MarkReclaimed
  <2> QED BY <1>1, <1>5, <2>1 DEF MarkReclaimed, LeaveMove
<1> QED BY <1>3, <1>4, <1>5

LEMMA FailMoves ==
  ASSUME ReclaimTyped, NEW m \in Collectors, NEW l \in Settled,
         collector[m].link = {l}, collector[m].pc \in Sweeping, Fails(m)
  PROVE  WorkMove(m, l)
<1>1. Work(m) = l /\ collector[m].ok \in BOOLEAN /\ collector[m].listed \in [Tokens -> Nat]
  BY WorkIsLink DEF ReclaimTyped, ReclaimTypeOK, CollectorState
<1>2. UNCHANGED <<linkDocuments, walletState, late, unseen>> /\ collector[m].pc # "next"
  BY DEF Fails, linkDocuments, Sweeping
<1>3. CASE /\ collector[m].pc = "readTokens"
           /\ Becomes(m, [Stage(m, "tokens") EXCEPT !.listed = [t \in Tokens |-> 0], !.ok = FALSE])
  <2> DEFINE f == [t \in Tokens |-> 0]
             s == Stage(m, "tokens")
             c == [s EXCEPT !.listed = f, !.ok = FALSE]
  <2>1. /\ s \in CollectorState /\ s.pc = "tokens" /\ s.link = {l} /\ s.coin = {}
        /\ s.queue = collector[m].queue /\ s.seen = collector[m].seen
    BY <1>3, StageEffect, NoCoin DEF Sweeping
  <2>2. Becomes(m, c) /\ f \in [Tokens -> Nat] /\ \A t \in Tokens : f[t] = 0
    BY <1>3
  <2> HIDE DEF s, f
  <2>3. /\ c \in CollectorState /\ c.pc = "tokens" /\ c.link = s.link /\ c.coin = s.coin
        /\ c.queue = s.queue /\ c.seen = s.seen /\ c.listed = f /\ c.ok = FALSE
    BY <2>1, <2>2 DEF CollectorState
  <2> HIDE DEF c
  <2>4. /\ Stands(m, "tokens", {l}) /\ KeepsList(m) /\ collector'[m].listed = f
        /\ collector'[m].ok = FALSE
    BY <2>1, <2>2, <2>3, BecomesEffect DEF KeepsList, CoinInHand
  <2>5. LooksFor(l) \subseteq Tokens
    BY ReclaimAssumption DEF LooksFor
  <2>6. ReadTokensMove(m, l)
    BY <1>2, <1>3, <2>2, <2>4, <2>5 DEF ReadTokensMove
  <2> QED BY <2>6 DEF WorkMove
<1>4. CASE /\ collector[m].pc = "tokens"
           /\ \E t \in Tokens, ok \in BOOLEAN :
                /\ collector[m].listed[t] > 0
                /\ ok => Work(m) \in OnTron /\ collector[m].listed[t] <= Small
                /\ Becomes(m, Done(m, t, ok))
  <2>1. PICK t \in Tokens, b \in BOOLEAN :
          /\ collector[m].listed[t] > 0 /\ (b => collector[m].listed[t] <= Small)
          /\ Becomes(m, Done(m, t, b))
    BY <1>4
  <2>2. FundMove(m, l, t)
    BY <1>1, <1>2, <1>4, <2>1, DoneEffect DEF FundMove, walletState
  <2> QED BY <2>2 DEF WorkMove
<1>5. CASE collector[m].pc = "sendToken" /\ Becomes(m, Done(m, Coin(m), FALSE))
  <2>1. PICK t \in Tokens : collector[m].coin = {t} /\ Coin(m) = t
    BY <1>5, CoinIsToken DEF ReclaimTyped, CollectorsInOrder, CoinInHand
  <2>2. SendTokenMove(m, l, t)
    BY <1>1, <1>2, <1>5, <2>1, DoneEffect DEF SendTokenMove, walletState
  <2> QED BY <2>2 DEF WorkMove
<1>6. CASE /\ TokensDone(m) \/ collector[m].pc \in {"readTokens", "sendNative", "mark"}
           /\ Becomes(m, Closing(m, FALSE))
  <2>1. LeaveMove(m, l)
    BY <1>2, <1>6, ClosingEffect DEF LeaveMove, TokensDone, linkDocuments, walletState
  <2> QED BY <2>1 DEF WorkMove
<1> QED BY <1>2, <1>3, <1>4, <1>5, <1>6 DEF Fails

LEMMA LostMoves ==
  ASSUME ReclaimTyped, NEW m \in Collectors, NEW l \in Settled,
         collector[m].link = {l}, collector[m].pc \in Sweeping,
         SentButUnknown(m) \/ ReceiptTimesOut(m)
  PROVE  WorkMove(m, l)
<1>1. Work(m) = l /\ collector[m].ok \in BOOLEAN
  BY WorkIsLink DEF ReclaimTyped, ReclaimTypeOK, CollectorState
<1>2. UNCHANGED <<linkDocuments, late>>
  BY DEF SentButUnknown, ReceiptTimesOut, linkDocuments
<1>3. ASSUME collector[m].pc = "sendToken"
      PROVE  \E t \in Tokens : collector[m].coin = {t} /\ Coin(m) = t
  BY <1>3, CoinIsToken DEF ReclaimTyped, CollectorsInOrder, CoinInHand
<1>4. CASE SentButUnknown(m) /\ collector[m].pc = "tokens"
  <2>1. PICK t \in Tokens : /\ collector[m].listed[t] > 0 /\ SendGas(l, t)
                            /\ Becomes(m, Done(m, t, FALSE))
    BY <1>1, <1>4 DEF SentButUnknown
  <2>2. UNCHANGED <<tokens, unseen>>
    BY <1>4, <2>1 DEF SentButUnknown, SendGas
  <2>3. FundMove(m, l, t)
    BY <1>1, <1>2, <1>4, <2>1, <2>2, DoneEffect DEF FundMove
  <2> QED BY <2>3 DEF WorkMove
<1>5. CASE SentButUnknown(m) /\ collector[m].pc # "tokens"
  <2>1. /\ collector[m].pc = "sendToken" /\ TokenTransfer(m) /\ UNCHANGED unseen
        /\ Becomes(m, Done(m, Coin(m), FALSE))
    BY <1>5 DEF SentButUnknown
  <2>2. PICK t \in Tokens : collector[m].coin = {t} /\ Coin(m) = t
    BY <1>3, <2>1
  <2>3. Stands(m, "tokens", {l}) /\ Strikes(m, t) /\ ~collector'[m].ok
    BY <1>1, <2>1, <2>2, DoneEffect
  <2>4. SendTokenMove(m, l, t)
    BY <1>2, <2>1, <2>2, <2>3, TransferEffect DEF SendTokenMove
  <2> QED BY <2>4 DEF WorkMove
<1>6. CASE ReceiptTimesOut(m)
  <2>1. PICK t \in Tokens : collector[m].coin = {t} /\ Coin(m) = t
    BY <1>3, <1>6 DEF ReceiptTimesOut
  <2>2. Stands(m, "tokens", {l}) /\ Strikes(m, t)
    BY <1>6, <2>1, DoneEffect DEF ReceiptTimesOut
  <2>3. SendTokenMove(m, l, t)
    BY <1>1, <1>2, <1>6, <2>1, <2>2 DEF ReceiptTimesOut, SendTokenMove, walletState
  <2> QED BY <2>3 DEF WorkMove
<1> QED BY <1>4, <1>5, <1>6

\* Every step is one of the moves.
LEMMA StepIsReclaimMove ==
  ASSUME ReclaimTyped, [ReclaimNext]_reclaimVars
  PROVE  ReclaimMove
<1>1. ASSUME NEW l \in Settled, Ages(l) \/ \E t \in Tokens : PaidAgain(l, t) PROVE WaitMove
  <2>1. CASE Ages(l)
    BY <2>1 DEF Ages, WaitMove, linkDocuments, walletState
  <2>2. ASSUME NEW t \in Tokens, PaidAgain(l, t) PROVE WaitMove
    <3>1. tokens \in [Settled -> [Tokens -> Nat]] /\ tokens[l][t] + Worth \in Nat
      BY DEF ReclaimTyped, ReclaimTypeOK, Worth
    <3>2. tokens' = [tokens EXCEPT ![l] = [tokens[l] EXCEPT ![t] = @ + Worth]]
      BY <2>2 DEF PaidAgain
    <3> HIDE DEF Worth
    <3>3. tokens' \in [Settled -> [Tokens -> Nat]] /\ \A k \in Settled : k # l => tokens'[k] = tokens[k]
      BY <3>1, <3>2
    <3> QED BY <2>2, <3>3 DEF PaidAgain, WaitMove, linkDocuments
  <2> QED BY <1>1, <2>1, <2>2
<1>2. ASSUME NEW m \in Collectors, CollectorStep(m) PROVE ReclaimMove
  <2>1. CASE Select(m) \/ TickIsOver(m) \/ \E l \in Settled : GiveUp(m, l) \/ Attempt(m, l)
    BY <2>1, ListMoves DEF ReclaimMove
  <2>2. CASE ReadTokens(m) \/ (\E t \in Tokens : FundGas(m, t)) \/ SendToken(m)
    <3>1. collector[m].pc \in Sweeping
      BY <2>2 DEF ReadTokens, FundGas, SendToken, Sweeping
    <3>2. PICK l \in Settled : collector[m].link = {l}
      BY <3>1, InHand
    <3>3. WorkMove(m, l)
      BY <2>2, <3>1, <3>2, ReadMoves, FundMoves, SendMoves DEF WorkMove
    <3> QED BY <3>3 DEF ReclaimMove
  <2>3. CASE ReadNative(m) \/ SendNative(m) \/ MarkReclaimed(m)
    <3>1. collector[m].pc \in Sweeping
      BY <2>3 DEF ReadNative, TokensDone, SendNative, MarkReclaimed, Sweeping
    <3>2. PICK l \in Settled : collector[m].link = {l}
      BY <3>1, InHand
    <3> QED BY <2>3, <3>1, <3>2, NativeMoves DEF WorkMove, ReclaimMove
  <2> QED BY <1>2, <2>1, <2>2, <2>3 DEF CollectorStep
<1>3. ASSUME NEW m \in Collectors, CollectorCrashes(m) PROVE ReclaimMove
  BY <1>3, ListMoves DEF ReclaimMove
<1>4. ASSUME NEW m \in Collectors, Fails(m), collector[m].pc = "next" PROVE ReclaimMove
  <2>1. PICK l \in Settled : l \in collector[m].queue /\ Becomes(m, Dequeued(m, l))
    BY <1>4 DEF Fails, TokensDone, ReclaimTyped, ReclaimTypeOK, CollectorState
  <2>2. collector'[m] = Dequeued(m, l) /\ Stands(m, "next", {})
    <3>1. collector[m].link = {}
      BY <1>4 DEF ReclaimTyped, CollectorsInOrder
    <3>2. /\ Dequeued(m, l) \in CollectorState /\ CoinInHand(Dequeued(m, l))
          /\ Dequeued(m, l).pc = "next" /\ Dequeued(m, l).link = {}
      BY <1>4, <3>1, DequeuedEffect, NoCoin DEF CoinInHand
    <3>3. collector'[m] = Dequeued(m, l) /\ Stands(m, Dequeued(m, l).pc, Dequeued(m, l).link)
      BY <2>1, <3>2, BecomesEffect
    <3> QED BY <3>2, <3>3
  <2>3. SkipMove(m, l)
    BY <1>4, <2>1, <2>2, DequeuedEffect DEF Fails, SkipMove, Takes, linkDocuments
  <2> QED BY <2>3 DEF ReclaimMove
<1>5. ASSUME NEW m \in Collectors, Fails(m) \/ SentButUnknown(m) \/ ReceiptTimesOut(m),
             collector[m].pc # "next"
      PROVE  ReclaimMove
  <2>1. collector[m].pc \in Sweeping
    BY <1>5 DEF Fails, TokensDone, SentButUnknown, ReceiptTimesOut, Sweeping
  <2>2. PICK l \in Settled : collector[m].link = {l}
    BY <2>1, InHand
  <2> QED BY <1>5, <2>1, <2>2, FailMoves, LostMoves DEF ReclaimMove
<1>6. CASE UNCHANGED reclaimVars
  BY <1>6 DEF reclaimVars, walletState, ReclaimMove, WaitMove, linkDocuments
<1>7. CASE \E m \in Collectors :
              Fails(m) \/ SentButUnknown(m) \/ ReceiptTimesOut(m) \/ CollectorCrashes(m)
  <2>1. PICK m \in Collectors :
              Fails(m) \/ SentButUnknown(m) \/ ReceiptTimesOut(m) \/ CollectorCrashes(m)
    BY <1>7
  <2>2. SentButUnknown(m) \/ ReceiptTimesOut(m) => collector[m].pc # "next"
    BY DEF SentButUnknown, ReceiptTimesOut
  <2> QED BY <1>3, <1>4, <1>5, <2>1, <2>2
<1>8. CASE \E l \in Settled : Ages(l) \/ \E t \in Tokens : PaidAgain(l, t)
  BY <1>1, <1>8 DEF ReclaimMove
<1> QED BY <1>2, <1>6, <1>7, <1>8 DEF ReclaimNext

\* The types are kept, and a tick still works on one link at a time.
LEMMA ReclaimTypedStep ==
  ASSUME ReclaimTyped, [ReclaimNext]_reclaimVars
  PROVE  ReclaimTyped'
<1>1. ReclaimMove
  BY StepIsReclaimMove
<1> DEFINE Working == CollectorsInOrder' /\ collector' \in [Collectors -> CollectorState]
<1>2. Working
  <2>1. CASE WaitMove
    BY <2>1 DEF WaitMove, ReclaimTyped, ReclaimTypeOK, CollectorsInOrder
  <2>2. ASSUME NEW m \in Collectors, SelectMove(m) \/ EndMove(m)
        PROVE  Working
    BY <2>2 DEF SelectMove, EndMove, Stands, ReclaimTyped, CollectorsInOrder, Sweeping
  <2>3. ASSUME NEW m \in Collectors, NEW l \in Settled,
               SkipMove(m, l) \/ GiveUpMove(m, l) \/ AttemptMove(m, l)
        PROVE  Working
    BY <2>3 DEF SkipMove, GiveUpMove, AttemptMove, Takes, Stands, ReclaimTyped, CollectorsInOrder, Sweeping
  <2>4. ASSUME NEW m \in Collectors, NEW l \in Settled, WorkMove(m, l)
        PROVE  Working
    <3>1. /\ Stands(m, "next", {}) \/ \E p \in Sweeping : Stands(m, p, {l})
          /\ KeepsList(m)
      BY <2>4 DEF WorkMove, LeaveMove, ReadTokensMove, FundMove, SendTokenMove, Strikes, ReadNativeMove,
                  SendNativeMove, Sweeping
    <3>2. l \notin collector[m].queue
      BY <2>4 DEF WorkMove, ReclaimTyped, CollectorsInOrder
    <3> QED BY <3>1, <3>2 DEF Stands, KeepsList, ReclaimTyped, CollectorsInOrder, Sweeping
  <2> QED BY <1>1, <2>1, <2>2, <2>3, <2>4 DEF ReclaimMove
<1> DEFINE Docs == /\ paidOut' \in Batches
                   /\ reclaimed' \in [Settled -> BOOLEAN] /\ retries' \in [Settled -> Nat]
                   /\ fresh' \subseteq Settled
                   /\ reclaimFaults' \in 0..MaxReclaimFaults
                   /\ late' \subseteq Settled /\ crowded' \subseteq Settled
                   /\ unseen' \subseteq Settled
           Purse == /\ tokens' \in [Settled -> [Tokens -> Nat]] /\ gas' \in [Settled -> 0..2]
                    /\ funded' \in [Settled -> [Tokens -> Nat]]
<1>3. Purse
  <2>1. CASE UNCHANGED walletState
    BY <2>1 DEF walletState, ReclaimTyped, ReclaimTypeOK
  <2>2. CASE WaitMove
    BY <2>2 DEF WaitMove, ReclaimTyped, ReclaimTypeOK
  <2>3. ASSUME NEW m \in Collectors, NEW l \in Settled, WorkMove(m, l)
        PROVE  Purse
    <3>1. gas[l] \in 0..2 /\ collector[m].amount \in Nat
      BY DEF ReclaimTyped, ReclaimTypeOK, CollectorState
    <3>2. /\ tokens \in [Settled -> [Tokens -> Nat]] /\ gas \in [Settled -> 0..2]
          /\ funded \in [Settled -> [Tokens -> Nat]]
      BY DEF ReclaimTyped, ReclaimTypeOK
    <3>3. ASSUME NEW t \in Tokens, FundMove(m, l, t) PROVE Purse
      <4>1. UNCHANGED tokens /\ (UNCHANGED <<gas, funded>> \/ SendGas(l, t))
        BY <3>3 DEF FundMove
      <4>2. CASE SendGas(l, t)
        <5>1. gas' \in [Settled -> 0..2]
          BY <3>2, <4>2 DEF SendGas
        <5>2. funded' \in [Settled -> [Tokens -> Nat]]
          BY <3>2, <4>2 DEF SendGas
        <5> QED BY <3>2, <4>1, <5>1, <5>2
      <4> QED BY <3>2, <4>1, <4>2
    <3>4. ASSUME NEW t \in Tokens, SendTokenMove(m, l, t) PROVE Purse
      <4>1. CASE UNCHANGED <<tokens, gas>>
        BY <3>2, <3>4, <4>1 DEF SendTokenMove
      <4>2. CASE /\ tokens' = [tokens EXCEPT ![l] = [tokens[l] EXCEPT ![t] =
                                IF tokens[l][t] >= collector[m].amount /\ gas[l] = 2
                                  THEN @ - collector[m].amount ELSE @]]
                 /\ gas' \in [Settled -> 0..2]
        BY <3>1, <3>2, <3>4, <4>2 DEF SendTokenMove
      <4> QED BY <3>4, <4>1, <4>2 DEF SendTokenMove
    <3>5. CASE SendNativeMove(m, l)
      <4>1. /\ gas' = [gas EXCEPT ![l] = @ - collector[m].amount]
            /\ gas[l] >= collector[m].amount /\ UNCHANGED <<tokens, funded>>
        BY <3>5 DEF SendNativeMove
      <4>2. gas[l] - collector[m].amount \in 0..2
        BY <3>1, <4>1
      <4>3. gas' \in [Settled -> 0..2]
        BY <3>2, <4>1, <4>2
      <4> QED BY <3>2, <4>1, <4>3
    <3>6. CASE LeaveMove(m, l) \/ ReadTokensMove(m, l) \/ ReadNativeMove(m, l)
      BY <3>2, <3>6 DEF LeaveMove, ReadTokensMove, ReadNativeMove, walletState
    <3> QED BY <2>3, <3>3, <3>4, <3>5, <3>6 DEF WorkMove
  <2> QED BY <1>1, <2>1, <2>2, <2>3
          DEF ReclaimMove, SelectMove, EndMove, SkipMove, GiveUpMove, AttemptMove
<1>4. Docs
  <2> USE ReclaimAssumption DEF ReclaimTyped, ReclaimTypeOK
  <2>1. ASSUME NEW l \in Settled, Ages(l) \/ \E t \in Tokens : PaidAgain(l, t) PROVE Docs
    BY <2>1 DEF Ages, PaidAgain
  <2>2. ASSUME NEW m \in Collectors, NEW l \in Settled, GiveUp(m, l) \/ Attempt(m, l) PROVE Docs
    <3>1. collector[m].seen[l] \in Nat /\ retries[l] \in Nat /\ retries \in [Settled -> Nat]
      BY DEF CollectorState
    <3>2. fresh' \subseteq Settled /\ reclaimed' \in [Settled -> BOOLEAN]
      BY <2>2 DEF GiveUp, Attempt
    <3>3. CASE GiveUp(m, l)
      <4>1. retries' = [retries EXCEPT ![l] = collector[m].seen[l] + 1]
        BY <3>3 DEF GiveUp
      <4>2. retries' \in [Settled -> Nat]
        BY <3>1, <4>1
      <4> QED BY <3>2, <3>3, <4>2 DEF GiveUp
    <3>4. CASE Attempt(m, l)
      <4>1. retries' = [retries EXCEPT ![l] = @ + 1]
        BY <3>4 DEF Attempt
      <4>2. retries' \in [Settled -> Nat]
        BY <3>1, <4>1
      <4> QED BY <3>2, <3>4, <4>2 DEF Attempt
    <3> QED BY <2>2, <3>3, <3>4
  <2>3. ASSUME NEW m \in Collectors, Select(m) PROVE Docs
    BY <2>3 DEF Select, Ready
  <2>4. ASSUME NEW m \in Collectors,
               \/ TickIsOver(m) \/ (\E t \in Tokens : FundGas(m, t)) \/ SendToken(m)
               \/ ReadNative(m) \/ SendNative(m) \/ Fails(m) \/ SentButUnknown(m) \/ CollectorCrashes(m)
        PROVE  Docs
    <3>1. /\ UNCHANGED <<paidOut, reclaimed, retries, fresh, late, crowded, unseen>>
          /\ UNCHANGED reclaimFaults \/ ReclaimFault
      BY <2>4 DEF TickIsOver, FundGas, SendToken, ReadNative, SendNative, Fails,
                  SentButUnknown, CollectorCrashes
    <3> QED BY <3>1 DEF ReclaimFault
  <2>5. ASSUME NEW m \in Collectors, MarkReclaimed(m) PROVE Docs
    <3>1. Work(m) \in Settled
      BY <2>5, InHand DEF MarkReclaimed, Sweeping
    <3> QED BY <2>5, <3>1 DEF MarkReclaimed
  <2>6. ASSUME NEW m \in Collectors, ReceiptTimesOut(m) PROVE Docs
    <3>1. Work(m) \in Settled
      BY <2>6, InHand DEF ReceiptTimesOut, Sweeping
    <3> QED BY <2>6, <3>1 DEF ReceiptTimesOut, ReclaimFault
  <2>8. ASSUME NEW m \in Collectors, ReadTokens(m) PROVE Docs
    <3>1. Work(m) \in Settled
      BY <2>8, InHand DEF ReadTokens, Sweeping
    <3>2. unseen' \in {unseen, unseen \cup {Work(m)}}
      BY <2>8 DEF ReadTokens
    <3> QED BY <2>8, <3>1, <3>2 DEF ReadTokens
  <2>7. CASE UNCHANGED reclaimVars
    BY <2>7 DEF reclaimVars
  <2> QED BY <2>1, <2>2, <2>3, <2>4, <2>5, <2>6, <2>7, <2>8 DEF ReclaimNext, CollectorStep
<1> QED BY <1>2, <1>3, <1>4 DEF ReclaimTyped, ReclaimTypeOK

LEMMA ReclaimTypedInv == ReclaimSpec => []ReclaimTyped
BY ReclaimTypedInit, ReclaimTypedStep, PTL DEF ReclaimSpec

-----------------------------------------------------------------------------
(* Reclaim: gas.                                                           *)

\* The ticks that may still send gas for token t to l in the attempt that they make.
Trying(l, t) ==
  {m \in Collectors :
     /\ collector[m].link = {l}
     /\ \/ collector[m].pc = "readTokens"
        \/ collector[m].pc \in {"tokens", "sendToken"} /\ collector[m].listed[t] > 0}

\* The ticks that will attempt l, by the counter that they have read.
Early(l) == {m \in Collectors : l \in collector[m].queue /\ ~Spent(m, l)}

\* Every attempt is counted before it is made.  When the third one is counted,
\* the attempts that are still to come are those of the other ticks that have
\* read the counter before.
GasInv ==
  \A l \in Settled, t \in Tokens :
    /\ \A m \in Collectors : l \in collector[m].queue /\ Spent(m, l) => retries[l] >= MaxReclaimRetries
    /\ retries[l] < MaxReclaimRetries => funded[l][t] + Cardinality(Trying(l, t)) <= retries[l]
    /\ retries[l] >= MaxReclaimRetries =>
         funded[l][t] + Cardinality(Trying(l, t)) + Cardinality(Early(l))
           <= MaxReclaimRetries + (Cardinality(Collectors) - 1)

LEMMA CollectorCounts ==
  ASSUME NEW S \in SUBSET Collectors
  PROVE  /\ Cardinality(S) \in Nat /\ Cardinality(S) <= Cardinality(Collectors)
         /\ Cardinality(Collectors) \in Nat
         /\ \A T \in SUBSET S : Cardinality(T) \in Nat /\ Cardinality(T) <= Cardinality(S)
         /\ \A m \in S : \A T \in SUBSET (S \ {m}) :
              Cardinality(T) \in Nat /\ Cardinality(T) <= Cardinality(S) - 1
         /\ \A m \in Collectors : \A T \in SUBSET (S \cup {m}) :
              Cardinality(T) \in Nat /\ Cardinality(T) <= Cardinality(S) + 1
<1>1. IsFiniteSet(Collectors) /\ IsFiniteSet(S)
  BY ReclaimAssumption, FS_Subset
<1>2. \A m \in S : IsFiniteSet(S \ {m}) /\ Cardinality(S \ {m}) = Cardinality(S) - 1
  BY <1>1, FS_RemoveElement
<1>3. \A m \in Collectors : /\ IsFiniteSet(S \cup {m})
                            /\ Cardinality(S \cup {m}) \in {Cardinality(S), Cardinality(S) + 1}
  BY <1>1, FS_AddElement
<1>4. Cardinality(S) \in Nat /\ Cardinality(Collectors) \in Nat
  BY <1>1, FS_CardinalityType
<1>5. \A A : IsFiniteSet(A) => \A T \in SUBSET A : Cardinality(T) \in Nat /\ Cardinality(T) <= Cardinality(A)
  BY FS_Subset, FS_CardinalityType
<1>6. Cardinality(S) <= Cardinality(Collectors) /\ \A T \in SUBSET S : Cardinality(T) \in Nat /\ Cardinality(T) <= Cardinality(S)
  BY <1>1, <1>5
<1>7. ASSUME NEW m \in S, NEW T \in SUBSET (S \ {m})
      PROVE  Cardinality(T) \in Nat /\ Cardinality(T) <= Cardinality(S) - 1
  BY <1>2, <1>5
<1>8. ASSUME NEW m \in Collectors, NEW T \in SUBSET (S \cup {m})
      PROVE  Cardinality(T) \in Nat /\ Cardinality(T) <= Cardinality(S) + 1
  <2>1. Cardinality(T) \in Nat /\ Cardinality(T) <= Cardinality(S \cup {m})
    BY <1>3, <1>5
  <2> QED BY <1>3, <1>4, <2>1
<1> QED BY <1>4, <1>6, <1>7, <1>8

\* What a step can mean for the gas that l gets for token t.
GasSame(l, t) ==
  /\ funded'[l][t] = funded[l][t] /\ retries'[l] = retries[l] /\ Trying(l, t)' \subseteq Trying(l, t)
  /\ Early(l)' \subseteq Early(l) \/ retries[l] < MaxReclaimRetries
GasSent(l, t) ==
  /\ funded'[l][t] \in {funded[l][t], funded[l][t] + 1} /\ retries'[l] = retries[l]
  /\ \E m \in Trying(l, t) : Trying(l, t)' \subseteq Trying(l, t) \ {m}
  /\ Early(l)' \subseteq Early(l)
GasTried(l, t) ==
  /\ funded'[l][t] = funded[l][t] /\ retries'[l] = retries[l] + 1
  /\ \E m \in Early(l) : /\ Trying(l, t)' \subseteq Trying(l, t) \cup {m}
                          /\ Early(l)' \subseteq Early(l) \ {m}
GasGivenUp(l, t) ==
  /\ funded'[l][t] = funded[l][t]
  /\ \E m \in Collectors : /\ l \in collector[m].queue /\ Spent(m, l)
                            /\ retries'[l] = collector[m].seen[l] + 1
  /\ Trying(l, t)' \subseteq Trying(l, t) /\ Early(l)' \subseteq Early(l)

LEMMA CollectorStates ==
  ASSUME ReclaimTyped, NEW m \in Collectors
  PROVE  collector[m].listed \in [Tokens -> Nat] /\ collector[m].amount \in Nat
BY DEF ReclaimTyped, ReclaimTypeOK, CollectorState

LEMMA GasEffect ==
  ASSUME ReclaimTyped, ReclaimMove, NEW l \in Settled, NEW t \in Tokens
  PROVE  \/ GasSame(l, t) \/ GasSent(l, t) \/ GasTried(l, t) \/ GasGivenUp(l, t)
<1>0. /\ funded \in [Settled -> [Tokens -> Nat]] /\ funded[l][t] \in Nat
      /\ retries[l] \in Nat /\ retries \in [Settled -> Nat]
      /\ \A n \in Collectors : collector[n].listed \in [Tokens -> Nat]
  BY CollectorStates DEF ReclaimTyped, ReclaimTypeOK
<1>1. CASE WaitMove
  BY <1>1 DEF WaitMove, linkDocuments, GasSame, Trying, Early, Spent
<1>2. ASSUME NEW m \in Collectors, SelectMove(m) PROVE GasSame(l, t)
  <2>1. Trying(l, t)' \subseteq Trying(l, t)
    BY <1>2 DEF SelectMove, Stands, Trying
  <2>2. retries[l] < MaxReclaimRetries \/ Early(l)' \subseteq Early(l)
    BY <1>0, <1>2 DEF SelectMove, Stands, Early, Spent, MaxReclaimRetries
  <2> QED BY <1>2, <2>1, <2>2 DEF SelectMove, walletState, GasSame
<1>3. ASSUME NEW m \in Collectors, EndMove(m) PROVE GasSame(l, t)
  BY <1>3 DEF EndMove, Stands, linkDocuments, walletState, GasSame, Trying, Early, Spent
<1>4. ASSUME NEW m \in Collectors, NEW k \in Settled, SkipMove(m, k) PROVE GasSame(l, t)
  BY <1>4 DEF SkipMove, Takes, Stands, linkDocuments, walletState, GasSame, Trying, Early, Spent
<1>5. ASSUME NEW m \in Collectors, NEW k \in Settled, GiveUpMove(m, k)
      PROVE  GasSame(l, t) \/ GasGivenUp(l, t)
  <2>1. Trying(l, t)' \subseteq Trying(l, t) /\ Early(l)' \subseteq Early(l)
    BY <1>5 DEF GiveUpMove, Takes, Stands, Trying, Early, Spent
  <2>2. CASE k = l
    BY <1>0, <1>5, <2>1, <2>2 DEF GiveUpMove, Takes, walletState, GasGivenUp
  <2>3. CASE k # l
    BY <1>0, <1>5, <2>1, <2>3 DEF GiveUpMove, walletState, GasSame
  <2> QED BY <2>2, <2>3
<1>6. ASSUME NEW m \in Collectors, NEW k \in Settled, AttemptMove(m, k)
      PROVE  GasSame(l, t) \/ GasTried(l, t)
  <2>1. CASE k = l
    <3>1. m \in Early(l)
      BY <1>6, <2>1 DEF AttemptMove, Takes, Early
    <3>2. Trying(l, t)' \subseteq Trying(l, t) \cup {m}
      BY <1>6 DEF AttemptMove, Stands, Trying
    <3>3. Early(l)' \subseteq Early(l) \ {m}
      BY <1>6, <2>1 DEF AttemptMove, Takes, Stands, Early, Spent
    <3> QED BY <1>0, <1>6, <2>1, <3>1, <3>2, <3>3 DEF AttemptMove, walletState, GasTried
  <2>2. CASE k # l
    BY <1>0, <1>6, <2>2
       DEF AttemptMove, Takes, Stands, walletState, GasSame, Trying, Early, Spent
  <2> QED BY <2>1, <2>2
<1>7. ASSUME NEW m \in Collectors, NEW k \in Settled, WorkMove(m, k)
      PROVE  GasSame(l, t) \/ GasSent(l, t)
  <2>1. /\ UNCHANGED retries /\ Early(l)' \subseteq Early(l)
        /\ \/ Stands(m, "next", {}) \/ \E p \in Sweeping : Stands(m, p, {k})
    BY <1>7 DEF WorkMove, LeaveMove, ReadTokensMove, FundMove, SendTokenMove, Strikes, ReadNativeMove,
                SendNativeMove, Sweeping, linkDocuments, Early, Spent, KeepsList, Stands
  <2>2. CASE ReadTokensMove(m, k)
    BY <1>7, <2>1, <2>2 DEF WorkMove, ReadTokensMove, walletState, Stands, Trying, GasSame
  <2>3. ASSUME NEW u \in Tokens, FundMove(m, k, u) PROVE GasSame(l, t) \/ GasSent(l, t)
    <3>1. /\ Trying(l, t)' \subseteq Trying(l, t)
          /\ k = l /\ u = t => m \in Trying(l, t) /\ Trying(l, t)' \subseteq Trying(l, t) \ {m}
      <4>1. /\ collector[m].link = {k} /\ collector[m].pc = "tokens" /\ collector[m].listed[u] > 0
            /\ collector'[m].link = {k} /\ collector'[m].pc # "readTokens"
            /\ \A n \in Collectors : n # m => collector'[n] = collector[n]
        BY <1>7, <2>3 DEF WorkMove, FundMove, Stands
      <4>2. collector'[m].listed[u] = 0 /\ (t # u => collector'[m].listed[t] = collector[m].listed[t])
        BY <1>0, <2>3 DEF FundMove, Strikes
      <4>3. k = l /\ u = t => m \in Trying(l, t) /\ m \notin Trying(l, t)'
        BY <4>1, <4>2 DEF Trying
      <4>4. Trying(l, t)' \subseteq Trying(l, t)
        BY <4>1, <4>2 DEF Trying
      <4> QED BY <4>3, <4>4
    <3>2. \/ funded'[l][t] = funded[l][t]
          \/ k = l /\ u = t /\ funded'[l][t] \in {funded[l][t], funded[l][t] + 1}
      <4>1. CASE UNCHANGED funded
        BY <4>1
      <4>2. CASE SendGas(k, u)
        BY <1>0, <4>2 DEF SendGas
      <4> QED BY <2>3, <4>1, <4>2 DEF FundMove
    <3> QED BY <2>1, <3>1, <3>2 DEF GasSame, GasSent
  <2>4. CASE \/ LeaveMove(m, k) \/ ReadNativeMove(m, k) \/ SendNativeMove(m, k)
             \/ \E u \in Tokens : SendTokenMove(m, k, u)
    <3>1. UNCHANGED funded
      BY <2>4 DEF LeaveMove, SendTokenMove, ReadNativeMove, SendNativeMove, walletState
    <3>2. Trying(l, t)' \subseteq Trying(l, t)
      <4>1. CASE LeaveMove(m, k) \/ ReadNativeMove(m, k) \/ SendNativeMove(m, k)
        BY <1>7, <4>1 DEF WorkMove, LeaveMove, ReadNativeMove, SendNativeMove, Stands, Trying
      <4>2. ASSUME NEW u \in Tokens, SendTokenMove(m, k, u) PROVE Trying(l, t)' \subseteq Trying(l, t)
        <5>1. /\ collector[m].link = {k} /\ collector[m].pc = "sendToken"
              /\ collector'[m].link = {k} /\ collector'[m].pc = "tokens"
              /\ \A n \in Collectors : n # m => collector'[n] = collector[n]
          BY <1>7, <4>2 DEF WorkMove, SendTokenMove, Stands
        <5>2. collector'[m].listed[t] \in {0, collector[m].listed[t]}
          BY <1>0, <4>2 DEF SendTokenMove, Strikes
        <5> QED BY <5>1, <5>2 DEF Trying
      <4> QED BY <2>4, <4>1, <4>2
    <3> QED BY <2>1, <3>1, <3>2 DEF GasSame
  <2> QED BY <1>7, <2>2, <2>3, <2>4 DEF WorkMove
<1> QED BY <1>1, <1>2, <1>3, <1>4, <1>5, <1>6, <1>7 DEF ReclaimMove

LEMMA GasStep ==
  ASSUME ReclaimTyped, GasInv, ReclaimMove
  PROVE  GasInv'
<1> SUFFICES ASSUME NEW l \in Settled, NEW t \in Tokens
             PROVE  /\ \A m \in Collectors : (l \in collector[m].queue /\ Spent(m, l))' =>
                         retries'[l] >= MaxReclaimRetries
                    /\ retries'[l] < MaxReclaimRetries =>
                         funded'[l][t] + Cardinality(Trying(l, t)') <= retries'[l]
                    /\ retries'[l] >= MaxReclaimRetries =>
                         funded'[l][t] + Cardinality(Trying(l, t)') + Cardinality(Early(l)')
                           <= MaxReclaimRetries + (Cardinality(Collectors) - 1)
  BY DEF GasInv
<1>0. /\ funded[l][t] \in Nat /\ retries[l] \in Nat /\ \A m \in Collectors : collector[m].seen[l] \in Nat
      /\ retries \in [Settled -> Nat]
  BY DEF ReclaimTyped, ReclaimTypeOK, CollectorState
<1>10. ASSUME GasGivenUp(l, t)
      PROVE  retries[l] >= MaxReclaimRetries /\ retries'[l] >= MaxReclaimRetries
  <2>1. PICK m \in Collectors : /\ l \in collector[m].queue /\ Spent(m, l)
                               /\ retries'[l] = collector[m].seen[l] + 1
    BY <1>10 DEF GasGivenUp
  <2>2. collector[m].seen[l] \in Nat
    BY <1>0
  <2> QED BY <2>1, <2>2 DEF GasInv, Spent, MaxReclaimRetries
<1>1. ASSUME NEW m \in Collectors, (l \in collector[m].queue /\ Spent(m, l))'
      PROVE  retries'[l] >= MaxReclaimRetries
  <2>1. \/ collector'[m].queue \subseteq collector[m].queue /\ collector'[m].seen[l] = collector[m].seen[l]
        \/ collector'[m].seen[l] = retries[l] /\ UNCHANGED retries
    <3>1. CASE WaitMove
      BY <3>1 DEF WaitMove
    <3>2. ASSUME NEW n \in Collectors, SelectMove(n) \/ EndMove(n)
          PROVE  \/ collector'[m].queue \subseteq collector[m].queue /\ collector'[m].seen[l] = collector[m].seen[l]
                 \/ collector'[m].seen[l] = retries[l] /\ UNCHANGED retries
      BY <1>1, <3>2 DEF SelectMove, EndMove, Stands
    <3>3. ASSUME NEW n \in Collectors, NEW k \in Settled,
                 SkipMove(n, k) \/ GiveUpMove(n, k) \/ AttemptMove(n, k)
          PROVE  collector'[m].queue \subseteq collector[m].queue /\ collector'[m].seen[l] = collector[m].seen[l]
      BY <1>1, <3>3 DEF SkipMove, GiveUpMove, AttemptMove, Takes, Stands
    <3>4. ASSUME NEW n \in Collectors, NEW k \in Settled, WorkMove(n, k)
          PROVE  collector'[m].queue \subseteq collector[m].queue /\ collector'[m].seen[l] = collector[m].seen[l]
      <4>1. KeepsList(n) /\ \A o \in Collectors : o # n => collector'[o] = collector[o]
        BY <3>4 DEF WorkMove, LeaveMove, ReadTokensMove, FundMove, SendTokenMove, Strikes,
                    ReadNativeMove, SendNativeMove, Stands
      <4> QED BY <4>1 DEF KeepsList
    <3> QED BY <3>1, <3>2, <3>3, <3>4 DEF ReclaimMove
  <2>3. CASE Spent(m, l) /\ l \in collector[m].queue
    <3>1. retries[l] >= MaxReclaimRetries
      BY <2>3 DEF GasInv
    <3>2. CASE GasSame(l, t) \/ GasSent(l, t) \/ GasTried(l, t)
      BY <1>0, <3>1, <3>2 DEF GasSame, GasSent, GasTried, MaxReclaimRetries
    <3>3. CASE GasGivenUp(l, t)
      BY <1>10, <3>3
    <3> QED BY <3>2, <3>3, GasEffect
  <2>4. CASE collector'[m].seen[l] = retries[l] /\ UNCHANGED retries
    BY <1>0, <1>1, <2>4 DEF Spent, MaxReclaimRetries
  <2> QED BY <1>1, <2>1, <2>3, <2>4 DEF Spent
<1>2. /\ Trying(l, t) \in SUBSET Collectors /\ Early(l) \in SUBSET Collectors
  BY DEF Trying, Early
<1> DEFINE N == Cardinality(Collectors)
           T == Cardinality(Trying(l, t))
           E == Cardinality(Early(l))
           T1 == Cardinality(Trying(l, t)')
           E1 == Cardinality(Early(l)')
           Counts == /\ retries'[l] < MaxReclaimRetries => funded'[l][t] + T1 <= retries'[l]
                     /\ retries'[l] >= MaxReclaimRetries =>
                          funded'[l][t] + T1 + E1 <= MaxReclaimRetries + (N - 1)
<1>3. /\ retries[l] < MaxReclaimRetries => funded[l][t] + T <= retries[l]
      /\ retries[l] >= MaxReclaimRetries => funded[l][t] + T + E <= MaxReclaimRetries + (N - 1)
  BY DEF GasInv
<1>4. N \in Nat /\ T \in Nat /\ E \in Nat /\ E <= N
  BY <1>2, CollectorCounts
<1>5. ASSUME GasSame(l, t) PROVE Counts
  <2>1. T1 \in Nat /\ T1 <= T
    BY <1>2, <1>5, CollectorCounts DEF GasSame
  <2>2. retries[l] < MaxReclaimRetries \/ (E1 \in Nat /\ E1 <= E)
    BY <1>2, <1>5, CollectorCounts DEF GasSame
  <2>3. funded'[l][t] = funded[l][t] /\ retries'[l] = retries[l]
    BY <1>5 DEF GasSame
  <2> HIDE DEF N, T, E, T1, E1
  <2> QED BY <1>0, <1>3, <1>4, <2>1, <2>2, <2>3 DEF MaxReclaimRetries
<1>6. ASSUME GasSent(l, t) PROVE Counts
  <2>1. T1 \in Nat /\ T1 <= T - 1
    BY <1>2, <1>6, CollectorCounts DEF GasSent
  <2>2. E1 \in Nat /\ E1 <= E
    BY <1>2, <1>6, CollectorCounts DEF GasSent
  <2>3. funded'[l][t] \in {funded[l][t], funded[l][t] + 1} /\ retries'[l] = retries[l]
    BY <1>6 DEF GasSent
  <2> HIDE DEF N, T, E, T1, E1
  <2> QED BY <1>0, <1>3, <1>4, <2>1, <2>2, <2>3 DEF MaxReclaimRetries
<1>7. ASSUME GasTried(l, t) PROVE Counts
  <2>1. PICK m \in Early(l) : Trying(l, t)' \subseteq Trying(l, t) \cup {m} /\ Early(l)' \subseteq Early(l) \ {m}
    BY <1>7 DEF GasTried
  <2>2. m \in Collectors
    BY DEF Early
  <2>3. T1 \in Nat /\ T1 <= T + 1 /\ E1 \in Nat /\ E1 <= E - 1
    BY <1>2, <2>1, <2>2, CollectorCounts
  <2>4. funded'[l][t] = funded[l][t] /\ retries'[l] = retries[l] + 1
    BY <1>7 DEF GasTried
  <2> HIDE DEF N, T, E, T1, E1
  <2> QED BY <1>0, <1>3, <1>4, <2>3, <2>4 DEF MaxReclaimRetries
<1>8. ASSUME GasGivenUp(l, t) PROVE Counts
  <2>1. T1 \in Nat /\ T1 <= T /\ E1 \in Nat /\ E1 <= E
    BY <1>2, <1>8, CollectorCounts DEF GasGivenUp
  <2>2. funded'[l][t] = funded[l][t] /\ retries[l] >= MaxReclaimRetries /\ retries'[l] >= MaxReclaimRetries
    BY <1>10, <1>8 DEF GasGivenUp
  <2>3. retries'[l] \in Nat
    BY <1>0, <1>8 DEF GasGivenUp
  <2> HIDE DEF N, T, E, T1, E1
  <2> QED BY <1>0, <1>3, <1>4, <2>1, <2>2, <2>3 DEF MaxReclaimRetries
<1>9. Counts
  BY <1>5, <1>6, <1>7, <1>8, GasEffect
<1> QED BY <1>1, <1>9

\* "Stop after 3 failed attempts to prevent infinite gas drain": however many ticks
\* overlap and whatever fails in them, the platform sends gas to a wallet three
\* times for each token that it listed, and once more for each further tick.
THEOREM GasDrainIsAlwaysBounded == ReclaimSpec => []GasDrainIsBounded
<1>1. ReclaimInit => GasInv
  <2> SUFFICES ASSUME ReclaimInit, NEW l \in Settled, NEW t \in Tokens
               PROVE  /\ \A m \in Collectors : l \notin collector[m].queue
                      /\ retries[l] = 0 /\ funded[l][t] = 0 /\ Trying(l, t) = {}
    <3>1. Cardinality({}) = 0
      BY FS_EmptySet
    <3> QED BY <3>1 DEF GasInv, MaxReclaimRetries
  <2>1. \A m \in Collectors : /\ collector[m].queue = {} /\ collector[m].link = {}
    BY DEF ReclaimInit, IdleCollector
  <2> QED BY <2>1 DEF ReclaimInit, Trying
<1>2. ReclaimTyped /\ GasInv /\ [ReclaimNext]_reclaimVars => GasInv'
  BY GasStep, StepIsReclaimMove
<1>3. ReclaimTyped /\ GasInv => GasDrainIsBounded
  <2> SUFFICES ASSUME ReclaimTyped, GasInv, NEW l \in Settled, NEW t \in Tokens
               PROVE  funded[l][t] <= MaxReclaimRetries + (Cardinality(Collectors) - 1)
    BY DEF GasDrainIsBounded
  <2>1. Trying(l, t) \in SUBSET Collectors /\ Early(l) \in SUBSET Collectors
    BY DEF Trying, Early
  <2>2. /\ Cardinality(Trying(l, t)) \in Nat /\ Cardinality(Early(l)) \in Nat
        /\ Cardinality(Collectors) \in Nat
    BY <2>1, CollectorCounts
  <2>3. funded[l][t] \in Nat /\ retries[l] \in Nat
    BY DEF ReclaimTyped, ReclaimTypeOK
  <2> QED BY <2>2, <2>3 DEF GasInv, MaxReclaimRetries
<1> QED BY <1>1, <1>2, <1>3, ReclaimTypedInv, PTL DEF ReclaimSpec

-----------------------------------------------------------------------------
(* Reclaim: what is left on a closed wallet.                               *)

HeldBy(m, l) == l \in collector[m].queue \/ l \in collector[m].link

\* The links about which ClosedIsEmpty speaks.
Orderly(l) == l \in Settled \ (late \cup crowded \cup unseen \cup Keyless)

\* Nothing worth sweeping is left of the tokens that an attempt on l looks for.
AllSmall(l) == \A t \in LooksFor(l) : tokens[l][t] <= Small

\* What tick m knows of link l is so.
KnowsWallet(m, l) ==
  collector[m].link = {l} =>
    /\ collector[m].pc \in {"tokens", "sendToken"} => \A t \in LooksFor(l) :
         /\ collector[m].listed[t] > 0 => collector[m].listed[t] = tokens[l][t]
         /\ collector[m].listed[t] = 0 /\ collector[m].ok /\ t \notin collector[m].coin
              => tokens[l][t] <= Small
         /\ t \in collector[m].coin => collector[m].amount = tokens[l][t]
    /\ collector[m].pc = "sendNative" =>
         collector[m].amount = gas[l] /\ (collector[m].ok => AllSmall(l))
    /\ collector[m].pc = "mark" => AllSmall(l) /\ gas[l] = 0

\* One tick at a time holds the link, and nobody once it is closed: from then on
\* its wallet stays as it is.
SweptInOrder(l) ==
  /\ \A m, n \in Collectors : HeldBy(m, l) /\ HeldBy(n, l) => m = n
  /\ reclaimed[l] => \A m \in Collectors : ~HeldBy(m, l)
  /\ reclaimed[l] /\ retries[l] <= MaxReclaimRetries => AllSmall(l) /\ gas[l] = 0
  /\ \A m \in Collectors : KnowsWallet(m, l)

SweptInv == \A l \in Settled : Orderly(l) => SweptInOrder(l)

\* Nothing of what the invariant says of l changes.
Elsewhere(l) ==
  /\ reclaimed'[l] = reclaimed[l] /\ retries'[l] = retries[l]
  /\ tokens'[l] = tokens[l] /\ gas'[l] = gas[l]
  /\ \A m \in Collectors : HeldBy(m, l)' => HeldBy(m, l)
  /\ \A m \in Collectors : collector'[m].link = {l} => collector'[m] = collector[m]

LEMMA ElsewhereKeeps ==
  ASSUME NEW l, SweptInOrder(l), Elsewhere(l)
  PROVE  SweptInOrder(l)'
BY DEF SweptInOrder, Elsewhere, KnowsWallet, HeldBy, AllSmall, LooksFor

LEMMA OrderlyBefore ==
  ASSUME ReclaimMove, NEW l, Orderly(l)'
  PROVE  Orderly(l)
<1> DEFINE Grows == late \subseteq late' /\ crowded \subseteq crowded' /\ unseen \subseteq unseen'
<1>1. ASSUME WaitMove PROVE Grows
  BY <1>1 DEF WaitMove, linkDocuments
<1>2. ASSUME NEW m \in Collectors, SelectMove(m) \/ EndMove(m) PROVE Grows
  BY <1>2 DEF SelectMove, EndMove, linkDocuments
<1>3. ASSUME NEW m \in Collectors, NEW k \in Settled, SkipMove(m, k) \/ GiveUpMove(m, k) \/ AttemptMove(m, k)
      PROVE  Grows
  BY <1>3 DEF SkipMove, GiveUpMove, AttemptMove, linkDocuments
<1>4. ASSUME NEW m \in Collectors, NEW k \in Settled, WorkMove(m, k) PROVE Grows
  BY <1>4 DEF WorkMove, LeaveMove, ReadTokensMove, FundMove, SendTokenMove, Strikes, ReadNativeMove,
              SendNativeMove, linkDocuments
<1>5. Grows
  BY <1>1, <1>2, <1>3, <1>4 DEF ReclaimMove
<1> QED BY <1>5 DEF Orderly

\* The steps of tick m on l itself.
LEMMA WorkSweeps ==
  ASSUME ReclaimTyped, NEW m \in Collectors, NEW l \in Settled, WorkMove(m, l),
         Orderly(l)', SweptInOrder(l)
  PROVE  SweptInOrder(l)'
<1>0. /\ tokens \in [Settled -> [Tokens -> Nat]] /\ gas \in [Settled -> 0..2]
      /\ reclaimed \in [Settled -> BOOLEAN] /\ LooksFor(l) \subseteq Tokens
      /\ collector[m].amount \in Nat /\ collector[m].listed \in [Tokens -> Nat]
      /\ collector[m].link = {l} /\ CoinInHand(collector[m])
  BY ReclaimAssumption
     DEF ReclaimTyped, ReclaimTypeOK, CollectorState, CollectorsInOrder, LooksFor, WorkMove
<1>1. ~reclaimed[l] /\ \A n \in Collectors : HeldBy(n, l) => n = m
  BY DEF SweptInOrder, WorkMove, HeldBy
<1>2. UNCHANGED retries /\ KeepsList(m) /\ (Stands(m, "next", {}) \/ \E p \in Sweeping : Stands(m, p, {l}))
  BY DEF WorkMove, LeaveMove, ReadTokensMove, FundMove, SendTokenMove, Strikes, ReadNativeMove, SendNativeMove,
         linkDocuments, Sweeping
<1>3. \A n \in Collectors : HeldBy(n, l)' => n = m
  BY <1>1, <1>2 DEF HeldBy, Stands, KeepsList
<1>4. l \notin collector[m].queue
  BY DEF WorkMove, ReclaimTyped, CollectorsInOrder
<1>5. \A n \in Collectors \ {m} : KnowsWallet(n, l)'
  BY <1>3 DEF KnowsWallet, HeldBy
<1>6. KnowsWallet(m, l)
  BY DEF SweptInOrder
<1>7. CASE LeaveMove(m, l)
  <2>1. \A n \in Collectors : ~HeldBy(n, l)'
    BY <1>3, <1>4, <1>7 DEF LeaveMove, HeldBy, Stands, KeepsList
  <2>2. KnowsWallet(m, l)'
    BY <2>1 DEF KnowsWallet, HeldBy
  <2>3. reclaimed'[l] => collector[m].pc = "mark" /\ UNCHANGED <<tokens, gas>>
    BY <1>0, <1>1, <1>7 DEF LeaveMove
  <2>4. reclaimed'[l] => AllSmall(l)' /\ gas'[l] = 0
    BY <1>6, <2>3 DEF KnowsWallet, WorkMove, AllSmall, LooksFor
  <2> QED BY <1>5, <2>1, <2>2, <2>4 DEF SweptInOrder
<1>8. CASE ~LeaveMove(m, l)
  <2>1. ~reclaimed'[l]
    BY <1>1, <1>8 DEF WorkMove, ReadTokensMove, FundMove, SendTokenMove, ReadNativeMove, SendNativeMove,
                      linkDocuments
  <2>2. KnowsWallet(m, l)'
    <3>1. CASE ReadTokensMove(m, l)
      <4>1. UNCHANGED <<unseen, tokens>> /\ collector'[m].pc = "tokens" /\ collector'[m].coin = {}
        BY <3>1 DEF ReadTokensMove, Orderly, Stands, CoinInHand, walletState
      <4>2. \A t \in LooksFor(l) :
              \/ collector'[m].listed[t] = tokens[l][t]
              \/ collector'[m].listed[t] = 0 /\ (collector'[m].ok => tokens[l][t] <= Small)
        BY <3>1, <4>1 DEF ReadTokensMove, Orderly
      <4>3. \A t \in LooksFor(l) : tokens[l][t] \in Nat
        BY <1>0
      <4> QED BY <4>1, <4>2, <4>3 DEF KnowsWallet, LooksFor, Small
    <3>2. ASSUME NEW t \in Tokens, FundMove(m, l, t) PROVE KnowsWallet(m, l)'
      <4>1. /\ UNCHANGED tokens /\ collector[m].coin = {} /\ collector[m].pc = "tokens"
            /\ collector'[m].listed = [collector[m].listed EXCEPT ![t] = 0]
            /\ collector'[m].ok => collector[m].ok
        BY <1>0, <3>2 DEF FundMove, Strikes, CoinInHand
      <4>2. \A u \in LooksFor(l) :
              /\ collector[m].listed[u] > 0 => collector[m].listed[u] = tokens[l][u]
              /\ collector[m].listed[u] = 0 /\ collector[m].ok => tokens[l][u] <= Small
        BY <1>0, <1>6, <4>1 DEF KnowsWallet
      <4>3. \/ /\ collector'[m].pc = "sendToken" /\ collector'[m].coin = {t}
               /\ collector'[m].amount = collector[m].listed[t]
            \/ /\ collector'[m].pc = "tokens" /\ collector'[m].coin = {}
               /\ collector'[m].ok => collector[m].listed[t] <= Small
        BY <3>2 DEF FundMove, Stands, CoinInHand
      <4>4. collector[m].listed[t] > 0
        BY <3>2 DEF FundMove
      <4> QED BY <1>0, <4>1, <4>2, <4>3, <4>4 DEF KnowsWallet, LooksFor
    <3>3. ASSUME NEW t \in Tokens, SendTokenMove(m, l, t) PROVE KnowsWallet(m, l)'
      <4>1. /\ UNCHANGED unseen /\ collector[m].coin = {t} /\ collector[m].pc = "sendToken"
            /\ collector'[m].pc = "tokens" /\ collector'[m].coin = {}
            /\ collector'[m].listed = [collector[m].listed EXCEPT ![t] = 0]
            /\ collector'[m].ok => collector[m].ok
        BY <3>3 DEF SendTokenMove, Strikes, Orderly, Stands, CoinInHand
      <4>2. \A u \in LooksFor(l) :
              /\ collector[m].listed[u] > 0 => collector[m].listed[u] = tokens[l][u]
              /\ collector[m].listed[u] = 0 /\ collector[m].ok /\ u # t => tokens[l][u] <= Small
              /\ u = t => collector[m].amount = tokens[l][u]
        BY <1>0, <1>6, <4>1 DEF KnowsWallet
      <4>3. \A u \in LooksFor(l) : u # t => tokens'[l][u] = tokens[l][u]
        BY <1>0, <3>3 DEF SendTokenMove
      <4>4. ASSUME t \in LooksFor(l), collector'[m].ok PROVE tokens'[l][t] <= Small
        <5>1. tokens' = [tokens EXCEPT ![l] = [tokens[l] EXCEPT ![t] = @ - collector[m].amount]]
          BY <3>3, <4>1, <4>4 DEF SendTokenMove, Orderly
        <5>2. tokens'[l][t] = 0
          BY <1>0, <4>2, <4>4, <5>1
        <5> QED BY <5>2 DEF Small
      <4> QED BY <1>0, <4>1, <4>2, <4>3, <4>4 DEF KnowsWallet, LooksFor
    <3>4. CASE ReadNativeMove(m, l)
      <4>1. /\ collector[m].pc = "tokens" /\ collector[m].coin = {} /\ UNCHANGED <<tokens, gas>>
            /\ \A t \in Tokens : collector[m].listed[t] = 0
        BY <1>0, <3>4 DEF ReadNativeMove, TokensDone, CoinInHand, walletState
      <4>2. collector[m].ok => AllSmall(l)
        BY <1>0, <1>6, <4>1 DEF KnowsWallet, AllSmall
      <4>3. AllSmall(l)' = AllSmall(l)
        BY <4>1 DEF AllSmall, LooksFor
      <4>4. \/ gas[l] = 0 /\ collector[m].ok /\ collector'[m].pc = "mark"
            \/ /\ collector'[m].pc = "sendNative" /\ collector'[m].amount = gas[l]
               /\ collector'[m].ok = collector[m].ok
        BY <3>4 DEF ReadNativeMove, Stands
      <4> QED BY <4>1, <4>2, <4>3, <4>4 DEF KnowsWallet
    <3>5. CASE SendNativeMove(m, l)
      <4>1. gas'[l] = 0 /\ UNCHANGED tokens /\ AllSmall(l)
        BY <1>0, <1>6, <3>5 DEF SendNativeMove, KnowsWallet
      <4>2. AllSmall(l)' /\ collector'[m].pc = "mark"
        BY <3>5, <4>1 DEF AllSmall, LooksFor, SendNativeMove, Stands
      <4> QED BY <4>1, <4>2 DEF KnowsWallet
    <3> QED BY <1>8, <3>1, <3>2, <3>3, <3>4, <3>5 DEF WorkMove
  <2> QED BY <1>3, <1>5, <2>1, <2>2 DEF SweptInOrder
<1> QED BY <1>7, <1>8

LEMMA SweptStep ==
  ASSUME ReclaimTyped, SweptInv, ReclaimMove
  PROVE  SweptInv'
<1> SUFFICES ASSUME NEW l \in Settled, Orderly(l)' PROVE SweptInOrder(l)'
  BY DEF SweptInv
<1>0. Orderly(l) /\ SweptInOrder(l)
  BY OrderlyBefore DEF SweptInv
<1>1. CASE WaitMove
  <2>1. Elsewhere(l)
    BY <1>1 DEF WaitMove, linkDocuments, Elsewhere, HeldBy, Orderly
  <2> QED BY <1>0, <2>1, ElsewhereKeeps
<1>2. ASSUME NEW m \in Collectors, SelectMove(m) PROVE SweptInOrder(l)'
  <2>1. CASE l \notin collector'[m].queue
    <3>1. Elsewhere(l)
      BY <1>2, <2>1 DEF SelectMove, Stands, walletState, Elsewhere, HeldBy
    <3> QED BY <1>0, <3>1, ElsewhereKeeps
  <2>2. CASE l \in collector'[m].queue
    <3>1. ~reclaimed[l] /\ UNCHANGED <<reclaimed, walletState, retries>>
      BY <1>2, <2>2 DEF SelectMove
    <3>2. l \notin HeldByOthers(m)
      BY <1>2, <2>2 DEF SelectMove, Orderly
    <3>3. \A n \in Collectors : n # m => ~HeldBy(n, l)
      BY <3>2 DEF HeldByOthers, HeldBy
    <3>4. \A n \in Collectors : HeldBy(n, l)' => n = m
      BY <1>2, <3>3 DEF SelectMove, Stands, HeldBy
    <3>5. \A n \in Collectors : KnowsWallet(n, l)'
      BY <1>2, <3>4 DEF SelectMove, Stands, HeldBy, KnowsWallet
    <3> QED BY <3>1, <3>4, <3>5 DEF SweptInOrder
  <2> QED BY <2>1, <2>2
<1>3. ASSUME NEW m \in Collectors, EndMove(m) PROVE SweptInOrder(l)'
  <2>1. Elsewhere(l)
    BY <1>3 DEF EndMove, Stands, linkDocuments, walletState, Elsewhere, HeldBy
  <2> QED BY <1>0, <2>1, ElsewhereKeeps
<1>4. ASSUME NEW m \in Collectors, NEW k \in Settled, SkipMove(m, k) PROVE SweptInOrder(l)'
  <2>1. Elsewhere(l)
    BY <1>4 DEF SkipMove, Takes, Stands, linkDocuments, walletState, Elsewhere, HeldBy
  <2> QED BY <1>0, <2>1, ElsewhereKeeps
<1>5. ASSUME NEW m \in Collectors, NEW k \in Settled, GiveUpMove(m, k) PROVE SweptInOrder(l)'
  <2>1. CASE k # l
    <3>1. Elsewhere(l)
      BY <1>5, <2>1 DEF GiveUpMove, Takes, Stands, walletState, Elsewhere, HeldBy, ReclaimTyped, ReclaimTypeOK
    <3> QED BY <1>0, <3>1, ElsewhereKeeps
  <2>2. CASE k = l
    <3>1. \A n \in Collectors : HeldBy(n, l) => n = m
      BY <1>0, <1>5, <2>2 DEF GiveUpMove, Takes, SweptInOrder, HeldBy
    <3>2. \A n \in Collectors : ~HeldBy(n, l)'
      BY <1>5, <2>2, <3>1 DEF GiveUpMove, Takes, Stands, HeldBy
    <3>3. retries'[l] > MaxReclaimRetries
      BY <1>5, <2>2 DEF GiveUpMove, Spent, ReclaimTyped, ReclaimTypeOK
    <3>4. retries'[l] \in Nat
      BY <1>5, <2>2 DEF GiveUpMove, ReclaimTyped, ReclaimTypeOK, CollectorState
    <3>5. \A n \in Collectors : KnowsWallet(n, l)'
      BY <3>2 DEF HeldBy, KnowsWallet
    <3> QED BY <3>2, <3>3, <3>4, <3>5 DEF SweptInOrder, MaxReclaimRetries
  <2> QED BY <2>1, <2>2
<1>6. ASSUME NEW m \in Collectors, NEW k \in Settled, AttemptMove(m, k) PROVE SweptInOrder(l)'
  <2>1. CASE k # l
    <3>1. Elsewhere(l)
      <4>1. retries'[l] = retries[l] /\ UNCHANGED <<reclaimed, tokens, gas>>
        BY <1>6, <2>1 DEF AttemptMove, walletState, ReclaimTyped, ReclaimTypeOK
      <4>2. /\ \A n \in Collectors : HeldBy(n, l)' => HeldBy(n, l)
            /\ \A n \in Collectors : collector'[n].link = {l} => collector'[n] = collector[n]
        BY <1>6, <2>1 DEF AttemptMove, Takes, Stands, HeldBy
      <4> QED BY <4>1, <4>2 DEF Elsewhere
    <3> QED BY <1>0, <3>1, ElsewhereKeeps
  <2>2. CASE k = l
    <3>1. ~reclaimed[l] /\ \A n \in Collectors : HeldBy(n, l) => n = m
      BY <1>0, <1>6, <2>2 DEF AttemptMove, Takes, SweptInOrder, HeldBy
    <3>2. ~reclaimed'[l] /\ \A n \in Collectors : HeldBy(n, l)' => n = m
      BY <1>6, <2>2, <3>1 DEF AttemptMove, Takes, Stands, HeldBy
    <3>3. collector'[m].pc = "readTokens"
      BY <1>6, <2>2 DEF AttemptMove, Stands, Orderly
    <3>4. \A n \in Collectors : KnowsWallet(n, l)'
      BY <3>2, <3>3 DEF HeldBy, KnowsWallet
    <3> QED BY <3>2, <3>4 DEF SweptInOrder
  <2> QED BY <2>1, <2>2
<1>7. ASSUME NEW m \in Collectors, NEW k \in Settled, WorkMove(m, k) PROVE SweptInOrder(l)'
  <2>1. CASE k # l
    <3>1. /\ reclaimed'[l] = reclaimed[l] /\ retries'[l] = retries[l]
          /\ tokens'[l] = tokens[l] /\ gas'[l] = gas[l]
      <4>0. /\ tokens \in [Settled -> [Tokens -> Nat]] /\ gas \in [Settled -> 0..2]
            /\ reclaimed \in [Settled -> BOOLEAN]
        BY DEF ReclaimTyped, ReclaimTypeOK
      <4>1. CASE LeaveMove(m, k) \/ ReadTokensMove(m, k) \/ ReadNativeMove(m, k) \/ SendNativeMove(m, k)
        BY <2>1, <4>0, <4>1 DEF LeaveMove, ReadTokensMove, ReadNativeMove, SendNativeMove,
                                linkDocuments, walletState
      <4>2. ASSUME NEW t \in Tokens, FundMove(m, k, t)
            PROVE  /\ UNCHANGED <<reclaimed, retries, tokens>> /\ gas'[l] = gas[l]
        BY <2>1, <4>0, <4>2 DEF FundMove, SendGas, linkDocuments
      <4>3. ASSUME NEW t \in Tokens, SendTokenMove(m, k, t)
            PROVE  /\ UNCHANGED <<reclaimed, retries>> /\ gas'[l] = gas[l] /\ tokens'[l] = tokens[l]
        BY <2>1, <4>0, <4>3 DEF SendTokenMove, linkDocuments
      <4> QED BY <1>7, <4>1, <4>2, <4>3 DEF WorkMove
    <3>2. KeepsList(m) /\ (Stands(m, "next", {}) \/ \E p \in Sweeping : Stands(m, p, {k}))
      BY <1>7 DEF WorkMove, LeaveMove, ReadTokensMove, FundMove, SendTokenMove, Strikes, ReadNativeMove,
           SendNativeMove, Sweeping
    <3>3. /\ \A n \in Collectors : HeldBy(n, l)' => HeldBy(n, l)
          /\ \A n \in Collectors : collector'[n].link = {l} => collector'[n] = collector[n]
      BY <2>1, <3>2 DEF KeepsList, Stands, HeldBy
    <3> QED BY <1>0, <3>1, <3>3, ElsewhereKeeps DEF Elsewhere
  <2>2. CASE k = l
    BY <1>0, <1>7, <2>2, WorkSweeps
  <2> QED BY <2>1, <2>2
<1> QED BY <1>1, <1>2, <1>3, <1>4, <1>5, <1>6, <1>7 DEF ReclaimMove

\* A wallet that an attempt has closed, and not the limit, holds nothing worth
\* sweeping: for any links, balances, ticks and faults.
THEOREM WalletsAreAlwaysEmptied == ReclaimSpec => []WalletsAreEmptied
<1>1. ReclaimInit => SweptInv
  BY DEF ReclaimInit, IdleCollector, SweptInv, SweptInOrder, HeldBy, KnowsWallet
<1>2. ReclaimTyped /\ SweptInv /\ [ReclaimNext]_reclaimVars => SweptInv'
  BY SweptStep, StepIsReclaimMove
<1>3. ReclaimTyped /\ SweptInv => WalletsAreEmptied
  BY DEF ReclaimTyped, SweptInv, SweptInOrder, Orderly, WalletsAreEmptied, ClosedIsEmpty, AllSmall
<1> QED BY <1>1, <1>2, <1>3, ReclaimTypedInv, PTL DEF ReclaimSpec

-----------------------------------------------------------------------------
(* AppRegistry: types, and what an activation holds.                       *)

\* An activation of addApp works on one app, which no other works on, and which
\* has no document until it is saved.
CreatorsInOrder ==
  /\ \A c \in Creators : creator[c].pc = "idle" => creator[c].id = {}
  /\ \A c \in Creators : creator[c].pc # "idle" =>
       /\ creator[c].name \in Names
       /\ \E i \in AppIds : /\ creator[c].id = {i}
                            /\ app[i] = "none" <=> creator[c].pc \notin {"stream", "row"}
  /\ \A c, d \in Creators : c # d => creator[c].id \cap creator[d].id = {}

\* What has a row was stored; what a tick is about to remove was deleted.
CleanersInOrder ==
  /\ \A i \in rows : app[i] # "none"
  /\ \A k \in Cleaners : /\ \A i \in cleaner[k].todo : app[i] # "none"
                         /\ \A i \in cleaner[k].orphans : app[i] = "deleted"

RegistryTyped == RegistryTypeOK /\ CreatorsInOrder /\ CleanersInOrder

\* The steps of addApp, told by what they do to the activation.
Turn(c, p) ==
  /\ creator' \in [Creators -> CreatorState]
  /\ creator'[c].pc = p
  /\ creator'[c].id = creator[c].id /\ creator'[c].name = creator[c].name
  /\ \A d \in Creators : d # c => creator'[d] = creator[d]

Gone(c) ==
  /\ creator' \in [Creators -> CreatorState]
  /\ creator'[c].pc = "idle" /\ creator'[c].id = {}
  /\ \A d \in Creators : d # c => creator'[d] = creator[d]

\* Documents of apps are written, of those only that are there.
Rewritten ==
  /\ app' \in [AppIds -> Names \cup {"none", "deleted"}]
  /\ \A i \in AppIds : app'[i] # app[i] => i \in Live /\ app'[i] # "none"

AskMove(c, i) ==
  /\ UNCHANGED <<app, coins, rows, watched, cleaner, appFaults, cut, unheard, left>>
  /\ app[i] = "none" /\ i \notin Creating /\ creator[c].pc = "idle"
  /\ creator' \in [Creators -> CreatorState]
  /\ creator'[c].pc = "name" /\ creator'[c].id = {i} /\ creator'[c].name \in Names
  /\ \A d \in Creators : d # c => creator'[d] = creator[d]
  /\ raced \subseteq raced' /\ raced' \subseteq Merchants
  /\ Owner[i] \in {Owner[j] : j \in Creating} => Owner[i] \in raced'

\* The activation goes on, or ends before the app is stored.
CheckMove(c, i) ==
  /\ UNCHANGED <<app, rows, watched, cleaner, cut, unheard, left, raced>>
  /\ coins' \in 0..Coins /\ appFaults' \in 0..MaxAppFaults
  /\ creator[c].id = {i}
  /\ \/ creator[c].pc = "name" /\ Turn(c, "count")
     \/ creator[c].pc = "count" /\ ~Full(Owner[i]) /\ Turn(c, "activate")
     \/ creator[c].pc = "activate" /\ Turn(c, "save")
     \/ creator[c].pc \in {"name", "count", "activate", "save"} /\ Gone(c)

SaveMove(c, i) ==
  /\ UNCHANGED <<coins, rows, watched, cleaner, appFaults, cut, unheard, left, raced>>
  /\ creator[c].id = {i} /\ creator[c].pc = "save" /\ Turn(c, "stream")
  /\ \E n \in Names : app' = [app EXCEPT ![i] = n]

WatchMove(c, i) ==
  /\ UNCHANGED <<app, coins, rows, cleaner, cut, left, raced>>
  /\ appFaults' \in 0..MaxAppFaults
  /\ creator[c].id = {i} /\ creator[c].pc = "stream" /\ Turn(c, "row")
  /\ \/ watched' = watched \cup {i} /\ UNCHANGED unheard
     \/ unheard' = unheard \cup {i} /\ UNCHANGED watched

RowMove(c, i) ==
  /\ UNCHANGED <<app, coins, watched, cleaner, appFaults, cut, unheard, left, raced>>
  /\ creator[c].id = {i} /\ creator[c].pc = "row" /\ Gone(c)
  /\ rows' = rows \cup {i}

StopMove(c, i) ==
  /\ UNCHANGED <<app, rows, watched, cleaner, unheard, left, raced>>
  /\ coins' \in 0..Coins /\ appFaults' \in 0..MaxAppFaults
  /\ creator[c].id = {i} /\ Gone(c)
  /\ cut' = cut \cup {j \in {i} : app[j] # "none"}

RewriteMove ==
  /\ UNCHANGED <<coins, rows, watched, creator, cleaner, appFaults, cut, unheard, left, raced>>
  /\ Rewritten

\* Ticks remove what their list says, or less.
CleanMove(k) ==
  /\ UNCHANGED <<app, coins, creator, cut, unheard, raced>>
  /\ appFaults' \in 0..MaxAppFaults /\ left' \subseteq AppIds
  /\ rows' \subseteq rows /\ rows \ cleaner[k].orphans \subseteq rows'
  /\ watched' \subseteq watched /\ watched \ cleaner[k].orphans \subseteq watched'
  /\ cleaner' \in [Cleaners -> [pc : {"idle", "check", "addresses"},
                                todo : SUBSET AppIds, orphans : SUBSET AppIds]]
  /\ cleaner'[k].todo \subseteq cleaner[k].todo \cup rows
  /\ \A i \in cleaner'[k].orphans :
       i \in cleaner[k].orphans \/ (i \in cleaner[k].todo /\ i \notin Live)
  /\ \A j \in Cleaners : j # k => cleaner'[j] = cleaner[j]

RegistryMove ==
  \/ \E c \in Creators, i \in AppIds :
       \/ AskMove(c, i) \/ CheckMove(c, i) \/ SaveMove(c, i)
       \/ WatchMove(c, i) \/ RowMove(c, i) \/ StopMove(c, i)
  \/ \E k \in Cleaners : CleanMove(k)
  \/ RewriteMove

LEMMA MadeIsApp ==
  ASSUME NEW c, NEW i, creator[c].id = {i}
  PROVE  Made(c) = i
BY DEF Made

LEMMA CreatorMoves ==
  ASSUME RegistryTyped, NEW c \in Creators, creator[c].pc # "idle"
  PROVE  /\ \A p \in {"count", "activate", "save", "stream", "row"} : Moves(c, p) => Turn(c, p)
         /\ Answers(c) => Gone(c)
<1>1. creator \in [Creators -> CreatorState] /\ IdleCreator \in [pc : {"idle"}, id : SUBSET AppIds, name : {""}, rich : BOOLEAN]
  BY DEF RegistryTyped, RegistryTypeOK, IdleCreator
<1>2. IdleCreator \in CreatorState
  BY <1>1 DEF CreatorState
<1>3. ASSUME NEW p \in {"count", "activate", "save", "stream", "row"}, Moves(c, p)
      PROVE  Turn(c, p)
  <2>1. [creator[c] EXCEPT !.pc = p] \in CreatorState
    BY <1>1 DEF CreatorState
  <2>2. creator' = [creator EXCEPT ![c] = [creator[c] EXCEPT !.pc = p]]
    BY <1>3 DEF Moves
  <2>3. creator' \in [Creators -> CreatorState] /\ creator'[c] = [creator[c] EXCEPT !.pc = p]
    BY <1>1, <2>1, <2>2
  <2>4. creator'[c].pc = p /\ creator'[c].id = creator[c].id /\ creator'[c].name = creator[c].name
    BY <1>1, <2>3 DEF CreatorState
  <2> QED BY <1>1, <2>2, <2>3, <2>4 DEF Turn
<1>4. ASSUME Answers(c) PROVE Gone(c)
  <2>1. creator' \in [Creators -> CreatorState] /\ creator'[c] = IdleCreator
    BY <1>1, <1>2, <1>4 DEF Answers
  <2> QED BY <1>1, <1>4, <2>1 DEF Gone, Answers, IdleCreator
<1> QED BY <1>3, <1>4

LEMMA CreatorStepMoves ==
  ASSUME RegistryTyped, NEW c \in Creators, CreatorStep(c) \/ CreationStops(c)
  PROVE  \E i \in AppIds : \/ CheckMove(c, i) \/ SaveMove(c, i) \/ WatchMove(c, i)
                           \/ RowMove(c, i) \/ StopMove(c, i)
<1>1. creator[c].pc # "idle"
  BY DEF CreatorStep, CheckName, CheckCount, Activate, SaveApp, Watch, StoreRow, CreationStops
<1>2. PICK i \in AppIds : creator[c].id = {i} /\ creator[c].name \in Names
  BY <1>1 DEF RegistryTyped, CreatorsInOrder
<1>3. Made(c) = i
  BY <1>2, MadeIsApp
<1>4. coins \in 0..Coins /\ appFaults \in 0..MaxAppFaults /\ MaxAppFaults \in Nat /\ Coins \in Nat
  BY AppAssumption DEF RegistryTyped, RegistryTypeOK
<1> HIDE DEF Live, Full
<1>5. CASE CheckName(c)
  <2>1. Turn(c, "count") \/ Gone(c)
    BY <1>1, <1>5, CreatorMoves DEF CheckName
  <2> QED BY <1>2, <1>4, <1>5, <2>1 DEF CheckName, CheckMove
<1>6. CASE CheckCount(c)
  <2>1. (~Full(Owner[i]) /\ Turn(c, "activate")) \/ Gone(c)
    BY <1>1, <1>3, <1>6, CreatorMoves DEF CheckCount
  <2> QED BY <1>2, <1>4, <1>6, <2>1 DEF CheckCount, CheckMove
<1>7. CASE Activate(c)
  <2>1. (coins' = coins - 1 /\ coins > 0 /\ Turn(c, "save")) \/ (UNCHANGED coins /\ Gone(c))
    BY <1>1, <1>7, CreatorMoves DEF Activate, Proceeds, After
  <2>2. coins' \in 0..Coins
    BY <1>4, <2>1
  <2> QED BY <1>2, <1>4, <1>7, <2>1, <2>2 DEF Activate, CheckMove
<1>8. CASE SaveApp(c)
  <2>1. Trim[creator[c].name] \in Names
    BY <1>2, AppAssumption
  <2>2. CASE UNCHANGED app /\ Answers(c)
    <3>1. Gone(c)
      BY <1>1, <2>2, CreatorMoves
    <3> QED BY <1>2, <1>4, <1>8, <2>2, <3>1 DEF SaveApp, CheckMove
  <2>3. CASE Proceeds(c, "save") /\ app' = [app EXCEPT ![Made(c)] = Trim[creator[c].name]]
    <3>1. Turn(c, "stream")
      BY <1>1, <2>3, CreatorMoves DEF Proceeds, After
    <3> QED BY <1>2, <1>3, <1>8, <2>1, <2>3, <3>1 DEF SaveApp, SaveMove
  <2> QED BY <1>8, <2>2, <2>3 DEF SaveApp
<1>9. CASE Watch(c)
  <2>1. Turn(c, "row")
    BY <1>1, <1>9, CreatorMoves DEF Watch, Proceeds, After
  <2>2. appFaults' \in 0..MaxAppFaults
    BY <1>4, <1>9 DEF Watch
  <2> QED BY <1>2, <1>3, <1>9, <2>1, <2>2 DEF Watch, WatchMove
<1>10. CASE StoreRow(c)
  <2>1. Gone(c)
    BY <1>1, <1>10, CreatorMoves DEF StoreRow, Proceeds, After
  <2> QED BY <1>2, <1>3, <1>10, <2>1 DEF StoreRow, RowMove
<1>11. CASE CreationStops(c)
  <2>1. Gone(c)
    BY <1>1, <1>11, CreatorMoves DEF CreationStops
  <2>2. appFaults' \in 0..MaxAppFaults /\ coins' \in 0..Coins
    BY <1>4, <1>11 DEF CreationStops, AppFault
  <2> QED BY <1>2, <1>11, <2>1, <2>2 DEF CreationStops, StopMove
<1> QED BY <1>5, <1>6, <1>7, <1>8, <1>9, <1>10, <1>11 DEF CreatorStep

LEMMA CleanerMoves ==
  ASSUME RegistryTyped, NEW k \in Cleaners, CleanerStep(k) \/ CleanerStops(k)
  PROVE  CleanMove(k)
<1> DEFINE CleanerState == [pc : {"idle", "check", "addresses"}, todo : SUBSET AppIds, orphans : SUBSET AppIds]
<1>1. /\ cleaner \in [Cleaners -> CleanerState] /\ cleaner[k] \in CleanerState
      /\ IdleCleaner \in CleanerState
      /\ rows \subseteq AppIds /\ left \subseteq AppIds
      /\ appFaults \in 0..MaxAppFaults /\ MaxAppFaults \in Nat
  BY AppAssumption DEF RegistryTyped, RegistryTypeOK, IdleCleaner
<1> HIDE DEF CleanerState, Live
<1>2. ASSUME NEW r \in CleanerState, cleaner' = [cleaner EXCEPT ![k] = r]
      PROVE  /\ cleaner' \in [Cleaners -> CleanerState] /\ cleaner'[k] = r
             /\ \A j \in Cleaners : j # k => cleaner'[j] = cleaner[j]
  BY <1>1, <1>2
<1>3. CASE ListRows(k)
  <2>1. [pc |-> "check", todo |-> rows, orphans |-> {}] \in CleanerState
    BY <1>1 DEF CleanerState
  <2>2. /\ cleaner' \in [Cleaners -> CleanerState]
        /\ cleaner'[k] = [pc |-> "check", todo |-> rows, orphans |-> {}]
        /\ \A j \in Cleaners : j # k => cleaner'[j] = cleaner[j]
    BY <1>2, <1>3, <2>1 DEF ListRows
  <2> QED BY <1>1, <1>3, <2>2 DEF ListRows, CleanMove, CleanerState
<1>4. ASSUME NEW i \in AppIds, CheckRow(k, i) PROVE CleanMove(k)
  <2> DEFINE r == [cleaner[k] EXCEPT !.todo = @ \ {i},
                                     !.orphans = IF i \in Live THEN @ ELSE @ \cup {i}]
  <2>1. r \in CleanerState
    BY <1>1 DEF CleanerState
  <2>2. cleaner' = [cleaner EXCEPT ![k] = r]
    BY <1>1, <1>4 DEF CheckRow, CleanerState
  <2>3. r.todo \subseteq cleaner[k].todo /\ r.orphans \subseteq (cleaner[k].orphans \cup ({i} \ Live))
    BY <1>1 DEF CleanerState
  <2> HIDE DEF r
  <2>4. /\ cleaner' \in [Cleaners -> CleanerState] /\ cleaner'[k] = r
        /\ \A j \in Cleaners : j # k => cleaner'[j] = cleaner[j]
    BY <1>2, <2>1, <2>2
  <2> QED BY <1>1, <1>4, <2>3, <2>4 DEF CheckRow, CleanMove, CleanerState
<1>5. CASE DeleteRows(k)
  <2> DEFINE r == IF cleaner[k].orphans = {} THEN IdleCleaner ELSE [cleaner[k] EXCEPT !.pc = "addresses"]
  <2>1. r \in CleanerState
    BY <1>1 DEF CleanerState
  <2>2. cleaner' = [cleaner EXCEPT ![k] = r]
    BY <1>1, <1>5 DEF DeleteRows, CleanerState
  <2>3. r.todo \subseteq cleaner[k].todo /\ r.orphans \subseteq cleaner[k].orphans
    BY <1>1 DEF CleanerState, IdleCleaner
  <2> HIDE DEF r
  <2>4. /\ cleaner' \in [Cleaners -> CleanerState] /\ cleaner'[k] = r
        /\ \A j \in Cleaners : j # k => cleaner'[j] = cleaner[j]
    BY <1>2, <2>1, <2>2
  <2> QED BY <1>1, <1>5, <2>3, <2>4 DEF DeleteRows, CleanMove, CleanerState
<1>6. CASE DeleteAddresses(k) \/ CleanerStops(k)
  <2>1. /\ cleaner' \in [Cleaners -> CleanerState] /\ cleaner'[k] = IdleCleaner
        /\ \A j \in Cleaners : j # k => cleaner'[j] = cleaner[j]
    BY <1>1, <1>2, <1>6 DEF DeleteAddresses, CleanerStops
  <2>2. IdleCleaner.todo = {} /\ IdleCleaner.orphans = {}
    BY DEF IdleCleaner
  <2>3. left' \subseteq AppIds /\ appFaults' \in 0..MaxAppFaults
    BY <1>1, <1>6 DEF DeleteAddresses, CleanerStops, AppFault, CleanerState
  <2> QED BY <1>1, <1>6, <2>1, <2>2, <2>3 DEF DeleteAddresses, CleanerStops, CleanMove, CleanerState
<1> QED BY <1>3, <1>4, <1>5, <1>6 DEF CleanerStep

LEMMA StepIsRegistryMove ==
  ASSUME RegistryTyped, [RegistryNext]_appVars
  PROVE  RegistryMove \/ UNCHANGED appVars
<1>1. ASSUME NEW c \in Creators, NEW i \in AppIds, NEW n \in Names, AskApp(c, i, n)
      PROVE  AskMove(c, i)
  <2>0. (coins > 0) \in BOOLEAN
    OBVIOUS
  <2>1. [pc |-> "name", id |-> {i}, name |-> n, rich |-> coins > 0] \in CreatorState
    BY <2>0, Zenon DEF CreatorState
  <2>2. /\ creator' \in [Creators -> CreatorState]
        /\ creator'[c] = [pc |-> "name", id |-> {i}, name |-> n, rich |-> coins > 0]
        /\ \A d \in Creators : d # c => creator'[d] = creator[d]
    BY <1>1, <2>1 DEF AskApp, RegistryTyped, RegistryTypeOK
  <2>3. raced \subseteq Merchants /\ Owner[i] \in Merchants
    BY DEF RegistryTyped, RegistryTypeOK, Merchants
  <2> QED BY <1>1, <2>2, <2>3 DEF AskApp, AskMove
<1>2. ASSUME NEW i \in AppIds, DeleteApp(i) \/ \E n \in Names : RenameApp(i, n)
      PROVE  RewriteMove
  <2>1. PICK n \in Names \cup {"deleted"} : app' = [app EXCEPT ![i] = n] /\ i \in Live
    BY <1>2, AppAssumption DEF DeleteApp, RenameApp
  <2>2. n # "none"
    BY <2>1, AppAssumption
  <2>3. app \in [AppIds -> Names \cup {"none", "deleted"}]
    BY DEF RegistryTyped, RegistryTypeOK
  <2> HIDE DEF Live
  <2>4. Rewritten
    BY <2>1, <2>2, <2>3 DEF Rewritten
  <2> QED BY <1>2, <2>4 DEF DeleteApp, RenameApp, RewriteMove
<1> QED BY <1>1, <1>2, CreatorStepMoves, CleanerMoves DEF RegistryNext, RegistryMove

LEMMA RegistryTypedStep ==
  ASSUME RegistryTyped, RegistryMove
  PROVE  RegistryTyped'
<1>0. Names \cap {"none", "deleted"} = {}
  BY AppAssumption
<1>1. ASSUME NEW c \in Creators, NEW i \in AppIds, AskMove(c, i) PROVE RegistryTyped'
  <2>1. RegistryTypeOK'
    BY <1>1 DEF AskMove, RegistryTyped, RegistryTypeOK
  <2>2. CreatorsInOrder'
    BY <1>1 DEF AskMove, RegistryTyped, CreatorsInOrder, Creating
  <2> QED BY <1>1, <2>1, <2>2 DEF AskMove, RegistryTyped, CleanersInOrder
<1>2. ASSUME NEW c \in Creators, NEW i \in AppIds, CheckMove(c, i) PROVE RegistryTyped'
  <2>1. RegistryTypeOK'
    BY <1>2 DEF CheckMove, Turn, Gone, RegistryTyped, RegistryTypeOK
  <2>2. CreatorsInOrder'
    BY <1>2 DEF CheckMove, Turn, Gone, RegistryTyped, CreatorsInOrder
  <2> QED BY <1>2, <2>1, <2>2 DEF CheckMove, RegistryTyped, CleanersInOrder
<1>3. ASSUME NEW c \in Creators, NEW i \in AppIds, SaveMove(c, i) PROVE RegistryTyped'
  <2>0. app[i] = "none"
    BY <1>3 DEF SaveMove, RegistryTyped, CreatorsInOrder
  <2>1. /\ app'[i] # "none" /\ \A j \in AppIds : j # i => app'[j] = app[j]
        /\ app' \in [AppIds -> Names \cup {"none", "deleted"}]
    BY <1>0, <1>3 DEF SaveMove, RegistryTyped, RegistryTypeOK
  <2>2. RegistryTypeOK'
    BY <1>3, <2>1 DEF SaveMove, Turn, RegistryTyped, RegistryTypeOK
  <2>3. CreatorsInOrder'
    BY <1>3, <2>0, <2>1 DEF SaveMove, Turn, RegistryTyped, CreatorsInOrder
  <2>4. CleanersInOrder'
    BY <1>3, <2>0, <2>1 DEF SaveMove, RegistryTyped, RegistryTypeOK, CleanersInOrder
  <2> QED BY <2>2, <2>3, <2>4 DEF RegistryTyped
<1>4. ASSUME NEW c \in Creators, NEW i \in AppIds, WatchMove(c, i) PROVE RegistryTyped'
  <2>1. RegistryTypeOK'
    BY <1>4 DEF WatchMove, Turn, RegistryTyped, RegistryTypeOK
  <2>2. CreatorsInOrder'
    BY <1>4 DEF WatchMove, Turn, RegistryTyped, CreatorsInOrder
  <2> QED BY <1>4, <2>1, <2>2 DEF WatchMove, RegistryTyped, CleanersInOrder
<1>5. ASSUME NEW c \in Creators, NEW i \in AppIds, RowMove(c, i) PROVE RegistryTyped'
  <2>1. app[i] # "none"
    BY <1>5 DEF RowMove, RegistryTyped, CreatorsInOrder
  <2>2. RegistryTypeOK'
    BY <1>5 DEF RowMove, Gone, RegistryTyped, RegistryTypeOK
  <2>3. CreatorsInOrder'
    BY <1>5 DEF RowMove, Gone, RegistryTyped, CreatorsInOrder
  <2>4. CleanersInOrder'
    BY <1>5, <2>1 DEF RowMove, RegistryTyped, CleanersInOrder
  <2> QED BY <2>2, <2>3, <2>4 DEF RegistryTyped
<1>6. ASSUME NEW c \in Creators, NEW i \in AppIds, StopMove(c, i) PROVE RegistryTyped'
  <2>1. RegistryTypeOK'
    BY <1>6 DEF StopMove, Gone, RegistryTyped, RegistryTypeOK
  <2>2. CreatorsInOrder'
    BY <1>6 DEF StopMove, Gone, RegistryTyped, CreatorsInOrder
  <2> QED BY <1>6, <2>1, <2>2 DEF StopMove, RegistryTyped, CleanersInOrder
<1>7. ASSUME NEW k \in Cleaners, CleanMove(k) PROVE RegistryTyped'
  <2>1. RegistryTypeOK'
    BY <1>7 DEF CleanMove, RegistryTyped, RegistryTypeOK
  <2>2. CreatorsInOrder'
    BY <1>7 DEF CleanMove, RegistryTyped, CreatorsInOrder
  <2>3. \A i \in rows' : app'[i] # "none"
    BY <1>7 DEF CleanMove, RegistryTyped, CleanersInOrder
  <2>4. /\ \A i \in cleaner'[k].todo : app'[i] # "none"
        /\ \A i \in cleaner'[k].orphans : app'[i] = "deleted"
    BY <1>7 DEF CleanMove, RegistryTyped, RegistryTypeOK, CleanersInOrder, Live
  <2>5. CleanersInOrder'
    BY <1>7, <2>3, <2>4 DEF CleanMove, RegistryTyped, CleanersInOrder
  <2> QED BY <2>1, <2>2, <2>5 DEF RegistryTyped
<1>8. CASE RewriteMove
  <2>1. \A i \in AppIds : (app[i] = "none" => app'[i] = "none") /\ (app[i] = "deleted" => app'[i] = "deleted")
    BY <1>8 DEF RewriteMove, Rewritten, Live
  <2>2. \A i \in AppIds : app[i] # "none" => app'[i] # "none"
    BY <1>8 DEF RewriteMove, Rewritten
  <2>3. RegistryTypeOK'
    BY <1>8 DEF RewriteMove, Rewritten, RegistryTyped, RegistryTypeOK
  <2>4. CreatorsInOrder'
    BY <1>8, <2>1, <2>2 DEF RewriteMove, RegistryTyped, CreatorsInOrder
  <2>5. CleanersInOrder'
    BY <1>8, <2>1, <2>2 DEF RewriteMove, RegistryTyped, RegistryTypeOK, CleanersInOrder
  <2> QED BY <2>3, <2>4, <2>5 DEF RegistryTyped
<1> QED BY <1>1, <1>2, <1>3, <1>4, <1>5, <1>6, <1>7, <1>8 DEF RegistryMove

LEMMA RegistryTypedInv == RegistrySpec => []RegistryTyped
<1>1. ASSUME RegistryInit PROVE RegistryTyped
  <2>1. IdleCreator \in CreatorState /\ IdleCreator.pc = "idle" /\ IdleCreator.id = {}
    BY DEF IdleCreator, CreatorState
  <2>2. /\ IdleCleaner \in [pc : {"idle", "check", "addresses"}, todo : SUBSET AppIds, orphans : SUBSET AppIds]
        /\ IdleCleaner.todo = {} /\ IdleCleaner.orphans = {}
    BY DEF IdleCleaner
  <2>3. RegistryTypeOK
    BY <1>1, <2>1, <2>2, AppAssumption DEF RegistryInit, RegistryTypeOK
  <2>4. \A c \in Creators : creator[c].pc = "idle" /\ creator[c].id = {}
    BY <1>1, <2>1 DEF RegistryInit
  <2>5. CreatorsInOrder
    BY <2>4 DEF CreatorsInOrder
  <2>6. CleanersInOrder
    BY <1>1, <2>2 DEF RegistryInit, CleanersInOrder
  <2> QED BY <2>3, <2>5, <2>6 DEF RegistryTyped
<1>2. RegistryTyped /\ [RegistryNext]_appVars => RegistryTyped'
  <2>1. RegistryTyped /\ UNCHANGED appVars => RegistryTyped'
    BY DEF appVars, RegistryTyped, RegistryTypeOK, CreatorsInOrder, CleanersInOrder
  <2> QED BY <2>1, RegistryTypedStep, StepIsRegistryMove
<1> QED BY <1>1, <1>2, PTL DEF RegistrySpec

-----------------------------------------------------------------------------
(* AppRegistry: rows and watched addresses.                                *)

\* The address of a stored app is watched, or Moralis refused it, from the time
\* its row is to be stored.
Heard(i) == i \in watched \/ i \in unheard

WatchInv ==
  /\ \A i \in Live \ (cut \cup Creating) : i \in rows /\ Heard(i)
  /\ \A c \in Creators : \A i \in Live : i \in creator[c].id /\ creator[c].pc = "row" => Heard(i)

LEMMA WatchStep ==
  ASSUME RegistryTyped, WatchInv, RegistryMove
  PROVE  WatchInv'
<1>0. app \in [AppIds -> Names \cup {"none", "deleted"}] /\ Live \subseteq AppIds
  BY DEF RegistryTyped, RegistryTypeOK, Live
<1>1. ASSUME NEW c \in Creators, NEW i \in AppIds, AskMove(c, i) PROVE WatchInv'
  <2>1. Creating \subseteq Creating'
    BY <1>1 DEF AskMove, Creating, RegistryTyped, CreatorsInOrder
  <2> QED BY <1>1, <2>1 DEF AskMove, WatchInv, Heard, Live
<1>2. ASSUME NEW c \in Creators, NEW i \in AppIds, CheckMove(c, i) PROVE WatchInv'
  <2>1. app[i] = "none"
    BY <1>2 DEF CheckMove, RegistryTyped, CreatorsInOrder
  <2>2. Creating \subseteq Creating' \cup {i}
    BY <1>2 DEF CheckMove, Turn, Gone, Creating
  <2>3. \A d \in Creators : creator'[d].pc = "row" => d # c
    BY <1>2 DEF CheckMove, Turn, Gone
  <2> QED BY <1>2, <2>1, <2>2, <2>3 DEF CheckMove, Turn, Gone, WatchInv, Heard, Live
<1>3. ASSUME NEW c \in Creators, NEW i \in AppIds, SaveMove(c, i) PROVE WatchInv'
  <2>1. i \in Creating' /\ Creating' = Creating
    BY <1>3 DEF SaveMove, Turn, Creating
  <2>2. \A j \in Live' : j # i => j \in Live
    BY <1>0, <1>3 DEF SaveMove, Live
  <2>3. \A d \in Creators : d # c => i \notin creator[d].id
    BY <1>3 DEF SaveMove, RegistryTyped, CreatorsInOrder
  <2> QED BY <1>3, <2>1, <2>2, <2>3 DEF SaveMove, Turn, WatchInv, Heard
<1>4. ASSUME NEW c \in Creators, NEW i \in AppIds, WatchMove(c, i) PROVE WatchInv'
  <2>1. Creating' = Creating
    BY <1>4 DEF WatchMove, Turn, Creating
  <2>2. Heard(i)' /\ \A j \in AppIds : Heard(j) => Heard(j)'
    BY <1>4 DEF WatchMove, Heard
  <2> QED BY <1>0, <1>4, <2>1, <2>2 DEF WatchMove, Turn, WatchInv, Live
<1>5. ASSUME NEW c \in Creators, NEW i \in AppIds, RowMove(c, i) PROVE WatchInv'
  <2>1. Creating \subseteq Creating' \cup {i}
    BY <1>5 DEF RowMove, Gone, Creating
  <2>2. i \in Live => Heard(i)
    BY <1>5 DEF RowMove, WatchInv
  <2> QED BY <1>5, <2>1, <2>2 DEF RowMove, Gone, WatchInv, Live, Heard
<1>6. ASSUME NEW c \in Creators, NEW i \in AppIds, StopMove(c, i) PROVE WatchInv'
  <2>1. Creating \subseteq Creating' \cup {i}
    BY <1>6 DEF StopMove, Gone, Creating
  <2>2. i \in Live => i \in cut'
    BY <1>6 DEF StopMove, Live
  <2>3. cut \subseteq cut'
    BY <1>6 DEF StopMove
  <2> QED BY <1>6, <2>1, <2>2, <2>3 DEF StopMove, Gone, WatchInv, Live, Heard
<1>7. ASSUME NEW k \in Cleaners, CleanMove(k) PROVE WatchInv'
  <2>1. \A i \in Live : i \notin cleaner[k].orphans
    BY <1>7 DEF RegistryTyped, CleanersInOrder, Live
  <2> QED BY <1>7, <2>1 DEF CleanMove, WatchInv, Heard, Live, Creating
<1>8. CASE RewriteMove
  <2>1. Live' \subseteq Live
    BY <1>8 DEF RewriteMove, Rewritten, Live
  <2> QED BY <1>8, <2>1 DEF RewriteMove, WatchInv, Heard, Creating
<1> QED BY <1>1, <1>2, <1>3, <1>4, <1>5, <1>6, <1>7, <1>8 DEF RegistryMove

\* Apps that are stored keep their rows and are watched, for any apps, names,
\* ticks and faults.
THEOREM LiveAppsAreAlwaysWatched == RegistrySpec => []LiveAppsAreWatched
<1>1. RegistryInit => WatchInv
  BY DEF RegistryInit, WatchInv, Live, IdleCreator
<1>2. RegistryTyped /\ WatchInv /\ [RegistryNext]_appVars => WatchInv'
  <2>1. WatchInv /\ UNCHANGED appVars => WatchInv'
    BY DEF appVars, WatchInv, Live, Creating, Heard
  <2> QED BY <2>1, WatchStep, StepIsRegistryMove
<1>3. WatchInv => LiveAppsAreWatched
  BY DEF WatchInv, Heard, LiveAppsAreWatched
<1> QED BY <1>1, <1>2, <1>3, RegistryTypedInv, PTL DEF RegistrySpec

-----------------------------------------------------------------------------
(* AppRegistry: the number of apps.                                        *)

LiveOf(m) == {i \in Live : Owner[i] = m}

CreatesFor(c, m) == \E i \in creator[c].id : Owner[i] = m

\* Activations that found room for an app of m, and have not stored it.
Admitted(m) == {c \in Creators : creator[c].pc \in {"activate", "save"} /\ CreatesFor(c, m)}

LimitOf(m) == IF m \in raced THEN AppLimit + (Cardinality(Creators) - 1) ELSE AppLimit

\* The apps of a merchant and those that are admitted are within its limit.
LimitInv ==
  /\ \A m \in Merchants : Cardinality(LiveOf(m)) + Cardinality(Admitted(m)) <= LimitOf(m)
  /\ \A m \in Merchants \ raced : \A c, d \in Creators :
       CreatesFor(c, m) /\ CreatesFor(d, m) => c = d

LEMMA AppCounts ==
  ASSUME RegistryTyped, NEW m
  PROVE  /\ IsFiniteSet(LiveOf(m)) /\ Cardinality(LiveOf(m)) \in Nat
         /\ IsFiniteSet(Admitted(m)) /\ Cardinality(Admitted(m)) \in Nat
         /\ IsFiniteSet(Creators) /\ Cardinality(Creators) \in Nat
         /\ Cardinality(Admitted(m)) <= Cardinality(Creators)
<1>1. LiveOf(m) \subseteq AppIds /\ Admitted(m) \subseteq Creators
  BY DEF LiveOf, Live, Admitted
<1>2. IsFiniteSet(AppIds) /\ IsFiniteSet(Creators)
  BY AppAssumption
<1> QED BY <1>1, <1>2, FS_Subset, FS_CardinalityType

\* What a step does to the two counts.
CountSame(m) == LiveOf(m)' \subseteq LiveOf(m) /\ Admitted(m)' \subseteq Admitted(m)

CountAdmits(m) ==
  /\ LiveOf(m)' = LiveOf(m) /\ ~Full(m)
  /\ \E c \in Creators : CreatesFor(c, m) /\ Admitted(m)' = Admitted(m) \cup {c}

CountStores(m) ==
  /\ \E i \in AppIds : LiveOf(m)' \subseteq LiveOf(m) \cup {i}
  /\ \E c \in Admitted(m) : Admitted(m)' = Admitted(m) \ {c}

LEMMA CountEffect ==
  ASSUME RegistryTyped, RegistryMove, NEW m \in Merchants
  PROVE  CountSame(m) \/ CountAdmits(m) \/ CountStores(m)
<1>0. app \in [AppIds -> Names \cup {"none", "deleted"}] /\ Live \subseteq AppIds
  BY DEF RegistryTyped, RegistryTypeOK, Live
<1>1. ASSUME NEW c \in Creators, NEW i \in AppIds, AskMove(c, i) PROVE CountSame(m)
  BY <1>1 DEF AskMove, CountSame, LiveOf, Live, Admitted, CreatesFor
<1>2. ASSUME NEW c \in Creators, NEW i \in AppIds, CheckMove(c, i) PROVE CountSame(m) \/ CountAdmits(m)
  <2>1. LiveOf(m)' = LiveOf(m)
    BY <1>2 DEF CheckMove, LiveOf, Live
  <2>2. CASE creator[c].pc = "count" /\ Turn(c, "activate") /\ ~Full(Owner[i]) /\ Owner[i] = m
    <3>1. Admitted(m)' = Admitted(m) \cup {c} /\ CreatesFor(c, m)
      BY <1>2, <2>2 DEF CheckMove, Turn, Admitted, CreatesFor
    <3> QED BY <2>1, <2>2, <3>1 DEF CountAdmits
  <2>3. CASE ~(creator[c].pc = "count" /\ Turn(c, "activate") /\ ~Full(Owner[i]) /\ Owner[i] = m)
    <3>1. Admitted(m)' \subseteq Admitted(m)
      BY <1>2, <2>3 DEF CheckMove, Turn, Gone, Admitted, CreatesFor
    <3> QED BY <2>1, <3>1 DEF CountSame
  <2> QED BY <2>2, <2>3
<1>3. ASSUME NEW c \in Creators, NEW i \in AppIds, SaveMove(c, i) PROVE CountSame(m) \/ CountStores(m)
  <2>1. \A j \in AppIds : j # i => app'[j] = app[j]
    BY <1>0, <1>3 DEF SaveMove
  <2>2. CASE Owner[i] = m
    <3>1. c \in Admitted(m) /\ Admitted(m)' = Admitted(m) \ {c}
      BY <1>3, <2>2 DEF SaveMove, Turn, Admitted, CreatesFor
    <3>2. LiveOf(m)' \subseteq LiveOf(m) \cup {i}
      BY <2>1 DEF LiveOf, Live
    <3> QED BY <3>1, <3>2 DEF CountStores
  <2>3. CASE Owner[i] # m
    <3>1. Admitted(m)' \subseteq Admitted(m)
      BY <1>3, <2>3 DEF SaveMove, Turn, Admitted, CreatesFor
    <3>2. LiveOf(m)' \subseteq LiveOf(m)
      BY <2>1, <2>3 DEF LiveOf, Live
    <3> QED BY <3>1, <3>2 DEF CountSame
  <2> QED BY <2>2, <2>3
<1>4. ASSUME NEW c \in Creators, NEW i \in AppIds, WatchMove(c, i) \/ RowMove(c, i) \/ StopMove(c, i)
      PROVE  CountSame(m)
  <2>1. UNCHANGED app /\ (Turn(c, "row") \/ Gone(c))
    BY <1>4 DEF WatchMove, RowMove, StopMove
  <2> QED BY <2>1 DEF Turn, Gone, CountSame, LiveOf, Live, Admitted, CreatesFor
<1>5. ASSUME NEW k \in Cleaners, CleanMove(k) PROVE CountSame(m)
  BY <1>5 DEF CleanMove, CountSame, LiveOf, Live, Admitted, CreatesFor
<1>6. CASE RewriteMove
  <2>1. Live' \subseteq Live /\ UNCHANGED creator
    BY <1>6 DEF RewriteMove, Rewritten, Live
  <2> QED BY <2>1 DEF CountSame, LiveOf, Admitted, CreatesFor
<1> QED BY <1>1, <1>2, <1>3, <1>4, <1>5, <1>6 DEF RegistryMove

\* Two creations for one merchant are on record as a race.
LEMMA RaceStep ==
  ASSUME RegistryTyped, LimitInv, RegistryMove
  PROVE  /\ raced \subseteq raced'
         /\ \A m \in Merchants \ raced' : \A c, d \in Creators :
              CreatesFor(c, m)' /\ CreatesFor(d, m)' => c = d
<1>1. ASSUME NEW c \in Creators, NEW i \in AppIds, AskMove(c, i)
      PROVE  /\ raced \subseteq raced'
             /\ \A m \in Merchants \ raced' : \A d, e \in Creators :
                  CreatesFor(d, m)' /\ CreatesFor(e, m)' => d = e
  <2>1. SUFFICES ASSUME NEW m \in Merchants \ raced', NEW d \in Creators, NEW e \in Creators,
                        CreatesFor(d, m)', CreatesFor(e, m)'
                 PROVE  d = e
    BY <1>1 DEF AskMove
  <2>2. m \notin raced
    BY <1>1 DEF AskMove
  <2>3. CASE Owner[i] # m
    <3>1. d # c /\ e # c
      BY <1>1, <2>1, <2>3 DEF AskMove, CreatesFor
    <3> QED BY <1>1, <2>1, <2>2, <3>1 DEF AskMove, CreatesFor, LimitInv
  <2>4. CASE Owner[i] = m
    <3>1. \A j \in Creating : Owner[j] # m
      BY <1>1, <2>1, <2>4 DEF AskMove
    <3>2. \A f \in Creators : f # c => ~CreatesFor(f, m)'
      BY <1>1, <3>1 DEF AskMove, CreatesFor, Creating
    <3> QED BY <2>1, <3>2
  <2> QED BY <2>3, <2>4
<1>2. ASSUME UNCHANGED raced, \A c \in Creators : creator'[c].id \subseteq creator[c].id
      PROVE  /\ raced \subseteq raced'
             /\ \A m \in Merchants \ raced' : \A d, e \in Creators :
                  CreatesFor(d, m)' /\ CreatesFor(e, m)' => d = e
  BY <1>2 DEF LimitInv, CreatesFor
<1>3. ASSUME NEW c \in Creators, NEW i \in AppIds,
             CheckMove(c, i) \/ SaveMove(c, i) \/ WatchMove(c, i) \/ RowMove(c, i) \/ StopMove(c, i)
      PROVE  UNCHANGED raced /\ \A d \in Creators : creator'[d].id \subseteq creator[d].id
  BY <1>3 DEF CheckMove, SaveMove, WatchMove, RowMove, StopMove, Turn, Gone
<1>4. ASSUME RewriteMove \/ \E k \in Cleaners : CleanMove(k)
      PROVE  UNCHANGED raced /\ \A d \in Creators : creator'[d].id \subseteq creator[d].id
  BY <1>4 DEF RewriteMove, CleanMove
<1> QED BY <1>1, <1>2, <1>3, <1>4 DEF RegistryMove

LEMMA LimitStep ==
  ASSUME RegistryTyped, RegistryTyped', LimitInv, RegistryMove
  PROVE  LimitInv'
<1> SUFFICES ASSUME NEW m \in Merchants
             PROVE  Cardinality(LiveOf(m)') + Cardinality(Admitted(m)') <= LimitOf(m)'
  BY RaceStep DEF LimitInv
<1> DEFINE A == Cardinality(LiveOf(m))   A1 == Cardinality(LiveOf(m)')
           B == Cardinality(Admitted(m)) B1 == Cardinality(Admitted(m)')
           N == Cardinality(Creators)
<1>1. /\ IsFiniteSet(LiveOf(m)) /\ A \in Nat /\ IsFiniteSet(Admitted(m)) /\ B \in Nat
      /\ IsFiniteSet(Creators) /\ N \in Nat
  BY AppCounts
<1>2. IsFiniteSet(LiveOf(m)') /\ A1 \in Nat /\ IsFiniteSet(Admitted(m)') /\ B1 \in Nat /\ B1 <= N
  <2>1. LiveOf(m)' \subseteq AppIds /\ Admitted(m)' \subseteq Creators
    BY DEF LiveOf, Live, Admitted
  <2> QED BY <2>1, AppAssumption, FS_Subset, FS_CardinalityType
<1>3. A + B <= LimitOf(m) /\ raced \subseteq raced' /\ AppLimit \in Nat \ {0}
  BY RaceStep, AppAssumption DEF LimitInv
<1>4. LimitOf(m) <= LimitOf(m)' /\ LimitOf(m) \in Int /\ LimitOf(m)' \in Int
  <2>1. CASE UNCHANGED raced
    BY <1>1, <1>3, <2>1 DEF LimitOf
  <2>2. CASE Creators # {}
    <3>1. N >= 1
      BY <1>1, <2>2, FS_EmptySet
    <3> QED BY <1>1, <1>3, <3>1 DEF LimitOf
  <2>3. UNCHANGED raced \/ Creators # {}
    BY DEF RegistryMove, CleanMove, RewriteMove
  <2> QED BY <2>1, <2>2, <2>3
<1>5. CASE CountSame(m)
  <2>1. A1 <= A /\ B1 <= B
    BY <1>1, <1>5, FS_Subset DEF CountSame
  <2> QED BY <1>1, <1>2, <1>3, <1>4, <2>1
<1>6. CASE CountStores(m)
  <2>1. A1 <= A + 1
    <3>1. PICK i \in AppIds : LiveOf(m)' \subseteq LiveOf(m) \cup {i}
      BY <1>6 DEF CountStores
    <3>2. /\ IsFiniteSet(LiveOf(m) \cup {i})
          /\ Cardinality(LiveOf(m) \cup {i}) = IF i \in LiveOf(m) THEN A ELSE A + 1
      BY <1>1, FS_AddElement
    <3> QED BY <1>1, <1>2, <3>1, <3>2, FS_Subset, FS_CardinalityType
  <2>2. B1 = B - 1
    BY <1>1, <1>6, FS_RemoveElement DEF CountStores
  <2> QED BY <1>1, <1>2, <1>3, <1>4, <2>1, <2>2
<1>7. CASE CountAdmits(m)
  <2>1. PICK c \in Creators : CreatesFor(c, m) /\ Admitted(m)' = Admitted(m) \cup {c}
    BY <1>7 DEF CountAdmits
  <2>2. A1 = A /\ A + 1 <= AppLimit
    <3>1. A1 = A /\ ~Full(m)
      BY <1>7 DEF CountAdmits
    <3>2. Full(m) <=> A > AppLimit - 1
      BY DEF Full, LiveOf
    <3> QED BY <1>1, <1>3, <3>1, <3>2
  <2>3. CASE m \in raced
    BY <1>1, <1>2, <1>3, <1>4, <2>2, <2>3 DEF LimitOf
  <2>4. CASE m \notin raced
    <3>1. Admitted(m)' \subseteq {c}
      BY <2>1, <2>4 DEF Admitted, LimitInv
    <3>2. IsFiniteSet({c}) /\ Cardinality({c}) = 1
      BY FS_Singleton
    <3>3. B1 <= 1
      BY <3>1, <3>2, FS_Subset
    <3> QED BY <1>1, <1>2, <1>3, <1>4, <2>2, <2>4, <3>3 DEF LimitOf
  <2> QED BY <2>3, <2>4
<1> QED BY <1>5, <1>6, <1>7, CountEffect

\* The limit of a merchant holds up to overlapping creations, for any apps,
\* names, limits and activations.
THEOREM AppsAreAlwaysKept == RegistrySpec => []AppsAreKept
<1>1. RegistryInit => LimitInv
  <2> SUFFICES ASSUME RegistryInit, NEW m \in Merchants
               PROVE  /\ Cardinality(LiveOf(m)) + Cardinality(Admitted(m)) <= LimitOf(m)
                      /\ \A c \in Creators : ~CreatesFor(c, m)
    BY DEF LimitInv
  <2>1. LiveOf(m) = {} /\ Admitted(m) = {} /\ m \notin raced
    BY DEF RegistryInit, LiveOf, Live, Admitted, IdleCreator
  <2>2. \A c \in Creators : ~CreatesFor(c, m)
    BY DEF RegistryInit, CreatesFor, IdleCreator
  <2> QED BY <2>1, <2>2, FS_EmptySet, AppAssumption DEF LimitOf
<1>2. RegistryTyped /\ RegistryTyped' /\ LimitInv /\ [RegistryNext]_appVars => LimitInv'
  <2>1. LimitInv /\ UNCHANGED appVars => LimitInv'
    BY DEF appVars, LimitInv, LiveOf, Live, Admitted, CreatesFor, LimitOf
  <2> QED BY <2>1, LimitStep, StepIsRegistryMove
<1>3. RegistryTyped /\ LimitInv => AppsBounded
  <2> SUFFICES ASSUME RegistryTyped, LimitInv, NEW m \in Merchants
               PROVE  Cardinality(LiveOf(m)) <= LimitOf(m)
    BY DEF AppsBounded, LiveOf, LimitOf
  <2> QED BY AppCounts, AppAssumption DEF LimitInv, LimitOf
<1>4. RegistryTyped /\ LiveAppsAreWatched /\ AppsBounded => AppsAreKept
  BY DEF RegistryTyped, AppsAreKept
<1> QED BY <1>1, <1>2, <1>3, <1>4, RegistryTypedInv, LiveAppsAreAlwaysWatched, PTL DEF RegistrySpec

-----------------------------------------------------------------------------
(* AppWallet: what Picked returns.                                         *)

LEMMA LeastNumber ==
  ASSUME NEW Bad \in SUBSET Nat, Bad # {}
  PROVE  \E n \in Bad : \A k \in Nat : k < n => k \notin Bad
<1>1. PICK n \in Bad : \A k \in Bad : ~(<<k, n>> \in OpToRel(<, Nat))
  BY NatLessThanWellFounded, WFMin, Zenon
<1>2. \A k \in Bad : ~(k < n)
  BY <1>1 DEF OpToRel
<1> QED BY <1>2

\* The recursive function inside Picked.
IsUpTo(f, s, P, n) ==
  f = [i \in 0..n |-> IF i = 0 THEN <<>> ELSE IF i \in P THEN Append(f[i - 1], s[i]) ELSE f[i - 1]]

LEMMA UpToExists ==
  ASSUME NEW s, NEW P, NEW n \in Nat
  PROVE  \E f : IsUpTo(f, s, P, n)
<1> DEFINE Bad == {k \in Nat : ~\E f : IsUpTo(f, s, P, k)}
<1> SUFFICES ASSUME Bad # {} PROVE FALSE
  OBVIOUS
<1>1. PICK k \in Bad : \A j \in Nat : j < k => j \notin Bad
  <2> HIDE DEF Bad
  <2> QED BY LeastNumber DEF Bad
<1>2. k \in Nat /\ ~\E f : IsUpTo(f, s, P, k)
  BY <1>1
<1>3. k # 0
  <2>1. IsUpTo([i \in 0..0 |-> <<>>], s, P, 0)
    BY DEF IsUpTo
  <2> QED BY <1>2, <2>1
<1>4. PICK g : IsUpTo(g, s, P, k - 1)
  BY <1>1, <1>2, <1>3
<1> DEFINE last == IF k \in P THEN Append(g[k - 1], s[k]) ELSE g[k - 1]
           h == [i \in 0..k |-> IF i = k THEN last ELSE g[i]]
<1>5. ASSUME NEW i \in 0..k
      PROVE  h[i] = IF i = 0 THEN <<>> ELSE IF i \in P THEN Append(h[i - 1], s[i]) ELSE h[i - 1]
  <2>1. CASE i = k
    <3>1. h[i] = last /\ h[i - 1] = g[k - 1] /\ i # 0
      BY <1>2, <1>3, <2>1
    <3> QED BY <2>1, <3>1
  <2>2. CASE i # k
    <3>1. i \in 0..(k - 1) /\ h[i] = g[i] /\ (i # 0 => h[i - 1] = g[i - 1])
      BY <1>2, <2>2
    <3> HIDE DEF h
    <3> QED BY <1>4, <3>1 DEF IsUpTo
  <2> QED BY <2>1, <2>2
<1>6. IsUpTo(h, s, P, k)
  <2>1. h = [i \in 0..k |-> h[i]]
    OBVIOUS
  <2> HIDE DEF h
  <2> QED BY <1>5, <2>1 DEF IsUpTo
<1> QED BY <1>2, <1>6

LEMMA PickedType ==
  ASSUME NEW T, NEW s \in Seq(T), NEW P \in SUBSET DOMAIN s
  PROVE  Picked(s, P) \in Seq({s[i] : i \in P})
<1> DEFINE R == {s[i] : i \in P}
<1>1. Len(s) \in Nat
  BY LenProperties
<1>2. PICK f : IsUpTo(f, s, P, Len(s)) /\ Picked(s, P) = f[Len(s)]
  <2> DEFINE f == CHOOSE g : IsUpTo(g, s, P, Len(s))
  <2>1. IsUpTo(f, s, P, Len(s))
    BY <1>1, UpToExists
  <2>2. Picked(s, P) = f[Len(s)]
    BY DEF Picked, IsUpTo
  <2> QED BY <2>1, <2>2
<1>3. /\ f[0] = <<>>
      /\ \A i \in 1..Len(s) : f[i] = IF i \in P THEN Append(f[i - 1], s[i]) ELSE f[i - 1]
  <2>1. ASSUME NEW n \in Nat, IsUpTo(f, s, P, n)
        PROVE  /\ f[0] = <<>>
               /\ \A i \in 1..n : f[i] = IF i \in P THEN Append(f[i - 1], s[i]) ELSE f[i - 1]
    <3>1. \A i \in 0..n :
            f[i] = IF i = 0 THEN <<>> ELSE IF i \in P THEN Append(f[i - 1], s[i]) ELSE f[i - 1]
      BY <2>1 DEF IsUpTo
    <3>2. 0 \in 0..n /\ \A i \in 1..n : i \in 0..n /\ i # 0
      OBVIOUS
    <3> QED BY <3>1, <3>2, Zenon
  <2> QED BY <1>1, <1>2, <2>1
<1> DEFINE Bad == {i \in 0..Len(s) : f[i] \notin Seq(R)}
<1>4. CASE Bad = {}
  BY <1>1, <1>2, <1>4
<1>5. CASE Bad # {}
  <2>1. PICK i \in Bad : \A j \in Nat : j < i => j \notin Bad
    <3>1. Bad \in SUBSET Nat
      BY <1>1
    <3> HIDE DEF Bad
    <3> QED BY <1>5, <3>1, LeastNumber
  <2>2. i # 0
    BY <1>3, <2>1, EmptySeq
  <2>3. i \in 1..Len(s) /\ f[i - 1] \in Seq(R)
    BY <1>1, <2>1, <2>2
  <2>4. CASE i \in P
    <3>1. s[i] \in R
      BY <2>4
    <3>2. f[i] = Append(f[i - 1], s[i])
      BY <1>3, <2>3, <2>4
    <3>3. f[i] \in Seq(R)
      <4> HIDE DEF R
      <4> QED BY <2>3, <3>1, <3>2, AppendProperties
    <3> QED BY <2>1, <3>3
  <2>5. CASE i \notin P
    BY <1>3, <2>1, <2>3, <2>5
  <2> QED BY <2>4, <2>5
<1> QED BY <1>4, <1>5

LEMMA PageType ==
  ASSUME ledger \in Seq(TxIds), NEW b \in BOOLEAN
  PROVE  Page(b) \in Seq(TxIds)
<1> DEFINE P == {i \in DOMAIN ledger : Listed(ledger[i], b)}
           q == Picked(ledger, P)
           r == Reverse(q)
           n == IF Len(r) < Window THEN Len(r) ELSE Window
<1>1. q \in Seq(TxIds)
  <2>1. q \in Seq({ledger[i] : i \in P})
    BY PickedType
  <2>2. {ledger[i] : i \in P} \subseteq TxIds
    BY LenProperties, ElementOfSeq
  <2> HIDE DEF q, P
  <2> QED BY <2>1, <2>2, SeqMonotonic
<1>2. r \in Seq(TxIds)
  <2>1. Len(q) \in Nat /\ \A i \in 1..Len(q) : q[i] \in TxIds
    BY <1>1, LenProperties, ElementOfSeq
  <2>2. r = [i \in 1..Len(q) |-> q[(Len(q) - i) + 1]]
    BY DEF Reverse
  <2> HIDE DEF q, r
  <2>3. \A i \in 1..Len(q) : (Len(q) - i) + 1 \in 1..Len(q)
    BY <2>1
  <2>4. r \in [1..Len(q) -> TxIds]
    BY <2>1, <2>2, <2>3
  <2> QED BY <2>1, <2>4, SeqDef
<1>3. Page(b) = SubSeq(r, 1, n)
  BY DEF Page
<1> HIDE DEF r
<1>4. Len(r) \in Nat /\ Window \in Nat
  BY <1>2, LenProperties, WalletAssumption
<1>5. n \in Int /\ n <= Len(r)
  BY <1>4
<1>6. \A i \in 1..n : r[i] \in TxIds
  <2> HIDE DEF n
  <2> QED BY <1>2, <1>4, <1>5, ElementOfSeq
<1> HIDE DEF n
<1> QED BY <1>3, <1>5, <1>6, SubSeqProperties

LEMMA MinedGrows ==
  ASSUME ledger \in Seq(TxIds), NEW t \in TxIds, ledger' = Append(ledger, t)
  PROVE  /\ ledger' \in Seq(TxIds) /\ Mined' = Mined \cup {t}
         /\ IsInjective(ledger) /\ t \notin Mined => IsInjective(ledger')
<1>1. /\ ledger' \in Seq(TxIds) /\ Len(ledger') = Len(ledger) + 1 /\ Len(ledger) \in Nat
      /\ \A i \in 1..Len(ledger) : ledger'[i] = ledger[i]
      /\ ledger'[Len(ledger) + 1] = t
  BY AppendProperties, LenProperties
<1>2. DOMAIN ledger = 1..Len(ledger) /\ DOMAIN ledger' = 1..(Len(ledger) + 1)
  BY <1>1, LenProperties
<1> DEFINE n == Len(ledger)
<1> HIDE DEF n
<1>3. DOMAIN ledger' = DOMAIN ledger \cup {n + 1} /\ n + 1 \notin DOMAIN ledger
  BY <1>1, <1>2 DEF n
<1>4. (\A i \in DOMAIN ledger : ledger'[i] = ledger[i]) /\ ledger'[n + 1] = t
  BY <1>1, <1>2 DEF n
<1>5. Mined' = Mined \cup {t}
  BY <1>3, <1>4 DEF Mined, ToSet
<1>6. IsInjective(ledger) /\ t \notin Mined => IsInjective(ledger')
  BY <1>3, <1>4 DEF Mined, ToSet, IsInjective
<1> QED BY <1>1, <1>5, <1>6

-----------------------------------------------------------------------------
(* AppWallet: types, and the legs that are on their way.                   *)

LegTx(w) == <<w, request[w].leg>>

\* A leg that may still be sent has not been, and the fee comes second.
LegsInOrder ==
  \A w \in Requests :
    /\ request[w].pc = "idle" => request[w].leg = "merchant"
    /\ request[w].leg = "merchant" => <<w, "fee">> \notin Mined
    /\ request[w].pc \in {"idle", "check", "nonce", "send"} => LegTx(w) \notin Mined

TicksInOrder == \A m \in Ticks : tick[m].pc = "create" => tick[m].queue # <<>>

WalletTyped == TypeOK /\ LegsInOrder /\ TicksInOrder

\* The steps of merchantWithdraw(w), told by where they lead.
Comes(w, p, leg) ==
  /\ request' \in [Requests -> RequestState]
  /\ request'[w].pc = p /\ request'[w].leg = leg
  /\ \A v \in Requests : v # w => request'[v] = request[v]

PaidOn(w) ==
  \/ /\ request[w].leg = "merchant" /\ Fee[w] > 0 /\ chain # "BTC"
     /\ Comes(w, "check", "fee")
  \/ /\ request[w].leg = "fee" \/ Fee[w] = 0 \/ chain = "BTC"
     /\ Comes(w, "save", request[w].leg)

UnpaidOn(w, thrown) ==
  \/ /\ request[w].leg = "merchant" \/ (thrown /\ chain = "TRON")
     /\ Comes(w, "failed", request[w].leg)
  \/ /\ request[w].leg = "fee" /\ ~(thrown /\ chain = "TRON")
     /\ Comes(w, "save", "fee")

Cost(w) == Amount(w, request[w].leg)

Arrives(d) ==
  /\ UNCHANGED <<wallet, nonce, records, posted, request, tick, faults, overlapped, short>>
  /\ d \notin Mined /\ ledger' = Append(ledger, d)
  /\ balance' \in [Token -> Nat] /\ \A k \in Token : balance'[k] >= balance[k]

Submits(w) ==
  /\ UNCHANGED <<wallet, walletVars, records, posted, tick, faults, short>>
  /\ request[w].pc = "idle"
  /\ overlapped \subseteq overlapped' /\ overlapped' \subseteq Requests
  /\ \/ Comes(w, "failed", "merchant")
     \/ /\ Comes(w, "check", "merchant")
        /\ \A v \in Requests : Running(v) => v \in overlapped' /\ w \in overlapped'

Checks(w) ==
  /\ UNCHANGED <<wallet, walletVars, records, posted, tick, faults, overlapped>>
  /\ request[w].pc = "check"
  /\ short \subseteq short' /\ short' \subseteq short \cup {w}
  /\ request[w].leg = "merchant" /\ Held(w) < Net[w] + Fee[w] => w \in short'
  /\ \/ /\ Held(w) >= Cost(w)
        /\ Comes(w, IF chain = "EVM" THEN "nonce" ELSE "send", request[w].leg)
     \/ Held(w) < Cost(w) /\ UnpaidOn(w, FALSE)

ReadsNonce(w) ==
  /\ UNCHANGED <<wallet, walletVars, records, posted, tick, faults, overlapped, short>>
  /\ request[w].pc = "nonce"
  /\ Comes(w, "send", request[w].leg) /\ request'[w].nonce = nonce

\* With an answer, or with a fault.
Sends(w) ==
  /\ UNCHANGED <<wallet, records, posted, tick, overlapped, short>>
  /\ request[w].pc = "send" /\ Broadcast(w)
  /\ \/ /\ UNCHANGED faults
        /\ \/ Comes(w, "verify", request[w].leg) /\ request'[w].ok = Executes(w)
           \/ Executes(w) /\ PaidOn(w)
           \/ ~Executes(w) /\ UnpaidOn(w, TRUE)
     \/ Fault /\ UnpaidOn(w, TRUE)

Verifies(w) ==
  /\ UNCHANGED <<wallet, walletVars, records, posted, tick, faults, overlapped, short>>
  /\ request[w].pc = "verify"
  /\ \/ request[w].ok /\ PaidOn(w)
     \/ ~request[w].ok /\ UnpaidOn(w, FALSE)

Saves(w) ==
  /\ UNCHANGED <<wallet, walletVars, incoming, posted, tick, faults, overlapped, short>>
  /\ request[w].pc = "save" /\ Comes(w, "done", request[w].leg)
  /\ outgoing' = [outgoing EXCEPT ![w] = @ + 1]

Errs(w) ==
  /\ UNCHANGED <<wallet, walletVars, records, posted, tick, overlapped, short>>
  /\ Running(w) /\ Fault
  /\ \/ \E p \in {"failed", "save", "done"} : Comes(w, p, request[w].leg)
     \/ request[w].pc = "verify" /\ PaidOn(w)

Reports(t) ==
  /\ UNCHANGED <<wallet, walletVars, outgoing, request, tick, faults, overlapped, short>>
  /\ t \in Posted \ posted /\ posted' = posted \cup {t}
  /\ incoming' = [incoming EXCEPT ![t] = @ + 1]

\* The steps of tick m.
Turns(m, p) ==
  /\ tick' \in [Ticks -> TickState] /\ tick'[m].pc = p
  /\ \A n \in Ticks : n # m => tick'[n] = tick[n]

Reads(m) ==
  /\ UNCHANGED <<wallet, walletVars, records, posted, request, overlapped, short>>
  /\ UNCHANGED faults \/ Fault
  /\ \E p \in {"idle", "list", "listTrc20", "find", "distinct"} : Turns(m, p)

Finds(m) ==
  /\ UNCHANGED <<wallet, walletVars, records, posted, request, faults, overlapped, short>>
  /\ tick[m].pc = "find" /\ Turns(m, "create")
  /\ tick[m].queue # <<>> /\ tick'[m].queue = tick[m].queue
  /\ ~HasRow(Head(tick[m].queue))

Misses(m) ==
  /\ UNCHANGED <<wallet, walletVars, records, posted, request, faults, overlapped, short>>
  /\ Turns(m, "insert")
  /\ \A t \in ToSet(tick'[m].queue) : ~HasRow(t)

Creates(m) ==
  /\ UNCHANGED <<wallet, walletVars, outgoing, posted, request, faults, overlapped, short>>
  /\ tick[m].pc = "create" /\ Turns(m, "find")
  /\ incoming' = [incoming EXCEPT ![Head(tick[m].queue)] = @ + 1]

Inserts(m) ==
  /\ UNCHANGED <<wallet, walletVars, outgoing, posted, request, faults, overlapped, short>>
  /\ tick[m].pc = "insert" /\ Turns(m, "idle")
  /\ incoming' = [t \in TxIds |-> incoming[t] + IF t \in ToSet(tick[m].queue) THEN 1 ELSE 0]

\* The steps of other apps.
OthersMove ==
  UNCHANGED <<wallet, walletVars, records, posted, request, tick, faults, overlapped, short>>

WalletMove ==
  /\ newer' \in 0..MaxNewer /\ elsewhere' \subseteq Between
  /\ \/ \E d \in Deposits : Arrives(d)
     \/ \E w \in Requests : \/ Submits(w) \/ Checks(w) \/ ReadsNonce(w) \/ Sends(w)
                            \/ Verifies(w) \/ Saves(w) \/ Errs(w)
     \/ \E t \in TxIds : Reports(t)
     \/ \E m \in Ticks : Reads(m) \/ Finds(m) \/ Misses(m) \/ Creates(m) \/ Inserts(m)
     \/ OthersMove

LEMMA GoesEffect ==
  ASSUME WalletTyped, NEW w \in Requests, NEW r \in RequestState, Goes(w, r)
  PROVE  /\ Comes(w, r.pc, r.leg) /\ request'[w] = r
<1>1. request \in [Requests -> RequestState]
  BY DEF WalletTyped, TypeOK
<1> QED BY <1>1 DEF Goes, Comes

LEMMA AtEffect ==
  ASSUME WalletTyped, NEW w \in Requests,
         NEW p \in {"idle", "check", "nonce", "send", "verify", "save", "done", "failed"}
  PROVE  /\ At(w, p) \in RequestState
         /\ At(w, p).pc = p /\ At(w, p).leg = request[w].leg
         /\ request[w] \in RequestState
BY DEF At, WalletTyped, TypeOK, RequestState

LEMMA PaidEffect ==
  ASSUME WalletTyped, NEW w \in Requests, Goes(w, AfterPaid(w))
  PROVE  PaidOn(w)
<1> DEFINE a == [At(w, "check") EXCEPT !.leg = "fee"]
           b == [At(w, "save") EXCEPT !.feeTx = (Fee[w] > 0)]
<1>1. a \in RequestState /\ a.pc = "check" /\ a.leg = "fee"
  BY AtEffect DEF RequestState
<1>2. b \in RequestState /\ b.pc = "save" /\ b.leg = request[w].leg
  <2>1. (Fee[w] > 0) \in BOOLEAN
    OBVIOUS
  <2>2. At(w, "save") \in RequestState /\ At(w, "save").pc = "save" /\ At(w, "save").leg = request[w].leg
    BY AtEffect
  <2> QED BY <2>1, <2>2 DEF RequestState
<1>3. Fee[w] \in Nat /\ request[w].leg \in {"merchant", "fee"}
  BY AtEffect, WalletAssumption DEF RequestState
<1>4. CASE request[w].leg = "merchant" /\ Fee[w] > 0 /\ chain # "BTC"
  <2>1. Goes(w, a)
    BY <1>4 DEF AfterPaid
  <2> HIDE DEF a
  <2> QED BY <1>1, <1>4, <2>1, GoesEffect DEF PaidOn
<1>5. CASE ~(request[w].leg = "merchant" /\ Fee[w] > 0 /\ chain # "BTC")
  <2>1. Goes(w, b)
    BY <1>5 DEF AfterPaid
  <2>2. Comes(w, "save", request[w].leg)
    <3> HIDE DEF b
    <3> QED BY <1>2, <2>1, GoesEffect
  <2> QED BY <1>3, <1>5, <2>2 DEF PaidOn
<1> QED BY <1>4, <1>5

LEMMA UnpaidEffect ==
  ASSUME WalletTyped, NEW w \in Requests, NEW thrown \in BOOLEAN, Goes(w, AfterUnpaid(w, thrown))
  PROVE  UnpaidOn(w, thrown)
<1>1. request[w].leg \in {"merchant", "fee"}
  BY AtEffect DEF RequestState
<1>2. CASE request[w].leg = "merchant" \/ (thrown /\ chain = "TRON")
  BY <1>2, GoesEffect, AtEffect DEF AfterUnpaid, UnpaidOn
<1>3. CASE ~(request[w].leg = "merchant" \/ (thrown /\ chain = "TRON"))
  BY <1>1, <1>3, GoesEffect, AtEffect DEF AfterUnpaid, UnpaidOn
<1> QED BY <1>2, <1>3

LEMMA TickGoesEffect ==
  ASSUME WalletTyped, NEW m \in Ticks, NEW r \in TickState, TickGoes(m, r)
  PROVE  Turns(m, r.pc) /\ tick'[m] = r
<1>1. tick \in [Ticks -> TickState]
  BY DEF WalletTyped, TypeOK
<1> QED BY <1>1 DEF TickGoes, Turns

LEMMA TickTypes ==
  ASSUME WalletTyped, NEW m \in Ticks
  PROVE  /\ tick[m] \in TickState /\ tick[m].queue \in Seq(TxIds)
         /\ IdleTick \in TickState /\ IdleTick.pc = "idle"
<1>1. tick[m] \in TickState
  BY DEF WalletTyped, TypeOK
<1>2. tick[m].queue \in Seq(TxIds)
  BY <1>1 DEF TickState
<1>3. <<>> \in Seq(TxIds)
  BY EmptySeq
<1> QED BY <1>1, <1>2, <1>3 DEF TickState, IdleTick

LEMMA RequestMoves ==
  ASSUME WalletTyped, NEW w \in Requests, RequestStep(w)
  PROVE  Checks(w) \/ ReadsNonce(w) \/ Sends(w) \/ Verifies(w) \/ Saves(w)
<1>0. /\ request[w] \in RequestState /\ request[w].leg \in {"merchant", "fee"}
      /\ nonce \in Nat /\ request \in [Requests -> RequestState] /\ short \subseteq Requests
  BY AtEffect DEF WalletTyped, TypeOK, RequestState
<1>1. CASE CheckBalance(w)
  <2> DEFINE to == IF chain = "EVM" THEN "nonce" ELSE "send"
  <2>1. \/ Held(w) >= Cost(w) /\ Goes(w, At(w, to))
        \/ Held(w) < Cost(w) /\ Goes(w, AfterUnpaid(w, FALSE))
    BY <1>1 DEF CheckBalance, Cost
  <2>2. Goes(w, At(w, to)) => Comes(w, to, request[w].leg)
    <3>1. to \in {"nonce", "send"}
      OBVIOUS
    <3> HIDE DEF to
    <3> QED BY <3>1, AtEffect, GoesEffect
  <2>3. Goes(w, AfterUnpaid(w, FALSE)) => UnpaidOn(w, FALSE)
    BY UnpaidEffect
  <2>4. short \subseteq short' /\ short' \subseteq short \cup {w}
    BY <1>1 DEF CheckBalance
  <2>5. request[w].leg = "merchant" /\ Held(w) < Net[w] + Fee[w] => w \in short'
    BY <1>1 DEF CheckBalance
  <2>6. /\ UNCHANGED <<wallet, walletVars, records, posted, tick, faults, overlapped>>
        /\ request[w].pc = "check"
    BY <1>1 DEF CheckBalance
  <2> QED BY <2>1, <2>2, <2>3, <2>4, <2>5, <2>6 DEF Checks
<1>2. CASE ReadNonce(w)
  <2> DEFINE r == [At(w, "send") EXCEPT !.nonce = nonce]
  <2>1. r \in RequestState /\ r.pc = "send" /\ r.leg = request[w].leg /\ r.nonce = nonce
    <3>1. /\ At(w, "send") \in RequestState /\ At(w, "send").pc = "send"
          /\ At(w, "send").leg = request[w].leg
      BY AtEffect
    <3> QED BY <1>0, <3>1 DEF RequestState
  <2>2. Goes(w, r)
    BY <1>2 DEF ReadNonce
  <2>3. Comes(w, "send", request[w].leg) /\ request'[w].nonce = nonce
    <3> HIDE DEF r
    <3> QED BY <2>1, <2>2, GoesEffect
  <2> QED BY <1>2, <2>3 DEF ReadNonce, ReadsNonce
<1>3. CASE Send(w)
  <2> DEFINE r == [At(w, "verify") EXCEPT !.ok = Executes(w)]
  <2>1. r \in RequestState /\ r.pc = "verify" /\ r.leg = request[w].leg /\ r.ok = Executes(w)
    <3>1. /\ At(w, "verify") \in RequestState /\ At(w, "verify").pc = "verify"
          /\ At(w, "verify").leg = request[w].leg
      BY AtEffect
    <3>2. Executes(w) \in BOOLEAN
      BY DEF Executes, Accepted
    <3> QED BY <3>1, <3>2 DEF RequestState
  <2>2. \/ Goes(w, r)
        \/ Executes(w) /\ Goes(w, AfterPaid(w))
        \/ ~Executes(w) /\ Goes(w, AfterUnpaid(w, TRUE))
    BY <1>3 DEF Send
  <2>3. Goes(w, r) => Comes(w, "verify", request[w].leg) /\ request'[w].ok = Executes(w)
    <3> HIDE DEF r
    <3> QED BY <2>1, GoesEffect
  <2>4. UNCHANGED <<wallet, records, posted, tick, faults, overlapped, short>> /\ request[w].pc = "send" /\ Broadcast(w)
    BY <1>3 DEF Send
  <2> HIDE DEF r
  <2> QED BY <2>2, <2>3, <2>4, PaidEffect, UnpaidEffect DEF Sends
<1>4. CASE Verify(w)
  <2>1. \/ request[w].ok /\ Goes(w, AfterPaid(w))
        \/ ~request[w].ok /\ Goes(w, AfterUnpaid(w, FALSE))
    BY <1>4 DEF Verify
  <2> QED BY <1>4, <2>1, PaidEffect, UnpaidEffect DEF Verify, Verifies
<1>5. CASE Save(w)
  <2>1. Comes(w, "done", request[w].leg)
    BY <1>5, AtEffect, GoesEffect DEF Save
  <2> QED BY <1>5, <2>1 DEF Save, Saves
<1> QED BY <1>1, <1>2, <1>3, <1>4, <1>5 DEF RequestStep

LEMMA WalletFaultMoves ==
  ASSUME WalletTyped, NEW w \in Requests, RequestFault(w)
  PROVE  Sends(w) \/ Errs(w)
<1>1. ASSUME NEW p \in {"failed", "save", "done"}, Goes(w, At(w, p))
      PROVE  Comes(w, p, request[w].leg)
  BY <1>1, AtEffect, GoesEffect
<1>2. CASE LegErrs(w)
  <2>1. \E p \in {"failed", "save", "done"} : Goes(w, At(w, p))
    BY <1>2 DEF LegErrs, AfterUnpaid
  <2> QED BY <1>1, <1>2, <2>1 DEF LegErrs, Errs, Running
<1>3. CASE AnswerLost(w)
  BY <1>3, UnpaidEffect DEF AnswerLost, Sends
<1>4. CASE VerifyTimesOut(w)
  BY <1>4, PaidEffect DEF VerifyTimesOut, Errs, Running
<1>5. CASE SaveFails(w)
  BY <1>1, <1>5 DEF SaveFails, Errs, Running
<1>6. CASE RequestCrashes(w)
  BY <1>1, <1>6 DEF RequestCrashes, Errs
<1> QED BY <1>2, <1>3, <1>4, <1>5, <1>6 DEF RequestFault

LEMMA TickMoves ==
  ASSUME WalletTyped, NEW m \in Ticks, TickStep(m) \/ TickErrs(m)
  PROVE  Reads(m) \/ Finds(m) \/ Misses(m) \/ Creates(m) \/ Inserts(m)
<1>0. /\ tick[m] \in TickState /\ tick[m].queue \in Seq(TxIds)
      /\ IdleTick \in TickState /\ IdleTick.pc = "idle" /\ ledger \in Seq(TxIds)
  BY TickTypes DEF WalletTyped, TypeOK
<1>0a. CASE TickStart(m)
  <2> DEFINE r == [tick[m] EXCEPT !.pc = "list"]
  <2>1. r \in TickState /\ r.pc = "list"
    BY <1>0 DEF TickState
  <2>2. Turns(m, "list")
    <3>1. TickGoes(m, r)
      BY <1>0a DEF TickStart
    <3> HIDE DEF r
    <3> QED BY <2>1, <3>1, TickGoesEffect
  <2> QED BY <1>0a, <2>2 DEF TickStart, Reads
<1>1. CASE TickList(m)
  <2> DEFINE p == IF chain = "TRON" THEN "listTrc20" ELSE "distinct"
             r == [tick[m] EXCEPT !.pc = p, !.queue = Page(FALSE)]
  <2>1. r \in TickState /\ r.pc = p
    <3>1. Page(FALSE) \in Seq(TxIds) /\ p \in {"listTrc20", "distinct"}
      BY <1>0, PageType
    <3> HIDE DEF p
    <3> QED BY <1>0, <3>1 DEF TickState
  <2>2. Turns(m, p)
    <3>1. TickGoes(m, r)
      BY <1>1 DEF TickList
    <3> HIDE DEF r
    <3> QED BY <2>1, <3>1, TickGoesEffect
  <2> QED BY <1>1, <2>2 DEF TickList, Reads
<1>2. CASE TickListTrc20(m)
  <2> DEFINE r == [tick[m] EXCEPT !.pc = "find", !.queue = @ \o Page(TRUE)]
  <2>1. r \in TickState /\ r.pc = "find"
    <3>1. tick[m].queue \o Page(TRUE) \in Seq(TxIds)
      BY <1>0, PageType, ConcatProperties
    <3> QED BY <1>0, <3>1 DEF TickState
  <2>2. Turns(m, "find")
    <3>1. TickGoes(m, r)
      BY <1>2 DEF TickListTrc20
    <3> HIDE DEF r
    <3> QED BY <2>1, <3>1, TickGoesEffect
  <2> QED BY <1>2, <2>2 DEF TickListTrc20, Reads
<1>3. CASE TickFind(m)
  <2> DEFINE t == Head(tick[m].queue)
             r == [tick[m] EXCEPT !.queue = Tail(@)]
             c == [tick[m] EXCEPT !.pc = "create"]
  <2>1. UNCHANGED <<wallet, walletVars, records, posted, request, faults, overlapped, short>>
        /\ tick[m].pc = "find" /\ tick[m].queue # <<>>
    BY <1>3 DEF TickFind
  <2>2. \/ TickGoes(m, IdleTick) \/ TickGoes(m, r)
        \/ ~HasRow(t) /\ TickGoes(m, c)
    BY <1>3 DEF TickFind, TickNext
  <2>3. r \in TickState /\ r.pc = "find"
    <3>1. Tail(tick[m].queue) \in Seq(TxIds)
      BY <1>0, <2>1, HeadTailProperties
    <3> QED BY <1>0, <2>1, <3>1 DEF TickState
  <2>4. c \in TickState /\ c.pc = "create" /\ c.queue = tick[m].queue
    BY <1>0 DEF TickState
  <2>5. ASSUME TickGoes(m, r) PROVE Turns(m, "find")
    <3> HIDE DEF r
    <3> QED BY <2>3, <2>5, TickGoesEffect
  <2>6. ASSUME TickGoes(m, c) PROVE Turns(m, "create") /\ tick'[m].queue = tick[m].queue
    <3> HIDE DEF c
    <3> QED BY <2>4, <2>6, TickGoesEffect
  <2>7. ASSUME TickGoes(m, IdleTick) PROVE Turns(m, "idle")
    BY <1>0, <2>7, TickGoesEffect
  <2>8. ASSUME Turns(m, "find") \/ Turns(m, "idle") PROVE Reads(m)
    BY <2>1, <2>8 DEF Reads
  <2>9. ASSUME ~HasRow(t), Turns(m, "create"), tick'[m].queue = tick[m].queue PROVE Finds(m)
    BY <2>1, <2>9 DEF Finds
  <2> QED BY <2>2, <2>5, <2>6, <2>7, <2>8, <2>9
<1>4. CASE TickCreate(m)
  <2> DEFINE r == [IdleTick EXCEPT !.pc = "find", !.queue = Tail(tick[m].queue)]
  <2>1. tick[m].queue # <<>>
    BY <1>4 DEF TickCreate, WalletTyped, TicksInOrder
  <2>2. r \in TickState /\ r.pc = "find"
    <3>1. Tail(tick[m].queue) \in Seq(TxIds)
      BY <1>0, <2>1, HeadTailProperties
    <3> QED BY <1>0, <3>1 DEF TickState, IdleTick
  <2>3. Turns(m, "find")
    <3>1. TickGoes(m, r)
      BY <1>4 DEF TickCreate
    <3> HIDE DEF r
    <3> QED BY <2>2, <3>1, TickGoesEffect
  <2> QED BY <1>4, <2>3 DEF TickCreate, Creates
<1>5. CASE TickDistinct(m)
  <2> DEFINE q == tick[m].queue
             P == {i \in DOMAIN q : ~HasRow(q[i])}
             r == [tick[m] EXCEPT !.pc = "insert", !.queue = Picked(q, P)]
  <2>1. Picked(q, P) \in Seq({q[i] : i \in P})
    BY <1>0, PickedType
  <2>2. Picked(q, P) \in Seq(TxIds)
    <3>1. {q[i] : i \in P} \subseteq TxIds
      BY <1>0, LenProperties, ElementOfSeq
    <3> HIDE DEF q, P
    <3> QED BY <2>1, <3>1, SeqMonotonic
  <2>3. \A t \in ToSet(Picked(q, P)) : ~HasRow(t)
    <3>1. \A t \in {q[i] : i \in P} : ~HasRow(t)
      OBVIOUS
    <3>2. \A i \in DOMAIN Picked(q, P) : Picked(q, P)[i] \in {q[i2] : i2 \in P}
      <4> DEFINE S == {q[i2] : i2 \in P}
                 k == Picked(q, P)
      <4>1. k \in Seq(S)
        BY <2>1
      <4> HIDE DEF S, k
      <4>2. \A i \in DOMAIN k : k[i] \in S
        BY <4>1, LenProperties, ElementOfSeq
      <4> QED BY <4>2 DEF S, k
    <3> HIDE DEF P
    <3> QED BY <3>1, <3>2 DEF ToSet
  <2> HIDE DEF q, P
  <2>4. r \in TickState /\ r.pc = "insert" /\ r.queue = Picked(q, P)
    BY <1>0, <2>2 DEF TickState
  <2>5. TickGoes(m, r)
    BY <1>5 DEF TickDistinct, q, P
  <2>6. Turns(m, "insert") /\ tick'[m].queue = Picked(q, P)
    <3> HIDE DEF r
    <3> QED BY <2>4, <2>5, TickGoesEffect
  <2>7. \A t \in ToSet(tick'[m].queue) : ~HasRow(t)
    BY <2>3, <2>6
  <2> QED BY <1>5, <2>6, <2>7 DEF TickDistinct, Misses
<1>6. CASE TickInsert(m)
  <2>1. Turns(m, "idle")
    BY <1>0, <1>6, TickGoesEffect DEF TickInsert
  <2> QED BY <1>6, <2>1 DEF TickInsert, Inserts
<1>7. CASE TickEnds(m)
  <2>1. Turns(m, "idle")
    BY <1>0, <1>7, TickGoesEffect DEF TickEnds
  <2> QED BY <1>7, <2>1 DEF TickEnds, Reads
<1>8. CASE TickErrs(m)
  <2>1. Turns(m, "idle")
    BY <1>0, <1>8, TickGoesEffect DEF TickErrs
  <2> QED BY <1>8, <2>1 DEF TickErrs, Reads
<1> QED BY <1>0a, <1>1, <1>2, <1>3, <1>4, <1>5, <1>6, <1>7, <1>8 DEF TickStep

LEMMA StepIsWalletMove ==
  ASSUME WalletTyped, Next
  PROVE  WalletMove
<1>1. ASSUME NEW d \in Deposits, Arrive(d) PROVE Arrives(d)
  <2>1. balance \in [Token -> Nat] /\ TokenOf(d) \in Token /\ Value[d] \in Nat
    BY WalletAssumption DEF WalletTyped, TypeOK, TokenOf, Token
  <2>2. balance' \in [Token -> Nat] /\ \A k \in Token : balance'[k] >= balance[k]
    BY <1>1, <2>1 DEF Arrive
  <2> QED BY <1>1, <2>2 DEF Arrive, Arrives
<1>2. ASSUME NEW w \in Requests, Submit(w) PROVE Submits(w)
  <2>1. request[w].leg = "merchant" /\ overlapped \subseteq Requests
    BY <1>2 DEF Submit, WalletTyped, TypeOK, LegsInOrder
  <2>2. CASE w \in Valid
    <3>1. Comes(w, "check", "merchant")
      <4>1. Goes(w, At(w, "check"))
        BY <1>2, <2>2 DEF Submit
      <4> QED BY <2>1, <4>1, AtEffect, GoesEffect
    <3>2. /\ overlapped \subseteq overlapped' /\ overlapped' \subseteq Requests
          /\ \A v \in Requests : Running(v) => v \in overlapped' /\ w \in overlapped'
      BY <1>2, <2>1, <2>2 DEF Submit
    <3> QED BY <1>2, <3>1, <3>2 DEF Submit, Submits
  <2>3. CASE w \notin Valid
    <3>1. Comes(w, "failed", "merchant")
      <4>1. Goes(w, At(w, "failed"))
        BY <1>2, <2>3 DEF Submit
      <4> QED BY <2>1, <4>1, AtEffect, GoesEffect
    <3>2. overlapped' = overlapped
      BY <1>2, <2>3 DEF Submit
    <3> QED BY <1>2, <2>1, <3>1, <3>2 DEF Submit, Submits
  <2> QED BY <2>2, <2>3
<1>3. ASSUME NEW t \in Posted, AddTransaction(t) PROVE Reports(t) /\ t \in TxIds
  BY <1>3, WalletAssumption DEF AddTransaction, Reports
<1> QED
  <2>0. newer \in 0..MaxNewer /\ elsewhere \subseteq Between /\ MaxNewer \in Nat
    BY WalletAssumption DEF WalletTyped, TypeOK
  <2>1. ASSUME NEW w \in Requests, RequestStep(w) \/ RequestFault(w) PROVE WalletMove
    <3>1. UNCHANGED others
      BY <2>1 DEF RequestStep, RequestFault, CheckBalance, ReadNonce, Send, Verify, Save, LegErrs, AnswerLost,
         VerifyTimesOut, SaveFails, RequestCrashes
    <3> QED BY <2>0, <2>1, <3>1, RequestMoves, WalletFaultMoves DEF WalletMove, others
  <2>2. ASSUME NEW m \in Ticks, TickStep(m) \/ TickErrs(m) PROVE WalletMove
    <3>1. UNCHANGED others
      BY <2>2 DEF TickStep, TickStart, TickList, TickListTrc20, TickFind, TickCreate, TickDistinct, TickInsert,
         TickEnds, TickErrs
    <3> QED BY <2>0, <2>2, <3>1, TickMoves DEF WalletMove, others
  <2>3. CASE \E d \in Deposits : Arrive(d)
    BY <1>1, <2>0, <2>3 DEF WalletMove, Arrive, others
  <2>4. CASE \E w \in Requests : Submit(w)
    BY <1>2, <2>0, <2>4 DEF WalletMove, Submit, others
  <2>5. CASE \E t \in Posted : AddTransaction(t)
    BY <1>3, <2>0, <2>5 DEF WalletMove, AddTransaction, others
  <2>6. CASE AppCreated \/ AppDeleted
    <3>1. newer' \in 0..MaxNewer
      BY <2>0, <2>6 DEF AppCreated, AppDeleted
    <3> QED BY <2>0, <2>6, <3>1 DEF WalletMove, OthersMove, AppCreated, AppDeleted
  <2>7. CASE \E t \in Between : RowElsewhere(t)
    BY <2>0, <2>7 DEF WalletMove, OthersMove, RowElsewhere
  <2> QED BY <2>1, <2>2, <2>3, <2>4, <2>5, <2>6, <2>7 DEF Next

LEMMA TokensOfRequests ==
  ASSUME NEW w \in Requests
  PROVE  /\ Net[w] \in Nat \ {0} /\ Fee[w] \in Nat /\ TokenOf(<<w, "merchant">>) \in Token
         /\ <<w, "merchant">> \in TxIds /\ <<w, "fee">> \in TxIds
BY WalletAssumption DEF TokenOf, Token, TxIds, Legs

LEMMA MintEffect ==
  ASSUME WalletTyped, NEW t \in TxIds, t \notin Mined, ledger' = Append(ledger, t)
  PROVE  ledger' \in Seq(TxIds) /\ IsInjective(ledger') /\ Mined' = Mined \cup {t}
BY MinedGrows DEF WalletTyped, TypeOK

LEMMA SendEffect ==
  ASSUME WalletTyped, NEW w \in Requests, Broadcast(w), request[w].pc = "send"
  PROVE  /\ ledger' \in Seq(TxIds) /\ IsInjective(ledger')
         /\ balance' \in [Token -> Nat] /\ nonce' \in Nat /\ LegTx(w) \notin Mined
         /\ Executes(w) =>
              /\ Mined' = Mined \cup {LegTx(w)} /\ Held(w) >= Cost(w)
              /\ balance'[TokenOf(<<w, "merchant">>)] = Held(w) - Cost(w)
         /\ ~Executes(w) => Mined' = Mined /\ balance' = balance
<1>1. /\ request[w].leg \in {"merchant", "fee"} /\ LegTx(w) \in TxIds
  BY AtEffect, TokensOfRequests DEF RequestState, LegTx
<1>2. LegTx(w) \notin Mined
  BY DEF WalletTyped, LegsInOrder
<1>3. ledger \in Seq(TxIds) /\ IsInjective(ledger) /\ balance \in [Token -> Nat] /\ nonce \in Nat
  BY DEF WalletTyped, TypeOK
<1>4. nonce' \in Nat
  BY <1>3 DEF Broadcast
<1>5. Cost(w) \in Nat
  <2>1. Cost(w) \in {Fee[w], Net[w] + Fee[w], Net[w]}
    BY DEF Cost, Amount
  <2>2. Fee[w] \in Nat /\ Net[w] \in Nat
    BY TokensOfRequests
  <2> QED BY <2>1, <2>2
<1>6. CASE Executes(w)
  <2>1. ledger' = Append(ledger, LegTx(w))
    BY <1>6 DEF Broadcast, LegTx
  <2>2. Held(w) >= Cost(w)
    BY <1>6 DEF Executes, Cost
  <2>3. balance' = [balance EXCEPT ![TokenOf(<<w, "merchant">>)] = @ - Cost(w)]
    BY <1>6 DEF Broadcast, Cost
  <2>4. /\ balance' \in [Token -> Nat]
        /\ balance'[TokenOf(<<w, "merchant">>)] = Held(w) - Cost(w)
    <3> DEFINE k == TokenOf(<<w, "merchant">>)
               c == Cost(w)
    <3>1. k \in Token /\ c \in Nat /\ balance[k] >= c /\ Held(w) = balance[k]
      BY <1>5, <2>2, TokensOfRequests DEF Held
    <3>2. balance' = [balance EXCEPT ![k] = @ - c]
      BY <2>3
    <3> HIDE DEF k, c
    <3>3. balance' \in [Token -> Nat] /\ balance'[k] = balance[k] - c
      BY <1>3, <3>1, <3>2
    <3> QED BY <3>1, <3>3 DEF k, c
  <2> QED BY <1>1, <1>2, <1>4, <1>6, <2>1, <2>2, <2>4, MintEffect
<1>7. CASE ~Executes(w)
  <2>1. UNCHANGED <<ledger, balance>>
    BY <1>7 DEF Broadcast
  <2> QED BY <1>2, <1>3, <1>4, <1>7, <2>1 DEF Mined
<1> QED BY <1>6, <1>7

\* The steps of request w other than its faults, and all of them.
OwnMove(w) == Submits(w) \/ Checks(w) \/ ReadsNonce(w) \/ Sends(w) \/ Verifies(w) \/ Saves(w)

\* What the steps of others leave alone of request w.
Untouched(w) ==
  /\ request'[w] = request[w]
  /\ \A leg \in {"merchant", "fee"} : <<w, leg>> \in Mined' <=> <<w, leg>> \in Mined

LEMMA RequestsKeepType ==
  ASSUME WalletTyped, WalletMove
  PROVE  request' \in [Requests -> RequestState]
<1>1. ASSUME NEW w \in Requests, OwnMove(w) \/ Errs(w) PROVE request' \in [Requests -> RequestState]
  BY <1>1 DEF OwnMove, Submits, Checks, ReadsNonce, Sends, Verifies, Saves, Errs, PaidOn, UnpaidOn, Comes
<1>2. WalletTyped => request \in [Requests -> RequestState]
  BY DEF WalletTyped, TypeOK
<1> QED BY <1>1, <1>2 DEF WalletMove, OthersMove, OwnMove, Arrives, Reports, Reads, Finds, Misses, Creates, Inserts

LEMMA WalletElsewhere ==
  ASSUME WalletTyped, WalletMove, NEW w \in Requests
  PROVE  OwnMove(w) \/ Errs(w) \/ Untouched(w)
<1>1. ASSUME NEW d \in Deposits, Arrives(d) PROVE Untouched(w)
  <2>1. d \in TxIds /\ \A leg \in {"merchant", "fee"} : <<w, leg>> # d
    BY WalletAssumption DEF TxIds, Legs
  <2>2. Mined' = Mined \cup {d}
    BY <1>1, <2>1, MintEffect DEF Arrives
  <2>3. request' = request
    BY <1>1 DEF Arrives
  <2> QED BY <2>1, <2>2, <2>3 DEF Untouched
<1>2. ASSUME NEW v \in Requests, v # w, OwnMove(v) \/ Errs(v) PROVE Untouched(w)
  <2>1. request'[w] = request[w]
    BY <1>2 DEF OwnMove, Submits, Checks, ReadsNonce, Sends, Verifies, Saves, Errs, PaidOn, UnpaidOn, Comes
  <2>2. CASE Sends(v)
    <3>1. Mined' = Mined \/ Mined' = Mined \cup {LegTx(v)}
      BY <2>2, SendEffect DEF Sends
    <3>2. \A leg \in {"merchant", "fee"} : <<w, leg>> # LegTx(v)
      BY <1>2 DEF LegTx
    <3> QED BY <2>1, <3>1, <3>2 DEF Untouched
  <2>3. CASE ~Sends(v)
    <3>1. ledger' = ledger
      BY <1>2, <2>3 DEF OwnMove, Submits, Checks, ReadsNonce, Verifies, Saves, Errs, walletVars
    <3> QED BY <2>1, <3>1 DEF Untouched, Mined
  <2> QED BY <2>2, <2>3
<1>3. ASSUME UNCHANGED <<walletVars, request>> PROVE Untouched(w)
  BY <1>3 DEF Untouched, Mined, walletVars
<1>4. ASSUME NEW t \in TxIds, Reports(t) PROVE Untouched(w)
  BY <1>3, <1>4 DEF Reports
<1>5. ASSUME NEW m \in Ticks, Reads(m) \/ Finds(m) \/ Misses(m) \/ Creates(m) \/ Inserts(m)
      PROVE  Untouched(w)
  BY <1>3, <1>5 DEF Reads, Finds, Misses, Creates, Inserts
<1>6. CASE OthersMove
  BY <1>3, <1>6 DEF OthersMove
<1> QED BY <1>1, <1>2, <1>4, <1>5, <1>6 DEF WalletMove, OwnMove

LEMMA WalletTypedStep ==
  ASSUME WalletTyped, WalletMove
  PROVE  WalletTyped'
<1>1. request' \in [Requests -> RequestState]
  BY RequestsKeepType
<1>2. /\ ledger' \in Seq(TxIds) /\ IsInjective(ledger')
      /\ balance' \in [Token -> Nat] /\ nonce' \in Nat
  <2>1. ASSUME NEW d \in Deposits, Arrives(d)
        PROVE  ledger' \in Seq(TxIds) /\ IsInjective(ledger') /\ balance' \in [Token -> Nat] /\ nonce' = nonce
    BY <2>1, MintEffect DEF Arrives, TxIds
  <2>2. ASSUME NEW w \in Requests, Sends(w)
        PROVE  /\ ledger' \in Seq(TxIds) /\ IsInjective(ledger')
               /\ balance' \in [Token -> Nat] /\ nonce' \in Nat
    BY <2>2, SendEffect DEF Sends
  <2>3. CASE UNCHANGED walletVars
    BY <2>3 DEF walletVars, WalletTyped, TypeOK
  <2>4. nonce \in Nat
    BY DEF WalletTyped, TypeOK
  <2> QED BY <2>1, <2>2, <2>3, <2>4 DEF WalletMove, OthersMove, Submits, Checks, ReadsNonce, Verifies, Saves,
           Errs, Reports, Reads, Finds, Misses, Creates, Inserts
<1>3. incoming' \in [TxIds -> Nat]
  <2>1. incoming \in [TxIds -> Nat]
    BY DEF WalletTyped, TypeOK
  <2>2. ASSUME NEW t \in TxIds, Reports(t) PROVE incoming' \in [TxIds -> Nat]
    BY <2>1, <2>2 DEF Reports
  <2>3. ASSUME NEW m \in Ticks, Creates(m) PROVE incoming' \in [TxIds -> Nat]
    <3>1. Head(tick[m].queue) \in TxIds
      BY <2>3, TickTypes, HeadTailProperties DEF Creates, WalletTyped, TicksInOrder
    <3> QED BY <2>1, <2>3, <3>1 DEF Creates
  <2>4. ASSUME NEW m \in Ticks, Inserts(m) PROVE incoming' \in [TxIds -> Nat]
    BY <2>1, <2>4 DEF Inserts
  <2> QED BY <2>1, <2>2, <2>3, <2>4 DEF WalletMove, OthersMove, Arrives, Submits, Checks, ReadsNonce, Sends,
           Verifies, Saves, Errs, Reads, Finds, Misses, records
<1>4. outgoing' \in [Requests -> Nat]
  <2>1. outgoing \in [Requests -> Nat]
    BY DEF WalletTyped, TypeOK
  <2>2. ASSUME NEW w \in Requests, Saves(w) PROVE outgoing' \in [Requests -> Nat]
    BY <2>1, <2>2 DEF Saves
  <2> QED BY <2>1, <2>2 DEF WalletMove, OthersMove, Arrives, Submits, Checks, ReadsNonce, Sends, Verifies, Errs,
           Reports, Reads, Finds, Misses, Creates, Inserts, records
<1>5. tick' \in [Ticks -> TickState] /\ TicksInOrder'
  <2>1. tick \in [Ticks -> TickState] /\ TicksInOrder
    BY DEF WalletTyped, TypeOK
  <2>2. ASSUME NEW m \in Ticks, NEW p, Turns(m, p), p # "create" \/ tick'[m].queue # <<>>
        PROVE  tick' \in [Ticks -> TickState] /\ TicksInOrder'
    BY <2>1, <2>2 DEF Turns, TicksInOrder
  <2>3. ASSUME NEW m \in Ticks, Reads(m) \/ Finds(m) \/ Misses(m) \/ Creates(m) \/ Inserts(m)
        PROVE  \E p : Turns(m, p) /\ (p # "create" \/ tick'[m].queue # <<>>)
    BY <2>3 DEF Reads, Finds, Misses, Creates, Inserts
  <2>4. CASE UNCHANGED tick
    BY <2>1, <2>4 DEF TicksInOrder
  <2> QED BY <2>2, <2>3, <2>4 DEF WalletMove, OthersMove, Arrives, Submits, Checks, ReadsNonce, Sends, Verifies,
           Saves, Errs, Reports
<1>6. /\ wallet' \in Wallets /\ newer' \in 0..MaxNewer /\ elsewhere' \subseteq Between
      /\ posted' \subseteq Posted /\ faults' \in 0..MaxFaults
      /\ overlapped' \subseteq Requests /\ short' \subseteq Requests
  <2>1. /\ wallet \in Wallets /\ posted \subseteq Posted /\ faults \in 0..MaxFaults
        /\ overlapped \subseteq Requests /\ short \subseteq Requests /\ MaxFaults \in Nat
    BY WalletAssumption DEF WalletTyped, TypeOK
  <2>2. faults' \in 0..MaxFaults
    <3>1. faults' = faults \/ Fault
      BY DEF WalletMove, OthersMove, Arrives, Submits, Checks, ReadsNonce, Sends, Verifies, Saves, Errs,
         Reports, Reads, Finds, Misses, Creates, Inserts
    <3> QED BY <2>1, <3>1 DEF Fault
  <2> QED BY <2>1, <2>2 DEF WalletMove, OthersMove, Arrives, Submits, Checks, ReadsNonce, Sends, Verifies, Saves, Errs,
         Reports, Reads, Finds, Misses, Creates, Inserts
<1>7. LegsInOrder'
  <2> SUFFICES ASSUME NEW w \in Requests
               PROVE  (/\ request[w].pc = "idle" => request[w].leg = "merchant"
                       /\ request[w].leg = "merchant" => <<w, "fee">> \notin Mined
                       /\ request[w].pc \in {"idle", "check", "nonce", "send"} => LegTx(w) \notin Mined)'
    BY DEF LegsInOrder
  <2> DEFINE Order == /\ request[w].pc = "idle" => request[w].leg = "merchant"
                      /\ request[w].leg = "merchant" => <<w, "fee">> \notin Mined
                      /\ request[w].pc \in {"idle", "check", "nonce", "send"} => LegTx(w) \notin Mined
  <2>1. Order /\ request[w].leg \in {"merchant", "fee"}
    BY AtEffect DEF WalletTyped, LegsInOrder, RequestState
  <2>2. CASE Untouched(w)
    BY <2>1, <2>2 DEF Untouched, LegTx
  <2>3. CASE Sends(w)
    <3>1. Mined' = Mined \/ Mined' = Mined \cup {LegTx(w)}
      BY <2>3, SendEffect DEF Sends
    <3> QED BY <2>1, <2>3, <3>1 DEF Sends, PaidOn, UnpaidOn, Comes, LegTx
  <2>4. CASE (OwnMove(w) /\ ~Sends(w)) \/ Errs(w)
    <3>1. Mined' = Mined
      BY <2>4 DEF OwnMove, Submits, Checks, ReadsNonce, Verifies, Saves, Errs, walletVars, Mined
    <3>2. CASE Submits(w)
      BY <2>1, <3>1, <3>2 DEF Submits, Comes, LegTx
    <3>3. CASE Checks(w)
      BY <2>1, <3>1, <3>3 DEF Checks, UnpaidOn, Comes, LegTx
    <3>4. CASE ReadsNonce(w)
      BY <2>1, <3>1, <3>4 DEF ReadsNonce, Comes, LegTx
    <3>5. CASE Verifies(w)
      BY <2>1, <3>1, <3>5 DEF Verifies, PaidOn, UnpaidOn, Comes, LegTx
    <3>6. CASE Saves(w)
      BY <2>1, <3>1, <3>6 DEF Saves, Comes, LegTx
    <3>7. CASE Errs(w)
      BY <2>1, <3>1, <3>7 DEF Errs, PaidOn, Comes, LegTx
    <3> QED BY <2>4, <3>2, <3>3, <3>4, <3>5, <3>6, <3>7 DEF OwnMove
  <2> QED BY <2>2, <2>3, <2>4, WalletElsewhere DEF OwnMove
<1> QED BY <1>1, <1>2, <1>3, <1>4, <1>5, <1>6, <1>7 DEF WalletTyped, TypeOK

-----------------------------------------------------------------------------
(* AppWallet: rows.                                                        *)

\* The ticks that are about to store a row for t.
Storing(t) == {m \in Ticks : \/ tick[m].pc = "create" /\ t = Head(tick[m].queue)
                             \/ tick[m].pc = "insert" /\ t \in ToSet(tick[m].queue)}

\* A tick that is about to store a row counts as one.
RowsInv ==
  /\ \A t \in TxIds :
       incoming[t] + Cardinality(Storing(t)) <= Cardinality(Ticks) + (IF t \in posted THEN 1 ELSE 0)
  /\ \A w \in Requests : /\ outgoing[w] <= 1
                         /\ request[w].pc # "done" => outgoing[w] = 0

LEMMA StoringTicks ==
  ASSUME NEW t
  PROVE  /\ Storing(t) \subseteq Ticks /\ IsFiniteSet(Storing(t)) /\ IsFiniteSet(Ticks)
         /\ Cardinality(Storing(t)) \in Nat /\ Cardinality(Ticks) \in Nat
         /\ Cardinality(Storing(t)) <= Cardinality(Ticks)
<1>1. Storing(t) \subseteq Ticks /\ IsFiniteSet(Ticks)
  BY WalletAssumption DEF Storing
<1> QED BY <1>1, FS_Subset, FS_CardinalityType

\* A tick other than m keeps its intention.
LEMMA OthersStore ==
  ASSUME NEW m \in Ticks, NEW p, Turns(m, p), NEW t
  PROVE  Storing(t)' \ {m} = Storing(t) \ {m}
BY DEF Turns, Storing

LEMMA RowsStep ==
  ASSUME WalletTyped, RowsInv, WalletMove
  PROVE  RowsInv'
<1>1. ASSUME NEW t \in TxIds
      PROVE  (incoming[t] + Cardinality(Storing(t)) <= Cardinality(Ticks) + (IF t \in posted THEN 1 ELSE 0))'
  <2>1. /\ incoming[t] \in Nat /\ incoming[t] + Cardinality(Storing(t)) <= Cardinality(Ticks) + (IF t \in posted THEN 1 ELSE 0)
        /\ incoming \in [TxIds -> Nat]
    BY DEF WalletTyped, TypeOK, RowsInv
  <2>2. Storing(t)' \subseteq Ticks
    BY DEF Storing
  <2>3. /\ Cardinality(Ticks) \in Nat /\ Cardinality(Storing(t)) \in Nat
        /\ Cardinality(Storing(t)') \in Nat /\ Cardinality(Storing(t)') <= Cardinality(Ticks)
        /\ IsFiniteSet(Storing(t))
    BY <2>2, StoringTicks, FS_Subset, FS_CardinalityType
  <2>4. ASSUME incoming'[t] = incoming[t], posted' = posted, Storing(t)' \subseteq Storing(t)
        PROVE  incoming'[t] + Cardinality(Storing(t)') <= Cardinality(Ticks) + (IF t \in posted' THEN 1 ELSE 0)
    <3>1. Cardinality(Storing(t)') <= Cardinality(Storing(t))
      BY <2>3, <2>4, FS_Subset
    <3> QED BY <2>1, <2>3, <2>4, <3>1
  <2>5. ASSUME NEW m \in Storing(t), incoming'[t] = incoming[t] + 1, posted' = posted,
               Storing(t)' \subseteq Storing(t) \ {m}
        PROVE  incoming'[t] + Cardinality(Storing(t)') <= Cardinality(Ticks) + (IF t \in posted' THEN 1 ELSE 0)
    <3>1. IsFiniteSet(Storing(t) \ {m}) /\ Cardinality(Storing(t) \ {m}) = Cardinality(Storing(t)) - 1
      BY <2>3, FS_RemoveElement
    <3>2. Cardinality(Storing(t)') <= Cardinality(Storing(t) \ {m})
      BY <2>5, <3>1, FS_Subset
    <3> QED BY <2>1, <2>3, <2>5, <3>1, <3>2
  <2>6. ASSUME incoming' = incoming, ~HasRow(t)
        PROVE  incoming'[t] + Cardinality(Storing(t)') <= Cardinality(Ticks) + (IF t \in posted' THEN 1 ELSE 0)
    <3>1. incoming'[t] = 0
      BY <2>1, <2>6 DEF HasRow
    <3> QED BY <2>3, <3>1
  <2>7. CASE UNCHANGED <<tick, incoming, posted>>
    BY <2>4, <2>7 DEF Storing
  <2>8. ASSUME NEW u \in TxIds, Reports(u)
        PROVE  incoming'[t] + Cardinality(Storing(t)') <= Cardinality(Ticks) + (IF t \in posted' THEN 1 ELSE 0)
    <3>1. Storing(t)' = Storing(t)
      BY <2>8 DEF Reports, Storing
    <3>2. CASE u = t
      <4>1. incoming'[t] = incoming[t] + 1 /\ t \notin posted /\ t \in posted'
        BY <2>1, <2>8, <3>2 DEF Reports
      <4> QED BY <2>1, <2>3, <3>1, <4>1
    <3>3. CASE u # t
      <4>1. incoming'[t] = incoming[t] /\ (t \in posted' <=> t \in posted)
        BY <2>1, <2>8, <3>3 DEF Reports
      <4> QED BY <2>1, <2>3, <3>1, <4>1
    <3> QED BY <3>2, <3>3
  <2>9. ASSUME NEW m \in Ticks, Reads(m) \/ Finds(m) \/ Misses(m) \/ Creates(m) \/ Inserts(m)
        PROVE  incoming'[t] + Cardinality(Storing(t)') <= Cardinality(Ticks) + (IF t \in posted' THEN 1 ELSE 0)
    <3>1. Storing(t)' \ {m} = Storing(t) \ {m} /\ posted' = posted
      BY <2>9, OthersStore DEF Reads, Finds, Misses, Creates, Inserts
    <3>2. m \notin Storing(t)' => Storing(t)' \subseteq Storing(t) \ {m}
      BY <3>1
    <3>3. CASE Reads(m)
      <4>1. m \notin Storing(t)' /\ incoming' = incoming
        BY <3>3 DEF Reads, Turns, Storing, records
      <4> QED BY <2>4, <3>1, <3>2, <4>1
    <3>4. CASE Finds(m) \/ Misses(m)
      <4>1. incoming' = incoming
        BY <3>4 DEF Finds, Misses, records
      <4>2. m \in Storing(t)' => ~HasRow(t)
        BY <3>4 DEF Finds, Misses, Turns, Storing
      <4> QED BY <2>4, <2>6, <3>1, <3>2, <4>1, <4>2
    <3>5. CASE Creates(m) \/ Inserts(m)
      <4>1. m \notin Storing(t)'
        BY <3>5 DEF Creates, Inserts, Turns, Storing
      <4>2. incoming'[t] = incoming[t] + IF m \in Storing(t) THEN 1 ELSE 0
        BY <2>1, <3>5 DEF Creates, Inserts, Storing
      <4>3. CASE m \in Storing(t)
        <5>1. incoming'[t] = incoming[t] + 1
          BY <4>2, <4>3
        <5> QED BY <2>5, <3>1, <3>2, <4>1, <4>3, <5>1
      <4>4. CASE m \notin Storing(t)
        <5>1. incoming'[t] = incoming[t]
          BY <2>1, <4>2, <4>4
        <5> QED BY <2>4, <3>1, <3>2, <4>1, <4>4, <5>1
      <4> QED BY <4>3, <4>4
    <3> QED BY <2>9, <3>3, <3>4, <3>5
  <2> QED BY <2>7, <2>8, <2>9 DEF WalletMove, OthersMove, Arrives, Submits, Checks, ReadsNonce, Sends,
           Verifies, Saves, Errs, records
<1>2. ASSUME NEW w \in Requests
      PROVE  (outgoing[w] <= 1 /\ (request[w].pc # "done" => outgoing[w] = 0))'
  <2>1. /\ outgoing \in [Requests -> Nat] /\ outgoing[w] <= 1
        /\ request[w].pc # "done" => outgoing[w] = 0
    BY DEF WalletTyped, TypeOK, RowsInv
  <2>2. ASSUME NEW v \in Requests, Saves(v)
        PROVE  outgoing'[w] <= 1 /\ (request'[w].pc # "done" => outgoing'[w] = 0)
    <3>1. CASE v = w
      BY <2>1, <2>2, <3>1 DEF Saves, Comes
    <3>2. CASE v # w
      BY <2>1, <2>2, <3>2 DEF Saves, Comes
    <3> QED BY <3>1, <3>2
  <2>3. CASE ~\E v \in Requests : Saves(v)
    <3>1. outgoing' = outgoing
      BY <2>3 DEF WalletMove, OthersMove, Arrives, Submits, Checks, ReadsNonce, Sends, Verifies, Errs,
           Reports, Reads, Finds, Misses, Creates, Inserts, records
    <3>2. request'[w].pc # "done" => request[w].pc # "done"
      <4>1. Untouched(w) \/ Submits(w) \/ Checks(w) \/ ReadsNonce(w) \/ Sends(w) \/ Verifies(w) \/ Errs(w)
        BY <2>3, WalletElsewhere DEF OwnMove
      <4> QED BY <4>1 DEF Untouched, Submits, Checks, ReadsNonce, Sends, Verifies, Errs, Running
    <3> QED BY <2>1, <3>1, <3>2
  <2> QED BY <2>2, <2>3
<1> QED BY <1>1, <1>2 DEF RowsInv

-----------------------------------------------------------------------------
(* AppWallet: what rows and answers tell.                                  *)

BesideInv ==
  \A v, w \in Requests : v # w /\ Running(v) /\ Running(w) => v \in overlapped

Paid(w) == <<w, "merchant">> \in Mined
FeePaid(w) == <<w, "fee">> \in Mined \/ Fee[w] = 0 \/ chain = "BTC"

\* A request alone at the wallet finds what it saw there; one that is not short
\* finds the fee as well.
PurseInv(w) ==
  /\ w \notin overlapped =>
       /\ request[w].pc \in {"nonce", "send"} => Held(w) >= Cost(w)
       /\ request[w].pc = "send" /\ chain = "EVM" => request[w].nonce = nonce
       /\ request[w].pc = "verify" => request[w].ok
  /\ w \notin overlapped \cup short /\ chain # "BTC" =>
       /\ request[w].leg = "merchant" /\ request[w].pc \in {"nonce", "send"} => Held(w) >= Net[w] + Fee[w]
       /\ request[w].leg = "merchant" /\ request[w].pc = "verify" => Held(w) >= Fee[w]
       /\ request[w].leg = "fee" /\ request[w].pc \in {"check", "nonce", "send"} => Held(w) >= Fee[w]

\* What the place of a request tells of its legs.
PlaceInv(w) ==
  /\ request[w].leg = "fee" => Paid(w) /\ Fee[w] > 0 /\ chain # "BTC"
  /\ request[w].pc = "verify" => (request[w].ok <=> LegTx(w) \in Mined)
  /\ request[w].pc \in {"save", "done"} =>
       Paid(w) /\ (FeePaid(w) \/ w \in overlapped \cup short)
  /\ request[w].pc = "failed" => ~Paid(w) \/ (chain = "TRON" /\ w \in overlapped)

TrueInv == faults = 0 => \A w \in Requests : PurseInv(w) /\ PlaceInv(w)

LEMMA HistoryGrows ==
  ASSUME WalletTyped, WalletMove
  PROVE  /\ wallet' = wallet /\ overlapped \subseteq overlapped' /\ short \subseteq short'
         /\ faults' = 0 => faults = 0
<1>1. faults \in Nat /\ (faults' = faults \/ faults' = faults + 1)
  <2>1. faults' = faults \/ Fault
    BY DEF WalletMove, OthersMove, Arrives, Submits, Checks, ReadsNonce, Sends, Verifies, Saves, Errs, Reports, Reads,
       Finds, Misses, Creates, Inserts
  <2> QED BY <2>1, WalletAssumption DEF WalletTyped, TypeOK, Fault
<1>2. faults' = 0 => faults = 0
  BY <1>1
<1>3. wallet' = wallet /\ overlapped \subseteq overlapped' /\ short \subseteq short'
  BY DEF WalletMove, OthersMove, Arrives, Submits, Checks, ReadsNonce, Sends, Verifies, Saves, Errs, Reports, Reads,
     Finds, Misses, Creates, Inserts
<1> QED BY <1>2, <1>3

LEMMA BesideStep ==
  ASSUME WalletTyped, BesideInv, WalletMove
  PROVE  BesideInv'
<1> SUFFICES ASSUME NEW v \in Requests, NEW w \in Requests, v # w, Running(v)', Running(w)'
             PROVE  v \in overlapped'
  BY DEF BesideInv
<1>1. ASSUME NEW u \in Requests, Running(u)' PROVE Running(u) \/ Submits(u)
  <2>1. CASE Untouched(u)
    BY <1>1, <2>1 DEF Untouched, Running
  <2>2. CASE OwnMove(u) \/ Errs(u)
    BY <1>1, <2>2 DEF OwnMove, Checks, ReadsNonce, Sends, Verifies, Saves, Errs, Running
  <2> QED BY <2>1, <2>2, WalletElsewhere
<1>2. CASE Running(v) /\ Running(w)
  BY <1>2, HistoryGrows DEF BesideInv
<1>3. CASE Submits(w)
  BY <1>3 DEF Submits, Comes, Running
<1>4. CASE Submits(v)
  BY <1>4 DEF Submits, Comes, Running
<1> QED BY <1>1, <1>2, <1>3, <1>4

\* What the steps of others leave a request that is alone at the wallet.
Calm(w) ==
  Running(w) /\ w \notin overlapped' => Held(w)' >= Held(w) /\ nonce' = nonce

LEMMA AloneIsCalm ==
  ASSUME WalletTyped, BesideInv, WalletMove, NEW w \in Requests
  PROVE  OwnMove(w) \/ Errs(w) \/ (Untouched(w) /\ Calm(w))
<1> SUFFICES ASSUME ~OwnMove(w), ~Errs(w), Running(w), w \notin overlapped'
             PROVE  Held(w)' >= Held(w) /\ nonce' = nonce
  BY WalletElsewhere DEF Calm
<1>1. Held(w) \in Nat
  BY TokensOfRequests DEF WalletTyped, TypeOK, Held
<1>2. CASE UNCHANGED walletVars
  BY <1>1, <1>2 DEF walletVars, Held
<1>3. ASSUME NEW d \in Deposits, Arrives(d) PROVE Held(w)' >= Held(w) /\ nonce' = nonce
  BY <1>3, TokensOfRequests DEF Arrives, Held
<1>4. ASSUME NEW v \in Requests, Sends(v) PROVE FALSE
  <2>1. v # w /\ Running(v)
    BY <1>4 DEF OwnMove, Sends, Running
  <2> QED BY <2>1, HistoryGrows DEF BesideInv
<1> QED BY <1>2, <1>3, <1>4 DEF WalletMove, OthersMove, Submits, Checks, ReadsNonce, Verifies, Saves, Errs, Reports, Reads,
       Finds, Misses, Creates, Inserts

LEMMA CostType ==
  ASSUME WalletTyped, NEW w \in Requests
  PROVE  /\ Net[w] \in Nat \ {0} /\ Fee[w] \in Nat /\ Held(w) \in Nat
         /\ request[w].leg \in {"merchant", "fee"}
         /\ request[w].leg = "fee" => Cost(w) = Fee[w]
         /\ request[w].leg = "merchant" /\ chain = "BTC" => Cost(w) = Net[w] + Fee[w]
         /\ request[w].leg = "merchant" /\ chain # "BTC" => Cost(w) = Net[w]
BY AtEffect, TokensOfRequests DEF WalletTyped, TypeOK, RequestState, Held, Cost, Amount

LEMMA PurseStep ==
  ASSUME WalletTyped, BesideInv, TrueInv, WalletMove, faults' = 0, NEW w \in Requests
  PROVE  PurseInv(w)'
<1> USE DEF PurseInv
<1>1. PurseInv(w) /\ overlapped \subseteq overlapped' /\ short \subseteq short' /\ ~Fault /\ chain' = chain
  BY HistoryGrows DEF TrueInv, WalletTyped, TypeOK, Fault, chain
<1>2. /\ Net[w] \in Nat \ {0} /\ Fee[w] \in Nat /\ Held(w) \in Nat
      /\ request[w].leg \in {"merchant", "fee"}
      /\ request[w].leg = "fee" => Cost(w) = Fee[w]
      /\ request[w].leg = "merchant" /\ chain = "BTC" => Cost(w) = Net[w] + Fee[w]
      /\ request[w].leg = "merchant" /\ chain # "BTC" => Cost(w) = Net[w]
  BY CostType
<1>3. request'[w].leg = request[w].leg => Cost(w)' = Cost(w)
  BY <1>1 DEF Cost, Amount, chain
<1>4. UNCHANGED balance => Held(w)' = Held(w)
  BY DEF Held
<1>5. CASE Untouched(w) /\ Calm(w)
  <2>1. request'[w] = request[w]
    BY <1>5 DEF Untouched
  <2>2. request[w].pc \in {"check", "nonce", "send", "verify"} /\ w \notin overlapped'
        => Held(w)' >= Held(w) /\ nonce' = nonce
    BY <1>5 DEF Calm, Running
  <2>3. Held(w)' \in Nat
    BY TokensOfRequests, WalletTypedStep DEF WalletTyped, TypeOK, Held
  <2> QED BY <1>1, <1>2, <1>3, <2>1, <2>2, <2>3
<1>6. CASE Submits(w)
  BY <1>6 DEF Submits, Comes
<1>7. CASE Checks(w)
  <2>1. CASE UnpaidOn(w, FALSE)
    BY <2>1 DEF UnpaidOn, Comes
  <2>2. CASE Held(w) >= Cost(w) /\ Comes(w, IF chain = "EVM" THEN "nonce" ELSE "send", request[w].leg)
    <3>1. Held(w)' = Held(w) /\ Cost(w)' = Cost(w)
      BY <1>3, <1>4, <1>7, <2>2 DEF Checks, Comes, walletVars
    <3>2. request'[w].pc = (IF chain = "EVM" THEN "nonce" ELSE "send") /\ request'[w].leg = request[w].leg
      BY <2>2 DEF Comes
    <3>3. request[w].leg = "merchant" /\ Held(w) < Net[w] + Fee[w] => w \in short'
      BY <1>7 DEF Checks
    <3> QED BY <1>1, <1>2, <2>2, <3>1, <3>2, <3>3
  <2> QED BY <1>7, <2>1, <2>2 DEF Checks
<1>8. CASE ReadsNonce(w)
  <2>1. /\ request[w].pc = "nonce" /\ request'[w].pc = "send" /\ request'[w].leg = request[w].leg
        /\ request'[w].nonce = nonce /\ nonce' = nonce /\ overlapped' = overlapped /\ short' = short
        /\ Held(w)' = Held(w)
    BY <1>4, <1>8 DEF ReadsNonce, Comes, walletVars
  <2> QED BY <1>1, <1>2, <1>3, <2>1
<1>9. CASE Sends(w)
  <2>1. request[w].pc = "send" /\ overlapped' = overlapped /\ short' = short
    BY <1>9 DEF Sends
  <2>2. w \notin overlapped => Executes(w)
    BY <1>1, <2>1 DEF Executes, Accepted, Cost
  <2>3. Executes(w) => Held(w)' = Held(w) - Cost(w)
    BY <1>9, SendEffect DEF Sends, Held
  <2>4. CASE Comes(w, "verify", request[w].leg) /\ request'[w].ok = Executes(w)
    <3>1. request'[w].pc = "verify" /\ request'[w].leg = request[w].leg
      BY <2>4 DEF Comes
    <3>2. w \notin overlapped => request'[w].ok
      BY <2>2, <2>4
    <3> QED BY <1>1, <1>2, <2>1, <2>2, <2>3, <3>1, <3>2
  <2>5. CASE Executes(w) /\ PaidOn(w)
    <3>1. CASE Comes(w, "check", "fee") /\ request[w].leg = "merchant" /\ chain # "BTC"
      BY <1>1, <1>2, <2>1, <2>3, <2>5, <3>1 DEF Comes
    <3>2. CASE Comes(w, "save", request[w].leg)
      BY <3>2 DEF Comes
    <3> QED BY <2>5, <3>1, <3>2 DEF PaidOn
  <2>6. CASE UnpaidOn(w, TRUE)
    BY <2>6 DEF UnpaidOn, Comes
  <2> QED BY <1>1, <1>9, <2>4, <2>5, <2>6 DEF Sends
<1>10. CASE Verifies(w)
  <2>1. CASE request[w].leg = "merchant" /\ chain # "BTC" /\ Comes(w, "check", "fee")
    <3>1. /\ request[w].pc = "verify" /\ overlapped' = overlapped /\ short' = short /\ Held(w)' = Held(w)
          /\ request'[w].pc = "check" /\ request'[w].leg = "fee"
      BY <1>4, <1>10, <2>1 DEF Verifies, Comes, walletVars
    <3> QED BY <1>1, <2>1, <3>1
  <2>2. CASE \E p \in {"save", "failed"}, leg \in {"merchant", "fee"} : Comes(w, p, leg)
    BY <2>2 DEF Comes
  <2> QED BY <1>2, <1>10, <2>1, <2>2 DEF Verifies, PaidOn, UnpaidOn
<1>11. CASE Saves(w)
  BY <1>11 DEF Saves, Comes
<1> QED BY <1>1, <1>5, <1>6, <1>7, <1>8, <1>9, <1>10, <1>11, AloneIsCalm DEF OwnMove, Errs

LEMMA PlaceStep ==
  ASSUME WalletTyped, BesideInv, TrueInv, WalletMove, faults' = 0, NEW w \in Requests
  PROVE  PlaceInv(w)'
<1> USE DEF PlaceInv
<1>1. /\ PlaceInv(w) /\ PurseInv(w) /\ overlapped \subseteq overlapped' /\ short \subseteq short'
      /\ ~Fault /\ chain' = chain
  BY HistoryGrows DEF TrueInv, WalletTyped, TypeOK, Fault, chain
<1>2. /\ Net[w] \in Nat \ {0} /\ Fee[w] \in Nat /\ Held(w) \in Nat
      /\ request[w].leg \in {"merchant", "fee"}
      /\ request[w].leg = "fee" => Cost(w) = Fee[w]
  BY CostType
<1>3. CASE Untouched(w)
  <2>1. /\ request'[w] = request[w] /\ (Paid(w)' <=> Paid(w)) /\ (FeePaid(w)' <=> FeePaid(w))
        /\ (LegTx(w) \in Mined)' <=> LegTx(w) \in Mined
    BY <1>1, <1>2, <1>3 DEF Untouched, Paid, FeePaid, LegTx
  <2> QED BY <1>1, <2>1
<1>4. ASSUME Mined' = Mined PROVE (Paid(w)' <=> Paid(w)) /\ (FeePaid(w)' <=> FeePaid(w))
  BY <1>1, <1>4 DEF Paid, FeePaid
<1>5. LegTx(w) = IF request[w].leg = "merchant" THEN <<w, "merchant">> ELSE <<w, "fee">>
  BY <1>2 DEF LegTx
<1>6. CASE Submits(w)
  <2>1. ~Paid(w) /\ Mined' = Mined
    BY <1>6 DEF Submits, WalletTyped, LegsInOrder, LegTx, Paid, walletVars, Mined
  <2> QED BY <1>4, <1>6, <2>1 DEF Submits, Comes
\* What follows a leg that was paid, or that was not.
<1>7. ASSUME PaidOn(w), LegTx(w) \in Mined', Paid(w) => Paid(w)'
      PROVE  PlaceInv(w)'
  <2>1. CASE request[w].leg = "merchant" /\ Fee[w] > 0 /\ chain # "BTC" /\ Comes(w, "check", "fee")
    <3>1. Paid(w)'
      BY <1>5, <1>7, <2>1 DEF Paid
    <3> QED BY <1>1, <2>1, <3>1 DEF Comes
  <2>2. CASE (request[w].leg = "fee" \/ Fee[w] = 0 \/ chain = "BTC") /\ Comes(w, "save", request[w].leg)
    <3>1. Paid(w)' /\ FeePaid(w)'
      BY <1>1, <1>2, <1>5, <1>7, <2>2 DEF Paid, FeePaid
    <3> QED BY <1>1, <2>2, <3>1 DEF Comes
  <2> QED BY <1>7, <2>1, <2>2 DEF PaidOn
<1>8. ASSUME NEW thrown \in BOOLEAN, UnpaidOn(w, thrown), Mined' = Mined, LegTx(w) \notin Mined,
             request[w].leg = "fee" => w \in overlapped' \cup short',
             thrown /\ request[w].leg = "fee" => w \in overlapped'
      PROVE  PlaceInv(w)'
  <2>1. CASE request[w].leg = "merchant" /\ Comes(w, "failed", "merchant")
    BY <1>4, <1>5, <1>8, <2>1 DEF Comes, Paid
  <2>2. CASE request[w].leg = "fee" /\ thrown /\ chain = "TRON" /\ Comes(w, "failed", "fee")
    BY <1>1, <1>4, <1>8, <2>2 DEF Comes
  <2>3. CASE request[w].leg = "fee" /\ Comes(w, "save", "fee")
    BY <1>1, <1>4, <1>8, <2>3 DEF Comes
  <2> QED BY <1>2, <1>8, <2>1, <2>2, <2>3 DEF UnpaidOn
<1>9. CASE Checks(w)
  <2>1. Mined' = Mined /\ request[w].pc = "check" /\ LegTx(w) \notin Mined
    BY <1>9 DEF Checks, walletVars, Mined, WalletTyped, LegsInOrder
  <2>2. CASE Held(w) < Cost(w) /\ UnpaidOn(w, FALSE)
    <3>1. request[w].leg = "fee" => w \in overlapped' \cup short'
      BY <1>1, <1>2, <2>1, <2>2 DEF PurseInv
    <3> QED BY <1>8, <2>1, <2>2, <3>1
  <2>3. CASE Comes(w, IF chain = "EVM" THEN "nonce" ELSE "send", request[w].leg)
    BY <1>1, <1>4, <2>1, <2>3 DEF Comes
  <2> QED BY <1>9, <2>2, <2>3 DEF Checks
<1>10. CASE ReadsNonce(w)
  <2>1. Mined' = Mined
    BY <1>10 DEF ReadsNonce, walletVars, Mined
  <2> QED BY <1>1, <1>4, <1>10, <2>1 DEF ReadsNonce, Comes
<1>11. CASE Sends(w)
  <2>1. request[w].pc = "send" /\ LegTx(w) \notin Mined
    BY <1>11, SendEffect DEF Sends
  <2>2. w \notin overlapped => Executes(w)
    BY <1>1, <2>1 DEF PurseInv, Executes, Accepted, Cost
  <2>3. /\ Executes(w) => Mined' = Mined \cup {LegTx(w)}
        /\ ~Executes(w) => Mined' = Mined
    BY <1>11, SendEffect DEF Sends
  <2>4. CASE Comes(w, "verify", request[w].leg) /\ request'[w].ok = Executes(w)
    <3>1. LegTx(w)' = LegTx(w) /\ request'[w].pc = "verify" /\ request'[w].leg = request[w].leg
      BY <2>4 DEF Comes, LegTx
    <3>2. request'[w].ok <=> LegTx(w) \in Mined'
      BY <2>1, <2>3, <2>4
    <3>3. Paid(w) => Paid(w)'
      BY <2>3 DEF Paid
    <3> QED BY <1>1, <3>1, <3>2, <3>3
  <2>5. CASE Executes(w) /\ PaidOn(w)
    BY <1>7, <2>3, <2>5 DEF Paid
  <2>6. CASE ~Executes(w) /\ UnpaidOn(w, TRUE)
    BY <1>1, <1>8, <2>1, <2>2, <2>3, <2>6
  <2> QED BY <1>1, <1>11, <2>4, <2>5, <2>6 DEF Sends
<1>12. CASE Verifies(w)
  <2>1. Mined' = Mined /\ request[w].pc = "verify"
    BY <1>12 DEF Verifies, walletVars, Mined
  <2>2. CASE request[w].ok /\ PaidOn(w)
    BY <1>1, <1>4, <1>7, <2>1, <2>2
  <2>3. CASE ~request[w].ok /\ UnpaidOn(w, FALSE)
    <3>1. w \in overlapped'
      BY <1>1, <2>1, <2>3 DEF PurseInv
    <3> QED BY <1>1, <1>8, <2>1, <2>3, <3>1
  <2> QED BY <1>12, <2>2, <2>3 DEF Verifies
<1>13. CASE Saves(w)
  <2>1. Mined' = Mined
    BY <1>13 DEF Saves, walletVars, Mined
  <2> QED BY <1>1, <1>4, <1>13, <2>1 DEF Saves, Comes
<1> QED BY <1>1, <1>3, <1>6, <1>9, <1>10, <1>11, <1>12, <1>13, WalletElsewhere DEF OwnMove, Errs

-----------------------------------------------------------------------------
(* AppWallet: theorems.                                                    *)

WalletInv == WalletTyped /\ RowsInv /\ BesideInv /\ TrueInv

LEMMA WalletInit ==
  ASSUME Init
  PROVE  WalletInv
<1>1. /\ IsInjective(<<>>) /\ <<>> \in Seq(TxIds) /\ ToSet(<<>>) = {}
  BY EmptySeq DEF IsInjective, ToSet
<1>2. Opening \in Nat /\ MaxFaults \in Nat /\ Cardinality(Ticks) \in Nat
  BY WalletAssumption, FS_CardinalityType
<1>3. Mined = {}
  BY <1>1 DEF Init, Mined
<1>4. TypeOK
  BY <1>1, <1>2 DEF Init, TypeOK, RequestState, TickState, IdleRequest, IdleTick
<1>5. LegsInOrder /\ TicksInOrder /\ BesideInv
  BY <1>3 DEF Init, LegsInOrder, TicksInOrder, BesideInv, Running, IdleRequest, IdleTick
<1>6. RowsInv
  <2>1. \A t : Storing(t) = {}
    BY DEF Init, Storing, IdleTick
  <2>2. Cardinality({}) = 0
    BY FS_EmptySet
  <2>3. \A t \in TxIds : incoming[t] = 0 /\ Cardinality(Storing(t)) = 0
    BY <2>1, <2>2 DEF Init
  <2>4. \A w \in Requests : outgoing[w] = 0
    BY DEF Init
  <2> QED BY <1>2, <2>3, <2>4 DEF RowsInv
<1>7. TrueInv
  BY <1>3 DEF Init, TrueInv, PurseInv, PlaceInv, IdleRequest
<1> QED BY <1>4, <1>5, <1>6, <1>7 DEF WalletInv, WalletTyped

LEMMA WalletStep ==
  ASSUME WalletInv, [Next]_vars
  PROVE  WalletInv'
<1>1. CASE Next
  <2>1. WalletMove
    BY <1>1, StepIsWalletMove DEF WalletInv
  <2>2. WalletTyped' /\ RowsInv' /\ BesideInv'
    BY <2>1, WalletTypedStep, RowsStep, BesideStep DEF WalletInv
  <2>3. TrueInv'
    BY <2>1, PurseStep, PlaceStep DEF WalletInv, TrueInv
  <2> QED BY <2>2, <2>3 DEF WalletInv
<1>2. CASE UNCHANGED vars
  <2>1. WalletTyped' /\ BesideInv'
    BY <1>2 DEF vars, others, walletVars, records, WalletInv, WalletTyped, TypeOK, LegsInOrder, TicksInOrder, LegTx,
       Mined, BesideInv, Running
  <2>2. RowsInv'
    BY <1>2 DEF vars, records, WalletInv, RowsInv, Storing
  <2>3. TrueInv'
    BY <1>2 DEF vars, walletVars, WalletInv, TrueInv, PurseInv, PlaceInv, Held, Cost, Amount, chain, Paid,
       FeePaid, LegTx, Mined
  <2> QED BY <2>1, <2>2, <2>3 DEF WalletInv
<1> QED BY <1>1, <1>2

LEMMA WalletTells ==
  ASSUME WalletInv
  PROVE  RowsAreTrue /\ RowsBounded
<1>1. WithdrawRowIsTrue
  <2> SUFFICES ASSUME NEW w \in Requests, outgoing[w] > 0, faults = 0
               PROVE  Paid(w) /\ (FeePaid(w) \/ w \in overlapped \cup short)
    BY DEF WithdrawRowIsTrue, Paid, FeePaid, WalletInv, WalletTyped, TypeOK
  <2>1. request[w].pc = "done"
    BY DEF WalletInv, RowsInv
  <2> QED BY <2>1 DEF WalletInv, TrueInv, PlaceInv
<1>2. FailedIsUnpaid
  BY DEF WalletInv, TrueInv, PlaceInv, Paid, FailedIsUnpaid
<1>3. RowsBounded
  <2> SUFFICES ASSUME NEW t \in TxIds
               PROVE  incoming[t] <= Cardinality(Ticks) + (IF t \in posted THEN 1 ELSE 0)
    BY DEF RowsBounded, WalletInv, RowsInv
  <2>1. incoming[t] \in Nat
    BY DEF WalletInv, WalletTyped, TypeOK
  <2> QED BY <2>1, StoringTicks DEF WalletInv, RowsInv
<1> QED BY <1>1, <1>2, <1>3 DEF RowsAreTrue, WalletInv, WalletTyped

LEMMA WalletIsSound == Spec => []WalletInv
<1>1. Init => WalletInv
  BY WalletInit
<1>2. WalletInv /\ [Next]_vars => WalletInv'
  BY WalletStep
<1> QED BY <1>1, <1>2, PTL DEF Spec

\* A WITHDRAW row and an error of merchantWithdraw are true of both legs, for any
\* requests, amounts, wallets and ticks, with the exceptions that the property
\* names: the checks and the order of the legs in the code suffice.
THEOREM RowsAreAlwaysTrue == Spec => []RowsAreTrue
<1>1. WalletInv => RowsAreTrue
  BY WalletTells
<1> QED BY <1>1, WalletIsSound, PTL

\* A hash has one row per overlapping tick and one per report of a client at most,
\* and a withdrawal has one, for any ticks, transactions and pages.
THEOREM RowsAreAlwaysBounded == Spec => []RowsBounded
<1>1. WalletInv => RowsBounded
  BY WalletTells
<1> QED BY <1>1, WalletIsSound, PTL
=============================================================================
