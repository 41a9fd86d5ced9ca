---------------------------- MODULE FiatBalance ----------------------------
(***************************************************************************)
(* The fiat balance of an app: what its settled FIAT links are worth, less *)
(* what was withdrawn.  Nothing keeps it: whoever looks at the app         *)
(* (appById) computes it from the documents and stores it, and             *)
(* adminFiatTransfer compares it, lowers it and then marks the withdrawal. *)
(* Looking at the list of apps (getApps) stores the merchant's total.      *)
(* Each of them is a sequence of reads and writes with awaits in between.  *)
(*                                                                         *)
(* The documents are read through their sums only: credited is the sum of  *)
(* fiatToUsd over the SUCCESS links of type FIAT of an app, withdrawn the  *)
(* sum of withdrawlAmount over its SUCCESS withdrawals.                    *)
(*                                                                         *)
(* Nothing limits the amount that a merchant asks for.  To transfer a      *)
(* negative one raises the balance, and on record it counts as money that  *)
(* the app has earned: the two histories raised and refunded say how much. *)
(***************************************************************************)
EXTENDS Integers, FiniteSets, FiniteSetsExt

CONSTANTS
  FiatApps,       \* the apps of one merchant
  FiatRequests,   \* withdrawals that the merchant asks for
  AppOf,          \* AppOf[r]: the app that request r names
  Asked,          \* Asked[r]: withdrawlAmount, as it is sent: it may be negative
  Lookers,        \* activations of appById
  Transferrers,   \* activations of adminFiatTransfer
  Listings,       \* activations of getApps
  Pages,          \* sets of apps that a page or a search may return
  MaxCredit,      \* bound: what settled links are worth to an app
  MaxFiatFaults   \* bound: activations cut short by an error or a crash

ASSUME FiatAssumption ==
  /\ AppOf \in [FiatRequests -> FiatApps]
  /\ Asked \in [FiatRequests -> Int]
  /\ Pages \subseteq SUBSET FiatApps
  /\ IsFiniteSet(FiatApps)
  /\ MaxCredit \in Nat /\ MaxFiatFaults \in Nat
  /\ Lookers \cap Transferrers = {}

VARIABLES
  credited,      \* credited[a]: worth of the settled FIAT links of app a
  withdrawn,     \* withdrawn[a]: sum of its SUCCESS withdrawals
  fiatRequest,   \* fiat_withdraw.status, or "none"
  fiatBalance,   \* apps.totalFiatBalance
  merchantTotal, \* merchants.totalFiatBalance
  looker, transferrer, listing, \* what each activation knows
  fiatFaults,    \* activations cut short so far
  transferred,   \* history: what the admin has transferred for each app
  raised,        \* history: by how much transfers have raised the balance of each app
  refunded,      \* history: what its SUCCESS withdrawals of negative amounts add up to
  disturbed      \* history: apps with calls that overlapped or were repeated

documents == <<credited, withdrawn, fiatRequest>>
histories == <<transferred, raised, refunded>>
fiatVars == <<documents, fiatBalance, merchantTotal, looker, transferrer,
              listing, fiatFaults, histories, disturbed>>

IdleCall == [pc |-> "idle", app |-> {}, sum |-> 0]
IdleTransfer == [pc |-> "idle", request |-> {}, balance |-> 0]
IdleListing == [pc |-> "idle", page |-> {}, app |-> {}, sum |-> 0, total |-> 0]

LookerState ==
  [pc : {"idle", "links", "withdrawals", "store"}, app : SUBSET FiatApps, sum : Int]
TransferState ==
  [pc : {"idle", "app", "store", "mark"}, request : SUBSET FiatRequests, balance : Int]
ListingState ==
  [pc : {"idle", "links", "withdrawals", "store"}, page : SUBSET FiatApps,
   app : SUBSET FiatApps, sum : Int, total : Int]

FiatTypeOK ==
  /\ credited \in [FiatApps -> Nat] /\ withdrawn \in [FiatApps -> Int]
  /\ fiatRequest \in [FiatRequests -> {"none", "PENDING", "SUCCESS"}]
  /\ fiatBalance \in [FiatApps -> Int] /\ merchantTotal \in Int
  /\ looker \in [Lookers -> LookerState]
  /\ transferrer \in [Transferrers -> TransferState]
  /\ listing \in [Listings -> ListingState]
  /\ fiatFaults \in 0..MaxFiatFaults
  /\ transferred \in [FiatApps -> Nat]
  /\ raised \in [FiatApps -> Nat] /\ refunded \in [FiatApps -> Nat]
  /\ disturbed \subseteq FiatApps

FiatInit ==
  /\ credited = [a \in FiatApps |-> 0] /\ withdrawn = [a \in FiatApps |-> 0]
  /\ fiatRequest = [r \in FiatRequests |-> "none"]
  /\ fiatBalance = [a \in FiatApps |-> 0] /\ merchantTotal = 0
  /\ looker = [q \in Lookers |-> IdleCall]
  /\ transferrer = [t \in Transferrers |-> IdleTransfer]
  /\ listing = [m \in Listings |-> IdleListing]
  /\ fiatFaults = 0
  /\ transferred = [a \in FiatApps |-> 0]
  /\ raised = [a \in FiatApps |-> 0] /\ refunded = [a \in FiatApps |-> 0]
  /\ disturbed = {}

-----------------------------------------------------------------------------
\* A FIAT link of the app is paid out.
LinkSettles(a) ==
  /\ credited[a] < MaxCredit
  /\ credited' = [credited EXCEPT ![a] = @ + 1]
  /\ UNCHANGED <<withdrawn, fiatRequest, fiatBalance, merchantTotal, looker,
                 transferrer, listing, fiatFaults, histories, disturbed>>

\* merchantWithdrawFiat: the amounts of the request are stored as they are sent.
AskFor(r) ==
  /\ fiatRequest[r] = "none"
  /\ fiatRequest' = [fiatRequest EXCEPT ![r] = "PENDING"]
  /\ UNCHANGED <<credited, withdrawn, fiatBalance, merchantTotal, looker,
                 transferrer, listing, fiatFaults, histories, disturbed>>

-----------------------------------------------------------------------------
(* appById(a).                                                             *)

TransfersOf(a) ==
  {t \in Transferrers : \E r \in transferrer[t].request : AppOf[r] = a}
LooksAt(a) == {q \in Lookers : a \in looker[q].app}

Look(q, a) ==
  /\ looker[q].pc = "idle"
  /\ looker' = [looker EXCEPT ![q] = [pc |-> "links", app |-> {a}, sum |-> 0]]
  /\ disturbed' = IF TransfersOf(a) = {} THEN disturbed ELSE disturbed \cup {a}
  /\ UNCHANGED <<documents, fiatBalance, merchantTotal, transferrer, listing,
                 fiatFaults, histories>>

LookAtLinks(q, a) ==
  /\ looker[q].pc = "links" /\ a \in looker[q].app
  /\ looker' = [looker EXCEPT ![q] = [pc |-> "withdrawals", app |-> {a}, sum |-> credited[a]]]
  /\ UNCHANGED <<documents, fiatBalance, merchantTotal, transferrer, listing,
                 fiatFaults, histories, disturbed>>

\* Mutant: the withdrawals are not taken off.
MLookAtWithdrawals(q, a) ==
  /\ looker[q].pc = "withdrawals" /\ a \in looker[q].app
  /\ looker' = [looker EXCEPT ![q] = [looker[q] EXCEPT !.pc = "store"]]
  /\ UNCHANGED <<documents, fiatBalance, merchantTotal, transferrer, listing,
                 fiatFaults, histories, disturbed>>

LookAtWithdrawals(q, a) ==
  /\ looker[q].pc = "withdrawals" /\ a \in looker[q].app
  /\ looker' = [looker EXCEPT ![q] =
       [pc |-> "store", app |-> {a}, sum |-> looker[q].sum - withdrawn[a]]]
  /\ UNCHANGED <<documents, fiatBalance, merchantTotal, transferrer, listing,
                 fiatFaults, histories, disturbed>>

StoreBalance(q, a) ==
  /\ looker[q].pc = "store" /\ a \in looker[q].app
  /\ fiatBalance' = [fiatBalance EXCEPT ![a] = looker[q].sum]
  /\ looker' = [looker EXCEPT ![q] = IdleCall]
  /\ UNCHANGED <<documents, merchantTotal, transferrer, listing, fiatFaults,
                 histories, disturbed>>

-----------------------------------------------------------------------------
(* adminFiatTransfer(r): the status of the request is not looked at.       *)

StartTransfer(t, r) ==
  LET a == AppOf[r] IN
  /\ transferrer[t].pc = "idle" /\ fiatRequest[r] # "none"
  /\ transferrer' = [transferrer EXCEPT ![t] = [pc |-> "app", request |-> {r}, balance |-> 0]]
  /\ disturbed' = IF TransfersOf(a) # {} \/ LooksAt(a) # {} \/ fiatRequest[r] = "SUCCESS"
                    THEN disturbed \cup {a} ELSE disturbed
  /\ UNCHANGED <<documents, fiatBalance, merchantTotal, looker, listing,
                 fiatFaults, histories>>

Enough(r) == fiatBalance[AppOf[r]] >= Asked[r]

\* The app is read; "Insufficient fiat balance" ends the call.
ReadApp(t, r) ==
  /\ transferrer[t].pc = "app" /\ r \in transferrer[t].request
  /\ transferrer' = [transferrer EXCEPT ![t] =
       IF Enough(r) THEN [pc |-> "store", request |-> {r}, balance |-> fiatBalance[AppOf[r]]]
                    ELSE IdleTransfer]
  /\ UNCHANGED <<documents, fiatBalance, merchantTotal, looker, listing,
                 fiatFaults, histories, disturbed>>

\* An amount is either taken from the balance or, if it is negative, given to it.
Taken(r) == IF Asked[r] > 0 THEN Asked[r] ELSE 0
Given(r) == IF Asked[r] < 0 THEN -Asked[r] ELSE 0

LowerBalance(t, r) ==
  LET a == AppOf[r] IN
  /\ transferrer[t].pc = "store" /\ r \in transferrer[t].request
  /\ fiatBalance' = [fiatBalance EXCEPT ![a] = transferrer[t].balance - Asked[r]]
  /\ raised' = [raised EXCEPT ![a] = @ + Given(r)]
  /\ transferrer' = [transferrer EXCEPT ![t] = [transferrer[t] EXCEPT !.pc = "mark"]]
  /\ UNCHANGED <<documents, merchantTotal, looker, listing, fiatFaults,
                 transferred, refunded, disturbed>>

\* SUCCESS, with the hash that the admin gave: this is a transfer.
MarkTransferred(t, r) ==
  LET a == AppOf[r] IN
  /\ transferrer[t].pc = "mark" /\ r \in transferrer[t].request
  /\ fiatRequest' = [fiatRequest EXCEPT ![r] = "SUCCESS"]
  /\ withdrawn' = [withdrawn EXCEPT ![a] =
                     IF fiatRequest[r] = "SUCCESS" THEN @ ELSE @ + Asked[r]]
  /\ refunded' = [refunded EXCEPT ![a] =
                    IF fiatRequest[r] = "SUCCESS" THEN @ ELSE @ + Given(r)]
  /\ transferred' = [transferred EXCEPT ![a] = @ + Taken(r)]
  /\ transferrer' = [transferrer EXCEPT ![t] = IdleTransfer]
  /\ UNCHANGED <<credited, fiatBalance, merchantTotal, looker, listing,
                 fiatFaults, raised, disturbed>>

-----------------------------------------------------------------------------
(* getApps: a page of the apps, one after the other.                       *)

List(m, page) ==
  /\ listing[m].pc = "idle" /\ page # {}
  /\ listing' = [listing EXCEPT ![m] =
       [pc |-> "links", page |-> page, app |-> {}, sum |-> 0, total |-> 0]]
  /\ UNCHANGED <<documents, fiatBalance, merchantTotal, looker, transferrer,
                 fiatFaults, histories, disturbed>>

ListLinks(m, a) ==
  /\ listing[m].pc = "links" /\ a \in listing[m].page
  /\ listing' = [listing EXCEPT ![m] =
       [pc |-> "withdrawals", page |-> listing[m].page \ {a}, app |-> {a},
        sum |-> credited[a], total |-> listing[m].total]]
  /\ UNCHANGED <<documents, fiatBalance, merchantTotal, looker, transferrer,
                 fiatFaults, histories, disturbed>>

ListWithdrawals(m, a) ==
  /\ listing[m].pc = "withdrawals" /\ a \in listing[m].app
  /\ listing' = [listing EXCEPT ![m] =
       [pc |-> "store", page |-> listing[m].page, app |-> {a}, sum |-> 0,
        total |-> listing[m].total + listing[m].sum - withdrawn[a]]]
  /\ UNCHANGED <<documents, fiatBalance, merchantTotal, looker, transferrer,
                 fiatFaults, histories, disturbed>>

\* Mutant: what was stored is kept and the total is added to it.
MStoreTotal(m) ==
  /\ listing[m].pc = "store"
  /\ merchantTotal' = merchantTotal + listing[m].total
  /\ listing' = [listing EXCEPT ![m] =
       IF listing[m].page = {} THEN IdleListing
       ELSE [pc |-> "links", page |-> listing[m].page, app |-> {}, sum |-> 0,
             total |-> listing[m].total]]
  /\ UNCHANGED <<documents, fiatBalance, looker, transferrer, fiatFaults,
                 histories, disturbed>>

\* The total so far is stored after each app, and an empty page stores nothing.
StoreTotal(m) ==
  /\ listing[m].pc = "store"
  /\ merchantTotal' = listing[m].total
  /\ listing' = [listing EXCEPT ![m] =
       IF listing[m].page = {} THEN IdleListing
       ELSE [pc |-> "links", page |-> listing[m].page, app |-> {}, sum |-> 0,
             total |-> listing[m].total]]
  /\ UNCHANGED <<documents, fiatBalance, looker, transferrer, fiatFaults,
                 histories, disturbed>>

-----------------------------------------------------------------------------
FiatFault == fiatFaults < MaxFiatFaults /\ fiatFaults' = fiatFaults + 1

\* A database error or a crash between two steps.
LookFails(q) ==
  /\ looker[q].pc # "idle" /\ FiatFault
  /\ looker' = [looker EXCEPT ![q] = IdleCall]
  /\ UNCHANGED <<documents, fiatBalance, merchantTotal, transferrer, listing,
                 histories, disturbed>>

TransferFails(t) ==
  /\ transferrer[t].pc # "idle" /\ FiatFault
  /\ transferrer' = [transferrer EXCEPT ![t] = IdleTransfer]
  /\ UNCHANGED <<documents, fiatBalance, merchantTotal, looker, listing,
                 histories, disturbed>>

ListingFails(m) ==
  /\ listing[m].pc # "idle" /\ FiatFault
  /\ listing' = [listing EXCEPT ![m] = IdleListing]
  /\ UNCHANGED <<documents, fiatBalance, merchantTotal, looker, transferrer,
                 histories, disturbed>>

LookStep(q, a) ==
  Look(q, a) \/ LookAtLinks(q, a) \/ LookAtWithdrawals(q, a) \/ StoreBalance(q, a)

TransferStep(t, r) ==
  StartTransfer(t, r) \/ ReadApp(t, r) \/ LowerBalance(t, r) \/ MarkTransferred(t, r)

FiatNext ==
  \/ \E a \in FiatApps : LinkSettles(a)
  \/ \E r \in FiatRequests : AskFor(r)
  \/ \E q \in Lookers : LookFails(q) \/ \E a \in FiatApps : LookStep(q, a)
  \/ \E t \in Transferrers : TransferFails(t) \/ \E r \in FiatRequests : TransferStep(t, r)
  \/ \E m \in Listings : ListingFails(m) \/ StoreTotal(m)
  \/ \E m \in Listings, page \in Pages : List(m, page)
  \/ \E m \in Listings, a \in FiatApps : ListLinks(m, a) \/ ListWithdrawals(m, a)

FiatSpec == FiatInit /\ [][FiatNext]_fiatVars

-----------------------------------------------------------------------------
(* Properties.                                                             *)

\* What the admin has transferred for an app is covered by its settled links,
\* although the balance is a copy that anybody recomputes at any time and a
\* transfer may stop half way: but for what requests for negative amounts have
\* raised the balance by, and unless calls for the app have overlapped or a
\* request was transferred twice; nothing in the code rules any of these out.
TransfersAreCovered ==
  \A a \in FiatApps \ disturbed : transferred[a] <= credited[a] + raised[a]

\* What the documents of each app may show as earned.
worth == [a \in FiatApps |-> credited[a] + refunded[a]]

\* The total of a merchant is never more than all its settled links are worth,
\* and the negative withdrawals that were marked as transferred, whatever pages
\* and searches have stored it last.
TotalIsCovered == merchantTotal <= MapThenSumSet(LAMBDA a : worth[a], FiatApps)
=============================================================================
