---------------------------- MODULE AppRegistry ----------------------------
(***************************************************************************)
(* Apps: addApp creates one in many steps, each of which may be the last,  *)
(* deleteApp removes the document alone, and every 30 seconds a cron       *)
(* removes the wallet_monitors rows and the addresses at Moralis that have *)
(* no app any more.                                                        *)
(*                                                                         *)
(* Wallets are derived from fresh mnemonics, so that an app stands for its *)
(* address.  The platform pays 1.1 TRX to activate the TRON wallet of an   *)
(* app before anything is stored; its coins are counted in such payments.  *)
(***************************************************************************)
EXTENDS Naturals, FiniteSets

CONSTANTS
  AppIds,        \* apps that may be created
  Owner,         \* Owner[i]: the merchant of app i
  Names,         \* names as they are typed
  Trim,          \* Trim[n]: the name that is stored
  AppLimit,      \* apps of a merchant, 3 in the code
  Creators,      \* activations of addApp
  Cleaners,      \* overlapping ticks of the cron
  Coins,         \* activations that the platform can pay
  MaxAppFaults   \* bound: errors, lost answers and crashes

ASSUME AppAssumption ==
  /\ IsFiniteSet(AppIds) /\ IsFiniteSet(Creators)
  /\ Names \cap {"none", "deleted"} = {}
  /\ Trim \in [Names -> Names] /\ \A n \in Names : Trim[Trim[n]] = Trim[n]
  /\ AppLimit \in Nat \ {0} /\ Coins \in Nat /\ MaxAppFaults \in Nat

VARIABLES
  app,         \* app[i]: "none", or the name of a document; "deleted" in the end
  coins,       \* activations that the platform can still pay
  rows,        \* apps with a wallet_monitors row
  watched,     \* apps with an address at Moralis
  creator,     \* what each activation of addApp knows
  cleaner,     \* what each tick knows
  appFaults,   \* errors, lost answers and crashes so far
  cut,         \* history: apps whose creation was cut short after it was stored
  unheard,     \* history: apps that Moralis did not take
  left,        \* history: addresses whose deletion was cut short
  raced        \* history: merchants with two creations at a time

appVars == <<app, coins, rows, watched, creator, cleaner, appFaults, cut, unheard, left, raced>>

IdleCreator == [pc |-> "idle", id |-> {}, name |-> "", rich |-> FALSE]
IdleCleaner == [pc |-> "idle", todo |-> {}, orphans |-> {}]

Merchants == {Owner[i] : i \in AppIds}
Live == {i \in AppIds : app[i] \notin {"none", "deleted"}}
Made(c) == CHOOSE i \in creator[c].id : TRUE

CreatorState ==
  [pc : {"idle", "name", "count", "activate", "save", "stream", "row"},
   id : SUBSET AppIds, name : Names \cup {""}, rich : BOOLEAN]

RegistryTypeOK ==
  /\ app \in [AppIds -> Names \cup {"none", "deleted"}]
  /\ coins \in 0..Coins
  /\ rows \subseteq AppIds /\ watched \subseteq AppIds
  /\ creator \in [Creators -> CreatorState]
  /\ cleaner \in [Cleaners -> [pc : {"idle", "check", "addresses"},
                               todo : SUBSET AppIds, orphans : SUBSET AppIds]]
  /\ appFaults \in 0..MaxAppFaults
  /\ cut \subseteq AppIds /\ unheard \subseteq AppIds /\ left \subseteq AppIds
  /\ raced \subseteq Merchants

RegistryInit ==
  /\ app = [i \in AppIds |-> "none"] /\ coins = Coins
  /\ rows = {} /\ watched = {}
  /\ creator = [c \in Creators |-> IdleCreator]
  /\ cleaner = [k \in Cleaners |-> IdleCleaner]
  /\ appFaults = 0 /\ cut = {} /\ unheard = {} /\ left = {} /\ raced = {}

-----------------------------------------------------------------------------
(* addApp.                                                                 *)

Creating == UNION {creator[c].id : c \in Creators}
Moves(c, pc) == creator' = [creator EXCEPT ![c].pc = pc]
Answers(c) == creator' = [creator EXCEPT ![c] = IdleCreator]

\* Mutants: the app is stored last; its row is stored before Moralis knows it.
MAfter(pc) ==
  CASE pc = "activate" -> "row" [] pc = "row" -> "save" [] pc = "save" -> "stream"
    [] OTHER -> "idle"
MAfterStored(pc) ==
  CASE pc = "activate" -> "save" [] pc = "save" -> "row" [] pc = "row" -> "stream"
    [] OTHER -> "idle"

\* The order in which an app comes into being.
After(pc) ==
  CASE pc = "activate" -> "save" [] pc = "save" -> "stream" [] pc = "stream" -> "row"
    [] OTHER -> "idle"

Proceeds(c, pc) == IF After(pc) = "idle" THEN Answers(c) ELSE Moves(c, After(pc))

\* The balance of the platform is read first and looked at last.
AskApp(c, i, n) ==
  /\ creator[c].pc = "idle"
  /\ app[i] = "none" /\ i \notin Creating
  /\ creator' = [creator EXCEPT ![c] =
                   [pc |-> "name", id |-> {i}, name |-> n, rich |-> coins > 0]]
  /\ raced' = IF Owner[i] \in {Owner[j] : j \in Creating} THEN raced \cup {Owner[i]} ELSE raced
  /\ UNCHANGED <<app, coins, rows, watched, cleaner, appFaults, cut, unheard, left>>

\* The name is looked up as it was typed: "This app is already present".
CheckName(c) ==
  /\ creator[c].pc = "name"
  /\ IF \E i \in Live : app[i] = creator[c].name THEN Answers(c) ELSE Moves(c, "count")
  /\ UNCHANGED <<app, coins, rows, watched, cleaner, appFaults, cut, unheard, left, raced>>

\* "Only 3 apps can generated".
Full(m) == Cardinality({i \in Live : Owner[i] = m}) > AppLimit - 1

CheckCount(c) ==
  /\ creator[c].pc = "count"
  /\ IF Full(Owner[Made(c)]) \/ ~creator[c].rich THEN Answers(c) ELSE Moves(c, "activate")
  /\ UNCHANGED <<app, coins, rows, watched, cleaner, appFaults, cut, unheard, left, raced>>

\* A transfer that is refused ends the call, without an error.
Activate(c) ==
  /\ creator[c].pc = "activate"
  /\ IF coins > 0 THEN coins' = coins - 1 /\ Proceeds(c, "activate")
                  ELSE Answers(c) /\ UNCHANGED coins
  /\ UNCHANGED <<app, rows, watched, cleaner, appFaults, cut, unheard, left, raced>>

\* name is unique: the database refuses a second one, when the coins are gone.
SaveApp(c) ==
  LET name == Trim[creator[c].name] IN
  /\ creator[c].pc = "save"
  /\ IF \E i \in Live : app[i] = name
       THEN Answers(c) /\ UNCHANGED app
       ELSE Proceeds(c, "save") /\ app' = [app EXCEPT ![Made(c)] = name]
  /\ UNCHANGED <<coins, rows, watched, cleaner, appFaults, cut, unheard, left, raced>>

\* An error of Moralis is "non-critical".
Watch(c) ==
  /\ creator[c].pc = "stream"
  /\ \/ watched' = watched \cup {Made(c)} /\ UNCHANGED <<appFaults, unheard>>
     \/ /\ appFaults < MaxAppFaults /\ appFaults' = appFaults + 1
        /\ unheard' = unheard \cup {Made(c)} /\ UNCHANGED watched
  /\ Proceeds(c, "stream")
  /\ UNCHANGED <<app, coins, rows, cleaner, cut, left, raced>>

StoreRow(c) ==
  /\ creator[c].pc = "row"
  /\ rows' = rows \cup {Made(c)}
  /\ Proceeds(c, "row")
  /\ UNCHANGED <<app, coins, watched, cleaner, appFaults, cut, unheard, left, raced>>

-----------------------------------------------------------------------------
\* updateApp: the name may change, to one that is free.
RenameApp(i, n) ==
  /\ i \in Live /\ app[i] # Trim[n]
  /\ \A j \in Live : app[j] # Trim[n]
  /\ app' = [app EXCEPT ![i] = Trim[n]]
  /\ UNCHANGED <<coins, rows, watched, creator, cleaner, appFaults, cut, unheard, left, raced>>

DeleteApp(i) ==
  /\ i \in Live
  /\ app' = [app EXCEPT ![i] = "deleted"]
  /\ UNCHANGED <<coins, rows, watched, creator, cleaner, appFaults, cut, unheard, left, raced>>

-----------------------------------------------------------------------------
(* deleteAppsWhichIsNotExistAnymore.                                       *)

ListRows(k) ==
  /\ cleaner[k].pc = "idle" /\ rows # {}
  /\ cleaner' = [cleaner EXCEPT ![k] = [pc |-> "check", todo |-> rows, orphans |-> {}]]
  /\ UNCHANGED <<app, coins, rows, watched, creator, appFaults, cut, unheard, left, raced>>

\* Is there an app with this address?  One row after the other.
CheckRow(k, i) ==
  /\ cleaner[k].pc = "check" /\ i \in cleaner[k].todo
  /\ cleaner' = [cleaner EXCEPT ![k].todo = @ \ {i},
                                ![k].orphans = IF i \in Live THEN @ ELSE @ \cup {i}]
  /\ UNCHANGED <<app, coins, rows, watched, creator, appFaults, cut, unheard, left, raced>>

DeleteRows(k) ==
  /\ cleaner[k].pc = "check" /\ cleaner[k].todo = {}
  /\ rows' = rows \ cleaner[k].orphans
  /\ cleaner' = [cleaner EXCEPT ![k] =
       IF @.orphans = {} THEN IdleCleaner ELSE [@ EXCEPT !.pc = "addresses"]]
  /\ UNCHANGED <<app, coins, watched, creator, appFaults, cut, unheard, left, raced>>

DeleteAddresses(k) ==
  /\ cleaner[k].pc = "addresses"
  /\ watched' = watched \ cleaner[k].orphans
  /\ cleaner' = [cleaner EXCEPT ![k] = IdleCleaner]
  /\ UNCHANGED <<app, coins, rows, creator, appFaults, cut, unheard, left, raced>>

-----------------------------------------------------------------------------
AppFault == appFaults < MaxAppFaults /\ appFaults' = appFaults + 1

\* An error or a crash; the activation may have been paid for.
CreationStops(c) ==
  /\ creator[c].pc # "idle" /\ AppFault
  /\ \/ UNCHANGED coins
     \/ creator[c].pc = "activate" /\ coins > 0 /\ coins' = coins - 1
  /\ cut' = cut \cup {i \in creator[c].id : app[i] # "none"}
  /\ Answers(c)
  /\ UNCHANGED <<app, rows, watched, cleaner, unheard, left, raced>>

CleanerStops(k) ==
  /\ cleaner[k].pc # "idle" /\ AppFault
  /\ left' = IF cleaner[k].pc = "addresses" THEN left \cup cleaner[k].orphans ELSE left
  /\ cleaner' = [cleaner EXCEPT ![k] = IdleCleaner]
  /\ UNCHANGED <<app, coins, rows, watched, creator, cut, unheard, raced>>

CreatorStep(c) ==
  \/ CheckName(c) \/ CheckCount(c) \/ Activate(c)
  \/ SaveApp(c) \/ Watch(c) \/ StoreRow(c)

CleanerStep(k) ==
  \/ ListRows(k) \/ DeleteRows(k) \/ DeleteAddresses(k)
  \/ \E i \in AppIds : CheckRow(k, i)

RegistryNext ==
  \/ \E c \in Creators, i \in AppIds, n \in Names : AskApp(c, i, n)
  \/ \E c \in Creators : CreatorStep(c) \/ CreationStops(c)
  \/ \E k \in Cleaners : CleanerStep(k) \/ CleanerStops(k)
  \/ \E i \in AppIds : DeleteApp(i) \/ \E n \in Names : RenameApp(i, n)

RegistrySpec == RegistryInit /\ [][RegistryNext]_appVars

\* A call that has begun goes on, and the cron keeps firing.
RegistryFairness ==
  /\ \A c \in Creators : WF_appVars(CreatorStep(c))
  /\ \A k \in Cleaners : WF_appVars(CleanerStep(k))

RegistryFairSpec == RegistrySpec /\ RegistryFairness

-----------------------------------------------------------------------------
(* Properties.                                                             *)

\* An app whose creation was not cut short has its row, and its address is
\* watched if Moralis took it: the cron, which works on a list of rows and
\* looks up one app at a time, never takes them from an app that is there.
LiveAppsAreWatched ==
  \A i \in Live \ (cut \cup Creating) :
    i \in rows /\ (i \in watched \/ i \in unheard)

\* A merchant has no more apps than the limit unless its creations overlapped,
\* and then one more for each other creation that can have counted them too.
AppsBounded ==
  \A m \in Merchants :
    Cardinality({i \in Live : Owner[i] = m})
      <= IF m \in raced THEN AppLimit + (Cardinality(Creators) - 1) ELSE AppLimit

\* Apps keep their rows and their addresses, and merchants their limits.
AppsAreKept == RegistryTypeOK /\ LiveAppsAreWatched /\ AppsBounded

\* The row and the address of a deleted app are removed in the end, also when it
\* is deleted while it is still being created.  What was never listed stays:
\* the address of a creation that was cut short, and those that a tick had
\* still to delete when it stopped.
DeletedAppsAreForgotten ==
  \A i \in AppIds :
    (app[i] = "deleted" /\ i \notin Creating) ~>
      (i \notin rows /\ (i \notin watched \/ i \in left \cup cut))
=============================================================================
