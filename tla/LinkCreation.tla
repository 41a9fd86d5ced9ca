---------------------------- MODULE LinkCreation ----------------------------
(***************************************************************************)
(* Creation of payment links, and what their expiry takes away again.      *)
(*                                                                         *)
(* addPaymentLink gives every link a deposit address of its own, derived   *)
(* from the mnemonic of the app and the counter of the link's network.  It *)
(* reads the counter with the app, stores the link, and only then stores   *)
(* the counter; the address is watched and told to the merchant last.      *)
(*                                                                         *)
(* A deposit address is named by its index.  Index 0 is the app's own      *)
(* wallet, so that it can also stand for a link that is not stored.        *)
(***************************************************************************)
EXTENDS Naturals, FiniteSets

CONSTANTS
  Links,      \* payment links (of one app), each created by one request
  NetworkOf,  \* NetworkOf[l]: the network of the token that l is paid in
  Sweepers,   \* ticks of the expiry cron that can run at the same time
  MaxFaults   \* bound: activations that are cut short

Networks == {"EVM", "TRON", "BITCOIN"}

ASSUME CreationAssumption ==
  /\ NetworkOf \in [Links -> Networks]
  /\ MaxFaults \in Nat

VARIABLES
  counter,     \* apps.currentIndexVal, tronCurrentIndexVal, btcCurrentIndexVal
  address,     \* the index of each link's toAddress, or 0
  status,      \* payment_links.status
  monitors,    \* links with a row in wallet_monitors
  streamed,    \* the EVM addresses registered with the Moralis stream
  creation,    \* what each request knows
  sweeper,     \* what each tick of the expiry cron knows
  overdue,     \* links whose expireTime has passed
  handedOut,   \* history: links that the merchant has been told of
  overlapped,  \* history: networks on which creations have overlapped
  faults       \* activations cut short so far

docVars == <<counter, address, status>>
watchVars == <<monitors, streamed>>
history == <<overdue, handedOut, overlapped>>
vars == <<docVars, watchVars, creation, sweeper, history, faults>>

\* index: the counter, as it was when the app was read.
CreationState ==
  [pc : {"idle", "saveLink", "saveApp", "addAddress", "saveRow", "announce",
         "done", "failed"},
   index : Nat]

IdleSweeper == [pc |-> "idle", batch |-> {}]
SweeperState == [pc : {"idle", "expire", "deleteAddress"}, batch : SUBSET Links]

TypeOK ==
  /\ counter \in [Networks -> Nat]
  /\ address \in [Links -> Nat]
  /\ status \in [Links -> {"ABSENT", "PENDING", "EXPIRED"}]
  /\ monitors \in SUBSET Links
  /\ streamed \in SUBSET Nat
  /\ creation \in [Links -> CreationState]
  /\ sweeper \in [Sweepers -> SweeperState]
  /\ overdue \in SUBSET Links
  /\ handedOut \in SUBSET Links
  /\ overlapped \in SUBSET Networks
  /\ faults \in 0..MaxFaults

Init ==
  /\ counter = [n \in Networks |-> 0]
  /\ address = [l \in Links |-> 0]
  /\ status = [l \in Links |-> "ABSENT"]
  /\ monitors = {}
  /\ streamed = {}
  /\ creation = [l \in Links |-> [pc |-> "idle", index |-> 0]]
  /\ sweeper = [s \in Sweepers |-> IdleSweeper]
  /\ overdue = {}
  /\ handedOut = {}
  /\ overlapped = {}
  /\ faults = 0

Goto(l, p) == creation' = [creation EXCEPT ![l].pc = p]

-----------------------------------------------------------------------------
(* addPaymentLink                                                          *)

\* The requests that have read the counter of network n and not yet stored it.
Holding(n) ==
  {l \in Links : NetworkOf[l] = n /\ creation[l].pc \in {"saveLink", "saveApp"}}

ReadApp(l) ==
  LET n == NetworkOf[l] IN
  /\ creation[l].pc = "idle"
  /\ creation' = [creation EXCEPT ![l] = [pc |-> "saveLink", index |-> counter[n]]]
  /\ overlapped' = IF Holding(n) = {} THEN overlapped ELSE overlapped \cup {n}
  /\ UNCHANGED <<docVars, watchVars, sweeper, overdue, handedOut, faults>>

\* The token, the keys, the amount or a price do not pass.
Reject(l) ==
  /\ creation[l].pc = "saveLink"
  /\ Goto(l, "failed")
  /\ UNCHANGED <<docVars, watchVars, sweeper, history, faults>>

\* Mutant: the row is stored with the link, before the counter.
MSaveLink(l) ==
  /\ creation[l].pc = "saveLink"
  /\ address' = [address EXCEPT ![l] = creation[l].index + 1]
  /\ status' = [status EXCEPT ![l] = "PENDING"]
  /\ monitors' = monitors \cup {l}
  /\ Goto(l, "saveApp")
  /\ UNCHANGED <<counter, streamed, sweeper, history, faults>>

SaveLink(l) ==
  /\ creation[l].pc = "saveLink"
  /\ address' = [address EXCEPT ![l] = creation[l].index + 1]
  /\ status' = [status EXCEPT ![l] = "PENDING"]
  /\ Goto(l, "saveApp")
  /\ UNCHANGED <<counter, watchVars, sweeper, history, faults>>

\* Mutant: the counter of the EVM links is stored as that of TRON.
MSaveApp(l) ==
  LET n == NetworkOf[l] IN
  /\ creation[l].pc = "saveApp"
  /\ counter' = [counter EXCEPT ![IF n = "EVM" THEN "TRON" ELSE n] = creation[l].index + 1]
  /\ Goto(l, IF n = "EVM" THEN "addAddress" ELSE "saveRow")
  /\ UNCHANGED <<address, status, watchVars, sweeper, history, faults>>

\* save() writes the one field that was changed, and not an increment of it.
\* (The subscription of a TRON address at Tatum may fail, and nothing depends
\* on it.)
SaveApp(l) ==
  LET n == NetworkOf[l] IN
  /\ creation[l].pc = "saveApp"
  /\ counter' = [counter EXCEPT ![n] = creation[l].index + 1]
  /\ Goto(l, IF n = "EVM" THEN "addAddress" ELSE "saveRow")
  /\ UNCHANGED <<address, status, watchVars, sweeper, history, faults>>

AddAddress(l) ==
  /\ creation[l].pc = "addAddress"
  /\ streamed' = streamed \cup {address[l]}
  /\ Goto(l, "saveRow")
  /\ UNCHANGED <<docVars, monitors, sweeper, history, faults>>

SaveRow(l) ==
  /\ creation[l].pc = "saveRow"
  /\ monitors' = monitors \cup {l}
  /\ Goto(l, "announce")
  /\ UNCHANGED <<docVars, streamed, sweeper, history, faults>>

\* PAYMENT_INITIATED and the answer tell the merchant the address.
Announce(l) ==
  /\ creation[l].pc = "announce"
  /\ handedOut' = handedOut \cup {l}
  /\ Goto(l, "done")
  /\ UNCHANGED <<docVars, watchVars, sweeper, overdue, overlapped, faults>>

\* An error of the database or of Moralis, or a crash: the request is answered
\* with an error, and what has been stored stays.
CreationFails(l) ==
  /\ creation[l].pc \in {"saveApp", "addAddress", "saveRow", "announce"}
  /\ faults < MaxFaults
  /\ faults' = faults + 1
  /\ Goto(l, "failed")
  /\ UNCHANGED <<docVars, watchVars, sweeper, history>>

-----------------------------------------------------------------------------
(* deletePaymentLinksWhichIsNotExistAnymore                                *)

\* One hour after the request a link is overdue.
Elapse(l) ==
  /\ status[l] # "ABSENT" /\ l \notin overdue
  /\ overdue' = overdue \cup {l}
  /\ UNCHANGED <<docVars, watchVars, creation, sweeper, handedOut, overlapped, faults>>

Due == monitors \cap overdue

\* The overdue rows are found, and deleted.
SweepRows(s) ==
  /\ sweeper[s].pc = "idle"
  /\ Due # {}
  /\ sweeper' = [sweeper EXCEPT ![s] = [pc |-> "expire", batch |-> Due]]
  /\ monitors' = monitors \ Due
  /\ UNCHANGED <<docVars, streamed, creation, history, faults>>

\* The links that are found by the addresses of the batch, whichever link these
\* were stored for.
Found(s) ==
  {l \in Links :
     /\ status[l] = "PENDING"
     /\ \E m \in sweeper[s].batch :
          NetworkOf[m] = NetworkOf[l] /\ address[m] = address[l]}

SweepExpire(s) ==
  /\ sweeper[s].pc = "expire"
  /\ status' = [l \in Links |->
       IF l \in Found(s) THEN "EXPIRED" ELSE status[l]]
  /\ sweeper' = [sweeper EXCEPT ![s].pc = "deleteAddress"]
  /\ UNCHANGED <<counter, address, watchVars, creation, history, faults>>

SweepAddresses(s) ==
  /\ sweeper[s].pc = "deleteAddress"
  /\ streamed' = streamed \ {address[l] : l \in {m \in sweeper[s].batch : NetworkOf[m] = "EVM"}}
  /\ sweeper' = [sweeper EXCEPT ![s] = IdleSweeper]
  /\ UNCHANGED <<docVars, monitors, creation, history, faults>>

SweeperAborts(s) ==
  /\ sweeper[s].pc # "idle"
  /\ faults < MaxFaults
  /\ faults' = faults + 1
  /\ sweeper' = [sweeper EXCEPT ![s] = IdleSweeper]
  /\ UNCHANGED <<docVars, watchVars, creation, history>>

-----------------------------------------------------------------------------
Next ==
  \/ \E l \in Links :
       \/ ReadApp(l) \/ Reject(l) \/ SaveLink(l) \/ SaveApp(l) \/ AddAddress(l)
       \/ SaveRow(l) \/ Announce(l) \/ CreationFails(l) \/ Elapse(l)
  \/ \E s \in Sweepers :
       SweepRows(s) \/ SweepExpire(s) \/ SweepAddresses(s) \/ SweeperAborts(s)

Spec == Init /\ [][Next]_vars

-----------------------------------------------------------------------------
(* Properties.                                                             *)

\* No two customers are given one address, on a network where creations do not
\* overlap, also when a creation fails between its two writes and the next
\* one derives the same address again.
AddressIsOwn ==
  \A l, m \in handedOut :
    /\ l # m
    /\ NetworkOf[l] = NetworkOf[m]
    /\ NetworkOf[l] \notin overlapped
    => address[l] # address[m]

\* A link that a customer has been told of can be paid for its hour: it waits, it
\* has its row, and Moralis watches its address, whatever becomes of the links
\* that failed or expired before it.
HandedOutIsLive ==
  \A l \in handedOut :
    l \notin overdue /\ NetworkOf[l] \notin overlapped =>
      /\ status[l] = "PENDING"
      /\ l \in monitors
      /\ NetworkOf[l] = "EVM" => address[l] \in streamed
=============================================================================
