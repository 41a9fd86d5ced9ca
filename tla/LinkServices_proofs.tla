------------------------ MODULE LinkServices_proofs ------------------------
(***************************************************************************)
(* Proofs about what surrounds the life of a link: LinkCreation, for any   *)
(* links, networks and bounds; WebhookDelivery, for any events, payments,  *)
(* ticks of the retry cron and bounds; Reports, for any documents, coins   *)
(* and calendar.                                                           *)
(*                                                                         *)
(* Of WebhookDelivery: who has posted without having recorded it counts    *)
(* (CountInv); a settled log stays quiet because nobody holds it and no    *)
(* retry is scheduled for it (QuietInv).                                   *)
(*                                                                         *)
(* Of Reports: documents do not come from the future (ReportsInv), so that *)
(* each falls into one slot of a chart and into one row of a table, and    *)
(* what is added up by slots is added up (SumByKey).                       *)
(***************************************************************************)
EXTENDS LinkCreation, WebhookDelivery, Reports, SumTheorems

-----------------------------------------------------------------------------
(* Type correctness.                                                       *)

LEMMA TypedStep == TypeOK /\ [Next]_vars => TypeOK'
<1> SUFFICES ASSUME TypeOK, [Next]_vars PROVE TypeOK'
  OBVIOUS
<1> USE CreationAssumption DEF TypeOK
<1>1. ASSUME NEW l \in Links, ReadApp(l) PROVE TypeOK'
  BY <1>1 DEF ReadApp, CreationState, docVars, watchVars
<1>2. ASSUME NEW l \in Links, NEW p \in {"saveApp", "addAddress", "saveRow", "announce", "done", "failed"},
             Goto(l, p)
      PROVE  creation' \in [Links -> CreationState]
  BY <1>2 DEF Goto, CreationState
<1>3. ASSUME NEW l \in Links, Reject(l) \/ CreationFails(l) PROVE TypeOK'
  <2>1. creation' \in [Links -> CreationState]
    BY <1>2, <1>3 DEF Reject, CreationFails
  <2>2. CASE Reject(l)
    BY <2>1, <2>2 DEF Reject, docVars, watchVars, history
  <2>3. CASE CreationFails(l)
    <3>1. faults' \in 0..MaxFaults
      BY <2>3 DEF CreationFails
    <3> QED BY <2>1, <2>3, <3>1 DEF CreationFails, docVars, watchVars, history
  <2> QED BY <1>3, <2>2, <2>3
<1>4. ASSUME NEW l \in Links, SaveLink(l) PROVE TypeOK'
  <2>1. creation' \in [Links -> CreationState] /\ creation[l].index + 1 \in Nat
    BY <1>2, <1>4 DEF SaveLink, CreationState
  <2> QED BY <1>4, <2>1 DEF SaveLink, watchVars, history
<1>5. ASSUME NEW l \in Links, SaveApp(l) PROVE TypeOK'
  <2>1. creation' \in [Links -> CreationState] /\ creation[l].index + 1 \in Nat
    BY <1>2, <1>5 DEF SaveApp, CreationState
  <2> QED BY <1>5, <2>1 DEF SaveApp, watchVars, history
<1>6. ASSUME NEW l \in Links, AddAddress(l) \/ SaveRow(l) \/ Announce(l) PROVE TypeOK'
  <2>1. creation' \in [Links -> CreationState]
    BY <1>2, <1>6 DEF AddAddress, SaveRow, Announce
  <2> QED BY <1>6, <2>1 DEF AddAddress, SaveRow, Announce, docVars, watchVars, history
<1>7. ASSUME NEW l \in Links, Elapse(l) PROVE TypeOK'
  BY <1>7 DEF Elapse, docVars, watchVars
<1>8. ASSUME NEW s \in Sweepers, SweepRows(s) PROVE TypeOK'
  BY <1>8 DEF SweepRows, Due, SweeperState, docVars, history
<1>9. ASSUME NEW s \in Sweepers, SweepExpire(s) PROVE TypeOK'
  BY <1>9 DEF SweepExpire, SweeperState, watchVars, history
<1>10. ASSUME NEW s \in Sweepers, SweepAddresses(s) \/ SweeperAborts(s) PROVE TypeOK'
  <2>1. sweeper' \in [Sweepers -> SweeperState]
    BY <1>10 DEF SweepAddresses, SweeperAborts, IdleSweeper, SweeperState
  <2>2. CASE SweepAddresses(s)
    BY <2>1, <2>2 DEF SweepAddresses, docVars, history
  <2>3. CASE SweeperAborts(s)
    <3>1. faults' \in 0..MaxFaults
      BY <2>3 DEF SweeperAborts
    <3> QED BY <2>1, <2>3, <3>1 DEF SweeperAborts, docVars, watchVars, history
  <2> QED BY <1>10, <2>2, <2>3
<1>11. ASSUME UNCHANGED vars PROVE TypeOK'
  BY <1>11 DEF vars, docVars, watchVars, history
<1> QED BY <1>1, <1>3, <1>4, <1>5, <1>6, <1>7, <1>8, <1>9, <1>10, <1>11 DEF Next

\* Every reachable state is well typed: what addPaymentLink and the expiry cron
\* write is what the schemas of their collections allow.
THEOREM TypeCorrect == Spec => []TypeOK
<1>1. Init => TypeOK
  BY CreationAssumption DEF Init, TypeOK, CreationState, IdleSweeper, SweeperState, Networks
<1> QED BY <1>1, TypedStep, PTL DEF Spec
-----------------------------------------------------------------------------
(* The invariant behind both safety properties.                            *)

\* Creations do not overlap on the network of l.
Steady(l) == NetworkOf[l] \notin overlapped

\* The request for l has read the counter and not yet stored it.
Reading(l) == creation[l].pc \in {"saveLink", "saveApp"}

\* Whoever has read the counter is alone, and the counter is what it was.
CounterIsHeld ==
  \A l \in Links : Steady(l) /\ Reading(l) =>
    /\ creation[l].index = counter[NetworkOf[l]]
    /\ creation[l].pc = "saveApp" => address[l] = counter[NetworkOf[l]] + 1
    /\ \A m \in Links : Reading(m) /\ NetworkOf[m] = NetworkOf[l] => m = l

\* Links whose address the counter has passed, as far as anybody still needs them.
Counted ==
  {l \in Links :
     \/ creation[l].pc \in {"addAddress", "saveRow", "announce", "done"}
     \/ l \in monitors
     \/ \E s \in Sweepers : l \in sweeper[s].batch}

\* These have passed SaveApp, also those that failed later.
CountedArePast ==
  \A l \in Counted : creation[l].pc \notin {"idle", "saveLink", "saveApp"}

\* Their addresses are below the counter, and differ.
CountedAreDistinct ==
  \A l \in Counted : Steady(l) =>
    /\ address[l] <= counter[NetworkOf[l]]
    /\ \A m \in Counted : NetworkOf[m] = NetworkOf[l] /\ m # l => address[m] # address[l]

\* Until the hour of a link is over, its request finds what it has stored.
StoredStays ==
  \A l \in Links : Steady(l) /\ l \notin overdue =>
    /\ creation[l].pc \in {"saveApp", "addAddress", "saveRow", "announce", "done"} =>
         status[l] = "PENDING"
    /\ creation[l].pc \in {"announce", "done"} => l \in monitors
    /\ creation[l].pc \in {"saveRow", "announce", "done"} /\ NetworkOf[l] = "EVM" =>
         address[l] \in streamed

Inv ==
  /\ TypeOK
  /\ \A l \in handedOut : creation[l].pc = "done"
  /\ \A s \in Sweepers : sweeper[s].batch \subseteq overdue
  /\ CounterIsHeld
  /\ CountedArePast
  /\ CountedAreDistinct
  /\ StoredStays
\* A request that moves on keeps its index, and the others stay where they are.
LEMMA Moves ==
  ASSUME TypeOK, NEW l \in Links, NEW p, Goto(l, p)
  PROVE  /\ creation'[l].pc = p /\ creation'[l].index = creation[l].index
         /\ \A m \in Links : m # l => creation'[m] = creation[m]
BY DEF TypeOK, CreationState, Goto

\* A step that only moves a request on, to a place where it has counted its
\* address, or nowhere, and never on from where it has not.
LEMMA MovesOn ==
  ASSUME Inv, TypeOK', NEW l \in Links,
         NEW p \in {"addAddress", "saveRow", "announce", "failed"}, Goto(l, p),
         p # "failed" => creation[l].pc \in {"addAddress", "saveRow", "announce"},
         creation[l].pc \notin {"idle", "done"},
         UNCHANGED <<docVars, sweeper, history>>,
         monitors \subseteq monitors', streamed \subseteq streamed',
         monitors' \subseteq monitors \cup {l},
         monitors' # monitors => p # "failed",
         p = "announce" => l \in monitors',
         p \in {"saveRow", "announce"} /\ NetworkOf[l] = "EVM" =>
           \/ address[l] \in streamed'
           \/ creation[l].pc = "saveRow"
  PROVE  Inv'
<1> USE DEF docVars, history
<1>1. /\ creation'[l].pc = p /\ creation'[l].index = creation[l].index
      /\ \A m \in Links : m # l => creation'[m] = creation[m]
  BY Moves DEF Inv
<1>2. \A m \in handedOut' : creation'[m].pc = "done"
  BY <1>1 DEF Inv, TypeOK
<1>3. \A s \in Sweepers : sweeper'[s].batch \subseteq overdue'
  BY DEF Inv
<1>4. CounterIsHeld'
  <2>1. \A m \in Links : Reading(m)' => Reading(m) /\ creation'[m] = creation[m]
    BY <1>1 DEF Reading
  <2> QED BY <2>1 DEF Inv, CounterIsHeld, Steady
<1>5. Counted' \subseteq Counted
  BY <1>1 DEF Counted
<1>6. CountedArePast'
  <2>1. p \notin {"idle", "saveLink", "saveApp"}
    OBVIOUS
  <2>2. \A m \in Counted' : creation[m].pc \notin {"idle", "saveLink", "saveApp"}
    BY <1>5 DEF Inv, CountedArePast
  <2>3. \A m \in Counted' : m \in Links
    BY DEF Counted
  <2> QED BY <1>1, <2>1, <2>2, <2>3 DEF CountedArePast
<1>7. CountedAreDistinct'
  BY <1>5 DEF Inv, CountedAreDistinct, Steady
<1>8. StoredStays'
  <2> SUFFICES ASSUME NEW m \in Links, Steady(m), m \notin overdue
               PROVE  /\ creation'[m].pc \in {"saveApp", "addAddress", "saveRow", "announce", "done"} =>
                           status[m] = "PENDING"
                      /\ creation'[m].pc \in {"announce", "done"} => m \in monitors'
                      /\ creation'[m].pc \in {"saveRow", "announce", "done"} /\ NetworkOf[m] = "EVM" =>
                           address[m] \in streamed'
    BY DEF StoredStays, Steady
  <2>1. CASE m # l
    BY <1>1, <2>1 DEF Inv, StoredStays
  <2>2. CASE m = l
    BY <1>1, <2>2 DEF Inv, StoredStays
  <2> QED BY <2>1, <2>2
<1> QED BY <1>2, <1>3, <1>4, <1>6, <1>7, <1>8 DEF Inv

LEMMA InvStep == Inv /\ [Next]_vars => Inv'
<1> SUFFICES ASSUME Inv, [Next]_vars PROVE Inv'
  OBVIOUS
<1>0. TypeOK /\ TypeOK'
  BY TypedStep DEF Inv
<1>1. ASSUME NEW l \in Links, ReadApp(l) PROVE Inv'
  <2> DEFINE n == NetworkOf[l]
  <2>1. /\ creation'[l] = [pc |-> "saveLink", index |-> counter[n]]
        /\ \A m \in Links : m # l => creation'[m] = creation[m]
        /\ creation[l].pc = "idle"
        /\ overlapped \subseteq overlapped'
        /\ n \notin overlapped' => Holding(n) = {}
    BY <1>0, <1>1, CreationAssumption DEF ReadApp, TypeOK
  <2>2. UNCHANGED <<docVars, watchVars, sweeper, overdue, handedOut>>
    BY <1>1 DEF ReadApp
  <2> USE DEF docVars, watchVars
  <2>3. \A m \in Links : Steady(m)' => Steady(m)
    BY <2>1 DEF Steady
  <2>4. \A m \in handedOut' : creation'[m].pc = "done"
    BY <1>0, <2>1, <2>2 DEF Inv, TypeOK
  <2>5. \A s \in Sweepers : sweeper'[s].batch \subseteq overdue'
    BY <2>2 DEF Inv
  <2>6. CounterIsHeld'
    <3>1. \A m \in Links : m # l /\ Steady(m)' /\ Reading(m) /\ NetworkOf[m] = n => FALSE
      BY <2>1 DEF Holding, Reading, Steady
    <3>2. \A m \in Links : m # l => (Reading(m)' <=> Reading(m)) /\ creation'[m] = creation[m]
      BY <2>1 DEF Reading
    <3>3. \A m \in Links : NetworkOf[m] = n => (Steady(m)' <=> Steady(l)')
      BY DEF Steady
    <3>4. creation'[l].pc = "saveLink" /\ creation'[l].index = counter[n]
      BY <2>1
    <3> SUFFICES ASSUME NEW m \in Links, Steady(m)', Reading(m)'
                 PROVE  /\ creation'[m].index = counter[NetworkOf[m]]
                        /\ creation'[m].pc = "saveApp" => address[m] = counter[NetworkOf[m]] + 1
                        /\ \A k \in Links : Reading(k)' /\ NetworkOf[k] = NetworkOf[m] => k = m
      BY <2>2 DEF CounterIsHeld
    <3>5. CASE m = l
      BY <3>1, <3>2, <3>3, <3>4, <3>5
    <3>6. CASE m # l
      <4>1. NetworkOf[m] # n
        BY <3>1, <3>2, <3>6
      <4> QED BY <2>3, <3>2, <3>6, <4>1 DEF Inv, CounterIsHeld
    <3> QED BY <3>5, <3>6
  <2>7. Counted' = Counted /\ l \notin Counted
    <3>1. l \notin Counted
      BY <2>1 DEF Inv, CountedArePast
    <3>2. l \notin Counted'
      BY <2>1, <2>2, <3>1 DEF Counted
    <3> QED BY <2>1, <2>2, <3>1, <3>2 DEF Counted
  <2>8. CountedArePast'
    BY <2>1, <2>7 DEF Inv, CountedArePast, Counted
  <2>9. CountedAreDistinct'
    BY <2>2, <2>3, <2>7 DEF Inv, CountedAreDistinct, Counted
  <2>10. StoredStays'
    <3>1. creation'[l].pc = "saveLink"
      BY <2>1
    <3> QED BY <2>1, <2>2, <2>3, <3>1 DEF Inv, StoredStays
  <2> QED BY <1>0, <2>4, <2>5, <2>6, <2>8, <2>9, <2>10 DEF Inv
<1>2. ASSUME NEW l \in Links, Reject(l) PROVE Inv'
  BY <1>0, <1>2, MovesOn DEF Reject, watchVars
<1>3. ASSUME NEW l \in Links, SaveLink(l) PROVE Inv'
  <2>1. /\ creation'[l].pc = "saveApp" /\ creation'[l].index = creation[l].index
        /\ \A m \in Links : m # l => creation'[m] = creation[m]
        /\ creation[l].pc = "saveLink"
    BY <1>0, <1>3, Moves DEF SaveLink
  <2>2. /\ address'[l] = creation[l].index + 1 /\ status'[l] = "PENDING"
        /\ \A m \in Links : m # l => address'[m] = address[m] /\ status'[m] = status[m]
    BY <1>0, <1>3 DEF SaveLink, TypeOK
  <2>3. UNCHANGED <<counter, watchVars, sweeper, history>>
    BY <1>3 DEF SaveLink
  <2> USE DEF watchVars, history
  <2>4. \A m \in handedOut' : creation'[m].pc = "done"
    BY <1>0, <2>1, <2>3 DEF Inv, TypeOK
  <2>5. \A s \in Sweepers : sweeper'[s].batch \subseteq overdue'
    BY <2>3 DEF Inv
  <2>6. CounterIsHeld'
    <3>1. \A m \in Links : Reading(m)' <=> Reading(m)
      BY <2>1 DEF Reading
    <3>2. Reading(l)
      BY <2>1 DEF Reading
    <3>3. \A m \in Links : Steady(m)' <=> Steady(m)
      BY <2>3 DEF Steady
    <3>4. CounterIsHeld
      BY DEF Inv
    <3> SUFFICES ASSUME NEW m \in Links, Steady(m), Reading(m)
                 PROVE  /\ creation'[m].index = counter[NetworkOf[m]]
                        /\ creation'[m].pc = "saveApp" => address'[m] = counter[NetworkOf[m]] + 1
                        /\ \A k \in Links : Reading(k) /\ NetworkOf[k] = NetworkOf[m] => k = m
      BY <2>3, <3>1, <3>3 DEF CounterIsHeld
    <3>5. CASE m = l
      BY <2>1, <2>2, <3>4, <3>5 DEF CounterIsHeld
    <3>6. CASE m # l
      BY <2>1, <2>2, <3>4, <3>6 DEF CounterIsHeld
    <3> QED BY <3>5, <3>6
  <2>7. l \notin Counted /\ Counted' = Counted
    <3>1. l \notin Counted
      BY <2>1 DEF Inv, CountedArePast
    <3>2. l \notin Counted'
      BY <2>1, <2>3, <3>1 DEF Counted
    <3> QED BY <2>1, <2>3, <3>1, <3>2 DEF Counted
  <2>8. CountedArePast'
    BY <2>1, <2>7 DEF Inv, CountedArePast, Counted
  <2>9. CountedAreDistinct'
    <3>1. \A m \in Counted : m \in Links /\ m # l /\ address'[m] = address[m]
      BY <2>2, <2>7 DEF Counted
    <3> QED BY <2>3, <2>7, <3>1 DEF Inv, CountedAreDistinct, Steady
  <2>10. StoredStays'
    BY <2>1, <2>2, <2>3 DEF Inv, StoredStays, Steady
  <2> QED BY <1>0, <2>4, <2>5, <2>6, <2>8, <2>9, <2>10 DEF Inv
<1>4. ASSUME NEW l \in Links, SaveApp(l) PROVE Inv'
  <2> DEFINE n == NetworkOf[l]
  <2> DEFINE p == IF n = "EVM" THEN "addAddress" ELSE "saveRow"
  <2>1. /\ creation'[l].pc = p /\ creation'[l].index = creation[l].index
        /\ \A m \in Links : m # l => creation'[m] = creation[m]
        /\ creation[l].pc = "saveApp"
    BY <1>0, <1>4, Moves DEF SaveApp
  <2>2. /\ counter'[n] = creation[l].index + 1 /\ n \in Networks
        /\ \A k \in Networks : k # n => counter'[k] = counter[k]
    BY <1>0, <1>4, CreationAssumption DEF SaveApp, TypeOK
  <2>3. UNCHANGED <<address, status, watchVars, sweeper, history>>
    BY <1>4 DEF SaveApp
  <2> USE DEF watchVars, history
  <2>4. \A m \in handedOut' : creation'[m].pc = "done"
    BY <1>0, <2>1, <2>3 DEF Inv, TypeOK
  <2>5. \A s \in Sweepers : sweeper'[s].batch \subseteq overdue'
    BY <2>3 DEF Inv
  <2>6. /\ Reading(l) /\ \A m \in Links : m # l => (Reading(m)' <=> Reading(m))
        /\ ~Reading(l)'
        /\ \A m \in Links : Steady(m)' <=> Steady(m)
    BY <2>1, <2>3 DEF Reading, Steady
  <2>7. Steady(l) =>
          /\ counter'[n] = counter[n] + 1 /\ address[l] = counter[n] + 1
          /\ \A m \in Links : Reading(m) /\ NetworkOf[m] = n => m = l
    BY <2>1, <2>2, <2>6 DEF Inv, CounterIsHeld
  <2>8. \A m \in Links : NetworkOf[m] \in Networks /\ (NetworkOf[m] = n => (Steady(m) <=> Steady(l)))
    BY CreationAssumption DEF Steady
  <2>9. CounterIsHeld'
    <3> SUFFICES ASSUME NEW m \in Links, Steady(m), Reading(m)'
                 PROVE  /\ creation'[m].index = counter'[NetworkOf[m]]
                        /\ creation'[m].pc = "saveApp" => address[m] = counter'[NetworkOf[m]] + 1
                        /\ \A k \in Links : Reading(k)' /\ NetworkOf[k] = NetworkOf[m] => k = m
      BY <2>3, <2>6 DEF CounterIsHeld
    <3>1. m # l /\ Reading(m) /\ creation'[m] = creation[m]
      BY <2>1, <2>6
    <3>2. NetworkOf[m] # n
      BY <2>7, <2>8, <3>1
    <3>3. counter'[NetworkOf[m]] = counter[NetworkOf[m]]
      BY <2>2, <2>8, <3>2
    <3> QED BY <2>6, <3>1, <3>3 DEF Inv, CounterIsHeld
  <2>10. Counted' = Counted \cup {l}
    BY <2>1, <2>3 DEF Counted
  <2>11. CountedArePast'
    BY <2>1, <2>10 DEF Inv, CountedArePast, Counted
  <2>12. CountedAreDistinct'
    <3>1. \A m \in Counted' : m \in Links
      BY DEF Counted
    <3>2. \A m \in Counted : Steady(m) =>
            /\ address[m] <= counter[NetworkOf[m]]
            /\ \A k \in Counted : NetworkOf[k] = NetworkOf[m] /\ k # m => address[k] # address[m]
      BY DEF Inv, CountedAreDistinct
    <3>3. /\ address \in [Links -> Nat] /\ counter \in [Networks -> Nat]
      BY <1>0 DEF TypeOK
    <3>4. \A m \in Counted : Steady(m) /\ NetworkOf[m] = n =>
            address[m] <= counter'[n] /\ address[m] # address[l]
      <4> SUFFICES ASSUME NEW m \in Counted, Steady(m), NetworkOf[m] = n
                   PROVE  address[m] <= counter'[n] /\ address[m] # address[l]
        OBVIOUS
      <4>1. m \in Links
        BY <2>10, <3>1
      <4>2. address[m] \in Nat /\ counter[n] \in Nat /\ address[m] <= counter[n]
        BY <2>2, <3>2, <3>3, <4>1
      <4>3. counter'[n] = counter[n] + 1 /\ address[l] = counter[n] + 1
        BY <2>7, <2>8, <4>1
      <4> QED BY <4>2, <4>3
    <3> SUFFICES ASSUME NEW m \in Counted', Steady(m)
                 PROVE  /\ address[m] <= counter'[NetworkOf[m]]
                        /\ \A k \in Counted' : NetworkOf[k] = NetworkOf[m] /\ k # m =>
                             address[k] # address[m]
      BY <2>3, <2>6, <3>1 DEF CountedAreDistinct
    <3>5. CASE m = l
      <4>1. address[l] <= counter'[n]
        BY <2>2, <2>7, <3>3, <3>5
      <4> QED BY <2>8, <2>10, <3>1, <3>4, <3>5, <4>1
    <3>6. CASE m # l /\ NetworkOf[m] = n
      BY <2>10, <3>1, <3>2, <3>4, <3>6
    <3>7. CASE m # l /\ NetworkOf[m] # n
      BY <2>2, <2>8, <2>10, <3>1, <3>2, <3>7
    <3> QED BY <3>5, <3>6, <3>7
  <2>13. StoredStays'
    <3>1. NetworkOf[l] = "EVM" => p \notin {"saveRow", "announce", "done"}
      OBVIOUS
    <3>2. p \in {"addAddress", "saveRow"}
      OBVIOUS
    <3> HIDE DEF p
    <3>3. \A m \in Links : Steady(m) /\ m \notin overdue /\ m # l =>
           /\ creation'[m].pc \in {"saveApp", "addAddress", "saveRow", "announce", "done"} =>
                status[m] = "PENDING"
           /\ creation'[m].pc \in {"announce", "done"} => m \in monitors
           /\ creation'[m].pc \in {"saveRow", "announce", "done"} /\ NetworkOf[m] = "EVM" =>
                address[m] \in streamed
      BY <2>1 DEF Inv, StoredStays
    <3>4. Steady(l) /\ l \notin overdue => status[l] = "PENDING"
      BY <2>1 DEF Inv, StoredStays
    <3> QED BY <2>1, <2>3, <2>6, <3>1, <3>2, <3>3, <3>4 DEF StoredStays
  <2> QED BY <1>0, <2>4, <2>5, <2>9, <2>11, <2>12, <2>13 DEF Inv
<1>5. ASSUME NEW l \in Links, AddAddress(l) PROVE Inv'
  BY <1>0, <1>5, MovesOn DEF AddAddress
<1>6. ASSUME NEW l \in Links, SaveRow(l) PROVE Inv'
  BY <1>0, <1>6, MovesOn DEF SaveRow
<1>7. ASSUME NEW l \in Links, CreationFails(l) PROVE Inv'
  BY <1>0, <1>7, MovesOn DEF CreationFails, watchVars
<1>8. ASSUME NEW l \in Links, Announce(l) PROVE Inv'
  <2>1. /\ creation'[l].pc = "done" /\ creation'[l].index = creation[l].index
        /\ \A m \in Links : m # l => creation'[m] = creation[m]
        /\ creation[l].pc = "announce"
    BY <1>0, <1>8, Moves DEF Announce
  <2>2. handedOut' = handedOut \cup {l} /\ UNCHANGED <<docVars, watchVars, sweeper, overdue, overlapped>>
    BY <1>8 DEF Announce
  <2> USE DEF docVars, watchVars
  <2>3. \A m \in handedOut' : creation'[m].pc = "done"
    BY <1>0, <2>1, <2>2 DEF Inv, TypeOK
  <2>4. \A s \in Sweepers : sweeper'[s].batch \subseteq overdue'
    BY <2>2 DEF Inv
  <2>5. \A m \in Links : (Reading(m)' <=> Reading(m)) /\ (Steady(m)' <=> Steady(m))
    BY <2>1, <2>2 DEF Reading, Steady
  <2>6. \A m \in Links : Reading(m) => creation'[m] = creation[m]
    BY <2>1 DEF Reading
  <2>7. CounterIsHeld'
    BY <2>2, <2>5, <2>6 DEF Inv, CounterIsHeld
  <2>8. Counted' = Counted
    BY <2>1, <2>2 DEF Counted
  <2>9. CountedArePast'
    BY <2>1, <2>8 DEF Inv, CountedArePast, Counted
  <2>10. CountedAreDistinct'
    BY <2>2, <2>5, <2>8 DEF Inv, CountedAreDistinct, Counted
  <2>11. StoredStays'
    BY <2>1, <2>2, <2>5 DEF Inv, StoredStays
  <2> QED BY <1>0, <2>3, <2>4, <2>7, <2>9, <2>10, <2>11 DEF Inv
<1>9. ASSUME NEW l \in Links, Elapse(l) PROVE Inv'
  <2>1. overdue \subseteq overdue' /\ UNCHANGED <<docVars, watchVars, creation, sweeper, handedOut, overlapped>>
    BY <1>9 DEF Elapse
  <2> USE DEF docVars, watchVars
  <2>2. Counted' = Counted /\ CounterIsHeld'
    BY <2>1 DEF Inv, Counted, CounterIsHeld, Reading, Steady
  <2>3. CountedArePast' /\ CountedAreDistinct'
    BY <2>1, <2>2 DEF Inv, CountedArePast, CountedAreDistinct, Steady
  <2>4. StoredStays'
    BY <2>1 DEF Inv, StoredStays, Steady
  <2> QED BY <1>0, <2>1, <2>2, <2>3, <2>4 DEF Inv
<1>10. ASSUME NEW s \in Sweepers, SweepRows(s) PROVE Inv'
  <2>1. /\ sweeper'[s].batch = Due
        /\ \A r \in Sweepers : r # s => sweeper'[r] = sweeper[r]
    BY <1>0, <1>10 DEF SweepRows, TypeOK
  <2>2. monitors' = monitors \ Due /\ UNCHANGED <<docVars, streamed, creation, history>>
    BY <1>10 DEF SweepRows
  <2> USE DEF docVars, history
  <2>3. Due \subseteq overdue /\ Due \subseteq monitors
    BY DEF Due
  <2>4. \A r \in Sweepers : sweeper'[r].batch \subseteq overdue'
    BY <2>1, <2>2, <2>3 DEF Inv
  <2>5. CounterIsHeld'
    BY <2>2 DEF Inv, CounterIsHeld, Reading, Steady
  <2>6. Counted' \subseteq Counted
    BY <2>1, <2>2, <2>3 DEF Counted
  <2>7. CountedArePast' /\ CountedAreDistinct'
    BY <2>2, <2>6 DEF Inv, CountedArePast, CountedAreDistinct, Steady
  <2>8. StoredStays'
    BY <2>2, <2>3 DEF Inv, StoredStays, Steady
  <2>9. \A m \in handedOut' : creation'[m].pc = "done"
    BY <2>2 DEF Inv
  <2> QED BY <1>0, <2>4, <2>5, <2>7, <2>8, <2>9 DEF Inv
<1>11. ASSUME NEW s \in Sweepers, NEW m \in sweeper[s].batch, NEW l \in Links, Steady(l),
              l \notin overdue, NetworkOf[m] = NetworkOf[l],
              creation[l].pc \in {"saveApp", "addAddress", "saveRow", "announce", "done"}
       PROVE  address[m] # address[l]
  <2>1. m \in Links /\ m \in Counted /\ m # l
    <3>1. m \in overdue /\ m \in Links
      BY <1>0, <1>11 DEF Inv, TypeOK
    <3> QED BY <1>11, <3>1 DEF Counted
  <2>2. CASE creation[l].pc = "saveApp"
    <3>1. address[l] = counter[NetworkOf[l]] + 1
      BY <1>11, <2>2 DEF Inv, CounterIsHeld, Reading
    <3>2. address[m] <= counter[NetworkOf[l]]
      BY <1>11, <2>1 DEF Inv, CountedAreDistinct, Steady
    <3>3. address[m] \in Nat /\ counter[NetworkOf[l]] \in Nat
      BY <1>0, <2>1, CreationAssumption DEF TypeOK
    <3> QED BY <3>1, <3>2, <3>3
  <2>3. CASE creation[l].pc # "saveApp"
    <3>1. l \in Counted
      BY <1>11, <2>3 DEF Counted
    <3> QED BY <1>11, <2>1, <3>1 DEF Inv, CountedAreDistinct
  <2> QED BY <2>2, <2>3
<1>12. ASSUME NEW s \in Sweepers, SweepExpire(s) PROVE Inv'
  <2>1. \A r \in Sweepers : sweeper'[r].batch = sweeper[r].batch
    BY <1>0, <1>12 DEF SweepExpire, TypeOK, SweeperState
  <2>2. UNCHANGED <<counter, address, watchVars, creation, history>>
    BY <1>12 DEF SweepExpire
  <2> USE DEF watchVars, history
  <2>3. CounterIsHeld'
    BY <2>2 DEF Inv, CounterIsHeld, Reading, Steady
  <2>4. Counted' = Counted
    BY <2>1, <2>2 DEF Counted
  <2>5. CountedArePast' /\ CountedAreDistinct'
    BY <2>2, <2>4 DEF Inv, CountedArePast, CountedAreDistinct, Steady
  <2>6. StoredStays'
    <3>1. \A l \in Links : Steady(l) /\ l \notin overdue
             /\ creation[l].pc \in {"saveApp", "addAddress", "saveRow", "announce", "done"}
             => l \notin Found(s)
      BY <1>11 DEF Found
    <3>2. \A l \in Links : l \notin Found(s) => status'[l] = status[l]
      BY <1>12 DEF SweepExpire
    <3> QED BY <2>2, <3>1, <3>2 DEF Inv, StoredStays, Steady
  <2> QED BY <1>0, <2>1, <2>2, <2>3, <2>5, <2>6 DEF Inv
<1>13. ASSUME NEW s \in Sweepers, SweepAddresses(s) \/ SweeperAborts(s) PROVE Inv'
  <2>1. /\ sweeper'[s].batch = {} /\ \A r \in Sweepers : r # s => sweeper'[r] = sweeper[r]
    BY <1>0, <1>13 DEF SweepAddresses, SweeperAborts, TypeOK, IdleSweeper
  <2>2. UNCHANGED <<docVars, monitors, creation, history>>
    BY <1>13 DEF SweepAddresses, SweeperAborts, watchVars
  <2> USE DEF docVars, history
  <2>3. \A r \in Sweepers : sweeper'[r].batch \subseteq overdue'
    BY <2>1, <2>2 DEF Inv
  <2>4. CounterIsHeld'
    BY <2>2 DEF Inv, CounterIsHeld, Reading, Steady
  <2>5. Counted' \subseteq Counted
    BY <2>1, <2>2 DEF Counted
  <2>6. CountedArePast' /\ CountedAreDistinct'
    BY <2>2, <2>5 DEF Inv, CountedArePast, CountedAreDistinct, Steady
  <2>7. StoredStays'
    <3>1. \A l \in Links : Steady(l) /\ l \notin overdue /\ NetworkOf[l] = "EVM"
             /\ creation[l].pc \in {"saveRow", "announce", "done"}
             /\ address[l] \in streamed => address[l] \in streamed'
      <4>1. CASE SweepAddresses(s)
        BY <1>11, <4>1 DEF SweepAddresses
      <4>2. CASE SweeperAborts(s)
        BY <4>2 DEF SweeperAborts, watchVars
      <4> QED BY <1>13, <4>1, <4>2
    <3> QED BY <2>2, <3>1 DEF Inv, StoredStays, Steady
  <2>8. \A m \in handedOut' : creation'[m].pc = "done"
    BY <2>2 DEF Inv
  <2> QED BY <1>0, <2>3, <2>4, <2>6, <2>7, <2>8 DEF Inv
<1>14. ASSUME UNCHANGED vars PROVE Inv'
  <2>1. CounterIsHeld' /\ Counted' = Counted
    BY <1>14 DEF Inv, CounterIsHeld, Counted, Reading, Steady, vars, docVars, watchVars, history
  <2>2. CountedArePast' /\ CountedAreDistinct' /\ StoredStays'
    BY <1>14, <2>1 DEF Inv, CountedArePast, CountedAreDistinct, StoredStays, Steady, vars, docVars,
                      watchVars, history
  <2> QED BY <1>0, <1>14, <2>1, <2>2 DEF Inv, vars, history
<1> QED BY <1>1, <1>2, <1>3, <1>4, <1>5, <1>6, <1>7, <1>8, <1>9, <1>10, <1>12, <1>13, <1>14 DEF Next

LEMMA InvAlways == Spec => []Inv
<1>1. Init => Inv
  <2> SUFFICES ASSUME Init PROVE Inv
    OBVIOUS
  <2>1. TypeOK
    BY CreationAssumption DEF Init, TypeOK, CreationState, IdleSweeper, SweeperState, Networks
  <2>2. Counted = {}
    BY DEF Init, Counted, IdleSweeper
  <2>3. \A l \in Links : creation[l].pc = "idle"
    BY DEF Init
  <2> QED BY <2>1, <2>2, <2>3 DEF Init, Inv, IdleSweeper, CounterIsHeld, Reading, CountedArePast,
             CountedAreDistinct, StoredStays
<1> QED BY <1>1, InvStep, PTL DEF Spec

\* No two customers are given one address, on a network where creations do not
\* overlap: addPaymentLink stores the counter after the link, so that a failure
\* between the two lets the next link derive the address again.
THEOREM AddressesAreOwn == Spec => []AddressIsOwn
<1>1. Inv => AddressIsOwn
  <2> SUFFICES ASSUME Inv, NEW l \in handedOut, NEW m \in handedOut, l # m,
                      NetworkOf[l] = NetworkOf[m], NetworkOf[l] \notin overlapped
               PROVE  address[l] # address[m]
    BY DEF AddressIsOwn
  <2>1. l \in Counted /\ m \in Counted
    BY DEF Inv, TypeOK, Counted
  <2> QED BY <2>1 DEF Inv, CountedAreDistinct, Steady
<1> QED BY <1>1, InvAlways, PTL

\* For its hour, a link that a customer has been told of waits, has its row and is
\* watched, however the expiry cron's ticks for older links interleave with its
\* creation.
THEOREM HandedOutIsLiveAlways == Spec => []HandedOutIsLive
<1>1. Inv => HandedOutIsLive
  BY DEF Inv, TypeOK, HandedOutIsLive, StoredStays, Steady
<1> QED BY <1>1, InvAlways, PTL

-----------------------------------------------------------------------------
(* WebhookDelivery                                                         *)

\* The awaits of executeWebhook.
Executing == {"load", "giveUp", "post", "succeed", "catch"}

\* The call of sendWebhook works on its own log, a tick on logs of its batch.
\* No tick holds a log, and no retry is scheduled, before that call is done.
Placed ==
  /\ \A e \in Events :
       /\ worker[e].log = e
       /\ worker[e].pc # "next"
       /\ worker[e].pc # "done" => nextRetryAt[e] = "unset"
  /\ \A c \in Crons :
       /\ worker[c].pc \in Executing \cup {"idle", "next"}
       /\ worker[c].pc \in Executing =>
            worker[c].log \in Events /\ worker[worker[c].log].pc = "done"
       /\ \A e \in batch[c] : worker[e].pc = "done"

Typed == WebhookTypeOK /\ Placed

\* The steps, each with the activation that takes it.
LEMMA Steps ==
  [WebhookNext]_webhookVars =>
    \/ \E e \in Events : Send(e) \/ Supersede(e) \/ Create(e) \/ BecomeDue(e)
    \/ \E c \in Crons : CronStart(c) \/ CronNext(c) \/ CronEnd(c)
    \/ \E w \in Workers :
         \/ Load(w) \/ GiveUp(w) \/ Post(w) \/ RecordSuccess(w) \/ Reschedule(w)
         \/ Caught(w) \/ Uncaught(w)
    \/ UNCHANGED webhookVars
BY DEF WebhookNext, SendStep, CronStep, Execute, Workers

-----------------------------------------------------------------------------
(* Type correctness.                                                       *)

\* An activation that moves on within executeWebhook, or returns from it.
LEMMA WorkerMoves ==
  ASSUME Typed, NEW w \in Workers, worker[w].pc \in Executing,
         NEW p \in Executing, WorkerGoto(w, p) \/ Return(w)
  PROVE  /\ worker' \in [Workers -> WorkerState]
         /\ \A v \in Workers : worker'[v].log = worker[v].log
         /\ \A v \in Workers : v # w => worker'[v].pc = worker[v].pc
         /\ WorkerGoto(w, p) => worker'[w].pc = p
         /\ Return(w) => worker'[w].pc = IF w \in Events THEN "done" ELSE "next"
BY DEF Typed, WebhookTypeOK, Executing, WorkerGoto, Return, WorkerState

\* Within executeWebhook an activation keeps its log, and may leave it for good.
LEMMA PlacedKept ==
  ASSUME Typed, NEW w \in Workers,
         \A v \in Workers : worker'[v].log = worker[v].log,
         \A v \in Workers : v # w => worker'[v].pc = worker[v].pc,
         w \in Events => \/ worker'[w].pc = "done"
                         \/ worker[w].pc # "done" /\ worker'[w].pc # "next",
         w \in Crons => \/ worker'[w].pc \in {"idle", "next"}
                        \/ worker[w].pc \in Executing /\ worker'[w].pc \in Executing,
         \A c \in Crons : batch'[c] \subseteq batch[c],
         \A e \in Events : nextRetryAt'[e] = nextRetryAt[e] \/ worker'[e].pc = "done"
  PROVE  Placed'
<1>0. /\ Placed /\ batch \in [Crons -> SUBSET Events]
      /\ Events \subseteq Workers /\ Crons \subseteq Workers
      /\ \A c \in Crons : c \notin Events
  BY DeliveryAssumption DEF Typed, WebhookTypeOK, Workers
<1>1. \A e \in Events : worker[e].pc = "done" => worker'[e].pc = "done"
  BY <1>0
<1>2. \A e \in Events : /\ worker'[e].log = e
                        /\ worker'[e].pc # "next"
                        /\ worker'[e].pc # "done" => nextRetryAt'[e] = "unset"
  BY <1>0, <1>1 DEF Placed
<1>3. \A c \in Crons : worker'[c].pc \in Executing \cup {"idle", "next"}
  BY <1>0 DEF Placed
<1>4. \A c \in Crons : worker'[c].pc \in Executing => worker[c].pc \in Executing
  BY <1>0 DEF Executing
<1>5. \A c \in Crons : worker'[c].pc \in Executing =>
        worker'[c].log \in Events /\ worker'[worker'[c].log].pc = "done"
  BY <1>0, <1>1, <1>4 DEF Placed
<1>6. \A c \in Crons : \A e \in batch'[c] : worker'[e].pc = "done"
  BY <1>0, <1>1 DEF Placed
<1> QED BY <1>2, <1>3, <1>5, <1>6 DEF Placed

LEMMA WebhookTypedStep == Typed /\ [WebhookNext]_webhookVars => Typed'
<1> SUFFICES ASSUME Typed, [WebhookNext]_webhookVars PROVE WebhookTypeOK' /\ Placed'
  BY DEF Typed
<1>0. /\ WebhookTypeOK /\ Placed
      /\ worker \in [Workers -> WorkerState]
      /\ Events \subseteq Workers /\ Crons \subseteq Workers
      /\ \A c \in Crons : c \notin Events
      /\ \A w \in Workers : w \in Events \/ w \in Crons
  BY DeliveryAssumption DEF Typed, WebhookTypeOK, Workers
<1>1. ASSUME NEW e \in Events, Send(e) \/ Supersede(e) \/ Create(e) PROVE WebhookTypeOK' /\ Placed'
  <2>1. PICK p \in {"supersede", "create", "load"} :
          worker' = [worker EXCEPT ![e].pc = p]
    BY <1>1 DEF Send, Supersede, Create, WorkerGoto
  <2>2. worker[e].pc # "done" /\ worker[e].pc # "next"
    BY <1>1 DEF Send, Supersede, Create
  <2>3. worker' \in [Workers -> WorkerState]
    BY <1>0, <2>1 DEF WorkerState
  <2>4. WebhookTypeOK'
    BY <1>0, <1>1, <2>3
       DEF WebhookTypeOK, Send, Supersede, Create, logVars, trouble, Status, Superseded
  <2>5. nextRetryAt' = nextRetryAt /\ batch' = batch
    BY <1>1 DEF Send, Supersede, Create, logVars
  <2>6. /\ \A v \in Workers : v # e => worker'[v] = worker[v]
        /\ worker'[e].log = worker[e].log /\ worker'[e].pc = p
    BY <1>0, <2>1 DEF WorkerState
  <2>7. Placed'
    BY <1>0, <2>2, <2>5, <2>6 DEF Placed, WebhookTypeOK
  <2> QED BY <2>4, <2>7
<1>2. ASSUME NEW e \in Events, BecomeDue(e) PROVE WebhookTypeOK' /\ Placed'
  <2>1. WebhookTypeOK'
    BY <1>0, <1>2 DEF WebhookTypeOK, BecomeDue, trouble
  <2>2. Placed'
    BY <1>0, <1>2 DEF WebhookTypeOK, BecomeDue, Placed
  <2> QED BY <2>1, <2>2
<1>3. ASSUME NEW c \in Crons, CronStart(c) PROVE WebhookTypeOK' /\ Placed'
  <2>1. worker' = [worker EXCEPT ![c].pc = "next"] /\ batch' = [batch EXCEPT ![c] = Retryable]
    BY <1>3 DEF CronStart, WorkerGoto
  <2>2. worker' \in [Workers -> WorkerState]
    BY <1>0, <2>1 DEF WorkerState
  <2>3. Retryable \in SUBSET Events /\ \A e \in Retryable : nextRetryAt[e] = "due"
    BY DEF Retryable
  <2>4. ticksOverlapped' \in BOOLEAN
    BY <1>0, <1>3 DEF CronStart, WebhookTypeOK
  <2>5. WebhookTypeOK'
    BY <1>0, <1>3, <2>1, <2>2, <2>3, <2>4 DEF WebhookTypeOK, CronStart, logVars
  <2>6. /\ \A v \in Workers : v # c => worker'[v] = worker[v]
        /\ worker'[c].pc = "next"
    BY <1>0, <2>1 DEF WorkerState
  <2>7. /\ \A b \in Crons : b # c => batch'[b] = batch[b]
        /\ batch'[c] = Retryable
        /\ nextRetryAt' = nextRetryAt
    BY <1>0, <1>3, <2>1 DEF WebhookTypeOK, CronStart, logVars
  <2>8. Placed'
    BY <1>0, <2>3, <2>6, <2>7 DEF Placed, WebhookTypeOK, Executing
  <2> QED BY <2>5, <2>8
<1>4. ASSUME NEW c \in Crons, CronNext(c) PROVE WebhookTypeOK' /\ Placed'
  <2>1. PICK e \in batch[c] : /\ worker' = [worker EXCEPT ![c] = [pc |-> "load", log |-> e]]
                              /\ batch' = [batch EXCEPT ![c] = @ \ {e}]
    BY <1>4 DEF CronNext
  <2>2. e \in Events /\ batch[c] \in SUBSET Events
    BY <1>0 DEF WebhookTypeOK
  <2>3. worker' \in [Workers -> WorkerState]
    BY <1>0, <2>1, <2>2 DEF WorkerState
  <2>4. WebhookTypeOK'
    BY <1>0, <1>4, <2>1, <2>2, <2>3 DEF WebhookTypeOK, CronNext, logVars, trouble
  <2>5. /\ \A v \in Workers : v # c => worker'[v] = worker[v]
        /\ worker'[c] = [pc |-> "load", log |-> e]
        /\ \A b \in Crons : batch'[b] \subseteq batch[b]
        /\ nextRetryAt' = nextRetryAt
    BY <1>0, <1>4, <2>1 DEF WebhookTypeOK, CronNext, logVars
  <2>6. worker[e].pc = "done"
    BY <1>0 DEF Placed
  <2>7. \A x \in Events : worker'[x] = worker[x]
    BY <1>0, <2>5
  <2>8. \A x \in Events : /\ worker'[x].log = x /\ worker'[x].pc # "next"
                          /\ worker'[x].pc # "done" => nextRetryAt'[x] = "unset"
    BY <1>0, <2>5, <2>7 DEF Placed
  <2>9. ASSUME NEW b \in Crons
        PROVE  /\ worker'[b].pc \in Executing \cup {"idle", "next"}
               /\ worker'[b].pc \in Executing =>
                    worker'[b].log \in Events /\ worker'[worker'[b].log].pc = "done"
               /\ \A x \in batch'[b] : worker'[x].pc = "done"
    <3>1. b # c => worker'[b] = worker[b]
      BY <1>0, <2>5
    <3>2. worker'[c].pc \in Executing /\ worker'[c].log = e /\ worker'[e].pc = "done"
      BY <2>2, <2>5, <2>6, <2>7 DEF Executing
    <3>3. batch'[b] \subseteq batch[b] /\ batch[b] \subseteq Events
      BY <1>0, <2>5 DEF WebhookTypeOK
    <3> QED BY <1>0, <2>2, <2>7, <3>1, <3>2, <3>3 DEF Placed
  <2>10. Placed'
    BY <2>8, <2>9 DEF Placed
  <2> QED BY <2>4, <2>10
<1>5. ASSUME NEW c \in Crons, CronEnd(c) PROVE WebhookTypeOK' /\ Placed'
  <2>1. worker' = [worker EXCEPT ![c].pc = "idle"]
    BY <1>5 DEF CronEnd, WorkerGoto
  <2>2. worker' \in [Workers -> WorkerState]
    BY <1>0, <2>1 DEF WorkerState
  <2>3. WebhookTypeOK'
    BY <1>0, <1>5, <2>2 DEF WebhookTypeOK, CronEnd, logVars, trouble
  <2>4. /\ \A v \in Workers : v # c => worker'[v] = worker[v]
        /\ worker'[c].pc = "idle"
        /\ batch' = batch /\ nextRetryAt' = nextRetryAt
    BY <1>0, <1>5, <2>1 DEF CronEnd, logVars, WorkerState
  <2>5. Placed'
    BY <1>0, <2>4 DEF Placed, WebhookTypeOK, Executing
  <2> QED BY <2>3, <2>5
<1>6. ASSUME NEW w \in Workers, Load(w) \/ GiveUp(w) \/ Post(w) \/ Caught(w)
      PROVE  WebhookTypeOK' /\ Placed'
  <2>1. PICK p \in Executing : WorkerGoto(w, p) \/ Return(w)
    BY <1>6 DEF Load, GiveUp, Post, Caught, Executing
  <2>2. worker[w].pc \in Executing
    BY <1>6 DEF Load, GiveUp, Post, Caught, Executing
  <2>3. /\ worker' \in [Workers -> WorkerState]
        /\ \A v \in Workers : worker'[v].log = worker[v].log
        /\ \A v \in Workers : v # w => worker'[v].pc = worker[v].pc
        /\ worker'[w].pc \in Executing \cup {IF w \in Events THEN "done" ELSE "next"}
    BY <2>1, <2>2, WorkerMoves
  <2>4. WebhookTypeOK'
    BY <1>0, <1>6, <2>3, DeliveryAssumption
       DEF WebhookTypeOK, Load, GiveUp, Post, Caught, Error, logVars, trouble, Status
  <2>5. batch' = batch /\ nextRetryAt' = nextRetryAt
    BY <1>6 DEF Load, GiveUp, Post, Caught, logVars
  <2>6. Placed'
    <3>1. /\ worker[w].pc # "done"
          /\ w \in Events => worker'[w].pc # "next"
          /\ w \in Crons => worker'[w].pc = "next" \/ worker'[w].pc \in Executing
      BY <1>0, <2>2, <2>3 DEF Executing
    <3>2. /\ \A c \in Crons : batch'[c] \subseteq batch[c]
          /\ \A e \in Events : nextRetryAt'[e] = nextRetryAt[e] \/ worker'[e].pc = "done"
      BY <2>5
    <3>3. w \in Events => \/ worker'[w].pc = "done"
                          \/ worker[w].pc # "done" /\ worker'[w].pc # "next"
      BY <3>1
    <3>4. w \in Crons => \/ worker'[w].pc \in {"idle", "next"}
                         \/ worker[w].pc \in Executing /\ worker'[w].pc \in Executing
      BY <2>2, <3>1
    <3> QED BY <2>3, <3>2, <3>3, <3>4, PlacedKept
  <2> QED BY <2>4, <2>6
<1>7. ASSUME NEW w \in Workers, RecordSuccess(w) \/ Reschedule(w) PROVE WebhookTypeOK' /\ Placed'
  <2>1. Return(w) /\ worker[w].pc \in Executing /\ "load" \in Executing
    BY <1>7 DEF RecordSuccess, Reschedule, Executing
  <2>2. /\ worker' \in [Workers -> WorkerState]
        /\ \A v \in Workers : worker'[v].log = worker[v].log
        /\ \A v \in Workers : v # w => worker'[v].pc = worker[v].pc
        /\ worker'[w].pc = IF w \in Events THEN "done" ELSE "next"
    BY <2>1, WorkerMoves
  <2>3. worker[w].log \in Events
    BY <1>0, <2>1 DEF Placed
  <2>4. WebhookTypeOK'
    <3>1. attempts' = [attempts EXCEPT ![worker[w].log] = @ + 1] /\ attempts \in [Events -> Nat]
      BY <1>0, <1>7 DEF RecordSuccess, Reschedule, WebhookTypeOK
    <3>2. attempts' \in [Events -> Nat]
      BY <2>3, <3>1
    <3>3. logStatus' \in [Events -> Status]
      BY <1>0, <1>7 DEF RecordSuccess, Reschedule, WebhookTypeOK, Status
    <3>4. nextRetryAt' \in [Events -> {"unset", "later", "due"}]
      BY <1>0, <1>7 DEF RecordSuccess, Reschedule, WebhookTypeOK
    <3>5. UNCHANGED <<seniors, batch, posts, trouble>>
      BY <1>7 DEF RecordSuccess, Reschedule
    <3> QED BY <1>0, <2>2, <3>2, <3>3, <3>4, <3>5 DEF WebhookTypeOK, trouble
  <2>5. /\ batch' = batch
        /\ \A e \in Events : e # worker[w].log => nextRetryAt'[e] = nextRetryAt[e]
    BY <1>0, <1>7 DEF WebhookTypeOK, RecordSuccess, Reschedule
  <2>6. worker'[worker[w].log].pc = "done"
    BY <1>0, <2>1, <2>2, <2>3 DEF Placed
  <2>7. Placed'
    <3>1. w \in Crons => worker'[w].pc = "next"
      BY <1>0, <2>2
    <3>2. /\ \A c \in Crons : batch'[c] \subseteq batch[c]
          /\ \A e \in Events : nextRetryAt'[e] = nextRetryAt[e] \/ worker'[e].pc = "done"
      BY <2>5, <2>6
    <3>3. w \in Events => \/ worker'[w].pc = "done"
                          \/ worker[w].pc # "done" /\ worker'[w].pc # "next"
      BY <2>2
    <3>4. w \in Crons => \/ worker'[w].pc \in {"idle", "next"}
                         \/ worker[w].pc \in Executing /\ worker'[w].pc \in Executing
      BY <3>1
    <3> QED BY <2>2, <3>2, <3>3, <3>4, PlacedKept
  <2> QED BY <2>4, <2>7
<1>8. ASSUME NEW w \in Workers, Uncaught(w) PROVE WebhookTypeOK' /\ Placed'
  <2>1. worker' = [worker EXCEPT ![w].pc = IF w \in Events THEN "done" ELSE "idle"]
    BY <1>8 DEF Uncaught, WorkerGoto
  <2>2. worker' \in [Workers -> WorkerState]
    BY <1>0, <2>1 DEF WorkerState
  <2>3. WebhookTypeOK'
    BY <1>0, <1>8, <2>2, DeliveryAssumption DEF WebhookTypeOK, Uncaught, Error, logVars
  <2>4. /\ \A v \in Workers : worker'[v].log = worker[v].log
        /\ \A v \in Workers : v # w => worker'[v].pc = worker[v].pc
        /\ worker'[w].pc = IF w \in Events THEN "done" ELSE "idle"
        /\ \A b \in Crons : batch'[b] \subseteq batch[b]
        /\ nextRetryAt' = nextRetryAt
    BY <1>0, <1>8, <2>1 DEF WebhookTypeOK, Uncaught, logVars, WorkerState
  <2>5. Placed'
    <3>1. w \in Crons => worker'[w].pc = "idle"
      BY <1>0, <2>4
    <3>2. \A e \in Events : nextRetryAt'[e] = nextRetryAt[e] \/ worker'[e].pc = "done"
      BY <2>4
    <3>3. w \in Events => \/ worker'[w].pc = "done"
                          \/ worker[w].pc # "done" /\ worker'[w].pc # "next"
      BY <2>4
    <3>4. w \in Crons => \/ worker'[w].pc \in {"idle", "next"}
                         \/ worker[w].pc \in Executing /\ worker'[w].pc \in Executing
      BY <3>1
    <3> QED BY <2>4, <3>2, <3>3, <3>4, PlacedKept
  <2> QED BY <2>3, <2>5
<1>9. ASSUME UNCHANGED webhookVars PROVE WebhookTypeOK' /\ Placed'
  BY <1>0, <1>9 DEF WebhookTypeOK, Placed, webhookVars, logVars, trouble
<1> QED BY <1>1, <1>2, <1>3, <1>4, <1>5, <1>6, <1>7, <1>8, <1>9, Steps

LEMMA TypedInv == WebhookSpec => []Typed
<1>1. WebhookInit => Typed
  <2> SUFFICES ASSUME WebhookInit PROVE WebhookTypeOK /\ Placed
    BY DEF Typed
  <2>1. \A w \in Workers : worker[w] = [pc |-> "idle", log |-> IF w \in Events THEN w ELSE Nil]
    BY DEF WebhookInit
  <2>2. worker \in [Workers -> WorkerState]
    BY DEF WebhookInit, WorkerState
  <2>3. WebhookTypeOK
    <3>1. 0 \in 0..MaxRefusals /\ 0 \in 0..MaxErrors
      BY DeliveryAssumption
    <3>2. /\ logStatus \in [Events -> Status]
          /\ nextRetryAt \in [Events -> {"unset", "later", "due"}]
          /\ seniors \in [Events -> SUBSET Events]
          /\ batch \in [Crons -> SUBSET Events]
      BY DEF WebhookInit, Status
    <3>3. attempts \in [Events -> Nat] /\ posts \in [Events -> Nat]
      BY DEF WebhookInit
    <3> QED BY <2>2, <3>1, <3>2, <3>3 DEF WebhookInit, WebhookTypeOK
  <2>4. Placed
    BY <2>1 DEF WebhookInit, Placed, Workers, Executing
  <2> QED BY <2>3, <2>4
<1> QED BY <1>1, WebhookTypedStep, PTL DEF WebhookSpec

\* Every reachable state is well typed, for any events, ticks and bounds.
THEOREM WebhookTypeCorrect == WebhookSpec => []WebhookTypeOK
BY TypedInv, PTL DEF Typed

-----------------------------------------------------------------------------
(* How often a webhook is posted.                                          *)

\* The activations that are about to post e, and those that have posted it (or
\* failed before) and are about to count the attempt.
Posting(e) == {w \in Workers : worker[w].log = e /\ worker[w].pc = "post"}
Unrecorded(e) == {w \in Workers : worker[w].log = e /\ worker[w].pc \in {"succeed", "catch"}}

\* A post is counted, or will be, or an error has prevented that.  Whoever is
\* about to post was admitted while attempts were left.
CountInv ==
  \A e \in Events :
    /\ posts[e] <= attempts[e] + Cardinality(Unrecorded(e)) + errors
    /\ posts[e] + Cardinality(Posting(e)) <= MaxAttempts - 1 + Cardinality(Crons) + errors

LEMMA CronsFinite ==
  /\ Cardinality(Crons) \in Nat /\ Cardinality(Crons) >= 1
  /\ \A e : IsFiniteSet({e} \cup Crons)
<1>1. Cardinality(Crons) \in Nat /\ Cardinality(Crons) # 0
  BY DeliveryAssumption, FS_CardinalityType, FS_EmptySet
<1>2. ASSUME NEW e PROVE IsFiniteSet(Crons \cup {e})
  BY DeliveryAssumption, FS_AddElement
<1>3. ASSUME NEW e PROVE IsFiniteSet({e} \cup Crons)
  <2>1. {e} \cup Crons = Crons \cup {e}
    OBVIOUS
  <2> QED BY <1>2, <2>1
<1>4. Cardinality(Crons) >= 1
  BY <1>1
<1> QED
  <2>1. \A e : IsFiniteSet({e} \cup Crons)
    BY ONLY <1>3
  <2> QED BY <1>1, <1>4, <2>1

\* One element more, or less, changes a cardinality by at most one.
LEMMA OneMore ==
  ASSUME NEW S, NEW x, IsFiniteSet(S), Cardinality(S) \in Nat
  PROVE  /\ IsFiniteSet(S \cup {x}) /\ Cardinality(S \cup {x}) \in Nat
         /\ Cardinality(S \cup {x}) <= Cardinality(S) + 1
<1>1. CASE x \in S
  <2>1. S \cup {x} = S
    BY <1>1
  <2>2. Cardinality(S) <= Cardinality(S) + 1
    OBVIOUS
  <2>3. IsFiniteSet(S \cup {x}) /\ Cardinality(S \cup {x}) = Cardinality(S)
    BY <2>1, Zenon
  <2> QED BY <2>2, <2>3
<1>2. CASE x \notin S
  <2>1. IsFiniteSet(S \cup {x}) /\ Cardinality(S \cup {x}) = Cardinality(S) + 1
    BY <1>2, FS_AddElement
  <2> QED BY <2>1
<1> QED BY <1>1, <1>2

LEMMA OneLess ==
  ASSUME NEW S, NEW x, IsFiniteSet(S), Cardinality(S) \in Nat
  PROVE  /\ IsFiniteSet(S \ {x}) /\ Cardinality(S \ {x}) \in Nat
         /\ Cardinality(S) - 1 <= Cardinality(S \ {x})
<1>1. CASE x \notin S
  <2>1. S \ {x} = S
    BY <1>1
  <2>2. Cardinality(S) - 1 <= Cardinality(S)
    OBVIOUS
  <2>3. IsFiniteSet(S \ {x}) /\ Cardinality(S \ {x}) = Cardinality(S)
    BY <2>1, Zenon
  <2> QED BY <2>2, <2>3
<1>2. CASE x \in S
  <2>1. IsFiniteSet(S \ {x}) /\ Cardinality(S \ {x}) = Cardinality(S) - 1
    BY <1>2, FS_RemoveElement
  <2>2. Cardinality(S \ {x}) \in Nat
    BY <2>1, FS_CardinalityType
  <2> QED BY <2>1, <2>2
<1> QED BY <1>1, <1>2

\* The sets that are counted are finite.
LEMMA Finite ==
  ASSUME NEW e, NEW S \in SUBSET ({e} \cup Crons)
  PROVE  IsFiniteSet(S) /\ Cardinality(S) \in Nat
BY CronsFinite, FS_Subset, FS_CardinalityType

LEMMA OwnOrCrons ==
  ASSUME Placed, NEW e \in Events
  PROVE  Posting(e) \subseteq {e} \cup Crons /\ Unrecorded(e) \subseteq {e} \cup Crons
BY DEF Posting, Unrecorded, Placed, Workers

\* Where an activation is admitted to post, the others leave room for it: all are
\* ticks of the cron, or it is the call of sendWebhook and there is no other.
LEMMA Room ==
  ASSUME Typed, NEW w \in Workers, NEW e \in Events,
         worker[w].log = e, worker[w].pc = "load"
  PROVE  Cardinality(Posting(e)) + Cardinality(Unrecorded(e)) + 1 <= Cardinality(Crons)
<1> DEFINE U == Posting(e) \cup Unrecorded(e)
           B == U \cup {w}
<1>0. Placed /\ \A v \in Workers : v \in Events \/ v \in Crons
  BY DEF Typed, Workers
<1>1. /\ IsFiniteSet(Posting(e)) /\ IsFiniteSet(Unrecorded(e))
      /\ Cardinality(Posting(e)) \in Nat /\ Cardinality(Unrecorded(e)) \in Nat
  BY <1>0, OwnOrCrons, Finite
<1>2. IsFiniteSet(U) /\ Cardinality(U) = Cardinality(Posting(e)) + Cardinality(Unrecorded(e))
  <2>1. Posting(e) \cap Unrecorded(e) = {}
    BY DEF Posting, Unrecorded
  <2> QED BY <1>1, <2>1, FS_Union, FS_EmptySet
<1>3. IsFiniteSet(B) /\ Cardinality(B) = Cardinality(U) + 1
  <2>1. w \notin U
    BY DEF Posting, Unrecorded
  <2> HIDE DEF U
  <2> QED BY <1>2, <2>1, FS_AddElement
<1>4. Cardinality(B) <= Cardinality(Crons)
  <2>1. \A v \in B : v \in Workers /\ worker[v].log = e /\ worker[v].pc \in Executing
    BY DEF Posting, Unrecorded, Executing
  <2>2. \A v \in B : v \in Events => v = e
    BY <1>0, <2>1 DEF Placed
  <2>3. CASE e \in B
    <3>1. worker[e].pc # "done"
      BY <2>1, <2>3 DEF Executing
    <3>2. B = {e}
      BY <1>0, <2>1, <2>2, <2>3, <3>1 DEF Placed
    <3>3. Cardinality(B) = 1
      BY <3>2, FS_Singleton
    <3> QED BY <3>3, CronsFinite
  <2>4. CASE e \notin B
    <3>1. B \subseteq Crons
      BY <1>0, <2>1, <2>2, <2>4
    <3> HIDE DEF B
    <3> QED BY <3>1, DeliveryAssumption, FS_Subset
  <2> QED BY <2>3, <2>4
<1> QED BY <1>2, <1>3, <1>4

LEMMA CountStep == Typed /\ Typed' /\ CountInv /\ [WebhookNext]_webhookVars => CountInv'
<1> SUFFICES ASSUME Typed, Typed', CountInv, [WebhookNext]_webhookVars, NEW e \in Events
             PROVE  /\ posts'[e] <= attempts'[e] + Cardinality(Unrecorded(e)') + errors'
                    /\ posts'[e] + Cardinality(Posting(e)')
                         <= MaxAttempts - 1 + Cardinality(Crons) + errors'
  BY DEF CountInv
<1> DEFINE P == Posting(e)
           Q == Posting(e)'
           U == Unrecorded(e)
           V == Unrecorded(e)'
           N == MaxAttempts - 1 + Cardinality(Crons)
           Goal == /\ posts'[e] <= attempts'[e] + Cardinality(V) + errors'
                   /\ posts'[e] + Cardinality(Q) <= N + errors'
<1>0. /\ worker \in [Workers -> WorkerState] /\ Placed
      /\ posts \in [Events -> Nat] /\ attempts \in [Events -> Nat]
      /\ posts[e] \in Nat /\ attempts[e] \in Nat /\ errors \in Nat /\ errors' \in Nat
      /\ MaxAttempts \in Nat /\ Cardinality(Crons) \in Nat /\ N \in Nat
  BY DeliveryAssumption, CronsFinite DEF Typed, WebhookTypeOK
<1>1. /\ IsFiniteSet(P) /\ IsFiniteSet(Q) /\ IsFiniteSet(U) /\ IsFiniteSet(V)
      /\ Cardinality(P) \in Nat /\ Cardinality(Q) \in Nat
      /\ Cardinality(U) \in Nat /\ Cardinality(V) \in Nat
  <2>1. P \subseteq {e} \cup Crons /\ U \subseteq {e} \cup Crons
    BY <1>0, OwnOrCrons
  <2>2. Q \subseteq {e} \cup Crons /\ V \subseteq {e} \cup Crons
    BY DEF Typed, Posting, Unrecorded, Placed, Workers
  <2> QED BY <2>1, <2>2, Finite
<1>2. /\ posts[e] <= attempts[e] + Cardinality(U) + errors
      /\ posts[e] + Cardinality(P) <= N + errors
  BY DEF CountInv
<1> HIDE DEF P, Q, U, V, N
\* A step that admits no activation to post e and makes none forget a post.
<1>3. ASSUME posts'[e] = posts[e], attempts'[e] = attempts[e], errors' >= errors,
             Q \subseteq P, U \subseteq V
      PROVE  Goal
  <2>1. Cardinality(Q) <= Cardinality(P) /\ Cardinality(U) <= Cardinality(V)
    BY <1>1, <1>3, FS_Subset
  <2> QED BY <1>0, <1>1, <1>2, <1>3, <2>1
<1>4. ASSUME NEW f \in Events, Send(f) \/ Supersede(f) \/ Create(f) \/ BecomeDue(f) PROVE Goal
  <2>1. UNCHANGED <<posts, attempts, errors>>
    BY <1>4 DEF Send, Supersede, Create, BecomeDue, logVars, trouble
  <2>2. \/ worker' = worker
        \/ /\ \A v \in Workers : v # f => worker'[v] = worker[v]
           /\ worker[f].pc \in {"idle", "supersede", "create"}
           /\ worker'[f].pc \in {"supersede", "create", "load"}
    BY <1>0, <1>4 DEF Send, Supersede, Create, BecomeDue, WorkerGoto, WorkerState
  <2>3. Q \subseteq P /\ U \subseteq V
    BY <2>2 DEF P, Q, U, V, Posting, Unrecorded
  <2> QED BY <1>0, <1>3, <2>1, <2>3
<1>5. ASSUME NEW c \in Crons, CronStart(c) \/ CronNext(c) \/ CronEnd(c) PROVE Goal
  <2>1. UNCHANGED <<posts, attempts, errors>>
    BY <1>5 DEF CronStart, CronNext, CronEnd, logVars, trouble
  <2>2. /\ \A v \in Workers : v # c => worker'[v] = worker[v]
        /\ worker[c].pc \in {"idle", "next"}
        /\ worker'[c].pc \in {"idle", "next", "load"}
    <3>1. c \in Workers
      BY DEF Workers
    <3>2. CASE CronNext(c)
      BY <1>0, <3>1, <3>2 DEF CronNext
    <3>3. CASE CronStart(c) \/ CronEnd(c)
      BY <1>0, <3>1, <3>3 DEF CronStart, CronEnd, WorkerGoto, WorkerState
    <3> QED BY <1>5, <3>2, <3>3
  <2>3. Q \subseteq P /\ U \subseteq V
    BY <2>2 DEF P, Q, U, V, Posting, Unrecorded
  <2> QED BY <1>0, <1>3, <2>1, <2>3
\* What the others do with their logs; f is the log that w works on.
<1>6. ASSUME NEW w \in Workers,
             \/ Load(w) \/ GiveUp(w) \/ Post(w) \/ RecordSuccess(w) \/ Reschedule(w)
             \/ Caught(w) \/ Uncaught(w)
      PROVE  /\ \A v \in Workers : worker'[v].log = worker[v].log
             /\ \A v \in Workers : v # w => worker'[v].pc = worker[v].pc
  <2>1. \E p : worker' = [worker EXCEPT ![w].pc = p]
    BY <1>6 DEF Load, GiveUp, Post, RecordSuccess, Reschedule, Caught, Uncaught, WorkerGoto, Return
  <2> QED BY <1>0, <2>1 DEF WorkerState
<1>7. ASSUME NEW w \in Workers, Load(w) PROVE Goal
  <2>1. UNCHANGED <<posts, attempts, errors>>
    BY <1>7 DEF Load, logVars, trouble
  <2>2. worker[w].pc = "load"
    BY <1>7 DEF Load
  <2>3. U \subseteq V
    BY <1>6, <1>7, <2>2 DEF U, V, Unrecorded
  <2>4. CASE worker[w].log = e /\ worker'[w].pc = "post"
    <3>1. attempts[e] <= MaxAttempts - 1
      <4>1. ~Exhausted(e)
        BY <1>0, <1>7, <2>4 DEF Load, WorkerGoto, Return, WorkerState
      <4> QED BY <1>0, <4>1 DEF Exhausted
    <3>2. Cardinality(P) + Cardinality(U) + 1 <= Cardinality(Crons)
      BY <2>2, <2>4, Room DEF P, U
    <3>3. Q \subseteq P \cup {w}
      BY <1>6, <1>7 DEF P, Q, Posting
    <3>4. Cardinality(Q) <= Cardinality(P) + 1
      <4>1. /\ IsFiniteSet(P \cup {w}) /\ Cardinality(P \cup {w}) \in Nat
            /\ Cardinality(P \cup {w}) <= Cardinality(P) + 1
        BY <1>1, OneMore
      <4>2. Cardinality(Q) <= Cardinality(P \cup {w})
        BY <3>3, <4>1, FS_Subset
      <4> QED BY <1>1, <4>1, <4>2
    <3>5. Cardinality(U) <= Cardinality(V)
      BY <1>1, <2>3, FS_Subset
    <3> QED BY <1>0, <1>1, <1>2, <2>1, <3>1, <3>2, <3>4, <3>5 DEF N
  <2>5. CASE ~(worker[w].log = e /\ worker'[w].pc = "post")
    <3>1. Q \subseteq P
      BY <1>6, <1>7, <2>5 DEF P, Q, Posting
    <3> QED BY <1>0, <1>3, <2>1, <2>3, <3>1
  <2> QED BY <2>4, <2>5
<1>8. ASSUME NEW w \in Workers, GiveUp(w) \/ Caught(w) PROVE Goal
  <2>1. posts' = posts /\ attempts' = attempts /\ errors' >= errors
    BY <1>0, <1>8 DEF GiveUp, Caught, Error, logVars, trouble
  <2>2. worker'[w].pc \in {"catch", "done", "next"} /\ worker[w].pc # "post"
    BY <1>0, <1>8 DEF GiveUp, Caught, WorkerGoto, Return, WorkerState
  <2>3. worker[w].pc = "succeed" => worker'[w].pc = "catch"
    BY <1>0, <1>8 DEF GiveUp, Caught, WorkerGoto, WorkerState
  <2>4. worker[w].pc # "catch"
    BY <1>8 DEF GiveUp, Caught
  <2>5. Q \subseteq P /\ U \subseteq V
    BY <1>6, <1>8, <2>2, <2>3, <2>4 DEF P, Q, U, V, Posting, Unrecorded
  <2> QED BY <1>3, <2>1, <2>5
<1>9. ASSUME NEW w \in Workers, Post(w) PROVE Goal
  <2>1. /\ attempts' = attempts /\ errors' = errors
        /\ posts' = [posts EXCEPT ![worker[w].log] = @ + 1]
    BY <1>9 DEF Post, logVars
  <2>2. worker[w].pc = "post" /\ worker'[w].pc \in {"succeed", "catch"}
    BY <1>0, <1>9 DEF Post, WorkerGoto, WorkerState
  <2>3. CASE worker[w].log = e
    <3>1. posts'[e] = posts[e] + 1
      BY <1>0, <2>1, <2>3
    <3>2. w \in P /\ Q \subseteq P \ {w}
      BY <1>6, <1>9, <2>2, <2>3 DEF P, Q, Posting
    <3>3. w \notin U /\ U \cup {w} \subseteq V
      BY <1>6, <1>9, <2>2, <2>3 DEF U, V, Unrecorded
    <3>4. Cardinality(Q) <= Cardinality(P) - 1
      <4>1. IsFiniteSet(P \ {w}) /\ Cardinality(P \ {w}) = Cardinality(P) - 1
        BY <1>1, <3>2, FS_RemoveElement
      <4> QED BY <3>2, <4>1, FS_Subset
    <3>5. Cardinality(U) + 1 <= Cardinality(V)
      <4>1. IsFiniteSet(U \cup {w}) /\ Cardinality(U \cup {w}) = Cardinality(U) + 1
        BY <1>1, <3>3, FS_AddElement
      <4>2. Cardinality(U \cup {w}) <= Cardinality(V)
        BY <1>1, <3>3, FS_Subset
      <4> QED BY <4>1, <4>2
    <3> QED BY <1>0, <1>1, <1>2, <2>1, <3>1, <3>4, <3>5
  <2>4. CASE worker[w].log # e
    <3>1. posts'[e] = posts[e]
      BY <1>0, <2>1, <2>4
    <3>2. Q \subseteq P /\ U \subseteq V
      BY <1>6, <1>9, <2>4 DEF P, Q, U, V, Posting, Unrecorded
    <3> QED BY <1>0, <1>3, <2>1, <3>1, <3>2
  <2> QED BY <2>3, <2>4
<1>10. ASSUME NEW w \in Workers, RecordSuccess(w) \/ Reschedule(w) PROVE Goal
  <2>1. /\ posts' = posts /\ errors' = errors
        /\ attempts' = [attempts EXCEPT ![worker[w].log] = @ + 1]
    BY <1>10 DEF RecordSuccess, Reschedule, trouble
  <2>2. worker[w].pc \in {"succeed", "catch"} /\ worker'[w].pc \in {"done", "next"}
    BY <1>0, <1>10 DEF RecordSuccess, Reschedule, WorkerGoto, Return, WorkerState
  <2>3. Q \subseteq P
    BY <1>6, <1>10, <2>2 DEF P, Q, Posting
  <2>4. CASE worker[w].log = e
    <3>1. attempts'[e] = attempts[e] + 1
      BY <1>0, <2>1, <2>4
    <3>2. U \ {w} \subseteq V /\ w \in U
      BY <1>6, <1>10, <2>2, <2>4 DEF U, V, Unrecorded
    <3>3. Cardinality(U) - 1 <= Cardinality(V)
      <4>1. IsFiniteSet(U \ {w}) /\ Cardinality(U \ {w}) = Cardinality(U) - 1
        BY <1>1, <3>2, FS_RemoveElement
      <4>2. Cardinality(U \ {w}) <= Cardinality(V)
        BY <1>1, <3>2, FS_Subset
      <4> QED BY <4>1, <4>2
    <3>4. Cardinality(Q) <= Cardinality(P)
      BY <1>1, <2>3, FS_Subset
    <3> QED BY <1>0, <1>1, <1>2, <2>1, <3>1, <3>3, <3>4
  <2>5. CASE worker[w].log # e
    <3>1. attempts'[e] = attempts[e]
      BY <1>0, <2>1, <2>5
    <3>2. U \subseteq V
      BY <1>6, <1>10, <2>5 DEF U, V, Unrecorded
    <3> QED BY <1>0, <1>3, <2>1, <2>3, <3>1, <3>2
  <2> QED BY <2>4, <2>5
<1>11. ASSUME NEW w \in Workers, Uncaught(w) PROVE Goal
  <2>1. posts' = posts /\ attempts' = attempts /\ errors' = errors + 1
    BY <1>11 DEF Uncaught, Error, logVars
  <2>2. worker'[w].pc \in {"done", "idle"}
    BY <1>0, <1>11 DEF Uncaught, WorkerGoto, WorkerState
  <2>3. Q \subseteq P /\ U \ {w} \subseteq V
    BY <1>6, <1>11, <2>2 DEF P, Q, U, V, Posting, Unrecorded
  <2>4. Cardinality(U) - 1 <= Cardinality(V)
    <3>1. /\ IsFiniteSet(U \ {w}) /\ Cardinality(U) - 1 <= Cardinality(U \ {w})
          /\ Cardinality(U \ {w}) \in Nat
      BY <1>1, OneLess
    <3>2. Cardinality(U \ {w}) <= Cardinality(V)
      BY <1>1, <2>3, FS_Subset
    <3> QED BY <1>1, <3>1, <3>2
  <2>5. Cardinality(Q) <= Cardinality(P)
    BY <1>1, <2>3, FS_Subset
  <2> QED BY <1>0, <1>1, <1>2, <2>1, <2>4, <2>5
<1>12. ASSUME UNCHANGED webhookVars PROVE Goal
  <2>1. UNCHANGED <<posts, attempts, errors, worker>>
    BY <1>12 DEF webhookVars, logVars, trouble
  <2>2. Q \subseteq P /\ U \subseteq V
    BY <2>1 DEF P, Q, U, V, Posting, Unrecorded
  <2> QED BY <1>0, <1>3, <2>1, <2>2
<1> QED
  BY <1>4, <1>5, <1>7, <1>8, <1>9, <1>10, <1>11, <1>12, Steps DEF Q, V, N

\* A webhook is posted at most MAX_RETRY_ATTEMPTS times, and once more for each
\* further tick of the cron that can overlap and for each attempt that an error
\* or a crash kept from being counted.
THEOREM PostsAreBounded == WebhookSpec => []PostsBounded
<1>1. WebhookInit => CountInv
  <2> SUFFICES ASSUME WebhookInit, NEW e \in Events
               PROVE  /\ posts[e] <= attempts[e] + Cardinality(Unrecorded(e)) + errors
                      /\ posts[e] + Cardinality(Posting(e))
                           <= MaxAttempts - 1 + Cardinality(Crons) + errors
    BY DEF CountInv
  <2>1. \A w \in Workers : worker[w].pc = "idle"
    BY DEF WebhookInit
  <2>2. Posting(e) = {} /\ Unrecorded(e) = {}
    BY <2>1 DEF Posting, Unrecorded
  <2>3. posts[e] = 0 /\ attempts[e] = 0 /\ errors = 0
    BY DEF WebhookInit
  <2> QED BY <2>2, <2>3, FS_EmptySet, CronsFinite, DeliveryAssumption
<1>2. Typed /\ CountInv => PostsBounded
  <2> SUFFICES ASSUME Typed, CountInv, NEW e \in Events
               PROVE  posts[e] <= MaxAttempts - 1 + Cardinality(Crons) + errors
    BY DEF PostsBounded
  <2>1. Cardinality(Posting(e)) \in Nat
    BY OwnOrCrons, Finite DEF Typed
  <2>2. posts[e] \in Nat /\ errors \in Nat
    BY DeliveryAssumption DEF Typed, WebhookTypeOK
  <2> QED BY <2>1, <2>2, CronsFinite, DeliveryAssumption DEF CountInv
<1>3. Typed /\ Typed' /\ CountInv /\ [WebhookNext]_webhookVars => CountInv'
  BY CountStep
<1> QED BY <1>1, <1>2, <1>3, TypedInv, PTL DEF WebhookSpec
-----------------------------------------------------------------------------
(* What is over stays over.                                                *)

\* A log is there only when its call of sendWebhook has created it.  What a tick
\* works on is no longer in its batch; and as long as no two ticks have
\* overlapped, no activation holds a log that was delivered.
QuietInv ==
  /\ \A e \in Events :
       worker[e].pc \in {"idle", "supersede", "create"} => logStatus[e] = "ABSENT"
  /\ \A c \in Crons :
       /\ worker[c].pc = "idle" => batch[c] = {}
       /\ worker[c].pc \in Executing => worker[c].log \notin batch[c]
  /\ ~ticksOverlapped =>
       /\ \A c, d \in Crons : worker[c].pc # "idle" /\ worker[d].pc # "idle" => c = d
       /\ \A e \in Events : logStatus[e] = "SUCCESS" => ~Held(e)

\* A step within executeWebhook, or the error that ends an activation.
Runs(w) ==
  \/ Load(w) \/ GiveUp(w) \/ Post(w) \/ RecordSuccess(w) \/ Reschedule(w)
  \/ Caught(w) \/ Uncaught(w)

LEMMA RunFacts ==
  ASSUME Typed, NEW w \in Workers, Runs(w)
  PROVE  /\ \A v \in Workers : v # w => worker'[v] = worker[v]
         /\ worker'[w].log = worker[w].log
         /\ worker'[w].pc \in Executing => worker[w].pc \in Executing
         /\ worker[w].pc \notin {"idle", "done"}
         /\ worker'[w].pc \in Executing \cup {IF w \in Events THEN "done" ELSE "next",
                                              IF w \in Events THEN "done" ELSE "idle"}
         /\ \A c \in Crons : batch'[c] \subseteq batch[c]
         /\ w \in Crons /\ worker'[w].pc = "idle" => batch'[w] = {}
         /\ ticksOverlapped' = ticksOverlapped
         /\ \/ logStatus' = logStatus /\ posts' = posts
            \/ worker[w].pc \in Executing
         /\ \A e \in Events : e # worker[w].log => logStatus'[e] = logStatus[e] /\ posts'[e] = posts[e]
         /\ \A e \in Events : logStatus'[e] = "SUCCESS" => \/ logStatus[e] = "SUCCESS"
                                                           \/ worker'[w].pc \notin Executing
<1>0. /\ worker \in [Workers -> WorkerState] /\ batch \in [Crons -> SUBSET Events]
      /\ logStatus \in [Events -> Status] /\ posts \in [Events -> Nat]
      /\ \A c \in Crons : c \notin Events
      /\ w \in Events \/ w \in Crons
  BY DeliveryAssumption DEF Typed, WebhookTypeOK, Workers
<1>1. PICK p : worker' = [worker EXCEPT ![w].pc = p]
                 /\ p \in Executing \cup {IF w \in Events THEN "done" ELSE "next",
                                          IF w \in Events THEN "done" ELSE "idle"}
                 /\ (p \in Executing => worker[w].pc \in Executing)
  <2>1. CASE Load(w) \/ GiveUp(w) \/ Post(w) \/ RecordSuccess(w) \/ Reschedule(w) \/ Caught(w)
    <3>1. worker[w].pc \in Executing
      BY <2>1 DEF Load, GiveUp, Post, RecordSuccess, Reschedule, Caught, Executing
    <3>2. PICK p : WorkerGoto(w, p) /\ p \in Executing \cup {IF w \in Events THEN "done" ELSE "next"}
      BY <2>1 DEF Load, GiveUp, Post, RecordSuccess, Reschedule, Caught, Executing, Return
    <3> QED BY <3>1, <3>2 DEF WorkerGoto
  <2>2. CASE Uncaught(w)
    <3> DEFINE q == IF w \in Events THEN "done" ELSE "idle"
    <3>1. worker' = [worker EXCEPT ![w].pc = q] /\ q \notin Executing
      BY <2>2 DEF Uncaught, WorkerGoto, Executing
    <3> QED BY <3>1
  <2> QED BY <2>1, <2>2 DEF Runs
<1>2. /\ \A v \in Workers : v # w => worker'[v] = worker[v]
      /\ worker'[w].log = worker[w].log /\ worker'[w].pc = p
  BY <1>0, <1>1 DEF WorkerState
<1>3. worker[w].pc \notin {"idle", "done"}
  BY DEF Runs, Load, GiveUp, Post, RecordSuccess, Reschedule, Caught, Uncaught
<1>4. /\ \A c \in Crons : batch'[c] \subseteq batch[c]
      /\ w \in Crons /\ worker'[w].pc = "idle" => batch'[w] = {}
  <2>1. CASE Uncaught(w)
    BY <1>0, <2>1 DEF Uncaught
  <2>2. CASE batch' = batch /\ ~Uncaught(w)
    <3>1. p # "idle" \/ w \notin Crons
      <4>1. worker' = [worker EXCEPT ![w].pc = "idle"] => worker'[w].pc = "idle"
        BY <1>0 DEF WorkerState
      <4>2. PICK q : WorkerGoto(w, q) /\ q \in Executing \cup {IF w \in Events THEN "done" ELSE "next"}
        BY <2>2 DEF Runs, Load, GiveUp, Post, RecordSuccess, Reschedule, Caught, Executing, Return
      <4>3. worker'[w].pc = q
        BY <1>0, <4>2 DEF WorkerGoto, WorkerState
      <4> QED BY <1>2, <4>2, <4>3 DEF Executing
    <3> QED BY <1>2, <2>2, <3>1
  <2> QED BY <2>1, <2>2 DEF Runs, Load, GiveUp, Post, RecordSuccess, Reschedule, Caught
<1>5. ticksOverlapped' = ticksOverlapped
  BY DEF Runs, Load, GiveUp, Post, RecordSuccess, Reschedule, Caught, Uncaught, Error, trouble
<1>6. \/ logStatus' = logStatus /\ posts' = posts
      \/ worker[w].pc \in Executing
  BY DEF Runs, Load, GiveUp, Post, RecordSuccess, Reschedule, Caught, Uncaught, logVars, Executing
<1>7. \A e \in Events : e # worker[w].log => logStatus'[e] = logStatus[e] /\ posts'[e] = posts[e]
  BY <1>0 DEF Runs, Load, GiveUp, Post, RecordSuccess, Reschedule, Caught, Uncaught, logVars
<1>8. ASSUME NEW e \in Events, logStatus'[e] = "SUCCESS", logStatus[e] # "SUCCESS"
      PROVE  worker'[w].pc \notin Executing
  <2>1. RecordSuccess(w)
    BY <1>0, <1>8 DEF Runs, Load, GiveUp, Post, RecordSuccess, Reschedule, Caught, Uncaught, logVars
  <2>2. worker'[w].pc \in {"done", "next"}
    BY <1>0, <2>1 DEF RecordSuccess, Return, WorkerGoto, WorkerState
  <2> QED BY <2>2 DEF Executing
<1> QED BY <1>1, <1>2, <1>3, <1>4, <1>5, <1>6, <1>7, <1>8

\* A step that neither takes up a log nor puts one into a batch.
LEMMA HeldShrinks ==
  ASSUME \A v \in Workers : worker'[v].pc \in Executing =>
                              worker[v].pc \in Executing /\ worker'[v].log = worker[v].log,
         \A c \in Crons : batch'[c] \subseteq batch[c],
         NEW e \in Events
  PROVE  Held(e)' => Held(e)
BY DEF Held, Executing

LEMMA QuietStep == Typed /\ QuietInv /\ [WebhookNext]_webhookVars => QuietInv'
<1> SUFFICES ASSUME Typed, QuietInv, [WebhookNext]_webhookVars PROVE QuietInv'
  OBVIOUS
<1>0. /\ worker \in [Workers -> WorkerState] /\ batch \in [Crons -> SUBSET Events]
      /\ logStatus \in [Events -> Status]
      /\ Events \subseteq Workers /\ Crons \subseteq Workers
      /\ \A c \in Crons : c \notin Events
      /\ \A w \in Workers : w \in Events \/ w \in Crons
      /\ Placed /\ ticksOverlapped \in BOOLEAN
  BY DeliveryAssumption DEF Typed, WebhookTypeOK, Workers
<1>1. /\ \A e \in Events :
           worker[e].pc \in {"idle", "supersede", "create"} => logStatus[e] = "ABSENT"
      /\ \A c \in Crons :
           /\ worker[c].pc = "idle" => batch[c] = {}
           /\ worker[c].pc \in Executing => worker[c].log \notin batch[c]
  BY DEF QuietInv
<1>2. ASSUME ~ticksOverlapped
      PROVE  /\ \A c, d \in Crons : worker[c].pc # "idle" /\ worker[d].pc # "idle" => c = d
             /\ \A e \in Events : logStatus[e] = "SUCCESS" => ~Held(e)
  BY <1>2 DEF QuietInv
<1>3. ASSUME NEW e \in Events, Send(e) \/ Supersede(e) \/ Create(e) PROVE QuietInv'
  <2>1. PICK p \in {"supersede", "create", "load"} :
          /\ worker' = [worker EXCEPT ![e].pc = p]
          /\ p \in {"supersede", "create"} => ~Create(e)
    BY <1>3 DEF Send, Supersede, Create, WorkerGoto
  <2>2. /\ \A v \in Workers : v # e => worker'[v] = worker[v]
        /\ worker'[e].log = worker[e].log /\ worker'[e].pc = p
    BY <1>0, <2>1 DEF WorkerState
  <2>3. logStatus[e] = "ABSENT" /\ worker[e].pc \in {"idle", "supersede", "create"}
    BY <1>1, <1>3 DEF Send, Supersede, Create
  <2>4. batch' = batch /\ ticksOverlapped' = ticksOverlapped
    BY <1>3 DEF Send, Supersede, Create, trouble
  <2>5. \A f \in Events : /\ logStatus[f] = "ABSENT" /\ f # e => logStatus'[f] = "ABSENT"
                          /\ logStatus'[f] = "SUCCESS" => logStatus[f] = "SUCCESS" /\ f # e
                          /\ logStatus'[e] = "ABSENT" \/ Create(e)
    BY <1>0, <1>3, <2>3 DEF Send, Supersede, Create, Superseded, logVars
  <2>6. Create(e) => worker'[e].pc = "load"
    BY <1>0 DEF Create, WorkerGoto, WorkerState
  <2>7. ASSUME NEW f \in Events, f # e, Held(f)' PROVE Held(f)
    <3>1. CASE \E c \in Crons : f \in batch'[c]
      BY <2>4, <3>1 DEF Held
    <3>2. CASE \E v \in Workers : worker'[v].log = f /\ worker'[v].pc \in Executing
      <4>1. PICK v \in Workers : worker'[v].log = f /\ worker'[v].pc \in Executing
        BY <3>2
      <4>2. v # e
        BY <1>0, <2>2, <2>7, <4>1 DEF Placed
      <4> QED BY <2>2, <4>1, <4>2 DEF Held, Executing
    <3> QED BY <2>7, <3>1, <3>2 DEF Held, Executing
  <2>8. \A c \in Crons : worker'[c] = worker[c]
    BY <1>0, <2>2
  <2>9. \A f \in Events : worker'[f].pc \in {"idle", "supersede", "create"} => logStatus'[f] = "ABSENT"
    <3>1. ASSUME NEW f \in Events, worker'[f].pc \in {"idle", "supersede", "create"}
          PROVE  logStatus'[f] = "ABSENT"
      <4>1. CASE f = e
        BY <2>5, <2>6, <3>1, <4>1
      <4>2. CASE f # e
        BY <1>0, <1>1, <2>2, <2>5, <3>1, <4>2
      <4> QED BY <4>1, <4>2
    <3> QED BY <3>1
  <2>10. ASSUME ~ticksOverlapped'
         PROVE  /\ \A c, d \in Crons : worker'[c].pc # "idle" /\ worker'[d].pc # "idle" => c = d
                /\ \A f \in Events : logStatus'[f] = "SUCCESS" => ~Held(f)'
    BY <1>2, <2>4, <2>5, <2>7, <2>8, <2>10
  <2> QED BY <1>1, <2>4, <2>8, <2>9, <2>10 DEF QuietInv
<1>4. ASSUME NEW e \in Events, BecomeDue(e) PROVE QuietInv'
  BY <1>4 DEF QuietInv, BecomeDue, Held, trouble
<1>5. ASSUME NEW c \in Crons, CronStart(c) PROVE QuietInv'
  <2>1. /\ worker' = [worker EXCEPT ![c].pc = "next"] /\ batch' = [batch EXCEPT ![c] = Retryable]
        /\ worker[c].pc = "idle" /\ logStatus' = logStatus
        /\ ~ticksOverlapped' => ~ticksOverlapped /\ \A d \in Crons : worker[d].pc = "idle"
    BY <1>5 DEF CronStart, WorkerGoto, logVars
  <2>2. /\ \A v \in Workers : v # c => worker'[v] = worker[v]
        /\ worker'[c].pc = "next"
        /\ \A d \in Crons : d # c => batch'[d] = batch[d]
        /\ batch'[c] = Retryable
    BY <1>0, <2>1 DEF WorkerState
  <2>3. ASSUME ~ticksOverlapped'
        PROVE  /\ \A b, d \in Crons : worker'[b].pc # "idle" /\ worker'[d].pc # "idle" => b = d
               /\ \A f \in Events : logStatus'[f] = "SUCCESS" => ~Held(f)'
    <3>1. \A b, d \in Crons : worker'[b].pc # "idle" /\ worker'[d].pc # "idle" => b = d
      BY <1>0, <2>1, <2>2, <2>3
    <3>2. ASSUME NEW f \in Events, logStatus[f] = "SUCCESS" PROVE ~Held(f)'
      <4>1. ~Held(f)
        BY <1>2, <2>1, <2>3, <3>2
      <4>2. f \notin Retryable
        BY <3>2 DEF Retryable
      <4> QED BY <1>0, <2>2, <4>1, <4>2 DEF Held
    <3> QED BY <2>1, <3>1, <3>2
  <2>4. \A f \in Events : worker'[f] = worker[f]
    BY <1>0, <2>2
  <2>5. \A d \in Crons : /\ worker'[d].pc = "idle" => batch'[d] = {}
                         /\ worker'[d].pc \in Executing => worker'[d].log \notin batch'[d]
    BY <1>0, <1>1, <2>2 DEF Executing
  <2> QED BY <1>1, <2>1, <2>3, <2>4, <2>5 DEF QuietInv
<1>6. ASSUME NEW c \in Crons, CronNext(c) PROVE QuietInv'
  <2>1. PICK e \in batch[c] : /\ worker' = [worker EXCEPT ![c] = [pc |-> "load", log |-> e]]
                              /\ batch' = [batch EXCEPT ![c] = @ \ {e}]
    BY <1>6 DEF CronNext
  <2>2. /\ \A v \in Workers : v # c => worker'[v] = worker[v]
        /\ worker'[c].pc = "load" /\ worker'[c].log = e /\ worker[c].pc = "next"
        /\ \A d \in Crons : d # c => batch'[d] = batch[d]
        /\ batch'[c] = batch[c] \ {e}
        /\ logStatus' = logStatus /\ ticksOverlapped' = ticksOverlapped
    BY <1>0, <1>6, <2>1 DEF CronNext, logVars, trouble
  <2>3. ASSUME NEW f \in Events, Held(f)' PROVE Held(f)
    <3>1. CASE f = e
      BY <2>1, <3>1 DEF Held
    <3>2. CASE f # e
      BY <1>0, <2>2, <2>3, <3>2 DEF Held
    <3> QED BY <3>1, <3>2
  <2>4. \A f \in Events : worker'[f] = worker[f]
    BY <1>0, <2>2
  <2>5. \A d \in Crons : /\ worker'[d].pc = "idle" => batch'[d] = {}
                         /\ worker'[d].pc \in Executing => worker'[d].log \notin batch'[d]
    BY <1>0, <1>1, <2>2
  <2>6. \A d \in Crons : worker'[d].pc # "idle" <=> worker[d].pc # "idle"
    BY <1>0, <2>2
  <2> QED BY <1>1, <1>2, <2>2, <2>3, <2>4, <2>5, <2>6 DEF QuietInv
<1>7. ASSUME NEW c \in Crons, CronEnd(c) PROVE QuietInv'
  <2>1. worker' = [worker EXCEPT ![c].pc = "idle"]
    BY <1>7 DEF CronEnd, WorkerGoto
  <2>2. /\ \A v \in Workers : v # c => worker'[v] = worker[v]
        /\ worker'[c].pc = "idle" /\ worker[c].pc = "next" /\ batch[c] = {}
        /\ batch' = batch /\ logStatus' = logStatus /\ ticksOverlapped' = ticksOverlapped
    BY <1>0, <1>7, <2>1 DEF CronEnd, logVars, trouble, WorkerState
  <2>3. ASSUME NEW f \in Events, Held(f)' PROVE Held(f)
    BY <1>0, <2>2, <2>3 DEF Held
  <2>4. \A f \in Events : worker'[f] = worker[f]
    BY <1>0, <2>2
  <2>5. \A d \in Crons : /\ worker'[d].pc = "idle" => batch'[d] = {}
                         /\ worker'[d].pc \in Executing => worker'[d].log \notin batch'[d]
    BY <1>0, <1>1, <2>2 DEF Executing
  <2>6. \A d \in Crons : worker'[d].pc # "idle" => worker[d].pc # "idle"
    BY <1>0, <2>2
  <2> QED BY <1>1, <1>2, <2>2, <2>3, <2>4, <2>5, <2>6 DEF QuietInv
<1>8. ASSUME NEW w \in Workers, Runs(w) PROVE QuietInv'
  <2>1. /\ \A v \in Workers : v # w => worker'[v] = worker[v]
        /\ worker'[w].log = worker[w].log
        /\ worker'[w].pc \in Executing => worker[w].pc \in Executing
        /\ worker[w].pc \notin {"idle", "done"}
        /\ worker'[w].pc \in Executing \cup {IF w \in Events THEN "done" ELSE "next",
                                             IF w \in Events THEN "done" ELSE "idle"}
        /\ \A c \in Crons : batch'[c] \subseteq batch[c]
        /\ w \in Crons /\ worker'[w].pc = "idle" => batch'[w] = {}
        /\ ticksOverlapped' = ticksOverlapped
    BY <1>8, RunFacts
  <2>2. /\ \A e \in Events : e # worker[w].log => logStatus'[e] = logStatus[e]
        /\ logStatus' = logStatus \/ worker[w].pc \in Executing
        /\ \A e \in Events : logStatus'[e] = "SUCCESS" => \/ logStatus[e] = "SUCCESS"
                                                          \/ worker'[w].pc \notin Executing
    BY <1>8, RunFacts
  <2>3. \A v \in Workers : worker'[v].pc \in Executing =>
                             worker[v].pc \in Executing /\ worker'[v].log = worker[v].log
    BY <2>1
  <2>4. \A f \in Events : Held(f)' => Held(f)
    BY <2>1, <2>3, HeldShrinks
  <2>5. ASSUME NEW f \in Events, worker'[f].pc \in {"idle", "supersede", "create"}
        PROVE  logStatus'[f] = "ABSENT"
    <3>1. f # w
      BY <2>1, <2>5 DEF Executing
    <3>2. logStatus[f] = "ABSENT" /\ worker[f].pc \in {"idle", "supersede", "create"}
      BY <1>0, <1>1, <2>1, <2>5, <3>1
    <3>3. f = worker[w].log => worker[w].pc \notin Executing
      BY <1>0, <3>1, <3>2 DEF Placed
    <3> QED BY <2>2, <3>2, <3>3
  <2>6. \A d \in Crons : /\ worker'[d].pc = "idle" => batch'[d] = {}
                         /\ worker'[d].pc \in Executing => worker'[d].log \notin batch'[d]
    <3>1. ASSUME NEW d \in Crons, worker'[d].pc = "idle" PROVE batch'[d] = {}
      <4>1. CASE d = w
        BY <2>1, <3>1, <4>1
      <4>2. CASE d # w
        BY <1>0, <1>1, <2>1, <3>1, <4>2
      <4> QED BY <4>1, <4>2
    <3>2. ASSUME NEW d \in Crons, worker'[d].pc \in Executing PROVE worker'[d].log \notin batch'[d]
      BY <1>0, <1>1, <2>1, <2>3, <3>2
    <3> QED BY <3>1, <3>2
  <2>7. \A d \in Crons : worker'[d].pc # "idle" => worker[d].pc # "idle"
    BY <1>0, <2>1
  <2>8. ASSUME ~ticksOverlapped, NEW f \in Events, logStatus'[f] = "SUCCESS" PROVE ~Held(f)'
    <3>1. CASE logStatus[f] = "SUCCESS"
      BY <1>2, <2>4, <2>8, <3>1
    <3>2. CASE logStatus[f] # "SUCCESS"
      <4>1. f = worker[w].log /\ worker[w].pc \in Executing /\ worker'[w].pc \notin Executing
        BY <2>2, <2>8, <3>2
      <4>2. w \in Crons => worker[f].pc = "done"
        BY <1>0, <4>1 DEF Placed
      <4>3. w \in Events => w = f
        BY <1>0, <4>1 DEF Placed
      <4>4. ASSUME NEW v \in Workers, worker'[v].log = f, worker'[v].pc \in Executing PROVE FALSE
        <5>1. v # w /\ worker[v].log = f /\ worker[v].pc \in Executing
          BY <2>3, <4>1, <4>4
        <5>2. CASE v \in Events
          <6>1. v = f
            BY <1>0, <5>1, <5>2 DEF Placed
          <6> QED BY <1>0, <4>2, <4>3, <5>1, <6>1 DEF Executing
        <5>3. CASE v \in Crons
          <6>1. worker[f].pc = "done"
            BY <1>0, <5>1, <5>3 DEF Placed
          <6>2. w \in Crons
            BY <1>0, <4>1, <4>3, <6>1 DEF Executing
          <6> QED BY <1>2, <2>8, <4>1, <5>1, <5>3, <6>2 DEF Executing
        <5> QED BY <1>0, <5>2, <5>3
      <4>5. ASSUME NEW c \in Crons, f \in batch'[c] PROVE FALSE
        <5>1. f \in batch[c] /\ worker[f].pc = "done"
          BY <1>0, <2>1, <4>5 DEF Placed
        <5>2. w \in Crons
          BY <1>0, <4>1, <4>3, <5>1 DEF Executing
        <5>3. worker[c].pc # "idle" /\ worker[w].pc # "idle"
          BY <1>1, <4>1, <5>1 DEF Executing
        <5> QED BY <1>1, <1>2, <2>8, <4>1, <5>1, <5>2, <5>3
      <4> QED BY <4>4, <4>5 DEF Held, Executing
    <3> QED BY <3>1, <3>2
  <2> QED BY <1>2, <2>1, <2>5, <2>6, <2>7, <2>8 DEF QuietInv
<1>9. CASE UNCHANGED webhookVars
  BY <1>9 DEF QuietInv, Held, webhookVars, logVars, trouble
<1> QED BY <1>3, <1>4, <1>5, <1>6, <1>7, <1>8, <1>9, Steps DEF Runs

LEMMA QuietStarts == WebhookInit => QuietInv
<1> SUFFICES ASSUME WebhookInit PROVE QuietInv
  OBVIOUS
<1>1. /\ \A w \in Workers : worker[w].pc = "idle"
      /\ \A c \in Crons : c \in Workers /\ batch[c] = {}
      /\ \A e \in Events : e \in Workers /\ logStatus[e] = "ABSENT"
  BY DEF WebhookInit, Workers
<1> QED BY <1>1 DEF QuietInv, Held, Executing

\* A log that sendWebhook has superseded, or that executeWebhook gave up, stays
\* FAILED and is not taken up, unless an activation got hold of it before; and
\* a webhook that the merchant has accepted stays delivered and is not posted
\* again while ticks of retryFailedWebhooks do not overlap, whatever fails.
THEOREM SettledStaysQuietAlways == WebhookSpec => SettledStaysQuiet
<1>1. Typed /\ QuietInv /\ [WebhookNext]_webhookVars =>
        [\A e \in Events : logStatus[e] = "FAILED" /\ ~Held(e) =>
                             logStatus'[e] = "FAILED" /\ ~Held(e)']_webhookVars
  <2> SUFFICES ASSUME Typed, QuietInv, WebhookNext, NEW e \in Events,
                      logStatus[e] = "FAILED", ~Held(e)
               PROVE  logStatus'[e] = "FAILED" /\ ~Held(e)'
    OBVIOUS
  <2>0. /\ worker \in [Workers -> WorkerState] /\ batch \in [Crons -> SUBSET Events]
        /\ logStatus \in [Events -> Status]
        /\ Events \subseteq Workers /\ Crons \subseteq Workers
        /\ \A c \in Crons : c \notin Events
        /\ Placed
        /\ worker[e].pc \notin {"idle", "supersede", "create"}
    BY DeliveryAssumption DEF Typed, WebhookTypeOK, Workers, QuietInv
  <2>1. ASSUME NEW f \in Events, Send(f) \/ Supersede(f) \/ Create(f)
        PROVE  logStatus'[e] = "FAILED" /\ ~Held(e)'
    <3>1. f # e
      BY <2>0, <2>1 DEF Send, Supersede, Create
    <3>2. logStatus'[e] = "FAILED"
      BY <2>0, <2>1, <3>1 DEF Send, Supersede, Create, Superseded, logVars
    <3>3. PICK p : worker' = [worker EXCEPT ![f].pc = p]
      BY <2>1 DEF Send, Supersede, Create, WorkerGoto
    <3>4. /\ \A v \in Workers : v # f => worker'[v] = worker[v]
          /\ worker'[f].log = f /\ batch' = batch
      BY <2>0, <2>1, <3>3 DEF Send, Supersede, Create, WorkerState, Placed
    <3> QED BY <2>0, <3>1, <3>2, <3>4 DEF Held
  <2>2. ASSUME NEW f \in Events, BecomeDue(f) PROVE logStatus'[e] = "FAILED" /\ ~Held(e)'
    BY <2>2 DEF BecomeDue, Held
  <2>3. ASSUME NEW c \in Crons, CronStart(c) PROVE logStatus'[e] = "FAILED" /\ ~Held(e)'
    <3>1. /\ worker' = [worker EXCEPT ![c].pc = "next"] /\ batch' = [batch EXCEPT ![c] = Retryable]
          /\ logStatus' = logStatus /\ e \notin Retryable
      BY <2>3 DEF CronStart, WorkerGoto, logVars, Retryable
    <3>2. /\ \A v \in Workers : v # c => worker'[v] = worker[v]
          /\ worker'[c].pc = "next"
          /\ \A d \in Crons : d # c => batch'[d] = batch[d]
          /\ batch'[c] = Retryable
      BY <2>0, <3>1 DEF WorkerState
    <3> QED BY <2>0, <3>1, <3>2 DEF Held
  <2>4. ASSUME NEW c \in Crons, CronNext(c) PROVE logStatus'[e] = "FAILED" /\ ~Held(e)'
    <3>1. PICK f \in batch[c] : /\ worker' = [worker EXCEPT ![c] = [pc |-> "load", log |-> f]]
                                /\ batch' = [batch EXCEPT ![c] = @ \ {f}]
      BY <2>4 DEF CronNext
    <3>2. /\ \A v \in Workers : v # c => worker'[v] = worker[v]
          /\ worker'[c].log = f /\ f # e
          /\ \A d \in Crons : batch'[d] \subseteq batch[d]
          /\ logStatus' = logStatus
      BY <2>0, <2>4, <3>1 DEF CronNext, logVars, Held
    <3> QED BY <2>0, <3>2 DEF Held
  <2>5. ASSUME NEW c \in Crons, CronEnd(c) PROVE logStatus'[e] = "FAILED" /\ ~Held(e)'
    <3>1. /\ worker' = [worker EXCEPT ![c].pc = "idle"] /\ batch' = batch /\ logStatus' = logStatus
      BY <2>5 DEF CronEnd, WorkerGoto, logVars
    <3>2. /\ \A v \in Workers : v # c => worker'[v] = worker[v]
          /\ worker'[c].pc = "idle"
      BY <2>0, <3>1 DEF WorkerState
    <3> QED BY <2>0, <3>1, <3>2 DEF Held
  <2>6. ASSUME NEW w \in Workers, Runs(w) PROVE logStatus'[e] = "FAILED" /\ ~Held(e)'
    <3>1. /\ \A v \in Workers : v # w => worker'[v] = worker[v]
          /\ worker'[w].log = worker[w].log
          /\ worker'[w].pc \in Executing => worker[w].pc \in Executing
          /\ \A c \in Crons : batch'[c] \subseteq batch[c]
          /\ e # worker[w].log => logStatus'[e] = logStatus[e]
          /\ logStatus' = logStatus \/ worker[w].pc \in Executing
      BY <2>6, RunFacts
    <3>2. ~Held(e)'
      BY <3>1, HeldShrinks
    <3>3. e # worker[w].log \/ worker[w].pc \notin Executing
      BY DEF Held, Executing
    <3> QED BY <3>1, <3>2, <3>3
  <2>7. UNCHANGED webhookVars => logStatus'[e] = "FAILED" /\ ~Held(e)'
    BY DEF webhookVars, logVars, Held
  <2> QED BY <2>1, <2>2, <2>3, <2>4, <2>5, <2>6, <2>7, Steps DEF Runs
<1>2. Typed /\ QuietInv /\ [WebhookNext]_webhookVars =>
        [\A e \in Events : logStatus[e] = "SUCCESS" /\ ~ticksOverlapped =>
                             logStatus'[e] = "SUCCESS" /\ posts'[e] = posts[e]]_webhookVars
  <2> SUFFICES ASSUME Typed, QuietInv, WebhookNext, NEW e \in Events,
                      logStatus[e] = "SUCCESS", ~ticksOverlapped
               PROVE  logStatus'[e] = "SUCCESS" /\ posts'[e] = posts[e]
    OBVIOUS
  <2>1. ~Held(e) /\ worker[e].pc \notin {"idle", "supersede", "create"}
    BY DEF QuietInv
  <2>2. logStatus \in [Events -> Status] /\ posts \in [Events -> Nat]
    BY DEF Typed, WebhookTypeOK
  <2>3. ASSUME NEW f \in Events, Send(f) \/ Supersede(f) \/ Create(f) \/ BecomeDue(f)
        PROVE  logStatus'[e] = "SUCCESS" /\ posts'[e] = posts[e]
    BY <2>1, <2>2, <2>3 DEF Send, Supersede, Create, BecomeDue, Superseded, logVars
  <2>4. ASSUME NEW c \in Crons, CronStart(c) \/ CronNext(c) \/ CronEnd(c)
        PROVE  logStatus'[e] = "SUCCESS" /\ posts'[e] = posts[e]
    BY <2>4 DEF CronStart, CronNext, CronEnd, logVars
  <2>5. ASSUME NEW w \in Workers, Runs(w) PROVE logStatus'[e] = "SUCCESS" /\ posts'[e] = posts[e]
    <3>1. e # worker[w].log \/ worker[w].pc \notin Executing
      BY <2>1 DEF Held, Executing
    <3> QED BY <2>5, <3>1, RunFacts
  <2>6. UNCHANGED webhookVars => logStatus'[e] = "SUCCESS" /\ posts'[e] = posts[e]
    BY DEF webhookVars, logVars
  <2> QED BY <2>3, <2>4, <2>5, <2>6, Steps DEF Runs
<1>3. WebhookSpec => [](Typed /\ QuietInv)
  <2>1. Typed /\ QuietInv /\ [WebhookNext]_webhookVars => QuietInv'
    BY QuietStep
  <2> QED BY <2>1, TypedInv, QuietStarts, PTL DEF WebhookSpec
<1> QED BY <1>1, <1>2, <1>3, PTL DEF WebhookSpec, SettledStaysQuiet, SupersededStaysQuiet, DeliveredOnce

-----------------------------------------------------------------------------
(* Reports: the charts and the tables tell the same story.                 *)

LEMMA HasFirst ==
  ASSUME NEW S \in SUBSET Nat, S # {}
  PROVE  \E x \in S : \A y \in S : x <= y
<1>1. PICK x \in S : \A y \in S : ~(<<y, x>> \in OpToRel(<, Nat))
  BY NatLessThanWellFounded, WFMin
<1>2. \A y \in S : ~(y < x)
  BY <1>1 DEF OpToRel
<1> QED BY <1>2

LEMMA HasLast ==
  ASSUME NEW n \in Nat, NEW S \in SUBSET (0..n), S # {}
  PROVE  \E x \in S : \A y \in S : x >= y
<1> DEFINE R == {n - x : x \in S}
<1>1. R \in SUBSET Nat /\ R # {}
  <2>1. \A x \in S : n - x \in Nat
    <3>1. \A x \in S : x \in 0..n
      OBVIOUS
    <3>2. \A x \in 0..n : n - x \in Nat
      OBVIOUS
    <3> QED BY <3>1, <3>2
  <2> QED BY <2>1
<1>2. PICK r \in R : \A y \in R : r <= y
  <2> HIDE DEF R
  <2> QED BY <1>1, HasFirst
<1>3. PICK x \in S : r = n - x
  OBVIOUS
<1>4. ASSUME NEW y \in S PROVE x >= y
  <2>1. n - y \in R
    OBVIOUS
  <2>2. n - x <= n - y
    BY <1>2, <1>3, <2>1
  <2>3. x \in 0..n /\ y \in 0..n
    OBVIOUS
  <2> QED BY <2>2, <2>3
<1> QED BY <1>4

\* Documents do not come from the future.
ReportsInv == ReportsTypeOK /\ \A d \in ReportDocs : created[d] <= now

LEMMA ReportsInOrder == ReportsSpec => []ReportsInv
<1>1. ReportsInit => ReportsInv
  BY ReportsAssumption DEF ReportsInit, ReportsInv, ReportsTypeOK, Times
<1>2. ReportsInv /\ [ReportsNext]_reportVars => ReportsInv'
  <2> SUFFICES ASSUME ReportsInv, [ReportsNext]_reportVars PROVE ReportsInv'
    OBVIOUS
  <2> USE ReportsAssumption DEF ReportsInv, ReportsTypeOK, Times
  <2>1. CASE TimePasses
    BY <2>1 DEF TimePasses
  <2>2. ASSUME NEW d \in ReportDocs, CreateDoc(d) PROVE ReportsInv'
    BY <2>2 DEF CreateDoc
  <2>3. ASSUME NEW d \in ReportDocs, SettleLink(d) PROVE ReportsInv'
    BY <2>3 DEF SettleLink, ReportDocs
  <2>4. CASE UNCHANGED reportVars
    BY <2>4 DEF reportVars
  <2> QED BY <2>1, <2>2, <2>3, <2>4 DEF ReportsNext
<1> QED BY <1>1, <1>2, PTL DEF ReportsSpec

\* The sum over all slots of a chart.
LEMMA TotalIsSum ==
  ASSUME NEW chart PROVE Total(chart) = SumOver(chart, DOMAIN chart)
BY DEF Total, SumOver

\* What a chart shows: one sum per slot, of the documents that fall into it.
LEMMA ChartIsByKey ==
  ASSUME NEW docs, NEW period, NEW quarter, NEW value
  PROVE  Chart(docs, period, quarter, value)
           = [s \in Slots(period) |->
                SumOver(value, {d \in docs :
                  [e \in docs |-> SlotOf(period, created[e], quarter)][d] = s})]
<1>1. \A s : {d \in docs : [e \in docs |-> SlotOf(period, created[e], quarter)][d] = s}
               = {d \in docs : SlotOf(period, created[d], quarter) = s}
  OBVIOUS
<1> QED BY <1>1 DEF Chart, SumOver

\* A chart of documents that all have a slot adds up to their sum.
LEMMA ChartTotal ==
  ASSUME NEW docs, NEW period, NEW quarter, NEW value, Summable(value, docs),
         \A d \in docs : SlotOf(period, created[d], quarter) \in Slots(period)
  PROVE  Total(Chart(docs, period, quarter, value)) = SumOver(value, docs)
<1> DEFINE key == [e \in docs |-> SlotOf(period, created[e], quarter)]
           chart == [s \in Slots(period) |-> SumOver(value, {d \in docs : key[d] = s})]
<1>1. IsFiniteSet(Slots(period))
  <2>1. 1 \in Int /\ 4 \in Int /\ 12 \in Int
    OBVIOUS
  <2>2. IsFiniteSet(1..12) /\ IsFiniteSet(1..4)
    BY <2>1, FS_Interval
  <2> QED BY <2>2 DEF Slots
<1>2. Chart(docs, period, quarter, value) = chart
  BY ChartIsByKey
<1>3. {d \in docs : key[d] \in Slots(period)} = docs
  OBVIOUS
<1>4. DOMAIN chart = Slots(period)
  OBVIOUS
<1>5. SumOver(chart, Slots(period)) = SumOver(value, {d \in docs : key[d] \in Slots(period)})
  <2> HIDE DEF key
  <2> QED BY <1>1, SumByKey
<1> HIDE DEF chart, key
<1> QED BY <1>2, <1>3, <1>4, <1>5, TotalIsSum

QuarterTables == {QuarterSwitch, QuarterCeil}

\* The two tables of the quarters are the same, and true.
LEMMA Quarters ==
  ASSUME NEW quarter \in QuarterTables, NEW m \in 1..12
  PROVE  /\ quarter[m] \in 1..4
         /\ \A q \in 1..4 : quarter[m] = q <=> m \in {3 * q - 2, 3 * q - 1, 3 * q}
<1>1. CASE quarter = QuarterSwitch
  <2>1. quarter[m] = CASE m \in 1..3 -> 1 [] m \in 4..6 -> 2 [] m \in 7..9 -> 3 [] OTHER -> 4
    BY <1>1 DEF QuarterSwitch
  <2>2. CASE m \in 1..3
    <3>1. m \in 1..3 /\ m \notin 4..6 /\ m \notin 7..9
      BY <2>2
    <3>2. quarter[m] = 1
      BY <2>1, <3>1
    <3> QED BY <2>2, <3>2
  <2>3. CASE m \in 4..6
    <3>1. m \notin 1..3 /\ m \in 4..6 /\ m \notin 7..9
      BY <2>3
    <3>2. quarter[m] = 2
      BY <2>1, <3>1
    <3> QED BY <2>3, <3>2
  <2>4. CASE m \in 7..9
    <3>1. m \notin 1..3 /\ m \notin 4..6 /\ m \in 7..9
      BY <2>4
    <3>2. quarter[m] = 3
      BY <2>1, <3>1
    <3> QED BY <2>4, <3>2
  <2>5. CASE m \in 10..12
    <3>1. m \notin 1..3 /\ m \notin 4..6 /\ m \notin 7..9
      BY <2>5
    <3>2. quarter[m] = 4
      BY <2>1, <3>1
    <3> QED BY <2>5, <3>2
  <2> QED BY <2>2, <2>3, <2>4, <2>5
<1>2. CASE quarter = QuarterCeil
  <2>1. quarter[m] = (m + 2) \div 3
    BY <1>2 DEF QuarterCeil
  <2> QED BY <2>1
<1> QED BY <1>1, <1>2 DEF QuarterTables

LEMMA MonthRange == ASSUME NEW t \in Times PROVE MonthOf(MonthIx[t]) \in 1..12
<1>1. MonthIx[t] \in Nat
  BY ReportsAssumption
<1> QED BY <1>1 DEF MonthOf

\* A quarter is the sum of its months.
LEMMA QuarterIsThreeMonths ==
  ASSUME NEW docs, NEW quarter \in QuarterTables, NEW value, Summable(value, docs),
         \A d \in docs : created[d] \in Times, NEW q \in 1..4
  PROVE  LET month == Chart(docs, "MONTHLY", quarter, value)
         IN  Chart(docs, "QUARTERLY", quarter, value)[q]
               = month[3 * q - 2] + month[3 * q - 1] + month[3 * q]
<1> DEFINE m(d) == MonthOf(MonthIx[created[d]])
           InMonths(S) == {d \in docs : m(d) \in S}
           month == Chart(docs, "MONTHLY", quarter, value)
           a == 3 * q - 2
           b == 3 * q - 1
           c == 3 * q
<1>1. a \in 1..12 /\ b \in 1..12 /\ c \in 1..12 /\ a # b /\ b # c /\ a # c
  OBVIOUS
<1>2. \A i \in 1..12 : month[i] = SumOver(value, InMonths({i}))
  <2> SUFFICES ASSUME NEW i \in 1..12 PROVE month[i] = SumOver(value, InMonths({i}))
    OBVIOUS
  <2>1. {d \in docs : SlotOf("MONTHLY", created[d], quarter) = i} = InMonths({i})
    BY DEF SlotOf
  <2> QED BY <2>1 DEF Chart, SumOver, Slots
<1>3. Chart(docs, "QUARTERLY", quarter, value)[q] = SumOver(value, InMonths({a, b, c}))
  <2>1. {d \in docs : SlotOf("QUARTERLY", created[d], quarter) = q} = InMonths({a, b, c})
    <3>1. ASSUME NEW d \in docs PROVE quarter[m(d)] = q <=> m(d) \in {a, b, c}
      <4>1. m(d) \in 1..12
        BY MonthRange
      <4> HIDE DEF m
      <4> QED BY <4>1, Quarters
    <3>2. \A d \in docs : SlotOf("QUARTERLY", created[d], quarter) = quarter[m(d)]
      BY DEF SlotOf
    <3> HIDE DEF m, a, b, c
    <3> QED BY <3>1, <3>2
  <2> QED BY <2>1 DEF Chart, SumOver, Slots
<1>4. \A S : Summable(value, InMonths(S)) /\ SumOver(value, InMonths(S)) \in Int
  <2>1. \A S : InMonths(S) \in SUBSET docs
    OBVIOUS
  <2> HIDE DEF InMonths
  <2> QED BY <2>1, SummableSubset, SumType
<1>5. ASSUME NEW S, NEW i, i \notin S
      PROVE  SumOver(value, InMonths(S \cup {i})) = SumOver(value, InMonths(S)) + SumOver(value, InMonths({i}))
  <2>1. InMonths(S \cup {i}) = InMonths(S) \cup InMonths({i}) /\ InMonths(S) \cap InMonths({i}) = {}
    BY <1>5
  <2>2. Summable(value, InMonths(S) \cup InMonths({i}))
    <3> HIDE DEF InMonths
    <3> QED BY <1>4, <2>1
  <2> HIDE DEF InMonths
  <2>3. SumOver(value, InMonths(S) \cup InMonths({i}))
          = SumOver(value, InMonths(S)) + SumOver(value, InMonths({i}))
    BY <2>1, <2>2, SumUnion
  <2> QED BY <2>1, <2>3
<1> HIDE DEF InMonths, a, b, c, month
<1>6. {a, b} = {a} \cup {b} /\ {a, b, c} = {a, b} \cup {c}
  OBVIOUS
<1>7. SumOver(value, InMonths({a, b})) = SumOver(value, InMonths({a})) + SumOver(value, InMonths({b}))
  <2>1. b \notin {a}
    BY <1>1
  <2> QED BY <1>5, <1>6, <2>1
<1>8. SumOver(value, InMonths({a, b, c})) = SumOver(value, InMonths({a, b})) + SumOver(value, InMonths({c}))
  <2>1. c \notin {a, b}
    BY <1>1
  <2> QED BY <1>5, <1>6, <2>1
<1>9. Chart(docs, "QUARTERLY", quarter, value)[q] = month[a] + month[b] + month[c]
  BY <1>1, <1>2, <1>3, <1>7, <1>8
<1> QED BY <1>9 DEF a, b, c, month

LEMMA YearIsMonotone ==
  ASSUME NEW i \in Nat, NEW j \in Nat, i <= j
  PROVE  YearOf(i) \in Nat /\ YearOf(i) <= YearOf(j)
BY DEF YearOf

LEMMA NextMonthsYear ==
  ASSUME NEW i \in Nat
  PROVE  YearOf(i + 1) <= YearOf(i) + 1
BY DEF YearOf

\* A document is not from a later year, nor is UTC a year behind.
LEMMA DocumentsInTime ==
  ASSUME ReportsInv, NEW d \in settled
  PROVE  LET t == created[d] IN
         /\ d \in ReportDocs /\ t \in Times /\ now \in Times /\ t <= now
         /\ MonthIx[t] \in Nat /\ LocalMonthIx[t] \in Nat /\ LocalMonthIx[now] \in Nat
         /\ MonthIx[t] <= LocalMonthIx[t] /\ LocalMonthIx[t] <= LocalMonthIx[now]
         /\ YearOf(MonthIx[t]) \in Nat /\ YearOf(LocalMonthIx[t]) \in Nat /\ ThisYear \in Nat
         /\ YearOf(MonthIx[t]) <= YearOf(LocalMonthIx[t])
         /\ YearOf(LocalMonthIx[t]) <= ThisYear
         /\ YearOf(LocalMonthIx[t]) <= YearOf(MonthIx[t]) + 1
<1> DEFINE t == created[d]
<1>1. d \in ReportDocs /\ t \in Times /\ now \in Times /\ t <= now
  BY DEF ReportsInv, ReportsTypeOK, Times
<1>2. /\ MonthIx[t] \in Nat /\ LocalMonthIx[t] \in Nat
      /\ MonthIx[now] \in Nat /\ LocalMonthIx[now] \in Nat
  BY <1>1, ReportsAssumption
<1>3. LocalMonthIx[t] <= LocalMonthIx[now]
  BY <1>1, Calendar
<1>4. LocalMonthIx[t] \in MonthIx[t]..(MonthIx[t] + 1)
  BY <1>1, Calendar
<1> HIDE DEF t
<1>5. MonthIx[t] <= LocalMonthIx[t] /\ LocalMonthIx[t] <= MonthIx[t] + 1 /\ MonthIx[t] + 1 \in Nat
  BY <1>2, <1>4
<1>6. /\ YearOf(MonthIx[t]) \in Nat /\ YearOf(LocalMonthIx[t]) \in Nat /\ ThisYear \in Nat
      /\ YearOf(MonthIx[t]) <= YearOf(LocalMonthIx[t])
      /\ YearOf(LocalMonthIx[t]) <= ThisYear
  BY <1>2, <1>3, <1>5, YearIsMonotone DEF ThisYear
<1>7. YearOf(LocalMonthIx[t]) <= YearOf(MonthIx[t]) + 1
  <2>1. YearOf(LocalMonthIx[t]) <= YearOf(MonthIx[t] + 1) /\ YearOf(MonthIx[t] + 1) \in Nat
    BY <1>2, <1>5, YearIsMonotone
  <2>2. YearOf(MonthIx[t] + 1) <= YearOf(MonthIx[t]) + 1
    BY <1>2, NextMonthsYear
  <2> QED BY <1>6, <2>1, <2>2
<1> QED BY <1>1, <1>2, <1>3, <1>5, <1>6, <1>7 DEF t

\* Documents that a chart has a slot for, whatever its period.
Recent(docs) == \A d \in docs : YearOf(MonthIx[created[d]]) \in (ThisYear - 3)..ThisYear

LEMMA ThisYearIsRecent ==
  ASSUME ReportsInv, NEW docs \in SUBSET settled
  PROVE  Recent(SinceNewYear(docs)) /\ Recent(WithinYear(docs, ThisYear))
<1>1. ASSUME NEW d \in SinceNewYear(docs)
      PROVE  YearOf(MonthIx[created[d]]) \in (ThisYear - 3)..ThisYear
  <2> DEFINE utc == YearOf(MonthIx[created[d]])
             local == YearOf(LocalMonthIx[created[d]])
  <2>1. d \in settled /\ local >= ThisYear
    BY DEF SinceNewYear
  <2>2. /\ utc \in Nat /\ local \in Nat /\ ThisYear \in Nat
        /\ utc <= local /\ local <= ThisYear /\ local <= utc + 1
    BY <2>1, DocumentsInTime
  <2> HIDE DEF utc, local
  <2>3. utc \in (ThisYear - 3)..ThisYear
    BY <2>1, <2>2
  <2> QED BY <2>3 DEF utc
<1>2. ASSUME NEW d \in WithinYear(docs, ThisYear)
      PROVE  YearOf(MonthIx[created[d]]) \in (ThisYear - 3)..ThisYear
  <2>1. d \in settled /\ YearOf(MonthIx[created[d]]) = ThisYear
    BY DEF WithinYear
  <2>2. ThisYear \in Nat
    BY <2>1, DocumentsInTime
  <2>3. ThisYear \in (ThisYear - 3)..ThisYear
    BY <2>2
  <2> QED BY <2>1, <2>3
<1> QED BY <1>1, <1>2 DEF Recent

\* The years of a chart add up to its months, and a quarter is its three months.
LEMMA ChartAgrees ==
  ASSUME ReportsInv, NEW docs \in SUBSET settled, Recent(docs),
         NEW quarter \in QuarterTables, NEW value, Summable(value, docs),
         NEW chart, \A p \in Periods : chart[p] = Chart(docs, p, quarter, value)
  PROVE  Agree(chart)
<1>1. \A d \in docs : created[d] \in Times
  BY DocumentsInTime
<1>2. /\ chart["MONTHLY"] = Chart(docs, "MONTHLY", quarter, value)
      /\ chart["QUARTERLY"] = Chart(docs, "QUARTERLY", quarter, value)
      /\ chart["ANNUALLY"] = Chart(docs, "ANNUALLY", quarter, value)
  BY DEF Periods
<1>3. \A d \in docs : SlotOf("MONTHLY", created[d], quarter) \in Slots("MONTHLY")
  BY <1>1, MonthRange DEF SlotOf, Slots
<1>4. ASSUME NEW d \in docs PROVE SlotOf("ANNUALLY", created[d], quarter) \in Slots("ANNUALLY")
  <2> DEFINE utc == YearOf(MonthIx[created[d]])
             back == ThisYear - utc
  <2>1. utc \in Nat /\ ThisYear \in Nat
    BY DocumentsInTime
  <2>2. utc \in (ThisYear - 3)..ThisYear
    BY DEF Recent
  <2>3. SlotOf("ANNUALLY", created[d], quarter) = IF back \in 0..3 THEN back + 1 ELSE 0
    BY DEF SlotOf
  <2> HIDE DEF utc
  <2>4. back \in 0..3 /\ back + 1 \in 1..4
    BY <2>1, <2>2
  <2>5. SlotOf("ANNUALLY", created[d], quarter) = back + 1
    BY <2>3, <2>4
  <2>6. Slots("ANNUALLY") = 1..4
    BY DEF Slots
  <2> QED BY <2>4, <2>5, <2>6
<1>5. Total(chart["ANNUALLY"]) = Total(chart["MONTHLY"])
  <2>1. Total(chart["ANNUALLY"]) = SumOver(value, docs)
    BY <1>2, <1>4, ChartTotal
  <2>2. Total(chart["MONTHLY"]) = SumOver(value, docs)
    BY <1>2, <1>3, ChartTotal
  <2> QED BY <2>1, <2>2
<1>6. ASSUME NEW q \in 1..4
      PROVE  chart["QUARTERLY"][q] = chart["MONTHLY"][3 * q - 2]
                         + chart["MONTHLY"][3 * q - 1] + chart["MONTHLY"][3 * q]
  BY <1>1, <1>2, QuarterIsThreeMonths
<1> QED BY <1>5, <1>6 DEF Agree

\* What the reports add up.
Values == {FeeOf, AmountOf, One, WorthOf}

LEMMA ValuesAreSummable ==
  ASSUME ReportsInv, NEW docs \in SUBSET settled, NEW value \in Values
  PROVE  Summable(value, docs) /\ \A d \in docs : value[d] \in Nat
<1>1. settled \in SUBSET ReportDocs
  BY DEF ReportsInv, ReportsTypeOK
<1>2. IsFiniteSet(docs)
  <2>1. IsFiniteSet(ReportDocs)
    BY ReportsAssumption, FS_Union DEF ReportDocs
  <2> QED BY <1>1, <2>1, FS_Subset
<1>3. ASSUME NEW d \in docs PROVE value[d] \in Nat
  <2>1. d \in ReportDocs
    BY <1>1
  <2>2. FeeOf[d] \in Nat /\ AmountOf[d] \in Nat /\ One[d] \in Nat
    BY <2>1, ReportsAssumption DEF One
  <2>3. WorthOf[d] \in Nat
    <3>1. Price[SymbolOf[d]] \in Nat
      BY <2>1, ReportsAssumption
    <3>2. WorthOf[d] = AmountOf[d] * Price[SymbolOf[d]]
      BY <2>1 DEF WorthOf
    <3>3. \A m, n \in Nat : m * n \in Nat
      OBVIOUS
    <3> QED BY <2>2, <3>1, <3>2, <3>3
  <2> QED BY <2>2, <2>3 DEF Values
<1> QED BY <1>2, <1>3 DEF Summable

LEMMA RecentSubset ==
  ASSUME NEW S, Recent(S), NEW T \in SUBSET S
  PROVE  Recent(T)
BY DEF Recent

LEMMA ChartsAlwaysAgree == ASSUME ReportsInv PROVE ChartsAgree
<1> DEFINE Types == {"DEPOSIT", "PAYMENT_LINKS", "WITHDRAW"}
<1>0. \A docs \in SUBSET settled : \A s : In(docs, s) \in SUBSET settled
  BY DEF In
<1>1. \A ts : RowsOf(ts) \in SUBSET settled
  BY DEF RowsOf
<1>2. SettledLinks \in SUBSET settled
  BY DEF SettledLinks
<1>3. QuarterSwitch \in QuarterTables /\ QuarterCeil \in QuarterTables
  BY DEF QuarterTables
<1>4. FeeOf \in Values /\ AmountOf \in Values /\ One \in Values
  BY DEF Values
<1>5. ASSUME NEW docs \in SUBSET settled, NEW quarter \in QuarterTables, NEW value \in Values,
             NEW chart, \A p \in Periods : chart[p] = Chart(SinceNewYear(docs), p, quarter, value)
      PROVE  Agree(chart)
  <2>1. SinceNewYear(docs) \in SUBSET settled
    BY DEF SinceNewYear
  <2>2. Recent(SinceNewYear(docs))
    BY ThisYearIsRecent
  <2> QED BY <1>5, <2>1, <2>2, ValuesAreSummable, ChartAgrees
<1>6. ASSUME NEW s PROVE Agree([p \in Periods |-> Revenue(p, s).paymentLinks])
  <2> DEFINE chart == [p \in Periods |-> Revenue(p, s).paymentLinks]
  <2>1. \A p \in Periods :
          chart[p] = Chart(SinceNewYear(In(SettledLinks, s)), p, QuarterSwitch, FeeOf)
    BY DEF Revenue
  <2> HIDE DEF chart
  <2>2. Agree(chart)
    BY <1>0, <1>2, <1>3, <1>4, <1>5, <2>1
  <2> QED BY <2>2 DEF chart
<1>7. ASSUME NEW s PROVE Agree([p \in Periods |-> Revenue(p, s).merchant])
  <2> DEFINE chart == [p \in Periods |-> Revenue(p, s).merchant]
  <2>1. \A p \in Periods :
          chart[p] = Chart(SinceNewYear(In(RowsOf({"WITHDRAW"}), s)), p, QuarterSwitch, FeeOf)
    BY DEF Revenue
  <2> HIDE DEF chart
  <2>2. Agree(chart)
    BY <1>0, <1>1, <1>3, <1>4, <1>5, <2>1
  <2> QED BY <2>2 DEF chart
<1>8. ASSUME NEW s PROVE Agree([p \in Periods |-> MerchantDepositWithdrawals(p, s).withdrawals])
  <2> DEFINE chart == [p \in Periods |-> MerchantDepositWithdrawals(p, s).withdrawals]
  <2>1. \A p \in Periods :
          chart[p] = Chart(SinceNewYear(In(RowsOf({"WITHDRAW"}), s)), p, QuarterCeil, AmountOf)
    BY DEF MerchantDepositWithdrawals
  <2> HIDE DEF chart
  <2>2. Agree(chart)
    BY <1>0, <1>1, <1>3, <1>4, <1>5, <2>1
  <2> QED BY <2>2 DEF chart
<1>9. ASSUME NEW s PROVE Agree([p \in Periods |-> MerchantDepositWithdrawals(p, s).deposits])
  <2> DEFINE chart == [p \in Periods |-> MerchantDepositWithdrawals(p, s).deposits]
             docs == In(RowsOf({"DEPOSIT", "PAYMENT_LINKS"}), s)
  <2>1. \A p \in Periods : chart[p] = Chart(SinceNewYear(docs), p, QuarterCeil, AmountOf)
    BY DEF MerchantDepositWithdrawals
  <2>2. docs \in SUBSET settled
    BY <1>0, <1>1
  <2> HIDE DEF chart, docs
  <2>3. Agree(chart)
    BY <1>3, <1>4, <1>5, <2>1, <2>2
  <2> QED BY <2>3 DEF chart
<1>10. ASSUME NEW docs \in SUBSET settled, NEW S \in SUBSET WithinYear(docs, ThisYear)
       PROVE  S \in SUBSET settled /\ Recent(S)
  <2>1. WithinYear(docs, ThisYear) \in SUBSET settled
    BY DEF WithinYear
  <2> QED BY <2>1, ThisYearIsRecent, RecentSubset
<1>11. ASSUME NEW T \in TopCoins(WithinYear(RowsOf(Types), ThisYear), SymbolOf), NEW s \in T
       PROVE  Agree([p \in Periods |-> CryptoMargins(p, T)[s]])
  <2> DEFINE chart == [p \in Periods |-> CryptoMargins(p, T)[s]]
             docs == In(WithinYear(RowsOf(Types), ThisYear), s)
  <2>1. \A p \in Periods : chart[p] = Chart(docs, p, QuarterCeil, One)
    BY <1>11 DEF CryptoMargins
  <2>2. docs \in SUBSET WithinYear(RowsOf(Types), ThisYear)
    BY DEF In
  <2>3. docs \in SUBSET settled /\ Recent(docs)
    BY <1>1, <1>10, <2>2
  <2> HIDE DEF chart, docs
  <2>4. Agree(chart)
    BY <1>3, <1>4, <2>1, <2>3, ValuesAreSummable, ChartAgrees
  <2> QED BY <2>4 DEF chart
<1>12. ASSUME NEW T \in TopCoins(WithinYear(SettledLinks, ThisYear), CodeOf), NEW c \in T
       PROVE  Agree([p \in Periods |-> IF p = "ANNUALLY" THEN [i \in {1} |-> Count(p, T)[c][1]]
                                                         ELSE Count(p, T)[c]])
  <2> DEFINE year == WithinYear(SettledLinks, ThisYear)
             years == UNION {WithinYear(SettledLinks, y) : y \in (ThisYear - 3)..ThisYear}
             first == Chart(OfCode(years, c), "ANNUALLY", QuarterSwitch, One)[1]
             chart == [p \in Periods |-> IF p = "ANNUALLY" THEN [i \in {1} |-> Count(p, T)[c][1]]
                                                           ELSE Count(p, T)[c]]
  <2>1. \A p \in Periods \ {"ANNUALLY"} :
          chart[p] = Chart(OfCode(year, c), p, QuarterSwitch, One)
    <3>1. UNION {WithinYear(SettledLinks, y) : y \in {ThisYear}} = year
      OBVIOUS
    <3>2. \A p \in Periods \ {"ANNUALLY"} :
            Count(p, T)[c] = Chart(OfCode(UNION {WithinYear(SettledLinks, y) : y \in {ThisYear}}, c),
                                   p, QuarterSwitch, One)
      BY <1>12 DEF Count
    <3> HIDE DEF year
    <3> QED BY <3>1, <3>2
  <2>2. chart["ANNUALLY"] = [i \in {1} |-> first]
    <3>1. Count("ANNUALLY", T)[c] = Chart(OfCode(years, c), "ANNUALLY", QuarterSwitch, One)
      BY <1>12 DEF Count
    <3>2. "ANNUALLY" \in Periods
      BY DEF Periods
    <3> HIDE DEF first, years
    <3> QED BY <3>1, <3>2 DEF first
  <2>3. OfCode(year, c) \in SUBSET settled /\ Recent(OfCode(year, c))
    <3>1. OfCode(year, c) \in SUBSET WithinYear(SettledLinks, ThisYear)
      BY DEF OfCode
    <3> QED BY <1>2, <1>10, <3>1
  <2>4. first = SumOver(One, OfCode(year, c))
    <3>1. {d \in OfCode(years, c) : SlotOf("ANNUALLY", created[d], QuarterSwitch) = 1} = OfCode(year, c)
      <4>1. ASSUME NEW d \in settled
            PROVE  SlotOf("ANNUALLY", created[d], QuarterSwitch) = 1
                     <=> YearOf(MonthIx[created[d]]) = ThisYear
        <5> DEFINE utc == YearOf(MonthIx[created[d]])
                   back == ThisYear - utc
        <5>1. utc \in Nat /\ ThisYear \in Nat
          BY DocumentsInTime
        <5>2. SlotOf("ANNUALLY", created[d], QuarterSwitch) = IF back \in 0..3 THEN back + 1 ELSE 0
          BY DEF SlotOf
        <5> HIDE DEF utc
        <5> QED BY <5>1, <5>2 DEF utc
      <4>2. ThisYear \in Int => ThisYear \in (ThisYear - 3)..ThisYear
        OBVIOUS
      <4>3. ASSUME NEW d
            PROVE  d \in OfCode(years, c) /\ SlotOf("ANNUALLY", created[d], QuarterSwitch) = 1
                     <=> d \in OfCode(year, c)
        <5>1. d \in OfCode(years, c) => d \in settled /\ d \in SettledLinks /\ CodeOf[d] = c
          BY <1>2 DEF OfCode, WithinYear
        <5>2. d \in OfCode(year, c) <=> d \in SettledLinks /\ CodeOf[d] = c
                                     /\ YearOf(MonthIx[created[d]]) = ThisYear
          BY DEF OfCode, WithinYear
        <5>3. CASE d \in OfCode(years, c) /\ SlotOf("ANNUALLY", created[d], QuarterSwitch) = 1
          BY <4>1, <5>1, <5>2, <5>3
        <5>4. CASE d \in OfCode(year, c)
          <6>1. d \in settled
            BY <1>2, <5>2, <5>4
          <6>2. ThisYear \in (ThisYear - 3)..ThisYear
            BY <4>2, <6>1, DocumentsInTime
          <6>3. d \in years /\ CodeOf[d] = c
            BY <5>2, <5>4, <6>2 DEF WithinYear
          <6> HIDE DEF years
          <6>4. d \in OfCode(years, c)
            BY <6>3 DEF OfCode
          <6> QED BY <4>1, <5>2, <5>4, <6>1, <6>4
        <5> QED BY <5>3, <5>4
      <4> HIDE DEF years, year
      <4> QED BY <4>3
    <3>2. 1 \in Slots("ANNUALLY")
      BY DEF Slots
    <3> HIDE DEF years, year
    <3> QED BY <3>1, <3>2 DEF Chart, SumOver
  <2> HIDE DEF chart, year, years, first
  <2>5. Summable(One, OfCode(year, c))
    BY <1>4, <2>3, ValuesAreSummable
  <2>6. Agree([p \in Periods |-> Chart(OfCode(year, c), p, QuarterSwitch, One)])
    <3> DEFINE whole == [p \in Periods |-> Chart(OfCode(year, c), p, QuarterSwitch, One)]
    <3>1. \A p \in Periods : whole[p] = Chart(OfCode(year, c), p, QuarterSwitch, One)
      OBVIOUS
    <3> HIDE DEF whole
    <3>2. Agree(whole)
      BY <1>3, <2>3, <2>5, <3>1, ChartAgrees
    <3> QED BY <3>2 DEF whole
  <2>7. Total(chart["MONTHLY"]) = SumOver(One, OfCode(year, c))
    <3>1. \A d \in OfCode(year, c) :
            SlotOf("MONTHLY", created[d], QuarterSwitch) \in Slots("MONTHLY")
      <4>1. \A d \in OfCode(year, c) : created[d] \in Times
        BY <2>3, DocumentsInTime
      <4> QED BY <4>1, MonthRange DEF SlotOf, Slots
    <3>2. chart["MONTHLY"] = Chart(OfCode(year, c), "MONTHLY", QuarterSwitch, One)
      BY <2>1 DEF Periods
    <3> QED BY <2>5, <3>1, <3>2, ChartTotal
  <2>8. Total(chart["ANNUALLY"]) = first
    <3> DEFINE f == [i \in {1} |-> first]
    <3>1. first \in Int
      BY <2>4, <2>5, SumType
    <3>2. SumOver(f, {1}) = f[1]
      <4>1. Summable(f, {1})
        BY <3>1, FS_Singleton DEF Summable
      <4>2. SumOver(f, {1}) = f[1] + SumOver(f, {})
        <5>1. {1} \ {1} = {} /\ 1 \in {1}
          OBVIOUS
        <5> HIDE DEF f
        <5>2. SumOver(f, {1}) = f[1] + SumOver(f, {1} \ {1})
          BY <4>1, <5>1, SumRemove
        <5> QED BY <5>1, <5>2
      <4>3. SumOver(f, {}) = 0
        BY SumEmpty
      <4>4. f[1] \in Int
        BY <3>1
      <4> HIDE DEF f
      <4> QED BY <4>2, <4>3, <4>4
    <3>3. f[1] = first /\ DOMAIN f = {1}
      OBVIOUS
    <3> HIDE DEF f
    <3>4. Total(f) = first
      BY <3>2, <3>3, TotalIsSum
    <3> QED BY <2>2, <3>4 DEF f
  <2>9. /\ chart["QUARTERLY"] = Chart(OfCode(year, c), "QUARTERLY", QuarterSwitch, One)
        /\ chart["MONTHLY"] = Chart(OfCode(year, c), "MONTHLY", QuarterSwitch, One)
    BY <2>1 DEF Periods
  <2>10. Agree(chart)
    BY <2>4, <2>6, <2>7, <2>8, <2>9 DEF Agree, Periods
  <2> QED BY <2>10 DEF chart
<1> QED BY <1>6, <1>7, <1>8, <1>9, <1>11, <1>12 DEF ChartsAgree

\* The days of this year in UTC, as the tables are asked for.
DaysOfYear == {DayOf[t] : t \in {u \in Times : YearOf(MonthIx[u]) = ThisYear}}
FirstDay == CHOOSE x \in DaysOfYear : \A z \in DaysOfYear : x <= z
DayAfter == 1 + CHOOSE x \in DaysOfYear : \A z \in DaysOfYear : x >= z

LEMMA YearHasEnds ==
  ASSUME ReportsInv
  PROVE  /\ FirstDay \in DaysOfYear /\ DaysOfYear \in SUBSET Nat /\ DayAfter \in Nat
         /\ \A z \in DaysOfYear : FirstDay <= z /\ z < DayAfter
<1>1. now \in Times
  BY DEF ReportsInv, ReportsTypeOK
<1>2. DaysOfYear # {}
  <2>1. PICK u \in Times : YearOf(MonthIx[u]) = YearOf(LocalMonthIx[now])
    BY <1>1, Calendar
  <2>2. DayOf[u] \in DaysOfYear
    BY <2>1 DEF DaysOfYear, ThisYear
  <2> QED BY <2>2
<1>3. LastTime \in Times /\ DayOf[LastTime] \in Nat
  BY ReportsAssumption DEF Times
<1>4. DaysOfYear \in SUBSET (0..DayOf[LastTime])
  <2>1. ASSUME NEW t \in Times PROVE DayOf[t] \in 0..DayOf[LastTime]
    <3>1. DayOf[t] \in Nat
      BY ReportsAssumption
    <3>2. t <= LastTime
      BY ReportsAssumption DEF Times
    <3>3. DayOf[t] <= DayOf[LastTime]
      BY <1>3, <3>2, Calendar
    <3> QED BY <1>3, <3>1, <3>3
  <2> QED BY <2>1 DEF DaysOfYear
<1>5. DaysOfYear \in SUBSET Nat
  BY <1>4
<1>6. FirstDay \in DaysOfYear /\ \A z \in DaysOfYear : FirstDay <= z
  <2>1. \E x \in DaysOfYear : \A z \in DaysOfYear : x <= z
    BY <1>2, <1>5, HasFirst
  <2> QED BY <2>1 DEF FirstDay
<1> DEFINE last == CHOOSE x \in DaysOfYear : \A z \in DaysOfYear : x >= z
<1>7. last \in DaysOfYear /\ \A z \in DaysOfYear : last >= z
  <2>1. \E x \in DaysOfYear : \A z \in DaysOfYear : x >= z
    BY <1>2, <1>3, <1>4, HasLast
  <2> QED BY <2>1
<1>8. DayAfter = 1 + last
  BY DEF DayAfter
<1> HIDE DEF last
<1>9. last \in Nat
  BY <1>5, <1>7
<1>10. ASSUME NEW z \in DaysOfYear PROVE z < 1 + last
  <2>1. z \in Nat /\ last >= z
    BY <1>5, <1>7
  <2> QED BY <1>9, <2>1
<1> QED BY <1>5, <1>6, <1>8, <1>9, <1>10

\* A table from the first day of the year to the day after its last one shows the
\* documents of the year.
LEMMA TableIsOfTheYear ==
  ASSUME ReportsInv, NEW docs \in SUBSET settled
  PROVE  Between(docs, FirstDay, DayAfter) = WithinYear(docs, ThisYear)
<1> DEFINE Utc(t) == YearOf(MonthIx[t])
<1>1. /\ FirstDay \in DaysOfYear /\ DaysOfYear \in SUBSET Nat /\ DayAfter \in Nat
      /\ \A z \in DaysOfYear : FirstDay <= z /\ z < DayAfter
  BY YearHasEnds
<1>2. ASSUME NEW d \in docs
      PROVE  /\ created[d] \in Times /\ DayOf[created[d]] \in Nat /\ MonthIx[created[d]] \in Nat
             /\ Utc(created[d]) \in Nat /\ ThisYear \in Nat /\ Utc(created[d]) <= ThisYear
  <2>1. created[d] \in Times /\ MonthIx[created[d]] \in Nat
    BY DocumentsInTime
  <2>2. DayOf[created[d]] \in Nat
    BY <2>1, ReportsAssumption
  <2>3. /\ Utc(created[d]) \in Nat /\ YearOf(LocalMonthIx[created[d]]) \in Nat /\ ThisYear \in Nat
        /\ Utc(created[d]) <= YearOf(LocalMonthIx[created[d]])
        /\ YearOf(LocalMonthIx[created[d]]) <= ThisYear
    BY DocumentsInTime
  <2> HIDE DEF Utc
  <2> QED BY <2>1, <2>2, <2>3
<1>3. ASSUME NEW d \in docs, DayOf[created[d]] >= FirstDay
      PROVE  Utc(created[d]) = ThisYear
  <2> DEFINE t == created[d]
  <2>1. PICK u \in Times : Utc(u) = ThisYear /\ DayOf[u] = FirstDay
    BY <1>1 DEF DaysOfYear
  <2>2. t \in Nat /\ u \in Nat
    BY <1>2, ReportsAssumption DEF Times
  <2>3. MonthIx[u] \in Nat /\ MonthIx[t] \in Nat
    BY <1>2, ReportsAssumption
  <2>4. MonthIx[u] <= MonthIx[t]
    <3>1. CASE u <= t
      BY <1>2, <3>1, Calendar
    <3>2. CASE t <= u
      <4>1. DayOf[t] <= DayOf[u]
        BY <1>2, <3>2, Calendar
      <4>2. FirstDay \in Nat /\ DayOf[t] \in Nat
        BY <1>1, <1>2
      <4>3. DayOf[t] = DayOf[u]
        BY <1>3, <2>1, <4>1, <4>2
      <4>4. MonthIx[t] = MonthIx[u]
        BY <1>2, <4>3, Calendar
      <4> QED BY <2>3, <4>4
    <3> QED BY <2>2, <3>1, <3>2
  <2>5. Utc(u) <= Utc(t)
    BY <2>3, <2>4, YearIsMonotone
  <2>6. Utc(t) \in Nat /\ ThisYear \in Nat /\ Utc(t) <= ThisYear
    BY <1>2
  <2> HIDE DEF Utc, t
  <2>7. Utc(t) = ThisYear
    BY <2>1, <2>5, <2>6
  <2> QED BY <2>7 DEF t
<1>4. ASSUME NEW d \in docs, Utc(created[d]) = ThisYear
      PROVE  DayOf[created[d]] >= FirstDay /\ DayOf[created[d]] < DayAfter
  <2>1. DayOf[created[d]] \in DaysOfYear
    BY <1>2, <1>4 DEF DaysOfYear
  <2>2. FirstDay \in Nat /\ DayOf[created[d]] \in Nat
    BY <1>1, <1>2
  <2> QED BY <1>1, <2>1, <2>2
<1>5. Between(docs, FirstDay, DayAfter) \subseteq WithinYear(docs, ThisYear)
  BY <1>3 DEF Between, WithinYear
<1>6. WithinYear(docs, ThisYear) \subseteq Between(docs, FirstDay, DayAfter)
  BY <1>4 DEF Between, WithinYear
<1> QED BY <1>5, <1>6

\* The rows of a table add up to its documents, whatever the rows are.
LEMMA TableTotal ==
  ASSUME NEW docs, NEW format, NEW value, Summable(value, docs)
  PROVE  Total(Table(docs, format, value)) = SumOver(value, docs)
<1> DEFINE key == [e \in docs |-> GroupOf(format, created[e])]
           Rows == {GroupOf(format, created[d]) : d \in docs}
           table == [g \in Rows |-> SumOver(value, {d \in docs : key[d] = g})]
<1>1. IsFiniteSet(Rows)
  <2>1. IsFiniteSet(docs)
    BY DEF Summable
  <2>2. key \in Surjection(docs, Rows)
    BY DEF Surjection
  <2> HIDE DEF key, Rows
  <2> QED BY <2>1, <2>2, FS_Surjection
<1>2. Table(docs, format, value) = table
  <2>1. \A g : {d \in docs : key[d] = g} = {d \in docs : GroupOf(format, created[d]) = g}
    OBVIOUS
  <2> HIDE DEF key
  <2> QED BY <2>1 DEF Table, SumOver
<1>3. {d \in docs : key[d] \in Rows} = docs
  OBVIOUS
<1>4. DOMAIN table = Rows
  OBVIOUS
<1>5. SumOver(table, Rows) = SumOver(value, {d \in docs : key[d] \in Rows})
  <2> HIDE DEF key, Rows
  <2> QED BY <1>1, SumByKey
<1> HIDE DEF table, key, Rows
<1> QED BY <1>2, <1>3, <1>4, <1>5, TotalIsSum

LEMMA MonthsTotal ==
  ASSUME ReportsInv, NEW docs \in SUBSET settled, NEW quarter, NEW value \in Values
  PROVE  Total(Chart(docs, "MONTHLY", quarter, value)) = SumOver(value, docs)
<1>1. \A d \in docs : created[d] \in Times
  BY DocumentsInTime
<1>2. \A d \in docs : SlotOf("MONTHLY", created[d], quarter) \in Slots("MONTHLY")
  BY <1>1, MonthRange DEF SlotOf, Slots
<1>3. Summable(value, docs)
  BY ValuesAreSummable
<1> QED BY <1>2, <1>3, ChartTotal

LEMMA YearTableTotal ==
  ASSUME ReportsInv, NEW docs \in SUBSET settled, NEW format, NEW value \in Values
  PROVE  Total(Table(Between(docs, FirstDay, DayAfter), format, value))
           = SumOver(value, WithinYear(docs, ThisYear))
<1>1. WithinYear(docs, ThisYear) \in SUBSET settled
  BY DEF WithinYear
<1> QED BY <1>1, TableIsOfTheYear, ValuesAreSummable, TableTotal

\* Of what came since New Year by the server's clock, some came before it in UTC.
EarlyDocs(docs) == {d \in SinceNewYear(docs) : YearOf(MonthIx[created[d]]) < ThisYear}

LEMMA RevenueSplits ==
  ASSUME ReportsInv, NEW docs \in SUBSET settled, NEW value \in Values
  PROVE  SumOver(value, SinceNewYear(docs))
           = SumOver(value, WithinYear(docs, ThisYear)) + SumOver(value, EarlyDocs(docs))
<1>1. ASSUME NEW d \in docs
      PROVE  /\ YearOf(LocalMonthIx[created[d]]) >= ThisYear <=>
                  \/ YearOf(MonthIx[created[d]]) = ThisYear
                  \/ /\ YearOf(MonthIx[created[d]]) < ThisYear
                     /\ YearOf(LocalMonthIx[created[d]]) >= ThisYear
             /\ ~(YearOf(MonthIx[created[d]]) = ThisYear /\ YearOf(MonthIx[created[d]]) < ThisYear)
  <2> DEFINE utc == YearOf(MonthIx[created[d]])
             local == YearOf(LocalMonthIx[created[d]])
  <2>1. utc \in Nat /\ local \in Nat /\ ThisYear \in Nat /\ utc <= local /\ local <= ThisYear
    BY DocumentsInTime
  <2> HIDE DEF utc, local
  <2> QED BY <2>1 DEF utc, local
<1>2. SinceNewYear(docs) = WithinYear(docs, ThisYear) \cup EarlyDocs(docs)
  BY <1>1 DEF SinceNewYear, WithinYear, EarlyDocs
<1>3. WithinYear(docs, ThisYear) \cap EarlyDocs(docs) = {}
  BY <1>1 DEF SinceNewYear, WithinYear, EarlyDocs
<1>4. SinceNewYear(docs) \in SUBSET settled
  BY DEF SinceNewYear
<1>5. Summable(value, WithinYear(docs, ThisYear) \cup EarlyDocs(docs))
  BY <1>2, <1>4, ValuesAreSummable
<1> QED BY <1>2, <1>3, <1>5, SumUnion

\* The links that a merchant misses when the way back to the first month overflows.
Missed == {d \in SettledLinks : now \in Overflowing
                                /\ LocalMonthIx[created[d]] = LocalMonthIx[now] - 11}

\* A merchant's links are counted once in the last twelve months, but for those.
LEMMA TwelveMonths ==
  ASSUME ReportsInv
  PROVE  Total(UserPaymentLinksAmountSum)
           = SumOver(WorthOf, {d \in SettledLinks : MonthIx[created[d]] >= LocalMonthIx[now] - 11}
                                \ Missed)
<1> DEFINE last == LocalMonthIx[now]
           start == IF now \in Overflowing THEN last - 10 ELSE last - 11
           docs == {d \in SettledLinks : LocalMonthIx[created[d]] >= start}
           key == [e \in docs |-> MonthIx[created[e]] - (last - 11)]
           chart == [i \in 0..11 |-> SumOver(WorthOf, {d \in docs : key[d] = i})]
<1>1. SettledLinks \in SUBSET settled /\ docs \in SUBSET settled
  BY DEF SettledLinks
<1>2. ASSUME NEW d \in SettledLinks
      PROVE  /\ MonthIx[created[d]] \in Nat /\ LocalMonthIx[created[d]] \in Nat /\ last \in Nat
             /\ MonthIx[created[d]] <= LocalMonthIx[created[d]] /\ LocalMonthIx[created[d]] <= last
  BY <1>1, DocumentsInTime
<1>3. UserPaymentLinksAmountSum = chart
  <2>1. ASSUME NEW i \in 0..11
        PROVE  {d \in docs : MonthIx[created[d]] = last - 11 + i} = {d \in docs : key[d] = i}
    <3>1. ASSUME NEW d \in docs PROVE MonthIx[created[d]] = last - 11 + i <=> key[d] = i
      <4>1. key[d] = MonthIx[created[d]] - (last - 11)
        OBVIOUS
      <4>2. d \in SettledLinks
        OBVIOUS
      <4>3. MonthIx[created[d]] \in Nat /\ last \in Nat
        BY <1>2, <4>2
      <4> HIDE DEF key, last
      <4> QED BY <4>1, <4>3
    <3> HIDE DEF key, docs
    <3> QED BY <3>1
  <2>2. UserPaymentLinksAmountSum
          = [i \in 0..11 |-> SumOver(WorthOf, {d \in docs : MonthIx[created[d]] = last - 11 + i})]
    BY DEF UserPaymentLinksAmountSum, SumOver
  <2> HIDE DEF docs, key, last
  <2> QED BY <2>1, <2>2
<1>4. {d \in docs : key[d] \in 0..11}
        = {d \in SettledLinks : MonthIx[created[d]] >= last - 11} \ Missed
  <2>1. ASSUME NEW d \in SettledLinks
        PROVE  LocalMonthIx[created[d]] >= start /\ MonthIx[created[d]] - (last - 11) \in 0..11
                 <=> /\ MonthIx[created[d]] >= last - 11
                     /\ ~(now \in Overflowing /\ LocalMonthIx[created[d]] = last - 11)
    <3>1. /\ MonthIx[created[d]] \in Nat /\ LocalMonthIx[created[d]] \in Nat /\ last \in Nat
          /\ MonthIx[created[d]] <= LocalMonthIx[created[d]] /\ LocalMonthIx[created[d]] <= last
      BY <1>2
    <3> HIDE DEF last
    <3> QED BY <3>1
  <2>2. \A d \in docs : d \in SettledLinks /\ key[d] = MonthIx[created[d]] - (last - 11)
    OBVIOUS
  <2>3. \A d : d \in docs <=> d \in SettledLinks /\ LocalMonthIx[created[d]] >= start
    OBVIOUS
  <2>4. \A d : d \in Missed <=> d \in SettledLinks /\ now \in Overflowing
                                  /\ LocalMonthIx[created[d]] = last - 11
    BY DEF Missed
  <2> HIDE DEF docs, key, last, start
  <2> QED BY <2>1, <2>2, <2>3, <2>4
<1>5. SumOver(chart, 0..11) = SumOver(WorthOf, {d \in docs : key[d] \in 0..11})
  <2>1. 0 \in Int /\ 11 \in Int
    OBVIOUS
  <2>2. IsFiniteSet(0..11)
    BY <2>1, FS_Interval
  <2>3. Summable(WorthOf, docs)
    BY <1>1, ValuesAreSummable DEF Values
  <2> DEFINE months == 0..11
  <2>4. IsFiniteSet(months)
    BY <2>2
  <2> HIDE DEF docs, key, months
  <2>5. SumOver([i \in months |-> SumOver(WorthOf, {d \in docs : key[d] = i})], months)
          = SumOver(WorthOf, {d \in docs : key[d] \in months})
    BY <2>3, <2>4, SumByKey
  <2> QED BY <2>5 DEF months
<1>6. DOMAIN chart = 0..11
  OBVIOUS
<1> HIDE DEF chart, key, docs
<1>7. Total(UserPaymentLinksAmountSum) = SumOver(WorthOf, {d \in docs : key[d] \in 0..11})
  BY <1>3, <1>5, <1>6, TotalIsSum
<1> QED BY <1>4, <1>7 DEF last

LEMMA ReportsAreAlwaysComplete == ASSUME ReportsInv PROVE ReportsAreComplete
<1> DEFINE Types == {"DEPOSIT", "PAYMENT_LINKS", "WITHDRAW"}
           early(docs) == SumOver(FeeOf, EarlyDocs(docs))
<1>0. \A docs \in SUBSET settled : \A s : In(docs, s) \in SUBSET settled
  BY DEF In
<1>1. \A ts : RowsOf(ts) \in SUBSET settled
  BY DEF RowsOf
<1>2. SettledLinks \in SUBSET settled
  BY DEF SettledLinks
<1>3. FeeOf \in Values /\ One \in Values
  BY DEF Values
<1>4. \A docs, s : In(WithinYear(docs, ThisYear), s) = WithinYear(In(docs, s), ThisYear)
  BY DEF In, WithinYear
<1>5. ASSUME NEW docs \in SUBSET settled, NEW f
      PROVE  Total(Chart(SinceNewYear(docs), "MONTHLY", QuarterSwitch, FeeOf))
               = Total(Table(Between(docs, FirstDay, DayAfter), f, FeeOf)) + early(docs)
  <2>1. SinceNewYear(docs) \in SUBSET settled
    BY DEF SinceNewYear
  <2>2. Total(Chart(SinceNewYear(docs), "MONTHLY", QuarterSwitch, FeeOf))
          = SumOver(FeeOf, SinceNewYear(docs))
    BY <1>3, <2>1, MonthsTotal
  <2>3. Total(Table(Between(docs, FirstDay, DayAfter), f, FeeOf))
          = SumOver(FeeOf, WithinYear(docs, ThisYear))
    BY <1>3, YearTableTotal
  <2>4. SumOver(FeeOf, SinceNewYear(docs))
          = SumOver(FeeOf, WithinYear(docs, ThisYear)) + SumOver(FeeOf, EarlyDocs(docs))
    BY <1>3, RevenueSplits
  <2> QED BY <2>2, <2>3, <2>4
<1>6. ASSUME NEW s, NEW f
      PROVE  /\ Total(Revenue("MONTHLY", s).paymentLinks)
                   = Total(TablePaymentLinkRevenueReports(FirstDay, DayAfter, s, f))
                       + early(In(SettledLinks, s))
             /\ Total(Revenue("MONTHLY", s).merchant)
                   = Total(TableMerchantAppTxRevenueReports(FirstDay, DayAfter, s, f))
                       + early(In(RowsOf({"WITHDRAW"}), s))
  <2>1. /\ Revenue("MONTHLY", s).paymentLinks
             = Chart(SinceNewYear(In(SettledLinks, s)), "MONTHLY", QuarterSwitch, FeeOf)
        /\ Revenue("MONTHLY", s).merchant
             = Chart(SinceNewYear(In(RowsOf({"WITHDRAW"}), s)), "MONTHLY", QuarterSwitch, FeeOf)
    BY DEF Revenue
  <2>2. /\ TablePaymentLinkRevenueReports(FirstDay, DayAfter, s, f)
             = Table(Between(In(SettledLinks, s), FirstDay, DayAfter), f, FeeOf)
        /\ TableMerchantAppTxRevenueReports(FirstDay, DayAfter, s, f)
             = Table(Between(In(RowsOf({"WITHDRAW"}), s), FirstDay, DayAfter), f, FeeOf)
    BY DEF TablePaymentLinkRevenueReports, TableMerchantAppTxRevenueReports
  <2>3. In(SettledLinks, s) \in SUBSET settled /\ In(RowsOf({"WITHDRAW"}), s) \in SUBSET settled
    BY <1>0, <1>1, <1>2
  <2> HIDE DEF early
  <2> QED BY <1>5, <2>1, <2>2, <2>3
<1>7. ASSUME NEW f
      PROVE  Total([c \in LinkCodes |-> Total(Count("MONTHLY", {c})[c])])
               = Total([s \in LinkSymbols |-> Total(TablePaymentLinkCount(FirstDay, DayAfter, s, f))])
  <2> DEFINE docs == WithinYear(SettledLinks, ThisYear)
             code == [d \in docs |-> CodeOf[d]]
             symbol == [d \in docs |-> SymbolOf[d]]
  <2>0. docs \in SUBSET settled /\ docs \in SUBSET ReportLinks
    BY <1>2 DEF WithinYear, SettledLinks
  <2>1. ASSUME NEW c
        PROVE  Total(Count("MONTHLY", {c})[c]) = SumOver(One, {d \in docs : code[d] = c})
    <3>1. UNION {WithinYear(SettledLinks, y) : y \in {ThisYear}} = docs
      OBVIOUS
    <3>2. Count("MONTHLY", {c})[c]
            = Chart(OfCode(UNION {WithinYear(SettledLinks, y) : y \in {ThisYear}}, c),
                    "MONTHLY", QuarterSwitch, One)
      BY DEF Count
    <3>3. OfCode(docs, c) = {d \in docs : code[d] = c}
      BY DEF OfCode
    <3>4. OfCode(docs, c) \in SUBSET settled
      BY <2>0 DEF OfCode
    <3> HIDE DEF docs, code
    <3>5. Total(Chart(OfCode(docs, c), "MONTHLY", QuarterSwitch, One)) = SumOver(One, OfCode(docs, c))
      BY <1>3, <3>4, MonthsTotal
    <3> QED BY <3>1, <3>2, <3>3, <3>5
  <2>2. ASSUME NEW s
        PROVE  Total(TablePaymentLinkCount(FirstDay, DayAfter, s, f))
                 = SumOver(One, {d \in docs : symbol[d] = s})
    <3>1. WithinYear(In(SettledLinks, s), ThisYear) = {d \in docs : symbol[d] = s}
      BY DEF In, WithinYear
    <3>2. In(SettledLinks, s) \in SUBSET settled
      BY <1>0, <1>2
    <3> HIDE DEF docs, symbol
    <3> QED BY <1>3, <3>1, <3>2, YearTableTotal DEF TablePaymentLinkCount
  <2>3. Summable(One, docs)
    BY <1>3, <2>0, ValuesAreSummable
  <2>4. IsFiniteSet(LinkCodes) /\ IsFiniteSet(LinkSymbols)
    <3> DEFINE codes == [d \in ReportLinks |-> CodeOf[d]]
               symbols == [d \in ReportLinks |-> SymbolOf[d]]
    <3>1. codes \in Surjection(ReportLinks, LinkCodes)
      BY DEF Surjection, LinkCodes
    <3>2. symbols \in Surjection(ReportLinks, LinkSymbols)
      BY DEF Surjection, LinkSymbols
    <3> HIDE DEF codes, symbols
    <3> QED BY <3>1, <3>2, ReportsAssumption, FS_Surjection
  <2>5. /\ {d \in docs : code[d] \in LinkCodes} = docs
        /\ {d \in docs : symbol[d] \in LinkSymbols} = docs
    BY <2>0 DEF LinkCodes, LinkSymbols
  <2> DEFINE byCode == [c \in LinkCodes |-> SumOver(One, {d \in docs : code[d] = c})]
             bySymbol == [s \in LinkSymbols |-> SumOver(One, {d \in docs : symbol[d] = s})]
  <2> HIDE DEF docs, code, symbol
  <2>6. SumOver(byCode, LinkCodes) = SumOver(One, docs)
    BY <2>3, <2>4, <2>5, SumByKey
  <2>7. SumOver(bySymbol, LinkSymbols) = SumOver(One, docs)
    BY <2>3, <2>4, <2>5, SumByKey
  <2>8. [c \in LinkCodes |-> Total(Count("MONTHLY", {c})[c])] = byCode
    BY <2>1
  <2>9. [s \in LinkSymbols |-> Total(TablePaymentLinkCount(FirstDay, DayAfter, s, f))] = bySymbol
    BY <2>2
  <2>10. DOMAIN byCode = LinkCodes /\ DOMAIN bySymbol = LinkSymbols
    OBVIOUS
  <2> HIDE DEF byCode, bySymbol
  <2>11. Total(byCode) = SumOver(One, docs) /\ Total(bySymbol) = SumOver(One, docs)
    BY <2>6, <2>7, <2>10, TotalIsSum
  <2> QED BY <2>8, <2>9, <2>11
<1>8. ASSUME NEW s, NEW f
      PROVE  Total(TableMerchantDepositWithdrawCount(FirstDay, DayAfter, s, f))
               <= Total(CryptoMargins("MONTHLY", {s})[s])
  <2> DEFINE part == In(RowsOf({"DEPOSIT", "PAYMENT_LINKS"}), s)
             all == In(WithinYear(RowsOf(Types), ThisYear), s)
  <2>1. CryptoMargins("MONTHLY", {s})[s] = Chart(all, "MONTHLY", QuarterCeil, One)
    BY DEF CryptoMargins
  <2>2. all \in SUBSET settled /\ part \in SUBSET settled
    <3>1. all = WithinYear(In(RowsOf(Types), s), ThisYear) /\ In(RowsOf(Types), s) \in SUBSET settled
      BY <1>0, <1>1, <1>4
    <3>2. part \in SUBSET settled
      BY <1>0, <1>1
    <3> HIDE DEF all, part
    <3> QED BY <3>1, <3>2 DEF WithinYear
  <2>3. WithinYear(part, ThisYear) \in SUBSET all
    BY DEF WithinYear, In, RowsOf
  <2>4. TableMerchantDepositWithdrawCount(FirstDay, DayAfter, s, f)
          = Table(Between(part, FirstDay, DayAfter), f, One)
    BY DEF TableMerchantDepositWithdrawCount
  <2> HIDE DEF part, all
  <2>5. Total(Chart(all, "MONTHLY", QuarterCeil, One)) = SumOver(One, all)
    BY <1>3, <2>2, MonthsTotal
  <2>6. Total(Table(Between(part, FirstDay, DayAfter), f, One))
          = SumOver(One, WithinYear(part, ThisYear))
    BY <1>3, <2>2, YearTableTotal
  <2>7. IsFiniteSet(all) /\ \A d \in all : One[d] \in Nat
    BY <1>3, <2>2, ValuesAreSummable DEF Summable
  <2>8. SumOver(One, WithinYear(part, ThisYear)) <= SumOver(One, all)
    BY <2>3, <2>7, SumSubset
  <2> QED BY <2>1, <2>4, <2>5, <2>6, <2>8
<1> HIDE DEF early
<1>9. FirstDay = (CHOOSE x \in DaysOfYear : \A z \in DaysOfYear : x <= z)
      /\ DayAfter = 1 + (CHOOSE x \in DaysOfYear : \A z \in DaysOfYear : x >= z)
  BY DEF FirstDay, DayAfter
<1>10. \A docs : early(docs) = MapThenSumSet(LAMBDA d : FeeOf[d],
           {d \in SinceNewYear(docs) : YearOf(MonthIx[created[d]]) < ThisYear})
  BY DEF early, EarlyDocs, SumOver
<1>11. Total(UserPaymentLinksAmountSum)
         = MapThenSumSet(LAMBDA d : WorthOf[d],
             {d \in SettledLinks : MonthIx[created[d]] >= LocalMonthIx[now] - 11}
               \ {d \in SettledLinks : now \in Overflowing
                                        /\ LocalMonthIx[created[d]] = LocalMonthIx[now] - 11})
  BY TwelveMonths DEF SumOver, Missed
<1> DEFINE first == CHOOSE x \in DaysOfYear : \A z \in DaysOfYear : x <= z
           after == 1 + CHOOSE x \in DaysOfYear : \A z \in DaysOfYear : x >= z
           last == LocalMonthIx[now]
<1>12. FirstDay = first /\ DayAfter = after
  BY <1>9
<1>13. \A s \in ReportCoins, f \in Formats :
         /\ Total(Revenue("MONTHLY", s).paymentLinks)
              = Total(TablePaymentLinkRevenueReports(first, after, s, f)) + early(In(SettledLinks, s))
         /\ Total(Revenue("MONTHLY", s).merchant)
              = Total(TableMerchantAppTxRevenueReports(first, after, s, f))
                  + early(In(RowsOf({"WITHDRAW"}), s))
         /\ Total(TableMerchantDepositWithdrawCount(first, after, s, f))
              <= Total(CryptoMargins("MONTHLY", {s})[s])
  <2> HIDE DEF first, after
  <2> QED BY <1>6, <1>8, <1>12
<1>14. \A f \in Formats :
         Total([c \in LinkCodes |-> Total(Count("MONTHLY", {c})[c])])
           = Total([s \in LinkSymbols |-> Total(TablePaymentLinkCount(first, after, s, f))])
  <2> HIDE DEF first, after
  <2> QED BY <1>7, <1>12
<1> QED BY <1>10, <1>11, <1>13, <1>14 DEF ReportsAreComplete, DaysOfYear

\* All the reports tell the same story, at every time and whatever was stored
\* before: nothing is counted twice, in no period or in the wrong one, but for the
\* first of a merchant's twelve months at a time when going back to it overflows.
THEOREM ReportsAlwaysAgree ==
  ReportsSpec => [](ReportsAgree /\ ChartsAgree /\ ReportsAreComplete)
<1>1. ReportsInv => ReportsAgree /\ ChartsAgree /\ ReportsAreComplete
  BY ChartsAlwaysAgree, ReportsAreAlwaysComplete DEF ReportsAgree, ReportsInv
<1> QED BY <1>1, ReportsInOrder, PTL
=============================================================================
