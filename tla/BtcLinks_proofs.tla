---------------------------- MODULE BtcLinks_proofs ----------------------------
(***************************************************************************)
(* Proofs about BtcLinks, for any links, transfers, ticks and bounds.      *)
(***************************************************************************)
EXTENDS BtcLinks, TLAPS

-----------------------------------------------------------------------------
(* Type correctness.                                                       *)

LEMMA FeeIsNat == ASSUME NEW n \in Nat PROVE Fee(n) \in Nat
<1>1. n * FeePercent \in Nat
  BY BtcAssumption
<1>2. \A k \in Nat : k \div 100 \in Nat
  OBVIOUS
<1> QED BY <1>1, <1>2 DEF Fee

\* A fault is counted and remembered.
LEMMA FaultTyped ==
  ASSUME TypeOK, NEW k \in Faults, Fault(k)
  PROVE  faults' \in 0..MaxFaults /\ happened' \subseteq Faults
BY BtcAssumption DEF TypeOK, Fault

LEMMA TroubleTyped ==
  ASSUME TypeOK, UNCHANGED trouble \/ \E k \in Faults : Fault(k)
  PROVE  faults' \in 0..MaxFaults /\ happened' \subseteq Faults
BY FaultTyped DEF TypeOK, trouble

LEMMA TypedStep == TypeOK /\ [Next]_vars => TypeOK'
<1> SUFFICES ASSUME TypeOK, [Next]_vars PROVE TypeOK'
  OBVIOUS
<1>0. "listing" \in Faults /\ "fee" \in Faults /\ "refused" \in Faults /\ "lost" \in Faults
      /\ "write" \in Faults /\ "abort" \in Faults
  BY DEF Faults
<1>1. ASSUME NEW t \in Txs, Arrive(t) PROVE TypeOK'
  <2>1. deposited' \in [Links -> Nat]
    BY <1>1, BtcAssumption DEF Arrive, TypeOK
  <2> QED BY <1>1, <2>1 DEF Arrive, TypeOK, linkVars, chainVars, trouble, history
<1>2. ASSUME NEW l \in Links, Expire(l) PROVE TypeOK'
  <2>1. faults' \in 0..MaxFaults /\ happened' \subseteq Faults
    BY <1>0, <1>2, TroubleTyped DEF Expire
  <2>2. status' \in [Links -> {"PENDING", "PARTIALLY_SUCCESS", "SUCCESS", "EXPIRED"}]
    BY <1>2 DEF Expire, TypeOK
  <2> QED BY <1>2, <2>1, <2>2 DEF Expire, TypeOK, inVars, chainVars, history
<1>3. ASSUME NEW d \in Detectors, DetectStart(d) PROVE TypeOK'
  <2>1. detector' \in [Detectors -> DetectorState]
    BY <1>3 DEF DetectStart, TypeOK, DetectorState, IdleDetector, Watched, Waiting
  <2> QED BY <1>3, <2>1 DEF DetectStart, TypeOK, linkVars, inVars, chainVars, trouble
<1>4. ASSUME NEW d \in Detectors, DetectLook(d) PROVE TypeOK'
  <2>1. faults' \in 0..MaxFaults /\ happened' \subseteq Faults
    BY <1>0, <1>4, TroubleTyped DEF DetectLook
  <2>2. detector[d] \in DetectorState /\ deposited \in [Links -> Nat]
    BY DEF TypeOK
  <2>3. [l \in Links |-> IF l \in detector[d].todo THEN deposited[l] ELSE 0] \in [Links -> Nat]
    BY <2>2
  <2>4. IdleDetector \in DetectorState
    BY DEF IdleDetector, DetectorState
  <2> DEFINE listed == [l \in Links |-> IF l \in detector[d].todo THEN deposited[l] ELSE 0]
  <2> DEFINE found == {l \in detector[d].todo : deposited[l] > 0}
  <2> DEFINE looked == [detector[d] EXCEPT !.pc = "mark", !.todo = found, !.total = listed]
  <2>5. \/ detector' = [detector EXCEPT ![d] = looked]
        \/ detector' = [detector EXCEPT ![d] = IdleDetector]
    BY <1>4 DEF DetectLook
  <2>6. found \in SUBSET Links /\ listed \in [Links -> Nat]
    BY <2>2, <2>3 DEF DetectorState
  <2> HIDE DEF listed, found
  <2>7. looked \in DetectorState
    BY <2>2, <2>6 DEF DetectorState
  <2> HIDE DEF looked
  <2>8. detector' \in [Detectors -> DetectorState]
    BY <2>4, <2>5, <2>7 DEF TypeOK
  <2> QED BY <1>4, <2>1, <2>8 DEF DetectLook, TypeOK, linkVars, inVars, chainVars, history
<1>5. ASSUME NEW d \in Detectors, DetectMark(d) PROVE TypeOK'
  <2>1. detector' \in [Detectors -> DetectorState]
    BY <1>5 DEF DetectMark, TypeOK, DetectorState
  <2>2. row' \in [Links -> {"absent", "none", "streamer", "deleted"}]
    BY <1>5 DEF DetectMark, TypeOK
  <2>3. short' \in SUBSET Links
    BY <1>5 DEF DetectMark, TypeOK, DetectorState
  <2> QED BY <1>5, <2>1, <2>2, <2>3 DEF DetectMark, TypeOK, linkVars, inVars, chainVars, trouble
<1>6. ASSUME NEW d \in Detectors, NEW l \in Links, DetectStore(d, l) PROVE TypeOK'
  <2>a. detector[d] \in DetectorState /\ detector[d].total[l] \in Nat
    BY DEF TypeOK, DetectorState
  <2>b. [detector[d] EXCEPT !.todo = detector[d].todo \ {l}] \in DetectorState
    BY <2>a DEF DetectorState
  <2>1. detector' \in [Detectors -> DetectorState]
    BY <1>6, <2>b DEF DetectStore, TypeOK
  <2>2. received' \in [Links -> Nat]
    BY <1>6, <2>a DEF DetectStore, TypeOK
  <2>3. status' \in [Links -> {"PENDING", "PARTIALLY_SUCCESS", "SUCCESS", "EXPIRED"}]
    BY <1>6 DEF DetectStore, TypeOK
  <2> QED BY <1>6, <2>1, <2>2, <2>3 DEF DetectStore, TypeOK, inVars, chainVars, trouble, history
<1>7. ASSUME NEW d \in Detectors, DetectEnd(d) PROVE TypeOK'
  <2>1. faults' \in 0..MaxFaults /\ happened' \subseteq Faults
    BY <1>0, <1>7, TroubleTyped DEF DetectEnd
  <2>2. detector' \in [Detectors -> DetectorState]
    BY <1>7 DEF DetectEnd, TypeOK, DetectorState, IdleDetector
  <2> QED BY <1>7, <2>1, <2>2 DEF DetectEnd, TypeOK, linkVars, inVars, chainVars, history
<1>8. ASSUME NEW w \in Ticks, TickStart(w) PROVE TypeOK'
  <2>1. faults' \in 0..MaxFaults /\ happened' \subseteq Faults
    BY <1>0, <1>8, TroubleTyped DEF TickStart
  <2> DEFINE selected == {l \in Links : status[l] = "PARTIALLY_SUCCESS"}
  <2> DEFINE started(free) == [IdleTick EXCEPT !.pc = "next", !.todo = selected,
                                               !.amount = received, !.free = free]
  <2>a. \E free \in BOOLEAN : tick' = [tick EXCEPT ![w] = started(free)]
    BY <1>8 DEF TickStart
  <2>b. selected \in SUBSET Links /\ received \in [Links -> Nat]
    BY DEF TypeOK
  <2> HIDE DEF selected
  <2>c. \A free \in BOOLEAN : started(free) \in TickState
    BY <2>b DEF IdleTick, TickState
  <2> HIDE DEF started
  <2>2. tick' \in [Ticks -> TickState]
    BY <2>a, <2>c DEF TypeOK
  <2> QED BY <1>8, <2>1, <2>2 DEF TickStart, TypeOK, linkVars, inVars, chainVars
<1>9. ASSUME NEW w \in Ticks, NEW l \in Links, Transfer(w, l) PROVE TypeOK'
  <2> DEFINE n == tick[w].amount[l]
  <2> DEFINE fee == IF tick[w].free THEN 0 ELSE Fee(n)
  <2>1. faults' \in 0..MaxFaults /\ happened' \subseteq Faults
    BY <1>0, <1>9, TroubleTyped DEF Transfer
  <2>2. tick[w] \in TickState /\ n \in Nat
    BY DEF TypeOK, TickState
  <2> DEFINE proceeded(p) ==
        [tick[w] EXCEPT !.pc = p, !.link = l, !.todo = tick[w].todo \ {l}]
  <2>a. \E p \in {"next", "record"} : tick' = [tick EXCEPT ![w] = proceeded(p)]
    <3>1. \E p \in {"next", "record"} :
            tick' = [tick EXCEPT ![w].pc = p, ![w].link = l, ![w].todo = @ \ {l}]
      BY <1>9 DEF Transfer
    <3> QED BY <3>1 DEF TypeOK
  <2>b. \A p \in {"next", "record"} : proceeded(p) \in TickState
    BY <2>2 DEF TickState
  <2> HIDE DEF proceeded
  <2>3. tick' \in [Ticks -> TickState]
    BY <2>a, <2>b DEF TypeOK
  <2>4. fee \in Nat /\ Gas \in Nat
    BY <2>2, FeeIsNat, BtcAssumption
  <2>5. \/ UNCHANGED chainVars
        \/ /\ Payable(n, fee)
           /\ toMerchant' = [toMerchant EXCEPT ![l] = @ + (n - fee - Gas)]
           /\ toAdmin' = [toAdmin EXCEPT ![l] = @ + fee]
           /\ spent' = [spent EXCEPT ![l] = @ + n]
    BY <1>9 DEF Transfer
  <2> HIDE DEF n, fee
  <2>6. Payable(n, fee) => n - fee - Gas \in Nat
    BY <2>2, <2>4 DEF Payable
  <2>7. toMerchant' \in [Links -> Nat] /\ toAdmin' \in [Links -> Nat] /\ spent' \in [Links -> Nat]
    BY <2>2, <2>4, <2>5, <2>6 DEF TypeOK, chainVars
  <2> QED BY <1>9, <2>1, <2>3, <2>7 DEF Transfer, TypeOK, linkVars, inVars, history
<1>10. ASSUME NEW w \in Ticks, Record(w) PROVE TypeOK'
  <2>1. faults' \in 0..MaxFaults /\ happened' \subseteq Faults
    BY <1>0, <1>10, TroubleTyped DEF Record
  <2>a. [tick[w] EXCEPT !.pc = "next"] \in TickState
    BY DEF TypeOK, TickState
  <2>2. tick' \in [Ticks -> TickState]
    BY <1>10, <2>a DEF Record, TypeOK
  <2>3. status' \in [Links -> {"PENDING", "PARTIALLY_SUCCESS", "SUCCESS", "EXPIRED"}]
    BY <1>10 DEF Record, TypeOK
  <2> QED BY <1>10, <2>1, <2>2, <2>3 DEF Record, TypeOK, inVars, chainVars, history
<1>11. ASSUME NEW w \in Ticks, TickEnd(w) PROVE TypeOK'
  <2>1. faults' \in 0..MaxFaults /\ happened' \subseteq Faults
    BY <1>0, <1>11, TroubleTyped DEF TickEnd
  <2>2. tick' \in [Ticks -> TickState]
    BY <1>11 DEF TickEnd, TypeOK, TickState, IdleTick
  <2> QED BY <1>11, <2>1, <2>2 DEF TickEnd, TypeOK, linkVars, inVars, chainVars, history
<1>13. ASSUME NEW l \in Links, Create(l) PROVE TypeOK'
  BY <1>13 DEF Create, TypeOK, linkVars, inVars, chainVars, trouble, history
<1>12. ASSUME UNCHANGED vars PROVE TypeOK'
  BY <1>12 DEF TypeOK, vars, linkVars, inVars, chainVars, trouble, history
<1> QED BY <1>1, <1>2, <1>3, <1>4, <1>5, <1>6, <1>7, <1>8, <1>9, <1>10, <1>11, <1>12, <1>13
        DEF Next, DetectorStep, TickStep

LEMMA InitTyped == Init => TypeOK
BY BtcAssumption
   DEF Init, TypeOK, IdleDetector, DetectorState, IdleTick, TickState

\* Every reachable state is well typed: what the two crons write is what the
\* schema of a payment link allows, and no output of a payout is negative.
THEOREM TypeCorrect == Spec => []TypeOK
BY InitTyped, TypedStep, PTL DEF Spec

-----------------------------------------------------------------------------
(* The order of the ticks: what keeps a settled link settled.               *)

Confirmed == {"PARTIALLY_SUCCESS", "SUCCESS"}
Found == {"streamer", "deleted"}

\* Only the ticks that have started hold links.
IdleHoldsNone ==
  /\ \A d \in Detectors : detector[d].pc = "idle" => detector[d].todo = {}
  /\ \A w \in Ticks : tick[w].pc = "idle" => tick[w].todo = {}

OneAtATime ==
  /\ "detectors" \notin overlapped =>
       \A d, e \in Detectors : detector[d].pc # "idle" /\ detector[e].pc # "idle" => d = e
  /\ "payouts" \notin overlapped =>
       \A w, v \in Ticks : tick[w].pc # "idle" /\ tick[v].pc # "idle" => w = v

\* The rows are filled in before a link is confirmed.
RowFirst ==
  /\ \A l \in Links : status[l] \in Confirmed => row[l] \in Found
  /\ \A d \in Detectors : detector[d].pc = "store" =>
       \A l \in detector[d].todo : row[l] \in Found

\* A single detector only stores what nobody has confirmed.
DetectorsInOrder ==
  "detectors" \notin overlapped =>
    \A d \in Detectors : \A l \in detector[d].todo : status[l] \notin Confirmed

\* Payouts hold links that are confirmed, each once, and a single payout holds
\* none that is settled.
PayoutsInOrder ==
  \A w \in Ticks :
    /\ tick[w].pc = "record" =>
         /\ tick[w].link \in Links /\ status[tick[w].link] \in Confirmed
         /\ tick[w].link \notin tick[w].todo
    /\ \A l \in tick[w].todo : status[l] \in Confirmed
    /\ "payouts" \notin overlapped => \A l \in tick[w].todo : status[l] # "SUCCESS"

InOrder ==
  TypeOK /\ IdleHoldsNone /\ OneAtATime /\ RowFirst /\ DetectorsInOrder /\ PayoutsInOrder

LEMMA OrderedStep == InOrder /\ [Next]_vars => InOrder'
<1> SUFFICES ASSUME InOrder, [Next]_vars PROVE InOrder'
  OBVIOUS
<1> USE DEF Confirmed, Found
<1>0. TypeOK /\ TypeOK'
  BY TypedStep DEF InOrder
<1>1. ASSUME NEW t \in Txs, Arrive(t) PROVE InOrder'
  BY <1>0, <1>1 DEF Arrive, InOrder, IdleHoldsNone, OneAtATime, RowFirst, DetectorsInOrder,
                    PayoutsInOrder, linkVars, history
<1>2. ASSUME NEW l \in Links, Expire(l) PROVE InOrder'
  <2>1. \A m \in Links : row[m] \in Found => row'[m] \in Found
    BY <1>0, <1>2 DEF Expire, TypeOK
  <2>2. \A m \in Links :
          /\ status'[m] \in Confirmed <=> status[m] \in Confirmed
          /\ status'[m] = "SUCCESS" <=> status[m] = "SUCCESS"
    BY <1>0, <1>2 DEF Expire, TypeOK
  <2>3. detector' = detector /\ tick' = tick /\ overlapped' = overlapped
    BY <1>2 DEF Expire, history
  <2>4. \A d \in Detectors : detector[d].todo \subseteq Links
    BY <1>0 DEF TypeOK, DetectorState
  <2>5. \A w \in Ticks : tick[w].todo \subseteq Links
    BY <1>0 DEF TypeOK, TickState
  <2>6. RowFirst'
    BY <2>1, <2>2, <2>3, <2>4 DEF InOrder, RowFirst
  <2>7. DetectorsInOrder'
    BY <2>2, <2>3, <2>4 DEF InOrder, DetectorsInOrder
  <2>8. PayoutsInOrder'
    BY <2>2, <2>3, <2>5 DEF InOrder, PayoutsInOrder
  <2> QED BY <1>0, <2>3, <2>6, <2>7, <2>8 DEF InOrder, IdleHoldsNone, OneAtATime
<1>3. ASSUME NEW d \in Detectors, DetectStart(d) PROVE InOrder'
  <2>1. /\ detector'[d].pc = "look" /\ detector'[d].todo = Watched
        /\ \A e \in Detectors : e # d => detector'[e] = detector[e]
    BY <1>0, <1>3 DEF DetectStart, TypeOK, IdleDetector
  <2>2. status' = status /\ row' = row /\ tick' = tick
    BY <1>3 DEF DetectStart, linkVars
  <2>3. /\ "detectors" \notin overlapped' =>
             "detectors" \notin overlapped /\ \A e \in Detectors : detector[e].pc = "idle"
        /\ "payouts" \notin overlapped' <=> "payouts" \notin overlapped
    BY <1>3 DEF DetectStart
  <2>4. \A l \in Watched : status[l] \notin Confirmed
    BY DEF Watched, Waiting, InOrder, RowFirst
  <2>5. IdleHoldsNone'
    BY <2>1, <2>2 DEF InOrder, IdleHoldsNone
  <2>6. OneAtATime'
    BY <2>1, <2>2, <2>3 DEF InOrder, OneAtATime
  <2>7. RowFirst'
    BY <2>1, <2>2 DEF InOrder, RowFirst
  <2>8. DetectorsInOrder'
    BY <2>1, <2>2, <2>3, <2>4 DEF InOrder, DetectorsInOrder
  <2>9. PayoutsInOrder'
    BY <2>2, <2>3 DEF InOrder, PayoutsInOrder
  <2> QED BY <1>0, <2>5, <2>6, <2>7, <2>8, <2>9 DEF InOrder
<1>4. ASSUME NEW d \in Detectors, DetectLook(d) PROVE InOrder'
  <2>1. /\ detector[d].pc = "look"
        /\ \/ detector'[d].pc = "mark" /\ detector'[d].todo \subseteq detector[d].todo
           \/ detector'[d].pc = "idle" /\ detector'[d].todo = {}
        /\ \A e \in Detectors : e # d => detector'[e] = detector[e]
    <3> DEFINE listed == [l \in Links |-> IF l \in detector[d].todo THEN deposited[l] ELSE 0]
    <3> DEFINE found == {l \in detector[d].todo : deposited[l] > 0}
    <3> DEFINE looked == [detector[d] EXCEPT !.pc = "mark", !.todo = found, !.total = listed]
    <3>1. \/ detector' = [detector EXCEPT ![d] = looked]
          \/ detector' = [detector EXCEPT ![d] = IdleDetector]
      BY <1>4 DEF DetectLook
    <3>2. found \subseteq detector[d].todo
      OBVIOUS
    <3> HIDE DEF listed, found
    <3>3. looked.pc = "mark" /\ looked.todo = found
      BY <1>0 DEF TypeOK, DetectorState
    <3>4. IdleDetector.pc = "idle" /\ IdleDetector.todo = {}
      BY DEF IdleDetector
    <3>5. detector[d].pc = "look"
      BY <1>4 DEF DetectLook
    <3> HIDE DEF looked
    <3> QED BY <1>0, <3>1, <3>2, <3>3, <3>4, <3>5 DEF TypeOK
  <2>2. status' = status /\ row' = row /\ tick' = tick /\ overlapped' = overlapped
    BY <1>4 DEF DetectLook, linkVars, history
  <2>3. IdleHoldsNone'
    BY <2>1, <2>2 DEF InOrder, IdleHoldsNone
  <2>4. OneAtATime'
    BY <2>1, <2>2 DEF InOrder, OneAtATime
  <2>5. RowFirst'
    BY <2>1, <2>2 DEF InOrder, RowFirst
  <2>6. DetectorsInOrder'
    BY <2>1, <2>2 DEF InOrder, DetectorsInOrder
  <2>7. PayoutsInOrder'
    BY <2>2 DEF InOrder, PayoutsInOrder
  <2> QED BY <1>0, <2>3, <2>4, <2>5, <2>6, <2>7 DEF InOrder
<1>5. ASSUME NEW d \in Detectors, DetectMark(d) PROVE InOrder'
  <2>1. /\ detector[d].pc = "mark"
        /\ detector'[d].pc = "store" /\ detector'[d].todo = detector[d].todo
        /\ \A e \in Detectors : e # d => detector'[e] = detector[e]
    BY <1>0, <1>5 DEF DetectMark, TypeOK, DetectorState
  <2>2. status' = status /\ tick' = tick /\ overlapped' = overlapped
    BY <1>5 DEF DetectMark, linkVars
  <2>3. \A l \in Links : (l \in detector[d].todo \/ row[l] \in Found) => row'[l] \in Found
    BY <1>5 DEF DetectMark
  <2>a. \A e \in Detectors : detector[e].todo \subseteq Links
    BY <1>0 DEF TypeOK, DetectorState
  <2>4. IdleHoldsNone'
    BY <2>1, <2>2 DEF InOrder, IdleHoldsNone
  <2>5. OneAtATime'
    BY <2>1, <2>2 DEF InOrder, OneAtATime
  <2>6. RowFirst'
    BY <2>1, <2>2, <2>3, <2>a DEF InOrder, RowFirst
  <2>7. DetectorsInOrder'
    BY <2>1, <2>2 DEF InOrder, DetectorsInOrder
  <2>8. PayoutsInOrder'
    BY <2>2 DEF InOrder, PayoutsInOrder
  <2> QED BY <1>0, <2>4, <2>5, <2>6, <2>7, <2>8 DEF InOrder
<1>6. ASSUME NEW d \in Detectors, NEW l \in Links, DetectStore(d, l) PROVE InOrder'
  <2>1. /\ detector[d].pc = "store" /\ l \in detector[d].todo
        /\ detector'[d].pc = "store" /\ detector'[d].todo = detector[d].todo \ {l}
        /\ \A e \in Detectors : e # d => detector'[e] = detector[e]
    BY <1>0, <1>6 DEF DetectStore, TypeOK, DetectorState
  <2>2. row' = row /\ tick' = tick /\ overlapped' = overlapped
    BY <1>6 DEF DetectStore, history
  <2>3. /\ \A m \in Links : m # l => status'[m] = status[m]
        /\ status'[l] = status[l] \/ status'[l] = "PARTIALLY_SUCCESS"
    BY <1>0, <1>6 DEF DetectStore, TypeOK
  <2>a. \A e \in Detectors : detector[e].todo \subseteq Links
    BY <1>0 DEF TypeOK, DetectorState
  <2>b. \A w \in Ticks : tick[w].todo \subseteq Links
    BY <1>0 DEF TypeOK, TickState
  <2>4. IdleHoldsNone'
    BY <2>1, <2>2 DEF InOrder, IdleHoldsNone
  <2>5. OneAtATime'
    BY <2>1, <2>2 DEF InOrder, OneAtATime
  <2>6. RowFirst'
    <3>1. row[l] \in Found
      BY <2>1 DEF InOrder, RowFirst
    <3> QED BY <2>1, <2>2, <2>3, <3>1 DEF InOrder, RowFirst
  <2>7. DetectorsInOrder'
    <3> SUFFICES ASSUME "detectors" \notin overlapped, NEW e \in Detectors,
                        NEW m \in detector'[e].todo
                 PROVE  status'[m] \notin Confirmed
      BY <2>2 DEF DetectorsInOrder
    <3>1. e = d
      BY <2>1 DEF InOrder, OneAtATime, IdleHoldsNone
    <3>2. m \in detector[d].todo /\ m # l /\ m \in Links
      BY <2>1, <2>a, <3>1
    <3> QED BY <2>3, <3>2 DEF InOrder, DetectorsInOrder
  <2>8. PayoutsInOrder'
    BY <2>2, <2>3, <2>b DEF InOrder, PayoutsInOrder
  <2> QED BY <1>0, <2>4, <2>5, <2>6, <2>7, <2>8 DEF InOrder
<1>7. ASSUME NEW d \in Detectors, DetectEnd(d) PROVE InOrder'
  <2>1. /\ detector'[d].pc = "idle" /\ detector'[d].todo = {}
        /\ \A e \in Detectors : e # d => detector'[e] = detector[e]
    BY <1>0, <1>7 DEF DetectEnd, TypeOK, IdleDetector
  <2>2. status' = status /\ row' = row /\ tick' = tick /\ overlapped' = overlapped
    BY <1>7 DEF DetectEnd, linkVars, history
  <2>3. IdleHoldsNone'
    BY <2>1, <2>2 DEF InOrder, IdleHoldsNone
  <2>4. OneAtATime'
    BY <2>1, <2>2 DEF InOrder, OneAtATime
  <2>5. RowFirst'
    BY <2>1, <2>2 DEF InOrder, RowFirst
  <2>6. DetectorsInOrder'
    BY <2>1, <2>2 DEF InOrder, DetectorsInOrder
  <2>7. PayoutsInOrder'
    BY <2>2 DEF InOrder, PayoutsInOrder
  <2> QED BY <1>0, <2>3, <2>4, <2>5, <2>6, <2>7 DEF InOrder
<1>8. ASSUME NEW w \in Ticks, TickStart(w) PROVE InOrder'
  <2>1. /\ tick'[w].pc = "next"
        /\ tick'[w].todo = {l \in Links : status[l] = "PARTIALLY_SUCCESS"}
        /\ \A v \in Ticks : v # w => tick'[v] = tick[v]
    <3> DEFINE selected == {l \in Links : status[l] = "PARTIALLY_SUCCESS"}
    <3> DEFINE started(free) == [IdleTick EXCEPT !.pc = "next", !.todo = selected,
                                                 !.amount = received, !.free = free]
    <3>1. \E free \in BOOLEAN : tick' = [tick EXCEPT ![w] = started(free)]
      BY <1>8 DEF TickStart
    <3> HIDE DEF selected
    <3>2. \A free \in BOOLEAN : started(free).pc = "next" /\ started(free).todo = selected
      BY DEF IdleTick
    <3> HIDE DEF started
    <3>3. tick'[w].pc = "next" /\ tick'[w].todo = selected
          /\ \A v \in Ticks : v # w => tick'[v] = tick[v]
      BY <1>0, <3>1, <3>2 DEF TypeOK
    <3> QED BY <3>3 DEF selected
  <2>2. status' = status /\ row' = row /\ detector' = detector
    BY <1>8 DEF TickStart, linkVars
  <2>3. /\ "payouts" \notin overlapped' =>
             "payouts" \notin overlapped /\ \A v \in Ticks : tick[v].pc = "idle"
        /\ "detectors" \notin overlapped' <=> "detectors" \notin overlapped
    BY <1>8 DEF TickStart
  <2>4. IdleHoldsNone'
    BY <2>1, <2>2 DEF InOrder, IdleHoldsNone
  <2>5. OneAtATime'
    BY <2>1, <2>2, <2>3 DEF InOrder, OneAtATime
  <2>6. RowFirst'
    BY <2>2 DEF InOrder, RowFirst
  <2>7. DetectorsInOrder'
    BY <2>2, <2>3 DEF InOrder, DetectorsInOrder
  <2>8. PayoutsInOrder'
    BY <2>1, <2>2, <2>3 DEF InOrder, PayoutsInOrder
  <2> QED BY <1>0, <2>4, <2>5, <2>6, <2>7, <2>8 DEF InOrder
<1>9. ASSUME NEW w \in Ticks, NEW l \in Links, Transfer(w, l) PROVE InOrder'
  <2>1. /\ tick[w].pc = "next" /\ l \in tick[w].todo
        /\ tick'[w].pc \in {"next", "record"}
        /\ tick'[w].link = l /\ tick'[w].todo = tick[w].todo \ {l}
        /\ \A v \in Ticks : v # w => tick'[v] = tick[v]
    <3>1. \E p \in {"next", "record"} :
            tick' = [tick EXCEPT ![w].pc = p, ![w].link = l, ![w].todo = @ \ {l}]
      BY <1>9 DEF Transfer
    <3>2. tick \in [Ticks -> TickState] /\ tick[w] \in TickState
      BY <1>0 DEF TypeOK
    <3> QED BY <1>9, <3>1, <3>2 DEF Transfer, TickState
  <2>2. status' = status /\ row' = row /\ detector' = detector /\ overlapped' = overlapped
    BY <1>9 DEF Transfer, linkVars, history
  <2>3. IdleHoldsNone'
    BY <2>1, <2>2 DEF InOrder, IdleHoldsNone
  <2>4. OneAtATime'
    BY <2>1, <2>2 DEF InOrder, OneAtATime
  <2>5. RowFirst'
    BY <2>2 DEF InOrder, RowFirst
  <2>6. DetectorsInOrder'
    BY <2>2 DEF InOrder, DetectorsInOrder
  <2>7. PayoutsInOrder'
    BY <2>1, <2>2 DEF InOrder, PayoutsInOrder
  <2> QED BY <1>0, <2>3, <2>4, <2>5, <2>6, <2>7 DEF InOrder
<1>10. ASSUME NEW w \in Ticks, Record(w) PROVE InOrder'
  <2> DEFINE l == tick[w].link
  <2>1. /\ tick[w].pc = "record" /\ tick'[w].pc = "next" /\ tick'[w].todo = tick[w].todo
        /\ \A v \in Ticks : v # w => tick'[v] = tick[v]
    BY <1>0, <1>10 DEF Record, TypeOK, TickState
  <2>2. row' = row /\ detector' = detector /\ overlapped' = overlapped
    BY <1>10 DEF Record, history
  <2>3. l \in Links /\ status[l] \in Confirmed /\ l \notin tick[w].todo
    BY <2>1 DEF InOrder, PayoutsInOrder
  <2>4. /\ status'[l] = "SUCCESS" \/ status'[l] = status[l]
        /\ \A m \in Links : m # l => status'[m] = status[m]
    BY <1>0, <1>10, <2>3 DEF Record, TypeOK
  <2>a. \A e \in Detectors : detector[e].todo \subseteq Links
    BY <1>0 DEF TypeOK, DetectorState
  <2>b. \A v \in Ticks : tick[v].todo \subseteq Links
    BY <1>0 DEF TypeOK, TickState
  <2> HIDE DEF l
  <2>c. \A m \in Links : status'[m] \in Confirmed <=> status[m] \in Confirmed
    BY <2>3, <2>4
  <2>5. IdleHoldsNone'
    BY <2>1, <2>2 DEF InOrder, IdleHoldsNone
  <2>6. OneAtATime'
    BY <2>1, <2>2 DEF InOrder, OneAtATime
  <2>7. RowFirst'
    BY <2>2, <2>c DEF InOrder, RowFirst
  <2>8. DetectorsInOrder'
    BY <2>2, <2>a, <2>c DEF InOrder, DetectorsInOrder
  <2>9. PayoutsInOrder'
    <3> SUFFICES ASSUME NEW v \in Ticks
                 PROVE  /\ tick'[v].pc = "record" =>
                             /\ tick'[v].link \in Links /\ status'[tick'[v].link] \in Confirmed
                             /\ tick'[v].link \notin tick'[v].todo
                        /\ \A m \in tick'[v].todo : status'[m] \in Confirmed
                        /\ "payouts" \notin overlapped' =>
                             \A m \in tick'[v].todo : status'[m] # "SUCCESS"
      BY DEF PayoutsInOrder
    <3>1. tick'[v].pc = "record" =>
             /\ tick'[v].link \in Links /\ status'[tick'[v].link] \in Confirmed
             /\ tick'[v].link \notin tick'[v].todo
      BY <2>1, <2>c DEF InOrder, PayoutsInOrder
    <3>2. tick'[v].todo = tick[v].todo
      BY <2>1
    <3>3. \A m \in tick'[v].todo : status'[m] \in Confirmed
      BY <2>b, <2>c, <3>2 DEF InOrder, PayoutsInOrder
    <3>4. ASSUME "payouts" \notin overlapped', NEW m \in tick'[v].todo
          PROVE  status'[m] # "SUCCESS"
      <4>1. v = w
        BY <2>1, <2>2, <3>2, <3>4 DEF InOrder, OneAtATime, IdleHoldsNone
      <4>2. m # l /\ m \in Links /\ m \in tick[w].todo
        BY <2>3, <2>b, <3>2, <3>4, <4>1
      <4> QED BY <2>2, <2>4, <3>4, <4>2 DEF InOrder, PayoutsInOrder
    <3> QED BY <3>1, <3>3, <3>4
  <2> QED BY <1>0, <2>5, <2>6, <2>7, <2>8, <2>9 DEF InOrder
<1>11. ASSUME NEW w \in Ticks, TickEnd(w) PROVE InOrder'
  <2>1. /\ tick'[w].pc = "idle" /\ tick'[w].todo = {}
        /\ \A v \in Ticks : v # w => tick'[v] = tick[v]
    BY <1>0, <1>11 DEF TickEnd, TypeOK, IdleTick
  <2>2. status' = status /\ row' = row /\ detector' = detector /\ overlapped' = overlapped
    BY <1>11 DEF TickEnd, linkVars, history
  <2>3. IdleHoldsNone'
    BY <2>1, <2>2 DEF InOrder, IdleHoldsNone
  <2>4. OneAtATime'
    BY <2>1, <2>2 DEF InOrder, OneAtATime
  <2>5. RowFirst'
    BY <2>2 DEF InOrder, RowFirst
  <2>6. DetectorsInOrder'
    BY <2>2 DEF InOrder, DetectorsInOrder
  <2>7. PayoutsInOrder'
    BY <2>1, <2>2 DEF InOrder, PayoutsInOrder
  <2> QED BY <1>0, <2>3, <2>4, <2>5, <2>6, <2>7 DEF InOrder
<1>13. ASSUME NEW l \in Links, Create(l) PROVE InOrder'
  <2>1. \A m \in Links : row[m] \in Found => row'[m] \in Found
    BY <1>0, <1>13 DEF Create, Exists, TypeOK
  <2>2. UNCHANGED <<status, detector, tick, overlapped>>
    BY <1>13 DEF Create, linkVars, history
  <2>3. \A d \in Detectors : detector[d].todo \subseteq Links
    BY <1>0 DEF TypeOK, DetectorState
  <2>4. RowFirst'
    BY <2>1, <2>2, <2>3 DEF InOrder, RowFirst
  <2> QED BY <1>0, <2>2, <2>4 DEF InOrder, IdleHoldsNone, OneAtATime, DetectorsInOrder, PayoutsInOrder
<1>12. ASSUME UNCHANGED vars PROVE InOrder'
  BY <1>0, <1>12 DEF vars, linkVars, history, InOrder, IdleHoldsNone, OneAtATime, RowFirst,
                     DetectorsInOrder, PayoutsInOrder
<1> QED BY <1>1, <1>2, <1>3, <1>4, <1>5, <1>6, <1>7, <1>8, <1>9, <1>10, <1>11, <1>12, <1>13
        DEF Next, DetectorStep, TickStep

LEMMA InitOrdered == Init => InOrder
BY InitTyped
   DEF Init, InOrder, IdleHoldsNone, OneAtATime, RowFirst, DetectorsInOrder, PayoutsInOrder,
       IdleDetector, IdleTick, Confirmed, Found

\* A step leaves a settled link alone when no ticks have overlapped.
LEMMA SettledStep ==
  ASSUME InOrder, [Next]_vars, NEW l \in Links, status[l] = "SUCCESS",
         "detectors" \notin overlapped
  PROVE  status'[l] = "SUCCESS" /\ ("payouts" \notin overlapped => spent'[l] = spent[l])
<1>0. TypeOK
  BY DEF InOrder
<1>1. CASE UNCHANGED <<linkVars, spent>>
  BY <1>1 DEF linkVars
<1>2. ASSUME NEW m \in Links, Expire(m)
      PROVE  status'[l] = "SUCCESS" /\ spent'[l] = spent[l]
  BY <1>0, <1>2 DEF Expire, TypeOK, chainVars
<1>3. ASSUME NEW d \in Detectors, NEW m \in Links, DetectStore(d, m)
      PROVE  status'[l] = "SUCCESS" /\ spent'[l] = spent[l]
  <2>1. m \in detector[d].todo
    BY <1>3 DEF DetectStore
  <2>2. m # l
    BY <2>1 DEF InOrder, DetectorsInOrder, Confirmed
  <2> QED BY <1>0, <1>3, <2>2 DEF DetectStore, TypeOK, chainVars
<1>4. ASSUME NEW w \in Ticks, Record(w)
      PROVE  status'[l] = "SUCCESS" /\ spent'[l] = spent[l]
  BY <1>0, <1>4 DEF Record, TypeOK, chainVars
<1>5. ASSUME NEW w \in Ticks, NEW m \in Links, Transfer(w, m)
      PROVE  status'[l] = "SUCCESS" /\ ("payouts" \notin overlapped => spent'[l] = spent[l])
  <2>1. m \in tick[w].todo /\ status' = status
    BY <1>5 DEF Transfer, linkVars
  <2>2. "payouts" \notin overlapped => m # l
    BY <2>1 DEF InOrder, PayoutsInOrder
  <2>3. m # l => spent'[l] = spent[l]
    BY <1>0, <1>5 DEF Transfer, TypeOK, chainVars
  <2> QED BY <2>1, <2>2, <2>3
<1>6. ASSUME NEW t \in Txs, Arrive(t) PROVE UNCHANGED <<linkVars, spent>>
  BY <1>6 DEF Arrive, chainVars
<1>10. ASSUME NEW m \in Links, Create(m) PROVE UNCHANGED <<linkVars, spent>>
  BY <1>10 DEF Create, chainVars
<1>7. ASSUME NEW d \in Detectors,
             DetectStart(d) \/ DetectLook(d) \/ DetectMark(d) \/ DetectEnd(d)
      PROVE  UNCHANGED <<linkVars, spent>>
  BY <1>7 DEF DetectStart, DetectLook, DetectMark, DetectEnd, chainVars
<1>8. ASSUME NEW w \in Ticks, TickStart(w) \/ TickEnd(w)
      PROVE  UNCHANGED <<linkVars, spent>>
  BY <1>8 DEF TickStart, TickEnd, chainVars
<1>9. ASSUME UNCHANGED vars PROVE UNCHANGED <<linkVars, spent>>
  BY <1>9 DEF vars, chainVars
<1> QED BY <1>1, <1>2, <1>3, <1>4, <1>5, <1>6, <1>7, <1>8, <1>9, <1>10
        DEF Next, DetectorStep, TickStep

\* A settled link stays settled and its address is left alone, for any number of
\* links, transfers and ticks and after any faults: the detector takes only rows that nobody
\* has filled in and the payout only links that await one, so that a single tick
\* of each never comes back to the link.
THEOREM SettledStays == Spec => SettledIsFinal
<1>1. InOrder /\ [Next]_vars =>
        [\A l \in Links :
           status[l] = "SUCCESS" /\ "detectors" \notin overlapped =>
             /\ status'[l] = "SUCCESS"
             /\ "payouts" \notin overlapped => spent'[l] = spent[l]]_vars
  BY SettledStep
<1> QED BY InitOrdered, OrderedStep, <1>1, PTL DEF Spec, SettledIsFinal
=============================================================================
