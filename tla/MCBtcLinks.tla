----------------------------- MODULE MCBtcLinks -----------------------------
(***************************************************************************)
(* An instance of BtcLinks for TLC: la needs 2 and receives 3, 2 and 1.    *)
(* The admin's half of 2 and the network fee of 1 leave nothing for the    *)
(* merchant.  lb is created later and is not paid; a tick looks at one     *)
(* link.                                                                   *)
(*                                                                         *)
(* A behaviour has up to two of: detectors that overlap, payouts that      *)
(* overlap, a fault, and lb.  The ticks d2 and w2 are only used to overlap. *)
(***************************************************************************)
EXTENDS BtcLinks

CONSTANTS la, lb, t1, t2, t3, d2, w2

MCCreatedAt == [l \in Links |-> IF l = la THEN 1 ELSE 2]
MCRequired == [l \in Links |-> 2]
MCTxTo == [t \in Txs |-> la]
MCTxAmount == [t \in Txs |-> CASE t = t1 -> 3 [] t = t2 -> 2 [] OTHER -> 1]

Bounded ==
  /\ Cardinality(overlapped) + faults + (IF Exists(lb) THEN 1 ELSE 0) <= 2
  /\ detector[d2].pc # "idle" => "detectors" \in overlapped
  /\ tick[w2].pc # "idle" => "payouts" \in overlapped

MCNext == Next /\ Bounded'

MCSpec ==
  /\ Init /\ [][MCNext]_vars
  /\ \A d \in Detectors : WF_vars(DetectorStep(d) /\ Bounded')
  /\ \A w \in Ticks : WF_vars(TickStep(w) /\ Bounded')
=============================================================================
