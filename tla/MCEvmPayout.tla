----------------------------- MODULE MCEvmPayout -----------------------------
(***************************************************************************)
(* An instance of EvmPayout for TLC: the ERC-20 link le and the native     *)
(* link ln receive 4 each.  The fee is half of what is there, so that two  *)
(* ticks that overlap can take all of it.                                  *)
(*                                                                         *)
(* A behaviour has overlapping ticks and a fault, or an admin request and  *)
(* a fault, or two faults.  The tick w2 is only used to overlap.           *)
(***************************************************************************)
EXTENDS EvmPayout

CONSTANTS le, ln, w1, w2

MCReceived == [l \in Links |-> 4]
MCAdminShare == [n \in 0..4 |-> n \div 2]

Bounded ==
  /\ "overlap" \in happened => manual = 0 /\ faults <= 1
  /\ manual + faults <= MaxFaults
  /\ tick[w2].pc # "idle" => "overlap" \in happened

MCNext == Next /\ Bounded'

MCSpec == Init /\ [][MCNext]_vars /\ \A w \in Ticks : WF_vars(TickStep(w) /\ Bounded')
=============================================================================
