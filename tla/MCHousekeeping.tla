-------------------------- MODULE MCHousekeeping --------------------------
(* The two crons that clean up, reclaimLeftoverFunds and                   *)
(* deleteAppsWhichIsNotExistAnymore.  They share no state: a behaviour has *)
(* a batch of links, or apps.  The TRON link lt is left with two tokens, a *)
(* second payment can bring a third, and a listing returns two of them;    *)
(* the EVM link lw is left with its own.                                   *)
(*                                                                         *)
(* A second tick c2 starts only beside c1.  A behaviour has two faults; or *)
(* a second payment; or two ticks hold a link at once, and one fault if it *)
(* is not lt.                                                              *)
EXTENDS Reclaim, AppRegistry

CONSTANTS lt, lw, lk, td, ts, tw, c1, c2, a1, a2

MCBatches == {{}, {lt}, {lw}, {lk}}
MCLinkToken == [l \in Settled |-> IF l = lw THEN {tw} ELSE {}]
MCLeftToken == [l \in Settled |-> [t \in Tokens |->
  CASE t = tw /\ l \in {lt, lw} -> Worth [] t = ts /\ l = lt -> Small [] t = td /\ l = lw -> Dust
  [] OTHER -> 0]]
MCOwner == [i \in AppIds |-> "m"]
MCTrim == [n \in Names |-> IF n = " n" THEN "n" ELSE n]

vars == <<reclaimVars, appVars>>

Bounded ==
  reclaimFaults + Cardinality(crowded) + Cardinality(crowded \cap {lt})
                + 2 * Cardinality(late) <= 2

SecondBesideFirst ==
  collector[c2].pc = "idle" /\ collector'[c2].pc # "idle" => collector[c1].pc # "idle"

Next ==
  \/ paidOut # {} /\ ReclaimNext /\ Bounded' /\ SecondBesideFirst /\ UNCHANGED appVars
  \/ paidOut = {} /\ RegistryNext /\ UNCHANGED reclaimVars

Init == ReclaimInit /\ RegistryInit

Spec ==
  /\ Init /\ [][Next]_vars
  /\ ReclaimFairness /\ RegistryFairness

\* Nothing is left to clean up in the end.
EverythingIsTidy == EveryWalletIsClosed /\ DeletedAppsAreForgotten
=============================================================================
