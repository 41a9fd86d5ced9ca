----------------------------- MODULE LinkLedger -----------------------------
(***************************************************************************)
(* What the detection of deposits promises of a payment link, as if every  *)
(* transfer were credited in one step: the amount on record grows by the   *)
(* transfer, which was made to the address of the link; the credit that    *)
(* completes the required amount confirms the link; a confirmed link is    *)
(* not touched again; only a link that waits can expire.                   *)
(*                                                                         *)
(* A link that expires while a transfer is on its way may still be         *)
(* credited with it, and be confirmed.                                     *)
(***************************************************************************)
EXTENDS Naturals

CONSTANTS Links, Addresses, Txs, AddressOf, Required, TxTo, TxAmount

VARIABLES status, received

vars == <<status, received>>

Init ==
  /\ status = [l \in Links |-> "PENDING"]
  /\ received = [l \in Links |-> 0]

Credit(l, t) ==
  /\ status[l] # "PARTIALLY_SUCCESS"
  /\ TxTo[t] = AddressOf[l]
  /\ received' = [received EXCEPT ![l] = @ + TxAmount[t]]
  /\ status' = [status EXCEPT ![l] =
       IF received'[l] >= Required[l] THEN "PARTIALLY_SUCCESS" ELSE @]

\* All the links that one tick of the expiry cron finds.
Expire(ls) ==
  /\ \A l \in ls : status[l] = "PENDING"
  /\ status' = [l \in Links |-> IF l \in ls THEN "EXPIRED" ELSE status[l]]
  /\ UNCHANGED received

Next ==
  \/ \E l \in Links, t \in Txs : Credit(l, t)
  \/ \E ls \in SUBSET Links : Expire(ls)

Spec == Init /\ [][Next]_vars
=============================================================================
