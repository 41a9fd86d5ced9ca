----------------------------- MODULE MCAppWallet -----------------------------
(***************************************************************************)
(* Instances of AppWallet for TLC.  The EVM wallet xe has two withdrawals, *)
(* of which we pays a fee; the TRON wallet xt one of a token, a deposit of *)
(* it and a transfer that cannot be read; the TRON wallet xx two of TRX;   *)
(* the Bitcoin wallet xb one with a fee, one that is invalid, and a        *)
(* deposit.  Each wallet holds 3 of each token: 2 and the fee of 1 just.   *)
(* The deposits dt and db come from the wallet of another app.             *)
(*                                                                         *)
(* A state has at most one of: a fault, a newer app, a row of another app. *)
(* A second tick m2 starts only beside m1, and not beside the other two.   *)
(***************************************************************************)
EXTENDS AppWallet

CONSTANTS xe, xt, xx, xb, dt, du, db, we, wf, wt, wx, wy, wb, wv, m1, m2

MCChainOf == [x \in Wallets |-> CASE x = xe -> "EVM" [] x = xb -> "BTC" [] OTHER -> "TRON"]
MCWalletOf == [x \in Deposits \cup Requests |->
  CASE x \in {we, wf} -> xe [] x \in {db, wb, wv} -> xb [] x \in {wx, wy} -> xx [] OTHER -> xt]
MCValue == [d \in Deposits |-> 1]
MCNet == [w \in Requests |-> IF w \in {wf, wy} THEN 1 ELSE 2]
MCFee == [w \in Requests |-> IF w \in {wf, wy} THEN 0 ELSE 1]

Bounded ==
  LET beside == newer + Cardinality(elsewhere) IN
  faults + beside <= 1 /\ (tick[m2].pc = "idle" \/ beside = 0)

MCNext ==
  /\ Next /\ Bounded'
  /\ tick[m2].pc = "idle" /\ tick'[m2].pc # "idle" => tick[m1].pc # "idle"

MCSpec == Init /\ [][MCNext]_vars /\ Fairness
=============================================================================
