-------------------------- MODULE MCPaymentLifecycle --------------------------
(***************************************************************************)
(* Instance of PaymentLifecycle for TLC: two links that were created at    *)
(* the same time share one address, to which a transfer of 1 and one of 2  *)
(* are made; la needs 3, lb needs 2.  A behaviour has an abort or a        *)
(* transfer that is delivered again.                                       *)
(***************************************************************************)
EXTENDS PaymentLifecycle, TLC

CONSTANTS la, lb, xa, xapp, t1, t2, b1, b2

MCSharedAddress == [l \in Links |-> xa]
MCRequired == [l \in Links |-> IF l = la THEN 3 ELSE 2]
MCTxTo == [t \in Txs |-> xa]
MCTxAmount == [t \in Txs |-> IF t = t1 THEN 1 ELSE 2]
MCTxBlock == [t \in Txs |-> IF t = t1 THEN b1 ELSE b2]

Bounded == aborts = 0 \/ \A t \in Txs : deliveries[t] <= 1
MCSpec == LifecycleInit /\ [][LifecycleNext /\ Bounded']_lifecycleVars

\* Activations of stream are interchangeable.
MCSymmetry == Permutations(Handlers)
=============================================================================
