---------------------------- MODULE MCEvmDeposits ----------------------------
(***************************************************************************)
(* Instances of EvmDeposits for TLC.  Link la needs 2 and is paid in two   *)
(* transfers of 1; link lb needs 1; the app's own wallet receives ta.      *)
(***************************************************************************)
EXTENDS EvmDeposits

CONSTANTS la, lb, xa, xb, xapp, t1, t2, t3, ta, b1, b2, b3

MCAddressOf == [l \in Links |-> IF l = la THEN xa ELSE xb]
MCRequired == [l \in Links |-> IF l = la THEN 2 ELSE 1]

\* t1 and t2 pay la, t3 pays lb and ta pays the app.
MCTxTo == [t \in Txs |-> CASE t \in {t1, t2} -> xa [] t = t3 -> xb [] OTHER -> xapp]
MCTxAmount == [t \in Txs |-> 1]
MCTxBlock == [t \in Txs |-> CASE t = t1 -> b1 [] t = t2 -> b2 [] OTHER -> b3]

\* Of t1 and ta one may be delivered twice, the other transfers once.
Bounded == \E r \in {t1, ta} : \A t \in Txs : deliveries[t] > 1 => t = r
MCSpec == Init /\ [][Next /\ Bounded']_vars /\ Fairness
=============================================================================
