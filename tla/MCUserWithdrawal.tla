-------------------------- MODULE MCUserWithdrawal --------------------------
(***************************************************************************)
(* Instances of UserWithdrawal for TLC: w2 is larger than the others.      *)
(***************************************************************************)
EXTENDS UserWithdrawal, TLC

CONSTANTS w1, w2, w3, w4

MCAmount == [w \in Withdrawals |-> IF w = w2 THEN 3 ELSE 1]
MCFee == [w \in Withdrawals |-> IF w = w3 THEN 0 ELSE 1]

\* Activations of one kind are interchangeable.
MCSymmetry == Permutations(Desks) \cup Permutations(Clerks) \cup Permutations(Jobs)
=============================================================================
