--------------------------- MODULE MCLinkCreation ---------------------------
(***************************************************************************)
(* Instances of LinkCreation for TLC: l4 and l5 are paid in Bitcoin, the   *)
(* others in ETH.                                                          *)
(***************************************************************************)
EXTENDS LinkCreation, TLC

CONSTANTS l1, l2, l3, l4, l5

MCNetworkOf ==
  [l \in Links |-> CASE l \in {l4, l5} -> "BITCOIN" [] OTHER -> "EVM"]

\* Requests for one network are interchangeable.
MCSymmetry == Permutations({l1, l2, l3} \cap Links) \cup Permutations({l4, l5} \cap Links)
=============================================================================
