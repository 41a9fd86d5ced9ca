---------------------------- MODULE MCTronLinks ----------------------------
(***************************************************************************)
(* An instance of TronLinks for TLC: link la holds a token and is paid by  *)
(* t1, or in two transfers, ln is paid in TRX by t3; a fee of 1 is         *)
(* contained in 3 and in 4.                                                *)
(*                                                                         *)
(* A behaviour looks closely at the detectors of one link, with up to two  *)
(* faults of theirs while the payout works; or at the payout of both, with *)
(* one fault, while only the cron detects.                                 *)
(***************************************************************************)
EXTENDS TronLinks

CONSTANTS la, ln, t1, t2, t3

VARIABLE part

MCRequired == [l \in Links |-> 3]
MCTxTo == [t \in Txs |-> IF t = t3 THEN ln ELSE la]
MCTxAmount == [t \in Txs |-> IF t = t2 THEN 1 ELSE 3]
MCNetOf == [n \in Amounts |-> IF n >= 3 THEN n - 1 ELSE n]

DetectFaults == {"read", "listing", "abort"}

Detecting ==
  /\ happened \subseteq DetectFaults /\ retries[la] <= 1
  /\ status[ln] = "EXPIRED" /\ t3 \notin sent
Paying ==
  /\ faults <= 1 /\ happened \cap DetectFaults = {}
  /\ t2 \notin sent /\ \A t \in Txs : deliveries[t] = 0
Bounded == IF part = "detect" THEN Detecting' ELSE Paying'

MCInit == Init /\ part \in {"detect", "payout"} /\ (part = "detect" => broken = {})

MCNext == Next /\ UNCHANGED part /\ Bounded

MCSpec ==
  /\ MCInit /\ [][MCNext]_<<vars, part>>
  /\ \A l \in Links : WF_vars(Sync(l) /\ Bounded)
  /\ \A h \in Handlers : WF_vars(HandlerStep(h) /\ Bounded)
  /\ \A c \in Crons : WF_vars(CronStep(c) /\ Bounded)
  /\ \A w \in Ticks : WF_vars(TickStep(w) /\ Bounded)

\* Neither a silent Tatum nor a link that breaks the payout stops the others.
PaidIsSettled == PaidIsDetected /\ (part = "payout" => OthersAreSettled)
=============================================================================
