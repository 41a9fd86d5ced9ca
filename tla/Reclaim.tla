------------------------------ MODULE Reclaim ------------------------------
(***************************************************************************)
(* reclaimLeftoverFunds: every 15 minutes a cron looks for links that are  *)
(* paid out and sweeps what is left on their wallets, gas and tokens, to   *)
(* the platform.  A token transfer needs gas, which the platform sends to  *)
(* the wallet first, so that an attempt that fails costs money: three      *)
(* attempts are made, and the wallet is closed.                            *)
(*                                                                         *)
(* A tick reads its links once and works on them one after the other; two  *)
(* ticks may overlap.  On TRON an attempt goes through the tokens that a   *)
(* listing of the wallet returned, and may send gas for each of them; on   *)
(* an EVM chain it looks at the token of the link only.  Amounts matter by *)
(* the thresholds between them: a token is worth nothing, Dust, Small      *)
(* (more than dust, and less than its gas when that is dear), or more; gas *)
(* is 0, 1 (worth sweeping) or 2 (enough for a token at the last price).   *)
(***************************************************************************)
EXTENDS Naturals, FiniteSets

CONSTANTS
  Settled,          \* links
  Batches,          \* sets of links, one of which has been paid out
  OnTron,           \* those of them on TRON; the others are on an EVM chain
  Keyless,          \* those whose private key cannot be decrypted
  Tokens,           \* tokens
  LinkToken,        \* LinkToken[l]: the token of an EVM link, {} if it is native
  LeftToken,        \* LeftToken[l][t]: what the payout left of token t
  TokenPage,        \* tokens that a listing returns, 50 in the code
  Collectors,       \* overlapping ticks of the cron
  Limit,            \* links that one tick takes, 10 in the code
  MaxReclaimFaults  \* bound: errors, lost answers and crashes

MaxReclaimRetries == 3
Dust  == 1
Small == 2
Worth == 3

ASSUME ReclaimAssumption ==
  /\ Batches \subseteq SUBSET Settled
  /\ OnTron \subseteq Settled /\ Keyless \subseteq Settled
  /\ LinkToken \in [Settled -> SUBSET Tokens]
  /\ LeftToken \in [Settled -> [Tokens -> Nat]]
  /\ TokenPage \in Nat \ {0}
  /\ IsFiniteSet(Tokens)
  /\ IsFiniteSet(Collectors)
  /\ Limit \in Nat \ {0}
  /\ MaxReclaimFaults \in Nat

VARIABLES
  paidOut,     \* links with status and withdrawStatus SUCCESS
  reclaimed,   \* payment_links.fundsReclaimed
  retries,     \* payment_links.reclaimRetryCount
  fresh,       \* links with an updatedAt of the last 10 minutes
  tokens,      \* tokens[l][t]: token t on the wallet of link l
  gas,         \* native coins on it
  funded,      \* funded[l][t]: how often the platform sent it gas for t
  collector,   \* what each tick knows
  reclaimFaults, \* errors, lost answers and crashes so far
  late,        \* history: links that got tokens after their payout
  crowded,     \* history: links that two ticks held at once
  unseen       \* history: links with a transfer whose receipt timed out, or with
               \* a listing that was cut short

walletState == <<tokens, gas, funded>>
reclaimVars == <<paidOut, reclaimed, retries, fresh, walletState, collector,
                 reclaimFaults, late, crowded, unseen>>

IdleCollector == [pc |-> "idle", queue |-> {}, seen |-> [l \in Settled |-> 0],
                  link |-> {}, listed |-> [t \in Tokens |-> 0], coin |-> {},
                  amount |-> 0, ok |-> TRUE]

CollectorState ==
  [pc : {"idle", "next", "readTokens", "tokens", "sendToken", "sendNative", "mark"},
   queue : SUBSET Settled, seen : [Settled -> Nat], link : SUBSET Settled,
   listed : [Tokens -> Nat], coin : SUBSET Tokens, amount : Nat, ok : BOOLEAN]

ReclaimTypeOK ==
  /\ paidOut \in Batches
  /\ reclaimed \in [Settled -> BOOLEAN] /\ retries \in [Settled -> Nat]
  /\ fresh \subseteq Settled
  /\ tokens \in [Settled -> [Tokens -> Nat]] /\ gas \in [Settled -> 0..2]
  /\ funded \in [Settled -> [Tokens -> Nat]]
  /\ collector \in [Collectors -> CollectorState]
  /\ reclaimFaults \in 0..MaxReclaimFaults
  /\ late \subseteq Settled /\ crowded \subseteq Settled /\ unseen \subseteq Settled

\* The payout has just been recorded.
ReclaimInit ==
  /\ paidOut \in Batches
  /\ reclaimed = [l \in Settled |-> FALSE] /\ retries = [l \in Settled |-> 0]
  /\ fresh = Settled
  /\ tokens = LeftToken /\ gas = [l \in Settled |-> 0]
  /\ funded = [l \in Settled |-> [t \in Tokens |-> 0]]
  /\ collector = [m \in Collectors |-> IdleCollector]
  /\ reclaimFaults = 0
  /\ late = {} /\ crowded = {} /\ unseen = {}

-----------------------------------------------------------------------------
\* Ten minutes pass.
Ages(l) ==
  /\ l \in paidOut \cap fresh
  /\ fresh' = fresh \ {l}
  /\ UNCHANGED <<paidOut, reclaimed, retries, walletState, collector, reclaimFaults,
                 late, crowded, unseen>>

\* A customer pays a second time, in whatever token.
PaidAgain(l, t) ==
  /\ l \in paidOut \ late
  /\ late' = late \cup {l}
  /\ tokens' = [tokens EXCEPT ![l][t] = @ + Worth]
  /\ UNCHANGED <<paidOut, reclaimed, retries, fresh, gas, funded, collector,
                 reclaimFaults, crowded, unseen>>

-----------------------------------------------------------------------------
(* A tick m.  link is the one it works on: {l}, or {} between two links.   *)

Work(m) == CHOOSE l \in collector[m].link : TRUE
Becomes(m, c) == collector' = [collector EXCEPT ![m] = c]
Stage(m, pc) == [collector[m] EXCEPT !.pc = pc]

\* After the last sweep: marked if all went well.
Closing(m, ok) ==
  IF ok THEN Stage(m, "mark")
  ELSE [Stage(m, "next") EXCEPT !.link = {}, !.ok = TRUE, !.amount = 0]

Ready == {l \in paidOut : ~reclaimed[l] /\ l \notin fresh}

HeldByOthers(m) ==
  UNION {collector[n].queue \cup collector[n].link : n \in Collectors \ {m}}

\* find ... limit(10): the retry counters are those of this moment.
Select(m) ==
  /\ collector[m].pc = "idle" /\ Ready # {}
  /\ \E q \in SUBSET Ready :
       /\ Cardinality(q) = IF Cardinality(Ready) < Limit THEN Cardinality(Ready) ELSE Limit
       /\ Becomes(m, [IdleCollector EXCEPT
            !.pc = "next", !.queue = q,
            !.seen = [l \in Settled |-> IF l \in q THEN retries[l] ELSE 0]])
       /\ crowded' = crowded \cup (q \cap HeldByOthers(m))
  /\ UNCHANGED <<paidOut, reclaimed, retries, fresh, walletState, reclaimFaults, late, unseen>>

Dequeued(m, l) ==
  [collector[m] EXCEPT !.queue = @ \ {l}, !.seen[l] = 0]

\* Mutant: the counter is not looked at.
MSpent(m, l) == FALSE

Spent(m, l) == collector[m].seen[l] + 1 > MaxReclaimRetries

\* The attempts are used up: the wallet is closed with what is left on it.
GiveUp(m, l) ==
  /\ collector[m].pc = "next" /\ l \in collector[m].queue
  /\ Spent(m, l)
  /\ reclaimed' = [reclaimed EXCEPT ![l] = TRUE]
  /\ retries' = [retries EXCEPT ![l] = collector[m].seen[l] + 1]
  /\ fresh' = fresh \cup {l}
  /\ Becomes(m, Dequeued(m, l))
  /\ UNCHANGED <<paidOut, walletState, reclaimFaults, late, crowded, unseen>>

\* $inc, which sets updatedAt too; then the key is decrypted.
Attempt(m, l) ==
  /\ collector[m].pc = "next" /\ l \in collector[m].queue
  /\ ~Spent(m, l)
  /\ retries' = [retries EXCEPT ![l] = @ + 1]
  /\ fresh' = fresh \cup {l}
  /\ Becomes(m, [Dequeued(m, l) EXCEPT
                   !.pc = IF l \in Keyless THEN "mark" ELSE "readTokens", !.link = {l}])
  /\ UNCHANGED <<paidOut, reclaimed, walletState, reclaimFaults, late, crowded, unseen>>

TickIsOver(m) ==
  /\ collector[m].pc = "next" /\ collector[m].queue = {}
  /\ Becomes(m, IdleCollector)
  /\ UNCHANGED <<paidOut, reclaimed, retries, fresh, walletState, reclaimFaults, late,
                 crowded, unseen>>

\* The tokens that an attempt looks for, and those that it may find.
LooksFor(l) == IF l \in OnTron THEN Tokens ELSE LinkToken[l]
Holds(l) == {t \in LooksFor(l) : tokens[l][t] > 0}

\* What a listing returns: TokenPage tokens at most.
ListingsOf(l) ==
  {q \in SUBSET Holds(l) :
     Cardinality(q) = IF Cardinality(Holds(l)) < TokenPage THEN Cardinality(Holds(l))
                      ELSE TokenPage}

\* The balances of all tokens are read before the first is sent.  Dust is left
\* where it is, and on an EVM chain a small balance too, when gas is dear.
ReadTokens(m) ==
  LET l == Work(m) IN
  /\ collector[m].pc = "readTokens"
  /\ \E q \in ListingsOf(l),
        dear \in SUBSET {t \in Holds(l) : tokens[l][t] <= Small /\ l \notin OnTron} :
       /\ Becomes(m, [Stage(m, "tokens") EXCEPT
            !.listed = [t \in Tokens |->
              IF t \in q \ dear /\ tokens[l][t] > Dust THEN tokens[l][t] ELSE 0]])
       /\ unseen' = IF q = Holds(l) THEN unseen ELSE unseen \cup {l}
  /\ UNCHANGED <<paidOut, reclaimed, retries, fresh, walletState, reclaimFaults, late, crowded>>

\* Tick m is done with token t.
Done(m, t, ok) ==
  [Stage(m, "tokens") EXCEPT !.listed[t] = 0, !.coin = {}, !.ok = @ /\ ok]

\* The platform sends gas for t unless there is enough, at the price of the moment.
SendGas(l, t) ==
  /\ \/ gas[l] = 2 /\ UNCHANGED <<gas, funded>>
     \/ /\ gas' = [gas EXCEPT ![l] = 2]
        /\ funded' = [funded EXCEPT ![l][t] = @ + 1]
  /\ UNCHANGED tokens

\* On TRON the profit is looked at when the gas has been sent already: a small
\* balance is worth it or not, at the price of the moment.
FundGas(m, t) ==
  LET l == Work(m)
      due == collector[m].listed[t]
  IN
  /\ collector[m].pc = "tokens" /\ due > 0
  /\ SendGas(l, t)
  /\ \/ l \in OnTron /\ due <= Small /\ Becomes(m, Done(m, t, TRUE))
     \/ Becomes(m, [Stage(m, "sendToken") EXCEPT !.coin = {t}, !.amount = due,
                                                  !.listed[t] = 0])
  /\ UNCHANGED <<paidOut, reclaimed, retries, fresh, reclaimFaults, late, crowded, unseen>>

Coin(m) == CHOOSE t \in collector[m].coin : TRUE

\* The chain: the transfer moves the tokens, or reverts, and burns gas.
MovesTokens(m) ==
  LET l == Work(m) IN
  tokens[l][Coin(m)] >= collector[m].amount /\ gas[l] = 2

TokenTransfer(m) ==
  LET l == Work(m) IN
  /\ IF MovesTokens(m)
       THEN tokens' = [tokens EXCEPT ![l][Coin(m)] = @ - collector[m].amount]
       ELSE UNCHANGED tokens
  /\ \E g \in 0..1 : g <= gas[l] /\ gas' = [gas EXCEPT ![l] = g]
  /\ UNCHANGED funded

SendToken(m) ==
  /\ collector[m].pc = "sendToken"
  /\ TokenTransfer(m)
  /\ Becomes(m, Done(m, Coin(m), MovesTokens(m)))
  /\ UNCHANGED <<paidOut, reclaimed, retries, fresh, reclaimFaults, late, crowded, unseen>>

\* No token is left to be looked at.
TokensDone(m) == collector[m].pc = "tokens" /\ \A t \in Tokens : collector[m].listed[t] = 0

\* Mutant: after a failed token sweep the gas is left alone.
MReadNative(m) ==
  /\ TokensDone(m)
  /\ Becomes(m, IF gas[Work(m)] = 0 \/ ~collector[m].ok THEN Closing(m, TRUE)
                ELSE [Stage(m, "sendNative") EXCEPT !.amount = gas[Work(m)]])
  /\ UNCHANGED <<paidOut, reclaimed, retries, fresh, walletState, reclaimFaults, late,
                 crowded, unseen>>

ReadNative(m) ==
  /\ TokensDone(m)
  /\ Becomes(m, IF gas[Work(m)] = 0 THEN Closing(m, collector[m].ok)
                ELSE [Stage(m, "sendNative") EXCEPT !.amount = gas[Work(m)]])
  /\ UNCHANGED <<paidOut, reclaimed, retries, fresh, walletState, reclaimFaults, late,
                 crowded, unseen>>

\* What was read is sent, less the fee: too much when another tick was faster.
SendNative(m) ==
  LET l == Work(m)
      due == collector[m].amount
  IN
  /\ collector[m].pc = "sendNative"
  /\ gas' = [gas EXCEPT ![l] = IF @ >= due THEN @ - due ELSE @]
  /\ Becomes(m, Closing(m, collector[m].ok /\ gas[l] >= due))
  /\ UNCHANGED <<paidOut, reclaimed, retries, fresh, tokens, funded, reclaimFaults, late,
                 crowded, unseen>>

MarkReclaimed(m) ==
  /\ collector[m].pc = "mark"
  /\ reclaimed' = [reclaimed EXCEPT ![Work(m)] = TRUE]
  /\ fresh' = fresh \cup {Work(m)}
  /\ Becomes(m, Closing(m, FALSE))
  /\ UNCHANGED <<paidOut, retries, walletState, reclaimFaults, late, crowded, unseen>>

-----------------------------------------------------------------------------
ReclaimFault ==
  /\ reclaimFaults < MaxReclaimFaults
  /\ reclaimFaults' = reclaimFaults + 1

\* An error of one token's transfer is caught there, and the next token follows;
\* one of the listing ends the token part, one in the native part or of the node
\* the attempt, one of the database the work on the link.  Gas that is refused
\* for a token that is not worth it on TRON is no error.
Fails(m) ==
  /\ ReclaimFault
  /\ \/ /\ collector[m].pc = "readTokens"
        /\ Becomes(m, [Stage(m, "tokens") EXCEPT !.listed = [t \in Tokens |-> 0], !.ok = FALSE])
     \/ /\ collector[m].pc = "tokens"
        /\ \E t \in Tokens, ok \in BOOLEAN :
             /\ collector[m].listed[t] > 0
             /\ ok => Work(m) \in OnTron /\ collector[m].listed[t] <= Small
             /\ Becomes(m, Done(m, t, ok))
     \/ /\ collector[m].pc = "sendToken"
        /\ Becomes(m, Done(m, Coin(m), FALSE))
     \/ /\ TokensDone(m) \/ collector[m].pc \in {"readTokens", "sendNative", "mark"}
        /\ Becomes(m, Closing(m, FALSE))
     \/ /\ collector[m].pc = "next"
        /\ \E l \in collector[m].queue : Becomes(m, Dequeued(m, l))
  /\ UNCHANGED <<paidOut, reclaimed, retries, fresh, walletState, late, crowded, unseen>>

\* Gas or tokens are sent and the answer is lost.
SentButUnknown(m) ==
  /\ ReclaimFault
  /\ \/ /\ collector[m].pc = "tokens"
        /\ \E t \in Tokens : /\ collector[m].listed[t] > 0 /\ SendGas(Work(m), t)
                             /\ Becomes(m, Done(m, t, FALSE))
     \/ /\ collector[m].pc = "sendToken" /\ TokenTransfer(m)
        /\ Becomes(m, Done(m, Coin(m), FALSE))
  /\ UNCHANGED <<paidOut, reclaimed, retries, fresh, late, crowded, unseen>>

\* A TRC-20 transfer that has no receipt in time counts as sent.
ReceiptTimesOut(m) ==
  /\ collector[m].pc = "sendToken" /\ Work(m) \in OnTron
  /\ ReclaimFault
  /\ unseen' = unseen \cup {Work(m)}
  /\ Becomes(m, Done(m, Coin(m), TRUE))
  /\ UNCHANGED <<paidOut, reclaimed, retries, fresh, walletState, late, crowded>>

CollectorCrashes(m) ==
  /\ collector[m].pc # "idle"
  /\ ReclaimFault
  /\ Becomes(m, IdleCollector)
  /\ UNCHANGED <<paidOut, reclaimed, retries, fresh, walletState, late, crowded, unseen>>

-----------------------------------------------------------------------------
CollectorStep(m) ==
  \/ Select(m) \/ TickIsOver(m)
  \/ \E l \in Settled : GiveUp(m, l) \/ Attempt(m, l)
  \/ ReadTokens(m) \/ (\E t \in Tokens : FundGas(m, t)) \/ SendToken(m)
  \/ ReadNative(m) \/ SendNative(m) \/ MarkReclaimed(m)

ReclaimNext ==
  \/ \E l \in Settled : Ages(l) \/ \E t \in Tokens : PaidAgain(l, t)
  \/ \E m \in Collectors : CollectorStep(m)
  \/ \E m \in Collectors :
       Fails(m) \/ SentButUnknown(m) \/ ReceiptTimesOut(m) \/ CollectorCrashes(m)

ReclaimSpec == ReclaimInit /\ [][ReclaimNext]_reclaimVars

\* Time passes and the cron keeps firing.
ReclaimFairness ==
  /\ WF_reclaimVars(\E l \in Settled : Ages(l))
  /\ WF_reclaimVars(\E m \in Collectors : CollectorStep(m))

ReclaimFairSpec == ReclaimSpec /\ ReclaimFairness

-----------------------------------------------------------------------------
(* Properties.                                                             *)

\* "Stop after 3 failed attempts to prevent infinite gas drain": a wallet gets
\* gas for each of its tokens at most three times, and once more for each further
\* tick that may have read the counter before it was raised.
GasDrainIsBounded ==
  \A l \in Settled, t \in Tokens :
    funded[l][t] <= MaxReclaimRetries + (Cardinality(Collectors) - 1)

\* A wallet that was closed by a successful attempt holds nothing worth
\* sweeping, no gas of the platform either, whatever failed in the attempts
\* before.  Money that came later, a second tick at the same time, a receipt that
\* timed out and a listing that was cut short are what can be left behind; on an
\* EVM chain also every token but the link's own.
ClosedIsEmpty ==
  \A l \in Settled \ (late \cup crowded \cup unseen \cup Keyless) :
    reclaimed[l] /\ retries[l] <= MaxReclaimRetries =>
      gas[l] = 0 /\ \A t \in LooksFor(l) : tokens[l][t] <= Small

\* A sweep leaves nothing behind, in states that make sense.
WalletsAreEmptied == ReclaimTypeOK /\ ClosedIsEmpty

\* Every wallet is closed in the end, whatever fails.
EveryWalletIsClosed == <>(\A l \in paidOut : reclaimed[l])
=============================================================================
