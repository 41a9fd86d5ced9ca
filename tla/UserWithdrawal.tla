--------------------------- MODULE UserWithdrawal ---------------------------
(***************************************************************************)
(* Withdrawals that a merchant's end user requests.                        *)
(*                                                                         *)
(* A request is checked against the cooldown and the daily limits and is   *)
(* stored as PENDING, or as AUTO_APPROVED if it is small and the app's     *)
(* wallet covers it.  The merchant, in the dashboard or through the API,   *)
(* approves or declines what is PENDING.  processWithdrawal then runs in   *)
(* the background: it pays the user, then the platform fee, and records    *)
(* the outcome.  Every await ends an action: between what a request has    *)
(* read and what it saves anything may happen, and save() has no condition *)
(* on the status.                                                          *)
(*                                                                         *)
(* The model has one user of one app, one day and one token, with a price  *)
(* of 1, so that amount and amountInUsd are the same.                      *)
(***************************************************************************)
EXTENDS Naturals, FiniteSets, FiniteSetsExt

CONSTANTS
  Withdrawals,   \* withdrawals that the user may request
  Amount,        \* Amount[w]: the amount of w
  Fee,           \* Fee[w]: the platform fee of w, 0 if it is dust
  Funds,         \* what the app's wallet holds at the start
  AutoLimit,     \* maxAutoWithdrawalLimit, 0 to approve nothing automatically
  RequestLimit,  \* dailyWithdrawalRequestLimit, 0 for none
  AmountLimit,   \* dailyWithdrawalAmountLimit, 0 for none
  HasCooldown,   \* whether withdrawalCooldownMinutes is positive
  Desks,         \* requests of the user that can be open at the same time
  Clerks,        \* approvals and declines that can be open at the same time
  Jobs,          \* bound: activations of processWithdrawal at the same time
  FaultKinds,    \* the kinds of faults that may happen
  MaxFaults,     \* bound: number of faults
  Nil            \* no withdrawal

\* failed: nothing sent.  lost: sent, but reported as an error.  unmined: a
\* TRON transfer that is reported as sent and never confirmed.
Faults == {"failed", "lost", "unmined", "fee", "write", "crash"}

ASSUME WithdrawalAssumption ==
  /\ Amount \in [Withdrawals -> Nat \ {0}]
  /\ Fee \in [Withdrawals -> Nat]
  /\ Funds \in Nat
  /\ AutoLimit \in Nat /\ RequestLimit \in Nat /\ AmountLimit \in Nat
  /\ HasCooldown \in BOOLEAN
  /\ Clerks # {} /\ IsFiniteSet(Clerks)
  /\ IsFiniteSet(Desks) /\ IsFiniteSet(Jobs)
  /\ FaultKinds \subseteq Faults
  /\ MaxFaults \in Nat
  /\ Nil \notin Withdrawals

Status == {"ABSENT", "PENDING", "AUTO_APPROVED", "APPROVED", "PROCESSING",
           "SUCCESS", "FAILED", "DECLINED"}

VARIABLES
  status,   \* user_withdrawals.status, or ABSENT
  recent,   \* withdrawals created less than the cooldown ago
  paid,     \* paid[w]: how often the user has received Amount[w]
  feePaid,  \* feePaid[w]: how often the platform has received Fee[w]
  funds,    \* what the app's wallet holds
  desk,     \* what each request of the user knows
  clerk,    \* what each approval or decline knows
  job,      \* what each activation of processWithdrawal knows
  faults,   \* faults so far
  happened  \* history: the kinds of faults so far, and what has overlapped

dbVars == <<status, recent>>
chainVars == <<paid, feePaid, funds>>
trouble == <<faults, happened>>
vars == <<dbVars, chainVars, desk, clerk, job, trouble>>

IdleDesk  == [pc |-> "idle", w |-> Nil, auto |-> FALSE]
IdleClerk == [pc |-> "idle", w |-> Nil, verdict |-> "APPROVED"]
IdleJob   == [pc |-> "idle", w |-> Nil]

DeskState ==
  [pc : {"idle", "cooldown", "limits", "balance", "insert", "start"},
   w : Withdrawals \cup {Nil}, auto : BOOLEAN]
ClerkState ==
  [pc : {"idle", "save", "start"}, w : Withdrawals \cup {Nil},
   verdict : {"APPROVED", "DECLINED"}]
JobState ==
  [pc : {"idle", "read", "begin", "transfer", "fee", "finish", "fail"},
   w : Withdrawals \cup {Nil}]

TypeOK ==
  /\ status \in [Withdrawals -> Status]
  /\ recent \in SUBSET Withdrawals
  /\ paid \in [Withdrawals -> Nat]
  /\ feePaid \in [Withdrawals -> Nat]
  /\ funds \in Nat
  /\ desk \in [Desks -> DeskState]
  /\ clerk \in [Clerks -> ClerkState]
  /\ job \in [Jobs -> JobState]
  /\ faults \in 0..MaxFaults
  /\ happened \subseteq Faults \cup {"requests", "decisions"}

Init ==
  /\ status = [w \in Withdrawals |-> "ABSENT"]
  /\ recent = {}
  /\ paid = [w \in Withdrawals |-> 0]
  /\ feePaid = [w \in Withdrawals |-> 0]
  /\ funds = Funds
  /\ desk = [d \in Desks |-> IdleDesk]
  /\ clerk = [c \in Clerks |-> IdleClerk]
  /\ job = [j \in Jobs |-> IdleJob]
  /\ faults = 0
  /\ happened = {}

Fault(k) ==
  /\ k \in FaultKinds
  /\ faults < MaxFaults
  /\ faults' = faults + 1
  /\ happened' = happened \cup {k}

\* processWithdrawal is called and not awaited.
StartJob(w) ==
  \E j \in Jobs :
    /\ job[j].pc = "idle"
    /\ job' = [job EXCEPT ![j] = [pc |-> "read", w |-> w]]

-----------------------------------------------------------------------------
(* createWithdrawalRequest                                                 *)

Submit(d, w) ==
  /\ desk[d].pc = "idle"
  /\ status[w] = "ABSENT" /\ \A e \in Desks : desk[e].w # w
  /\ desk' = [desk EXCEPT ![d] = [pc |-> "cooldown", w |-> w, auto |-> FALSE]]
  /\ happened' = IF \E e \in Desks : desk[e].pc # "idle" THEN happened \cup {"requests"}
                                                          ELSE happened
  /\ UNCHANGED <<dbVars, chainVars, clerk, job, faults>>

\* The last request is recent exactly if any is.
CheckCooldown(d) ==
  /\ desk[d].pc = "cooldown"
  /\ desk' = [desk EXCEPT ![d] =
       IF HasCooldown /\ recent # {} THEN IdleDesk ELSE [@ EXCEPT !.pc = "limits"]]
  /\ UNCHANGED <<dbVars, chainVars, clerk, job, trouble>>

\* What counts against the limits of the day.
Today == {w \in Withdrawals : status[w] \notin {"ABSENT", "DECLINED"}}

Total(ws) == MapThenSumSet(LAMBDA w : Amount[w], ws)

\* Mutant: the new request does not count.
MWithinLimits(w) ==
  /\ RequestLimit > 0 => Cardinality(Today) < RequestLimit
  /\ AmountLimit > 0 => Total(Today) <= AmountLimit

WithinLimits(w) ==
  /\ RequestLimit > 0 => Cardinality(Today) < RequestLimit
  /\ AmountLimit > 0 => Total(Today) + Amount[w] <= AmountLimit

CheckLimits(d) ==
  LET w == desk[d].w IN
  /\ desk[d].pc = "limits"
  /\ \/ /\ ~WithinLimits(w)
        /\ desk' = [desk EXCEPT ![d] = IdleDesk]
     \/ /\ WithinLimits(w)
        /\ desk' = [desk EXCEPT ![d].pc =
             IF AutoLimit > 0 /\ Amount[w] <= AutoLimit THEN "balance" ELSE "insert"]
  /\ UNCHANGED <<dbVars, chainVars, clerk, job, trouble>>

\* A balance that cannot be fetched counts as insufficient.
CheckBalance(d) ==
  /\ desk[d].pc = "balance"
  /\ \E covered \in {FALSE, funds >= Amount[desk[d].w]} :
       desk' = [desk EXCEPT ![d] = [pc |-> "insert", w |-> desk[d].w, auto |-> covered]]
  /\ UNCHANGED <<dbVars, chainVars, clerk, job, trouble>>

\* The webhook that follows the save is not modelled here.
Insert(d) ==
  LET w == desk[d].w IN
  /\ desk[d].pc = "insert"
  /\ status' = [status EXCEPT ![w] = IF desk[d].auto THEN "AUTO_APPROVED" ELSE "PENDING"]
  /\ recent' = recent \cup {w}
  /\ desk' = [desk EXCEPT ![d] = IF desk[d].auto THEN [@ EXCEPT !.pc = "start"] ELSE IdleDesk]
  /\ UNCHANGED <<chainVars, clerk, job, trouble>>

DeskStarts(d) ==
  /\ desk[d].pc = "start"
  /\ StartJob(desk[d].w)
  /\ desk' = [desk EXCEPT ![d] = IdleDesk]
  /\ UNCHANGED <<dbVars, chainVars, clerk, trouble>>

CoolDown(w) ==
  /\ w \in recent
  /\ recent' = recent \ {w}
  /\ UNCHANGED <<status, chainVars, desk, clerk, job, trouble>>

-----------------------------------------------------------------------------
(* approveWithdrawal and declineWithdrawal                                 *)

\* Mutant: a decision may be made again until the withdrawal is processed.
MDecidable(w) == status[w] \in {"PENDING", "APPROVED", "DECLINED"}

Decidable(w) == status[w] = "PENDING"

Open(c, w) ==
  /\ clerk[c].pc = "idle"
  /\ Decidable(w)
  /\ \E v \in {"APPROVED", "DECLINED"} :
       clerk' = [clerk EXCEPT ![c] = [pc |-> "save", w |-> w, verdict |-> v]]
  /\ happened' = IF \E b \in Clerks : clerk[b].w = w THEN happened \cup {"decisions"}
                                                     ELSE happened
  /\ UNCHANGED <<dbVars, chainVars, desk, job, faults>>

Decide(c) ==
  LET k == clerk[c] IN
  /\ k.pc = "save"
  /\ status' = [status EXCEPT ![k.w] = k.verdict]
  /\ clerk' = [clerk EXCEPT ![c] =
       IF k.verdict = "APPROVED" THEN [@ EXCEPT !.pc = "start"] ELSE IdleClerk]
  /\ UNCHANGED <<recent, chainVars, desk, job, trouble>>

ClerkStarts(c) ==
  /\ clerk[c].pc = "start"
  /\ StartJob(clerk[c].w)
  /\ clerk' = [clerk EXCEPT ![c] = IdleClerk]
  /\ UNCHANGED <<dbVars, chainVars, desk, trouble>>

-----------------------------------------------------------------------------
(* processWithdrawal                                                       *)

Goto(j, p) == job' = [job EXCEPT ![j].pc = p]
Leave(j) == job' = [job EXCEPT ![j] = IdleJob]

ReadStatus(j) ==
  /\ job[j].pc = "read"
  /\ IF status[job[j].w] \in {"APPROVED", "AUTO_APPROVED"} THEN Goto(j, "begin") ELSE Leave(j)
  /\ UNCHANGED <<dbVars, chainVars, desk, clerk, trouble>>

Begin(j) ==
  /\ job[j].pc = "begin"
  /\ status' = [status EXCEPT ![job[j].w] = "PROCESSING"]
  /\ Goto(j, "transfer")
  /\ UNCHANGED <<recent, chainVars, desk, clerk, trouble>>

\* The transfer, as seen through the result of the chain's helper.
Transfer(j) ==
  LET w == job[j].w
      pay == /\ funds >= Amount[w]
             /\ funds' = funds - Amount[w]
             /\ paid' = [paid EXCEPT ![w] = @ + 1]
             /\ UNCHANGED feePaid
  IN
  /\ job[j].pc = "transfer"
  /\ \/ pay /\ Goto(j, "fee") /\ UNCHANGED trouble
     \/ pay /\ Goto(j, "fail") /\ Fault("lost")
     \/ UNCHANGED chainVars /\ Goto(j, "fail") /\ Fault("failed")
     \/ UNCHANGED chainVars /\ Goto(j, "fee") /\ Fault("unmined")
     \/ funds < Amount[w] /\ UNCHANGED <<chainVars, trouble>> /\ Goto(j, "fail")
  /\ UNCHANGED <<dbVars, desk, clerk>>

\* Mutant: an error of the fee transfer is not caught.
MPayFee(j) ==
  LET w == job[j].w IN
  /\ job[j].pc = "fee"
  /\ \/ /\ Fee[w] > 0 /\ funds >= Fee[w]
        /\ funds' = funds - Fee[w]
        /\ feePaid' = [feePaid EXCEPT ![w] = @ + 1]
        /\ Goto(j, "finish")
        /\ UNCHANGED <<paid, trouble>>
     \/ Fee[w] > 0 /\ UNCHANGED chainVars /\ Goto(j, "fail") /\ Fault("fee")
     \/ (Fee[w] = 0 \/ funds < Fee[w]) /\ UNCHANGED <<chainVars, trouble>> /\ Goto(j, "finish")
  /\ UNCHANGED <<dbVars, desk, clerk>>

\* A fee that is dust is skipped; one that cannot be paid is only logged.
PayFee(j) ==
  LET w == job[j].w IN
  /\ job[j].pc = "fee"
  /\ \/ /\ Fee[w] > 0 /\ funds >= Fee[w]
        /\ funds' = funds - Fee[w]
        /\ feePaid' = [feePaid EXCEPT ![w] = @ + 1]
        /\ UNCHANGED <<paid, trouble>>
     \/ Fee[w] > 0 /\ UNCHANGED chainVars /\ Fault("fee")
     \/ (Fee[w] = 0 \/ funds < Fee[w]) /\ UNCHANGED <<chainVars, trouble>>
  /\ Goto(j, "finish")
  /\ UNCHANGED <<dbVars, desk, clerk>>

\* The save lies inside the try block: if it fails the withdrawal becomes FAILED.
Finish(j) ==
  /\ job[j].pc = "finish"
  /\ \/ status' = [status EXCEPT ![job[j].w] = "SUCCESS"] /\ Leave(j) /\ UNCHANGED trouble
     \/ Fault("write") /\ Goto(j, "fail") /\ UNCHANGED status
  /\ UNCHANGED <<recent, chainVars, desk, clerk>>

Fail(j) ==
  /\ job[j].pc = "fail"
  /\ status' = [status EXCEPT ![job[j].w] = "FAILED"]
  /\ Leave(j)
  /\ UNCHANGED <<recent, chainVars, desk, clerk, trouble>>

\* A crash, or a database error that nothing catches.  No cron looks for
\* withdrawals that were left behind.
Crash ==
  /\ Fault("crash")
  /\ \/ /\ \E d \in Desks : desk[d].pc # "idle" /\ desk' = [desk EXCEPT ![d] = IdleDesk]
        /\ UNCHANGED <<clerk, job>>
     \/ /\ \E c \in Clerks : clerk[c].pc # "idle" /\ clerk' = [clerk EXCEPT ![c] = IdleClerk]
        /\ UNCHANGED <<desk, job>>
     \/ /\ \E j \in Jobs : job[j].pc # "idle" /\ Leave(j)
        /\ UNCHANGED <<desk, clerk>>
  /\ UNCHANGED <<dbVars, chainVars>>

-----------------------------------------------------------------------------
DeskStep(d) ==
  CheckCooldown(d) \/ CheckLimits(d) \/ CheckBalance(d) \/ Insert(d) \/ DeskStarts(d)
ClerkStep(c) == Decide(c) \/ ClerkStarts(c)
JobStep(j) ==
  ReadStatus(j) \/ Begin(j) \/ Transfer(j) \/ PayFee(j) \/ Finish(j) \/ Fail(j)

Next ==
  \/ \E d \in Desks, w \in Withdrawals : Submit(d, w)
  \/ \E d \in Desks : DeskStep(d)
  \/ \E w \in Withdrawals : CoolDown(w)
  \/ \E c \in Clerks, w \in Withdrawals : Open(c, w)
  \/ \E c \in Clerks : ClerkStep(c)
  \/ \E j \in Jobs : JobStep(j)
  \/ Crash

Spec == Init /\ [][Next]_vars

-----------------------------------------------------------------------------
(* Properties.                                                             *)

\* Unless two decisions on a withdrawal overlap, it is paid once, automatic
\* approvals, failed transfers and crashes included.
PaidOnce ==
  "decisions" \notin happened => \A w \in Withdrawals : paid[w] <= 1

\* A withdrawal is paid once: "Can only approve PENDING withdrawals".
NeverPaidTwice == \A w \in Withdrawals : paid[w] <= 1

\* A declined withdrawal stays declined and is not paid, unless it is being
\* approved at the same time.
DeclinedIsFinal ==
  [][\A w \in Withdrawals :
       status[w] = "DECLINED" /\ "decisions" \notin happened =>
         status'[w] = "DECLINED" /\ paid'[w] = paid[w]]_vars

\* The cooldown between two requests holds, whatever became of the first, unless
\* they overlap; so do both limits of a day, unless two decisions bring back a
\* withdrawal that was declined and no longer counted.
LimitsHold ==
  "requests" \notin happened =>
    /\ HasCooldown => Cardinality(recent) <= 1
    /\ "decisions" \notin happened =>
         /\ RequestLimit > 0 => Cardinality(Today) <= RequestLimit
         /\ AmountLimit > 0 => Total(Today) <= AmountLimit

\* What the user is told is true: a withdrawal that is reported as FAILED has not
\* been paid, whatever became of the fee, unless the receipt or the final save
\* was lost; one that is reported as SUCCESS has been paid, unless a TRON
\* transfer was not confirmed; and the platform takes its fee only then.
ReportIsTrue ==
  \A w \in Withdrawals :
    /\ status[w] = "FAILED" /\ happened \cap {"lost", "write", "decisions"} = {} =>
         paid[w] = 0
    /\ "unmined" \notin happened =>
         /\ status[w] = "SUCCESS" => paid[w] > 0
         /\ feePaid[w] <= paid[w]

\* Without crashes no withdrawal is left behind: when nothing runs any more, each
\* one waits for a decision or has its outcome, although the wallet need not
\* cover them all and processWithdrawal is not awaited.
NoneLeftBehind ==
  /\ "crash" \notin happened
  /\ \A d \in Desks : desk[d].pc = "idle"
  /\ \A c \in Clerks : clerk[c].pc = "idle"
  /\ \A j \in Jobs : job[j].pc = "idle"
  => \A w \in Withdrawals : status[w] \notin {"APPROVED", "AUTO_APPROVED", "PROCESSING"}

\* Every withdrawal gets an outcome, and the true one.
OutcomesAreTrue == TypeOK /\ ReportIsTrue /\ NoneLeftBehind
=============================================================================
