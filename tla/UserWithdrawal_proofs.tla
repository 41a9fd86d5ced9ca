----------------------- MODULE UserWithdrawal_proofs -----------------------
(***************************************************************************)
(* Proofs about UserWithdrawal, for any withdrawals, limits, numbers of    *)
(* concurrent requests, decisions and activations, and any faults.         *)
(***************************************************************************)
EXTENDS UserWithdrawal, SumTheorems

(***************************************************************************)
(* Who holds a withdrawal.                                                 *)

\* Whoever works on a withdrawal has one, and two requests have two.
HoldersInOrder ==
  /\ \A d \in Desks : desk[d].pc = "idle" <=> desk[d].w = Nil
  /\ \A c \in Clerks : clerk[c].pc = "idle" <=> clerk[c].w = Nil
  /\ \A j \in Jobs : job[j].pc = "idle" <=> job[j].w = Nil
  /\ \A d, e \in Desks : desk[d].w = desk[e].w /\ desk[d].w # Nil => d = e

Asking == {"cooldown", "limits", "balance", "insert"}
Paying == {"transfer", "fee", "finish", "fail"}

\* A withdrawal exists from the insert on, and for nobody else before it.
StoredInOrder ==
  /\ \A d \in Desks : desk[d].pc \in Asking => status[desk[d].w] = "ABSENT"
  /\ \A d \in Desks : desk[d].pc = "start" => status[desk[d].w] # "ABSENT"
  /\ \A c \in Clerks : clerk[c].pc # "idle" => status[clerk[c].w] # "ABSENT"
  /\ \A j \in Jobs : job[j].pc # "idle" => status[job[j].w] # "ABSENT"

-----------------------------------------------------------------------------
(* What is to happen still happens.                                        *)

\* Somebody will call processWithdrawal for w, or has called it.
Taken(w) ==
  \/ \E d \in Desks : desk[d].pc = "start" /\ desk[d].w = w
  \/ \E c \in Clerks : clerk[c].pc = "start" /\ clerk[c].w = w
  \/ \E j \in Jobs : job[j].w = w

BeingPaid(w) == \E j \in Jobs : job[j].w = w /\ job[j].pc \in Paying

NobodyForgets ==
  "crash" \notin happened =>
    \A w \in Withdrawals :
      /\ status[w] \in {"APPROVED", "AUTO_APPROVED"} => Taken(w)
      /\ status[w] = "PROCESSING" => BeingPaid(w)

-----------------------------------------------------------------------------
(* While no two decisions on a withdrawal overlap, one holder at a time.   *)

ClerkKnows(c) ==
  /\ clerk[c].pc = "save" => status[clerk[c].w] = "PENDING"
  /\ clerk[c].pc = "start" => status[clerk[c].w] = "APPROVED"
  /\ clerk[c].pc # "idle" => \A j \in Jobs : job[j].w # clerk[c].w
  /\ \A b \in Clerks : clerk[b].w = clerk[c].w /\ clerk[b].w # Nil => b = c

DeskKnows(d) ==
  desk[d].pc = "start" =>
    status[desk[d].w] = "AUTO_APPROVED" /\ \A j \in Jobs : job[j].w # desk[d].w

JobKnows(j) ==
  /\ job[j].pc \in {"read", "begin"} => status[job[j].w] \in {"APPROVED", "AUTO_APPROVED"}
  /\ job[j].pc \in Paying => status[job[j].w] = "PROCESSING"
  /\ job[j].pc = "transfer" => paid[job[j].w] = 0
  /\ \A k \in Jobs : job[k].w = job[j].w /\ job[k].w # Nil => k = j

PaidInOrder(w) ==
  /\ paid[w] <= 1
  /\ status[w] \notin {"PROCESSING", "SUCCESS", "FAILED"} => paid[w] = 0

\* A failure is a failure, unless the receipt or the save was lost.
FailureIsTrue ==
  happened \cap {"lost", "write"} = {} =>
    /\ \A w \in Withdrawals : status[w] = "FAILED" => paid[w] = 0
    /\ \A j \in Jobs : job[j].pc = "fail" => paid[job[j].w] = 0

OneHolder ==
  /\ \A c \in Clerks : ClerkKnows(c)
  /\ \A d \in Desks : DeskKnows(d)
  /\ \A j \in Jobs : JobKnows(j)
  /\ \A w \in Withdrawals : PaidInOrder(w)
  /\ FailureIsTrue

Undisputed == "decisions" \notin happened => OneHolder

-----------------------------------------------------------------------------
(* Money.                                                                  *)

\* The activations that have paid w and not yet the fee.
FeeDue(w) == {j \in Jobs : job[j].w = w /\ job[j].pc = "fee"}

\* Successes and fees come after a payment, unless TRON did not confirm it.
MoneyInOrder ==
  "unmined" \notin happened =>
    /\ \A w \in Withdrawals : status[w] = "SUCCESS" => paid[w] > 0
    /\ \A j \in Jobs : job[j].pc = "finish" => paid[job[j].w] > 0
    /\ \A w \in Withdrawals : feePaid[w] + Cardinality(FeeDue(w)) <= paid[w]

-----------------------------------------------------------------------------
(* Limits.                                                                 *)

\* One request at a time: what it has checked is still so.
CooldownInOrder ==
  "requests" \notin happened =>
    /\ \A d, e \in Desks : desk[d].pc # "idle" /\ desk[e].pc # "idle" => d = e
    /\ HasCooldown =>
         /\ \A v, w \in recent : v = w
         /\ \A d \in Desks : desk[d].pc \in {"limits", "balance", "insert"} => recent = {}

LimitsInOrder ==
  "requests" \notin happened /\ "decisions" \notin happened =>
    /\ RequestLimit > 0 =>
         /\ Cardinality(Today) <= RequestLimit
         /\ \A d \in Desks : desk[d].pc \in {"balance", "insert"} =>
              Cardinality(Today) < RequestLimit
    /\ AmountLimit > 0 =>
         /\ Total(Today) <= AmountLimit
         /\ \A d \in Desks : desk[d].pc \in {"balance", "insert"} =>
              Total(Today) + Amount[desk[d].w] <= AmountLimit

\* There are finitely many withdrawals at any time.
Stored == {w \in Withdrawals : status[w] # "ABSENT"}

Inv ==
  /\ TypeOK /\ IsFiniteSet(Stored) /\ HoldersInOrder /\ StoredInOrder /\ NobodyForgets
  /\ Undisputed /\ MoneyInOrder /\ CooldownInOrder /\ LimitsInOrder
-----------------------------------------------------------------------------
(* Types.                                                                  *)

\* What a step of an activation does to job.
JobBecomes(j, p, w) ==
  /\ job' \in [Jobs -> JobState]
  /\ job'[j].pc = p /\ job'[j].w = w
  /\ \A k \in Jobs : k # j => job'[k] = job[k]

LEMMA GotoEffect ==
  ASSUME job \in [Jobs -> JobState], NEW j \in Jobs,
         NEW p \in {"begin", "transfer", "fee", "finish", "fail"}, Goto(j, p)
  PROVE  JobBecomes(j, p, job[j].w)
BY DEF Goto, JobState, JobBecomes

LEMMA LeaveEffect ==
  ASSUME job \in [Jobs -> JobState], NEW j \in Jobs, Leave(j)
  PROVE  JobBecomes(j, "idle", Nil)
BY DEF Leave, IdleJob, JobState, JobBecomes

LEMMA StartEffect ==
  ASSUME job \in [Jobs -> JobState], NEW w \in Withdrawals, StartJob(w)
  PROVE  \E j \in Jobs : job[j].pc = "idle" /\ JobBecomes(j, "read", w)
BY DEF StartJob, JobState, JobBecomes

\* What a step of a request does to desk.
DeskBecomes(d, p, w) ==
  /\ desk' \in [Desks -> DeskState]
  /\ desk'[d].pc = p /\ desk'[d].w = w
  /\ \A e \in Desks : e # d => desk'[e] = desk[e]

LEMMA DeskEffect ==
  ASSUME desk \in [Desks -> DeskState], NEW d \in Desks,
         NEW p \in {"limits", "balance", "insert", "start"}, NEW a \in BOOLEAN
  PROVE  /\ desk' = [desk EXCEPT ![d].pc = p] => DeskBecomes(d, p, desk[d].w)
         /\ desk' = [desk EXCEPT ![d] = [pc |-> p, w |-> desk[d].w, auto |-> a]]
              => DeskBecomes(d, p, desk[d].w)
         /\ desk' = [desk EXCEPT ![d] = [@ EXCEPT !.pc = p]] => DeskBecomes(d, p, desk[d].w)
         /\ desk' = [desk EXCEPT ![d] = IdleDesk] => DeskBecomes(d, "idle", Nil)
<1>1. desk' = [desk EXCEPT ![d].pc = p] => DeskBecomes(d, p, desk[d].w)
  BY DEF DeskState, DeskBecomes
<1>2. desk' = [desk EXCEPT ![d] = [pc |-> p, w |-> desk[d].w, auto |-> a]]
        => DeskBecomes(d, p, desk[d].w)
  BY DEF DeskState, DeskBecomes
<1>3. desk' = [desk EXCEPT ![d] = [@ EXCEPT !.pc = p]] => DeskBecomes(d, p, desk[d].w)
  BY DEF DeskState, DeskBecomes
<1>4. desk' = [desk EXCEPT ![d] = IdleDesk] => DeskBecomes(d, "idle", Nil)
  BY DEF DeskState, IdleDesk, DeskBecomes
<1> QED BY <1>1, <1>2, <1>3, <1>4

LEMMA CheckCooldownEffect ==
  ASSUME desk \in [Desks -> DeskState], NEW d \in Desks, CheckCooldown(d)
  PROVE  \/ DeskBecomes(d, "idle", Nil)
         \/ ~(HasCooldown /\ recent # {}) /\ DeskBecomes(d, "limits", desk[d].w)
<1>1. CASE HasCooldown /\ recent # {}
  BY <1>1, DeskEffect DEF CheckCooldown
<1>2. CASE ~(HasCooldown /\ recent # {})
  BY <1>2, DeskEffect DEF CheckCooldown
<1> QED BY <1>1, <1>2

LEMMA CheckLimitsEffect ==
  ASSUME desk \in [Desks -> DeskState], NEW d \in Desks, CheckLimits(d)
  PROVE  \/ DeskBecomes(d, "idle", Nil)
         \/ /\ WithinLimits(desk[d].w)
            /\ \E p \in {"balance", "insert"} : DeskBecomes(d, p, desk[d].w)
<1>1. CASE ~WithinLimits(desk[d].w) /\ desk' = [desk EXCEPT ![d] = IdleDesk]
  BY <1>1, DeskEffect
<1>2. CASE WithinLimits(desk[d].w)
  <2> DEFINE p == IF AutoLimit > 0 /\ Amount[desk[d].w] <= AutoLimit THEN "balance" ELSE "insert"
  <2>1. desk' = [desk EXCEPT ![d].pc = p]
    BY <1>2 DEF CheckLimits
  <2>2. p \in {"balance", "insert"}
    OBVIOUS
  <2> HIDE DEF p
  <2> QED BY <1>2, <2>1, <2>2, DeskEffect
<1> QED BY <1>1, <1>2 DEF CheckLimits

LEMMA CheckBalanceEffect ==
  ASSUME desk \in [Desks -> DeskState], NEW d \in Desks, CheckBalance(d)
  PROVE  DeskBecomes(d, "insert", desk[d].w)
<1>1. PICK a \in BOOLEAN : desk' = [desk EXCEPT ![d] = [pc |-> "insert", w |-> desk[d].w, auto |-> a]]
  <2>1. (funds >= Amount[desk[d].w]) \in BOOLEAN
    OBVIOUS
  <2>2. \A a \in {FALSE, funds >= Amount[desk[d].w]} : a \in BOOLEAN
    BY <2>1
  <2> QED BY <2>2 DEF CheckBalance
<1> QED BY <1>1, DeskEffect

LEMMA InsertEffect ==
  ASSUME desk \in [Desks -> DeskState], NEW d \in Desks, Insert(d)
  PROVE  IF desk[d].auto THEN DeskBecomes(d, "start", desk[d].w) ELSE DeskBecomes(d, "idle", Nil)
<1>1. CASE desk[d].auto
  BY <1>1, DeskEffect DEF Insert
<1>2. CASE ~desk[d].auto
  BY <1>2, DeskEffect DEF Insert
<1> QED BY <1>1, <1>2

\* What a step of a decision does to clerk.
ClerkBecomes(c, p, w) ==
  /\ clerk' \in [Clerks -> ClerkState]
  /\ clerk'[c].pc = p /\ clerk'[c].w = w
  /\ \A b \in Clerks : b # c => clerk'[b] = clerk[b]

LEMMA ClerkEffect ==
  ASSUME clerk \in [Clerks -> ClerkState], NEW c \in Clerks
  PROVE  /\ clerk' = [clerk EXCEPT ![c] = IdleClerk] => ClerkBecomes(c, "idle", Nil)
         /\ Decide(c) => IF clerk[c].verdict = "APPROVED"
                           THEN ClerkBecomes(c, "start", clerk[c].w)
                           ELSE ClerkBecomes(c, "idle", Nil)
<1>1. clerk' = [clerk EXCEPT ![c] = IdleClerk] => ClerkBecomes(c, "idle", Nil)
  BY DEF ClerkState, IdleClerk, ClerkBecomes
<1>2. clerk' = [clerk EXCEPT ![c] = [@ EXCEPT !.pc = "start"]]
        => ClerkBecomes(c, "start", clerk[c].w)
  BY DEF ClerkState, ClerkBecomes
<1>3. ASSUME Decide(c), clerk[c].verdict = "APPROVED" PROVE ClerkBecomes(c, "start", clerk[c].w)
  BY <1>2, <1>3 DEF Decide
<1>4. ASSUME Decide(c), clerk[c].verdict # "APPROVED" PROVE ClerkBecomes(c, "idle", Nil)
  BY <1>1, <1>4 DEF Decide
<1> QED BY <1>1, <1>3, <1>4

LEMMA OpenEffect ==
  ASSUME clerk \in [Clerks -> ClerkState], NEW c \in Clerks, NEW w \in Withdrawals, Open(c, w)
  PROVE  ClerkBecomes(c, "save", w)
BY DEF Open, ClerkState, ClerkBecomes

\* What a step does to the status of a withdrawal.
StatusBecomes(w, s) ==
  /\ status' \in [Withdrawals -> Status]
  /\ status'[w] = s
  /\ \A v \in Withdrawals : v # w => status'[v] = status[v]

LEMMA StatusEffect ==
  ASSUME status \in [Withdrawals -> Status], NEW w \in Withdrawals, NEW s \in Status,
         status' = [status EXCEPT ![w] = s]
  PROVE  StatusBecomes(w, s)
BY DEF StatusBecomes

LEMMA FaultEffect ==
  ASSUME TypeOK, NEW k, Fault(k)
  PROVE  /\ faults' \in 0..MaxFaults /\ happened' \subseteq Faults \cup {"requests", "decisions"}
         /\ k \in Faults /\ happened' = happened \cup {k}
BY WithdrawalAssumption DEF TypeOK, Fault

LEMMA TypedStep == TypeOK /\ HoldersInOrder /\ [Next]_vars => TypeOK'
<1> SUFFICES ASSUME TypeOK, HoldersInOrder, [Next]_vars PROVE TypeOK'
  OBVIOUS
<1> USE WithdrawalAssumption
<1>0. /\ status \in [Withdrawals -> Status] /\ paid \in [Withdrawals -> Nat]
      /\ feePaid \in [Withdrawals -> Nat] /\ funds \in Nat /\ recent \in SUBSET Withdrawals
      /\ desk \in [Desks -> DeskState] /\ clerk \in [Clerks -> ClerkState]
      /\ job \in [Jobs -> JobState]
  BY DEF TypeOK
<1>h. /\ \A d \in Desks : desk[d].pc # "idle" => desk[d].w \in Withdrawals
      /\ \A c \in Clerks : clerk[c].pc # "idle" => clerk[c].w \in Withdrawals
      /\ \A j \in Jobs : job[j].pc # "idle" => job[j].w \in Withdrawals
  BY <1>0 DEF HoldersInOrder, DeskState, ClerkState, JobState
<1>1. ASSUME NEW d \in Desks, NEW w \in Withdrawals, Submit(d, w) PROVE TypeOK'
  <2>1. [pc |-> "cooldown", w |-> w, auto |-> FALSE] \in DeskState
    BY DEF DeskState
  <2> QED BY <1>0, <1>1, <2>1 DEF Submit, TypeOK, dbVars, chainVars
<1>2. ASSUME NEW d \in Desks, DeskStep(d) PROVE TypeOK'
  <2>1. CASE CheckCooldown(d)
    <3>1. desk' \in [Desks -> DeskState]
      BY <1>0, <2>1, CheckCooldownEffect DEF DeskBecomes
    <3> QED BY <2>1, <3>1 DEF CheckCooldown, TypeOK, dbVars, chainVars, trouble
  <2>2. CASE CheckLimits(d)
    <3>1. desk' \in [Desks -> DeskState]
      BY <1>0, <2>2, CheckLimitsEffect DEF DeskBecomes
    <3> QED BY <2>2, <3>1 DEF CheckLimits, TypeOK, dbVars, chainVars, trouble
  <2>3. CASE CheckBalance(d)
    <3>1. desk' \in [Desks -> DeskState]
      BY <1>0, <2>3, CheckBalanceEffect DEF DeskBecomes
    <3> QED BY <2>3, <3>1 DEF CheckBalance, TypeOK, dbVars, chainVars, trouble
  <2>4. CASE Insert(d)
    <3>1. desk' \in [Desks -> DeskState]
      BY <1>0, <2>4, InsertEffect DEF DeskBecomes
    <3>2. status' \in [Withdrawals -> Status] /\ recent' \in SUBSET Withdrawals
      BY <1>0, <1>h, <2>4 DEF Insert, Status
    <3> QED BY <2>4, <3>1, <3>2 DEF Insert, TypeOK, chainVars, trouble
  <2>5. CASE DeskStarts(d)
    <3>1. desk' \in [Desks -> DeskState]
      BY <1>0, <2>5, DeskEffect DEF DeskStarts, DeskBecomes
    <3>2. job' \in [Jobs -> JobState]
      BY <1>0, <1>h, <2>5, StartEffect DEF JobBecomes, DeskStarts
    <3> QED BY <2>5, <3>1, <3>2 DEF DeskStarts, TypeOK, dbVars, chainVars, trouble
  <2> QED BY <1>2, <2>1, <2>2, <2>3, <2>4, <2>5 DEF DeskStep
<1>3. ASSUME NEW w \in Withdrawals, CoolDown(w) PROVE TypeOK'
  BY <1>3 DEF CoolDown, TypeOK, chainVars, trouble
<1>4. ASSUME NEW c \in Clerks, NEW w \in Withdrawals, Open(c, w) PROVE TypeOK'
  <2>1. clerk' \in [Clerks -> ClerkState]
    BY <1>0, <1>4, OpenEffect DEF ClerkBecomes
  <2> QED BY <1>4, <2>1 DEF Open, TypeOK, dbVars, chainVars
<1>5. ASSUME NEW c \in Clerks, ClerkStep(c) PROVE TypeOK'
  <2>1. CASE Decide(c)
    <3>1. clerk' \in [Clerks -> ClerkState]
      BY <1>0, <2>1, ClerkEffect DEF ClerkBecomes
    <3>2. status' \in [Withdrawals -> Status]
      BY <1>0, <1>h, <2>1 DEF Decide, Status, ClerkState
    <3> QED BY <2>1, <3>1, <3>2 DEF Decide, TypeOK, chainVars, trouble
  <2>2. CASE ClerkStarts(c)
    <3>1. clerk' \in [Clerks -> ClerkState]
      BY <1>0, <2>2, ClerkEffect DEF ClerkStarts, ClerkBecomes
    <3>2. job' \in [Jobs -> JobState]
      BY <1>0, <1>h, <2>2, StartEffect DEF JobBecomes, ClerkStarts
    <3> QED BY <2>2, <3>1, <3>2 DEF ClerkStarts, TypeOK, dbVars, chainVars, trouble
  <2> QED BY <1>5, <2>1, <2>2 DEF ClerkStep
<1>6. ASSUME NEW j \in Jobs, JobStep(j) PROVE TypeOK'
  <2>1. CASE ReadStatus(j)
    BY <1>0, <2>1, GotoEffect, LeaveEffect
    DEF JobBecomes, ReadStatus, TypeOK, dbVars, chainVars, trouble
  <2>2. CASE Begin(j)
    <3>1. status' \in [Withdrawals -> Status]
      BY <1>0, <1>h, <2>2 DEF Begin, Status
    <3> QED BY <1>0, <2>2, <3>1, GotoEffect DEF JobBecomes, Begin, TypeOK, chainVars, trouble
  <2>3. CASE Transfer(j)
    <3>1. paid' \in [Withdrawals -> Nat] /\ feePaid' = feePaid /\ funds' \in Nat
      BY <1>0, <1>h, <2>3 DEF Transfer, chainVars
    <3>2. job' \in [Jobs -> JobState]
      BY <1>0, <2>3, GotoEffect DEF JobBecomes, Transfer
    <3>3. faults' \in 0..MaxFaults /\ happened' \subseteq Faults \cup {"requests", "decisions"}
      BY <2>3, FaultEffect DEF Transfer, trouble, TypeOK
    <3> QED BY <2>3, <3>1, <3>2, <3>3 DEF Transfer, TypeOK, dbVars
  <2>4. CASE PayFee(j)
    <3>1. paid' = paid /\ feePaid' \in [Withdrawals -> Nat] /\ funds' \in Nat
      BY <1>0, <1>h, <2>4 DEF PayFee, chainVars
    <3>2. job' \in [Jobs -> JobState]
      BY <1>0, <2>4, GotoEffect DEF JobBecomes, PayFee
    <3>3. faults' \in 0..MaxFaults /\ happened' \subseteq Faults \cup {"requests", "decisions"}
      BY <2>4, FaultEffect DEF PayFee, trouble, TypeOK
    <3> QED BY <2>4, <3>1, <3>2, <3>3 DEF PayFee, TypeOK, dbVars
  <2>5. CASE Finish(j)
    <3>1. status' \in [Withdrawals -> Status]
      BY <1>0, <1>h, <2>5 DEF Finish, Status
    <3>2. job' \in [Jobs -> JobState]
      BY <1>0, <2>5, GotoEffect, LeaveEffect DEF JobBecomes, Finish
    <3>3. faults' \in 0..MaxFaults /\ happened' \subseteq Faults \cup {"requests", "decisions"}
      BY <2>5, FaultEffect DEF Finish, trouble, TypeOK
    <3> QED BY <2>5, <3>1, <3>2, <3>3 DEF Finish, TypeOK, chainVars
  <2>6. CASE Fail(j)
    <3>1. status' \in [Withdrawals -> Status]
      BY <1>0, <1>h, <2>6 DEF Fail, Status
    <3> QED BY <1>0, <2>6, <3>1, LeaveEffect DEF JobBecomes, Fail, TypeOK, chainVars, trouble
  <2> QED BY <1>6, <2>1, <2>2, <2>3, <2>4, <2>5, <2>6 DEF JobStep
<1>7. CASE Crash
  <2>1. faults' \in 0..MaxFaults /\ happened' \subseteq Faults \cup {"requests", "decisions"}
    BY <1>7, FaultEffect DEF Crash
  <2>2. CASE UNCHANGED <<clerk, job>> /\ \E d \in Desks : desk' = [desk EXCEPT ![d] = IdleDesk]
    <3>1. desk' \in [Desks -> DeskState]
      BY <1>0, <2>2, DeskEffect DEF DeskBecomes
    <3> QED BY <1>7, <2>1, <2>2, <3>1 DEF Crash, TypeOK, dbVars, chainVars
  <2>3. CASE UNCHANGED <<desk, job>> /\ \E c \in Clerks : clerk' = [clerk EXCEPT ![c] = IdleClerk]
    <3>1. clerk' \in [Clerks -> ClerkState]
      BY <1>0, <2>3, ClerkEffect DEF ClerkBecomes
    <3> QED BY <1>7, <2>1, <2>3, <3>1 DEF Crash, TypeOK, dbVars, chainVars
  <2>4. CASE UNCHANGED <<desk, clerk>> /\ \E j \in Jobs : Leave(j)
    <3>1. job' \in [Jobs -> JobState]
      BY <1>0, <2>4, LeaveEffect DEF JobBecomes
    <3> QED BY <1>7, <2>1, <2>4, <3>1 DEF Crash, TypeOK, dbVars, chainVars
  <2> QED BY <1>7, <2>2, <2>3, <2>4 DEF Crash
<1>8. CASE UNCHANGED vars
  BY <1>8 DEF vars, dbVars, chainVars, trouble, TypeOK
<1> QED BY <1>1, <1>2, <1>3, <1>4, <1>5, <1>6, <1>7, <1>8 DEF Next

-----------------------------------------------------------------------------
(* Holders.                                                                *)

LEMMA HoldersStep == TypeOK /\ HoldersInOrder /\ [Next]_vars => HoldersInOrder'
<1> SUFFICES ASSUME TypeOK, HoldersInOrder, [Next]_vars PROVE HoldersInOrder'
  OBVIOUS
<1> USE WithdrawalAssumption
<1>0. /\ desk \in [Desks -> DeskState] /\ clerk \in [Clerks -> ClerkState]
      /\ job \in [Jobs -> JobState]
  BY DEF TypeOK
<1>h. /\ \A d \in Desks : desk[d].pc # "idle" => desk[d].w \in Withdrawals
      /\ \A c \in Clerks : clerk[c].pc # "idle" => clerk[c].w \in Withdrawals
      /\ \A j \in Jobs : job[j].pc # "idle" => job[j].w \in Withdrawals
  BY <1>0 DEF HoldersInOrder, DeskState, ClerkState, JobState
<1> DEFINE DesksOK  == /\ \A d \in Desks : desk[d].pc = "idle" <=> desk[d].w = Nil
                       /\ \A d, e \in Desks : desk[d].w = desk[e].w /\ desk[d].w # Nil => d = e
           ClerksOK == \A c \in Clerks : clerk[c].pc = "idle" <=> clerk[c].w = Nil
           JobsOK   == \A j \in Jobs : job[j].pc = "idle" <=> job[j].w = Nil
<1>d. ASSUME NEW d \in Desks, NEW p, NEW w, DeskBecomes(d, p, w), p = "idle" <=> w = Nil,
             w \in {desk[d].w, Nil} \/ \A e \in Desks : desk[e].w # w
      PROVE  DesksOK'
  BY <1>0, <1>d DEF HoldersInOrder, DeskBecomes
<1>c. ASSUME NEW c \in Clerks, NEW p, NEW w, ClerkBecomes(c, p, w), p = "idle" <=> w = Nil
      PROVE  ClerksOK'
  BY <1>0, <1>c DEF HoldersInOrder, ClerkBecomes
<1>j. ASSUME NEW j \in Jobs, NEW p, NEW w, JobBecomes(j, p, w), p = "idle" <=> w = Nil
      PROVE  JobsOK'
  BY <1>0, <1>j DEF HoldersInOrder, JobBecomes
<1>u. /\ UNCHANGED desk => DesksOK'
      /\ UNCHANGED clerk => ClerksOK'
      /\ UNCHANGED job => JobsOK'
  BY DEF HoldersInOrder
<1>q. DesksOK' /\ ClerksOK' /\ JobsOK' => HoldersInOrder'
  BY DEF HoldersInOrder
<1>s. ASSUME NEW w \in Withdrawals, StartJob(w) PROVE JobsOK'
  <2>1. PICK j \in Jobs : JobBecomes(j, "read", w)
    BY <1>0, <1>s, StartEffect
  <2> QED BY <1>j, <2>1
<1>g. ASSUME NEW j \in Jobs, job[j].pc # "idle",
             NEW p \in {"begin", "transfer", "fee", "finish", "fail"}, Goto(j, p)
      PROVE  JobsOK'
  BY <1>0, <1>h, <1>j, <1>g, GotoEffect
<1>l. ASSUME NEW j \in Jobs, Leave(j) PROVE JobsOK'
  BY <1>0, <1>j, <1>l, LeaveEffect
<1> HIDE DEF DesksOK, ClerksOK, JobsOK
<1>1. ASSUME NEW d \in Desks, NEW w \in Withdrawals, Submit(d, w) PROVE HoldersInOrder'
  <2>1. DeskBecomes(d, "cooldown", w)
    BY <1>0, <1>1 DEF Submit, DeskState, DeskBecomes
  <2>2. \A e \in Desks : desk[e].w # w
    BY <1>1 DEF Submit
  <2> QED BY <1>1, <1>d, <1>u, <1>q, <2>1, <2>2 DEF Submit
<1>2. ASSUME NEW d \in Desks, DeskStep(d) PROVE HoldersInOrder'
  <2>1. CASE CheckCooldown(d)
    <3>1. desk[d].w \in Withdrawals
      BY <1>h, <2>1 DEF CheckCooldown
    <3>2. DesksOK'
      BY <1>0, <1>d, <2>1, <3>1, CheckCooldownEffect
    <3> QED BY <1>u, <1>q, <2>1, <3>2 DEF CheckCooldown
  <2>2. CASE CheckLimits(d)
    <3>1. desk[d].w \in Withdrawals
      BY <1>h, <2>2 DEF CheckLimits
    <3>2. DesksOK'
      BY <1>0, <1>d, <2>2, <3>1, CheckLimitsEffect
    <3> QED BY <1>u, <1>q, <2>2, <3>2 DEF CheckLimits
  <2>3. CASE CheckBalance(d)
    <3>1. desk[d].w \in Withdrawals
      BY <1>h, <2>3 DEF CheckBalance
    <3>2. DesksOK'
      BY <1>0, <1>d, <2>3, <3>1, CheckBalanceEffect
    <3> QED BY <1>u, <1>q, <2>3, <3>2 DEF CheckBalance
  <2>4. CASE Insert(d)
    <3>1. desk[d].w \in Withdrawals
      BY <1>h, <2>4 DEF Insert
    <3>2. DesksOK'
      BY <1>0, <1>d, <2>4, <3>1, InsertEffect
    <3> QED BY <1>u, <1>q, <2>4, <3>2 DEF Insert
  <2>5. CASE DeskStarts(d)
    <3>1. DesksOK'
      BY <1>0, <1>d, <2>5, DeskEffect DEF DeskStarts
    <3>2. JobsOK'
      BY <1>h, <1>s, <2>5 DEF DeskStarts
    <3> QED BY <1>u, <1>q, <2>5, <3>1, <3>2 DEF DeskStarts
  <2> QED BY <1>2, <2>1, <2>2, <2>3, <2>4, <2>5 DEF DeskStep
<1>3. ASSUME NEW w \in Withdrawals, CoolDown(w) PROVE HoldersInOrder'
  BY <1>3, <1>u, <1>q DEF CoolDown
<1>4. ASSUME NEW c \in Clerks, NEW w \in Withdrawals, Open(c, w) PROVE HoldersInOrder'
  <2>1. ClerksOK'
    BY <1>0, <1>c, <1>4, OpenEffect
  <2> QED BY <1>4, <1>u, <1>q, <2>1 DEF Open
<1>5. ASSUME NEW c \in Clerks, ClerkStep(c) PROVE HoldersInOrder'
  <2>1. CASE Decide(c)
    <3>1. clerk[c].w \in Withdrawals
      BY <1>h, <2>1 DEF Decide
    <3>2. ClerksOK'
      BY <1>0, <1>c, <2>1, <3>1, ClerkEffect
    <3> QED BY <1>u, <1>q, <2>1, <3>2 DEF Decide
  <2>2. CASE ClerkStarts(c)
    <3>1. ClerksOK'
      BY <1>0, <1>c, <2>2, ClerkEffect DEF ClerkStarts
    <3>2. JobsOK'
      BY <1>h, <1>s, <2>2 DEF ClerkStarts
    <3> QED BY <1>u, <1>q, <2>2, <3>1, <3>2 DEF ClerkStarts
  <2> QED BY <1>5, <2>1, <2>2 DEF ClerkStep
<1>6. ASSUME NEW j \in Jobs, JobStep(j) PROVE HoldersInOrder'
  <2>1. JobsOK'
    BY <1>6, <1>g, <1>l DEF JobStep, ReadStatus, Begin, Transfer, PayFee, Finish, Fail
  <2>2. UNCHANGED <<desk, clerk>>
    BY <1>6 DEF JobStep, ReadStatus, Begin, Transfer, PayFee, Finish, Fail
  <2> QED BY <1>u, <1>q, <2>1, <2>2
<1>7. CASE Crash
  <2>1. CASE UNCHANGED <<clerk, job>> /\ \E d \in Desks : desk' = [desk EXCEPT ![d] = IdleDesk]
    <3>1. DesksOK'
      BY <1>0, <1>d, <2>1, DeskEffect
    <3> QED BY <1>u, <1>q, <2>1, <3>1
  <2>2. CASE UNCHANGED <<desk, job>> /\ \E c \in Clerks : clerk' = [clerk EXCEPT ![c] = IdleClerk]
    <3>1. ClerksOK'
      BY <1>0, <1>c, <2>2, ClerkEffect
    <3> QED BY <1>u, <1>q, <2>2, <3>1
  <2>3. CASE UNCHANGED <<desk, clerk>> /\ \E j \in Jobs : Leave(j)
    BY <1>u, <1>q, <1>l, <2>3
  <2> QED BY <1>7, <2>1, <2>2, <2>3 DEF Crash
<1>8. CASE UNCHANGED vars
  BY <1>8, <1>u, <1>q DEF vars
<1> QED BY <1>1, <1>2, <1>3, <1>4, <1>5, <1>6, <1>7, <1>8 DEF Next

\* What each step that writes a status writes.
LEMMA WriteEffect ==
  ASSUME TypeOK, HoldersInOrder
  PROVE  /\ \A d \in Desks : Insert(d) =>
              StatusBecomes(desk[d].w, IF desk[d].auto THEN "AUTO_APPROVED" ELSE "PENDING")
         /\ \A c \in Clerks : Decide(c) =>
              /\ clerk[c].verdict \in {"APPROVED", "DECLINED"}
              /\ StatusBecomes(clerk[c].w, clerk[c].verdict)
         /\ \A j \in Jobs : Begin(j) => StatusBecomes(job[j].w, "PROCESSING")
         /\ \A j \in Jobs : Finish(j) =>
              \/ StatusBecomes(job[j].w, "SUCCESS") /\ Leave(j) /\ UNCHANGED trouble
              \/ Fault("write") /\ Goto(j, "fail") /\ UNCHANGED status
         /\ \A j \in Jobs : Fail(j) => StatusBecomes(job[j].w, "FAILED")
<1> USE WithdrawalAssumption
<1>0. /\ status \in [Withdrawals -> Status] /\ desk \in [Desks -> DeskState]
      /\ clerk \in [Clerks -> ClerkState] /\ job \in [Jobs -> JobState]
  BY DEF TypeOK
<1>h. /\ \A d \in Desks : desk[d].pc # "idle" => desk[d].w \in Withdrawals
      /\ \A c \in Clerks : clerk[c].pc # "idle" => clerk[c].w \in Withdrawals
      /\ \A j \in Jobs : job[j].pc # "idle" => job[j].w \in Withdrawals
  BY <1>0 DEF HoldersInOrder, DeskState, ClerkState, JobState
<1>s. {"PENDING", "AUTO_APPROVED", "APPROVED", "DECLINED", "PROCESSING", "SUCCESS", "FAILED"}
        \subseteq Status
  BY DEF Status
<1>1. ASSUME NEW d \in Desks, Insert(d)
      PROVE  StatusBecomes(desk[d].w, IF desk[d].auto THEN "AUTO_APPROVED" ELSE "PENDING")
  <2>1. desk[d].w \in Withdrawals
    BY <1>h, <1>1 DEF Insert
  <2>2. status' = [status EXCEPT ![desk[d].w] = IF desk[d].auto THEN "AUTO_APPROVED" ELSE "PENDING"]
    BY <1>1 DEF Insert
  <2> QED BY <1>0, <1>s, <2>1, <2>2, StatusEffect
<1>2. ASSUME NEW c \in Clerks, Decide(c)
      PROVE  /\ clerk[c].verdict \in {"APPROVED", "DECLINED"}
             /\ StatusBecomes(clerk[c].w, clerk[c].verdict)
  <2>1. clerk[c].w \in Withdrawals /\ clerk[c].verdict \in {"APPROVED", "DECLINED"}
    BY <1>0, <1>h, <1>2 DEF Decide, ClerkState
  <2>2. status' = [status EXCEPT ![clerk[c].w] = clerk[c].verdict]
    BY <1>2 DEF Decide
  <2> QED BY <1>0, <1>s, <2>1, <2>2, StatusEffect
<1>3. ASSUME NEW j \in Jobs, Begin(j) PROVE StatusBecomes(job[j].w, "PROCESSING")
  BY <1>0, <1>h, <1>s, <1>3, StatusEffect DEF Begin
<1>4. ASSUME NEW j \in Jobs, Finish(j)
      PROVE  \/ StatusBecomes(job[j].w, "SUCCESS") /\ Leave(j) /\ UNCHANGED trouble
             \/ Fault("write") /\ Goto(j, "fail") /\ UNCHANGED status
  BY <1>0, <1>h, <1>s, <1>4, StatusEffect DEF Finish
<1>5. ASSUME NEW j \in Jobs, Fail(j) PROVE StatusBecomes(job[j].w, "FAILED")
  BY <1>0, <1>h, <1>s, <1>5, StatusEffect DEF Fail
<1> QED BY <1>1, <1>2, <1>3, <1>4, <1>5


-----------------------------------------------------------------------------
(* The steps again, with what each of them leaves in every variable that   *)
(* the invariants below speak of.                                          *)

Kept == UNCHANGED <<status, recent, paid, feePaid, clerk, job, desk, happened>>

AskMove(d) ==
  /\ UNCHANGED <<status, recent, paid, feePaid, clerk, job, happened>>
  /\ desk[d].pc \in Asking \ {"insert"}
  /\ \/ DeskBecomes(d, "idle", Nil)
     \/ /\ desk[d].pc = "cooldown" /\ ~(HasCooldown /\ recent # {})
        /\ DeskBecomes(d, "limits", desk[d].w)
     \/ /\ desk[d].pc = "limits" /\ WithinLimits(desk[d].w)
        /\ \E p \in {"balance", "insert"} : DeskBecomes(d, p, desk[d].w)
     \/ desk[d].pc = "balance" /\ DeskBecomes(d, "insert", desk[d].w)

InsertMove(d) ==
  /\ UNCHANGED <<paid, feePaid, clerk, job, happened>>
  /\ desk[d].pc = "insert" /\ desk[d].w \in Withdrawals
  /\ recent' = recent \cup {desk[d].w}
  /\ \/ StatusBecomes(desk[d].w, "AUTO_APPROVED") /\ DeskBecomes(d, "start", desk[d].w)
     \/ StatusBecomes(desk[d].w, "PENDING") /\ DeskBecomes(d, "idle", Nil)

DeskStartMove(d) ==
  /\ UNCHANGED <<status, recent, paid, feePaid, clerk, happened>>
  /\ desk[d].pc = "start" /\ desk[d].w \in Withdrawals
  /\ DeskBecomes(d, "idle", Nil)
  /\ \E j \in Jobs : job[j].pc = "idle" /\ JobBecomes(j, "read", desk[d].w)

CoolDownMove == UNCHANGED <<status, paid, feePaid, desk, clerk, job, happened>> /\ recent' \subseteq recent

OpenMove(c, w) ==
  /\ UNCHANGED <<status, recent, paid, feePaid, desk, job>>
  /\ clerk[c].pc = "idle" /\ status[w] = "PENDING"
  /\ ClerkBecomes(c, "save", w)
  /\ \/ happened' = happened \cup {"decisions"}
     \/ happened' = happened /\ \A b \in Clerks : clerk[b].w # w

DecideMove(c) ==
  /\ UNCHANGED <<recent, paid, feePaid, desk, job, happened>>
  /\ clerk[c].pc = "save" /\ clerk[c].w \in Withdrawals
  /\ \/ StatusBecomes(clerk[c].w, "APPROVED") /\ ClerkBecomes(c, "start", clerk[c].w)
     \/ StatusBecomes(clerk[c].w, "DECLINED") /\ ClerkBecomes(c, "idle", Nil)

ClerkStartMove(c) ==
  /\ UNCHANGED <<status, recent, paid, feePaid, desk, happened>>
  /\ clerk[c].pc = "start" /\ clerk[c].w \in Withdrawals
  /\ ClerkBecomes(c, "idle", Nil)
  /\ \E j \in Jobs : job[j].pc = "idle" /\ JobBecomes(j, "read", clerk[c].w)

ReadMove(j) ==
  /\ job[j].pc = "read" /\ UNCHANGED <<status, paid, feePaid, happened>>
  /\ IF status[job[j].w] \in {"APPROVED", "AUTO_APPROVED"}
       THEN JobBecomes(j, "begin", job[j].w) ELSE JobBecomes(j, "idle", Nil)

BeginMove(j) ==
  /\ job[j].pc = "begin" /\ UNCHANGED <<paid, feePaid, happened>>
  /\ StatusBecomes(job[j].w, "PROCESSING") /\ JobBecomes(j, "transfer", job[j].w)

TransferMove(j) ==
  LET w == job[j].w
      Pays == paid' \in [Withdrawals -> Nat] /\ paid'[w] = paid[w] + 1
              /\ \A v \in Withdrawals : v # w => paid'[v] = paid[v]
  IN
  /\ job[j].pc = "transfer" /\ UNCHANGED <<status, feePaid>>
  /\ \/ Pays /\ JobBecomes(j, "fee", w) /\ UNCHANGED happened
     \/ Pays /\ JobBecomes(j, "fail", w) /\ happened' = happened \cup {"lost"}
     \/ UNCHANGED paid /\ JobBecomes(j, "fee", w) /\ happened' = happened \cup {"unmined"}
     \/ /\ UNCHANGED paid /\ JobBecomes(j, "fail", w)
        /\ \E k \in {{}, {"failed"}} : happened' = happened \cup k

PayFeeMove(j) ==
  LET w == job[j].w IN
  /\ job[j].pc = "fee" /\ UNCHANGED <<status, paid>>
  /\ JobBecomes(j, "finish", w)
  /\ \/ /\ feePaid' \in [Withdrawals -> Nat] /\ feePaid'[w] = feePaid[w] + 1
        /\ \A v \in Withdrawals : v # w => feePaid'[v] = feePaid[v]
        /\ UNCHANGED happened
     \/ UNCHANGED feePaid /\ \E k \in {{}, {"fee"}} : happened' = happened \cup k

FinishMove(j) ==
  /\ job[j].pc = "finish" /\ UNCHANGED <<paid, feePaid>>
  /\ \/ /\ StatusBecomes(job[j].w, "SUCCESS") /\ JobBecomes(j, "idle", Nil)
        /\ UNCHANGED happened
     \/ /\ UNCHANGED status /\ JobBecomes(j, "fail", job[j].w)
        /\ happened' = happened \cup {"write"}

FailMove(j) ==
  /\ job[j].pc = "fail" /\ UNCHANGED <<paid, feePaid, happened>>
  /\ StatusBecomes(job[j].w, "FAILED") /\ JobBecomes(j, "idle", Nil)

JobMove(j) ==
  /\ UNCHANGED <<recent, desk, clerk>>
  /\ job[j].w \in Withdrawals
  /\ ReadMove(j) \/ BeginMove(j) \/ TransferMove(j) \/ PayFeeMove(j) \/ FinishMove(j) \/ FailMove(j)

SubmitMove(d, w) ==
  /\ desk[d].pc = "idle" /\ status[w] = "ABSENT" /\ \A e \in Desks : desk[e].w # w
  /\ DeskBecomes(d, "cooldown", w)
  /\ UNCHANGED <<status, recent, paid, feePaid, clerk, job>>
  /\ \/ happened' = happened \cup {"requests"}
     \/ happened' = happened /\ \A e \in Desks : desk[e].pc = "idle"

CrashMove ==
  /\ UNCHANGED <<status, recent, paid, feePaid>>
  /\ happened' = happened \cup {"crash"}
  /\ \/ UNCHANGED <<clerk, job>> /\ \E d \in Desks : DeskBecomes(d, "idle", Nil)
     \/ UNCHANGED <<desk, job>> /\ \E c \in Clerks : ClerkBecomes(c, "idle", Nil)
     \/ UNCHANGED <<desk, clerk>> /\ \E j \in Jobs : JobBecomes(j, "idle", Nil)

Move ==
  \/ \E d \in Desks, w \in Withdrawals : SubmitMove(d, w)
  \/ \E d \in Desks : AskMove(d) \/ InsertMove(d) \/ DeskStartMove(d)
  \/ CoolDownMove
  \/ \E c \in Clerks, w \in Withdrawals : OpenMove(c, w)
  \/ \E c \in Clerks : DecideMove(c) \/ ClerkStartMove(c)
  \/ \E j \in Jobs : JobMove(j)
  \/ CrashMove
  \/ Kept

\* Every step is one of these.
LEMMA StepIsMove == TypeOK /\ HoldersInOrder /\ [Next]_vars => Move
<1> SUFFICES ASSUME TypeOK, HoldersInOrder, [Next]_vars PROVE Move
  OBVIOUS
<1> USE DEF dbVars, chainVars, trouble
<1>0. /\ status \in [Withdrawals -> Status] /\ paid \in [Withdrawals -> Nat]
      /\ feePaid \in [Withdrawals -> Nat]
      /\ desk \in [Desks -> DeskState] /\ clerk \in [Clerks -> ClerkState]
      /\ job \in [Jobs -> JobState]
  BY DEF TypeOK
<1>h. /\ \A d \in Desks : desk[d].pc # "idle" => desk[d].w \in Withdrawals
      /\ \A c \in Clerks : clerk[c].pc # "idle" => clerk[c].w \in Withdrawals
      /\ \A j \in Jobs : job[j].pc # "idle" => job[j].w \in Withdrawals
  BY <1>0, WithdrawalAssumption DEF HoldersInOrder, DeskState, ClerkState, JobState
<1>1. ASSUME NEW d \in Desks, NEW w \in Withdrawals, Submit(d, w) PROVE SubmitMove(d, w)
  <2>1. DeskBecomes(d, "cooldown", w)
    BY <1>0, <1>1 DEF Submit, DeskState, DeskBecomes
  <2> QED BY <1>1, <2>1 DEF Submit, SubmitMove
<1>2. ASSUME NEW d \in Desks, DeskStep(d) PROVE AskMove(d) \/ InsertMove(d) \/ DeskStartMove(d)
  <2>1. CASE CheckCooldown(d)
    BY <1>0, <2>1, CheckCooldownEffect DEF CheckCooldown, AskMove, Asking
  <2>2. CASE CheckLimits(d)
    BY <1>0, <2>2, CheckLimitsEffect DEF CheckLimits, AskMove, Asking
  <2>3. CASE CheckBalance(d)
    BY <1>0, <2>3, CheckBalanceEffect DEF CheckBalance, AskMove, Asking
  <2>4. CASE Insert(d)
    BY <1>0, <1>h, <2>4, InsertEffect, WriteEffect DEF Insert, InsertMove
  <2>5. CASE DeskStarts(d)
    <3>1. desk[d].pc = "start" /\ desk[d].w \in Withdrawals /\ DeskBecomes(d, "idle", Nil)
      BY <1>0, <1>h, <2>5, DeskEffect DEF DeskStarts
    <3>2. \E j \in Jobs : job[j].pc = "idle" /\ JobBecomes(j, "read", desk[d].w)
      BY <1>0, <2>5, <3>1, StartEffect DEF DeskStarts
    <3> QED BY <2>5, <3>1, <3>2 DEF DeskStarts, DeskStartMove
  <2> QED BY <1>2, <2>1, <2>2, <2>3, <2>4, <2>5 DEF DeskStep
<1>3. ASSUME NEW w \in Withdrawals, CoolDown(w) PROVE CoolDownMove
  BY <1>3 DEF CoolDown, CoolDownMove
<1>4. ASSUME NEW c \in Clerks, NEW w \in Withdrawals, Open(c, w) PROVE OpenMove(c, w)
  BY <1>0, <1>4, OpenEffect DEF Open, Decidable, OpenMove
<1>5. ASSUME NEW c \in Clerks, ClerkStep(c) PROVE DecideMove(c) \/ ClerkStartMove(c)
  <2>1. CASE Decide(c)
    <3>1. clerk[c].pc = "save" /\ clerk[c].w \in Withdrawals
      BY <1>h, <2>1 DEF Decide
    <3>2. clerk[c].verdict \in {"APPROVED", "DECLINED"} /\ StatusBecomes(clerk[c].w, clerk[c].verdict)
      BY <2>1, WriteEffect
    <3>3. IF clerk[c].verdict = "APPROVED" THEN ClerkBecomes(c, "start", clerk[c].w)
                                           ELSE ClerkBecomes(c, "idle", Nil)
      BY <1>0, <2>1, ClerkEffect
    <3> QED BY <2>1, <3>1, <3>2, <3>3 DEF Decide, DecideMove
  <2>2. CASE ClerkStarts(c)
    <3>1. clerk[c].pc = "start" /\ clerk[c].w \in Withdrawals /\ ClerkBecomes(c, "idle", Nil)
      BY <1>0, <1>h, <2>2, ClerkEffect DEF ClerkStarts
    <3>2. \E j \in Jobs : job[j].pc = "idle" /\ JobBecomes(j, "read", clerk[c].w)
      BY <1>0, <2>2, <3>1, StartEffect DEF ClerkStarts
    <3> QED BY <2>2, <3>1, <3>2 DEF ClerkStarts, ClerkStartMove
  <2> QED BY <1>5, <2>1, <2>2 DEF ClerkStep
<1>6. ASSUME NEW j \in Jobs, JobStep(j) PROVE JobMove(j)
  <2>0. UNCHANGED <<recent, desk, clerk>> /\ job[j].w \in Withdrawals
    BY <1>6, <1>h DEF JobStep, ReadStatus, Begin, Transfer, PayFee, Finish, Fail
  <2>1. CASE ReadStatus(j)
    BY <1>0, <2>0, <2>1, GotoEffect, LeaveEffect DEF ReadStatus, ReadMove, JobMove
  <2>2. CASE Begin(j)
    BY <1>0, <2>0, <2>2, GotoEffect, WriteEffect DEF Begin, BeginMove, JobMove
  <2>3. CASE Transfer(j)
    <3> DEFINE w == job[j].w
               Pays == paid' \in [Withdrawals -> Nat] /\ paid'[w] = paid[w] + 1
                       /\ \A v \in Withdrawals : v # w => paid'[v] = paid[v]
    <3>1. paid' = [paid EXCEPT ![w] = @ + 1] => Pays
      BY <1>0, <2>0
    <3>2. (Goto(j, "fee") => JobBecomes(j, "fee", w)) /\ (Goto(j, "fail") => JobBecomes(j, "fail", w))
      BY <1>0, GotoEffect
    <3>3. \/ Pays /\ JobBecomes(j, "fee", w) /\ UNCHANGED happened
          \/ Pays /\ JobBecomes(j, "fail", w) /\ happened' = happened \cup {"lost"}
          \/ UNCHANGED paid /\ JobBecomes(j, "fee", w) /\ happened' = happened \cup {"unmined"}
          \/ /\ UNCHANGED paid /\ JobBecomes(j, "fail", w)
             /\ \E k \in {{}, {"failed"}} : happened' = happened \cup k
      <4> HIDE DEF Pays
      <4> QED BY <2>3, <3>1, <3>2 DEF Transfer, Fault
    <3>4. job[j].pc = "transfer" /\ UNCHANGED <<status, feePaid>>
      BY <2>3 DEF Transfer
    <3> QED BY <2>0, <3>3, <3>4 DEF TransferMove, JobMove
  <2>4. CASE PayFee(j)
    <3>1. feePaid' = [feePaid EXCEPT ![job[j].w] = @ + 1] =>
            /\ feePaid' \in [Withdrawals -> Nat] /\ feePaid'[job[j].w] = feePaid[job[j].w] + 1
            /\ \A v \in Withdrawals : v # job[j].w => feePaid'[v] = feePaid[v]
      BY <1>0, <2>0
    <3>2. JobBecomes(j, "finish", job[j].w)
      BY <1>0, <2>4, GotoEffect DEF PayFee
    <3> QED BY <2>0, <2>4, <3>1, <3>2 DEF PayFee, Fault, PayFeeMove, JobMove
  <2>5. CASE Finish(j)
    <3>1. (Leave(j) => JobBecomes(j, "idle", Nil)) /\ (Goto(j, "fail") => JobBecomes(j, "fail", job[j].w))
      BY <1>0, GotoEffect, LeaveEffect
    <3> QED BY <2>0, <2>5, <3>1, WriteEffect DEF Finish, Fault, FinishMove, JobMove
  <2>6. CASE Fail(j)
    BY <1>0, <2>0, <2>6, LeaveEffect, WriteEffect DEF Fail, FailMove, JobMove
  <2> QED BY <1>6, <2>1, <2>2, <2>3, <2>4, <2>5, <2>6 DEF JobStep
<1>7. CASE Crash
  <2>1. CASE UNCHANGED <<clerk, job>> /\ \E d \in Desks : desk' = [desk EXCEPT ![d] = IdleDesk]
    BY <1>0, <1>7, <2>1, DeskEffect DEF Crash, Fault, CrashMove, Move
  <2>2. CASE UNCHANGED <<desk, job>> /\ \E c \in Clerks : clerk' = [clerk EXCEPT ![c] = IdleClerk]
    BY <1>0, <1>7, <2>2, ClerkEffect DEF Crash, Fault, CrashMove, Move
  <2>3. CASE UNCHANGED <<desk, clerk>> /\ \E j \in Jobs : Leave(j)
    BY <1>0, <1>7, <2>3, LeaveEffect DEF Crash, Fault, CrashMove, Move
  <2> QED BY <1>7, <2>1, <2>2, <2>3 DEF Crash
<1>8. CASE UNCHANGED vars
  BY <1>8 DEF vars, Kept, Move
<1> QED BY <1>1, <1>2, <1>3, <1>4, <1>5, <1>6, <1>7, <1>8 DEF Next, Move

-----------------------------------------------------------------------------
(* When a withdrawal exists.                                               *)

LEMMA StoredStep ==
  ASSUME TypeOK, HoldersInOrder, StoredInOrder, Move PROVE StoredInOrder'
<1> DEFINE DeskOK(d)  == /\ desk[d].pc \in Asking => status[desk[d].w] = "ABSENT"
                         /\ desk[d].pc = "start" => status[desk[d].w] # "ABSENT"
           ClerkOK(c) == clerk[c].pc # "idle" => status[clerk[c].w] # "ABSENT"
           JobOK(j)   == job[j].pc # "idle" => status[job[j].w] # "ABSENT"
<1>0. /\ desk \in [Desks -> DeskState] /\ clerk \in [Clerks -> ClerkState]
      /\ job \in [Jobs -> JobState]
  BY DEF TypeOK
<1>h. /\ \A d \in Desks : desk[d].pc # "idle" => desk[d].w \in Withdrawals
      /\ \A c \in Clerks : clerk[c].pc # "idle" => clerk[c].w \in Withdrawals
      /\ \A j \in Jobs : job[j].pc # "idle" => job[j].w \in Withdrawals
  BY <1>0, WithdrawalAssumption DEF HoldersInOrder, DeskState, ClerkState, JobState
<1>i. (\A d \in Desks : DeskOK(d)) /\ (\A c \in Clerks : ClerkOK(c)) /\ (\A j \in Jobs : JobOK(j))
  BY DEF StoredInOrder
<1>q. (\A d \in Desks : DeskOK(d)') /\ (\A c \in Clerks : ClerkOK(c)') /\ (\A j \in Jobs : JobOK(j)')
        => StoredInOrder'
  BY DEF StoredInOrder
<1> USE DEF Asking
<1>1. ASSUME NEW d \in Desks, NEW w \in Withdrawals, SubmitMove(d, w) PROVE StoredInOrder'
  BY <1>1, <1>i, <1>q DEF SubmitMove, DeskBecomes
<1>2. ASSUME NEW d \in Desks, AskMove(d) PROVE StoredInOrder'
  BY <1>2, <1>i, <1>q DEF AskMove, DeskBecomes
<1>3. ASSUME NEW d \in Desks, InsertMove(d) PROVE StoredInOrder'
  <2>1. \A e \in Desks : e # d => DeskOK(e)'
    BY <1>3, <1>0, <1>h, <1>i DEF InsertMove, DeskBecomes, StatusBecomes, HoldersInOrder
  <2>2. DeskOK(d)'
    BY <1>3 DEF InsertMove, DeskBecomes, StatusBecomes
  <2>3. (\A c \in Clerks : ClerkOK(c)') /\ (\A j \in Jobs : JobOK(j)')
    BY <1>3, <1>h, <1>i DEF InsertMove, StatusBecomes
  <2> QED BY <1>q, <2>1, <2>2, <2>3
<1>4. ASSUME NEW d \in Desks, DeskStartMove(d) PROVE StoredInOrder'
  BY <1>4, <1>i, <1>q DEF DeskStartMove, DeskBecomes, JobBecomes
<1>5. CASE CoolDownMove
  BY <1>5, <1>i, <1>q DEF CoolDownMove
<1>6. ASSUME NEW c \in Clerks, NEW w \in Withdrawals, OpenMove(c, w) PROVE StoredInOrder'
  BY <1>6, <1>i, <1>q DEF OpenMove, ClerkBecomes
<1>7. ASSUME NEW c \in Clerks, DecideMove(c) PROVE StoredInOrder'
  <2>1. status[clerk[c].w] # "ABSENT" /\ status'[clerk[c].w] # "ABSENT"
    BY <1>7, <1>i DEF DecideMove, StatusBecomes
  <2>2. (\A d \in Desks : DeskOK(d)') /\ (\A j \in Jobs : JobOK(j)')
    BY <1>7, <1>h, <1>i, <2>1 DEF DecideMove, StatusBecomes
  <2>3. \A b \in Clerks : ClerkOK(b)'
    BY <1>7, <1>h, <1>i, <2>1 DEF DecideMove, StatusBecomes, ClerkBecomes
  <2> QED BY <1>q, <2>2, <2>3
<1>8. ASSUME NEW c \in Clerks, ClerkStartMove(c) PROVE StoredInOrder'
  BY <1>8, <1>i, <1>q DEF ClerkStartMove, ClerkBecomes, JobBecomes
<1>9. ASSUME NEW j \in Jobs, JobMove(j) PROVE StoredInOrder'
  <2>1. /\ status[job[j].w] # "ABSENT"
        /\ \/ UNCHANGED status
           \/ \E s \in {"PROCESSING", "SUCCESS", "FAILED"} : StatusBecomes(job[j].w, s)
    BY <1>9, <1>i DEF JobMove, ReadMove, BeginMove, TransferMove, PayFeeMove, FinishMove, FailMove
  <2>2. \A v \in Withdrawals : status'[v] = "ABSENT" <=> status[v] = "ABSENT"
    BY <2>1 DEF StatusBecomes
  <2>3. (\A d \in Desks : DeskOK(d)') /\ (\A c \in Clerks : ClerkOK(c)')
    BY <1>9, <1>h, <1>i, <2>2 DEF JobMove
  <2>4. \/ JobBecomes(j, "idle", Nil)
        \/ job'[j].w = job[j].w /\ \A k \in Jobs : k # j => job'[k] = job[k]
    BY <1>9 DEF JobMove, ReadMove, BeginMove, TransferMove, PayFeeMove, FinishMove, FailMove, JobBecomes
  <2>5. \A k \in Jobs : JobOK(k)'
    BY <1>9, <1>h, <1>i, <2>1, <2>2, <2>4 DEF JobBecomes, JobMove
  <2> QED BY <1>q, <2>3, <2>5
<1>10. CASE CrashMove
  BY <1>10, <1>i, <1>q DEF CrashMove, DeskBecomes, ClerkBecomes, JobBecomes
<1>11. CASE Kept
  BY <1>11, <1>i, <1>q DEF Kept
<1> QED BY <1>1, <1>2, <1>3, <1>4, <1>5, <1>6, <1>7, <1>8, <1>9, <1>10, <1>11 DEF Move

-----------------------------------------------------------------------------
(* Nothing is forgotten without a crash.                                   *)

LEMMA NobodyForgetsStep ==
  ASSUME TypeOK, HoldersInOrder, StoredInOrder, NobodyForgets, Move PROVE NobodyForgets'
<1> SUFFICES ASSUME "crash" \notin happened', NEW v \in Withdrawals
             PROVE  /\ status'[v] \in {"APPROVED", "AUTO_APPROVED"} => Taken(v)'
                    /\ status'[v] = "PROCESSING" => BeingPaid(v)'
  BY DEF NobodyForgets
<1> DEFINE Goal == /\ status'[v] \in {"APPROVED", "AUTO_APPROVED"} => Taken(v)'
                   /\ status'[v] = "PROCESSING" => BeingPaid(v)'
<1>n. Nil # v
  BY WithdrawalAssumption
<1>i. "crash" \notin happened =>
        /\ status[v] \in {"APPROVED", "AUTO_APPROVED"} => Taken(v)
        /\ status[v] = "PROCESSING" => BeingPaid(v)
  BY DEF NobodyForgets
<1>h. /\ \A d \in Desks : desk[d].pc = "idle" <=> desk[d].w = Nil
      /\ \A c \in Clerks : clerk[c].pc = "idle" <=> clerk[c].w = Nil
      /\ \A j \in Jobs : job[j].pc = "idle" <=> job[j].w = Nil
      /\ \A d, e \in Desks : desk[d].w = desk[e].w /\ desk[d].w # Nil => d = e
  BY DEF HoldersInOrder
<1> USE DEF Taken, BeingPaid, Paying
<1>1. ASSUME NEW d \in Desks, NEW w \in Withdrawals, SubmitMove(d, w) PROVE Goal
  BY <1>1, <1>i DEF SubmitMove, DeskBecomes
<1>2. ASSUME NEW d \in Desks, AskMove(d) PROVE Goal
  BY <1>2, <1>i DEF AskMove, DeskBecomes, Asking
<1>3. ASSUME NEW d \in Desks, InsertMove(d) PROVE Goal
  BY <1>3, <1>i DEF InsertMove, DeskBecomes, StatusBecomes
<1>4. ASSUME NEW d \in Desks, DeskStartMove(d) PROVE Goal
  <2>1. PICK j \in Jobs : job[j].pc = "idle" /\ JobBecomes(j, "read", desk[d].w)
    BY <1>4 DEF DeskStartMove
  <2>2. job[j].w = Nil
    BY <2>1, <1>h
  <2> QED BY <1>4, <1>i, <1>n, <2>1, <2>2 DEF DeskStartMove, DeskBecomes, JobBecomes
<1>5. CASE CoolDownMove
  BY <1>5, <1>i DEF CoolDownMove
<1>6. ASSUME NEW c \in Clerks, NEW w \in Withdrawals, OpenMove(c, w) PROVE Goal
  BY <1>6, <1>i DEF OpenMove, ClerkBecomes
<1>7. ASSUME NEW c \in Clerks, DecideMove(c) PROVE Goal
  BY <1>7, <1>i DEF DecideMove, ClerkBecomes, StatusBecomes
<1>8. ASSUME NEW c \in Clerks, ClerkStartMove(c) PROVE Goal
  <2>1. PICK j \in Jobs : job[j].pc = "idle" /\ JobBecomes(j, "read", clerk[c].w)
    BY <1>8 DEF ClerkStartMove
  <2>2. job[j].w = Nil
    BY <2>1, <1>h
  <2> QED BY <1>8, <1>i, <1>n, <2>1, <2>2 DEF ClerkStartMove, ClerkBecomes, JobBecomes
<1>9. ASSUME NEW j \in Jobs, JobMove(j) PROVE Goal
  <2>1. "crash" \notin happened /\ UNCHANGED <<desk, clerk>>
    BY <1>9 DEF JobMove, ReadMove, BeginMove, TransferMove, PayFeeMove, FinishMove, FailMove
  <2>2. CASE ReadMove(j)
    BY <1>i, <1>h, <1>n, <2>1, <2>2 DEF ReadMove, JobBecomes
  <2>3. CASE BeginMove(j)
    BY <1>i, <1>h, <1>n, <2>1, <2>3 DEF BeginMove, JobBecomes, StatusBecomes
  <2>4. CASE TransferMove(j)
    <3>1. UNCHANGED status /\ job[j].pc = "transfer" /\ \E p \in {"fee", "fail"} : JobBecomes(j, p, job[j].w)
      BY <2>4 DEF TransferMove
    <3> QED BY <1>i, <2>1, <3>1 DEF JobBecomes
  <2>5. CASE PayFeeMove(j)
    BY <1>i, <1>h, <1>n, <2>1, <2>5 DEF PayFeeMove, JobBecomes
  <2>6. CASE FinishMove(j)
    BY <1>i, <1>h, <1>n, <2>1, <2>6 DEF FinishMove, JobBecomes, StatusBecomes
  <2>7. CASE FailMove(j)
    BY <1>i, <1>h, <1>n, <2>1, <2>7 DEF FailMove, JobBecomes, StatusBecomes
  <2> QED BY <1>9, <2>2, <2>3, <2>4, <2>5, <2>6, <2>7 DEF JobMove
<1>10. CASE CrashMove
  BY <1>10 DEF CrashMove
<1>11. CASE Kept
  BY <1>11, <1>i DEF Kept
<1> QED BY <1>1, <1>2, <1>3, <1>4, <1>5, <1>6, <1>7, <1>8, <1>9, <1>10, <1>11 DEF Move

-----------------------------------------------------------------------------
(* One holder at a time.                                                   *)

LEMMA UndisputedStep ==
  ASSUME TypeOK, HoldersInOrder, StoredInOrder, Undisputed, Move PROVE Undisputed'
<1> SUFFICES ASSUME "decisions" \notin happened' PROVE OneHolder'
  BY DEF Undisputed
<1> DEFINE ClerksOK == \A c \in Clerks : ClerkKnows(c)
           DesksOK  == \A d \in Desks : DeskKnows(d)
           JobsOK   == \A j \in Jobs : JobKnows(j)
           PaidOK   == \A w \in Withdrawals : PaidInOrder(w)
<1>0. /\ desk \in [Desks -> DeskState] /\ clerk \in [Clerks -> ClerkState]
      /\ job \in [Jobs -> JobState] /\ paid \in [Withdrawals -> Nat]
  BY DEF TypeOK
<1>h. /\ \A d \in Desks : desk[d].pc = "idle" <=> desk[d].w = Nil
      /\ \A c \in Clerks : clerk[c].pc = "idle" <=> clerk[c].w = Nil
      /\ \A j \in Jobs : job[j].pc = "idle" <=> job[j].w = Nil
      /\ \A d, e \in Desks : desk[d].w = desk[e].w /\ desk[d].w # Nil => d = e
  BY DEF HoldersInOrder
<1>k. /\ \A d \in Desks : desk[d].pc # "idle" => desk[d].w \in Withdrawals
      /\ \A c \in Clerks : clerk[c].pc # "idle" => clerk[c].w \in Withdrawals
      /\ \A j \in Jobs : job[j].pc # "idle" => job[j].w \in Withdrawals
  BY <1>0, <1>h, WithdrawalAssumption DEF DeskState, ClerkState, JobState
<1>n. Nil \notin Withdrawals
  BY WithdrawalAssumption
<1>p. "decisions" \notin happened
  BY DEF Move, SubmitMove, AskMove, InsertMove, DeskStartMove, CoolDownMove, OpenMove, DecideMove,
         ClerkStartMove, JobMove, ReadMove, BeginMove, TransferMove, PayFeeMove, FinishMove, FailMove,
         CrashMove, Kept
<1>q. ClerksOK' /\ DesksOK' /\ JobsOK' /\ PaidOK' /\ FailureIsTrue' => OneHolder'
  BY DEF OneHolder
<1>i. ClerksOK /\ DesksOK /\ JobsOK /\ PaidOK /\ FailureIsTrue
  BY <1>p DEF Undisputed, OneHolder
<1> USE DEF ClerkKnows, DeskKnows, JobKnows, Paying
<1>1. ASSUME NEW d \in Desks, NEW w \in Withdrawals, SubmitMove(d, w) PROVE OneHolder'
  <2>1. UNCHANGED <<status, paid, clerk, job>>
    BY <1>1 DEF SubmitMove
  <2>2. ClerksOK' /\ JobsOK' /\ PaidOK'
    BY <1>i, <2>1 DEF PaidInOrder
  <2>3. DesksOK'
    BY <1>1, <1>i, <2>1 DEF SubmitMove, DeskBecomes
  <2>4. FailureIsTrue'
    BY <1>1, <1>i, <2>1 DEF FailureIsTrue, SubmitMove
  <2> QED BY <1>q, <2>2, <2>3, <2>4
<1>2. ASSUME NEW d \in Desks, AskMove(d) PROVE OneHolder'
  <2>1. UNCHANGED <<status, paid, clerk, job, happened>>
    BY <1>2 DEF AskMove
  <2>2. ClerksOK' /\ JobsOK' /\ PaidOK' /\ FailureIsTrue'
    BY <1>i, <2>1 DEF PaidInOrder, FailureIsTrue
  <2>3. DesksOK'
    BY <1>2, <1>i, <2>1 DEF AskMove, DeskBecomes
  <2> QED BY <1>q, <2>2, <2>3
<1>3. ASSUME NEW d \in Desks, InsertMove(d) PROVE OneHolder'
  <2> DEFINE w == desk[d].w
  <2>1. /\ UNCHANGED <<paid, clerk, job, happened>> /\ w \in Withdrawals /\ status[w] = "ABSENT"
        /\ \E s \in {"AUTO_APPROVED", "PENDING"} : StatusBecomes(w, s)
    BY <1>3 DEF InsertMove, StoredInOrder, Asking
  <2>2. /\ \A c \in Clerks : clerk[c].w # w /\ \A j \in Jobs : job[j].w # w
        /\ \A j \in Jobs : job[j].w # w
    BY <1>h, <1>n, <2>1 DEF StoredInOrder
  <2>3. ClerksOK'
    BY <1>i, <1>k, <2>1, <2>2 DEF StatusBecomes
  <2>4. JobsOK'
    BY <1>i, <1>k, <2>1, <2>2 DEF StatusBecomes
  <2>5. PaidOK'
    BY <1>i, <2>1 DEF PaidInOrder, StatusBecomes
  <2>6. FailureIsTrue'
    BY <1>i, <2>1 DEF FailureIsTrue, StatusBecomes
  <2>7. DesksOK'
    <3>1. ASSUME NEW e \in Desks, e # d PROVE DeskKnows(e)'
      <4>1. desk'[e] = desk[e] /\ (desk[e].pc # "idle" => desk[e].w # w /\ desk[e].w \in Withdrawals)
        BY <1>3, <1>h, <1>k, <1>n, <2>1, <3>1 DEF InsertMove, DeskBecomes
      <4> QED BY <1>i, <2>1, <4>1 DEF StatusBecomes
    <3>2. DeskKnows(d)'
      BY <1>3, <2>1, <2>2 DEF InsertMove, DeskBecomes, StatusBecomes
    <3> QED BY <3>1, <3>2
  <2> QED BY <1>q, <2>3, <2>4, <2>5, <2>6, <2>7
<1>4. ASSUME NEW d \in Desks, DeskStartMove(d) PROVE OneHolder'
  <2> DEFINE w == desk[d].w
  <2>1. PICK j \in Jobs : job[j].pc = "idle" /\ JobBecomes(j, "read", w)
    BY <1>4 DEF DeskStartMove
  <2>2. /\ UNCHANGED <<status, paid, clerk, happened>> /\ DeskBecomes(d, "idle", Nil)
        /\ w \in Withdrawals /\ status[w] = "AUTO_APPROVED" /\ \A k \in Jobs : job[k].w # w
    BY <1>4, <1>i DEF DeskStartMove
  <2>3. \A c \in Clerks : clerk[c].w # w
    BY <1>0, <1>h, <1>i, <1>n, <2>2 DEF ClerkState
  <2>4. ClerksOK'
    BY <1>i, <2>1, <2>2, <2>3 DEF JobBecomes
  <2>5. JobsOK'
    BY <1>i, <2>1, <2>2 DEF JobBecomes
  <2>6. DesksOK'
    BY <1>4, <1>h, <1>i, <1>n, <2>1, <2>2 DEF DeskBecomes, JobBecomes
  <2>7. PaidOK' /\ FailureIsTrue'
    BY <1>i, <2>1, <2>2 DEF PaidInOrder, FailureIsTrue, JobBecomes
  <2> QED BY <1>q, <2>4, <2>5, <2>6, <2>7
<1>5. CASE CoolDownMove
  <2>1. UNCHANGED <<status, paid, desk, clerk, job, happened>>
    BY <1>5 DEF CoolDownMove
  <2> QED BY <1>i, <1>q, <2>1 DEF PaidInOrder, FailureIsTrue
<1>6. ASSUME NEW c \in Clerks, NEW w \in Withdrawals, OpenMove(c, w) PROVE OneHolder'
  <2>1. /\ UNCHANGED <<status, paid, desk, job, happened>> /\ status[w] = "PENDING"
        /\ \A b \in Clerks : clerk[b].w # w
        /\ ClerkBecomes(c, "save", w)
    BY <1>6 DEF OpenMove
  <2>2. \A j \in Jobs : job[j].w # w
    BY <1>0, <1>h, <1>i, <1>n, <2>1 DEF JobState
  <2>3. ClerksOK'
    BY <1>i, <2>1, <2>2 DEF ClerkBecomes
  <2>4. DesksOK' /\ JobsOK' /\ PaidOK' /\ FailureIsTrue'
    BY <1>i, <2>1 DEF PaidInOrder, FailureIsTrue
  <2> QED BY <1>q, <2>3, <2>4
<1>7. ASSUME NEW c \in Clerks, DecideMove(c) PROVE OneHolder'
  <2> DEFINE w == clerk[c].w
  <2>1. /\ UNCHANGED <<paid, desk, job, happened>> /\ w \in Withdrawals /\ status[w] = "PENDING"
        /\ \A b \in Clerks : b # c => clerk[b].w # w
        /\ \A j \in Jobs : job[j].w # w
        /\ \E s \in {"APPROVED", "DECLINED"} : StatusBecomes(w, s)
    BY <1>7, <1>i, <1>n DEF DecideMove
  <2>2. ClerksOK'
    <3>1. ASSUME NEW b \in Clerks, b # c PROVE ClerkKnows(b)'
      <4>1. clerk'[b] = clerk[b] /\ clerk[b].w # w
        BY <1>7, <2>1, <3>1 DEF DecideMove, ClerkBecomes
      <4>2. clerk'[c].w \in {w, Nil}
        BY <1>7 DEF DecideMove, ClerkBecomes
      <4>3. \A a \in Clerks : clerk'[a].w = clerk[b].w /\ clerk[b].w # Nil => a = b
        BY <1>7, <1>i, <3>1, <4>1, <4>2 DEF DecideMove, ClerkBecomes
      <4> QED BY <1>i, <1>k, <2>1, <4>1, <4>3 DEF StatusBecomes
    <3>2. ClerkKnows(c)'
      BY <1>7, <1>i, <1>n, <2>1 DEF DecideMove, ClerkBecomes, StatusBecomes
    <3> QED BY <3>1, <3>2
  <2>3. DesksOK'
    BY <1>i, <1>k, <2>1 DEF StatusBecomes
  <2>4. JobsOK'
    BY <1>i, <1>k, <2>1 DEF StatusBecomes
  <2>5. PaidOK'
    BY <1>i, <2>1 DEF PaidInOrder, StatusBecomes
  <2>6. FailureIsTrue'
    BY <1>i, <2>1 DEF FailureIsTrue, StatusBecomes
  <2> QED BY <1>q, <2>2, <2>3, <2>4, <2>5, <2>6
<1>8. ASSUME NEW c \in Clerks, ClerkStartMove(c) PROVE OneHolder'
  <2> DEFINE w == clerk[c].w
  <2>1. PICK j \in Jobs : job[j].pc = "idle" /\ JobBecomes(j, "read", w)
    BY <1>8 DEF ClerkStartMove
  <2>2. /\ UNCHANGED <<status, paid, desk, happened>> /\ ClerkBecomes(c, "idle", Nil)
        /\ w \in Withdrawals /\ status[w] = "APPROVED" /\ \A k \in Jobs : job[k].w # w
        /\ \A b \in Clerks : b # c => clerk[b].w # w
    BY <1>8, <1>i, <1>n DEF ClerkStartMove
  <2>3. ClerksOK'
    BY <1>i, <1>n, <2>1, <2>2 DEF JobBecomes, ClerkBecomes
  <2>4. JobsOK'
    BY <1>i, <2>1, <2>2 DEF JobBecomes
  <2>5. DesksOK'
    BY <1>i, <2>1, <2>2 DEF JobBecomes
  <2>6. PaidOK' /\ FailureIsTrue'
    BY <1>i, <2>1, <2>2 DEF PaidInOrder, FailureIsTrue, JobBecomes
  <2> QED BY <1>q, <2>3, <2>4, <2>5, <2>6
<1>9. ASSUME NEW j \in Jobs, JobMove(j) PROVE OneHolder'
  <2> DEFINE w == job[j].w
  <2>1. /\ UNCHANGED <<desk, clerk>> /\ w \in Withdrawals
        /\ \A c \in Clerks : clerk[c].w # w
        /\ \A d \in Desks : desk[d].pc = "start" => desk[d].w # w
        /\ \A k \in Jobs : k # j => job[k].w # w
    BY <1>9, <1>h, <1>i, <1>n DEF JobMove
  <2> DEFINE Moves == /\ job'[j].w \in {w, Nil} /\ \A k \in Jobs : k # j => job'[k] = job[k]
                      /\ \A v \in Withdrawals : v # w => status'[v] = status[v] /\ paid'[v] = paid[v]
  <2>2. Moves => ClerksOK'
    BY <1>i, <1>k, <1>h, <2>1
  <2>3. Moves => DesksOK'
    BY <1>i, <1>k, <1>n, <2>1
  <2>4. Moves => \A k \in Jobs : k # j => JobKnows(k)'
    BY <1>i, <1>k, <1>h, <1>n, <2>1
  <2>5. Moves => \A v \in Withdrawals : v # w => PaidInOrder(v)'
    BY <1>i DEF PaidInOrder
  <2>6. job'[j].w \in {w, Nil} /\ (\A k \in Jobs : k # j => job'[k] = job[k])
          => \A k \in Jobs : job'[k].w = job'[j].w /\ job'[k].w # Nil => k = j
    BY <2>1
  <2>7. ASSUME Moves, JobKnows(j)', \A v \in {w} : PaidInOrder(v)', FailureIsTrue' PROVE OneHolder'
    <3>1. JobsOK'
      <4> HIDE DEF Moves, JobKnows
      <4> QED BY <2>4, <2>7
    <3>2. PaidOK'
      BY <2>5, <2>7
    <3> HIDE DEF Moves, ClerksOK, DesksOK, JobsOK, PaidOK
    <3> QED BY <1>q, <2>2, <2>3, <2>7, <3>1, <3>2
  <2>8. PaidInOrder(w) /\ JobKnows(j)
    BY <1>i, <2>1
  <2>9. CASE ReadMove(j)
    <3>1. UNCHANGED <<status, paid, happened>>
      BY <2>9 DEF ReadMove
    <3>2. Moves
      BY <2>9, <3>1 DEF ReadMove, JobBecomes
    <3>3. JobKnows(j)' /\ \A v \in {w} : PaidInOrder(v)'
      BY <2>6, <2>8, <2>9, <3>1 DEF ReadMove, JobBecomes, PaidInOrder
    <3>4. FailureIsTrue'
      BY <1>i, <2>9, <3>1 DEF ReadMove, JobBecomes, FailureIsTrue
    <3> QED BY <2>7, <3>2, <3>3, <3>4
  <2>10. CASE BeginMove(j)
    <3>1. UNCHANGED <<paid, happened>>
      BY <2>10 DEF BeginMove
    <3>2. Moves
      BY <2>10, <3>1 DEF BeginMove, JobBecomes, StatusBecomes
    <3>3. paid[w] = 0
      BY <2>8, <2>10 DEF BeginMove, PaidInOrder
    <3>4. JobKnows(j)' /\ \A v \in {w} : PaidInOrder(v)'
      BY <2>6, <2>10, <3>1, <3>3 DEF BeginMove, JobBecomes, StatusBecomes, PaidInOrder
    <3>5. FailureIsTrue'
      BY <1>i, <2>10, <3>1 DEF BeginMove, JobBecomes, StatusBecomes, FailureIsTrue
    <3> QED BY <2>7, <3>2, <3>4, <3>5
  <2>11. CASE TransferMove(j)
    <3>1. /\ UNCHANGED status /\ status[w] = "PROCESSING" /\ paid[w] = 0
          /\ \A v \in Withdrawals : v # w => paid'[v] = paid[v]
          /\ paid'[w] \in {0, 1}
          /\ \E p \in {"fee", "fail"} : JobBecomes(j, p, w)
      BY <1>0, <2>8, <2>11 DEF TransferMove
    <3>2. Moves
      BY <3>1 DEF JobBecomes
    <3>3. JobKnows(j)' /\ \A v \in {w} : PaidInOrder(v)'
      BY <2>6, <3>1 DEF JobBecomes, PaidInOrder
    <3>4. ASSUME happened' \cap {"lost", "write"} = {}
          PROVE  /\ happened \cap {"lost", "write"} = {}
                 /\ job'[j].pc = "fail" => paid'[w] = 0
      BY <2>11, <3>1, <3>4 DEF TransferMove, JobBecomes
    <3>5. ASSUME happened' \cap {"lost", "write"} = {}
          PROVE  \A k \in Jobs : job'[k].pc = "fail" => paid'[job'[k].w] = 0
      <4>1. ASSUME NEW k \in Jobs, k # j, job'[k].pc = "fail" PROVE paid'[job'[k].w] = 0
        BY <1>i, <1>k, <2>1, <3>1, <3>4, <3>5, <4>1 DEF FailureIsTrue, JobBecomes
      <4> QED BY <3>1, <3>4, <3>5, <4>1 DEF JobBecomes
    <3>6. ASSUME happened' \cap {"lost", "write"} = {}, NEW v \in Withdrawals, status'[v] = "FAILED"
          PROVE  paid'[v] = 0
      BY <1>i, <3>1, <3>4, <3>6 DEF FailureIsTrue
    <3>7. FailureIsTrue'
      BY <3>5, <3>6 DEF FailureIsTrue
    <3> QED BY <2>7, <3>2, <3>3, <3>7
  <2>12. CASE PayFeeMove(j)
    <3>1. UNCHANGED <<status, paid>> /\ happened \subseteq happened' /\ JobBecomes(j, "finish", w)
          /\ job[j].pc = "fee"
      BY <2>12 DEF PayFeeMove
    <3>2. Moves
      BY <3>1 DEF JobBecomes
    <3>3. JobKnows(j)' /\ \A v \in {w} : PaidInOrder(v)'
      BY <2>6, <2>8, <3>1 DEF JobBecomes, PaidInOrder
    <3>4. FailureIsTrue'
      BY <1>i, <3>1 DEF JobBecomes, FailureIsTrue
    <3> QED BY <2>7, <3>2, <3>3, <3>4
  <2>13. CASE FinishMove(j)
    <3>1. CASE StatusBecomes(w, "SUCCESS") /\ JobBecomes(j, "idle", Nil) /\ UNCHANGED happened
      <4>1. UNCHANGED paid
        BY <2>13 DEF FinishMove
      <4>2. Moves
        BY <3>1, <4>1 DEF JobBecomes, StatusBecomes
      <4>3. JobKnows(j)'
        BY <2>6, <3>1 DEF JobBecomes
      <4>5. \A v \in {w} : PaidInOrder(v)'
        BY <2>8, <3>1, <4>1 DEF StatusBecomes, PaidInOrder
      <4>4. FailureIsTrue'
        BY <1>i, <3>1, <4>1 DEF JobBecomes, StatusBecomes, FailureIsTrue
      <4> QED BY <2>7, <4>2, <4>3, <4>4, <4>5
    <3>2. CASE UNCHANGED status /\ JobBecomes(j, "fail", w) /\ happened' = happened \cup {"write"}
      <4>1. UNCHANGED paid /\ job[j].pc = "finish"
        BY <2>13 DEF FinishMove
      <4>2. Moves
        BY <3>2, <4>1 DEF JobBecomes
      <4>3. JobKnows(j)' /\ \A v \in {w} : PaidInOrder(v)'
        BY <2>6, <2>8, <3>2, <4>1 DEF JobBecomes, PaidInOrder
      <4>4. FailureIsTrue'
        BY <3>2 DEF FailureIsTrue
      <4> QED BY <2>7, <4>2, <4>3, <4>4
    <3> QED BY <2>13, <3>1, <3>2 DEF FinishMove
  <2>14. CASE FailMove(j)
    <3>1. UNCHANGED <<paid, happened>> /\ job[j].pc = "fail" /\ StatusBecomes(w, "FAILED")
          /\ JobBecomes(j, "idle", Nil)
      BY <2>14 DEF FailMove
    <3>2. Moves
      BY <3>1 DEF JobBecomes, StatusBecomes
    <3>3. JobKnows(j)'
      BY <2>6, <3>1 DEF JobBecomes
    <3>5. \A v \in {w} : PaidInOrder(v)'
      BY <2>8, <3>1 DEF StatusBecomes, PaidInOrder
    <3>4. FailureIsTrue'
      BY <1>i, <3>1 DEF JobBecomes, StatusBecomes, FailureIsTrue
    <3> QED BY <2>7, <3>2, <3>3, <3>4, <3>5
  <2> HIDE DEF Moves
  <2> QED BY <1>9, <2>9, <2>10, <2>11, <2>12, <2>13, <2>14 DEF JobMove
<1>10. CASE CrashMove
  <2>1. UNCHANGED <<status, paid>> /\ happened \subseteq happened'
    BY <1>10 DEF CrashMove
  <2>2. CASE UNCHANGED <<clerk, job>> /\ \E d \in Desks : DeskBecomes(d, "idle", Nil)
    BY <1>i, <2>1, <2>2 DEF DeskBecomes, PaidInOrder, FailureIsTrue, OneHolder
  <2>3. CASE UNCHANGED <<desk, job>> /\ \E c \in Clerks : ClerkBecomes(c, "idle", Nil)
    BY <1>i, <2>1, <2>3 DEF ClerkBecomes, PaidInOrder, FailureIsTrue, OneHolder
  <2>4. CASE UNCHANGED <<desk, clerk>> /\ \E j \in Jobs : JobBecomes(j, "idle", Nil)
    <3>1. PICK j \in Jobs : JobBecomes(j, "idle", Nil)
      BY <2>4
    <3>2. ClerksOK' /\ DesksOK'
      BY <1>i, <1>h, <1>k, <1>n, <2>1, <2>4, <3>1 DEF JobBecomes
    <3>3. JobsOK'
      BY <1>i, <1>n, <2>1, <2>4, <3>1 DEF JobBecomes
    <3>4. PaidOK' /\ FailureIsTrue'
      BY <1>i, <2>1, <3>1 DEF JobBecomes, PaidInOrder, FailureIsTrue
    <3> QED BY <1>q, <3>2, <3>3, <3>4
  <2> QED BY <1>10, <2>2, <2>3, <2>4 DEF CrashMove
<1>11. CASE Kept
  <2>1. UNCHANGED <<status, paid, desk, clerk, job, happened>>
    BY <1>11 DEF Kept
  <2> QED BY <1>i, <1>q, <2>1 DEF PaidInOrder, FailureIsTrue
<1> QED BY <1>1, <1>2, <1>3, <1>4, <1>5, <1>6, <1>7, <1>8, <1>9, <1>10, <1>11 DEF Move

-----------------------------------------------------------------------------
(* Money: what an activation that leaves "fee" takes away from FeeDue.     *)

LEMMA FeeDueEffect ==
  ASSUME TypeOK, NEW v
  PROVE  /\ IsFiniteSet(FeeDue(v)) /\ Cardinality(FeeDue(v)) \in Nat
         /\ \A j \in FeeDue(v) : Cardinality(FeeDue(v)) >= 1
         /\ \A j \in Jobs : \A p, w : JobBecomes(j, p, w) =>
              /\ p # "fee" => /\ FeeDue(v)' = FeeDue(v) \ {j}
                              /\ Cardinality(FeeDue(v)') \in Nat
                              /\ Cardinality(FeeDue(v)') <= Cardinality(FeeDue(v))
                              /\ j \in FeeDue(v) =>
                                   Cardinality(FeeDue(v)') = Cardinality(FeeDue(v)) - 1
              /\ p = "fee" /\ w = v /\ job[j].pc # "fee" =>
                   Cardinality(FeeDue(v)') = Cardinality(FeeDue(v)) + 1
              /\ p = "fee" /\ w # v /\ job[j].pc # "fee" => FeeDue(v)' = FeeDue(v)
<1>1. IsFiniteSet(FeeDue(v))
  BY WithdrawalAssumption, FS_Subset DEF FeeDue
<1>2. Cardinality(FeeDue(v)) \in Nat
  BY <1>1, FS_CardinalityType
<1>3. ASSUME NEW j \in FeeDue(v) PROVE Cardinality(FeeDue(v)) >= 1
  BY <1>1, <1>2, <1>3, FS_EmptySet
<1>4. ASSUME NEW j \in Jobs, NEW p, NEW w, JobBecomes(j, p, w), p # "fee"
      PROVE  /\ FeeDue(v)' = FeeDue(v) \ {j}
             /\ Cardinality(FeeDue(v)') \in Nat
             /\ Cardinality(FeeDue(v)') <= Cardinality(FeeDue(v))
             /\ j \in FeeDue(v) => Cardinality(FeeDue(v)') = Cardinality(FeeDue(v)) - 1
  <2>1. FeeDue(v)' = FeeDue(v) \ {j}
    BY <1>4 DEF JobBecomes, FeeDue
  <2>2. IF j \in FeeDue(v) THEN Cardinality(FeeDue(v) \ {j}) = Cardinality(FeeDue(v)) - 1
                           ELSE FeeDue(v) \ {j} = FeeDue(v)
    BY <1>1, FS_RemoveElement
  <2>3. j \in FeeDue(v) => Cardinality(FeeDue(v)) >= 1
    BY <1>3
  <2>4. Cardinality(FeeDue(v)') = Cardinality(FeeDue(v) \ {j})
    BY <2>1
  <2>5. CASE j \in FeeDue(v)
    BY <1>2, <2>1, <2>2, <2>3, <2>4, <2>5
  <2>6. CASE j \notin FeeDue(v)
    <3>1. FeeDue(v)' = FeeDue(v)
      BY <2>1, <2>6
    <3>2. Cardinality(FeeDue(v)') = Cardinality(FeeDue(v))
      BY <3>1
    <3>3. Cardinality(FeeDue(v)') \in Nat /\ Cardinality(FeeDue(v)') <= Cardinality(FeeDue(v))
      BY <1>2, <3>2
    <3> QED BY <2>1, <2>6, <3>3
  <2> QED BY <2>5, <2>6
<1>5. ASSUME NEW j \in Jobs, NEW p, NEW w, JobBecomes(j, p, w), p = "fee", w = v,
             job[j].pc # "fee"
      PROVE  Cardinality(FeeDue(v)') = Cardinality(FeeDue(v)) + 1
  <2>1. FeeDue(v)' = FeeDue(v) \cup {j} /\ j \notin FeeDue(v)
    BY <1>5 DEF JobBecomes, FeeDue
  <2> QED BY <1>1, <2>1, FS_AddElement
<1>6. ASSUME NEW j \in Jobs, NEW p, NEW w, JobBecomes(j, p, w), p = "fee", w # v,
             job[j].pc # "fee"
      PROVE  FeeDue(v)' = FeeDue(v)
  BY <1>6 DEF JobBecomes, FeeDue
<1> QED BY <1>1, <1>2, <1>3, <1>4, <1>5, <1>6

LEMMA MoneyStep ==
  ASSUME TypeOK, HoldersInOrder, MoneyInOrder, Move PROVE MoneyInOrder'
<1> DEFINE StatusOK == \A w \in Withdrawals : status[w] = "SUCCESS" => paid[w] > 0
           JobsOK   == \A j \in Jobs : job[j].pc = "finish" => paid[job[j].w] > 0
           FeeOK(w) == feePaid[w] + Cardinality(FeeDue(w)) <= paid[w]
           Good     == StatusOK /\ JobsOK /\ \A w \in Withdrawals : FeeOK(w)
<1> SUFFICES ASSUME "unmined" \notin happened' PROVE Good'
  BY DEF MoneyInOrder
<1>0. paid \in [Withdrawals -> Nat] /\ feePaid \in [Withdrawals -> Nat] /\ job \in [Jobs -> JobState]
  BY DEF TypeOK
<1>k. \A j \in Jobs : job[j].pc # "idle" => job[j].w \in Withdrawals
  BY <1>0, WithdrawalAssumption DEF HoldersInOrder, JobState
<1>p. "unmined" \notin happened
  BY DEF Move, SubmitMove, AskMove, InsertMove, DeskStartMove, CoolDownMove, OpenMove, DecideMove,
         ClerkStartMove, JobMove, ReadMove, BeginMove, TransferMove, PayFeeMove, FinishMove, FailMove,
         CrashMove, Kept
<1>i. Good
  BY <1>p DEF MoneyInOrder
<1>c. \A w \in Withdrawals : Cardinality(FeeDue(w)) \in Nat
  BY FeeDueEffect
<1>s. ASSUME \/ UNCHANGED status
             \/ \E w \in Withdrawals, s \in Status : s # "SUCCESS" /\ StatusBecomes(w, s),
             \A w \in Withdrawals : paid'[w] \in Nat /\ paid'[w] >= paid[w]
      PROVE  StatusOK'
  BY <1>0, <1>i, <1>s DEF StatusBecomes
\* The steps of others, and those of an activation that move no money.
<1>o. ASSUME UNCHANGED <<paid, feePaid>>,
             \/ UNCHANGED status
             \/ \E w \in Withdrawals, s \in Status : s # "SUCCESS" /\ StatusBecomes(w, s),
             \/ UNCHANGED job
             \/ \E j \in Jobs, p \in {"idle", "read", "begin", "transfer", "fail"} : \E w : JobBecomes(j, p, w)
      PROVE  Good'
  <2>1. StatusOK'
    BY <1>0, <1>o, <1>s
  <2>2. JobsOK'
    BY <1>i, <1>o DEF JobBecomes
  <2>3. ASSUME NEW w \in Withdrawals PROVE FeeOK(w)'
    <3>1. CASE UNCHANGED job
      BY <1>i, <1>o, <3>1 DEF FeeDue
    <3>2. ASSUME NEW j \in Jobs, NEW p \in {"idle", "read", "begin", "transfer", "fail"}, NEW v,
                 JobBecomes(j, p, v)
          PROVE  FeeOK(w)'
      <4>1. Cardinality(FeeDue(w)') \in Nat /\ Cardinality(FeeDue(w)') <= Cardinality(FeeDue(w))
        BY <3>2, FeeDueEffect
      <4>2. feePaid[w] + Cardinality(FeeDue(w)) <= paid[w] /\ feePaid[w] \in Nat /\ paid[w] \in Nat
        BY <1>0, <1>i
      <4> QED BY <1>o, <1>c, <4>1, <4>2
    <3> QED BY <1>o, <3>1, <3>2
  <2> QED BY <2>1, <2>2, <2>3
<1>1. ASSUME NEW d \in Desks, NEW w \in Withdrawals, SubmitMove(d, w) PROVE Good'
  BY <1>1, <1>o DEF SubmitMove
<1>2. ASSUME NEW d \in Desks, AskMove(d) \/ InsertMove(d) \/ DeskStartMove(d) PROVE Good'
  BY <1>2, <1>o DEF AskMove, InsertMove, DeskStartMove, Status
<1>3. CASE CoolDownMove
  BY <1>3, <1>o DEF CoolDownMove
<1>4. ASSUME NEW c \in Clerks, NEW w \in Withdrawals, OpenMove(c, w) PROVE Good'
  BY <1>4, <1>o DEF OpenMove
<1>5. ASSUME NEW c \in Clerks, DecideMove(c) \/ ClerkStartMove(c) PROVE Good'
  BY <1>5, <1>o DEF DecideMove, ClerkStartMove, Status
<1>6. ASSUME NEW j \in Jobs, JobMove(j) PROVE Good'
  <2> DEFINE w == job[j].w
  <2>0. w \in Withdrawals
    BY <1>6 DEF JobMove
  <2>1. CASE ReadMove(j) \/ BeginMove(j) \/ FailMove(j)
    BY <1>o, <2>0, <2>1 DEF ReadMove, BeginMove, FailMove, Status
  <2>2. CASE TransferMove(j)
    <3>1. job[j].pc = "transfer" /\ UNCHANGED <<status, feePaid>>
      BY <2>2 DEF TransferMove
    <3>2. CASE UNCHANGED paid /\ JobBecomes(j, "fail", w)
      BY <1>o, <3>1, <3>2
    <3>3. ASSUME NEW p \in {"fee", "fail"}, JobBecomes(j, p, w),
                 paid' \in [Withdrawals -> Nat], paid'[w] = paid[w] + 1,
                 \A v \in Withdrawals : v # w => paid'[v] = paid[v]
          PROVE  Good'
      <4>0. \A v \in Withdrawals : paid'[v] \in Nat /\ paid'[v] >= paid[v]
        BY <1>0, <2>0, <3>3
      <4>1. StatusOK'
        BY <1>s, <3>1, <4>0
      <4>2. JobsOK'
        BY <1>0, <1>i, <1>k, <3>3, <4>0 DEF JobBecomes
      <4>3. ASSUME NEW v \in Withdrawals PROVE FeeOK(v)'
        <5>1. feePaid[v] + Cardinality(FeeDue(v)) <= paid[v] /\ feePaid[v] \in Nat /\ paid[v] \in Nat
          BY <1>0, <1>i
        <5>2. CASE p = "fail"
          <6>1. Cardinality(FeeDue(v)') \in Nat /\ Cardinality(FeeDue(v)') <= Cardinality(FeeDue(v))
            BY <3>3, <5>2, FeeDueEffect
          <6> QED BY <1>c, <3>1, <4>0, <5>1, <6>1
        <5>3. CASE p = "fee" /\ v = w
          <6>1. Cardinality(FeeDue(v)') = Cardinality(FeeDue(v)) + 1
            BY <3>1, <3>3, <5>3, FeeDueEffect
          <6> QED BY <1>c, <3>1, <3>3, <5>1, <5>3, <6>1
        <5>4. CASE p = "fee" /\ v # w
          <6>1. FeeDue(v)' = FeeDue(v)
            BY <3>1, <3>3, <5>4, FeeDueEffect
          <6> QED BY <1>c, <3>1, <4>0, <5>1, <6>1
        <5> QED BY <5>2, <5>3, <5>4
      <4> QED BY <4>1, <4>2, <4>3
    <3> QED BY <2>2, <3>2, <3>3 DEF TransferMove
  <2>3. CASE PayFeeMove(j)
    <3>1. job[j].pc = "fee" /\ UNCHANGED <<status, paid>> /\ JobBecomes(j, "finish", w)
      BY <2>3 DEF PayFeeMove
    <3>2. j \in FeeDue(w)
      BY <3>1 DEF FeeDue
    <3>3. paid[w] > 0
      <4>1. feePaid[w] + Cardinality(FeeDue(w)) <= paid[w] /\ Cardinality(FeeDue(w)) >= 1
        BY <1>i, <2>0, <3>2, FeeDueEffect
      <4> QED BY <1>0, <1>c, <2>0, <4>1
    <3>4. StatusOK'
      BY <1>0, <1>s, <3>1
    <3>5. JobsOK'
      BY <1>i, <3>1, <3>3 DEF JobBecomes
    <3>6. ASSUME NEW v \in Withdrawals PROVE FeeOK(v)'
      <4>1. feePaid[v] + Cardinality(FeeDue(v)) <= paid[v] /\ feePaid[v] \in Nat /\ paid[v] \in Nat
        BY <1>0, <1>i
      <4>2. /\ Cardinality(FeeDue(v)') \in Nat /\ Cardinality(FeeDue(v)') <= Cardinality(FeeDue(v))
            /\ j \in FeeDue(v) => Cardinality(FeeDue(v)') = Cardinality(FeeDue(v)) - 1
        BY <3>1, FeeDueEffect
      <4>3. feePaid'[v] \in Nat /\ feePaid'[v] <= feePaid[v] + (IF v = w THEN 1 ELSE 0)
        BY <1>0, <2>0, <2>3 DEF PayFeeMove
      <4> QED BY <1>c, <3>1, <3>2, <4>1, <4>2, <4>3
    <3> QED BY <3>4, <3>5, <3>6
  <2>4. CASE FinishMove(j)
    <3>1. job[j].pc = "finish" /\ UNCHANGED <<paid, feePaid>> /\ paid[w] > 0
      BY <1>i, <2>4 DEF FinishMove
    <3>2. CASE UNCHANGED status /\ JobBecomes(j, "fail", w)
      BY <1>o, <3>1, <3>2
    <3>3. CASE StatusBecomes(w, "SUCCESS") /\ JobBecomes(j, "idle", Nil)
      <4>1. StatusOK'
        BY <1>i, <3>1, <3>3 DEF StatusBecomes
      <4>2. JobsOK'
        BY <1>i, <3>1, <3>3 DEF JobBecomes
      <4>3. ASSUME NEW v \in Withdrawals PROVE FeeOK(v)'
        <5>1. feePaid[v] + Cardinality(FeeDue(v)) <= paid[v] /\ feePaid[v] \in Nat /\ paid[v] \in Nat
          BY <1>0, <1>i
        <5>2. Cardinality(FeeDue(v)') \in Nat /\ Cardinality(FeeDue(v)') <= Cardinality(FeeDue(v))
          BY <3>3, FeeDueEffect
        <5> QED BY <1>c, <3>1, <5>1, <5>2
      <4> QED BY <4>1, <4>2, <4>3
    <3> QED BY <2>4, <3>2, <3>3 DEF FinishMove
  <2> QED BY <1>6, <2>1, <2>2, <2>3, <2>4 DEF JobMove
<1>7. CASE CrashMove
  BY <1>7, <1>o DEF CrashMove
<1>8. CASE Kept
  BY <1>8, <1>o DEF Kept
<1> HIDE DEF Good
<1> QED BY <1>1, <1>2, <1>3, <1>4, <1>5, <1>6, <1>7, <1>8 DEF Move

-----------------------------------------------------------------------------
(* The limits.                                                             *)

LEMMA StoredFiniteStep == IsFiniteSet(Stored) /\ Move => IsFiniteSet(Stored')
<1> SUFFICES ASSUME IsFiniteSet(Stored), Move PROVE IsFiniteSet(Stored')
  OBVIOUS
<1>1. UNCHANGED status \/ \E w \in Withdrawals, s \in Status : StatusBecomes(w, s)
  BY DEF Move, SubmitMove, AskMove, InsertMove, DeskStartMove, CoolDownMove, OpenMove, DecideMove,
         ClerkStartMove, JobMove, ReadMove, BeginMove, TransferMove, PayFeeMove, FinishMove, FailMove,
         CrashMove, Kept, Status
<1>2. \E w : Stored' \subseteq Stored \cup {w}
  BY <1>1 DEF Stored, StatusBecomes
<1>3. PICK w : Stored' \subseteq Stored \cup {w}
  BY <1>2
<1>4. IsFiniteSet(Stored \cup {w})
  BY FS_AddElement
<1> QED BY <1>3, <1>4, FS_Subset

LEMMA CooldownStep ==
  ASSUME CooldownInOrder, Move PROVE CooldownInOrder'
<1> DEFINE Busy == {"limits", "balance", "insert"}
           Good == /\ \A d, e \in Desks : desk[d].pc # "idle" /\ desk[e].pc # "idle" => d = e
                   /\ HasCooldown =>
                        /\ \A v, w \in recent : v = w
                        /\ \A d \in Desks : desk[d].pc \in Busy => recent = {}
<1> SUFFICES ASSUME "requests" \notin happened' PROVE Good'
  BY DEF CooldownInOrder
<1>i. Good
  BY DEF CooldownInOrder, Move, SubmitMove, AskMove, InsertMove, DeskStartMove, CoolDownMove, OpenMove,
         DecideMove, ClerkStartMove, JobMove, ReadMove, BeginMove, TransferMove, PayFeeMove,
         FinishMove, FailMove, CrashMove, Kept
<1>o. ASSUME UNCHANGED desk, recent' \subseteq recent PROVE Good'
  BY <1>i, <1>o
<1>d. ASSUME UNCHANGED recent, NEW d \in Desks, NEW p, NEW w, DeskBecomes(d, p, w),
             desk[d].pc # "idle" \/ p = "idle",
             HasCooldown => (p \in Busy => recent = {})
      PROVE  Good'
  BY <1>i, <1>d DEF DeskBecomes
<1>1. ASSUME NEW d \in Desks, NEW w \in Withdrawals, SubmitMove(d, w) PROVE Good'
  BY <1>1, <1>i DEF SubmitMove, DeskBecomes
<1>2. ASSUME NEW d \in Desks, AskMove(d) PROVE Good'
  <2>1. UNCHANGED recent /\ desk[d].pc # "idle"
    BY <1>2 DEF AskMove, Asking
  <2>2. PICK p, w : DeskBecomes(d, p, w) /\ (HasCooldown => (p \in Busy => recent = {}))
    BY <1>2, <1>i DEF AskMove
  <2> QED BY <1>d, <2>1, <2>2
<1>3. ASSUME NEW d \in Desks, InsertMove(d) PROVE Good'
  <2>1. desk[d].pc = "insert" /\ recent' = recent \cup {desk[d].w}
    BY <1>3 DEF InsertMove
  <2>2. \A e \in Desks : e # d => desk'[e].pc = "idle"
    BY <1>3, <1>i DEF InsertMove, DeskBecomes
  <2>3. desk'[d].pc \notin Busy
    BY <1>3 DEF InsertMove, DeskBecomes
  <2> QED BY <1>i, <2>1, <2>2, <2>3
<1>4. ASSUME NEW d \in Desks, DeskStartMove(d) PROVE Good'
  BY <1>4, <1>d DEF DeskStartMove
<1>5. CASE CoolDownMove
  BY <1>5, <1>o DEF CoolDownMove
<1>6. ASSUME NEW c \in Clerks, NEW w \in Withdrawals, OpenMove(c, w) PROVE Good'
  BY <1>6, <1>o DEF OpenMove
<1>7. ASSUME NEW c \in Clerks, DecideMove(c) \/ ClerkStartMove(c) PROVE Good'
  BY <1>7, <1>o DEF DecideMove, ClerkStartMove
<1>8. ASSUME NEW j \in Jobs, JobMove(j) PROVE Good'
  BY <1>8, <1>o DEF JobMove
<1>9. CASE CrashMove
  BY <1>9, <1>o, <1>d DEF CrashMove
<1>10. CASE Kept
  BY <1>10, <1>o DEF Kept
<1> HIDE DEF Good
<1> QED BY <1>1, <1>2, <1>3, <1>4, <1>5, <1>6, <1>7, <1>8, <1>9, <1>10 DEF Move

\* What Today and Total say of more and of fewer withdrawals.
LEMMA TodayFacts ==
  ASSUME IsFiniteSet(Stored)
  PROVE  /\ IsFiniteSet(Today) /\ Cardinality(Today) \in Nat /\ Total(Today) \in Nat
         /\ \A ws \in SUBSET Today : /\ Cardinality(ws) \in Nat /\ Total(ws) \in Nat
                                     /\ Cardinality(ws) <= Cardinality(Today)
                                     /\ Total(ws) <= Total(Today)
         /\ \A w \in Withdrawals \ Today :
              /\ Cardinality(Today \cup {w}) = Cardinality(Today) + 1
              /\ Total(Today \cup {w}) = Total(Today) + Amount[w]
<1>1. IsFiniteSet(Today)
  BY FS_Subset DEF Today, Stored
<1>2. \A w \in Withdrawals : Amount[w] \in Nat
  BY WithdrawalAssumption
<1>3. \A ws : Total(ws) = SumOver(Amount, ws)
  BY DEF Total, SumOver
<1>4. \A w \in Today : Amount[w] \in Nat
  BY <1>2 DEF Today
<1>5. ASSUME NEW ws \in SUBSET Today
      PROVE  /\ Cardinality(ws) \in Nat /\ Total(ws) \in Nat
             /\ Cardinality(ws) <= Cardinality(Today)
             /\ Total(ws) <= Total(Today)
  <2>1. IsFiniteSet(ws) /\ Cardinality(ws) <= Cardinality(Today)
    BY <1>1, FS_Subset
  <2>2. SumOver(Amount, ws) \in Nat
    BY <1>4, <2>1, SumNat
  <2>3. SumOver(Amount, ws) <= SumOver(Amount, Today)
    BY <1>1, <1>4, SumSubset
  <2> QED BY <1>3, <2>1, <2>2, <2>3, FS_CardinalityType
<1>6. ASSUME NEW w \in Withdrawals \ Today
      PROVE  /\ Cardinality(Today \cup {w}) = Cardinality(Today) + 1
             /\ Total(Today \cup {w}) = Total(Today) + Amount[w]
  <2>1. Cardinality(Today \cup {w}) = Cardinality(Today) + 1
    BY <1>1, FS_AddElement
  <2>2. Summable(Amount, Today) /\ Amount[w] \in Int
    BY <1>1, <1>2, <1>4 DEF Summable
  <2>3. SumOver(Amount, Today \cup {w}) = Amount[w] + SumOver(Amount, Today)
    BY <2>2, SumAdd
  <2>4. SumOver(Amount, Today) \in Int
    BY <2>2, SumType
  <2> QED BY <1>3, <2>1, <2>2, <2>3, <2>4
<1>7. Cardinality(Today) \in Nat /\ Total(Today) \in Nat
  BY <1>5
<1> QED BY <1>1, <1>5, <1>6, <1>7

LEMMA LimitsStep ==
  ASSUME TypeOK, IsFiniteSet(Stored), HoldersInOrder, StoredInOrder, Undisputed, CooldownInOrder,
         LimitsInOrder, Move
  PROVE  LimitsInOrder'
<1> DEFINE Checked == {"balance", "insert"}
           Good == /\ RequestLimit > 0 =>
                        /\ Cardinality(Today) <= RequestLimit
                        /\ \A d \in Desks : desk[d].pc \in Checked => Cardinality(Today) < RequestLimit
                   /\ AmountLimit > 0 =>
                        /\ Total(Today) <= AmountLimit
                        /\ \A d \in Desks : desk[d].pc \in Checked =>
                             Total(Today) + Amount[desk[d].w] <= AmountLimit
<1> SUFFICES ASSUME "requests" \notin happened', "decisions" \notin happened' PROVE Good'
  BY DEF LimitsInOrder
<1>p. "requests" \notin happened /\ "decisions" \notin happened
  BY DEF Move, SubmitMove, AskMove, InsertMove, DeskStartMove, CoolDownMove, OpenMove, DecideMove,
         ClerkStartMove, JobMove, ReadMove, BeginMove, TransferMove, PayFeeMove, FinishMove, FailMove,
         CrashMove, Kept
<1>i. Good
  BY <1>p DEF LimitsInOrder
<1>j. OneHolder
  BY <1>p DEF Undisputed
<1>t. RequestLimit \in Nat /\ AmountLimit \in Nat /\ (\A w \in Withdrawals : Amount[w] \in Nat)
  BY WithdrawalAssumption
<1>k. \A d \in Desks : desk[d].pc # "idle" => desk[d].w \in Withdrawals
  BY WithdrawalAssumption DEF HoldersInOrder, DeskState, TypeOK
<1>f. /\ Cardinality(Today) \in Nat /\ Total(Today) \in Nat
      /\ \A ws \in SUBSET Today : /\ Cardinality(ws) \in Nat /\ Total(ws) \in Nat
                                  /\ Cardinality(ws) <= Cardinality(Today)
                                  /\ Total(ws) <= Total(Today)
  BY TodayFacts
<1>v. Total(Today)' = Total(Today')
  OBVIOUS
\* A step that stores nothing new and checks nothing.
<1>o. ASSUME Today' \subseteq Today,
             \A d \in Desks : desk'[d].pc \in Checked => desk[d].pc \in Checked /\ desk'[d].w = desk[d].w
      PROVE  Good'
  <2> DEFINE n == Cardinality(Today)'
             t == Total(Today)'
  <2>1. n \in Nat /\ t \in Nat /\ n <= Cardinality(Today) /\ t <= Total(Today)
    BY <1>f, <1>o, <1>v
  <2> HIDE DEF n, t
  <2>2. RequestLimit > 0 =>
          /\ n <= RequestLimit
          /\ \A d \in Desks : desk'[d].pc \in Checked => n < RequestLimit
    BY <1>f, <1>i, <1>o, <1>t, <2>1
  <2>3. AmountLimit > 0 =>
          /\ t <= AmountLimit
          /\ \A d \in Desks : desk'[d].pc \in Checked => t + Amount[desk'[d].w] <= AmountLimit
    <3>1. AmountLimit > 0 => t <= AmountLimit
      BY <1>f, <1>i, <1>t, <2>1
    <3>2. ASSUME AmountLimit > 0, NEW d \in Desks, desk'[d].pc \in Checked
          PROVE  t + Amount[desk'[d].w] <= AmountLimit
      <4>1. Total(Today) + Amount[desk[d].w] <= AmountLimit /\ desk'[d].w = desk[d].w
        BY <1>i, <1>o, <3>2
      <4>2. Amount[desk[d].w] \in Nat
        BY <1>k, <1>o, <1>t, <3>2
      <4> QED BY <1>f, <1>t, <2>1, <4>1, <4>2
    <3> QED BY <3>1, <3>2
  <2> QED BY <2>2, <2>3 DEF n, t
<1>s. ASSUME NEW w, NEW s, StatusBecomes(w, s), status[w] \notin {"ABSENT", "DECLINED"}
      PROVE  Today' \subseteq Today
  BY <1>s DEF StatusBecomes, Today
<1>u. UNCHANGED status => Today' = Today
  BY DEF Today
<1>1. ASSUME NEW d \in Desks, NEW w \in Withdrawals, SubmitMove(d, w) PROVE Good'
  BY <1>1, <1>o, <1>u DEF SubmitMove, DeskBecomes
<1>2. ASSUME NEW d \in Desks, AskMove(d) PROVE Good'
  <2>0. UNCHANGED status
    BY <1>2 DEF AskMove
  <2>1. CASE desk[d].pc = "limits" /\ WithinLimits(desk[d].w)
             /\ \E p \in Checked : DeskBecomes(d, p, desk[d].w)
    <3>1. Today' = Today /\ Total(Today)' = Total(Today)
      BY <1>u, <1>v, <2>0
    <3>2. desk[d].w \in Withdrawals
      BY <1>k, <2>1
    <3>3. RequestLimit > 0 => Cardinality(Today) < RequestLimit
      BY <2>1 DEF WithinLimits
    <3>4. AmountLimit > 0 => Total(Today) + Amount[desk[d].w] <= AmountLimit
      BY <2>1 DEF WithinLimits
    <3>5. \A e \in Desks : desk'[e].pc \in Checked =>
            desk'[e].w = desk[d].w \/ (desk[e].pc \in Checked /\ desk'[e] = desk[e])
      BY <2>1 DEF DeskBecomes
    <3> QED BY <1>i, <3>1, <3>3, <3>4, <3>5
  <2>2. CASE desk[d].pc = "balance" /\ DeskBecomes(d, "insert", desk[d].w)
    BY <1>o, <1>u, <2>0, <2>2 DEF DeskBecomes
  <2>3. CASE DeskBecomes(d, "idle", Nil) \/ DeskBecomes(d, "limits", desk[d].w)
    BY <1>o, <1>u, <2>0, <2>3 DEF DeskBecomes
  <2> QED BY <1>2, <2>1, <2>2, <2>3 DEF AskMove
<1>3. ASSUME NEW d \in Desks, InsertMove(d) PROVE Good'
  <2> DEFINE w == desk[d].w
  <2>1. desk[d].pc = "insert" /\ w \in Withdrawals /\ status[w] = "ABSENT"
    BY <1>3 DEF InsertMove, StoredInOrder, Asking
  <2>2. \A e \in Desks : desk'[e].pc \notin Checked
    BY <1>3, <1>p DEF InsertMove, DeskBecomes, CooldownInOrder
  <2>3. w \notin Today /\ Today' = Today \cup {w}
    BY <1>3, <2>1 DEF InsertMove, Today, StatusBecomes
  <2>4. /\ Cardinality(Today)' = Cardinality(Today) + 1
        /\ Total(Today)' = Total(Today) + Amount[w]
    BY <1>v, <2>1, <2>3, TodayFacts
  <2>5. RequestLimit > 0 => Cardinality(Today) < RequestLimit
    BY <1>i, <2>1
  <2>6. AmountLimit > 0 => Total(Today) + Amount[w] <= AmountLimit
    BY <1>i, <2>1
  <2> QED BY <1>f, <1>t, <2>2, <2>4, <2>5, <2>6
<1>4. ASSUME NEW d \in Desks, DeskStartMove(d) PROVE Good'
  BY <1>4, <1>o, <1>u DEF DeskStartMove, DeskBecomes
<1>5. CASE CoolDownMove
  BY <1>5, <1>o, <1>u DEF CoolDownMove
<1>6. ASSUME NEW c \in Clerks, NEW w \in Withdrawals, OpenMove(c, w) PROVE Good'
  BY <1>6, <1>o, <1>u DEF OpenMove
<1>7. ASSUME NEW c \in Clerks, DecideMove(c) \/ ClerkStartMove(c) PROVE Good'
  <2>1. UNCHANGED desk
    BY <1>7 DEF DecideMove, ClerkStartMove
  <2>2. DecideMove(c) => status[clerk[c].w] = "PENDING"
    BY <1>j DEF DecideMove, OneHolder, ClerkKnows
  <2>3. Today' \subseteq Today
    BY <1>7, <1>s, <1>u, <2>2 DEF DecideMove, ClerkStartMove
  <2> QED BY <1>o, <2>1, <2>3
<1>8. ASSUME NEW j \in Jobs, JobMove(j) PROVE Good'
  <2>1. UNCHANGED desk
    BY <1>8 DEF JobMove
  <2>2. job[j].pc \in {"begin", "finish", "fail"} => status[job[j].w] \notin {"ABSENT", "DECLINED"}
    BY <1>j DEF OneHolder, JobKnows, Paying
  <2>3. Today' \subseteq Today
    BY <1>8, <1>s, <1>u, <2>2
    DEF JobMove, ReadMove, BeginMove, TransferMove, PayFeeMove, FinishMove, FailMove
  <2> QED BY <1>o, <2>1, <2>3
<1>9. CASE CrashMove
  BY <1>9, <1>o, <1>u DEF CrashMove, DeskBecomes
<1>10. CASE Kept
  BY <1>10, <1>o, <1>u DEF Kept
<1> HIDE DEF Good
<1> QED BY <1>1, <1>2, <1>3, <1>4, <1>5, <1>6, <1>7, <1>8, <1>9, <1>10 DEF Move

-----------------------------------------------------------------------------
(* The invariant, and what follows from it.                                *)

LEMMA InvInit == Init => Inv
<1> SUFFICES ASSUME Init PROVE Inv
  OBVIOUS
<1> USE WithdrawalAssumption
<1>1. TypeOK
  BY DEF Init, TypeOK, Status, IdleDesk, DeskState, IdleClerk, ClerkState, IdleJob, JobState
<1>2. Stored = {} /\ Today = {}
  BY DEF Init, Stored, Today
<1>3. IsFiniteSet(Stored)
  BY <1>2, FS_EmptySet
<1>4. HoldersInOrder /\ StoredInOrder
  BY DEF Init, HoldersInOrder, StoredInOrder, Asking, IdleDesk, IdleClerk, IdleJob
<1>5. NobodyForgets /\ Undisputed
  BY DEF Init, NobodyForgets, Undisputed, OneHolder, ClerkKnows, DeskKnows, JobKnows, PaidInOrder,
         FailureIsTrue, Paying, IdleDesk, IdleClerk, IdleJob
<1>6. ASSUME NEW w PROVE Cardinality(FeeDue(w)) = 0
  <2>1. FeeDue(w) = {}
    BY DEF Init, FeeDue, IdleJob
  <2> QED BY <2>1, FS_EmptySet
<1>7. MoneyInOrder
  BY <1>6 DEF Init, MoneyInOrder, IdleJob
<1>8. CooldownInOrder
  BY DEF Init, CooldownInOrder, IdleDesk
<1>9. Cardinality(Today) = 0 /\ Total(Today) = 0
  <2>1. Cardinality({}) = 0
    BY FS_EmptySet
  <2>2. Total({}) = SumOver(Amount, {})
    BY DEF Total, SumOver
  <2>3. SumOver(Amount, {}) = 0
    BY SumEmpty
  <2> QED BY <1>2, <2>1, <2>2, <2>3
<1>10. LimitsInOrder
  BY <1>9 DEF Init, LimitsInOrder, IdleDesk
<1> QED BY <1>1, <1>3, <1>4, <1>5, <1>7, <1>8, <1>10 DEF Inv

LEMMA InvStep == Inv /\ [Next]_vars => Inv'
<1> SUFFICES ASSUME Inv, [Next]_vars PROVE Inv'
  OBVIOUS
<1>1. Move
  BY StepIsMove DEF Inv
<1>2. TypeOK' /\ HoldersInOrder' /\ StoredInOrder' /\ IsFiniteSet(Stored')
  BY <1>1, TypedStep, HoldersStep, StoredStep, StoredFiniteStep DEF Inv
<1>3. NobodyForgets' /\ Undisputed'
  BY <1>1, NobodyForgetsStep, UndisputedStep DEF Inv
<1>4. MoneyInOrder' /\ CooldownInOrder' /\ LimitsInOrder'
  BY <1>1, MoneyStep, CooldownStep, LimitsStep DEF Inv
<1> QED BY <1>2, <1>3, <1>4 DEF Inv

\* Inv holds in every reachable state: it is inductive.
LEMMA Invariance == Spec => []Inv
BY InvInit, InvStep, PTL DEF Spec

\* The variables keep their types: a request, a decision or an activation always
\* is at one of its steps and has a stored withdrawal in hand.
THEOREM TypeCorrect == Spec => []TypeOK
<1>1. Inv => TypeOK
  BY DEF Inv
<1> QED BY <1>1, Invariance, PTL

\* Unless two decisions on a withdrawal overlap, processWithdrawal pays it at
\* most once, whatever requests, automatic approvals, failed transfers and
\* crashes do at the same time.
THEOREM PaysOnce == Spec => []PaidOnce
<1>1. Inv => PaidOnce
  BY DEF Inv, Undisputed, OneHolder, PaidInOrder, PaidOnce
<1> QED BY <1>1, Invariance, PTL

\* A withdrawal that the merchant has declined stays declined and is not paid,
\* unless it is being approved at the same time.
THEOREM DeclineIsFinal == Spec => DeclinedIsFinal
<1>1. ASSUME Inv, [Next]_vars, NEW w \in Withdrawals, status[w] = "DECLINED",
             "decisions" \notin happened
      PROVE  status'[w] = "DECLINED" /\ paid'[w] = paid[w]
  <2>1. Move /\ OneHolder
    BY <1>1, StepIsMove DEF Inv, Undisputed
  <2>2. /\ \A d \in Desks : desk[d].pc = "insert" => desk[d].w # w
        /\ \A c \in Clerks : clerk[c].pc = "save" => clerk[c].w # w
        /\ \A j \in Jobs : job[j].w # w
    <3>1. \A d \in Desks : desk[d].pc = "insert" => desk[d].w # w
      BY <1>1 DEF Inv, StoredInOrder, Asking
    <3>2. \A c \in Clerks : clerk[c].pc = "save" => clerk[c].w # w
      BY <1>1, <2>1 DEF OneHolder, ClerkKnows
    <3>3. \A j \in Jobs : job[j].w # w
      BY <1>1, <2>1, WithdrawalAssumption
      DEF Inv, TypeOK, JobState, HoldersInOrder, OneHolder, JobKnows, Paying
    <3> QED BY <3>1, <3>2, <3>3
  <2>3. \/ UNCHANGED status
        \/ \E v, s : StatusBecomes(v, s) /\ v # w
    BY <1>1, <2>1, <2>2
    DEF Move, SubmitMove, AskMove, InsertMove, DeskStartMove, CoolDownMove, OpenMove, DecideMove,
        ClerkStartMove, JobMove, ReadMove, BeginMove, TransferMove, PayFeeMove, FinishMove, FailMove,
        CrashMove, Kept
  <2>4. paid'[w] = paid[w]
    BY <1>1, <2>1, <2>2
    DEF Move, SubmitMove, AskMove, InsertMove, DeskStartMove, CoolDownMove, OpenMove, DecideMove,
        ClerkStartMove, JobMove, ReadMove, BeginMove, TransferMove, PayFeeMove, FinishMove, FailMove,
        CrashMove, Kept
  <2> QED BY <1>1, <2>3, <2>4 DEF StatusBecomes
<1>2. Inv /\ [Next]_vars =>
        [\A w \in Withdrawals :
           status[w] = "DECLINED" /\ "decisions" \notin happened =>
             status'[w] = "DECLINED" /\ paid'[w] = paid[w]]_vars
  BY <1>1
<1> QED BY <1>2, Invariance, PTL DEF Spec, DeclinedIsFinal

\* Requests that do not overlap keep the cooldown; they keep the daily number
\* and the daily amount too, while decisions do not overlap either.
THEOREM LimitsAreKept == Spec => []LimitsHold
<1>1. ASSUME Inv PROVE LimitsHold
  <2>1. ASSUME "requests" \notin happened, HasCooldown PROVE Cardinality(recent) <= 1
    <3>1. CASE recent = {}
      BY <3>1, FS_EmptySet
    <3>2. CASE recent # {}
      <4>1. PICK w \in recent : recent = {w}
        BY <1>1, <2>1, <3>2 DEF Inv, CooldownInOrder
      <4>2. Cardinality({w}) = 1
        BY FS_Singleton
      <4> QED BY <4>1, <4>2
    <3> QED BY <3>1, <3>2
  <2>2. ASSUME "requests" \notin happened, "decisions" \notin happened
        PROVE  /\ RequestLimit > 0 => Cardinality(Today) <= RequestLimit
               /\ AmountLimit > 0 => Total(Today) <= AmountLimit
    BY <1>1, <2>2 DEF Inv, LimitsInOrder
  <2> QED BY <2>1, <2>2 DEF LimitsHold
<1> QED BY <1>1, Invariance, PTL

\* What the user is told is true, and without a crash every withdrawal that was
\* approved gets an outcome: nobody is left to call processWithdrawal in vain.
THEOREM OutcomesTrue == Spec => []OutcomesAreTrue
<1>1. ASSUME Inv PROVE OutcomesAreTrue
  <2>1. ASSUME NEW w \in Withdrawals
        PROVE  /\ status[w] = "FAILED" /\ happened \cap {"lost", "write", "decisions"} = {} =>
                    paid[w] = 0
               /\ "unmined" \notin happened =>
                    /\ status[w] = "SUCCESS" => paid[w] > 0
                    /\ feePaid[w] <= paid[w]
    <3>1. status[w] = "FAILED" /\ happened \cap {"lost", "write", "decisions"} = {} => paid[w] = 0
      BY <1>1 DEF Inv, Undisputed, OneHolder, FailureIsTrue
    <3>2. "unmined" \notin happened /\ status[w] = "SUCCESS" => paid[w] > 0
      BY <1>1 DEF Inv, MoneyInOrder
    <3>3. ASSUME "unmined" \notin happened PROVE feePaid[w] <= paid[w]
      <4>1. feePaid[w] + Cardinality(FeeDue(w)) <= paid[w]
        BY <1>1, <3>3 DEF Inv, MoneyInOrder
      <4>2. Cardinality(FeeDue(w)) \in Nat /\ feePaid[w] \in Nat /\ paid[w] \in Nat
        BY <1>1, FeeDueEffect DEF Inv, TypeOK
      <4> QED BY <4>1, <4>2
    <3> QED BY <3>1, <3>2, <3>3
  <2>2. NoneLeftBehind
    <3> SUFFICES ASSUME "crash" \notin happened,
                        \A d \in Desks : desk[d].pc = "idle",
                        \A c \in Clerks : clerk[c].pc = "idle",
                        \A j \in Jobs : job[j].pc = "idle",
                        NEW w \in Withdrawals
                 PROVE  status[w] \notin {"APPROVED", "AUTO_APPROVED", "PROCESSING"}
      BY DEF NoneLeftBehind
    <3>1. \A j \in Jobs : job[j].w # w
      BY <1>1, WithdrawalAssumption DEF Inv, HoldersInOrder
    <3>2. ~Taken(w) /\ ~BeingPaid(w)
      BY <3>1 DEF Taken, BeingPaid
    <3> QED BY <1>1, <3>2 DEF Inv, NobodyForgets
  <2> QED BY <1>1, <2>1, <2>2 DEF Inv, OutcomesAreTrue, ReportIsTrue
<1> QED BY <1>1, Invariance, PTL
=============================================================================
