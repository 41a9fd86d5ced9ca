--------------------------- MODULE WebhookDelivery ---------------------------
(***************************************************************************)
(* Delivery of webhooks to the merchant.                                   *)
(*                                                                         *)
(* sendWebhook supersedes the PENDING logs of the payment, creates a log   *)
(* for the new event and posts it to the merchant.  A log that was not     *)
(* delivered is posted again by a cron that runs every minute, and that    *)
(* may start while an earlier tick still posts.  The two share             *)
(* executeWebhook, whose awaits end the actions below: what it has read is *)
(* only the decision to post, kept in the pc of the worker.                *)
(*                                                                         *)
(* There is one log per event, so a log is named by its event.  The delays *)
(* between retries are left out: nextRetryAt is later, and then it is due. *)
(***************************************************************************)
EXTENDS Naturals, FiniteSets

CONSTANTS
  Events,       \* events to be sent, each by one call of sendWebhook
  PaymentOf,    \* PaymentOf[e]: the payment (of one app) that e reports on
  Crons,        \* ticks of retryFailedWebhooks that can run at the same time
  MaxAttempts,  \* MAX_RETRY_ATTEMPTS, 5 in the code
  MaxRefusals,  \* bound: posts that end in an error or a timeout
  MaxErrors,    \* bound: database errors and crashes
  Nil           \* no log

ASSUME DeliveryAssumption ==
  /\ Crons # {} /\ IsFiniteSet(Crons)
  /\ Events \cap Crons = {}
  /\ Nil \notin Events
  /\ MaxAttempts \in Nat \ {0}
  /\ MaxRefusals \in Nat
  /\ MaxErrors \in Nat

Status == {"ABSENT", "PENDING", "SUCCESS", "FAILED"}

\* The activations: the call of sendWebhook for e is named e as well.
Workers == Events \cup Crons

VARIABLES
  logStatus,       \* webhook_logs.status, or ABSENT
  attempts,        \* webhook_logs.attempts
  nextRetryAt,     \* webhook_logs.nextRetryAt: unset, later, or due
  seniors,         \* history: seniors[e], logs of the payment that e is newer than
  worker,          \* what each activation is doing, and with which log
  batch,           \* the logs that a tick of the cron still has to post
  posts,           \* history: how often each log was posted to the merchant
  refusals,        \* failed posts so far
  errors,          \* database errors and crashes so far
  ticksOverlapped  \* history: whether ticks of the cron have overlapped

logVars == <<logStatus, attempts, nextRetryAt, seniors>>
trouble == <<refusals, errors, ticksOverlapped>>
webhookVars == <<logVars, worker, batch, posts, trouble>>

WorkerState ==
  [pc : {"idle", "supersede", "create", "load", "giveUp", "post", "succeed",
         "catch", "next", "done"},
   log : Events \cup {Nil}]

WebhookTypeOK ==
  /\ logStatus \in [Events -> Status]
  /\ attempts \in [Events -> Nat]
  /\ nextRetryAt \in [Events -> {"unset", "later", "due"}]
  /\ seniors \in [Events -> SUBSET Events]
  /\ worker \in [Workers -> WorkerState]
  /\ batch \in [Crons -> SUBSET Events]
  /\ posts \in [Events -> Nat]
  /\ refusals \in 0..MaxRefusals
  /\ errors \in 0..MaxErrors
  /\ ticksOverlapped \in BOOLEAN

WebhookInit ==
  /\ logStatus = [e \in Events |-> "ABSENT"]
  /\ attempts = [e \in Events |-> 0]
  /\ nextRetryAt = [e \in Events |-> "unset"]
  /\ seniors = [e \in Events |-> {}]
  /\ worker = [w \in Workers |->
                 [pc |-> "idle", log |-> IF w \in Events THEN w ELSE Nil]]
  /\ batch = [c \in Crons |-> {}]
  /\ posts = [e \in Events |-> 0]
  /\ refusals = 0
  /\ errors = 0
  /\ ticksOverlapped = FALSE

WorkerGoto(w, p) == worker' = [worker EXCEPT ![w].pc = p]

\* executeWebhook returns to sendWebhook, or to the loop of the cron.
Return(w) == WorkerGoto(w, IF w \in Events THEN "done" ELSE "next")

Error == errors < MaxErrors /\ errors' = errors + 1 /\ UNCHANGED <<refusals, ticksOverlapped>>

-----------------------------------------------------------------------------
(* sendWebhook                                                             *)

Send(e) ==
  /\ worker[e].pc = "idle"
  /\ WorkerGoto(e, "supersede")
  /\ UNCHANGED <<logVars, batch, posts, trouble>>

\* The logs that the updateMany matches.
Superseded(e) ==
  {f \in Events : PaymentOf[f] = PaymentOf[e] /\ logStatus[f] = "PENDING"}

\* Mutant: a status that the enumeration does not have.
MSupersede(e) ==
  /\ worker[e].pc = "supersede"
  /\ logStatus' = [f \in Events |-> IF f \in Superseded(e) THEN "SUPERSEDED" ELSE logStatus[f]]
  /\ WorkerGoto(e, "create")
  /\ UNCHANGED <<attempts, nextRetryAt, seniors, batch, posts, trouble>>

Supersede(e) ==
  /\ worker[e].pc = "supersede"
  /\ logStatus' = [f \in Events |-> IF f \in Superseded(e) THEN "FAILED" ELSE logStatus[f]]
  /\ WorkerGoto(e, "create")
  /\ UNCHANGED <<attempts, nextRetryAt, seniors, batch, posts, trouble>>

Create(e) ==
  /\ worker[e].pc = "create"
  /\ logStatus' = [logStatus EXCEPT ![e] = "PENDING"]
  /\ seniors' = [seniors EXCEPT ![e] =
       {f \in Events : PaymentOf[f] = PaymentOf[e] /\ logStatus[f] # "ABSENT"}]
  /\ WorkerGoto(e, "load")
  /\ UNCHANGED <<attempts, nextRetryAt, batch, posts, trouble>>

-----------------------------------------------------------------------------
(* executeWebhook                                                          *)

Exhausted(e) == attempts[e] >= MaxAttempts

\* The log is read once; FAILED, the status of a superseded log, is no
\* obstacle to posting it.
Load(w) ==
  LET e == worker[w].log IN
  /\ worker[w].pc = "load"
  /\ \/ logStatus[e] = "SUCCESS" /\ Return(w)
     \/ logStatus[e] # "SUCCESS" /\ Exhausted(e) /\ WorkerGoto(w, "giveUp")
     \/ logStatus[e] # "SUCCESS" /\ ~Exhausted(e) /\ WorkerGoto(w, "post")
  /\ UNCHANGED <<logVars, batch, posts, trouble>>

\* "Max retry attempts reached"
GiveUp(w) ==
  /\ worker[w].pc = "giveUp"
  /\ logStatus' = [logStatus EXCEPT ![worker[w].log] = "FAILED"]
  /\ Return(w)
  /\ UNCHANGED <<attempts, nextRetryAt, seniors, batch, posts, trouble>>

\* The merchant answers 2xx, or anything else, or not within ten seconds.
Post(w) ==
  /\ worker[w].pc = "post"
  /\ posts' = [posts EXCEPT ![worker[w].log] = @ + 1]
  /\ \/ WorkerGoto(w, "succeed") /\ UNCHANGED refusals
     \/ refusals < MaxRefusals /\ refusals' = refusals + 1 /\ WorkerGoto(w, "catch")
  /\ UNCHANGED <<logVars, batch, errors, ticksOverlapped>>

RecordSuccess(w) ==
  LET e == worker[w].log IN
  /\ worker[w].pc = "succeed"
  /\ logStatus' = [logStatus EXCEPT ![e] = "SUCCESS"]
  /\ attempts' = [attempts EXCEPT ![e] = @ + 1]
  /\ Return(w)
  /\ UNCHANGED <<nextRetryAt, seniors, batch, posts, trouble>>

\* Mutants: the failed attempt is not counted; the log is FAILED at once.
MRescheduleUncounted(w) ==
  LET e == worker[w].log IN
  /\ worker[w].pc = "catch"
  /\ logStatus' = [logStatus EXCEPT ![e] = "PENDING"]
  /\ nextRetryAt' = [nextRetryAt EXCEPT ![e] = "later"]
  /\ Return(w)
  /\ UNCHANGED <<attempts, seniors, batch, posts, trouble>>
MRescheduleFailed(w) ==
  LET e == worker[w].log IN
  /\ worker[w].pc = "catch"
  /\ logStatus' = [logStatus EXCEPT ![e] = "FAILED"]
  /\ attempts' = [attempts EXCEPT ![e] = @ + 1]
  /\ nextRetryAt' = [nextRetryAt EXCEPT ![e] = "later"]
  /\ Return(w)
  /\ UNCHANGED <<seniors, batch, posts, trouble>>

\* The catch block: PENDING, whatever the log has become in the meantime.
Reschedule(w) ==
  LET e == worker[w].log IN
  /\ worker[w].pc = "catch"
  /\ logStatus' = [logStatus EXCEPT ![e] = "PENDING"]
  /\ attempts' = [attempts EXCEPT ![e] = @ + 1]
  /\ nextRetryAt' = [nextRetryAt EXCEPT ![e] = "later"]
  /\ Return(w)
  /\ UNCHANGED <<seniors, batch, posts, trouble>>

\* A database error inside the try block leads to the catch block.
Caught(w) ==
  /\ worker[w].pc \in {"load", "giveUp", "succeed"}
  /\ Error
  /\ WorkerGoto(w, "catch")
  /\ UNCHANGED <<logVars, batch, posts>>

\* A database error in the catch block, or before the log is executed, ends
\* sendWebhook or the tick of the cron; so does a crash, anywhere.
Uncaught(w) ==
  /\ worker[w].pc \notin {"idle", "done"}
  /\ Error
  /\ WorkerGoto(w, IF w \in Events THEN "done" ELSE "idle")
  /\ batch' = [c \in Crons |-> IF c = w THEN {} ELSE batch[c]]
  /\ UNCHANGED <<logVars, posts>>

-----------------------------------------------------------------------------
(* retryFailedWebhooks, every minute.                                      *)

\* The retry delay is over.
BecomeDue(e) ==
  /\ nextRetryAt[e] = "later"
  /\ nextRetryAt' = [nextRetryAt EXCEPT ![e] = "due"]
  /\ UNCHANGED <<logStatus, attempts, seniors, worker, batch, posts, trouble>>

\* Mutant: superseded logs are retried as well.
MRetryable ==
  {e \in Events : logStatus[e] \in {"PENDING", "FAILED"} /\ attempts[e] < MaxAttempts
                    /\ nextRetryAt[e] = "due"}
Retryable ==
  {e \in Events : logStatus[e] = "PENDING" /\ attempts[e] < MaxAttempts
                    /\ nextRetryAt[e] = "due"}

CronStart(c) ==
  /\ worker[c].pc = "idle"
  /\ Retryable # {}
  /\ batch' = [batch EXCEPT ![c] = Retryable]
  /\ WorkerGoto(c, "next")
  /\ ticksOverlapped' = (ticksOverlapped \/ \E d \in Crons : worker[d].pc # "idle")
  /\ UNCHANGED <<logVars, posts, refusals, errors>>

CronNext(c) ==
  /\ worker[c].pc = "next"
  /\ \E e \in batch[c] :
       /\ worker' = [worker EXCEPT ![c] = [pc |-> "load", log |-> e]]
       /\ batch' = [batch EXCEPT ![c] = @ \ {e}]
  /\ UNCHANGED <<logVars, posts, trouble>>

CronEnd(c) ==
  /\ worker[c].pc = "next" /\ batch[c] = {}
  /\ WorkerGoto(c, "idle")
  /\ UNCHANGED <<logVars, batch, posts, trouble>>

-----------------------------------------------------------------------------
Execute(w) ==
  Load(w) \/ GiveUp(w) \/ Post(w) \/ RecordSuccess(w) \/ Reschedule(w)

SendStep(e) == Supersede(e) \/ Create(e) \/ Execute(e)
CronStep(c) == CronStart(c) \/ CronNext(c) \/ CronEnd(c) \/ Execute(c)

WebhookNext ==
  \/ \E e \in Events : Send(e)
  \/ \E e \in Events : SendStep(e)
  \/ \E e \in Events : BecomeDue(e)
  \/ \E c \in Crons : CronStep(c)
  \/ \E w \in Workers : Caught(w) \/ Uncaught(w)

WebhookSpec == WebhookInit /\ [][WebhookNext]_webhookVars

\* Time passes, the cron keeps firing and Node resumes every activation; no
\* event has to happen.
FairSpec ==
  /\ WebhookSpec
  /\ \A e \in Events : WF_webhookVars(SendStep(e)) /\ WF_webhookVars(BecomeDue(e))
  /\ \A c \in Crons : WF_webhookVars(CronStep(c))

-----------------------------------------------------------------------------
(* Properties.                                                             *)

\* Some activation has read e, or will read it, on account of an earlier read.
Held(e) ==
  \/ \E w \in Workers : worker[w].log = e
                          /\ worker[w].pc \in {"load", "giveUp", "post", "succeed", "catch"}
  \/ \E c \in Crons : e \in batch[c]

\* A newer log of the payment exists.
Outdated(e) == \E f \in Events : e \in seniors[f]

\* Overlapping ticks, errors and crashes included, a webhook is posted at most
\* MAX_RETRY_ATTEMPTS times, and once more for each further tick that can run at
\* the same time and for each attempt that could not be recorded.
PostsBounded ==
  \A e \in Events : posts[e] <= MaxAttempts - 1 + Cardinality(Crons) + errors

\* A log that was superseded stays FAILED, and no tick of the cron takes it up,
\* unless a worker got hold of it before.
SupersededStaysQuiet ==
  [][\A e \in Events :
       logStatus[e] = "FAILED" /\ ~Held(e) => logStatus'[e] = "FAILED" /\ ~Held(e)']_webhookVars

\* A delivered webhook stays delivered and is never posted again, errors and
\* crashes included, while ticks of the cron do not overlap.
DeliveredOnce ==
  [][\A e \in Events :
       logStatus[e] = "SUCCESS" /\ ~ticksOverlapped =>
         logStatus'[e] = "SUCCESS" /\ posts'[e] = posts[e]]_webhookVars

\* As long as the merchant refuses fewer posts than there are attempts, and the
\* database and the process stay up, every event is delivered, or replaced by
\* a newer one.
NewestIsDelivered ==
  \A e \in Events :
    worker[e].pc = "load" ~>
      (logStatus[e] = "SUCCESS" \/ Outdated(e) \/ refusals >= MaxAttempts \/ errors > 0)

\* What is over for the merchant stays over: delivered or superseded.
SettledStaysQuiet == SupersededStaysQuiet /\ DeliveredOnce
=============================================================================
