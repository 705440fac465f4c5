------------------------------- MODULE JobQueue -------------------------------
(***************************************************************************)
(* The durable job queue (core/jobs), in its MongoDB implementation.       *)
(*                                                                         *)
(* One document per job.  Every operation below is one conditional update  *)
(* of one document (findOneAndUpdate / updateOne), so it is one action.    *)
(* Operations that first read the document and then write it guard the     *)
(* write with the version they read, so they take effect exactly when the  *)
(* document is unchanged: they too are one action.  The version counter    *)
(* itself is therefore not modelled.                                       *)
(*                                                                         *)
(* Time is abstracted to what the code compares it with: a lease is live   *)
(* or has run out, a job has reached its expires_at or not.  Both may turn *)
(* at any moment.  available_at only delays a retry; since a retry may be  *)
(* released at any later moment it needs no variable.                      *)
(*                                                                         *)
(* QueueNext lets any caller issue any operation with any lease token that *)
(* was ever handed out: what is proved of QueueSpec holds however workers, *)
(* the reconciler and the approval coordinator interleave.                 *)
(***************************************************************************)
EXTENDS Integers, FiniteSets

CONSTANTS Jobs,          \* job identities (the organization/idempotency key)
          SessionOf,     \* the session and generation a job writes to
          MaxAttempts,   \* max_attempts of every job
          Approvals,     \* approval ids
          NoApproval,    \* the empty approval_id
          ExpiringJobs,  \* the jobs whose expires_at can be reached
          MaxToken       \* bound: how many leases are handed out in all

ASSUME MaxAttemptsAssumption == MaxAttempts \in Nat \ {0}
ASSUME MaxTokenAssumption == MaxToken \in Nat
ASSUME NoApprovalAssumption == NoApproval \notin Approvals
ASSUME ExpiringJobsAssumption == ExpiringJobs \subseteq Jobs

VARIABLES jobs,          \* the jobs collection
          nextToken      \* the next lease token (types.NewID never repeats one)

queueVars == <<jobs, nextToken>>

(***************************************************************************)
(* Documents.                                                              *)
(***************************************************************************)
NoToken == 0

\* "absent" is a job nobody has enqueued, "deleted" one the TTL index removed.
State == {"absent", "queued", "leased", "preparing", "running",
          "waiting_approval", "retry_wait", "cancelling", "cancelled",
          "needs_reconciliation", "succeeded", "failed",
          "completed_undelivered", "deleted"}

Job == [state    : State,
        token    : Nat,       \* lease.token, NoToken when the lease is empty
        live     : BOOLEAN,   \* lease.expires_at > now
        writer   : BOOLEAN,   \* writer_active
        attempt  : Nat,
        epoch    : Nat,       \* steering_epoch
        approval : Approvals \cup {NoApproval},   \* approval_id
        approved : BOOLEAN,   \* approved_action_hash is set
        final    : BOOLEAN,   \* final_delivery_enqueued
        expired  : BOOLEAN]   \* expires_at <= now

NoJob == [state |-> "absent", token |-> NoToken, live |-> FALSE,
          writer |-> FALSE, attempt |-> 0, epoch |-> 0,
          approval |-> NoApproval, approved |-> FALSE, final |-> FALSE,
          expired |-> FALSE]

\* The states in which a job is its session's writer, and in which it is leased.
LeaseStates == {"leased", "preparing", "running", "cancelling"}
WriterStates == LeaseStates \cup {"waiting_approval"}

\* The states Cancel settles at once, and the ones it asks the worker to leave.
ImmediateCancel == {"queued", "retry_wait", "waiting_approval"}
DeferredCancel == {"leased", "preparing", "running"}

Terminal == {"succeeded", "failed", "cancelled", "completed_undelivered"}

\* The transition table of the queue.
Successors(from) ==
  CASE from = "queued"           -> {"leased", "cancelled"}
    [] from = "leased"           -> {"preparing", "running", "queued",
                                     "needs_reconciliation", "cancelled"}
    [] from = "preparing"        -> {"running", "retry_wait", "failed", "cancelled"}
    [] from = "running"          -> {"running", "waiting_approval", "retry_wait",
                                     "succeeded", "failed", "cancelling",
                                     "needs_reconciliation"}
    [] from = "waiting_approval" -> {"queued", "failed", "cancelled"}
    [] from = "retry_wait"       -> {"queued", "failed", "cancelled"}
    [] from = "cancelling"       -> {"cancelled", "failed"}
    [] from = "needs_reconciliation" -> {"retry_wait", "succeeded", "failed"}
    [] from = "succeeded"        -> {"completed_undelivered"}
    [] OTHER                     -> {}

CanTransition(from, to) == to \in Successors(from)

(***************************************************************************)
(* Leases.                                                                 *)
(***************************************************************************)
HoldsLease(j, t) == /\ t # NoToken
                    /\ jobs[j].token = t
                    /\ jobs[j].live

\* Mutant of Released: writer_active is not cleared.
ReleasedStaysWriter(job, to) ==
  [job EXCEPT !.state = to, !.token = NoToken, !.live = FALSE]

\* The document after its lease and its writer right are cleared.
Released(job, to) == [job EXCEPT !.state = to, !.token = NoToken,
                                 !.live = FALSE, !.writer = FALSE]

\* The states that Transition enters by giving the lease back; a job waiting
\* for approval gives the lease back but stays its session's writer.
LeaseEnding == {"succeeded", "failed", "cancelled", "retry_wait",
                "needs_reconciliation", "waiting_approval"}

Transitioned(job, to) ==
  IF to \in LeaseEnding
    THEN [Released(job, to) EXCEPT !.writer = (to = "waiting_approval")]
    ELSE [job EXCEPT !.state = to]

\* The partial unique index on (organization, session, generation) where
\* writer_active: a claim that would break it fails with a duplicate key.
WriterIndexFree(j) ==
  \A k \in Jobs \ {j} : SessionOf[k] = SessionOf[j] => ~jobs[k].writer

(***************************************************************************)
(* Operations.                                                             *)
(***************************************************************************)
Enqueue(j) ==
  /\ jobs[j].state = "absent"
  /\ jobs' = [jobs EXCEPT ![j] = [NoJob EXCEPT !.state = "queued", !.epoch = 1]]
  /\ UNCHANGED nextToken

Claimable(j) == /\ jobs[j].state = "queued"
                /\ ~jobs[j].expired
                /\ jobs[j].attempt < MaxAttempts

\* Mutant of Claimed: the token is not a fresh one.
ClaimedAgain(job, t) ==
  [job EXCEPT !.state = "leased", !.token = 1, !.live = TRUE, !.writer = TRUE,
              !.attempt = job.attempt + 1]

Claimed(job, t) ==
  [job EXCEPT !.state = "leased", !.token = t, !.live = TRUE, !.writer = TRUE,
              !.attempt = job.attempt + 1]

\* Mutant of Claim: no unique index.
ClaimUnindexed(j) ==
  /\ nextToken <= MaxToken
  /\ Claimable(j)
  /\ jobs' = [jobs EXCEPT ![j] = Claimed(@, nextToken)]
  /\ nextToken' = nextToken + 1

Claim(j) ==
  /\ nextToken <= MaxToken
  /\ Claimable(j)
  /\ WriterIndexFree(j)
  /\ jobs' = [jobs EXCEPT ![j] = Claimed(@, nextToken)]
  /\ nextToken' = nextToken + 1

CanMove(j, t, to) == HoldsLease(j, t) /\ CanTransition(jobs[j].state, to)

Transition(j, t, to) ==
  /\ CanMove(j, t, to)
  /\ jobs' = [jobs EXCEPT ![j] = Transitioned(@, to)]
  /\ UNCHANGED nextToken

Suspended(job, a) ==
  [Transitioned(job, "waiting_approval") EXCEPT !.approval = a, !.approved = FALSE]

SuspendForApproval(j, t, a) ==
  /\ CanMove(j, t, "waiting_approval")
  /\ jobs' = [jobs EXCEPT ![j] = Suspended(@, a)]
  /\ UNCHANGED nextToken

AwaitsApproval(j, a) == /\ jobs[j].state = "waiting_approval"
                        /\ jobs[j].approval = a

\* The suspended attempt is not charged: it is resumed by a fresh claim.
Resumed(job) ==
  [Released(job, "queued") EXCEPT !.approved = TRUE,
                                  !.attempt = job.attempt - 1,
                                  !.epoch = job.epoch + 1]

ResumeFromApproval(j, a) ==
  /\ AwaitsApproval(j, a)
  /\ jobs' = [jobs EXCEPT ![j] = Resumed(@)]
  /\ UNCHANGED nextToken

\* Mutant of Cancellable: everything that is not cancelled yet.
CancellableLate(j) ==
  jobs[j].state \notin {"absent", "deleted", "cancelling", "cancelled"}

Cancellable(j) == jobs[j].state \in ImmediateCancel \cup DeferredCancel

Cancelled(job) ==
  [(IF job.state \in ImmediateCancel
      THEN Released(job, "cancelled")
      ELSE [job EXCEPT !.state = "cancelling"]) EXCEPT !.epoch = job.epoch + 1]

\* Cancel takes no lease token.
Cancel(j) ==
  /\ Cancellable(j)
  /\ jobs' = [jobs EXCEPT ![j] = Cancelled(@)]
  /\ UNCHANGED nextToken

MarkCompletedUndelivered(j) ==
  /\ jobs[j].state \in {"succeeded", "completed_undelivered"}
  /\ jobs' = [jobs EXCEPT ![j].state = "completed_undelivered"]
  /\ UNCHANGED nextToken

MarkFinalDeliveryEnqueued(j) ==
  /\ jobs[j].state = "succeeded"
  /\ jobs' = [jobs EXCEPT ![j].final = TRUE]
  /\ UNCHANGED nextToken

ReleaseRetryWait(j) ==
  /\ jobs[j].state = "retry_wait"
  /\ jobs' = [jobs EXCEPT ![j].state =
                IF jobs[j].attempt >= MaxAttempts THEN "failed" ELSE "queued"]
  /\ UNCHANGED nextToken

\* A lease that ran out: a job nobody started is runnable again, one that was
\* started is fenced off for an operator.  A cancelling job is not recovered.
RecoverExpired(j) ==
  /\ ~jobs[j].live
  /\ \/ /\ jobs[j].state = "leased"
        /\ jobs' = [jobs EXCEPT ![j] = Released(@, "queued")]
     \/ /\ jobs[j].state \in {"preparing", "running"}
        /\ jobs' = [jobs EXCEPT ![j] = Released(@, "needs_reconciliation")]
  /\ UNCHANGED nextToken

\* Mutants of ListReconciliation: each forgets one kind of job.
ListWithoutFenced(j) ==
  \/ jobs[j].state \in {"waiting_approval", "retry_wait"}
  \/ jobs[j].state = "queued" /\ (jobs[j].expired \/ jobs[j].attempt >= MaxAttempts)
  \/ jobs[j].state = "succeeded" /\ ~jobs[j].final /\ ~jobs[j].expired
ListWithoutSucceeded(j) ==
  \/ jobs[j].state \in {"waiting_approval", "needs_reconciliation", "retry_wait"}
  \/ jobs[j].state = "queued" /\ (jobs[j].expired \/ jobs[j].attempt >= MaxAttempts)

\* The jobs reconcileJobs looks at.
ListReconciliation(j) ==
  \/ jobs[j].state \in {"waiting_approval", "needs_reconciliation", "retry_wait"}
  \/ /\ jobs[j].state = "queued"
     /\ jobs[j].expired \/ jobs[j].attempt >= MaxAttempts
  \/ /\ jobs[j].state = "succeeded"
     /\ ~jobs[j].final
     /\ ~jobs[j].expired

(***************************************************************************)
(* Time.                                                                   *)
(***************************************************************************)
\* lease.expires_at passes; a heartbeat in time is the absence of this step.
LeaseExpires(j) ==
  /\ jobs[j].live
  /\ jobs' = [jobs EXCEPT ![j].live = FALSE]
  /\ UNCHANGED nextToken

\* expires_at passes.
JobExpires(j) ==
  /\ j \in ExpiringJobs
  /\ jobs[j].state \notin {"absent", "deleted"}
  /\ ~jobs[j].expired
  /\ jobs' = [jobs EXCEPT ![j].expired = TRUE]
  /\ UNCHANGED nextToken

\* The TTL index on expires_at deletes the document, whatever its state.
TTLDelete(j) ==
  /\ jobs[j].expired
  /\ jobs' = [jobs EXCEPT ![j] = [NoJob EXCEPT !.state = "deleted"]]
  /\ UNCHANGED nextToken

(***************************************************************************)
(* The queue under every possible use.                                     *)
(***************************************************************************)
QueueInit == /\ jobs = [j \in Jobs |-> NoJob]
             /\ nextToken = 1

\* The targets a caller may pass to Transition: suspension goes through
\* SuspendForApproval, and nobody passes "queued".
Targets == {"preparing", "running", "retry_wait", "succeeded", "failed",
            "cancelling", "cancelled", "needs_reconciliation"}

QueueNext ==
  \E j \in Jobs :
    \/ Enqueue(j)
    \/ Claim(j)
    \/ \E t \in 1 .. nextToken - 1, to \in Targets : Transition(j, t, to)
    \/ \E t \in 1 .. nextToken - 1, a \in Approvals : SuspendForApproval(j, t, a)
    \/ \E a \in Approvals : ResumeFromApproval(j, a)
    \/ Cancel(j)
    \/ MarkCompletedUndelivered(j)
    \/ MarkFinalDeliveryEnqueued(j)
    \/ ReleaseRetryWait(j)
    \/ RecoverExpired(j)
    \/ LeaseExpires(j)
    \/ JobExpires(j)
    \/ TTLDelete(j)

QueueSpec == QueueInit /\ [][QueueNext]_queueVars

(***************************************************************************)
(* Properties.                                                             *)
(***************************************************************************)
\* The collection holds well-formed documents and tokens start at 1.
QueueTypeOK == /\ jobs \in [Jobs -> Job]
               /\ nextToken \in Nat \ {0}

\* writer_active agrees with the state in every document, although nine
\* operations write the two fields separately: the unique index protects the
\* session of a leased, running, suspended or cancelling job and of no other.
WriterMatchesState ==
  \A j \in Jobs : jobs[j].writer <=> jobs[j].state \in WriterStates

\* A document carries a lease token exactly in the leased states, so a worker
\* that lost its job finds no token to match, and only a leased job can have a
\* live lease.
LeaseMatchesState ==
  \A j \in Jobs : /\ (jobs[j].token # NoToken) <=> (jobs[j].state \in LeaseStates)
                  /\ jobs[j].live => jobs[j].token # NoToken

\* Two jobs of one session are never both leased, running, suspended or being
\* cancelled: the session has one writer, across crashes, retries and resumes.
OneWriterPerSession ==
  \A j, k \in Jobs :
    (/\ j # k
     /\ SessionOf[j] = SessionOf[k]
     /\ jobs[j].state \in WriterStates) => jobs[k].state \notin WriterStates

\* Attempts stay within 0 .. MaxAttempts although a resume gives one back, and
\* a job that is leased or suspended has been charged for its attempt.
AttemptsWithinBudget ==
  \A j \in Jobs : /\ jobs[j].attempt \in 0 .. MaxAttempts
                  /\ jobs[j].state \in WriterStates => jobs[j].attempt > 0

\* A suspended job names the approval it waits for and carries no approved
\* hash of an earlier one; a job that carries a hash names its approval.
SuspensionNamesApproval ==
  \A j \in Jobs :
    /\ jobs[j].state = "waiting_approval" =>
         jobs[j].approval # NoApproval /\ ~jobs[j].approved
    /\ jobs[j].approved => jobs[j].approval # NoApproval

\* Every token in a document has been handed out by a claim.
TokensIssued == \A j \in Jobs : jobs[j].token < nextToken

\* The queue's documents are consistent, each in itself and with those of its session,
\* after any sequence of operations and with whatever tokens callers kept.  The
\* inductive invariant: the parts need each other.  A resume keeps attempt
\* a natural number only because a suspended job was charged; the index keeps
\* one writer per session only because writer_active agrees with the state;
\* a settled job stays settled only because it has no lease token.
QueueInv == /\ QueueTypeOK
            /\ WriterMatchesState
            /\ LeaseMatchesState
            /\ OneWriterPerSession
            /\ AttemptsWithinBudget
            /\ SuspensionNamesApproval
            /\ TokensIssued

\* A settled job never runs again: no operation, whatever token its caller
\* kept, moves it anywhere but from succeeded to completed_undelivered, and
\* only the TTL index removes it.
KeepsSettled ==
  \A j \in Jobs : jobs[j].state \in Terminal =>
    \/ jobs'[j].state = jobs[j].state
    \/ jobs[j].state = "succeeded" /\ jobs'[j].state = "completed_undelivered"
    \/ jobs[j].expired /\ jobs'[j].state = "deleted"

\* KeepsSettled holds of every step.
TerminalIsFinal == [][KeepsSettled]_queueVars

\* A lease token that is not the document's current one never becomes current
\* (again): a worker that lost its lease can never pass a fenced operation.
KeepsLost ==
  \A j \in Jobs : \A t \in 1 .. nextToken - 1 :
    jobs[j].token # t => jobs'[j].token # t

\* KeepsLost holds of every step.
LostTokensStayLost == [][KeepsLost]_queueVars

(***************************************************************************)
(* The queue gives each session one writer at a time.                      *)
(***************************************************************************)
Writers == INSTANCE SessionWriter
             WITH writers <- {j \in Jobs : jobs[j].state \in WriterStates}

\* The queue implements SessionWriter: a job joins the writers only when its
\* session has none, and no step hands the right from one job to another.
ImplementsSessionWriter == Writers!WSpec
=============================================================================
