---------------------------- MODULE JobQueueProofs ----------------------------
(***************************************************************************)
(* Proofs about the job queue, for every set of jobs and approvals, every  *)
(* assignment of sessions, every attempt budget and any number of leases.  *)
(*                                                                         *)
(* Every operation rewrites one document, so the invariant is split into   *)
(* what it says of one document (DocOK) and the one part that relates two  *)
(* documents (OneWriterPerSession).  Rewrites(j, doc) says what may happen  *)
(* to document j in one operation; the lemma StepRewrites shows that every *)
(* operation does just that, with one step per operation.  The invariant,  *)
(* the action properties and the refinement all follow from Rewrites.      *)
(***************************************************************************)
EXTENDS JobQueue, TLAPS

\* What QueueInv says of a single document.
DocOK(job) ==
  /\ job \in Job
  /\ job.writer <=> job.state \in WriterStates
  /\ (job.token # NoToken) <=> (job.state \in LeaseStates)
  /\ job.live => job.token # NoToken
  /\ job.attempt <= MaxAttempts
  /\ job.state \in WriterStates => job.attempt > 0
  /\ job.state = "waiting_approval" => job.approval # NoApproval /\ ~job.approved
  /\ job.approved => job.approval # NoApproval

\* One operation on document j: it becomes doc, whose token has been issued and
\* is the old one, a new one or none; it becomes a writer only if it was one or
\* its session had none; and it leaves a terminal state only in the two ways
\* TerminalIsFinal allows.
Rewrites(j, doc) ==
  /\ j \in Jobs
  /\ jobs' = [jobs EXCEPT ![j] = doc]
  /\ DocOK(doc)
  /\ nextToken' \in Nat
  /\ nextToken <= nextToken'
  /\ doc.token < nextToken'
  /\ doc.state \in WriterStates =>
       \/ jobs[j].state \in WriterStates
       \/ \A k \in Jobs \ {j} : SessionOf[k] = SessionOf[j] =>
                                  jobs[k].state \notin WriterStates
  /\ doc.token \in {jobs[j].token, NoToken, nextToken}
  /\ jobs[j].state \in Terminal =>
       \/ doc.state = jobs[j].state
       \/ jobs[j].state = "succeeded" /\ doc.state = "completed_undelivered"
       \/ jobs[j].expired /\ doc.state = "deleted"

\* QueueInv is DocOK of every document, one writer per session, issued tokens.
LEMMA InvIsDocs ==
  QueueInv <=> /\ jobs \in [Jobs -> Job]
               /\ \A j \in Jobs : DocOK(jobs[j])
               /\ OneWriterPerSession
               /\ nextToken \in Nat \ {0}
               /\ \A j \in Jobs : jobs[j].token < nextToken
  BY MaxAttemptsAssumption
     DEF QueueInv, QueueTypeOK, WriterMatchesState, LeaseMatchesState,
         AttemptsWithinBudget, SuspensionNamesApproval, TokensIssued, DocOK, Job

\* An operation that rewrites one document as above preserves the invariant.
LEMMA Rewrite ==
  ASSUME QueueInv, NEW j, NEW doc, Rewrites(j, doc)
  PROVE  QueueInv'
<1>1. /\ j \in Jobs
      /\ jobs \in [Jobs -> Job]
      /\ jobs' = [jobs EXCEPT ![j] = doc]
      /\ DocOK(doc)
  BY InvIsDocs DEF Rewrites
<1>2. \A k \in Jobs : jobs'[k] = IF k = j THEN doc ELSE jobs[k]
  BY <1>1
<1>3. jobs' \in [Jobs -> Job]
  BY <1>1 DEF DocOK
<1>4. \A k \in Jobs : DocOK(jobs'[k])
  BY <1>1, <1>2, InvIsDocs
<1>5. nextToken' \in Nat \ {0} /\ \A k \in Jobs : jobs'[k].token < nextToken'
  <2>1. nextToken \in Nat \ {0} /\ \A k \in Jobs : jobs[k].token < nextToken
    BY InvIsDocs
  <2>2. /\ nextToken' \in Nat
        /\ nextToken <= nextToken'
        /\ doc.token < nextToken'
    BY DEF Rewrites
  <2>3. \A k \in Jobs : jobs[k].token \in Nat
    BY <1>1 DEF Job
  <2>4. QED
    BY <1>2, <2>1, <2>2, <2>3
<1>6. OneWriterPerSession'
  <2>1. OneWriterPerSession
    BY InvIsDocs
  <2>2. doc.state \in WriterStates =>
          \A k \in Jobs \ {j} : SessionOf[k] = SessionOf[j] =>
                                  jobs[k].state \notin WriterStates
    BY <1>1, <2>1 DEF Rewrites, OneWriterPerSession
  <2>3. QED
    BY <1>1, <1>2, <2>1, <2>2 DEF OneWriterPerSession
<1>7. QED
  <2>1. (\A k \in Jobs : DocOK(jobs[k]))' <=> \A k \in Jobs : DocOK(jobs'[k])
    BY DEF DocOK
  <2>2. QED
    BY <1>3, <1>4, <1>5, <1>6, <2>1, MaxAttemptsAssumption
       DEF QueueInv, QueueTypeOK, WriterMatchesState, LeaseMatchesState,
           AttemptsWithinBudget, SuspensionNamesApproval, TokensIssued, DocOK, Job

\* The documents that the operations write, field by field.
LEMMA ClaimedDoc ==
  ASSUME NEW job \in Job, NEW t \in Nat
  PROVE  /\ Claimed(job, t) \in Job
         /\ Claimed(job, t).state = "leased"
         /\ Claimed(job, t).token = t
         /\ Claimed(job, t).live = TRUE
         /\ Claimed(job, t).writer = TRUE
         /\ Claimed(job, t).attempt = job.attempt + 1
         /\ Claimed(job, t).approval = job.approval
         /\ Claimed(job, t).approved = job.approved
<1>1. \A n \in Nat : [job EXCEPT !.state = "leased", !.token = t, !.live = TRUE,
                                !.writer = TRUE, !.attempt = n] \in Job
  BY DEF Job, State
<1>2. job.attempt + 1 \in Nat
  BY DEF Job
<1>3. Claimed(job, t) \in Job
  BY <1>1, <1>2 DEF Claimed
<1>4. QED
  BY <1>3 DEF Claimed, Job

\* A transition into a lease-ending state clears lease and writer right.
LEMMA EndedDoc ==
  ASSUME NEW job \in Job, NEW to \in Targets, to \in LeaseEnding
  PROVE  /\ Transitioned(job, to) \in Job
         /\ Transitioned(job, to).state = to
         /\ Transitioned(job, to).token = NoToken
         /\ Transitioned(job, to).live = FALSE
         /\ Transitioned(job, to).writer = FALSE
         /\ Transitioned(job, to).attempt = job.attempt
         /\ Transitioned(job, to).approval = job.approval
         /\ Transitioned(job, to).approved = job.approved
  BY DEF Transitioned, Released, Targets, Job, State, NoToken

\* Any other transition changes the state alone.
LEMMA MovedDoc ==
  ASSUME NEW job \in Job, NEW to \in Targets, to \notin LeaseEnding
  PROVE  /\ Transitioned(job, to) \in Job
         /\ Transitioned(job, to).state = to
         /\ Transitioned(job, to).token = job.token
         /\ Transitioned(job, to).live = job.live
         /\ Transitioned(job, to).writer = job.writer
         /\ Transitioned(job, to).attempt = job.attempt
         /\ Transitioned(job, to).approval = job.approval
         /\ Transitioned(job, to).approved = job.approved
  BY DEF Transitioned, Targets, Job, State

\* A suspension clears the lease, keeps the writer right, names the approval.
LEMMA SuspendedDoc ==
  ASSUME NEW job \in Job, NEW a \in Approvals
  PROVE  /\ Suspended(job, a) \in Job
         /\ Suspended(job, a).state = "waiting_approval"
         /\ Suspended(job, a).token = NoToken
         /\ Suspended(job, a).live = FALSE
         /\ Suspended(job, a).writer = TRUE
         /\ Suspended(job, a).attempt = job.attempt
         /\ Suspended(job, a).approval = a
         /\ Suspended(job, a).approved = FALSE
  BY DEF Suspended, Transitioned, LeaseEnding, Released, Job, State, NoToken

\* A resume gives back lease, writer right and attempt.
LEMMA ResumedDoc ==
  ASSUME NEW job \in Job, job.attempt - 1 \in Nat
  PROVE  /\ Resumed(job) \in Job
         /\ Resumed(job).state = "queued"
         /\ Resumed(job).token = NoToken
         /\ Resumed(job).live = FALSE
         /\ Resumed(job).writer = FALSE
         /\ Resumed(job).attempt = job.attempt - 1
         /\ Resumed(job).approval = job.approval
         /\ Resumed(job).approved = TRUE
<1>1. \A n, e \in Nat : [Released(job, "queued") EXCEPT !.approved = TRUE,
                                       !.attempt = n, !.epoch = e] \in Job
  BY DEF Job, Released, State, NoToken
<1>2. job.epoch + 1 \in Nat
  BY DEF Job
<1>3. Resumed(job) \in Job
  BY <1>1, <1>2 DEF Resumed
<1>4. QED
  BY <1>3 DEF Resumed, Released, Job

\* A cancellation yields a document.
LEMMA CancelledDoc ==
  ASSUME NEW job \in Job
  PROVE  Cancelled(job) \in Job
<1>1. Released(job, "cancelled") \in Job
  BY DEF Job, Released, State, NoToken
<1>2. [job EXCEPT !.state = "cancelling"] \in Job
  BY DEF Job, State
<1>3. \A doc \in Job, e \in Nat : [doc EXCEPT !.epoch = e] \in Job
  BY DEF Job
<1>4. job.epoch + 1 \in Nat
  BY DEF Job
<1>5. QED
  BY <1>1, <1>2, <1>3, <1>4 DEF Cancelled

\* Every operation of the queue rewrites one document as Rewrites says.
LEMMA StepRewrites ==
  ASSUME QueueInv, QueueNext
  PROVE  \E j \in Jobs, doc \in Job : Rewrites(j, doc)
<1> USE MaxAttemptsAssumption, NoApprovalAssumption
<1>0. /\ jobs \in [Jobs -> Job]
      /\ \A j \in Jobs : DocOK(jobs[j])
      /\ nextToken \in Nat \ {0}
      /\ \A j \in Jobs : jobs[j].token < nextToken
  BY InvIsDocs
<1>1. ASSUME NEW j \in Jobs, Enqueue(j)
      PROVE  \E d \in Job : Rewrites(j, d)
  <2> DEFINE doc == [NoJob EXCEPT !.state = "queued", !.epoch = 1]
  <2>1. jobs[j] \in Job /\ DocOK(jobs[j]) /\ jobs[j].token < nextToken
    BY <1>0
  <2>2. jobs' = [jobs EXCEPT ![j] = doc] /\ nextToken' = nextToken
    BY <1>0, <1>1 DEF Enqueue
  <2>3. /\ doc \in Job
        /\ doc.state = "queued"
        /\ doc.token = NoToken
        /\ doc.live = FALSE
        /\ doc.writer = FALSE
        /\ doc.attempt = 0
        /\ doc.approval = NoApproval
        /\ doc.approved = FALSE
    BY <2>1 DEF Job, NoJob, State, NoToken
  <2> HIDE DEF doc
  <2>4. DocOK(doc) /\ doc.token < nextToken
    BY <1>0, <2>1, <2>3 DEF DocOK, Job, WriterStates, LeaseStates, NoToken
  <2>5. doc.state \notin WriterStates
    BY <2>3 DEF WriterStates, LeaseStates
  <2>6. jobs[j].state = "absent"
    BY <1>1 DEF Enqueue
  <2>7. Rewrites(j, doc)
    BY <1>0, <2>2, <2>3, <2>4, <2>5, <2>6
       DEF Rewrites, Terminal
  <2>8. QED
    BY <2>7 DEF Rewrites, DocOK
<1>2. ASSUME NEW j \in Jobs, Claim(j)
      PROVE  \E d \in Job : Rewrites(j, d)
  <2> DEFINE doc == Claimed(jobs[j], nextToken)
  <2>1. jobs[j] \in Job /\ DocOK(jobs[j]) /\ jobs[j].token < nextToken
    BY <1>0
  <2>2. /\ jobs' = [jobs EXCEPT ![j] = doc]
        /\ nextToken' = nextToken + 1
        /\ jobs[j].attempt < MaxAttempts
    BY <1>2 DEF Claim, Claimable
  <2>3. /\ doc \in Job
        /\ doc.state = "leased"
        /\ doc.token = nextToken
        /\ doc.live = TRUE
        /\ doc.writer = TRUE
        /\ doc.attempt = jobs[j].attempt + 1
        /\ doc.approval = jobs[j].approval
        /\ doc.approved = jobs[j].approved
    BY <1>0, <2>1, ClaimedDoc
  <2> HIDE DEF doc
  <2>4. DocOK(doc) /\ doc.token < nextToken'
    BY <1>0, <2>1, <2>2, <2>3 DEF DocOK, Job, WriterStates, LeaseStates, NoToken
  <2>5. \A k \in Jobs \ {j} : SessionOf[k] = SessionOf[j] =>
                                jobs[k].state \notin WriterStates
    BY <1>0, <1>2 DEF Claim, WriterIndexFree, DocOK
  <2>6. jobs[j].state = "queued"
    BY <1>2 DEF Claim, Claimable
  <2>7. Rewrites(j, doc)
    BY <1>0, <2>2, <2>3, <2>4, <2>5, <2>6
       DEF Rewrites, Terminal
  <2>8. QED
    BY <2>7 DEF Rewrites, DocOK
<1>3. ASSUME NEW j \in Jobs, NEW t \in 1 .. nextToken - 1, NEW to \in Targets,
             Transition(j, t, to)
      PROVE  \E d \in Job : Rewrites(j, d)
  <2> DEFINE doc == Transitioned(jobs[j], to)
  <2>1. jobs[j] \in Job /\ DocOK(jobs[j]) /\ jobs[j].token < nextToken
    BY <1>0
  <2>2. /\ jobs' = [jobs EXCEPT ![j] = doc]
        /\ nextToken' = nextToken
        /\ jobs[j].token # NoToken
        /\ to \in Successors(jobs[j].state)
    BY <1>3 DEF Transition, CanMove, HoldsLease, CanTransition
  <2>3. jobs[j].state \in LeaseStates
    BY <2>1, <2>2 DEF DocOK
  <2>4. /\ doc.state = to
        /\ DocOK(doc)
        /\ doc.token < nextToken
        /\ doc.token \in {jobs[j].token, NoToken}
    <3>1. CASE to \in LeaseEnding
      <4>1. to \notin WriterStates
        BY <3>1 DEF Targets, LeaseEnding, WriterStates, LeaseStates
      <4>2. /\ doc \in Job
            /\ doc.state = to
            /\ doc.token = NoToken
            /\ doc.live = FALSE
            /\ doc.writer = FALSE
            /\ doc.attempt = jobs[j].attempt
            /\ doc.approval = jobs[j].approval
            /\ doc.approved = jobs[j].approved
        BY <2>1, <3>1, EndedDoc
      <4> HIDE DEF doc
      <4>3. QED
        BY <1>0, <2>1, <4>1, <4>2 DEF DocOK, WriterStates, LeaseStates, NoToken
    <3>2. CASE to \notin LeaseEnding
      <4>1. to \in LeaseStates
        BY <3>2 DEF Targets, LeaseEnding, LeaseStates
      <4>2. /\ doc \in Job
            /\ doc.state = to
            /\ doc.token = jobs[j].token
            /\ doc.live = jobs[j].live
            /\ doc.writer = jobs[j].writer
            /\ doc.attempt = jobs[j].attempt
            /\ doc.approval = jobs[j].approval
            /\ doc.approved = jobs[j].approved
        BY <2>1, <3>2, MovedDoc
      <4> HIDE DEF doc
      <4>3. QED
        BY <2>1, <2>3, <4>1, <4>2 DEF DocOK, WriterStates, LeaseStates, NoToken
    <3>3. QED
      BY <3>1, <3>2
  <2> HIDE DEF doc
  <2>5. Rewrites(j, doc)
    BY <1>0, <2>2, <2>3, <2>4 DEF Rewrites, WriterStates, LeaseStates, Terminal
  <2>6. QED
    BY <2>5 DEF Rewrites, DocOK
<1>4. ASSUME NEW j \in Jobs, NEW t \in 1 .. nextToken - 1, NEW a \in Approvals,
             SuspendForApproval(j, t, a)
      PROVE  \E d \in Job : Rewrites(j, d)
  <2> DEFINE doc == Suspended(jobs[j], a)
  <2>1. jobs[j] \in Job /\ DocOK(jobs[j]) /\ jobs[j].token < nextToken
    BY <1>0
  <2>2. /\ jobs' = [jobs EXCEPT ![j] = doc]
        /\ nextToken' = nextToken
        /\ jobs[j].token # NoToken
    BY <1>4 DEF SuspendForApproval, CanMove, HoldsLease
  <2>3. jobs[j].state \in LeaseStates
    BY <2>1, <2>2 DEF DocOK
  <2>4. /\ doc \in Job
        /\ doc.state = "waiting_approval"
        /\ doc.token = NoToken
        /\ doc.live = FALSE
        /\ doc.writer = TRUE
        /\ doc.attempt = jobs[j].attempt
        /\ doc.approval = a
        /\ doc.approved = FALSE
    BY <2>1, SuspendedDoc
  <2> HIDE DEF doc
  <2>5. DocOK(doc) /\ doc.token < nextToken
    BY <1>0, <2>1, <2>3, <2>4 DEF DocOK, WriterStates, LeaseStates, NoToken
  <2>6. Rewrites(j, doc)
    BY <1>0, <2>2, <2>3, <2>4, <2>5
       DEF Rewrites, WriterStates, LeaseStates, Terminal
  <2>7. QED
    BY <2>6 DEF Rewrites, DocOK
<1>5. ASSUME NEW j \in Jobs, NEW a \in Approvals, ResumeFromApproval(j, a)
      PROVE  \E d \in Job : Rewrites(j, d)
  <2> DEFINE doc == Resumed(jobs[j])
  <2>1. jobs[j] \in Job /\ DocOK(jobs[j]) /\ jobs[j].token < nextToken
    BY <1>0
  <2>2. jobs' = [jobs EXCEPT ![j] = doc] /\ nextToken' = nextToken
    BY <1>0, <1>5 DEF ResumeFromApproval
  <2>3. jobs[j].state = "waiting_approval"
    BY <1>5 DEF ResumeFromApproval, AwaitsApproval
  <2>4. /\ doc \in Job
        /\ doc.state = "queued"
        /\ doc.token = NoToken
        /\ doc.live = FALSE
        /\ doc.writer = FALSE
        /\ doc.attempt = jobs[j].attempt - 1
        /\ doc.approval = jobs[j].approval
        /\ doc.approved = TRUE
    <3>1. jobs[j].attempt - 1 \in Nat
      BY <2>1, <2>3 DEF DocOK, Job, WriterStates
    <3>2. QED
      BY <2>1, <3>1, ResumedDoc
  <2> HIDE DEF doc
  <2>5. DocOK(doc) /\ doc.token < nextToken
    BY <1>0, <2>1, <2>3, <2>4 DEF DocOK, Job, WriterStates, LeaseStates, NoToken
  <2>6. doc.state \notin WriterStates
    BY <2>3, <2>4 DEF WriterStates, LeaseStates
  <2>7. Rewrites(j, doc)
    BY <1>0, <2>2, <2>3, <2>4, <2>5, <2>6
       DEF Rewrites, Terminal
  <2>8. QED
    BY <2>7 DEF Rewrites, DocOK
<1>6. ASSUME NEW j \in Jobs, Cancel(j)
      PROVE  \E d \in Job : Rewrites(j, d)
  <2> DEFINE doc == Cancelled(jobs[j])
  <2>1. jobs[j] \in Job /\ DocOK(jobs[j]) /\ jobs[j].token < nextToken
    BY <1>0
  <2>2. /\ jobs' = [jobs EXCEPT ![j] = doc]
        /\ nextToken' = nextToken
        /\ Cancellable(j)
    BY <1>6 DEF Cancel
  <2>3. doc \in Job
    BY <2>1, CancelledDoc
  <2>4. CASE jobs[j].state \in ImmediateCancel
    <3>1. /\ doc.state = "cancelled"
          /\ doc.token = NoToken
          /\ doc.live = FALSE
          /\ doc.writer = FALSE
          /\ doc.attempt = jobs[j].attempt
          /\ doc.approval = jobs[j].approval
          /\ doc.approved = jobs[j].approved
      BY <2>1, <2>4 DEF Cancelled, Released, Job
    <3> HIDE DEF doc
    <3>2. DocOK(doc) /\ doc.token < nextToken /\ doc.state \notin WriterStates
      BY <1>0, <2>1, <2>3, <3>1 DEF DocOK, WriterStates, LeaseStates, NoToken
    <3>3. Rewrites(j, doc)
      BY <1>0, <2>2, <2>4, <3>1, <3>2 DEF Rewrites, ImmediateCancel, Terminal
    <3>4. QED
      BY <3>3 DEF Rewrites, DocOK
  <2>5. CASE jobs[j].state \notin ImmediateCancel
    <3>1. jobs[j].state \in LeaseStates
      BY <2>2, <2>5 DEF Cancellable, DeferredCancel, LeaseStates
    <3>2. /\ doc.state = "cancelling"
          /\ doc.token = jobs[j].token
          /\ doc.live = jobs[j].live
          /\ doc.writer = jobs[j].writer
          /\ doc.attempt = jobs[j].attempt
          /\ doc.approval = jobs[j].approval
          /\ doc.approved = jobs[j].approved
      BY <2>1, <2>5 DEF Cancelled, Job
    <3> HIDE DEF doc
    <3>3. DocOK(doc) /\ doc.token < nextToken
      BY <1>0, <2>1, <2>3, <3>1, <3>2
         DEF DocOK, WriterStates, LeaseStates, NoToken
    <3>4. Rewrites(j, doc)
      BY <1>0, <2>2, <3>1, <3>2, <3>3
         DEF Rewrites, WriterStates, LeaseStates, Terminal
    <3>5. QED
      BY <3>4 DEF Rewrites, DocOK
  <2>6. QED
    BY <2>4, <2>5
<1>7. ASSUME NEW j \in Jobs, MarkCompletedUndelivered(j)
      PROVE  \E d \in Job : Rewrites(j, d)
  <2> DEFINE doc == [jobs[j] EXCEPT !.state = "completed_undelivered"]
  <2>1. jobs[j] \in Job /\ DocOK(jobs[j]) /\ jobs[j].token < nextToken
    BY <1>0
  <2>2. jobs' = [jobs EXCEPT ![j] = doc] /\ nextToken' = nextToken
    BY <1>0, <1>7 DEF MarkCompletedUndelivered
  <2>3. jobs[j].state \in {"succeeded", "completed_undelivered"}
    BY <1>7 DEF MarkCompletedUndelivered
  <2>4. /\ doc \in Job
        /\ doc.state = "completed_undelivered"
        /\ doc.token = jobs[j].token
        /\ doc.live = jobs[j].live
        /\ doc.writer = jobs[j].writer
        /\ doc.attempt = jobs[j].attempt
        /\ doc.approval = jobs[j].approval
        /\ doc.approved = jobs[j].approved
    BY <2>1, <2>3 DEF Job, State
  <2> HIDE DEF doc
  <2>5. DocOK(doc) /\ doc.token < nextToken
    BY <1>0, <2>1, <2>3, <2>4 DEF DocOK, Job, WriterStates, LeaseStates, NoToken
  <2>6. doc.state \notin WriterStates
    BY <2>3, <2>4 DEF WriterStates, LeaseStates
  <2>7. Rewrites(j, doc)
    BY <1>0, <2>2, <2>3, <2>4, <2>5, <2>6
       DEF Rewrites, Terminal
  <2>8. QED
    BY <2>7 DEF Rewrites, DocOK
<1>8. ASSUME NEW j \in Jobs, MarkFinalDeliveryEnqueued(j)
      PROVE  \E d \in Job : Rewrites(j, d)
  <2> DEFINE doc == [jobs[j] EXCEPT !.final = TRUE]
  <2>1. jobs[j] \in Job /\ DocOK(jobs[j]) /\ jobs[j].token < nextToken
    BY <1>0
  <2>2. jobs' = [jobs EXCEPT ![j] = doc] /\ nextToken' = nextToken
    BY <1>0, <1>8 DEF MarkFinalDeliveryEnqueued
  <2>3. /\ doc \in Job
        /\ doc.state = jobs[j].state
        /\ doc.token = jobs[j].token
        /\ doc.live = jobs[j].live
        /\ doc.writer = jobs[j].writer
        /\ doc.attempt = jobs[j].attempt
        /\ doc.approval = jobs[j].approval
        /\ doc.approved = jobs[j].approved
    BY <2>1 DEF Job
  <2> HIDE DEF doc
  <2>4. DocOK(doc) /\ doc.token < nextToken
    BY <1>0, <2>1, <2>3 DEF DocOK, Job, WriterStates, LeaseStates, NoToken
  <2>5. doc.state = jobs[j].state
    BY <2>3
  <2>6. Rewrites(j, doc)
    BY <1>0, <2>2, <2>3, <2>4, <2>5
       DEF Rewrites
  <2>7. QED
    BY <2>6 DEF Rewrites, DocOK
<1>9. ASSUME NEW j \in Jobs, ReleaseRetryWait(j)
      PROVE  \E d \in Job : Rewrites(j, d)
  <2> DEFINE to == IF jobs[j].attempt >= MaxAttempts THEN "failed" ELSE "queued"
  <2> DEFINE doc == [jobs[j] EXCEPT !.state = to]
  <2>1. jobs[j] \in Job /\ DocOK(jobs[j]) /\ jobs[j].token < nextToken
    BY <1>0
  <2>2. jobs' = [jobs EXCEPT ![j] = doc] /\ nextToken' = nextToken
    BY <1>0, <1>9 DEF ReleaseRetryWait
  <2>3. jobs[j].state = "retry_wait" /\ to \in {"failed", "queued"}
    BY <1>9 DEF ReleaseRetryWait
  <2> HIDE DEF to
  <2>4. /\ doc \in Job
        /\ doc.state = to
        /\ doc.token = jobs[j].token
        /\ doc.live = jobs[j].live
        /\ doc.writer = jobs[j].writer
        /\ doc.attempt = jobs[j].attempt
        /\ doc.approval = jobs[j].approval
        /\ doc.approved = jobs[j].approved
    BY <2>1, <2>3 DEF Job, State
  <2> HIDE DEF doc
  <2>5. DocOK(doc) /\ doc.token < nextToken
    BY <1>0, <2>1, <2>3, <2>4 DEF DocOK, Job, WriterStates, LeaseStates, NoToken
  <2>6. doc.state \notin WriterStates
    BY <2>3, <2>4 DEF WriterStates, LeaseStates
  <2>7. Rewrites(j, doc)
    BY <1>0, <2>2, <2>3, <2>4, <2>5, <2>6
       DEF Rewrites, Terminal
  <2>8. QED
    BY <2>7 DEF Rewrites, DocOK
<1>10. ASSUME NEW j \in Jobs, RecoverExpired(j)
       PROVE  \E d \in Job : Rewrites(j, d)
  <2>1. jobs[j] \in Job /\ DocOK(jobs[j]) /\ jobs[j].token < nextToken
    BY <1>0
  <2>2. PICK to \in {"queued", "needs_reconciliation"} :
          jobs' = [jobs EXCEPT ![j] = Released(jobs[j], to)] /\ nextToken' = nextToken
    BY <1>10 DEF RecoverExpired
  <2> DEFINE doc == Released(jobs[j], to)
  <2>3. /\ doc \in Job
        /\ doc.state = to
        /\ doc.token = NoToken
        /\ doc.live = FALSE
        /\ doc.writer = FALSE
        /\ doc.attempt = jobs[j].attempt
        /\ doc.approval = jobs[j].approval
        /\ doc.approved = jobs[j].approved
    BY <2>1 DEF Released, Job, State, NoToken
  <2>4. jobs' = [jobs EXCEPT ![j] = doc]
    BY <2>2
  <2> HIDE DEF doc
  <2>5. DocOK(doc) /\ doc.token < nextToken /\ doc.state \notin WriterStates
    BY <1>0, <2>1, <2>3 DEF DocOK, WriterStates, LeaseStates, NoToken
  <2>6. jobs[j].state \in LeaseStates
    BY <1>10 DEF RecoverExpired, LeaseStates
  <2>7. Rewrites(j, doc)
    BY <1>0, <2>2, <2>3, <2>4, <2>5, <2>6
       DEF Rewrites, WriterStates, LeaseStates, Terminal
  <2>8. QED
    BY <2>7 DEF Rewrites, DocOK
<1>11. ASSUME NEW j \in Jobs, LeaseExpires(j)
      PROVE  \E d \in Job : Rewrites(j, d)
  <2> DEFINE doc == [jobs[j] EXCEPT !.live = FALSE]
  <2>1. jobs[j] \in Job /\ DocOK(jobs[j]) /\ jobs[j].token < nextToken
    BY <1>0
  <2>2. jobs' = [jobs EXCEPT ![j] = doc] /\ nextToken' = nextToken
    BY <1>0, <1>11 DEF LeaseExpires
  <2>3. /\ doc \in Job
        /\ doc.state = jobs[j].state
        /\ doc.token = jobs[j].token
        /\ doc.live = FALSE
        /\ doc.writer = jobs[j].writer
        /\ doc.attempt = jobs[j].attempt
        /\ doc.approval = jobs[j].approval
        /\ doc.approved = jobs[j].approved
    BY <2>1 DEF Job
  <2> HIDE DEF doc
  <2>4. DocOK(doc) /\ doc.token < nextToken
    BY <1>0, <2>1, <2>3 DEF DocOK, Job, WriterStates, LeaseStates, NoToken
  <2>5. doc.state = jobs[j].state
    BY <2>3
  <2>6. Rewrites(j, doc)
    BY <1>0, <2>2, <2>3, <2>4, <2>5
       DEF Rewrites
  <2>7. QED
    BY <2>6 DEF Rewrites, DocOK
<1>12. ASSUME NEW j \in Jobs, JobExpires(j)
      PROVE  \E d \in Job : Rewrites(j, d)
  <2> DEFINE doc == [jobs[j] EXCEPT !.expired = TRUE]
  <2>1. jobs[j] \in Job /\ DocOK(jobs[j]) /\ jobs[j].token < nextToken
    BY <1>0
  <2>2. jobs' = [jobs EXCEPT ![j] = doc] /\ nextToken' = nextToken
    BY <1>0, <1>12 DEF JobExpires
  <2>3. /\ doc \in Job
        /\ doc.state = jobs[j].state
        /\ doc.token = jobs[j].token
        /\ doc.live = jobs[j].live
        /\ doc.writer = jobs[j].writer
        /\ doc.attempt = jobs[j].attempt
        /\ doc.approval = jobs[j].approval
        /\ doc.approved = jobs[j].approved
    BY <2>1 DEF Job
  <2> HIDE DEF doc
  <2>4. DocOK(doc) /\ doc.token < nextToken
    BY <1>0, <2>1, <2>3 DEF DocOK, Job, WriterStates, LeaseStates, NoToken
  <2>5. doc.state = jobs[j].state
    BY <2>3
  <2>6. Rewrites(j, doc)
    BY <1>0, <2>2, <2>3, <2>4, <2>5
       DEF Rewrites
  <2>7. QED
    BY <2>6 DEF Rewrites, DocOK
<1>13. ASSUME NEW j \in Jobs, TTLDelete(j)
      PROVE  \E d \in Job : Rewrites(j, d)
  <2> DEFINE doc == [NoJob EXCEPT !.state = "deleted"]
  <2>1. jobs[j] \in Job /\ DocOK(jobs[j]) /\ jobs[j].token < nextToken
    BY <1>0
  <2>2. jobs' = [jobs EXCEPT ![j] = doc] /\ nextToken' = nextToken
    BY <1>0, <1>13 DEF TTLDelete
  <2>3. /\ doc \in Job
        /\ doc.state = "deleted"
        /\ doc.token = NoToken
        /\ doc.live = FALSE
        /\ doc.writer = FALSE
        /\ doc.attempt = 0
        /\ doc.approval = NoApproval
        /\ doc.approved = FALSE
    BY <2>1 DEF Job, NoJob, State, NoToken
  <2> HIDE DEF doc
  <2>4. DocOK(doc) /\ doc.token < nextToken
    BY <1>0, <2>1, <2>3 DEF DocOK, Job, WriterStates, LeaseStates, NoToken
  <2>5. doc.state \notin WriterStates
    BY <2>3 DEF WriterStates, LeaseStates
  <2>6. jobs[j].expired
    BY <1>13 DEF TTLDelete
  <2>7. Rewrites(j, doc)
    BY <1>0, <2>2, <2>3, <2>4, <2>5, <2>6
       DEF Rewrites
  <2>8. QED
    BY <2>7 DEF Rewrites, DocOK
<1>14. QED
  BY <1>1, <1>2, <1>3, <1>4, <1>5, <1>6, <1>7, <1>8, <1>9, <1>10, <1>11, <1>12,
     <1>13 DEF QueueNext

\* Every operation of the queue preserves the invariant.
LEMMA QueueStep == QueueInv /\ [QueueNext]_queueVars => QueueInv'
<1>1. ASSUME QueueInv, QueueNext
      PROVE  QueueInv'
  BY <1>1, StepRewrites, Rewrite
<1>2. ASSUME QueueInv, UNCHANGED queueVars
      PROVE  QueueInv'
  BY <1>2 DEF queueVars, QueueInv, QueueTypeOK, WriterMatchesState,
              LeaseMatchesState, OneWriterPerSession, AttemptsWithinBudget,
              SuspensionNamesApproval, TokensIssued
<1>3. QED
  BY <1>1, <1>2

\* The empty collection satisfies the invariant.
LEMMA QueueStart == QueueInit => QueueInv
  BY MaxAttemptsAssumption, NoApprovalAssumption
     DEF QueueInit, QueueInv, QueueTypeOK, WriterMatchesState, LeaseMatchesState,
         OneWriterPerSession, AttemptsWithinBudget, SuspensionNamesApproval,
         TokensIssued, NoJob, Job, State, WriterStates, LeaseStates, NoToken

\* The inductive invariant holds in every state the queue reaches, however its
\* operations interleave and whatever stale tokens callers present.
THEOREM QueueInvariant == QueueSpec => []QueueInv
  BY QueueStart, QueueStep, PTL DEF QueueSpec

\* Documents stay well formed; in particular a resume never drives attempt
\* below zero (MongoQueue.ResumeFromApproval decrements it unguarded).
THEOREM QueueTypeCorrect == QueueSpec => []QueueTypeOK
<1>1. QueueInv => QueueTypeOK
  BY DEF QueueInv
<1>2. QED
  BY <1>1, QueueInvariant, PTL

\* At most one job of a session is leased, running, suspended or cancelling.
THEOREM SessionHasOneWriter == QueueSpec => []OneWriterPerSession
<1>1. QueueInv => OneWriterPerSession
  BY DEF QueueInv
<1>2. QED
  BY <1>1, QueueInvariant, PTL

\* The attempt budget is never exceeded, approvals and recoveries included.
THEOREM AttemptBudget == QueueSpec => []AttemptsWithinBudget
<1>1. QueueInv => AttemptsWithinBudget
  BY DEF QueueInv
<1>2. QED
  BY <1>1, QueueInvariant, PTL
\* A settled job is never revived, whatever token a late worker presents.
THEOREM SettledStaysSettled == QueueSpec => TerminalIsFinal
<1>1. QueueInv /\ [QueueNext]_queueVars => [KeepsSettled]_queueVars
  <2>1. ASSUME QueueInv, QueueNext
        PROVE  KeepsSettled
    <3>1. PICK j \in Jobs, doc \in Job : Rewrites(j, doc)
      BY <2>1, StepRewrites
    <3>2. jobs \in [Jobs -> Job]
      BY <2>1, InvIsDocs
    <3>3. \A k \in Jobs : jobs'[k] = IF k = j THEN doc ELSE jobs[k]
      BY <3>1, <3>2 DEF Rewrites
    <3>4. QED
      BY <3>1, <3>3 DEF Rewrites, KeepsSettled
  <2>2. QED
    BY <2>1
<1>2. QED
  BY <1>1, QueueInvariant, PTL DEF QueueSpec, TerminalIsFinal

\* A lease token a document does not hold is lost to it for ever: the fence that
\* Transition, Heartbeat and SuspendForApproval check cannot be passed again.
THEOREM FencedForEver == QueueSpec => LostTokensStayLost
<1>1. QueueInv /\ [QueueNext]_queueVars => [KeepsLost]_queueVars
  <2>1. ASSUME QueueInv, QueueNext
        PROVE  KeepsLost
    <3>1. PICK j \in Jobs, doc \in Job : Rewrites(j, doc)
      BY <2>1, StepRewrites
    <3>2. jobs \in [Jobs -> Job] /\ nextToken \in Nat \ {0}
      BY <2>1, InvIsDocs
    <3>3. \A k \in Jobs : jobs'[k] = IF k = j THEN doc ELSE jobs[k]
      BY <3>1, <3>2 DEF Rewrites
    <3>4. doc.token \in {jobs[j].token, NoToken, nextToken}
      BY <3>1 DEF Rewrites
    <3>5. QED
      BY <3>2, <3>3, <3>4 DEF NoToken, KeepsLost
  <2>2. QED
    BY <2>1
<1>2. QED
  BY <1>1, QueueInvariant, PTL DEF QueueSpec, LostTokensStayLost

\* The queue implements the abstract writer right of SessionWriter.
THEOREM QueueImplementsSessionWriter == QueueSpec => ImplementsSessionWriter
<1> DEFINE writers == {j \in Jobs : jobs[j].state \in WriterStates}
<1>1. QueueInit => Writers!WInit
  BY DEF QueueInit, NoJob, Writers!WInit, WriterStates, LeaseStates
<1>2. QueueInv /\ [QueueNext]_queueVars => [Writers!WNext]_writers
  <2>1. ASSUME QueueInv, QueueNext
        PROVE  Writers!WNext \/ UNCHANGED writers
    <3>1. PICK j \in Jobs, doc \in Job : Rewrites(j, doc)
      BY <2>1, StepRewrites
    <3>2. jobs \in [Jobs -> Job]
      BY <2>1, InvIsDocs
    <3>3. \A k \in Jobs : jobs'[k] = IF k = j THEN doc ELSE jobs[k]
      BY <3>1, <3>2 DEF Rewrites
    <3>4. CASE jobs[j].state \notin WriterStates /\ doc.state \in WriterStates
      <4>1. \A k \in Jobs \ {j} : SessionOf[k] = SessionOf[j] =>
                                    jobs[k].state \notin WriterStates
        BY <3>1, <3>4 DEF Rewrites
      <4>2. writers' = writers \cup {j}
        BY <3>3, <3>4
      <4>3. Writers!Acquire(j)
        BY <3>4, <4>1, <4>2 DEF Writers!Acquire
      <4>4. QED
        BY <4>3 DEF Writers!WNext
    <3>5. CASE jobs[j].state \in WriterStates /\ doc.state \notin WriterStates
      <4>1. writers' = writers \ {j}
        BY <3>3, <3>5
      <4>2. Writers!Release(j)
        BY <3>5, <4>1 DEF Writers!Release
      <4>3. QED
        BY <4>2 DEF Writers!WNext
    <3>6. CASE jobs[j].state \in WriterStates <=> doc.state \in WriterStates
      BY <3>3, <3>6
    <3>7. QED
      BY <3>4, <3>5, <3>6
  <2>2. ASSUME UNCHANGED queueVars
        PROVE  UNCHANGED writers
    BY <2>2 DEF queueVars
  <2>3. QED
    BY <2>1, <2>2
<1>3. QED
  BY <1>1, <1>2, QueueInvariant, PTL
     DEF QueueSpec, ImplementsSessionWriter, Writers!WSpec
=============================================================================
