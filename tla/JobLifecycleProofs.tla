-------------------------- MODULE JobLifecycleProofs --------------------------
(***************************************************************************)
(* Proofs about the lifecycle of a job, for every set of jobs, workers and *)
(* approvals, every attempt budget and any number of crashes.              *)
(*                                                                         *)
(* Workers, coordinator and reconciler act on what they read earlier, so   *)
(* what they still intend must stay right while the others run.  The proof *)
(* names the predicates of a job's document that no operation of the queue *)
(* makes false again (Done, Succ, Fell, Spent, and Past for the holder of  *)
(* a token), shows so once per operation, and then shows for each actor    *)
(* that whatever is on its todo list rests on one of them.  The same steps *)
(* show that every step of the lifecycle is a step of the queue.           *)
(***************************************************************************)
EXTENDS JobLifecycle, JobQueueProofs, SequenceTheorems

(***************************************************************************)
(* Predicates of a document that stay true.                                *)
(***************************************************************************)
\* The job has left its first run for good: its slot may be given back.
Left == {"waiting_approval", "cancelling", "cancelled", "needs_reconciliation",
         "succeeded", "failed", "completed_undelivered", "deleted"}
Done(d) == \/ d.epoch >= 2
           \/ d.state \in Left
           \/ d.state = "running" /\ ~d.live

\* The job has succeeded, or has failed or been cancelled.
Succ(d) == d.state \in {"succeeded", "completed_undelivered", "deleted"}
Fell(d) == d.state \in {"failed", "cancelled", "deleted"}

\* The job will never run again although nobody has said so yet.
Spent(d) == \/ d.state \in {"cancelled", "deleted"}
            \/ d.state = "queued" /\ d.attempt >= MaxAttempts

\* The attempt that holds token t has started the job: nobody else runs it
\* before it is resumed.
Past(d, t) == \/ d.epoch >= 2
              \/ /\ d.state \notin {"absent", "queued", "leased", "retry_wait"}
                 /\ d.state = "running" => d.token = t

\* The job counts against the channel's limit.
Executing(d) == /\ \/ d.state \in {"queued", "leased", "retry_wait"}
                   \/ d.state = "running" /\ d.live
                /\ d.epoch = 1

\* What an operation never undoes; only the holder of token t0 may lose Past.
KeepsVerdicts(d, e, t0) ==
  /\ Done(d) => Done(e)
  /\ Succ(d) => Succ(e)
  /\ Fell(d) => Fell(e)
  /\ Spent(d) => Spent(e)
  /\ \A t \in Nat : t # t0 /\ Past(d, t) => Past(e, t)

\* A job starts to execute only when it is enqueued.
KeepsSlot(d, e) == Executing(e) => Executing(d)

\* A job comes to wait only by a suspension, and is approved only by a resume.
KeepsGrant(d, e) ==
  /\ e.state = "waiting_approval" =>
       d.state = "waiting_approval" /\ e.approval = d.approval
  /\ e.approved => d.approved /\ e.approval = d.approval

\* Nobody prepares a job here, and a document that exists has an epoch.
LifeDoc(d) == /\ d.state # "preparing"
              /\ d.state = "absent" => d.epoch = 0
              /\ d.state \notin {"absent", "deleted"} => d.epoch >= 1

\* The queue as the lifecycle uses it.
QInv == /\ QueueInv
        /\ \A j \in Jobs : LifeDoc(jobs[j])

\* One step of the queue, or none, that undoes nothing.
QueueGoes(t0) ==
  /\ [QueueNext]_queueVars
  /\ QInv'
  /\ nextToken <= nextToken'
  /\ \A k \in Jobs : KeepsVerdicts(jobs[k], jobs'[k], t0)

\* That step writes document j only.
Writes(j, doc) ==
  /\ jobs'[j] = doc
  /\ \A k \in Jobs \ {j} : jobs'[k] = jobs[k]

QuietSlots == \A k \in Jobs : KeepsSlot(jobs[k], jobs'[k])
QuietGrants == \A k \in Jobs : KeepsGrant(jobs[k], jobs'[k])

(***************************************************************************)
(* The inductive invariant, one part per collection and per actor.         *)
(***************************************************************************)
\* The reservations: an interactive job that executes holds its own.
SlotInv == /\ slot \in [Jobs -> {"none", "held", "released"}]
           /\ \A j \in Interactive : Executing(jobs[j]) => slot[j] = "held"

\* The deliveries: what is enqueued agrees with what the job became.
DeliveriesInv ==
  /\ dl \in [Jobs -> [Purposes -> DeliveryStatus]]
  /\ \A j \in Jobs : /\ dl[j]["final"] # "none" => Succ(jobs[j])
                     /\ dl[j]["failure"] # "none" => Fell(jobs[j])

\* The approvals: one that exists belongs to a job, a suspended job waits for an
\* approval of its own and a resumed one carries an approval that was given.
ApprovalRec == [status : ApprovalStatus, job : Jobs \cup {None}, expired : BOOLEAN]
Asked(ap) == ap.status # "none"
Given(ap) == ap.status \in {"approved", "consumed"}
GrantInv ==
  /\ appr \in [Approvals -> ApprovalRec]
  /\ \A a \in Approvals : Asked(appr[a]) => appr[a].job \in Jobs
  /\ \A j \in Jobs : jobs[j].state = "waiting_approval" =>
       Asked(appr[jobs[j].approval]) /\ appr[jobs[j].approval].job = j
  /\ \A j \in Jobs : jobs[j].approved =>
       Given(appr[jobs[j].approval]) /\ appr[jobs[j].approval].job = j

\* What is left of a worker's course, and the fact about its job it rests on.
WorkTodos == {<<>>, <<"slot">>, <<"failure", "slot">>, <<"slot", "final", "mark">>,
              <<"final", "mark">>, <<"mark">>}
WorkOK(todo, d) ==
  \/ todo = <<>>
  \/ todo = <<"slot">> /\ Done(d)
  \/ todo = <<"failure", "slot">> /\ Fell(d)
  \/ todo = <<"slot", "final", "mark">> /\ Succ(d)
  \/ todo = <<"final", "mark">> /\ Succ(d)
  \/ todo = <<"mark">>

WorkerPc == {"idle", "claimed", "gate", "routed", "harness", "ended", "cancel",
             "settle", "finish"} \cup Outcomes
StartedPc == {"gate", "routed", "harness", "ended", "cancel"} \cup Outcomes
WorkerRec == [pc : WorkerPc, job : Jobs \cup {None}, token : Nat, epoch : Nat,
              grant : Approvals \cup {NoApproval}, outcome : Outcomes,
              todo : WorkTodos]

\* A worker x with its job's document d and the next token n.
WorkerOK(x, d, n) ==
  /\ x \in WorkerRec
  /\ x.pc = "idle" => x = IdleWorker
  /\ x.pc = "finish" <=> x.todo # <<>>
  /\ x.pc # "idle" => x.job \in Jobs /\ x.token # NoToken /\ x.token < n
  /\ x.pc \in StartedPc => Past(d, x.token)
  /\ x.pc = "settle" => Done(d)
  /\ WorkOK(x.todo, d)
WorkersInv ==
  /\ wk \in [Workers -> WorkerRec]
  /\ \A w \in Workers : WorkerOK(wk[w], jobs[wk[w].job], nextToken)
  /\ \A v, w \in Workers : v # w /\ wk[v].pc # "idle" => wk[v].token # wk[w].token

\* A tool call has the job of its worker; one that requested an approval has one.
BridgePc == {"idle", "authorized", "requested", "suspended"}
BridgeRec == [pc : BridgePc, job : Jobs \cup {None}, token : Nat,
              appr : Approvals \cup {NoApproval}]
BridgeOK(b, ap) ==
  /\ b \in BridgeRec
  /\ b.pc # "idle" => b.job \in Jobs
  /\ b.pc = "requested" => /\ b.appr \in Approvals
                           /\ Asked(ap[b.appr])
                           /\ ap[b.appr].job = b.job
BridgesInv == /\ bridge \in [Workers -> BridgeRec]
              /\ \A w \in Workers : BridgeOK(bridge[w], appr)

\* What is left of a decision on approval ap of the job with document d.
DecideTodos == {<<>>, <<"approve", "resume", "resolved">>, <<"resume", "resolved">>,
                <<"deny", "cancel", "slot", "resolved">>,
                <<"cancel", "slot", "resolved">>, <<"slot", "resolved">>,
                <<"resolved">>}
DecideOK(todo, d, ap) ==
  \/ todo = <<"approve", "resume", "resolved">>
  \/ todo = <<"resume", "resolved">> /\ Given(ap)
  \/ todo = <<"deny", "cancel", "slot", "resolved">>
  \/ todo = <<"cancel", "slot", "resolved">>
  \/ todo = <<"slot", "resolved">> /\ Done(d)
  \/ todo = <<"resolved">>
DecisionOK(x, ap, docs) ==
  /\ x \in [appr : Approvals \cup {NoApproval}, todo : DecideTodos]
  /\ x.todo # <<>> => /\ x.appr \in Approvals
                      /\ Asked(ap[x.appr])
                      /\ DecideOK(x.todo, docs[ap[x.appr].job], ap[x.appr])
CoordinatorInv == DecisionOK(dec, appr, jobs)

\* What the reconciler remembers of a listed job is still true of it, as far as
\* its plan depends on it.
SeenRec == [state : State, approval : Approvals \cup {NoApproval}, late : BOOLEAN,
            expired : BOOLEAN]
SeenOK(s, d) ==
  \/ s = NotSeen
  \/ s.state = "succeeded" /\ Succ(d)
  \/ s.state = "waiting_approval" /\ Done(d) /\ s.approval \in Approvals
  \/ s.state = "queued" /\ (~s.expired => Spent(d))
  \/ s.state = "needs_reconciliation" /\ Done(d)
  \/ s.state = "retry_wait"
RecTodos == {<<>>, <<"mark">>, <<"final", "mark">>, <<"slot", "verdict">>,
             <<"verdict">>, <<"cancel", "slot">>, <<"cancel", "slot", "failure">>,
             <<"cancel", "slot", "expire">>, <<"slot">>, <<"slot", "failure">>,
             <<"failure">>, <<"failure", "slot">>, <<"slot", "expire">>,
             <<"expire">>, <<"resume">>, <<"release">>}
PlanOK(todo, a, d, ap) ==
  \/ todo = <<"mark">>
  \/ todo = <<"final", "mark">> /\ Succ(d)
  \/ todo = <<"slot", "verdict">> /\ Done(d) /\ a \in Approvals
  \/ todo = <<"verdict">> /\ a \in Approvals
  \/ todo = <<"cancel", "slot">>
  \/ todo = <<"cancel", "slot", "failure">> /\ Spent(d)
  \/ todo = <<"cancel", "slot", "expire">>
  \/ todo = <<"slot">> /\ Done(d)
  \/ todo = <<"slot", "failure">> /\ Fell(d)
  \/ todo = <<"failure">> /\ Fell(d)
  \/ todo = <<"failure", "slot">> /\ Fell(d)
  \/ todo = <<"slot", "expire">> /\ Done(d)
  \/ todo = <<"expire">>
  \/ todo = <<"resume">> /\ a \in Approvals /\ Given(ap[a])
  \/ todo = <<"release">>
ReconcilerRec == [list : [Jobs -> SeenRec], job : Jobs \cup {None}, seen : SeenRec,
                  todo : RecTodos]
ReconcilerInv ==
  /\ rec \in ReconcilerRec
  /\ \A j \in Jobs : SeenOK(rec.list[j], jobs[j])
  /\ rec.todo # <<>> => /\ rec.job \in Jobs
                        /\ PlanOK(rec.todo, rec.seen.approval, jobs[rec.job], appr)

LoopsInv == undelivered \subseteq Jobs /\ crashes \in 0 .. MaxCrashes

IInv == /\ QInv
        /\ SlotInv
        /\ DeliveriesInv
        /\ GrantInv
        /\ WorkersInv
        /\ BridgesInv
        /\ CoordinatorInv
        /\ ReconcilerInv
        /\ LoopsInv

\* What is known of a single document.
LEMMA Document ==
  ASSUME QInv, NEW j \in Jobs
  PROVE  /\ jobs \in [Jobs -> Job]
         /\ jobs[j] \in Job
         /\ DocOK(jobs[j])
         /\ LifeDoc(jobs[j])
         /\ nextToken \in Nat \ {0}
         /\ jobs[j].token < nextToken
  BY InvIsDocs DEF QInv

\* A document that is not touched keeps everything.
LEMMA SameDocument ==
  ASSUME NEW d, NEW t0
  PROVE  KeepsVerdicts(d, d, t0) /\ KeepsSlot(d, d) /\ KeepsGrant(d, d)
  BY DEF KeepsVerdicts, KeepsSlot, KeepsGrant

\* A step that leaves the queue alone.
LEMMA QueueRests ==
  ASSUME QInv, UNCHANGED queueVars, NEW t0
  PROVE  QueueGoes(t0) /\ QuietSlots /\ QuietGrants
<1>1. jobs' = jobs /\ nextToken' = nextToken
  BY DEF queueVars
<1>2. QInv'
  <2>1. QueueInv'
    BY QueueStep DEF QInv
  <2>2. QED
    BY <1>1, <2>1 DEF QInv, LifeDoc
<1>3. nextToken <= nextToken'
  BY <1>1 DEF QInv, QueueInv, QueueTypeOK
<1>4. QED
  BY <1>1, <1>2, <1>3, SameDocument DEF QueueGoes, QuietSlots, QuietGrants

\* A step of the queue that writes one document so that nothing is undone.
LEMMA OneDocument ==
  ASSUME QInv, QueueNext, NEW j \in Jobs, NEW doc, NEW t0,
         jobs' = [jobs EXCEPT ![j] = doc], nextToken <= nextToken',
         LifeDoc(doc), KeepsVerdicts(jobs[j], doc, t0)
  PROVE  QueueGoes(t0) /\ Writes(j, doc)
<1>1. jobs \in [Jobs -> Job]
  BY Document
<1>2. \A k \in Jobs : jobs'[k] = IF k = j THEN doc ELSE jobs[k]
  BY <1>1
<1>3. QInv'
  <2>1. QueueInv'
    BY QueueStep DEF QInv
  <2>2. \A k \in Jobs : LifeDoc(jobs'[k])
    BY <1>2 DEF QInv
  <2>3. QED
    BY <2>1, <2>2 DEF QInv, LifeDoc
<1>4. \A k \in Jobs : KeepsVerdicts(jobs[k], jobs'[k], t0)
  BY <1>2, SameDocument
<1>5. QED
  BY <1>2, <1>3, <1>4 DEF QueueGoes, Writes

\* If the written document keeps its slot, or its grant, all do.
LEMMA WritesQuietly ==
  ASSUME NEW j \in Jobs, NEW doc, Writes(j, doc)
  PROVE  /\ KeepsSlot(jobs[j], doc) => QuietSlots
         /\ KeepsGrant(jobs[j], doc) => QuietGrants
  BY SameDocument DEF Writes, QuietSlots, QuietGrants

(***************************************************************************)
(* One lemma per operation of the queue: it undoes nothing.                *)
(***************************************************************************)
\* Enqueue: the job begins to execute, nothing else changes.
LEMMA Enqueues ==
  ASSUME QInv, NEW j \in Jobs, Enqueue(j)
  PROVE  /\ QueueGoes(NoToken)
         /\ QuietGrants
         /\ \A k \in Jobs \ {j} : jobs'[k] = jobs[k]
<1> DEFINE doc == [NoJob EXCEPT !.state = "queued", !.epoch = 1]
<1>1. jobs[j].state = "absent" /\ jobs' = [jobs EXCEPT ![j] = doc] /\ nextToken' = nextToken
  BY DEF Enqueue
<1>2. doc.state = "queued" /\ doc.epoch = 1 /\ doc.approved = FALSE
  BY DEF NoJob
<1> HIDE DEF doc
<1>3. LifeDoc(doc)
  BY <1>2 DEF LifeDoc
<1>4. jobs[j] \in Job /\ nextToken \in Nat /\ nextToken <= nextToken'
  BY <1>1, Document
<1>5. KeepsVerdicts(jobs[j], doc, NoToken)
  BY <1>1, <1>2, <1>4, Document
     DEF LifeDoc, KeepsVerdicts, Done, Left, Succ, Fell, Spent, Past
<1>6. QueueNext
  BY DEF QueueNext
<1>7. QueueGoes(NoToken) /\ Writes(j, doc)
  BY <1>1, <1>3, <1>4, <1>5, <1>6, OneDocument
<1>8. KeepsGrant(jobs[j], doc)
  BY <1>2 DEF KeepsGrant
<1>9. QED
  BY <1>7, <1>8, WritesQuietly DEF Writes

\* Claim: the claimed job was queued, so nothing was known of it for good.
LEMMA Claims ==
  ASSUME QInv, NEW j \in Jobs, Claim(j)
  PROVE  /\ QueueGoes(NoToken)
         /\ QuietSlots
         /\ QuietGrants
         /\ nextToken \in Nat \ {0}
         /\ nextToken' = nextToken + 1
<1> DEFINE doc == Claimed(jobs[j], nextToken)
<1>1. /\ jobs[j].state = "queued"
      /\ jobs[j].attempt < MaxAttempts
      /\ jobs' = [jobs EXCEPT ![j] = doc]
      /\ nextToken' = nextToken + 1
  BY DEF Claim, Claimable
<1>2. jobs[j] \in Job /\ nextToken \in Nat \ {0} /\ LifeDoc(jobs[j])
  BY Document
<1>3. doc \in Job /\ doc.state = "leased" /\ doc.token = nextToken
      /\ doc.approved = jobs[j].approved /\ doc.approval = jobs[j].approval
  BY <1>2, ClaimedDoc
<1>4. doc.epoch = jobs[j].epoch
  BY <1>2 DEF Claimed, Job
<1>5. jobs[j].attempt \in Nat /\ jobs[j].epoch \in Nat
  BY <1>2 DEF Job
<1> HIDE DEF doc
<1>6. LifeDoc(doc)
  BY <1>1, <1>2, <1>3, <1>4 DEF LifeDoc
<1>7. KeepsVerdicts(jobs[j], doc, NoToken)
  BY <1>1, <1>3, <1>4, <1>5, MaxAttemptsAssumption
     DEF KeepsVerdicts, Done, Left, Succ, Fell, Spent, Past
<1>8. QueueNext
  BY DEF QueueNext
<1>9. QueueGoes(NoToken) /\ Writes(j, doc)
  <2>1. nextToken <= nextToken'
    BY <1>1, <1>2
  <2>2. QED
    BY <1>1, <1>6, <1>7, <1>8, <2>1, OneDocument
<1>10. KeepsSlot(jobs[j], doc) /\ KeepsGrant(jobs[j], doc)
  BY <1>1, <1>3, <1>4 DEF KeepsSlot, KeepsGrant, Executing
<1>11. QED
  BY <1>1, <1>2, <1>9, <1>10, WritesQuietly

\* The transitions the workers ask for.  Only a requeue takes the job back to
\* where another attempt may start it, and only the holder of t asks for that.
Asks == {"running", "retry_wait", "succeeded", "failed", "cancelled"}
LEMMA Transitions ==
  ASSUME QInv, NEW j \in Jobs, NEW t \in Nat, NEW to \in Asks, Transition(j, t, to)
  PROVE  /\ QueueGoes(IF to = "retry_wait" THEN t ELSE NoToken)
         /\ QuietSlots
         /\ QuietGrants
         /\ jobs'[j].state = to
         /\ to = "running" => jobs'[j].token = t
<1> DEFINE doc == Transitioned(jobs[j], to)
           t0 == IF to = "retry_wait" THEN t ELSE NoToken
<1>1. /\ t # NoToken
      /\ jobs[j].token = t
      /\ jobs[j].live
      /\ to \in Successors(jobs[j].state)
      /\ jobs' = [jobs EXCEPT ![j] = doc]
      /\ nextToken' = nextToken
  BY DEF Transition, CanMove, HoldsLease, CanTransition
<1>2. /\ jobs[j] \in Job
      /\ nextToken \in Nat
      /\ DocOK(jobs[j])
      /\ LifeDoc(jobs[j])
      /\ jobs[j].token < nextToken
  BY Document
<1>3. to \in Targets
  BY DEF Asks, Targets
<1>4. QueueNext
  <2>1. t \in 1 .. nextToken - 1
    BY <1>1, <1>2 DEF NoToken
  <2>2. QED
    BY <1>3, <2>1 DEF QueueNext
<1>5. /\ doc \in Job
      /\ doc.state = to
      /\ to # "running" => doc.live = FALSE
      /\ to = "running" => doc.token = t /\ doc.live
      /\ doc.attempt = jobs[j].attempt
      /\ doc.approval = jobs[j].approval
      /\ doc.approved = jobs[j].approved
  <2>1. CASE to = "running"
    <3>1. to \notin LeaseEnding
      BY <2>1 DEF LeaseEnding
    <3>2. QED
      BY <1>1, <1>2, <1>3, <2>1, <3>1, MovedDoc
  <2>2. CASE to # "running"
    <3>1. to \in LeaseEnding
      BY <2>2 DEF LeaseEnding, Asks
    <3>2. QED
      BY <1>2, <1>3, <2>2, <3>1, EndedDoc
  <2>3. QED
    BY <2>1, <2>2
<1>6. doc.epoch = jobs[j].epoch
  BY <1>2 DEF Transitioned, Released, Job
<1>7. jobs[j].state \in {"leased", "running", "cancelling"}
  BY <1>1, <1>2 DEF DocOK, LeaseStates, LifeDoc
<1>8. /\ to = "retry_wait" => jobs[j].state = "running"
      /\ to = "running" => jobs[j].state \in {"leased", "running"}
  BY <1>1, <1>7 DEF Successors
<1>9. jobs[j].epoch \in Nat
  BY <1>2 DEF Job
<1> HIDE DEF doc
<1>10. LifeDoc(doc)
  BY <1>2, <1>5, <1>6, <1>7 DEF LifeDoc, Asks
<1>11. KeepsVerdicts(jobs[j], doc, t0)
  <2>1. /\ Done(jobs[j]) => Done(doc)
        /\ Succ(jobs[j]) => Succ(doc)
        /\ Fell(jobs[j]) => Fell(doc)
        /\ Spent(jobs[j]) => Spent(doc)
    BY <1>1, <1>5, <1>6, <1>7, <1>8 DEF Done, Left, Succ, Fell, Spent, Asks
  <2>2. ASSUME NEW u \in Nat, u # t0, Past(jobs[j], u)
        PROVE  Past(doc, u)
    BY <1>1, <1>5, <1>6, <1>7, <1>8, <2>2 DEF Past, Asks
  <2>3. QED
    BY <2>1, <2>2 DEF KeepsVerdicts
<1>12. QueueGoes(t0) /\ Writes(j, doc)
  <2>1. nextToken <= nextToken'
    BY <1>1, <1>2
  <2> HIDE DEF t0
  <2>2. QED
    BY <1>1, <1>4, <1>10, <1>11, <2>1, OneDocument
<1>13. KeepsSlot(jobs[j], doc) /\ KeepsGrant(jobs[j], doc)
  BY <1>1, <1>5, <1>6, <1>7, <1>8 DEF KeepsSlot, KeepsGrant, Executing, Asks
<1>14. QED
  BY <1>5, <1>12, <1>13, WritesQuietly DEF Writes

\* A suspension names a; only the suspended job comes to wait.
LEMMA Suspends ==
  ASSUME QInv, NEW j \in Jobs, NEW t \in Nat, NEW a \in Approvals,
         SuspendForApproval(j, t, a)
  PROVE  /\ QueueGoes(NoToken)
         /\ QuietSlots
         /\ jobs'[j].approval = a /\ ~jobs'[j].approved
         /\ \A k \in Jobs \ {j} : jobs'[k] = jobs[k]
<1> DEFINE doc == Suspended(jobs[j], a)
<1>1. /\ t # NoToken
      /\ jobs[j].token = t
      /\ "waiting_approval" \in Successors(jobs[j].state)
      /\ jobs' = [jobs EXCEPT ![j] = doc]
      /\ nextToken' = nextToken
  BY DEF SuspendForApproval, CanMove, HoldsLease, CanTransition
<1>2. /\ jobs[j] \in Job
      /\ nextToken \in Nat
      /\ DocOK(jobs[j])
      /\ LifeDoc(jobs[j])
      /\ jobs[j].token < nextToken
  BY Document
<1>3. QueueNext /\ nextToken <= nextToken'
  <2>1. t \in 1 .. nextToken - 1
    BY <1>1, <1>2 DEF NoToken
  <2>2. QED
    BY <1>1, <1>2, <2>1 DEF QueueNext
<1>4. jobs[j].state = "running"
  <2>1. jobs[j].state \in {"leased", "running", "cancelling"}
    BY <1>1, <1>2 DEF DocOK, LeaseStates, LifeDoc
  <2>2. QED
    BY <1>1, <2>1 DEF Successors
<1>5. /\ doc.state = "waiting_approval"
      /\ doc.approval = a
      /\ doc.approved = FALSE
  BY <1>2, SuspendedDoc
<1>6. doc.epoch = jobs[j].epoch /\ jobs[j].epoch \in Nat
  BY <1>2 DEF Suspended, Transitioned, LeaseEnding, Released, Job
<1> HIDE DEF doc
<1>7. LifeDoc(doc)
  BY <1>2, <1>4, <1>5, <1>6 DEF LifeDoc
<1>8. KeepsVerdicts(jobs[j], doc, NoToken)
  BY <1>4, <1>5, <1>6 DEF KeepsVerdicts, Done, Left, Succ, Fell, Spent, Past
<1>9. QueueGoes(NoToken) /\ Writes(j, doc)
  BY <1>1, <1>3, <1>7, <1>8, OneDocument
<1>10. KeepsSlot(jobs[j], doc)
  BY <1>5 DEF KeepsSlot, Executing
<1>11. QED
  BY <1>5, <1>9, <1>10, WritesQuietly DEF Writes

\* A resume starts a new epoch; only the resumed job becomes approved, and by the
\* approval it waited for.
LEMMA Resumes ==
  ASSUME QInv, NEW j \in Jobs, NEW a \in Approvals, ResumeFromApproval(j, a)
  PROVE  /\ QueueGoes(NoToken)
         /\ QuietSlots
         /\ jobs'[j].approval = a /\ jobs'[j].state = "queued"
         /\ \A k \in Jobs \ {j} : jobs'[k] = jobs[k]
<1> DEFINE doc == Resumed(jobs[j])
<1>1. /\ jobs[j].state = "waiting_approval"
      /\ jobs[j].approval = a
      /\ jobs' = [jobs EXCEPT ![j] = doc]
      /\ nextToken' = nextToken
  BY DEF ResumeFromApproval, AwaitsApproval
<1>2. /\ jobs[j] \in Job
      /\ nextToken \in Nat
      /\ DocOK(jobs[j])
      /\ LifeDoc(jobs[j])
  BY Document
<1>3. QueueNext /\ nextToken <= nextToken'
  BY <1>1, <1>2 DEF QueueNext
<1>4. /\ doc \in Job
      /\ doc.state = "queued"
      /\ doc.approval = jobs[j].approval
  <2>1. jobs[j].attempt - 1 \in Nat
    BY <1>1, <1>2 DEF DocOK, Job, WriterStates
  <2>2. QED
    BY <1>2, <2>1, ResumedDoc
<1>5. doc.epoch = jobs[j].epoch + 1 /\ jobs[j].epoch \in Nat
  BY <1>2 DEF Resumed, Released, Job
<1>6. doc.epoch >= 2
  BY <1>1, <1>2, <1>5 DEF LifeDoc
<1> HIDE DEF doc
<1>7. LifeDoc(doc)
  BY <1>4, <1>5, <1>6 DEF LifeDoc
<1>8. KeepsVerdicts(jobs[j], doc, NoToken)
  BY <1>1, <1>4, <1>6 DEF KeepsVerdicts, Done, Left, Succ, Fell, Spent, Past
<1>9. QueueGoes(NoToken) /\ Writes(j, doc)
  BY <1>1, <1>3, <1>7, <1>8, OneDocument
<1>10. KeepsSlot(jobs[j], doc)
  BY <1>5, <1>6 DEF KeepsSlot, Executing
<1>11. QED
  BY <1>1, <1>4, <1>9, <1>10, WritesQuietly DEF Writes

\* A cancellation settles the job or asks its worker to; a spent one is settled.
LEMMA Cancels ==
  ASSUME QInv, NEW j \in Jobs, Cancel(j)
  PROVE  /\ QueueGoes(NoToken)
         /\ QuietSlots
         /\ QuietGrants
         /\ Done(jobs'[j])
         /\ Spent(jobs[j]) => Fell(jobs'[j])
<1> DEFINE doc == Cancelled(jobs[j])
<1>1. /\ jobs[j].state \in ImmediateCancel \cup DeferredCancel
      /\ jobs' = [jobs EXCEPT ![j] = doc]
      /\ nextToken' = nextToken
  BY DEF Cancel, Cancellable
<1>2. /\ jobs[j] \in Job
      /\ nextToken \in Nat
      /\ LifeDoc(jobs[j])
  BY Document
<1>3. QueueNext /\ nextToken <= nextToken'
  BY <1>1, <1>2 DEF QueueNext
<1>4. /\ doc.state = IF jobs[j].state \in ImmediateCancel THEN "cancelled"
                                                         ELSE "cancelling"
      /\ doc.approval = jobs[j].approval
      /\ doc.approved = jobs[j].approved
      /\ doc.epoch = jobs[j].epoch + 1
  BY <1>2 DEF Cancelled, Released, Job
<1>5. jobs[j].epoch \in Nat
  BY <1>2 DEF Job
<1> HIDE DEF doc
<1>6. LifeDoc(doc)
  BY <1>4, <1>5 DEF LifeDoc
<1>7. KeepsVerdicts(jobs[j], doc, NoToken)
  BY <1>1, <1>4, <1>5 DEF KeepsVerdicts, Done, Left, Succ, Fell, Spent, Past,
                          ImmediateCancel, DeferredCancel
<1>8. QueueGoes(NoToken) /\ Writes(j, doc)
  BY <1>1, <1>3, <1>6, <1>7, OneDocument
<1>9. KeepsSlot(jobs[j], doc) /\ KeepsGrant(jobs[j], doc)
  BY <1>4 DEF KeepsSlot, KeepsGrant, Executing
<1>10. Done(doc) /\ (Spent(jobs[j]) => Fell(doc))
  BY <1>1, <1>4 DEF Done, Left, Spent, Fell, ImmediateCancel, DeferredCancel
<1>11. QED
  BY <1>8, <1>9, <1>10, WritesQuietly DEF Writes

\* The two marks on a job that succeeded.
LEMMA Marks ==
  ASSUME QInv, NEW j \in Jobs,
         MarkCompletedUndelivered(j) \/ MarkFinalDeliveryEnqueued(j)
  PROVE  QueueGoes(NoToken) /\ QuietSlots /\ QuietGrants
<1>1. PICK doc : /\ jobs' = [jobs EXCEPT ![j] = doc]
                 /\ doc.state \in {"succeeded", "completed_undelivered"}
                 /\ doc.epoch = jobs[j].epoch
                 /\ doc.approval = jobs[j].approval
                 /\ doc.approved = jobs[j].approved
  <2>1. jobs[j] \in Job
    BY Document
  <2>2. CASE MarkCompletedUndelivered(j)
    <3> DEFINE doc == [jobs[j] EXCEPT !.state = "completed_undelivered"]
    <3>1. jobs' = [jobs EXCEPT ![j] = doc]
      BY <2>2 DEF MarkCompletedUndelivered
    <3>2. /\ doc.state \in {"succeeded", "completed_undelivered"}
          /\ doc.epoch = jobs[j].epoch
          /\ doc.approval = jobs[j].approval
          /\ doc.approved = jobs[j].approved
      BY <2>1 DEF Job
    <3> HIDE DEF doc
    <3>3. QED
      BY <3>1, <3>2
  <2>3. CASE MarkFinalDeliveryEnqueued(j)
    <3> DEFINE doc == [jobs[j] EXCEPT !.final = TRUE]
    <3>1. jobs' = [jobs EXCEPT ![j] = doc] /\ jobs[j].state = "succeeded"
      BY <2>3 DEF MarkFinalDeliveryEnqueued
    <3>2. /\ doc.state \in {"succeeded", "completed_undelivered"}
          /\ doc.epoch = jobs[j].epoch
          /\ doc.approval = jobs[j].approval
          /\ doc.approved = jobs[j].approved
      BY <2>1, <3>1 DEF Job
    <3> HIDE DEF doc
    <3>3. QED
      BY <3>1, <3>2
  <2>4. QED
    BY <2>2, <2>3
<1>2. jobs[j].state \in {"succeeded", "completed_undelivered"} /\ nextToken' = nextToken
  BY DEF MarkCompletedUndelivered, MarkFinalDeliveryEnqueued
<1>3. jobs[j] \in Job /\ nextToken \in Nat /\ LifeDoc(jobs[j])
  BY Document
<1>4. QueueNext /\ nextToken <= nextToken'
  BY <1>2, <1>3 DEF QueueNext
<1>5. LifeDoc(doc)
  BY <1>1, <1>2, <1>3 DEF LifeDoc
<1>6. KeepsVerdicts(jobs[j], doc, NoToken)
  BY <1>1, <1>2 DEF KeepsVerdicts, Done, Left, Succ, Fell, Spent, Past
<1>7. QueueGoes(NoToken) /\ Writes(j, doc)
  BY <1>1, <1>4, <1>5, <1>6, OneDocument
<1>8. KeepsSlot(jobs[j], doc) /\ KeepsGrant(jobs[j], doc)
  BY <1>1 DEF KeepsSlot, KeepsGrant, Executing
<1>9. QED
  BY <1>7, <1>8, WritesQuietly

\* A retry is released to the queue or, out of attempts, settled as failed.
LEMMA Releases ==
  ASSUME QInv, NEW j \in Jobs, ReleaseRetryWait(j)
  PROVE  /\ QueueGoes(NoToken)
         /\ QuietSlots
         /\ QuietGrants
<1> DEFINE to == IF jobs[j].attempt >= MaxAttempts THEN "failed" ELSE "queued"
           doc == [jobs[j] EXCEPT !.state = to]
<1>1. /\ jobs[j].state = "retry_wait"
      /\ jobs' = [jobs EXCEPT ![j] = doc]
      /\ nextToken' = nextToken
  BY DEF ReleaseRetryWait
<1>2. jobs[j] \in Job /\ nextToken \in Nat /\ LifeDoc(jobs[j])
  BY Document
<1>3. QueueNext /\ nextToken <= nextToken'
  BY <1>1, <1>2 DEF QueueNext
<1>4. to \in {"failed", "queued"}
  OBVIOUS
<1> HIDE DEF to
<1>5. /\ doc.state = to
      /\ doc.approval = jobs[j].approval
      /\ doc.approved = jobs[j].approved
      /\ doc.epoch = jobs[j].epoch
  BY <1>2 DEF Job
<1> HIDE DEF doc
<1>6. LifeDoc(doc)
  BY <1>1, <1>2, <1>4, <1>5 DEF LifeDoc
<1>7. KeepsVerdicts(jobs[j], doc, NoToken)
  BY <1>1, <1>4, <1>5 DEF KeepsVerdicts, Done, Left, Succ, Fell, Spent, Past
<1>8. QueueGoes(NoToken) /\ Writes(j, doc)
  BY <1>1, <1>3, <1>6, <1>7, OneDocument
<1>9. KeepsSlot(jobs[j], doc) /\ KeepsGrant(jobs[j], doc)
  BY <1>1, <1>4, <1>5 DEF KeepsSlot, KeepsGrant, Executing
<1>10. QED
  BY <1>8, <1>9, WritesQuietly

\* A lease that ran out: the job is runnable again or fenced off.
LEMMA Recovers ==
  ASSUME QInv, NEW j \in Jobs, RecoverExpired(j)
  PROVE  QueueGoes(NoToken) /\ QuietSlots /\ QuietGrants
<1>1. /\ ~jobs[j].live
      /\ nextToken' = nextToken
      /\ jobs[j].state \in {"leased", "preparing", "running"}
  BY DEF RecoverExpired
<1>2. jobs[j] \in Job /\ nextToken \in Nat /\ LifeDoc(jobs[j])
  BY Document
<1>3. PICK to \in {"queued", "needs_reconciliation"} :
        /\ jobs' = [jobs EXCEPT ![j] = Released(jobs[j], to)]
        /\ to = "queued" <=> jobs[j].state = "leased"
  BY DEF RecoverExpired
<1> DEFINE doc == Released(jobs[j], to)
<1>4. /\ doc.state = to
      /\ doc.approval = jobs[j].approval
      /\ doc.approved = jobs[j].approved
      /\ doc.epoch = jobs[j].epoch
  BY <1>2 DEF Released, Job
<1>5. jobs' = [jobs EXCEPT ![j] = doc]
  BY <1>3
<1> HIDE DEF doc
<1>6. LifeDoc(doc)
  BY <1>1, <1>2, <1>3, <1>4 DEF LifeDoc
<1>7. KeepsVerdicts(jobs[j], doc, NoToken)
  BY <1>1, <1>2, <1>3, <1>4
     DEF LifeDoc, KeepsVerdicts, Done, Left, Succ, Fell, Spent, Past
<1>8. QueueNext /\ nextToken <= nextToken'
  BY <1>1, <1>2 DEF QueueNext
<1>9. QueueGoes(NoToken) /\ Writes(j, doc)
  BY <1>5, <1>6, <1>7, <1>8, OneDocument
<1>10. KeepsSlot(jobs[j], doc) /\ KeepsGrant(jobs[j], doc)
  BY <1>3, <1>4 DEF KeepsSlot, KeepsGrant, Executing
<1>11. QED
  BY <1>9, <1>10, WritesQuietly

\* Time: a lease runs out, a job reaches its expiry.
LEMMA TimePasses ==
  ASSUME QInv, NEW j \in Jobs, LeaseExpires(j) \/ JobExpires(j)
  PROVE  QueueGoes(NoToken) /\ QuietSlots /\ QuietGrants
<1>1. jobs[j] \in Job /\ nextToken \in Nat /\ LifeDoc(jobs[j])
  BY Document
<1>2. PICK doc : /\ jobs' = [jobs EXCEPT ![j] = doc]
                 /\ doc.state = jobs[j].state
                 /\ doc.token = jobs[j].token
                 /\ doc.live => jobs[j].live
                 /\ doc.attempt = jobs[j].attempt
                 /\ doc.epoch = jobs[j].epoch
                 /\ doc.approval = jobs[j].approval
                 /\ doc.approved = jobs[j].approved
  <2>1. CASE LeaseExpires(j)
    <3> DEFINE doc == [jobs[j] EXCEPT !.live = FALSE]
    <3>1. jobs' = [jobs EXCEPT ![j] = doc]
      BY <2>1 DEF LeaseExpires
    <3>2. /\ doc.state = jobs[j].state
          /\ doc.token = jobs[j].token
          /\ doc.live = FALSE
          /\ doc.attempt = jobs[j].attempt
          /\ doc.epoch = jobs[j].epoch
          /\ doc.approval = jobs[j].approval
          /\ doc.approved = jobs[j].approved
      BY <1>1 DEF Job
    <3> HIDE DEF doc
    <3>3. QED
      BY <3>1, <3>2
  <2>2. CASE JobExpires(j)
    <3> DEFINE doc == [jobs[j] EXCEPT !.expired = TRUE]
    <3>1. jobs' = [jobs EXCEPT ![j] = doc]
      BY <2>2 DEF JobExpires
    <3>2. /\ doc.state = jobs[j].state
          /\ doc.token = jobs[j].token
          /\ doc.live = jobs[j].live
          /\ doc.attempt = jobs[j].attempt
          /\ doc.epoch = jobs[j].epoch
          /\ doc.approval = jobs[j].approval
          /\ doc.approved = jobs[j].approved
      BY <1>1 DEF Job
    <3> HIDE DEF doc
    <3>3. QED
      BY <3>1, <3>2
  <2>3. QED
    BY <2>1, <2>2
<1>3. nextToken' = nextToken
  BY DEF LeaseExpires, JobExpires
<1>4. QueueNext /\ nextToken <= nextToken'
  BY <1>1, <1>3 DEF QueueNext
<1>5. LifeDoc(doc)
  BY <1>1, <1>2 DEF LifeDoc
<1>6. KeepsVerdicts(jobs[j], doc, NoToken)
  BY <1>2 DEF KeepsVerdicts, Done, Left, Succ, Fell, Spent, Past
<1>7. QueueGoes(NoToken) /\ Writes(j, doc)
  BY <1>2, <1>4, <1>5, <1>6, OneDocument
<1>8. KeepsSlot(jobs[j], doc) /\ KeepsGrant(jobs[j], doc)
  BY <1>2 DEF KeepsSlot, KeepsGrant, Executing
<1>9. QED
  BY <1>7, <1>8, WritesQuietly

\* The TTL index: a deleted job is past everything.
LEMMA Deletes ==
  ASSUME QInv, NEW j \in Jobs, TTLDelete(j)
  PROVE  QueueGoes(NoToken) /\ QuietSlots /\ QuietGrants
<1> DEFINE doc == [NoJob EXCEPT !.state = "deleted"]
<1>1. jobs' = [jobs EXCEPT ![j] = doc] /\ nextToken' = nextToken
  BY DEF TTLDelete
<1>2. doc.state = "deleted" /\ doc.approved = FALSE
  BY DEF NoJob
<1>3. nextToken \in Nat
  BY Document
<1> HIDE DEF doc
<1>4. QueueNext /\ nextToken <= nextToken'
  BY <1>1, <1>3 DEF QueueNext
<1>5. LifeDoc(doc)
  BY <1>2 DEF LifeDoc
<1>6. KeepsVerdicts(jobs[j], doc, NoToken)
  BY <1>2 DEF KeepsVerdicts, Done, Left, Succ, Fell, Spent, Past
<1>7. QueueGoes(NoToken) /\ Writes(j, doc)
  BY <1>1, <1>4, <1>5, <1>6, OneDocument
<1>8. KeepsSlot(jobs[j], doc) /\ KeepsGrant(jobs[j], doc)
  BY <1>2 DEF KeepsSlot, KeepsGrant, Executing
<1>9. QED
  BY <1>7, <1>8, WritesQuietly

(***************************************************************************)
(* Todo lists.                                                             *)
(***************************************************************************)
\* The next entry of a list and what remains after it.
LEMMA Lists ==
  /\ \A a : /\ Head(<<a>>) = a
            /\ Tail(<<a>>) = <<>>
            /\ Len(<<a>>) = 1
            /\ <<a>> # <<>>
  /\ \A a, b : /\ Head(<<a, b>>) = a
               /\ Tail(<<a, b>>) = <<b>>
               /\ Len(<<a, b>>) = 2
               /\ <<a, b>> # <<>>
  /\ \A a, b, c : /\ Head(<<a, b, c>>) = a
                  /\ Tail(<<a, b, c>>) = <<b, c>>
                  /\ Len(<<a, b, c>>) = 3
                  /\ <<a, b, c>> # <<>>
  /\ \A a, b, c, d : /\ Head(<<a, b, c, d>>) = a
                     /\ Tail(<<a, b, c, d>>) = <<b, c, d>>
                     /\ Len(<<a, b, c, d>>) = 4
                     /\ <<a, b, c, d>> # <<>>
  OBVIOUS

\* An entry is added to a list of one.
LEMMA Append2 ==
  ASSUME NEW S, NEW a \in S, NEW b \in S
  PROVE  Append(<<a>>, b) = <<a, b>>
<1> DEFINE u == Append(<<a>>, b)
           v == <<a, b>>
<1>1. <<a>> \in Seq(S) /\ v \in Seq(S)
  OBVIOUS
<1>2. u \in Seq(S) /\ Len(u) = 2 /\ u[1] = a /\ u[2] = b
  BY <1>1, AppendProperties
<1>3. Len(v) = 2 /\ v[1] = a /\ v[2] = b
  OBVIOUS
<1> HIDE DEF u, v
<1>4. ASSUME NEW i \in 1 .. 2
      PROVE  u[i] = v[i]
  <2>1. i = 1 \/ i = 2
    OBVIOUS
  <2>2. QED
    BY <1>2, <1>3, <2>1
<1>5. u = v
  BY <1>1, <1>2, <1>3, <1>4, SeqEqual
<1>6. QED
  BY <1>5 DEF u, v

\* One entry before two.
LEMMA Concat12 ==
  ASSUME NEW S, NEW a \in S, NEW b \in S, NEW c \in S
  PROVE  <<a>> \o <<b, c>> = <<a, b, c>>
<1> DEFINE u == <<a>> \o <<b, c>>
           v == <<a, b, c>>
<1>1. <<a>> \in Seq(S) /\ <<b, c>> \in Seq(S) /\ v \in Seq(S)
  OBVIOUS
<1>2. u \in Seq(S) /\ Len(u) = 3 /\ u[1] = a /\ u[2] = b /\ u[3] = c
  BY <1>1, ConcatProperties
<1>3. Len(v) = 3 /\ v[1] = a /\ v[2] = b /\ v[3] = c
  OBVIOUS
<1> HIDE DEF u, v
<1>4. ASSUME NEW i \in 1 .. 3
      PROVE  u[i] = v[i]
  <2>1. i = 1 \/ i = 2 \/ i = 3
    OBVIOUS
  <2>2. QED
    BY <1>2, <1>3, <2>1
<1>5. u = v
  BY <1>1, <1>2, <1>3, <1>4, SeqEqual
<1>6. QED
  BY <1>5 DEF u, v

\* Two entries before one.
LEMMA Concat21 ==
  ASSUME NEW S, NEW a \in S, NEW b \in S, NEW c \in S
  PROVE  <<a, b>> \o <<c>> = <<a, b, c>>
<1> DEFINE u == <<a, b>> \o <<c>>
           v == <<a, b, c>>
<1>1. <<a, b>> \in Seq(S) /\ <<c>> \in Seq(S) /\ v \in Seq(S)
  OBVIOUS
<1>2. u \in Seq(S) /\ Len(u) = 3 /\ u[1] = a /\ u[2] = b /\ u[3] = c
  BY <1>1, ConcatProperties
<1>3. Len(v) = 3 /\ v[1] = a /\ v[2] = b /\ v[3] = c
  OBVIOUS
<1> HIDE DEF u, v
<1>4. ASSUME NEW i \in 1 .. 3
      PROVE  u[i] = v[i]
  <2>1. i = 1 \/ i = 2 \/ i = 3
    OBVIOUS
  <2>2. QED
    BY <1>2, <1>3, <2>1
<1>5. u = v
  BY <1>1, <1>2, <1>3, <1>4, SeqEqual
<1>6. QED
  BY <1>5 DEF u, v

\* One entry before three.
LEMMA Concat13 ==
  ASSUME NEW S, NEW a \in S, NEW b \in S, NEW c \in S, NEW d \in S
  PROVE  <<a>> \o <<b, c, d>> = <<a, b, c, d>>
<1> DEFINE u == <<a>> \o <<b, c, d>>
           v == <<a, b, c, d>>
<1>1. <<a>> \in Seq(S) /\ <<b, c, d>> \in Seq(S) /\ v \in Seq(S)
  OBVIOUS
<1>2. u \in Seq(S) /\ Len(u) = 4 /\ u[1] = a /\ u[2] = b /\ u[3] = c /\ u[4] = d
  BY <1>1, ConcatProperties
<1>3. Len(v) = 4 /\ v[1] = a /\ v[2] = b /\ v[3] = c /\ v[4] = d
  OBVIOUS
<1> HIDE DEF u, v
<1>4. ASSUME NEW i \in 1 .. 4
      PROVE  u[i] = v[i]
  <2>1. i = 1 \/ i = 2 \/ i = 3 \/ i = 4
    OBVIOUS
  <2>2. QED
    BY <1>2, <1>3, <2>1
<1>5. u = v
  BY <1>1, <1>2, <1>3, <1>4, SeqEqual
<1>6. QED
  BY <1>5 DEF u, v

\* The lists that are put together.
LEMMA Joins ==
  /\ <<"approve">> \o <<"resume", "resolved">> = <<"approve", "resume", "resolved">>
  /\ <<>> \o <<"resume", "resolved">> = <<"resume", "resolved">>
  /\ <<"deny">> \o <<"cancel", "slot", "resolved">> = <<"deny", "cancel", "slot", "resolved">>
  /\ <<>> \o <<"cancel", "slot", "resolved">> = <<"cancel", "slot", "resolved">>
  /\ <<"cancel", "slot">> \o <<>> = <<"cancel", "slot">>
  /\ <<"cancel", "slot">> \o <<"failure">> = <<"cancel", "slot", "failure">>
  /\ <<"cancel", "slot">> \o <<"expire">> = <<"cancel", "slot", "expire">>
  /\ Append(<<>>, "slot") = <<"slot">>
  /\ Append(<<"failure">>, "slot") = <<"failure", "slot">>
<1> DEFINE S == {"approve", "resume", "resolved", "deny", "cancel", "slot", "failure",
                 "expire"}
<1>1. Append(<<"failure">>, "slot") = <<"failure", "slot">>
  BY Append2, "failure" \in S, "slot" \in S
<1>2. <<"approve">> \o <<"resume", "resolved">> = <<"approve", "resume", "resolved">>
  BY Concat12, "approve" \in S, "resume" \in S, "resolved" \in S
<1>3. <<"deny">> \o <<"cancel", "slot", "resolved">> = <<"deny", "cancel", "slot", "resolved">>
  BY Concat13, "deny" \in S, "cancel" \in S, "slot" \in S, "resolved" \in S
<1>4. <<"cancel", "slot">> \o <<"failure">> = <<"cancel", "slot", "failure">>
  BY Concat21, "cancel" \in S, "slot" \in S, "failure" \in S
<1>5. <<"cancel", "slot">> \o <<"expire">> = <<"cancel", "slot", "expire">>
  BY Concat21, "cancel" \in S, "slot" \in S, "expire" \in S
<1>6. /\ <<>> \o <<"resume", "resolved">> = <<"resume", "resolved">>
      /\ <<>> \o <<"cancel", "slot", "resolved">> = <<"cancel", "slot", "resolved">>
      /\ <<"cancel", "slot">> \o <<>> = <<"cancel", "slot">>
      /\ Append(<<>>, "slot") = <<"slot">>
  OBVIOUS
<1>7. QED
  BY <1>1, <1>2, <1>3, <1>4, <1>5, <1>6

(***************************************************************************)
(* What stands while somebody else takes a step.                           *)
(***************************************************************************)
\* Approvals are never withdrawn: one that exists keeps its job, and one that
\* was given stays given.
GrantsGrow(ap, aq) ==
  \A a \in Approvals : /\ Asked(ap[a]) => Asked(aq[a]) /\ aq[a].job = ap[a].job
                       /\ Given(ap[a]) => Given(aq[a])

\* The reservations stand.
LEMMA SlotsStand ==
  ASSUME SlotInv, QuietSlots, slot' = slot
  PROVE  SlotInv'
<1>1. \A j \in Interactive : Executing(jobs'[j]) => slot'[j] = "held"
  BY InteractiveAssumption DEF SlotInv, QuietSlots, KeepsSlot
<1>2. QED
  BY <1>1 DEF SlotInv, Executing

\* The deliveries stand.
LEMMA DeliveriesStand ==
  ASSUME DeliveriesInv, NEW t0, QueueGoes(t0), dl' = dl
  PROVE  DeliveriesInv'
<1>1. \A j \in Jobs : /\ dl'[j]["final"] # "none" => Succ(jobs'[j])
                      /\ dl'[j]["failure"] # "none" => Fell(jobs'[j])
  BY DEF DeliveriesInv, QueueGoes, KeepsVerdicts
<1>2. QED
  BY <1>1 DEF DeliveriesInv, Succ, Fell

\* The approvals stand.
LEMMA GrantsStand ==
  ASSUME GrantInv, QuietGrants, appr' = appr
  PROVE  GrantInv'
<1>1. \A j \in Jobs : jobs'[j].state = "waiting_approval" =>
        Asked(appr'[jobs'[j].approval]) /\ appr'[jobs'[j].approval].job = j
  BY DEF GrantInv, QuietGrants, KeepsGrant
<1>2. \A j \in Jobs : jobs'[j].approved =>
        Given(appr'[jobs'[j].approval]) /\ appr'[jobs'[j].approval].job = j
  BY DEF GrantInv, QuietGrants, KeepsGrant
<1>3. \A a \in Approvals : Asked(appr'[a]) => appr'[a].job \in Jobs
  BY DEF GrantInv
<1>4. QED
  BY <1>1, <1>2, <1>3 DEF GrantInv, Asked, Given

\* Approvals that are not written are not withdrawn.
LEMMA SameGrants ==
  ASSUME appr' = appr
  PROVE  GrantsGrow(appr, appr')
  BY DEF GrantsGrow

\* A worker with nothing to do.
LEMMA Idle ==
  ASSUME NEW d, NEW n
  PROVE  /\ WorkerOK(IdleWorker, d, n)
         /\ IdleWorker.pc = "idle"
         /\ IdleWorker.token = NoToken
         /\ IdleWorker.job = None
         /\ IdleWorker.todo = <<>>
<1>1. IdleWorker \in WorkerRec
  BY DEF IdleWorker, WorkerRec, WorkerPc, Outcomes, WorkTodos, NoToken
<1>2. /\ IdleWorker.pc = "idle"
      /\ IdleWorker.token = NoToken
      /\ IdleWorker.job = None
      /\ IdleWorker.todo = <<>>
  BY DEF IdleWorker
<1>3. QED
  BY <1>1, <1>2 DEF WorkerOK, StartedPc, Outcomes, WorkOK

\* What a worker relies on is not undone.
LEMMA WorkerKept ==
  ASSUME NEW x, NEW d, NEW e, NEW n \in Nat, NEW m \in Nat, NEW t0,
         WorkerOK(x, d, n), KeepsVerdicts(d, e, t0), x.token # t0, n <= m
  PROVE  WorkerOK(x, e, m)
<1>1. x \in WorkerRec /\ x.token \in Nat
  BY DEF WorkerOK, WorkerRec
<1>2. WorkOK(x.todo, e)
  BY DEF WorkerOK, WorkOK, KeepsVerdicts
<1>3. x.pc \in StartedPc => Past(e, x.token)
  BY <1>1 DEF WorkerOK, KeepsVerdicts
<1>4. x.pc = "settle" => Done(e)
  BY DEF WorkerOK, KeepsVerdicts
<1>5. x.pc # "idle" => x.job \in Jobs /\ x.token # NoToken /\ x.token < m
  BY <1>1 DEF WorkerOK
<1>6. QED
  BY <1>1, <1>2, <1>3, <1>4, <1>5 DEF WorkerOK

\* The same of worker w, whatever the queue does with tokens other than its own.
LEMMA WorkerStands ==
  ASSUME QInv, WorkersInv, NEW w \in Workers, NEW t0, QueueGoes(t0),
         t0 = NoToken \/ wk[w].token # t0
  PROVE  WorkerOK(wk[w], jobs'[wk[w].job], nextToken')
<1>1. WorkerOK(wk[w], jobs[wk[w].job], nextToken)
  BY DEF WorkersInv
<1>2. CASE wk[w].pc = "idle"
  BY <1>1, <1>2, Idle DEF WorkerOK
<1>3. CASE wk[w].pc # "idle"
  <2>1. wk[w].job \in Jobs /\ wk[w].token # NoToken
    BY <1>1, <1>3 DEF WorkerOK
  <2>2. KeepsVerdicts(jobs[wk[w].job], jobs'[wk[w].job], t0)
    BY <2>1 DEF QueueGoes
  <2>3. nextToken \in Nat /\ nextToken' \in Nat /\ nextToken <= nextToken'
    BY DEF QueueGoes, QInv, QueueInv, QueueTypeOK
  <2>4. wk[w].token # t0
    BY <2>1
  <2>5. QED
    BY <1>1, <2>2, <2>3, <2>4, WorkerKept
<1>4. QED
  BY <1>2, <1>3

\* The workers stand.
LEMMA WorkersStand ==
  ASSUME QInv, WorkersInv, QueueGoes(NoToken), wk' = wk
  PROVE  WorkersInv'
<1>1. \A w \in Workers : WorkerOK(wk[w], jobs'[wk[w].job], nextToken')
  BY WorkerStands
<1>2. \A w \in Workers : WorkerOK(wk'[w], jobs'[wk'[w].job], nextToken')
  BY <1>1
<1>3. /\ wk' \in [Workers -> WorkerRec]
      /\ \A v, w \in Workers : v # w /\ wk'[v].pc # "idle" =>
                                  wk'[v].token # wk'[w].token
  BY DEF WorkersInv
<1>4. QED
  BY <1>2, <1>3 DEF WorkersInv

\* Worker w becomes x: it keeps its token, gets the one just issued or has none.
LEMMA WorkerMoves ==
  ASSUME QInv, WorkersInv, NEW w \in Workers, NEW x, NEW t0, QueueGoes(t0),
         t0 \in {NoToken, wk[w].token},
         wk' = [wk EXCEPT ![w] = x],
         WorkerOK(x, jobs'[x.job], nextToken'),
         \/ x.pc = "idle"
         \/ wk[w].pc # "idle" /\ x.token = wk[w].token
         \/ x.token = nextToken
  PROVE  WorkersInv'
<1>1. /\ wk \in [Workers -> WorkerRec]
      /\ \A v \in Workers : WorkerOK(wk[v], jobs[wk[v].job], nextToken)
      /\ \A u, v \in Workers : u # v /\ wk[u].pc # "idle" => wk[u].token # wk[v].token
  BY DEF WorkersInv
<1>2. \A v \in Workers : wk'[v] = IF v = w THEN x ELSE wk[v]
  BY <1>1
<1>3. nextToken \in Nat \ {0}
  BY DEF QInv, QueueInv, QueueTypeOK
<1>4. \A v \in Workers : wk[v].token \in Nat /\ wk[v].token < nextToken
  <2>1. ASSUME NEW v \in Workers, wk[v].pc = "idle"
        PROVE  wk[v].token \in Nat /\ wk[v].token < nextToken
    BY <1>1, <1>3, <2>1, Idle DEF WorkerOK, NoToken
  <2>2. ASSUME NEW v \in Workers, wk[v].pc # "idle"
        PROVE  wk[v].token \in Nat /\ wk[v].token < nextToken
    BY <1>1, <2>2 DEF WorkerOK, WorkerRec
  <2>3. QED
    BY <2>1, <2>2
<1>5. x \in WorkerRec
  BY DEF WorkerOK
<1>6. ASSUME NEW v \in Workers
      PROVE  WorkerOK(wk'[v], jobs'[wk'[v].job], nextToken')
  <2>1. CASE v = w
    BY <1>2, <2>1
  <2>2. CASE v # w
    <3>1. t0 = NoToken \/ wk[v].token # t0
      <4>1. CASE wk[w].pc # "idle"
        BY <1>1, <2>2, <4>1
      <4>2. CASE wk[w].pc = "idle"
        BY <1>1, <4>2, Idle DEF WorkerOK
      <4>3. QED
        BY <4>1, <4>2
    <3>2. WorkerOK(wk[v], jobs'[wk[v].job], nextToken')
      BY <3>1, WorkerStands
    <3>3. QED
      BY <1>2, <2>2, <3>2
  <2>3. QED
    BY <2>1, <2>2
<1>7. x.pc = "idle" => x.token = NoToken
  BY Idle DEF WorkerOK
<1>8. ASSUME NEW u \in Workers, NEW v \in Workers, u # v, wk'[u].pc # "idle"
      PROVE  wk'[u].token # wk'[v].token
  <2>1. CASE u # w /\ v # w
    BY <1>1, <1>2, <1>8, <2>1
  <2>2. CASE u = w
    <3>1. x.token = nextToken => x.token # wk[v].token
      BY <1>4
    <3>2. wk[w].pc # "idle" /\ x.token = wk[w].token => x.token # wk[v].token
      BY <1>1, <1>8, <2>2
    <3>3. QED
      BY <1>2, <1>8, <2>2, <3>1, <3>2
  <2>3. CASE v = w
    <3>1. wk[u].pc # "idle" /\ wk[u].token # NoToken
      BY <1>1, <1>2, <1>8, <2>3 DEF WorkerOK
    <3>2. x.token = nextToken => wk[u].token # x.token
      BY <1>4
    <3>3. x.token = wk[w].token => wk[u].token # x.token
      BY <1>1, <1>8, <2>3, <3>1
    <3>4. QED
      BY <1>2, <1>7, <1>8, <2>3, <3>1, <3>2, <3>3
  <2>4. QED
    BY <2>1, <2>2, <2>3
<1>9. wk' \in [Workers -> WorkerRec]
  BY <1>1, <1>5
<1>10. QED
  BY <1>6, <1>8, <1>9 DEF WorkersInv

\* A tool call keeps its approval.
LEMMA BridgeKept ==
  ASSUME NEW b, NEW ap, NEW aq, BridgeOK(b, ap), GrantsGrow(ap, aq)
  PROVE  BridgeOK(b, aq)
  BY DEF BridgeOK, GrantsGrow

\* A bridge that is not serving a call.
LEMMA IdleCall ==
  ASSUME NEW ap
  PROVE  BridgeOK(IdleBridge, ap)
  BY DEF BridgeOK, BridgeRec, BridgePc, IdleBridge, NoToken

\* The bridges stand.
LEMMA BridgesStand ==
  ASSUME BridgesInv, GrantsGrow(appr, appr'), bridge' = bridge
  PROVE  BridgesInv'
<1>1. \A w \in Workers : BridgeOK(bridge[w], appr')
  BY BridgeKept DEF BridgesInv
<1>2. QED
  BY <1>1 DEF BridgesInv, BridgeOK, Asked

\* The bridge of worker w becomes b.
LEMMA BridgeMoves ==
  ASSUME BridgesInv, GrantsGrow(appr, appr'), NEW w \in Workers, NEW b,
         bridge' = [bridge EXCEPT ![w] = b], BridgeOK(b, appr')
  PROVE  BridgesInv'
<1>1. bridge \in [Workers -> BridgeRec]
  BY DEF BridgesInv
<1>2. \A v \in Workers : bridge'[v] = IF v = w THEN b ELSE bridge[v]
  BY <1>1
<1>3. \A v \in Workers : BridgeOK(bridge[v], appr')
  BY BridgeKept DEF BridgesInv
<1>4. \A v \in Workers : BridgeOK(bridge'[v], appr')
  BY <1>2, <1>3
<1>5. bridge' \in [Workers -> BridgeRec]
  BY <1>1 DEF BridgeOK
<1>6. QED
  BY <1>4, <1>5 DEF BridgesInv, BridgeOK, Asked

\* What the coordinator relies on is not undone.
LEMMA DecisionKept ==
  ASSUME GrantInv, NEW x, DecisionOK(x, appr, jobs), NEW t0, QueueGoes(t0),
         GrantsGrow(appr, appr')
  PROVE  DecisionOK(x, appr', jobs')
<1>1. CASE x.todo = <<>>
  BY <1>1 DEF DecisionOK
<1>2. CASE x.todo # <<>>
  <2>1. /\ x \in [appr : Approvals \cup {NoApproval}, todo : DecideTodos]
        /\ x.appr \in Approvals
        /\ Asked(appr[x.appr])
        /\ DecideOK(x.todo, jobs[appr[x.appr].job], appr[x.appr])
    BY <1>2 DEF DecisionOK
  <2>2. /\ Asked(appr'[x.appr])
        /\ appr'[x.appr].job = appr[x.appr].job
        /\ Given(appr[x.appr]) => Given(appr'[x.appr])
    BY <2>1 DEF GrantsGrow
  <2>3. appr[x.appr].job \in Jobs
    BY <2>1 DEF GrantInv
  <2>4. Done(jobs[appr[x.appr].job]) => Done(jobs'[appr'[x.appr].job])
    BY <2>2, <2>3 DEF QueueGoes, KeepsVerdicts
  <2>5. DecideOK(x.todo, jobs'[appr'[x.appr].job], appr'[x.appr])
    BY <2>1, <2>2, <2>4 DEF DecideOK
  <2>6. QED
    BY <2>1, <2>2, <2>5 DEF DecisionOK
<1>3. QED
  BY <1>1, <1>2

\* The coordinator stands.
LEMMA CoordinatorStands ==
  ASSUME GrantInv, CoordinatorInv, NEW t0, QueueGoes(t0), GrantsGrow(appr, appr'),
         dec' = dec
  PROVE  CoordinatorInv'
<1>1. DecisionOK(dec, appr', jobs')
  BY DecisionKept DEF CoordinatorInv
<1>2. DecisionOK(dec', appr', jobs')
  BY <1>1
<1>3. QED
  BY <1>2 DEF CoordinatorInv

\* What the reconciler remembers and plans is not undone.
LEMMA SeenKept ==
  ASSUME NEW s, NEW d, NEW e, NEW t0, SeenOK(s, d), KeepsVerdicts(d, e, t0)
  PROVE  SeenOK(s, e)
  BY DEF SeenOK, KeepsVerdicts

\* The same of its todo list.
LEMMA PlanKept ==
  ASSUME NEW todo, NEW a, NEW d, NEW e, NEW t0, PlanOK(todo, a, d, appr),
         KeepsVerdicts(d, e, t0), GrantsGrow(appr, appr')
  PROVE  PlanOK(todo, a, e, appr')
<1>1. a \in Approvals /\ Given(appr[a]) => Given(appr'[a])
  BY DEF GrantsGrow
<1>2. QED
  BY <1>1 DEF PlanOK, KeepsVerdicts

\* The reconciler stands.
LEMMA ReconcilerStands ==
  ASSUME ReconcilerInv, NEW t0, QueueGoes(t0), GrantsGrow(appr, appr'), rec' = rec
  PROVE  ReconcilerInv'
<1>1. \A k \in Jobs : KeepsVerdicts(jobs[k], jobs'[k], t0)
  BY DEF QueueGoes
<1>2. \A j \in Jobs : SeenOK(rec.list[j], jobs'[j])
  BY <1>1, SeenKept DEF ReconcilerInv
<1>3. rec.todo # <<>> =>
        rec.job \in Jobs /\ PlanOK(rec.todo, rec.seen.approval, jobs'[rec.job], appr')
  BY <1>1, PlanKept DEF ReconcilerInv
<1>4. rec \in ReconcilerRec
  BY DEF ReconcilerInv
<1>5. /\ rec' \in ReconcilerRec
      /\ \A j \in Jobs : SeenOK(rec'.list[j], jobs'[j])
      /\ rec'.todo # <<>> =>
           /\ rec'.job \in Jobs
           /\ PlanOK(rec'.todo, rec'.seen.approval, jobs'[rec'.job], appr')
  BY <1>2, <1>3, <1>4
<1>6. QED
  BY <1>5 DEF ReconcilerInv

\* The delivery worker and the count of crashes stand.
LEMMA LoopsStand ==
  ASSUME LoopsInv, undelivered' = undelivered, crashes' = crashes
  PROVE  LoopsInv'
  BY DEF LoopsInv

(***************************************************************************)
(* The workers.                                                            *)
(***************************************************************************)
\* A step of worker w that writes nothing but the queue and makes the worker x.
LEMMA WorkerActs ==
  ASSUME IInv, NEW w \in Workers, NEW x, NEW t0, QueueGoes(t0), QuietSlots, QuietGrants,
         t0 \in {NoToken, wk[w].token},
         wk' = [wk EXCEPT ![w] = x],
         WorkerOK(x, jobs'[x.job], nextToken'),
         \/ x.pc = "idle"
         \/ wk[w].pc # "idle" /\ x.token = wk[w].token
         \/ x.token = nextToken,
         UNCHANGED onlyWorker
  PROVE  IInv' /\ [QueueNext]_queueVars
<1>1. /\ slot' = slot /\ appr' = appr /\ dl' = dl /\ bridge' = bridge
      /\ dec' = dec /\ rec' = rec /\ undelivered' = undelivered /\ crashes' = crashes
  BY DEF onlyWorker
<1>2. GrantsGrow(appr, appr')
  BY <1>1, SameGrants
<1>3. QInv' /\ [QueueNext]_queueVars
  BY DEF QueueGoes
<1>4. SlotInv' /\ DeliveriesInv' /\ GrantInv'
  BY <1>1, SlotsStand, DeliveriesStand, GrantsStand DEF IInv
<1>5. WorkersInv'
  BY WorkerMoves DEF IInv
<1>6. BridgesInv' /\ CoordinatorInv' /\ ReconcilerInv' /\ LoopsInv'
  BY <1>1, <1>2, BridgesStand, CoordinatorStands, ReconcilerStands, LoopsStand DEF IInv
<1>7. QED
  BY <1>3, <1>4, <1>5, <1>6 DEF IInv

\* The worker returns to its loop.
LEMMA WorkerReturns ==
  ASSUME IInv, NEW w \in Workers, NEW t0, QueueGoes(t0), QuietSlots, QuietGrants,
         t0 \in {NoToken, wk[w].token}, Return(w), UNCHANGED onlyWorker
  PROVE  IInv' /\ [QueueNext]_queueVars
<1>1. wk' = [wk EXCEPT ![w] = IdleWorker]
  BY DEF Return
<1>2. WorkerOK(IdleWorker, jobs'[IdleWorker.job], nextToken') /\ IdleWorker.pc = "idle"
  BY Idle
<1>3. QED
  BY <1>1, <1>2, WorkerActs

\* The worker goes on with its job and its token.
LEMMA WorkerGoesOn ==
  ASSUME IInv, NEW w \in Workers, NEW x \in WorkerRec, QueueGoes(NoToken),
         QuietSlots, QuietGrants, wk' = [wk EXCEPT ![w] = x], wk[w].pc # "idle",
         x.job = wk[w].job, x.token = wk[w].token, x.pc # "idle",
         x.pc = "finish" <=> x.todo # <<>>,
         x.pc \in StartedPc => Past(jobs'[x.job], x.token),
         x.pc = "settle" => Done(jobs'[x.job]),
         WorkOK(x.todo, jobs'[x.job]),
         UNCHANGED onlyWorker
  PROVE  IInv' /\ [QueueNext]_queueVars
<1>1. WorkerOK(wk[w], jobs'[wk[w].job], nextToken')
  BY WorkerStands DEF IInv
<1>2. x.job \in Jobs /\ x.token # NoToken /\ x.token < nextToken'
  BY <1>1 DEF WorkerOK
<1>3. WorkerOK(x, jobs'[x.job], nextToken')
  BY <1>2 DEF WorkerOK
<1>4. QED
  BY <1>3, WorkerActs

\* What is known of a worker that is at work.
LEMMA AtWork ==
  ASSUME IInv, NEW w \in Workers, wk[w].pc # "idle"
  PROVE  /\ wk \in [Workers -> WorkerRec]
         /\ wk[w] \in WorkerRec
         /\ wk[w].job \in Jobs
         /\ wk[w].token \in Nat
         /\ wk[w].token # NoToken
         /\ wk[w].pc \in StartedPc => Past(jobs[wk[w].job], wk[w].token)
         /\ wk[w].pc = "settle" => Done(jobs[wk[w].job])
         /\ wk[w].pc # "finish" => wk[w].todo = <<>>
         /\ WorkOK(wk[w].todo, jobs[wk[w].job])
         /\ QInv
  BY DEF IInv, WorkersInv, WorkerOK, WorkerRec

\* The worker as it is when it settles its course.
LEMMA Afterwards ==
  ASSUME NEW w \in Workers, wk[w] \in WorkerRec
  PROVE  /\ After(w) \in WorkerRec
         /\ After(w).job = wk[w].job
         /\ After(w).token = wk[w].token
         /\ After(w).todo = <<>>
<1>1. IdleWorker \in WorkerRec /\ IdleWorker.todo = <<>>
  BY Idle DEF WorkerOK
<1>2. wk[w].job \in Jobs \cup {None} /\ wk[w].token \in Nat
  BY DEF WorkerRec
<1>3. QED
  BY <1>1, <1>2 DEF After, WorkerRec

\* The worker finishes with a todo list that rests on what its job became.
LEMMA WorkerFinishes ==
  ASSUME IInv, NEW w \in Workers, QueueGoes(NoToken), QuietSlots, QuietGrants,
         wk[w].pc # "idle", NEW todo \in WorkTodos, todo # <<>>,
         WorkOK(todo, jobs'[wk[w].job]), Finish(w, todo), UNCHANGED onlyWorker
  PROVE  IInv' /\ [QueueNext]_queueVars
<1> DEFINE x == [After(w) EXCEPT !.pc = "finish", !.todo = todo]
<1>1. wk' = [wk EXCEPT ![w] = x]
  BY DEF Finish
<1>2. /\ x \in WorkerRec /\ x.pc = "finish" /\ x.job = wk[w].job
      /\ x.token = wk[w].token /\ x.todo = todo
  <2>1. "finish" \in WorkerPc
    BY DEF WorkerPc
  <2>2. QED
    BY <2>1, AtWork, Afterwards DEF WorkerRec
<1> HIDE DEF x
<1>3. x.pc \notin StartedPc
  BY <1>2 DEF StartedPc, Outcomes
<1>4. QED
  BY <1>1, <1>2, <1>3, WorkerGoesOn

\* The worker settles on a course, or goes to its next step.
LEMMA WorkerSettles ==
  ASSUME IInv, NEW w \in Workers, QueueGoes(NoToken), QuietSlots, QuietGrants,
         wk[w].pc \notin {"idle", "finish"},
         NEW pc \in WorkerPc \ {"idle", "finish"},
         pc \in StartedPc => wk[w].pc \in StartedPc \/ Past(jobs'[wk[w].job], wk[w].token),
         pc = "settle" => Done(jobs'[wk[w].job]),
         GoTo(w, pc) \/ Settle(w, pc),
         UNCHANGED onlyWorker
  PROVE  IInv' /\ [QueueNext]_queueVars
<1>1. /\ wk \in [Workers -> WorkerRec]
      /\ wk[w] \in WorkerRec
      /\ wk[w].todo = <<>>
  BY AtWork
<1>2. PICK x \in WorkerRec : /\ wk' = [wk EXCEPT ![w] = x]
                             /\ x.pc = pc /\ x.job = wk[w].job
                             /\ x.token = wk[w].token /\ x.todo = <<>>
  <2>1. CASE GoTo(w, pc)
    <3> DEFINE x == [wk[w] EXCEPT !.pc = pc]
    <3>1. wk' = [wk EXCEPT ![w] = x]
      BY <2>1 DEF GoTo
    <3>2. /\ x \in WorkerRec /\ x.pc = pc /\ x.job = wk[w].job
          /\ x.token = wk[w].token /\ x.todo = <<>>
      BY <1>1 DEF WorkerRec
    <3> HIDE DEF x
    <3>3. QED
      BY <3>1, <3>2
  <2>2. CASE Settle(w, pc)
    <3> DEFINE x == [After(w) EXCEPT !.pc = pc]
    <3>1. wk' = [wk EXCEPT ![w] = x]
      BY <2>2 DEF Settle
    <3>2. /\ x \in WorkerRec /\ x.pc = pc /\ x.job = wk[w].job
          /\ x.token = wk[w].token /\ x.todo = <<>>
      BY <1>1, Afterwards DEF WorkerRec
    <3> HIDE DEF x
    <3>3. QED
      BY <3>1, <3>2
  <2>3. QED
    BY <2>1, <2>2
<1>3. wk[w].pc \in StartedPc => Past(jobs'[wk[w].job], wk[w].token)
  BY WorkerStands DEF IInv, WorkerOK
<1>4. WorkOK(x.todo, jobs'[x.job])
  BY <1>2 DEF WorkOK
<1>5. QED
  BY <1>2, <1>3, <1>4, WorkerGoesOn

\* A transition whose error is ignored.
LEMMA Tries ==
  ASSUME QInv, NEW j \in Jobs, NEW t \in Nat, NEW to \in Asks, TryTransition(j, t, to)
  PROVE  /\ QueueGoes(IF to = "retry_wait" THEN t ELSE NoToken)
         /\ QuietSlots
         /\ QuietGrants
         /\ CanMove(j, t, to) => jobs'[j].state = to
         /\ ~CanMove(j, t, to) => jobs' = jobs
<1>1. CASE CanMove(j, t, to)
  <2>1. Transition(j, t, to)
    BY <1>1 DEF TryTransition
  <2>2. QED
    BY <1>1, <2>1, Transitions
<1>2. CASE ~CanMove(j, t, to)
  <2>1. UNCHANGED queueVars
    BY <1>2 DEF TryTransition
  <2>2. QED
    BY <1>2, <2>1, QueueRests DEF queueVars
<1>3. QED
  BY <1>1, <1>2

\* A worker that cannot fail the job it started has lost it.
LEMMA Stopped ==
  ASSUME NEW j \in Jobs, NEW t, t # NoToken, Past(jobs[j], t), ~CanMove(j, t, "failed"),
         jobs[j].state \in State, LifeDoc(jobs[j])
  PROVE  Done(jobs[j])
<1>1. CASE jobs[j].epoch >= 2
  BY <1>1 DEF Done
<1>2. CASE ~(jobs[j].epoch >= 2) /\ jobs[j].state = "running"
  <2>1. jobs[j].token = t /\ CanTransition("running", "failed")
    BY <1>2 DEF Past, CanTransition, Successors
  <2>2. ~jobs[j].live
    BY <1>2, <2>1 DEF CanMove, HoldsLease
  <2>3. QED
    BY <1>2, <2>2 DEF Done
<1>3. CASE ~(jobs[j].epoch >= 2) /\ jobs[j].state # "running"
  BY <1>3 DEF Past, Done, Left, State, LifeDoc
<1>4. QED
  BY <1>1, <1>2, <1>3

\* ClaimJob: the new token is one no other worker has.
LEMMA ClaimJobStep ==
  ASSUME IInv, NEW w \in Workers, ClaimJob(w)
  PROVE  IInv' /\ [QueueNext]_queueVars
<1> DEFINE x(j) == [IdleWorker EXCEPT !.pc = "claimed", !.job = j, !.token = nextToken]
<1>1. PICK j \in Jobs : Claim(j) /\ wk' = [wk EXCEPT ![w] = x(j)]
  BY DEF ClaimJob
<1>2. QInv
  BY DEF IInv
<1>3. /\ QueueGoes(NoToken) /\ QuietSlots /\ QuietGrants
      /\ nextToken \in Nat \ {0} /\ nextToken' = nextToken + 1
  BY <1>1, <1>2, Claims
<1>4. /\ x(j) \in WorkerRec /\ x(j).pc = "claimed" /\ x(j).job = j
      /\ x(j).token = nextToken /\ x(j).todo = <<>>
  <2>1. IdleWorker \in WorkerRec /\ IdleWorker.todo = <<>> /\ "claimed" \in WorkerPc
    BY Idle DEF WorkerOK, WorkerPc
  <2>2. nextToken \in Nat /\ j \in Jobs \cup {None}
    BY <1>3
  <2>3. QED
    BY <2>1, <2>2 DEF WorkerRec
<1> DEFINE y == x(j)
<1>5. /\ y \in WorkerRec /\ y.pc = "claimed" /\ y.job = j
      /\ y.token = nextToken /\ y.todo = <<>>
      /\ wk' = [wk EXCEPT ![w] = y]
  BY <1>1, <1>4
<1> HIDE DEF y
<1>6. WorkerOK(y, jobs'[y.job], nextToken')
  BY <1>3, <1>5 DEF WorkerOK, StartedPc, Outcomes, NoToken, WorkOK
<1>7. UNCHANGED onlyWorker
  BY DEF ClaimJob
<1>8. QED
  BY <1>3, <1>5, <1>6, <1>7, WorkerActs

\* StartJob: from here on the attempt is past its start.
LEMMA StartJobStep ==
  ASSUME IInv, NEW w \in Workers, StartJob(w)
  PROVE  IInv' /\ [QueueNext]_queueVars
<1> DEFINE j == wk[w].job
           t == wk[w].token
           grant == IF jobs[j].approved THEN jobs[j].approval ELSE NoApproval
           x == [wk[w] EXCEPT !.pc = "gate", !.epoch = jobs[j].epoch, !.grant = grant]
<1>1. wk[w].pc = "claimed" /\ UNCHANGED onlyWorker
  BY DEF StartJob
<1>2. /\ wk \in [Workers -> WorkerRec] /\ wk[w] \in WorkerRec /\ j \in Jobs /\ t \in Nat
      /\ t # NoToken /\ wk[w].todo = <<>> /\ QInv
  BY <1>1, AtWork
<1>3. CASE /\ Transition(j, t, "running")
           /\ wk' = [wk EXCEPT ![w].pc = "gate", ![w].epoch = jobs[j].epoch,
                               ![w].grant = grant]
  <2>1. "running" \in Asks
    BY DEF Asks
  <2>2. /\ QueueGoes(NoToken) /\ QuietSlots /\ QuietGrants
        /\ jobs'[j].state = "running" /\ jobs'[j].token = t
    BY <1>2, <1>3, <2>1, Transitions
  <2>3. wk' = [wk EXCEPT ![w] = x]
    BY <1>2, <1>3 DEF WorkerRec
  <2>4. jobs[j].epoch \in Nat /\ grant \in Approvals \cup {NoApproval}
    BY <1>2, Document DEF Job
  <2>5. "gate" \in WorkerPc
    BY DEF WorkerPc
  <2> HIDE DEF grant
  <2>6. /\ x \in WorkerRec /\ x.pc = "gate" /\ x.job = j /\ x.token = t /\ x.todo = <<>>
    BY <1>2, <2>4, <2>5 DEF WorkerRec
  <2> HIDE DEF x
  <2>7. Past(jobs'[j], t) /\ WorkOK(x.todo, jobs'[x.job])
    BY <2>2, <2>6 DEF Past, WorkOK
  <2>8. QED
    BY <1>1, <2>2, <2>3, <2>6, <2>7, WorkerGoesOn
<1>4. CASE Return(w) /\ UNCHANGED queueVars
  BY <1>1, <1>2, <1>4, QueueRests, WorkerReturns
<1>5. QED
  BY <1>3, <1>4 DEF StartJob

\* DenyJob: a job that cannot be failed any more has been left anyway.
LEMMA DenyJobStep ==
  ASSUME IInv, NEW w \in Workers, DenyJob(w)
  PROVE  IInv' /\ [QueueNext]_queueVars
<1> DEFINE j == wk[w].job
           t == wk[w].token
<1>1. /\ wk[w].pc \in {"gate", "routed"} /\ UNCHANGED onlyWorker
      /\ TryTransition(j, t, "failed") /\ Finish(w, <<"slot">>)
  BY DEF DenyJob
<1>2. /\ j \in Jobs /\ t \in Nat /\ t # NoToken /\ QInv /\ Past(jobs[j], t)
  BY <1>1, AtWork DEF StartedPc
<1>3. "failed" \in Asks /\ <<"slot">> \in WorkTodos /\ <<"slot">> # <<>>
  BY Lists DEF Asks, WorkTodos
<1>4. /\ QueueGoes(NoToken) /\ QuietSlots /\ QuietGrants
      /\ CanMove(j, t, "failed") => jobs'[j].state = "failed"
      /\ ~CanMove(j, t, "failed") => jobs' = jobs
  BY <1>1, <1>2, <1>3, Tries
<1>5. Done(jobs'[j])
  <2>1. CASE CanMove(j, t, "failed")
    BY <1>4, <2>1 DEF Done, Left
  <2>2. CASE ~CanMove(j, t, "failed")
    <3>1. jobs[j].state \in State /\ LifeDoc(jobs[j])
      BY <1>2, Document DEF Job
    <3>2. Done(jobs[j])
      BY <1>2, <2>2, <3>1, Stopped
    <3>3. QED
      BY <1>4, <2>2, <3>2
  <2>3. QED
    BY <2>1, <2>2
<1>6. WorkOK(<<"slot">>, jobs'[j])
  BY <1>5 DEF WorkOK
<1>7. QED
  BY <1>1, <1>3, <1>4, <1>6, WorkerFinishes

\* RouteJob: the attempt stays past its start.
LEMMA RouteJobStep ==
  ASSUME IInv, NEW w \in Workers, RouteJob(w)
  PROVE  IInv' /\ [QueueNext]_queueVars
<1> DEFINE j == wk[w].job
           t == wk[w].token
<1>1. wk[w].pc = "gate" /\ UNCHANGED onlyWorker
  BY DEF RouteJob
<1>2. j \in Jobs /\ t \in Nat /\ QInv
  BY <1>1, AtWork
<1>3. "failed" \in Asks /\ "running" \in Asks
  BY DEF Asks
<1>4. CASE TryTransition(j, t, "failed") /\ Return(w)
  <2>1. QueueGoes(NoToken) /\ QuietSlots /\ QuietGrants
    BY <1>2, <1>3, <1>4, Tries
  <2>2. QED
    BY <1>1, <1>4, <2>1, WorkerReturns
<1>5. CASE Transition(j, t, "running") /\ GoTo(w, "routed")
  <2>1. QueueGoes(NoToken) /\ QuietSlots /\ QuietGrants
    BY <1>2, <1>3, <1>5, Transitions
  <2>2. /\ "routed" \in WorkerPc \ {"idle", "finish"}
        /\ wk[w].pc \in StartedPc
        /\ wk[w].pc \notin {"idle", "finish"}
        /\ "routed" # "settle"
    BY <1>1 DEF WorkerPc, StartedPc
  <2>3. QED
    BY <1>1, <1>5, <2>1, <2>2, WorkerSettles
<1>6. CASE Return(w) /\ UNCHANGED queueVars
  BY <1>1, <1>2, <1>6, QueueRests, WorkerReturns
<1>7. QED
  BY <1>4, <1>5, <1>6 DEF RouteJob

\* The harness ends, or is refused, with an outcome.
LEMMA OutcomeStep ==
  ASSUME IInv, NEW w \in Workers, wk[w].pc \in {"gate", "routed", "harness"},
         NEW outcome \in Outcomes,
         wk' = [wk EXCEPT ![w].pc = "ended", ![w].outcome = outcome],
         UNCHANGED <<queueVars, onlyWorker>>
  PROVE  IInv' /\ [QueueNext]_queueVars
<1> DEFINE x == [wk[w] EXCEPT !.pc = "ended", !.outcome = outcome]
<1>1. /\ wk \in [Workers -> WorkerRec] /\ wk[w] \in WorkerRec /\ wk[w].job \in Jobs
      /\ wk[w].todo = <<>> /\ QInv /\ Past(jobs[wk[w].job], wk[w].token)
  BY AtWork DEF StartedPc
<1>2. wk' = [wk EXCEPT ![w] = x]
  BY <1>1 DEF WorkerRec
<1>3. "ended" \in WorkerPc
  BY DEF WorkerPc
<1>4. /\ x \in WorkerRec /\ x.pc = "ended" /\ x.job = wk[w].job
      /\ x.token = wk[w].token /\ x.todo = <<>>
  BY <1>1, <1>3 DEF WorkerRec
<1> HIDE DEF x
<1>5. UNCHANGED queueVars /\ UNCHANGED onlyWorker
  OBVIOUS
<1>6. jobs' = jobs
  BY <1>5 DEF queueVars
<1>7. QueueGoes(NoToken) /\ QuietSlots /\ QuietGrants
  BY <1>1, <1>5, QueueRests
<1>8. Past(jobs'[x.job], x.token) /\ WorkOK(x.todo, jobs'[x.job])
  BY <1>1, <1>4, <1>6 DEF WorkOK
<1>9. wk[w].pc # "idle" /\ x.pc # "settle" /\ x.pc # "idle" /\ x.pc # "finish"
  BY <1>4
<1>10. QED
  BY <1>2, <1>4, <1>5, <1>7, <1>8, <1>9, WorkerGoesOn

\* StartHarness and HarnessEnds.
LEMMA HarnessStep ==
  ASSUME IInv, NEW w \in Workers,
         StartHarness(w) \/ \E outcome \in Outcomes : HarnessEnds(w, outcome)
  PROVE  IInv' /\ [QueueNext]_queueVars
<1>1. CASE \E outcome \in Outcomes : HarnessEnds(w, outcome)
  BY <1>1, OutcomeStep DEF HarnessEnds
<1>2. CASE StartHarness(w)
  <2>1. wk[w].pc \in {"gate", "routed"} /\ UNCHANGED <<queueVars, onlyWorker>>
    BY <1>2 DEF StartHarness
  <2>2. CASE wk' = [wk EXCEPT ![w].pc = "ended", ![w].outcome = "retry"]
    <3>1. "retry" \in Outcomes
      BY DEF Outcomes
    <3>2. QED
      BY <2>1, <2>2, <3>1, OutcomeStep
  <2>3. CASE GoTo(w, "harness")
    <3>1. QInv /\ UNCHANGED queueVars /\ UNCHANGED onlyWorker
      BY <2>1 DEF IInv
    <3>2. QueueGoes(NoToken) /\ QuietSlots /\ QuietGrants
      BY <3>1, QueueRests
    <3>3. /\ "harness" \in WorkerPc \ {"idle", "finish"}
          /\ wk[w].pc \in StartedPc
          /\ wk[w].pc \notin {"idle", "finish"}
          /\ "harness" # "settle"
      BY <2>1 DEF WorkerPc, StartedPc
    <3>4. QED
      BY <2>3, <3>1, <3>2, <3>3, WorkerSettles
  <2>4. QED
    BY <1>2, <2>2, <2>3 DEF StartHarness
<1>3. QED
  BY <1>1, <1>2

\* A worker that leaves the queue alone and gives back the slot of a job that is done.
LEMMA GivesBack ==
  ASSUME IInv, NEW w \in Workers, wk[w].pc # "idle", Done(jobs[wk[w].job]),
         Finish(w, <<"slot">>), UNCHANGED queueVars, UNCHANGED onlyWorker
  PROVE  IInv' /\ [QueueNext]_queueVars
<1>1. QueueGoes(NoToken) /\ QuietSlots /\ QuietGrants
  BY QueueRests DEF IInv
<1>2. <<"slot">> \in WorkTodos /\ <<"slot">> # <<>>
  BY Lists DEF WorkTodos
<1>3. jobs' = jobs
  BY DEF queueVars
<1>4. WorkOK(<<"slot">>, jobs'[wk[w].job])
  BY <1>3 DEF WorkOK
<1>5. QED
  BY <1>1, <1>2, <1>4, WorkerFinishes

\* A worker that leaves the queue alone and goes to its next step.
LEMMA GoesOn ==
  ASSUME IInv, NEW w \in Workers, wk[w].pc \in StartedPc,
         NEW pc \in StartedPc \cup {"settle"}, pc = "settle" => Done(jobs[wk[w].job]),
         GoTo(w, pc) \/ Settle(w, pc), UNCHANGED queueVars, UNCHANGED onlyWorker
  PROVE  IInv' /\ [QueueNext]_queueVars
<1>1. QueueGoes(NoToken) /\ QuietSlots /\ QuietGrants
  BY QueueRests DEF IInv
<1>2. jobs' = jobs
  BY DEF queueVars
<1>3. pc \in WorkerPc \ {"idle", "finish"} /\ wk[w].pc \notin {"idle", "finish"}
  BY DEF WorkerPc, StartedPc, Outcomes
<1>4. QED
  BY <1>1, <1>2, <1>3, WorkerSettles

\* AfterHarness: a suspended job has been left.
LEMMA AfterHarnessStep ==
  ASSUME IInv, NEW w \in Workers, AfterHarness(w)
  PROVE  IInv' /\ [QueueNext]_queueVars
<1>1. wk[w].pc = "ended" /\ UNCHANGED queueVars /\ UNCHANGED onlyWorker
  BY DEF AfterHarness
<1>2. wk[w].pc \in StartedPc /\ wk[w].pc # "idle"
  BY <1>1 DEF StartedPc
<1>3. CASE jobs[wk[w].job].state = "waiting_approval"
  <2>1. Done(jobs[wk[w].job]) /\ Finish(w, <<"slot">>)
    BY <1>3 DEF AfterHarness, Done, Left
  <2>2. QED
    BY <1>1, <1>2, <2>1, GivesBack
<1>4. CASE jobs[wk[w].job].state # "waiting_approval"
  <2>1. Settle(w, wk[w].outcome)
    BY <1>4 DEF AfterHarness
  <2>2. wk[w].outcome \in StartedPc \cup {"settle"} /\ wk[w].outcome # "settle"
    BY <1>2, AtWork DEF WorkerRec, StartedPc, Outcomes
  <2>3. QED
    BY <1>1, <1>2, <2>1, <2>2, GoesOn
<1>5. QED
  BY <1>3, <1>4

\* RevokedLook: a job that was started and does not run has been left.
LEMMA RevokedLookStep ==
  ASSUME IInv, NEW w \in Workers, RevokedLook(w)
  PROVE  IInv' /\ [QueueNext]_queueVars
<1> DEFINE j == wk[w].job
<1>1. wk[w].pc = "revoked" /\ UNCHANGED queueVars /\ UNCHANGED onlyWorker
  BY DEF RevokedLook
<1>2. wk[w].pc \in StartedPc /\ wk[w].pc # "idle"
  BY <1>1 DEF StartedPc, Outcomes
<1>3. j \in Jobs /\ Past(jobs[j], wk[w].token) /\ QInv
  BY <1>2, AtWork
<1>4. CASE GoTo(w, "cancel")
  <2>1. "cancel" \in StartedPc
    BY DEF StartedPc
  <2>2. QED
    BY <1>1, <1>2, <1>4, <2>1, GoesOn
<1>5. CASE jobs[j].state = "cancelling" /\ GoTo(w, "settle")
  <2>1. Done(jobs[j])
    BY <1>5 DEF Done, Left
  <2>2. QED
    BY <1>1, <1>2, <1>5, <2>1, GoesOn
<1>6. CASE jobs[j].state # "running" /\ Finish(w, <<"slot">>)
  <2>1. jobs[j].state \in State /\ LifeDoc(jobs[j])
    BY <1>3, Document DEF Job
  <2>2. Done(jobs[j])
    BY <1>3, <1>6, <2>1 DEF Past, Done, Left, State, LifeDoc
  <2>3. QED
    BY <1>1, <1>2, <1>6, <2>2, GivesBack
<1>7. QED
  BY <1>4, <1>5, <1>6 DEF RevokedLook

\* RevokedCancel: whoever holds the lease by now, the job is being cancelled or
\* has been left.
LEMMA RevokedCancelStep ==
  ASSUME IInv, NEW w \in Workers, RevokedCancel(w)
  PROVE  IInv' /\ [QueueNext]_queueVars
<1> DEFINE j == wk[w].job
<1>1. wk[w].pc = "cancel" /\ UNCHANGED onlyWorker
  BY DEF RevokedCancel
<1>2. wk[w].pc \in StartedPc /\ wk[w].pc \notin {"idle", "finish"}
  BY <1>1 DEF StartedPc
<1>3. j \in Jobs /\ Past(jobs[j], wk[w].token) /\ QInv
  BY <1>2, AtWork
<1>4. CASE Cancel(j) /\ (GoTo(w, "settle") \/ Finish(w, <<"slot">>))
  <2>1. QueueGoes(NoToken) /\ QuietSlots /\ QuietGrants /\ Done(jobs'[j])
    BY <1>3, <1>4, Cancels
  <2>2. CASE GoTo(w, "settle")
    <3>1. "settle" \in WorkerPc \ {"idle", "finish"} /\ "settle" \notin StartedPc
      BY DEF WorkerPc, StartedPc, Outcomes
    <3>2. QED
      BY <1>1, <1>2, <2>1, <2>2, <3>1, WorkerSettles
  <2>3. CASE Finish(w, <<"slot">>)
    <3>1. <<"slot">> \in WorkTodos /\ <<"slot">> # <<>>
      BY Lists DEF WorkTodos
    <3>2. WorkOK(<<"slot">>, jobs'[wk[w].job])
      BY <2>1 DEF WorkOK
    <3>3. QED
      BY <1>1, <1>2, <2>1, <2>3, <3>1, <3>2, WorkerFinishes
  <2>4. QED
    BY <1>4, <2>2, <2>3
<1>5. CASE ~Cancellable(j) /\ Finish(w, <<"slot">>) /\ UNCHANGED queueVars
  <2>1. jobs[j].state \in State /\ LifeDoc(jobs[j])
    BY <1>3, Document DEF Job
  <2>2. Done(jobs[j])
    BY <1>3, <1>5, <2>1 DEF Past, Done, Left, State, LifeDoc, Cancellable,
                            ImmediateCancel, DeferredCancel
  <2>3. QED
    BY <1>1, <1>2, <1>5, <2>2, GivesBack
<1>6. QED
  BY <1>4, <1>5 DEF RevokedCancel

\* RevokedSettle: the job was done before and stays so.
LEMMA RevokedSettleStep ==
  ASSUME IInv, NEW w \in Workers, RevokedSettle(w)
  PROVE  IInv' /\ [QueueNext]_queueVars
<1> DEFINE j == wk[w].job
           t == wk[w].token
<1>1. /\ wk[w].pc = "settle" /\ UNCHANGED onlyWorker
      /\ TryTransition(j, t, "cancelled") /\ Finish(w, <<"slot">>)
  BY DEF RevokedSettle
<1>2. j \in Jobs /\ t \in Nat /\ QInv /\ Done(jobs[j])
  BY <1>1, AtWork
<1>3. "cancelled" \in Asks /\ <<"slot">> \in WorkTodos /\ <<"slot">> # <<>>
  BY Lists DEF Asks, WorkTodos
<1>4. QueueGoes(NoToken) /\ QuietSlots /\ QuietGrants
  BY <1>1, <1>2, <1>3, Tries
<1>5. Done(jobs'[j])
  BY <1>2, <1>4 DEF QueueGoes, KeepsVerdicts
<1>6. WorkOK(<<"slot">>, jobs'[j])
  BY <1>5 DEF WorkOK
<1>7. QED
  BY <1>1, <1>3, <1>4, <1>6, WorkerFinishes

\* FailJob: the notice follows only a transition that took place.
LEMMA FailJobStep ==
  ASSUME IInv, NEW w \in Workers, FailJob(w)
  PROVE  IInv' /\ [QueueNext]_queueVars
<1> DEFINE j == wk[w].job
           t == wk[w].token
           todo == Append(Notice(j), "slot")
<1>1. wk[w].pc = "fatal" /\ UNCHANGED onlyWorker
  BY DEF FailJob
<1>2. wk[w].pc \in StartedPc /\ wk[w].pc # "idle"
  BY <1>1 DEF StartedPc, Outcomes
<1>3. j \in Jobs /\ t \in Nat /\ t # NoToken /\ QInv /\ Past(jobs[j], t)
  BY <1>2, AtWork
<1>4. "failed" \in Asks
  BY DEF Asks
<1>5. CASE Transition(j, t, "failed") /\ Finish(w, todo)
  <2>1. /\ QueueGoes(NoToken) /\ QuietSlots /\ QuietGrants
        /\ jobs'[j].state = "failed"
    BY <1>3, <1>4, <1>5, Transitions
  <2>2. todo = <<"failure", "slot">> \/ todo = <<"slot">>
    BY Joins DEF Notice
  <2> HIDE DEF todo
  <2>3. todo \in WorkTodos /\ todo # <<>>
    BY <2>2, Lists DEF WorkTodos
  <2>4. WorkOK(todo, jobs'[j])
    BY <2>1, <2>2 DEF WorkOK, Done, Left, Fell
  <2>5. QED
    BY <1>1, <1>2, <1>5, <2>1, <2>3, <2>4, WorkerFinishes
<1>6. CASE ~CanMove(j, t, "failed") /\ Finish(w, <<"slot">>) /\ UNCHANGED queueVars
  <2>1. jobs[j].state \in State /\ LifeDoc(jobs[j])
    BY <1>3, Document DEF Job
  <2>2. Done(jobs[j])
    BY <1>3, <1>6, <2>1, Stopped
  <2>3. QED
    BY <1>1, <1>2, <1>6, <2>2, GivesBack
<1>7. QED
  BY <1>5, <1>6 DEF FailJob

\* RequeueJob: only the attempt that asks for it is taken back, and it is over.
LEMMA RequeueJobStep ==
  ASSUME IInv, NEW w \in Workers, RequeueJob(w)
  PROVE  IInv' /\ [QueueNext]_queueVars
<1> DEFINE j == wk[w].job
           t == wk[w].token
<1>1. /\ wk[w].pc = "retry" /\ UNCHANGED onlyWorker
      /\ TryTransition(j, t, "retry_wait") /\ Return(w)
  BY DEF RequeueJob
<1>2. j \in Jobs /\ t \in Nat /\ QInv
  BY <1>1, AtWork
<1>3. "retry_wait" \in Asks
  BY DEF Asks
<1>4. QueueGoes(t) /\ QuietSlots /\ QuietGrants
  BY <1>1, <1>2, <1>3, Tries
<1>5. QED
  BY <1>1, <1>4, WorkerReturns

\* SucceedJob: the final answer follows only a transition that took place.
LEMMA SucceedJobStep ==
  ASSUME IInv, NEW w \in Workers, SucceedJob(w)
  PROVE  IInv' /\ [QueueNext]_queueVars
<1> DEFINE j == wk[w].job
           t == wk[w].token
<1>1. wk[w].pc = "ok" /\ UNCHANGED onlyWorker
  BY DEF SucceedJob
<1>2. j \in Jobs /\ t \in Nat /\ QInv
  BY <1>1, AtWork
<1>3. "succeeded" \in Asks
  BY DEF Asks
<1>4. CASE Transition(j, t, "succeeded") /\ Finish(w, <<"slot", "final", "mark">>)
  <2>1. /\ QueueGoes(NoToken) /\ QuietSlots /\ QuietGrants
        /\ jobs'[j].state = "succeeded"
    BY <1>2, <1>3, <1>4, Transitions
  <2>2. /\ <<"slot", "final", "mark">> \in WorkTodos
        /\ <<"slot", "final", "mark">> # <<>>
    BY Lists DEF WorkTodos
  <2>3. WorkOK(<<"slot", "final", "mark">>, jobs'[j])
    BY <2>1 DEF WorkOK, Succ
  <2>4. QED
    BY <1>1, <1>4, <2>1, <2>2, <2>3, WorkerFinishes
<1>5. CASE Return(w) /\ UNCHANGED queueVars
  BY <1>1, <1>2, <1>5, QueueRests, WorkerReturns
<1>6. QED
  BY <1>4, <1>5 DEF SucceedJob

\* A job that is done or succeeded or fell does not execute.
LEMMA NotExecuting ==
  ASSUME NEW d
  PROVE  Done(d) => ~(Executing(d) /\ d.epoch \in Nat)
  BY DEF Done, Executing, Left

\* One entry of a todo list, given the fact it rests on.
LEMMA EffectStep ==
  ASSUME QInv, SlotInv, DeliveriesInv, GrantInv, NEW j \in Jobs, NEW e, Effect(e, j),
         e = "slot" => Done(jobs[j]),
         e = "final" => Succ(jobs[j]),
         e = "failure" => Fell(jobs[j]),
         appr' = appr
  PROVE  QueueGoes(NoToken) /\ SlotInv' /\ DeliveriesInv' /\ GrantInv'
<1>1. CASE e = "slot" /\ CompleteSlot(j) /\ UNCHANGED <<queueVars, dl>>
  <2>1. QueueGoes(NoToken) /\ QuietSlots /\ QuietGrants
    BY <1>1, QueueRests
  <2>2. DeliveriesInv' /\ GrantInv'
    BY <1>1, <2>1, DeliveriesStand, GrantsStand
  <2>3. jobs' = jobs
    BY <1>1 DEF queueVars
  <2>4. slot \in [Jobs -> {"none", "held", "released"}]
    BY DEF SlotInv
  <2>5. ~Executing(jobs[j])
    BY <1>1, NotExecuting, Document DEF Job
  <2>6. slot' \in [Jobs -> {"none", "held", "released"}]
    BY <1>1, <2>4 DEF CompleteSlot
  <2>7. \A k \in Jobs \ {j} : slot'[k] = slot[k]
    BY <1>1, <2>4 DEF CompleteSlot
  <2>8. \A k \in Interactive : Executing(jobs[k]) => slot'[k] = "held"
    BY <2>5, <2>7, InteractiveAssumption DEF SlotInv
  <2>9. SlotInv'
    BY <2>3, <2>6, <2>8 DEF SlotInv, Executing
  <2>10. QED
    BY <2>1, <2>2, <2>9
<1>2. CASE e \in Purposes /\ EnqueueDelivery(j, e) /\ UNCHANGED <<queueVars, slot>>
  <2>1. QueueGoes(NoToken) /\ QuietSlots /\ QuietGrants
    BY <1>2, QueueRests
  <2>2. SlotInv' /\ GrantInv'
    BY <1>2, <2>1, SlotsStand, GrantsStand
  <2>3. jobs' = jobs
    BY <1>2 DEF queueVars
  <2>4. dl \in [Jobs -> [Purposes -> DeliveryStatus]]
    BY DEF DeliveriesInv
  <2>5. \A k \in Jobs, p \in Purposes :
          dl'[k][p] = IF k = j /\ p = e /\ dl[k][p] = "none" THEN "pending" ELSE dl[k][p]
    BY <1>2, <2>4 DEF EnqueueDelivery
  <2>6. dl' \in [Jobs -> [Purposes -> DeliveryStatus]]
    <3>1. "pending" \in DeliveryStatus
      BY DEF DeliveryStatus
    <3>2. QED
      BY <1>2, <2>4, <3>1 DEF EnqueueDelivery
  <2>7. ASSUME NEW k \in Jobs
        PROVE  /\ dl'[k]["final"] # "none" => Succ(jobs[k])
               /\ dl'[k]["failure"] # "none" => Fell(jobs[k])
    <3>1. "final" \in Purposes /\ "failure" \in Purposes
      BY DEF Purposes
    <3>2. /\ dl[k]["final"] # "none" => Succ(jobs[k])
          /\ dl[k]["failure"] # "none" => Fell(jobs[k])
      BY DEF DeliveriesInv
    <3>3. QED
      BY <2>5, <3>1, <3>2
  <2>8. DeliveriesInv'
    BY <2>3, <2>6, <2>7 DEF DeliveriesInv, Succ, Fell
  <2>9. QED
    BY <2>1, <2>2, <2>8
<1>3. CASE e = "mark" /\ TryMark(j) /\ UNCHANGED <<slot, dl>>
  <2>1. QueueGoes(NoToken) /\ QuietSlots /\ QuietGrants
    BY <1>3, Marks, QueueRests DEF TryMark
  <2>2. QED
    BY <1>3, <2>1, SlotsStand, DeliveriesStand, GrantsStand
<1>4. QED
  BY <1>1, <1>2, <1>3 DEF Effect

\* FinishJob: each entry of the list rests on what stays true of the job.
LEMMA FinishJobStep ==
  ASSUME IInv, NEW w \in Workers, FinishJob(w)
  PROVE  IInv' /\ [QueueNext]_queueVars
<1> DEFINE j == wk[w].job
           todo == wk[w].todo
           x == [wk[w] EXCEPT !.todo = Tail(wk[w].todo)]
<1>1. /\ wk[w].pc = "finish"
      /\ Effect(Head(todo), j)
      /\ appr' = appr /\ bridge' = bridge /\ dec' = dec /\ rec' = rec
      /\ undelivered' = undelivered /\ crashes' = crashes
  BY DEF FinishJob
<1>2. /\ wk \in [Workers -> WorkerRec] /\ wk[w] \in WorkerRec /\ j \in Jobs
      /\ WorkOK(todo, jobs[j]) /\ QInv
  BY <1>1, AtWork
<1>3. todo # <<>>
  BY <1>1 DEF IInv, WorkersInv, WorkerOK
<1>4. /\ Head(todo) = "slot" => Done(jobs[j])
      /\ Head(todo) = "final" => Succ(jobs[j])
      /\ Head(todo) = "failure" => Fell(jobs[j])
  BY <1>2, <1>3, Lists DEF WorkOK, Succ, Done, Left
<1>5. QueueGoes(NoToken) /\ SlotInv' /\ DeliveriesInv' /\ GrantInv'
  BY <1>1, <1>2, <1>4, EffectStep DEF IInv
<1>6. WorkersInv'
  <2>1. CASE Len(todo) = 1
    <3>1. wk' = [wk EXCEPT ![w] = IdleWorker]
      BY <2>1 DEF FinishJob, Return
    <3>2. WorkerOK(IdleWorker, jobs'[IdleWorker.job], nextToken') /\ IdleWorker.pc = "idle"
      BY Idle
    <3>3. QED
      BY <1>5, <3>1, <3>2, WorkerMoves DEF IInv
  <2>2. CASE Len(todo) # 1
    <3>1. wk' = [wk EXCEPT ![w] = x]
      BY <1>2, <2>2 DEF FinishJob, WorkerRec
    <3>2. Tail(todo) \in WorkTodos /\ Tail(todo) # <<>> /\ WorkOK(Tail(todo), jobs[j])
      <4>1. CASE todo = <<"failure", "slot">> /\ Fell(jobs[j])
        <5>1. Tail(todo) = <<"slot">> /\ Done(jobs[j])
          BY <4>1, Lists DEF Fell, Done, Left
        <5>2. QED
          BY <5>1, Lists DEF WorkOK, WorkTodos
      <4>2. CASE todo = <<"slot", "final", "mark">> /\ Succ(jobs[j])
        <5>1. Tail(todo) = <<"final", "mark">>
          BY <4>2, Lists
        <5>2. QED
          BY <4>2, <5>1, Lists DEF WorkOK, WorkTodos
      <4>3. CASE todo = <<"final", "mark">>
        <5>1. Tail(todo) = <<"mark">>
          BY <4>3, Lists
        <5>2. QED
          BY <5>1, Lists DEF WorkOK, WorkTodos
      <4>4. QED
        BY <1>2, <1>3, <2>2, <4>1, <4>2, <4>3, Lists DEF WorkOK
    <3>3. /\ x \in WorkerRec /\ x.pc = "finish" /\ x.job = j
          /\ x.token = wk[w].token /\ x.todo = Tail(todo)
      BY <1>1, <1>2, <3>2 DEF WorkerRec
    <3> HIDE DEF x
    <3>4. WorkOK(x.todo, jobs'[j])
      BY <1>2, <1>5, <3>2, <3>3 DEF QueueGoes, KeepsVerdicts, WorkOK
    <3>5. WorkerOK(wk[w], jobs'[j], nextToken')
      BY <1>5, WorkerStands DEF IInv
    <3>6. WorkerOK(x, jobs'[x.job], nextToken')
      BY <1>1, <3>2, <3>3, <3>4, <3>5 DEF WorkerOK, StartedPc, Outcomes
    <3>7. QED
      BY <1>1, <1>5, <3>1, <3>3, <3>6, WorkerMoves DEF IInv
  <2>3. QED
    BY <2>1, <2>2
<1>7. GrantsGrow(appr, appr')
  BY <1>1, SameGrants
<1>8. BridgesInv' /\ CoordinatorInv' /\ ReconcilerInv' /\ LoopsInv'
  BY <1>1, <1>5, <1>7, BridgesStand, CoordinatorStands, ReconcilerStands, LoopsStand
     DEF IInv
<1>9. QED
  BY <1>5, <1>6, <1>8 DEF IInv, QueueGoes

\* Every step of a worker.
LEMMA WorkerSteps ==
  ASSUME IInv, NEW w \in Workers, WorkerStep(w)
  PROVE  IInv' /\ [QueueNext]_queueVars
  BY ClaimJobStep, StartJobStep, DenyJobStep, RouteJobStep, HarnessStep,
     AfterHarnessStep, RevokedLookStep, RevokedCancelStep, RevokedSettleStep,
     FailJobStep, RequeueJobStep, SucceedJobStep, FinishJobStep DEF WorkerStep

(***************************************************************************)
(* The tool bridge.                                                        *)
(***************************************************************************)
\* The approvals after approval a became ap, which withdraws nothing.
LEMMA ApprovalGrows ==
  ASSUME QInv, GrantInv, QuietGrants, NEW a \in Approvals, NEW ap \in ApprovalRec,
         appr' = [appr EXCEPT ![a] = ap],
         Asked(appr[a]) => Asked(ap) /\ ap.job = appr[a].job,
         Given(appr[a]) => Given(ap),
         Asked(ap) => ap.job \in Jobs
  PROVE  GrantInv' /\ GrantsGrow(appr, appr')
<1>1. appr \in [Approvals -> ApprovalRec]
  BY DEF GrantInv
<1>2. \A b \in Approvals : appr'[b] = IF b = a THEN ap ELSE appr[b]
  BY <1>1
<1>3. GrantsGrow(appr, appr')
  BY <1>2 DEF GrantsGrow
<1>4. appr' \in [Approvals -> ApprovalRec]
  BY <1>1
<1>5. \A b \in Approvals : Asked(appr'[b]) => appr'[b].job \in Jobs
  BY <1>2 DEF GrantInv
<1>6. ASSUME NEW j \in Jobs, jobs'[j].state = "waiting_approval"
      PROVE  Asked(appr'[jobs'[j].approval]) /\ appr'[jobs'[j].approval].job = j
  <2>1. jobs[j].state = "waiting_approval" /\ jobs'[j].approval = jobs[j].approval
    BY <1>6 DEF QuietGrants, KeepsGrant
  <2>2. jobs[j].approval \in Approvals
    BY <2>1, Document DEF DocOK, Job
  <2>3. Asked(appr[jobs[j].approval]) /\ appr[jobs[j].approval].job = j
    BY <2>1 DEF GrantInv
  <2>4. QED
    BY <1>3, <2>1, <2>2, <2>3 DEF GrantsGrow
<1>7. ASSUME NEW j \in Jobs, jobs'[j].approved
      PROVE  Given(appr'[jobs'[j].approval]) /\ appr'[jobs'[j].approval].job = j
  <2>1. jobs[j].approved /\ jobs'[j].approval = jobs[j].approval
    BY <1>7 DEF QuietGrants, KeepsGrant
  <2>2. jobs[j].approval \in Approvals
    BY <2>1, Document DEF DocOK, Job
  <2>3. /\ Given(appr[jobs[j].approval])
        /\ Asked(appr[jobs[j].approval])
        /\ appr[jobs[j].approval].job = j
    BY <2>1 DEF GrantInv, Given, Asked
  <2>4. QED
    BY <1>3, <2>1, <2>2, <2>3 DEF GrantsGrow
<1>8. GrantInv'
  BY <1>4, <1>5, <1>6, <1>7 DEF GrantInv, Asked, Given
<1>9. QED
  BY <1>3, <1>8

\* A step of the bridge of worker w that makes it b.
LEMMA BridgeActs ==
  ASSUME IInv, NEW w \in Workers, NEW b, QueueGoes(NoToken), QuietSlots,
         DeliveriesInv', GrantInv', GrantsGrow(appr, appr'),
         bridge' = [bridge EXCEPT ![w] = b], BridgeOK(b, appr'), UNCHANGED onlyBridge
  PROVE  IInv' /\ [QueueNext]_queueVars
<1>1. /\ slot' = slot /\ dec' = dec /\ rec' = rec /\ wk' = wk
      /\ undelivered' = undelivered /\ crashes' = crashes
  BY DEF onlyBridge
<1>2. SlotInv' /\ WorkersInv' /\ CoordinatorInv' /\ ReconcilerInv' /\ LoopsInv'
  BY <1>1, SlotsStand, WorkersStand, CoordinatorStands, ReconcilerStands, LoopsStand
     DEF IInv
<1>3. BridgesInv'
  BY BridgeMoves DEF IInv
<1>4. QED
  BY <1>2, <1>3 DEF IInv, QueueGoes

\* What is known of a tool call.
LEMMA Calls ==
  ASSUME IInv, NEW w \in Workers
  PROVE  /\ bridge \in [Workers -> BridgeRec]
         /\ bridge[w] \in BridgeRec
         /\ bridge[w].pc # "idle" => bridge[w].job \in Jobs
         /\ bridge[w].pc = "requested" => /\ bridge[w].appr \in Approvals
                                          /\ Asked(appr[bridge[w].appr])
                                          /\ appr[bridge[w].appr].job = bridge[w].job
         /\ QInv
  BY DEF IInv, BridgesInv, BridgeOK

\* The call is over, and nothing but the bridge has changed.
LEMMA CallEnds ==
  ASSUME IInv, NEW w \in Workers, bridge' = [bridge EXCEPT ![w] = IdleBridge],
         UNCHANGED <<queueVars, appr, dl, onlyBridge>>
  PROVE  IInv' /\ [QueueNext]_queueVars
<1>1. UNCHANGED queueVars /\ appr' = appr /\ dl' = dl /\ UNCHANGED onlyBridge
  OBVIOUS
<1>2. QueueGoes(NoToken) /\ QuietSlots /\ QuietGrants
  BY <1>1, QueueRests DEF IInv
<1>3. DeliveriesInv' /\ GrantInv' /\ GrantsGrow(appr, appr')
  BY <1>1, <1>2, DeliveriesStand, GrantsStand, SameGrants DEF IInv
<1>4. BridgeOK(IdleBridge, appr')
  BY IdleCall
<1>5. QED
  BY <1>1, <1>2, <1>3, <1>4, BridgeActs

\* BridgeAuthorize: the call is for the job of its worker.
LEMMA BridgeAuthorizeStep ==
  ASSUME IInv, NEW w \in Workers, BridgeAuthorize(w)
  PROVE  IInv' /\ [QueueNext]_queueVars
<1> DEFINE b == [IdleBridge EXCEPT !.pc = "authorized", !.job = wk[w].job,
                                   !.token = wk[w].token, !.appr = wk[w].grant]
<1>1. /\ wk[w].pc = "harness" /\ bridge' = [bridge EXCEPT ![w] = b]
      /\ UNCHANGED queueVars /\ appr' = appr /\ dl' = dl /\ UNCHANGED onlyBridge
  BY DEF BridgeAuthorize
<1>2. /\ wk[w].job \in Jobs /\ wk[w].token \in Nat
      /\ wk[w].grant \in Approvals \cup {NoApproval}
  BY <1>1, AtWork DEF WorkerRec
<1>3. b \in BridgeRec /\ b.pc = "authorized" /\ b.job = wk[w].job
  BY <1>2 DEF BridgeRec, BridgePc, IdleBridge
<1> HIDE DEF b
<1>4. BridgeOK(b, appr')
  BY <1>2, <1>3 DEF BridgeOK
<1>5. QueueGoes(NoToken) /\ QuietSlots /\ QuietGrants
  BY <1>1, QueueRests DEF IInv
<1>6. DeliveriesInv' /\ GrantInv' /\ GrantsGrow(appr, appr')
  BY <1>1, <1>5, DeliveriesStand, GrantsStand, SameGrants DEF IInv
<1>7. QED
  BY <1>1, <1>4, <1>5, <1>6, BridgeActs

\* BridgeRequest: a new approval belongs to the job of the call.
LEMMA BridgeRequestStep ==
  ASSUME IInv, NEW w \in Workers, BridgeRequest(w)
  PROVE  IInv' /\ [QueueNext]_queueVars
<1>1. PICK a \in Approvals :
        /\ appr[a].status = "none"
        /\ appr' = [appr EXCEPT ![a].status = "pending", ![a].job = bridge[w].job]
        /\ bridge' = [bridge EXCEPT ![w].pc = "requested", ![w].appr = a]
  BY DEF BridgeRequest
<1>2. /\ bridge[w].pc = "authorized"
      /\ UNCHANGED queueVars /\ dl' = dl /\ UNCHANGED onlyBridge
  BY DEF BridgeRequest
<1>3. /\ bridge \in [Workers -> BridgeRec] /\ bridge[w] \in BridgeRec
      /\ bridge[w].job \in Jobs /\ QInv
  BY <1>2, Calls
<1>4. appr \in [Approvals -> ApprovalRec] /\ appr[a] \in ApprovalRec
  BY DEF IInv, GrantInv
<1> DEFINE ap == [appr[a] EXCEPT !.status = "pending", !.job = bridge[w].job]
           b == [bridge[w] EXCEPT !.pc = "requested", !.appr = a]
<1>5. appr' = [appr EXCEPT ![a] = ap] /\ bridge' = [bridge EXCEPT ![w] = b]
  BY <1>1, <1>3, <1>4 DEF ApprovalRec, BridgeRec
<1>6. ap \in ApprovalRec /\ ap.status = "pending" /\ ap.job = bridge[w].job
  BY <1>3, <1>4 DEF ApprovalRec, ApprovalStatus
<1>7. b \in BridgeRec /\ b.pc = "requested" /\ b.job = bridge[w].job /\ b.appr = a
  BY <1>3 DEF BridgeRec, BridgePc
<1> HIDE DEF ap, b
<1>8. QueueGoes(NoToken) /\ QuietSlots /\ QuietGrants
  BY <1>2, <1>3, QueueRests
<1>9. GrantInv' /\ GrantsGrow(appr, appr')
  BY <1>1, <1>3, <1>5, <1>6, <1>8, ApprovalGrows DEF IInv, Asked, Given
<1>10. DeliveriesInv'
  BY <1>2, <1>8, DeliveriesStand DEF IInv
<1>11. BridgeOK(b, appr')
  <2>1. appr'[a] = ap
    BY <1>4, <1>5
  <2>2. QED
    BY <1>3, <1>6, <1>7, <2>1 DEF BridgeOK, Asked
<1>12. QED
  BY <1>2, <1>5, <1>8, <1>9, <1>10, <1>11, BridgeActs

\* BridgeConsume: an approval that is consumed stays given.
LEMMA BridgeConsumeStep ==
  ASSUME IInv, NEW w \in Workers, BridgeConsume(w)
  PROVE  IInv' /\ [QueueNext]_queueVars
<1> DEFINE a == bridge[w].appr
           status == IF appr[a].status = "approved" /\ ~appr[a].expired
                       THEN "consumed" ELSE appr[a].status
           ap == [appr[a] EXCEPT !.status = status]
<1>1. /\ a # NoApproval
      /\ appr' = [appr EXCEPT ![a] = ap]
      /\ bridge' = [bridge EXCEPT ![w] = IdleBridge]
      /\ UNCHANGED queueVars /\ dl' = dl /\ UNCHANGED onlyBridge
  BY DEF BridgeConsume
<1>2. a \in Approvals /\ QInv
  BY <1>1, Calls DEF BridgeRec
<1>3. appr[a] \in ApprovalRec /\ (Asked(appr[a]) => appr[a].job \in Jobs)
  BY <1>2 DEF IInv, GrantInv
<1>4. /\ status \in ApprovalStatus
      /\ appr[a].status # "none" => status # "none"
      /\ appr[a].status = "none" => status = "none"
      /\ appr[a].status \in {"approved", "consumed"} => status \in {"approved", "consumed"}
  BY <1>3 DEF ApprovalRec, ApprovalStatus
<1> HIDE DEF status
<1>5. ap \in ApprovalRec /\ ap.status = status /\ ap.job = appr[a].job
  BY <1>3, <1>4 DEF ApprovalRec
<1> HIDE DEF ap
<1>6. QueueGoes(NoToken) /\ QuietSlots /\ QuietGrants
  BY <1>1, <1>2, QueueRests
<1>7. GrantInv' /\ GrantsGrow(appr, appr')
  BY <1>1, <1>2, <1>3, <1>4, <1>5, <1>6, ApprovalGrows DEF IInv, Asked, Given
<1>8. DeliveriesInv'
  BY <1>1, <1>6, DeliveriesStand DEF IInv
<1>9. BridgeOK(IdleBridge, appr')
  BY IdleCall
<1>10. QED
  BY <1>1, <1>6, <1>7, <1>8, <1>9, BridgeActs

\* BridgeSuspend: the job comes to wait for the approval requested for it.
LEMMA BridgeSuspendStep ==
  ASSUME IInv, NEW w \in Workers, BridgeSuspend(w)
  PROVE  IInv' /\ [QueueNext]_queueVars
<1> DEFINE j == bridge[w].job
           t == bridge[w].token
           a == bridge[w].appr
           b == [bridge[w] EXCEPT !.pc = "suspended"]
<1>1. /\ bridge[w].pc = "requested"
      /\ appr' = appr /\ dl' = dl /\ UNCHANGED onlyBridge
  BY DEF BridgeSuspend
<1>2. /\ bridge \in [Workers -> BridgeRec] /\ bridge[w] \in BridgeRec
      /\ j \in Jobs /\ a \in Approvals /\ Asked(appr[a]) /\ appr[a].job = j /\ QInv
  BY <1>1, Calls
<1>3. CASE /\ SuspendForApproval(j, t, a)
           /\ bridge' = [bridge EXCEPT ![w].pc = "suspended"]
  <2>1. t \in Nat
    BY <1>2 DEF BridgeRec
  <2>2. /\ QueueGoes(NoToken) /\ QuietSlots
        /\ jobs'[j].approval = a /\ ~jobs'[j].approved
        /\ \A k \in Jobs \ {j} : jobs'[k] = jobs[k]
    BY <1>2, <1>3, <2>1, Suspends
  <2>3. bridge' = [bridge EXCEPT ![w] = b]
    BY <1>3
  <2>4. b \in BridgeRec /\ b.pc = "suspended" /\ b.job = j
    BY <1>2 DEF BridgeRec, BridgePc
  <2> HIDE DEF b
  <2>5. BridgeOK(b, appr')
    BY <1>2, <2>4 DEF BridgeOK
  <2>6. GrantInv'
    <3>1. GrantInv
      BY DEF IInv
    <3>2. \A k \in Jobs : jobs'[k].state = "waiting_approval" =>
            Asked(appr[jobs'[k].approval]) /\ appr[jobs'[k].approval].job = k
      BY <1>2, <2>2, <3>1 DEF GrantInv
    <3>3. \A k \in Jobs : jobs'[k].approved =>
            Given(appr[jobs'[k].approval]) /\ appr[jobs'[k].approval].job = k
      BY <2>2, <3>1 DEF GrantInv
    <3>4. QED
      BY <1>1, <3>1, <3>2, <3>3 DEF GrantInv, Asked, Given
  <2>7. DeliveriesInv' /\ GrantsGrow(appr, appr')
    BY <1>1, <2>2, DeliveriesStand, SameGrants DEF IInv
  <2>8. QED
    BY <1>1, <2>2, <2>3, <2>5, <2>6, <2>7, BridgeActs
<1>4. CASE bridge' = [bridge EXCEPT ![w] = IdleBridge] /\ UNCHANGED queueVars
  BY <1>1, <1>4, CallEnds
<1>5. QED
  BY <1>3, <1>4 DEF BridgeSuspend

\* BridgeNotify: the card is no verdict.
LEMMA BridgeNotifyStep ==
  ASSUME IInv, NEW w \in Workers, BridgeNotify(w)
  PROVE  IInv' /\ [QueueNext]_queueVars
<1> DEFINE j == bridge[w].job
<1>1. /\ bridge[w].pc = "suspended" /\ EnqueueDelivery(j, "requested")
      /\ bridge' = [bridge EXCEPT ![w] = IdleBridge]
      /\ UNCHANGED queueVars /\ appr' = appr /\ UNCHANGED onlyBridge
  BY DEF BridgeNotify
<1>2. j \in Jobs /\ QInv
  BY <1>1, Calls
<1>3. slot' = slot
  BY <1>1 DEF onlyBridge
<1>4. Effect("requested", j)
  BY <1>1, <1>3 DEF Effect, Purposes
<1>5. QueueGoes(NoToken) /\ DeliveriesInv' /\ GrantInv'
  <2> HIDE DEF j
  <2>1. QED
    BY <1>1, <1>2, <1>4, EffectStep DEF IInv
<1>6. QuietSlots /\ GrantsGrow(appr, appr') /\ BridgeOK(IdleBridge, appr')
  BY <1>1, <1>2, QueueRests, SameGrants, IdleCall
<1>7. QED
  BY <1>1, <1>5, <1>6, BridgeActs

\* Every step of a bridge.
LEMMA BridgeSteps ==
  ASSUME IInv, NEW w \in Workers, BridgeAuthorize(w) \/ BridgeStep(w)
  PROVE  IInv' /\ [QueueNext]_queueVars
<1>1. BridgeAborts(w) => IInv' /\ [QueueNext]_queueVars
  BY CallEnds DEF BridgeAborts
<1>2. QED
  BY <1>1, BridgeAuthorizeStep, BridgeRequestStep, BridgeConsumeStep,
     BridgeSuspendStep, BridgeNotifyStep DEF BridgeStep

(***************************************************************************)
(* The approval coordinator.                                               *)
(***************************************************************************)
\* A step of the coordinator after which its list rests on what is true.
LEMMA CoordinatorActs ==
  ASSUME IInv, QueueGoes(NoToken), SlotInv', DeliveriesInv', GrantInv',
         GrantsGrow(appr, appr'), DecisionOK(dec', appr', jobs'), UNCHANGED onlyDecision
  PROVE  IInv' /\ [QueueNext]_queueVars
<1>1. /\ rec' = rec /\ wk' = wk /\ bridge' = bridge
      /\ undelivered' = undelivered /\ crashes' = crashes
  BY DEF onlyDecision
<1>2. WorkersInv' /\ BridgesInv' /\ ReconcilerInv' /\ LoopsInv'
  BY <1>1, WorkersStand, BridgesStand, ReconcilerStands, LoopsStand DEF IInv
<1>3. CoordinatorInv'
  BY DEF CoordinatorInv
<1>4. QED
  BY <1>2, <1>3 DEF IInv, QueueGoes

\* A coordinator with nothing to do.
LEMMA NoDecision ==
  ASSUME NEW ap, NEW docs
  PROVE  DecisionOK(IdleDecision, ap, docs)
<1>1. IdleDecision.todo = <<>> /\ IdleDecision.appr = NoApproval
  BY DEF IdleDecision
<1>2. IdleDecision \in [appr : Approvals \cup {NoApproval}, todo : DecideTodos]
  BY DEF IdleDecision, DecideTodos
<1>3. QED
  BY <1>1, <1>2 DEF DecisionOK

\* HandleSlackDecision: the list agrees with the status just read.
LEMMA HandleStep ==
  ASSUME IInv, NEW a \in Approvals, NEW approve \in BOOLEAN,
         HandleSlackDecision(a, approve)
  PROVE  IInv' /\ [QueueNext]_queueVars
<1> DEFINE todo == IF approve
                     THEN (IF appr[a].status \in {"approved", "consumed"}
                             THEN <<>> ELSE <<"approve">>) \o <<"resume", "resolved">>
                     ELSE (IF appr[a].status = "denied"
                             THEN <<>> ELSE <<"deny">>)
                          \o <<"cancel", "slot", "resolved">>
           x == [appr |-> a, todo |-> todo]
<1>1. /\ appr[a].status # "none" /\ dec' = x
      /\ UNCHANGED queueVars /\ slot' = slot /\ appr' = appr /\ dl' = dl
      /\ UNCHANGED onlyDecision
  BY DEF HandleSlackDecision
<1>2. \/ todo = <<"approve", "resume", "resolved">>
      \/ todo = <<"resume", "resolved">> /\ Given(appr[a])
      \/ todo = <<"deny", "cancel", "slot", "resolved">>
      \/ todo = <<"cancel", "slot", "resolved">>
  BY Joins DEF Given
<1> HIDE DEF todo
<1>3. DecideOK(todo, jobs[appr[a].job], appr[a]) /\ todo \in DecideTodos
  BY <1>2 DEF DecideOK, DecideTodos
<1>4. x \in [appr : Approvals \cup {NoApproval}, todo : DecideTodos]
      /\ x.appr = a /\ x.todo = todo
  BY <1>3
<1> HIDE DEF x
<1>5. DecisionOK(x, appr, jobs)
  BY <1>1, <1>3, <1>4 DEF DecisionOK, Asked
<1>6. jobs' = jobs
  BY <1>1 DEF queueVars
<1>7. DecisionOK(dec', appr', jobs')
  BY <1>1, <1>5, <1>6
<1>8. QueueGoes(NoToken) /\ QuietSlots /\ QuietGrants
  BY <1>1, QueueRests DEF IInv
<1>9. SlotInv' /\ DeliveriesInv' /\ GrantInv' /\ GrantsGrow(appr, appr')
  BY <1>1, <1>8, SlotsStand, DeliveriesStand, GrantsStand, SameGrants DEF IInv
<1>10. QED
  BY <1>1, <1>7, <1>8, <1>9, CoordinatorActs

\* The coordinator takes the first entry off its list.
LEMMA Proceeds ==
  ASSUME GrantInv, CoordinatorInv, dec.todo # <<>>, GrantsGrow(appr, appr'), Proceed,
         Len(dec.todo) = 1 \/ DecideOK(Tail(dec.todo), jobs'[appr[dec.appr].job],
                                       appr'[dec.appr])
  PROVE  DecisionOK(dec', appr', jobs')
<1> DEFINE a == dec.appr
           rest == Tail(dec.todo)
           x == [dec EXCEPT !.todo = rest]
<1>1. /\ dec \in [appr : Approvals \cup {NoApproval}, todo : DecideTodos]
      /\ a \in Approvals /\ Asked(appr[a])
  BY DEF CoordinatorInv, DecisionOK
<1>2. CASE Len(dec.todo) = 1
  <2>1. dec' = IdleDecision
    BY <1>2 DEF Proceed
  <2>2. QED
    BY <2>1, NoDecision
<1>3. CASE Len(dec.todo) # 1
  <2>1. dec' = x
    BY <1>3 DEF Proceed
  <2>2. DecideOK(rest, jobs'[appr[a].job], appr'[a])
    BY <1>3
  <2> HIDE DEF rest
  <2>3. rest \in DecideTodos
    BY <2>2 DEF DecideOK, DecideTodos
  <2>4. /\ x \in [appr : Approvals \cup {NoApproval}, todo : DecideTodos]
        /\ x.appr = a /\ x.todo = rest
    BY <1>1, <2>3
  <2> HIDE DEF x
  <2>5. Asked(appr'[a]) /\ appr'[a].job = appr[a].job
    BY <1>1 DEF GrantsGrow
  <2>6. DecisionOK(x, appr', jobs')
    BY <1>1, <2>2, <2>4, <2>5 DEF DecisionOK
  <2>7. QED
    BY <2>1, <2>6
<1>4. QED
  BY <1>2, <1>3

\* Approving and denying: only a pending approval is decided.
LEMMA ResolveStep ==
  ASSUME IInv, dec.todo # <<>>, NEW status \in {"approved", "denied"},
         Resolve(dec.appr, status), UNCHANGED onlyDecision,
         \/ dec.todo = <<"approve", "resume", "resolved">> /\ status = "approved"
         \/ dec.todo = <<"deny", "cancel", "slot", "resolved">>
  PROVE  IInv' /\ [QueueNext]_queueVars
<1> DEFINE a == dec.appr
           ap == [appr[a] EXCEPT !.status = status]
<1>1. QInv /\ GrantInv /\ CoordinatorInv /\ SlotInv /\ DeliveriesInv
  BY DEF IInv
<1>2. a \in Approvals /\ Asked(appr[a])
  BY <1>1 DEF CoordinatorInv, DecisionOK
<1>3. UNCHANGED queueVars /\ slot' = slot /\ dl' = dl
  BY DEF Resolve
<1>4. QueueGoes(NoToken) /\ QuietSlots /\ QuietGrants
  BY <1>1, <1>3, QueueRests
<1>5. SlotInv' /\ DeliveriesInv'
  BY <1>1, <1>3, <1>4, SlotsStand, DeliveriesStand
<1>6. CASE /\ appr[a].status = "pending"
           /\ appr' = [appr EXCEPT ![a].status = status]
           /\ Proceed
  <2>1. appr' = [appr EXCEPT ![a] = ap]
    BY <1>6
  <2>2. /\ appr[a] \in ApprovalRec /\ appr \in [Approvals -> ApprovalRec]
        /\ appr[a].job \in Jobs
    BY <1>1, <1>2 DEF GrantInv
  <2>3. status \in ApprovalStatus
    BY DEF ApprovalStatus
  <2>4. ap \in ApprovalRec /\ ap.status = status /\ ap.job = appr[a].job
    BY <2>2, <2>3 DEF ApprovalRec
  <2> HIDE DEF ap
  <2>5. GrantInv' /\ GrantsGrow(appr, appr')
    BY <1>1, <1>2, <1>4, <1>6, <2>1, <2>2, <2>4, ApprovalGrows DEF Asked, Given
  <2>6. appr'[a].status = status
    BY <1>2, <2>1, <2>2, <2>4
  <2>7. DecideOK(Tail(dec.todo), jobs'[appr[a].job], appr'[a])
    <3>1. CASE dec.todo = <<"approve", "resume", "resolved">> /\ status = "approved"
      <4>1. Tail(dec.todo) = <<"resume", "resolved">> /\ Given(appr'[a])
        BY <2>6, <3>1, Lists DEF Given
      <4>2. QED
        BY <4>1 DEF DecideOK
    <3>2. CASE dec.todo = <<"deny", "cancel", "slot", "resolved">>
      <4>1. Tail(dec.todo) = <<"cancel", "slot", "resolved">>
        BY <3>2, Lists
      <4>2. QED
        BY <4>1 DEF DecideOK
    <3>3. QED
      BY <3>1, <3>2
  <2>8. DecisionOK(dec', appr', jobs')
    BY <1>1, <1>6, <2>5, <2>7, Proceeds
  <2>9. QED
    BY <1>4, <1>5, <2>5, <2>8, CoordinatorActs
<1>7. CASE GiveUp /\ UNCHANGED appr
  <2>1. GrantInv' /\ GrantsGrow(appr, appr')
    BY <1>1, <1>4, <1>7, GrantsStand, SameGrants
  <2>2. DecisionOK(dec', appr', jobs')
    BY <1>7, NoDecision DEF GiveUp
  <2>3. QED
    BY <1>4, <1>5, <2>1, <2>2, CoordinatorActs
<1>8. QED
  BY <1>6, <1>7 DEF Resolve

\* The resumed job carries the approval it waited for, which was given.
LEMMA GrantsByResume ==
  ASSUME QInv, GrantInv, NEW j \in Jobs, NEW a \in Approvals, ResumeFromApproval(j, a),
         Given(appr[a]), appr' = appr
  PROVE  QueueGoes(NoToken) /\ QuietSlots /\ GrantInv'
<1>1. /\ QueueGoes(NoToken) /\ QuietSlots
      /\ jobs'[j].approval = a /\ jobs'[j].state = "queued"
      /\ \A k \in Jobs \ {j} : jobs'[k] = jobs[k]
  BY Resumes
<1>2. appr[a].job = j
  BY DEF ResumeFromApproval, AwaitsApproval, GrantInv
<1>3. \A k \in Jobs : jobs'[k].state = "waiting_approval" =>
        Asked(appr[jobs'[k].approval]) /\ appr[jobs'[k].approval].job = k
  BY <1>1 DEF GrantInv
<1>4. \A k \in Jobs : jobs'[k].approved =>
        Given(appr[jobs'[k].approval]) /\ appr[jobs'[k].approval].job = k
  BY <1>1, <1>2 DEF GrantInv
<1>5. GrantInv'
  BY <1>3, <1>4 DEF GrantInv, Asked, Given
<1>6. QED
  BY <1>1, <1>5

\* Resuming: the approval was given when the list says so.
LEMMA DecisionResumeStep ==
  ASSUME IInv, dec.todo = <<"resume", "resolved">>,
         DecisionResume(appr[dec.appr].job, dec.appr), UNCHANGED onlyDecision
  PROVE  IInv' /\ [QueueNext]_queueVars
<1> DEFINE a == dec.appr
           j == appr[a].job
<1>1. QInv /\ GrantInv /\ CoordinatorInv /\ SlotInv /\ DeliveriesInv
  BY DEF IInv
<1>2. dec.todo # <<>> /\ Head(dec.todo) = "resume" /\ Tail(dec.todo) = <<"resolved">>
  BY Lists
<1>3. a \in Approvals /\ Asked(appr[a]) /\ DecideOK(dec.todo, jobs[j], appr[a])
  BY <1>1, <1>2 DEF CoordinatorInv, DecisionOK
<1>4. j \in Jobs
  BY <1>1, <1>3 DEF GrantInv
<1>5. Given(appr[a])
  BY <1>2, <1>3, Lists DEF DecideOK
<1>6. slot' = slot /\ appr' = appr /\ dl' = dl
  BY DEF DecisionResume
<1>7. QueueGoes(NoToken) /\ QuietSlots /\ GrantInv'
  <2>1. CASE ResumeFromApproval(j, a)
    BY <1>1, <1>3, <1>4, <1>5, <1>6, <2>1, GrantsByResume
  <2>2. CASE UNCHANGED queueVars
    BY <1>1, <1>6, <2>2, QueueRests, GrantsStand
  <2>3. QED
    BY <2>1, <2>2 DEF DecisionResume
<1>8. SlotInv' /\ DeliveriesInv' /\ GrantsGrow(appr, appr')
  BY <1>1, <1>6, <1>7, SlotsStand, DeliveriesStand, SameGrants
<1>9. DecisionOK(dec', appr', jobs')
  <2>1. CASE Proceed
    <3>1. DecideOK(Tail(dec.todo), jobs'[appr[dec.appr].job], appr'[dec.appr])
      BY <1>2 DEF DecideOK
    <3>2. QED
      BY <1>1, <1>2, <1>8, <2>1, <3>1, Proceeds
  <2>2. CASE GiveUp
    BY <2>2, NoDecision DEF GiveUp
  <2>3. QED
    BY <2>1, <2>2 DEF DecisionResume
<1>10. QED
  BY <1>7, <1>8, <1>9, CoordinatorActs

\* Cancelling: the slot is given back only once the job is done.
LEMMA DecisionCancelStep ==
  ASSUME IInv, dec.todo = <<"cancel", "slot", "resolved">>,
         DecisionCancel(appr[dec.appr].job), UNCHANGED onlyDecision
  PROVE  IInv' /\ [QueueNext]_queueVars
<1> DEFINE a == dec.appr
           j == appr[a].job
<1>1. QInv /\ GrantInv /\ CoordinatorInv /\ SlotInv /\ DeliveriesInv
  BY DEF IInv
<1>2. dec.todo # <<>> /\ Tail(dec.todo) = <<"slot", "resolved">>
  BY Lists
<1>3. a \in Approvals /\ Asked(appr[a])
  BY <1>1, <1>2 DEF CoordinatorInv, DecisionOK
<1>4. j \in Jobs
  BY <1>1, <1>3 DEF GrantInv
<1>5. slot' = slot /\ appr' = appr /\ dl' = dl
  BY DEF DecisionCancel
<1>6. /\ QueueGoes(NoToken) /\ QuietSlots /\ QuietGrants
      /\ (Proceed /\ Done(jobs'[j])) \/ GiveUp
  <2>1. CASE Cancel(j) /\ Proceed
    BY <1>1, <1>4, <2>1, Cancels
  <2>2. CASE jobs[j].state \in {"cancelled", "cancelling"} /\ Proceed /\ UNCHANGED queueVars
    <3>1. QueueGoes(NoToken) /\ QuietSlots /\ QuietGrants
      BY <1>1, <2>2, QueueRests
    <3>2. Done(jobs'[j])
      BY <2>2 DEF Done, Left, queueVars
    <3>3. QED
      BY <2>2, <3>1, <3>2
  <2>3. CASE GiveUp /\ UNCHANGED queueVars
    BY <1>1, <2>3, QueueRests
  <2>4. QED
    BY <2>1, <2>2, <2>3 DEF DecisionCancel
<1>7. SlotInv' /\ DeliveriesInv' /\ GrantInv' /\ GrantsGrow(appr, appr')
  BY <1>1, <1>5, <1>6, SlotsStand, DeliveriesStand, GrantsStand, SameGrants
<1>8. DecisionOK(dec', appr', jobs')
  <2>1. CASE Proceed /\ Done(jobs'[j])
    <3>1. DecideOK(Tail(dec.todo), jobs'[appr[dec.appr].job], appr'[dec.appr])
      BY <1>2, <2>1 DEF DecideOK
    <3>2. QED
      BY <1>1, <1>2, <1>7, <2>1, <3>1, Proceeds
  <2>2. CASE GiveUp
    BY <2>2, NoDecision DEF GiveUp
  <2>3. QED
    BY <1>6, <2>1, <2>2
<1>9. QED
  BY <1>6, <1>7, <1>8, CoordinatorActs

\* Giving the slot back and rewriting the card.
LEMMA DecisionEffectStep ==
  ASSUME IInv, dec.todo \in {<<"slot", "resolved">>, <<"resolved">>},
         Effect(Head(dec.todo), appr[dec.appr].job), Proceed, UNCHANGED appr,
         UNCHANGED onlyDecision
  PROVE  IInv' /\ [QueueNext]_queueVars
<1> DEFINE a == dec.appr
           j == appr[a].job
<1>1. QInv /\ GrantInv /\ CoordinatorInv /\ SlotInv /\ DeliveriesInv
  BY DEF IInv
<1>2. /\ dec.todo # <<>>
      /\ Head(dec.todo) \in {"slot", "resolved"}
      /\ Head(dec.todo) = "slot" => dec.todo = <<"slot", "resolved">>
      /\ Len(dec.todo) = 1 \/ Tail(dec.todo) = <<"resolved">>
  <2>1. CASE dec.todo = <<"slot", "resolved">>
    BY <2>1, Lists
  <2>2. CASE dec.todo = <<"resolved">>
    BY <2>2, Lists
  <2>3. QED
    BY <2>1, <2>2
<1>3. a \in Approvals /\ Asked(appr[a]) /\ DecideOK(dec.todo, jobs[j], appr[a])
  BY <1>1, <1>2 DEF CoordinatorInv, DecisionOK
<1>4. j \in Jobs
  BY <1>1, <1>3 DEF GrantInv
<1>5. Head(dec.todo) = "slot" => Done(jobs[j])
  BY <1>2, <1>3, Lists DEF DecideOK
<1>6. QueueGoes(NoToken) /\ SlotInv' /\ DeliveriesInv' /\ GrantInv'
  <2> DEFINE e == Head(dec.todo)
  <2>1. /\ Effect(e, j) /\ (e = "slot" => Done(jobs[j]))
        /\ e # "final" /\ e # "failure"
    BY <1>2, <1>5
  <2> HIDE DEF e, j
  <2>2. QED
    BY <1>1, <1>4, <2>1, EffectStep
<1>7. GrantsGrow(appr, appr')
  BY SameGrants
<1>8. DecisionOK(dec', appr', jobs')
  <2>1. Tail(dec.todo) = <<"resolved">> =>
          DecideOK(Tail(dec.todo), jobs'[appr[dec.appr].job], appr'[dec.appr])
    BY DEF DecideOK
  <2>2. QED
    BY <1>1, <1>2, <1>7, <2>1, Proceeds
<1>9. QED
  BY <1>6, <1>7, <1>8, CoordinatorActs

\* Every step of the coordinator on its list.
LEMMA DecisionSteps ==
  ASSUME IInv, DecisionStep
  PROVE  IInv' /\ [QueueNext]_queueVars
<1> DEFINE todo == dec.todo
<1>1. todo # <<>> /\ UNCHANGED onlyDecision
  BY DEF DecisionStep
<1>2. DecideOK(todo, jobs[appr[dec.appr].job], appr[dec.appr])
  BY <1>1 DEF IInv, CoordinatorInv, DecisionOK
<1>3. CASE todo = <<"approve", "resume", "resolved">>
  <2>1. Head(todo) = "approve"
    BY <1>3, Lists
  <2>2. Resolve(dec.appr, "approved")
    BY <2>1 DEF DecisionStep, Effects, Purposes
  <2>3. QED
    BY <1>1, <1>3, <2>2, ResolveStep
<1>4. CASE todo = <<"resume", "resolved">>
  <2>1. Head(todo) = "resume"
    BY <1>4, Lists
  <2>2. DecisionResume(appr[dec.appr].job, dec.appr)
    BY <2>1 DEF DecisionStep, Effects, Purposes
  <2>3. QED
    BY <1>1, <1>4, <2>2, DecisionResumeStep
<1>5. CASE todo = <<"deny", "cancel", "slot", "resolved">>
  <2>1. Head(todo) = "deny"
    BY <1>5, Lists
  <2>2. Resolve(dec.appr, "denied")
    BY <2>1 DEF DecisionStep, Effects, Purposes
  <2>3. QED
    BY <1>1, <1>5, <2>2, ResolveStep
<1>6. CASE todo = <<"cancel", "slot", "resolved">>
  <2>1. Head(todo) = "cancel"
    BY <1>6, Lists
  <2>2. DecisionCancel(appr[dec.appr].job)
    BY <2>1 DEF DecisionStep, Effects, Purposes
  <2>3. QED
    BY <1>1, <1>6, <2>2, DecisionCancelStep
<1>7. CASE todo \in {<<"slot", "resolved">>, <<"resolved">>}
  <2>1. Head(todo) \in {"slot", "resolved"}
    <3>1. CASE todo = <<"slot", "resolved">>
      BY <3>1, Lists
    <3>2. CASE todo = <<"resolved">>
      BY <3>2, Lists
    <3>3. QED
      BY <1>7, <3>1, <3>2
  <2>2. Effect(Head(todo), appr[dec.appr].job) /\ Proceed /\ UNCHANGED appr
    BY <2>1 DEF DecisionStep
  <2>3. QED
    BY <1>1, <1>7, <2>2, DecisionEffectStep
<1>8. QED
  BY <1>2, <1>3, <1>4, <1>5, <1>6, <1>7 DEF DecideOK

(***************************************************************************)
(* The reconciler.                                                         *)
(***************************************************************************)
\* A step of the reconciler after which its memory and its list rest on what is
\* true.
LEMMA ReconcilerActs ==
  ASSUME IInv, QueueGoes(NoToken), SlotInv', DeliveriesInv', GrantInv', ReconcilerInv',
         UNCHANGED onlyReconciler
  PROVE  IInv' /\ [QueueNext]_queueVars
<1>1. /\ appr' = appr /\ dec' = dec /\ wk' = wk /\ bridge' = bridge
      /\ undelivered' = undelivered /\ crashes' = crashes
  BY DEF onlyReconciler
<1>2. GrantsGrow(appr, appr')
  BY <1>1, SameGrants
<1>3. WorkersInv' /\ BridgesInv' /\ CoordinatorInv' /\ LoopsInv'
  BY <1>1, <1>2, WorkersStand, BridgesStand, CoordinatorStands, LoopsStand DEF IInv
<1>4. QED
  BY <1>3 DEF IInv, QueueGoes

\* A reconciler between two passes.
LEMMA NoPass ==
  /\ NotSeen \in SeenRec
  /\ IdleReconciler \in ReconcilerRec
  /\ IdleReconciler.todo = <<>>
  /\ \A j \in Jobs : IdleReconciler.list[j] = NotSeen
<1>1. NotSeen \in SeenRec
  BY DEF NotSeen, SeenRec, State
<1>2. EmptyList \in [Jobs -> SeenRec] /\ \A j \in Jobs : EmptyList[j] = NotSeen
  BY <1>1 DEF EmptyList
<1>3. <<>> \in RecTodos
  BY DEF RecTodos
<1>4. QED
  BY <1>1, <1>2, <1>3 DEF IdleReconciler, ReconcilerRec

\* The reconciler goes on with another list.
LEMMA GoesThen ==
  ASSUME ReconcilerInv, QueueGoes(NoToken), appr' = appr, NEW todo, Then(todo),
         todo # <<>> => /\ todo \in RecTodos
                        /\ rec.job \in Jobs
                        /\ PlanOK(todo, rec.seen.approval, jobs'[rec.job], appr)
  PROVE  ReconcilerInv'
<1>1. rec \in ReconcilerRec /\ rec.list \in [Jobs -> SeenRec]
  BY DEF ReconcilerInv, ReconcilerRec
<1>2. \A j \in Jobs : SeenOK(rec.list[j], jobs'[j])
  BY SeenKept DEF ReconcilerInv, QueueGoes
<1>3. CASE todo = <<>>
  <2> DEFINE x == [IdleReconciler EXCEPT !.list = rec.list]
  <2>1. rec' = x
    BY <1>3 DEF Then
  <2>2. x \in ReconcilerRec /\ x.list = rec.list /\ x.todo = <<>>
    BY <1>1, NoPass DEF ReconcilerRec
  <2> HIDE DEF x
  <2>3. rec' \in ReconcilerRec /\ rec'.list = rec.list /\ rec'.todo = <<>>
    BY <2>1, <2>2
  <2>4. \A j \in Jobs : SeenOK(rec'.list[j], jobs'[j])
    BY <1>2, <2>3
  <2>5. QED
    BY <2>3, <2>4 DEF ReconcilerInv
<1>4. CASE todo # <<>>
  <2> DEFINE x == [rec EXCEPT !.todo = todo]
  <2>1. rec' = x
    BY <1>4 DEF Then
  <2>2. /\ x \in ReconcilerRec /\ x.list = rec.list /\ x.todo = todo
        /\ x.job = rec.job /\ x.seen = rec.seen
    BY <1>1, <1>4 DEF ReconcilerRec
  <2> HIDE DEF x
  <2>3. /\ rec' \in ReconcilerRec /\ rec'.list = rec.list /\ rec'.todo = todo
        /\ rec'.job = rec.job /\ rec'.seen = rec.seen
    BY <2>1, <2>2
  <2>4. \A j \in Jobs : SeenOK(rec'.list[j], jobs'[j])
    BY <1>2, <2>3
  <2>5. /\ rec'.job \in Jobs
        /\ PlanOK(rec'.todo, rec'.seen.approval, jobs'[rec'.job], appr')
    BY <1>4, <2>3
  <2>6. QED
    BY <2>3, <2>4, <2>5 DEF ReconcilerInv
<1>5. QED
  BY <1>3, <1>4

\* ListJobs: what is listed is true of the job.
LEMMA ListJobsStep ==
  ASSUME IInv, ListJobs
  PROVE  IInv' /\ [QueueNext]_queueVars
<1> DEFINE list == [j \in Jobs |-> IF ListReconciliation(j) THEN Seen(j) ELSE NotSeen]
           x == [rec EXCEPT !.list = list]
<1>1. /\ rec = IdleReconciler /\ rec' = x
      /\ UNCHANGED queueVars /\ slot' = slot /\ dl' = dl /\ UNCHANGED onlyReconciler
  BY DEF ListJobs
<1>2. QInv /\ GrantInv /\ SlotInv /\ DeliveriesInv /\ appr' = appr /\ jobs' = jobs
  BY <1>1 DEF IInv, onlyReconciler, queueVars
<1>3. ASSUME NEW j \in Jobs
      PROVE  Seen(j) \in SeenRec
  <2>1. jobs[j] \in Job
    BY <1>2, Document
  <2>2. /\ jobs[j].state \in State
        /\ jobs[j].approval \in Approvals \cup {NoApproval}
        /\ jobs[j].expired \in BOOLEAN
    BY <2>1 DEF Job
  <2>3. jobs[j].approval # NoApproval => appr[jobs[j].approval].expired \in BOOLEAN
    BY <1>2, <2>2 DEF GrantInv, ApprovalRec
  <2>4. (/\ jobs[j].approval # NoApproval
         /\ appr[jobs[j].approval].expired) \in BOOLEAN
    BY <2>3
  <2>5. QED
    BY <2>2, <2>4 DEF Seen, SeenRec
<1>4. ASSUME NEW j \in Jobs, ListReconciliation(j)
      PROVE  SeenOK(Seen(j), jobs[j])
  <2>1. DocOK(jobs[j]) /\ jobs[j] \in Job
    BY <1>2, Document
  <2>2. /\ Seen(j).state = jobs[j].state
        /\ Seen(j).approval = jobs[j].approval
        /\ Seen(j).expired = jobs[j].expired
    BY DEF Seen
  <2>3. jobs[j].state = "waiting_approval" => jobs[j].approval \in Approvals
    BY <2>1 DEF DocOK, Job
  <2>4. QED
    BY <1>4, <2>2, <2>3 DEF SeenOK, ListReconciliation, Done, Left, Succ, Spent
<1>5. /\ list \in [Jobs -> SeenRec]
      /\ \A j \in Jobs : SeenOK(list[j], jobs[j])
  BY <1>3, <1>4, NoPass DEF SeenOK
<1> HIDE DEF list
<1>6. x \in ReconcilerRec /\ x.list = list /\ x.todo = <<>>
  BY <1>1, <1>5, NoPass DEF ReconcilerRec
<1> HIDE DEF x
<1>7. /\ rec' \in ReconcilerRec /\ rec'.todo = <<>>
      /\ \A j \in Jobs : SeenOK(rec'.list[j], jobs'[j])
  BY <1>1, <1>2, <1>5, <1>6
<1>8. ReconcilerInv'
  BY <1>7 DEF ReconcilerInv
<1>9. QueueGoes(NoToken) /\ QuietSlots /\ QuietGrants
  BY <1>1, <1>2, QueueRests
<1>10. SlotInv' /\ DeliveriesInv' /\ GrantInv'
  BY <1>1, <1>2, <1>9, SlotsStand, DeliveriesStand, GrantsStand
<1>11. QED
  BY <1>1, <1>8, <1>9, <1>10, ReconcilerActs

\* The plan for a listed job rests on what was listed.
LEMMA Plans ==
  ASSUME NEW j \in Jobs, NEW s, s # NotSeen, SeenOK(s, jobs[j])
  PROVE  Plan(j, s) \in RecTodos /\ PlanOK(Plan(j, s), s.approval, jobs[j], appr)
<1>1. CASE s.state = "succeeded" /\ Succ(jobs[j])
  <2>1. Plan(j, s) = <<"mark">> \/ Plan(j, s) = <<"final", "mark">>
    BY <1>1 DEF Plan
  <2>2. QED
    BY <1>1, <2>1 DEF RecTodos, PlanOK
<1>2. CASE s.state = "waiting_approval" /\ Done(jobs[j]) /\ s.approval \in Approvals
  <2>1. Plan(j, s) = <<"slot", "verdict">>
    BY <1>2 DEF Plan
  <2>2. QED
    BY <1>2, <2>1 DEF RecTodos, PlanOK
<1>3. CASE s.state = "queued" /\ (~s.expired => Spent(jobs[j]))
  <2>1. Plan(j, s) = <<"cancel", "slot">> \o (IF s.expired THEN <<>> ELSE Notice(j))
    BY <1>3 DEF Plan
  <2>2. \/ Plan(j, s) = <<"cancel", "slot">>
        \/ Plan(j, s) = <<"cancel", "slot", "failure">> /\ ~s.expired
    BY <2>1, Joins DEF Notice
  <2>3. QED
    BY <1>3, <2>2 DEF RecTodos, PlanOK
<1>4. CASE s.state = "needs_reconciliation" /\ Done(jobs[j])
  <2>1. Plan(j, s) = <<"slot">>
    BY <1>4 DEF Plan
  <2>2. QED
    BY <1>4, <2>1 DEF RecTodos, PlanOK
<1>5. CASE s.state = "retry_wait"
  <2>1. Plan(j, s) = <<"release">>
    BY <1>5 DEF Plan
  <2>2. QED
    BY <1>5, <2>1 DEF RecTodos, PlanOK
<1>6. QED
  BY <1>1, <1>2, <1>3, <1>4, <1>5 DEF SeenOK

\* TakeListed: the plan is made from what was listed, however long ago.
LEMMA TakeListedStep ==
  ASSUME IInv, NEW j \in Jobs, TakeListed(j)
  PROVE  IInv' /\ [QueueNext]_queueVars
<1> DEFINE s == rec.list[j]
           list == [rec.list EXCEPT ![j] = NotSeen]
           todo == Plan(j, s)
           x == [list |-> list, job |-> j, seen |-> s, todo |-> todo]
<1>1. /\ s # NotSeen /\ rec' = x
      /\ UNCHANGED queueVars /\ slot' = slot /\ dl' = dl /\ UNCHANGED onlyReconciler
  BY DEF TakeListed
<1>2. /\ QInv /\ GrantInv /\ SlotInv /\ DeliveriesInv /\ ReconcilerInv
      /\ appr' = appr /\ jobs' = jobs
  BY <1>1 DEF IInv, onlyReconciler, queueVars
<1>3. /\ rec.list \in [Jobs -> SeenRec] /\ s \in SeenRec
      /\ \A k \in Jobs : SeenOK(rec.list[k], jobs[k])
  BY <1>2 DEF ReconcilerInv, ReconcilerRec
<1>4. list \in [Jobs -> SeenRec] /\ \A k \in Jobs : SeenOK(list[k], jobs[k])
  BY <1>3, NoPass DEF SeenOK
<1>5. todo \in RecTodos /\ PlanOK(todo, s.approval, jobs[j], appr)
  BY <1>1, <1>3, Plans
<1> HIDE DEF s, list, todo
<1>6. /\ x \in ReconcilerRec /\ x.list = list /\ x.job = j /\ x.seen = s
      /\ x.todo = todo
  BY <1>3, <1>4, <1>5 DEF ReconcilerRec, s
<1> HIDE DEF x
<1>7. /\ rec' \in ReconcilerRec
      /\ \A k \in Jobs : SeenOK(rec'.list[k], jobs'[k])
      /\ rec'.job \in Jobs
      /\ PlanOK(rec'.todo, rec'.seen.approval, jobs'[rec'.job], appr')
  BY <1>1, <1>2, <1>4, <1>5, <1>6
<1>8. ReconcilerInv'
  BY <1>7 DEF ReconcilerInv
<1>9. QueueGoes(NoToken) /\ QuietSlots /\ QuietGrants
  BY <1>1, <1>2, QueueRests
<1>10. SlotInv' /\ DeliveriesInv' /\ GrantInv'
  BY <1>1, <1>2, <1>9, SlotsStand, DeliveriesStand, GrantsStand
<1>11. QED
  BY <1>1, <1>8, <1>9, <1>10, ReconcilerActs

\* A step of the reconciler that leaves slots and deliveries alone.
LEMMA ReconcilerGoesThen ==
  ASSUME IInv, QueueGoes(NoToken), QuietSlots, GrantInv', slot' = slot, dl' = dl,
         NEW todo, Then(todo), UNCHANGED onlyReconciler, rec.todo # <<>>,
         todo # <<>> => /\ todo \in RecTodos
                        /\ PlanOK(todo, rec.seen.approval, jobs'[rec.job], appr)
  PROVE  IInv' /\ [QueueNext]_queueVars
<1>1. appr' = appr
  BY DEF onlyReconciler
<1>2. rec.job \in Jobs
  BY DEF IInv, ReconcilerInv
<1>3. ReconcilerInv'
  BY <1>1, <1>2, GoesThen DEF IInv
<1>4. SlotInv' /\ DeliveriesInv'
  BY SlotsStand, DeliveriesStand DEF IInv
<1>5. QED
  BY <1>3, <1>4, ReconcilerActs

\* The verdict: an approval found given stays given.
LEMMA ReconcileVerdictStep ==
  ASSUME IInv, rec.todo = <<"verdict">>, ReconcileVerdict(rec.seen.approval),
         UNCHANGED onlyReconciler
  PROVE  IInv' /\ [QueueNext]_queueVars
<1> DEFINE a == rec.seen.approval
           todo == Verdict(appr[a].status, rec.seen.late)
<1>1. rec.todo # <<>>
  BY Lists
<1>2. /\ QInv /\ GrantInv
      /\ PlanOK(rec.todo, a, jobs[rec.job], appr)
  BY <1>1 DEF IInv, ReconcilerInv
<1>3. a \in Approvals
  BY <1>2, Lists DEF PlanOK
<1>4. Then(todo) /\ UNCHANGED queueVars /\ slot' = slot /\ dl' = dl /\ appr' = appr
  BY DEF ReconcileVerdict, onlyReconciler
<1>5. \/ todo = <<"cancel", "slot">>
      \/ todo = <<"cancel", "slot", "expire">>
      \/ todo = <<"resume">> /\ Given(appr[a])
      \/ todo = <<>>
  BY Joins DEF Verdict, Given
<1> HIDE DEF todo
<1>6. todo # <<>> => todo \in RecTodos /\ PlanOK(todo, a, jobs'[rec.job], appr)
  BY <1>3, <1>5 DEF RecTodos, PlanOK
<1>7. QueueGoes(NoToken) /\ QuietSlots /\ QuietGrants
  BY <1>2, <1>4, QueueRests
<1>8. GrantInv'
  BY <1>2, <1>4, <1>7, GrantsStand
<1>9. QED
  BY <1>1, <1>4, <1>6, <1>7, <1>8, ReconcilerGoesThen

\* The cancellation: what follows it rests on the job being cancelled.
LEMMA ReconcileCancelStep ==
  ASSUME IInv, ReconcileCancel(rec.job), UNCHANGED onlyReconciler,
         \/ rec.todo = <<"cancel", "slot">>
         \/ rec.todo = <<"cancel", "slot", "failure">> /\ Spent(jobs[rec.job])
         \/ rec.todo = <<"cancel", "slot", "expire">>
  PROVE  IInv' /\ [QueueNext]_queueVars
<1> DEFINE j == rec.job
           todo == Tail(rec.todo)
<1>1. rec.todo # <<>>
  BY Lists
<1>2. QInv /\ GrantInv /\ j \in Jobs
  BY <1>1 DEF IInv, ReconcilerInv
<1>3. slot' = slot /\ dl' = dl /\ appr' = appr
  BY DEF ReconcileCancel, onlyReconciler
<1>4. CASE Cancel(j) /\ Then(todo)
  <2>1. /\ QueueGoes(NoToken) /\ QuietSlots /\ QuietGrants
        /\ Done(jobs'[j]) /\ (Spent(jobs[j]) => Fell(jobs'[j]))
    BY <1>2, <1>4, Cancels
  <2>2. \/ todo = <<"slot">>
        \/ todo = <<"slot", "failure">> /\ Spent(jobs[j])
        \/ todo = <<"slot", "expire">>
    <3>1. CASE rec.todo = <<"cancel", "slot">>
      BY <3>1, Lists
    <3>2. CASE rec.todo = <<"cancel", "slot", "failure">> /\ Spent(jobs[j])
      BY <3>2, Lists
    <3>3. CASE rec.todo = <<"cancel", "slot", "expire">>
      BY <3>3, Lists
    <3>4. QED
      BY <3>1, <3>2, <3>3
  <2> HIDE DEF todo
  <2>3. todo \in RecTodos /\ PlanOK(todo, rec.seen.approval, jobs'[j], appr)
    BY <2>1, <2>2 DEF RecTodos, PlanOK
  <2>4. GrantInv'
    BY <1>2, <1>3, <2>1, GrantsStand
  <2>5. QED
    BY <1>1, <1>3, <1>4, <2>1, <2>3, <2>4, ReconcilerGoesThen
<1>5. CASE Then(<<>>) /\ UNCHANGED queueVars
  <2>1. QueueGoes(NoToken) /\ QuietSlots /\ QuietGrants
    BY <1>2, <1>5, QueueRests
  <2>2. GrantInv'
    BY <1>2, <1>3, <2>1, GrantsStand
  <2>3. QED
    BY <1>1, <1>3, <1>5, <2>1, <2>2, ReconcilerGoesThen
<1>6. QED
  BY <1>4, <1>5 DEF ReconcileCancel

\* The resume: the approval was found given.
LEMMA ReconcileResumeStep ==
  ASSUME IInv, ReconcileResume(rec.job, rec.seen.approval), UNCHANGED onlyReconciler,
         rec.todo = <<"resume">>
  PROVE  IInv' /\ [QueueNext]_queueVars
<1> DEFINE j == rec.job
           a == rec.seen.approval
<1>1. rec.todo # <<>>
  BY Lists
<1>2. QInv /\ GrantInv /\ j \in Jobs /\ PlanOK(rec.todo, a, jobs[j], appr)
  BY <1>1 DEF IInv, ReconcilerInv
<1>3. a \in Approvals /\ Given(appr[a])
  BY <1>2, Lists DEF PlanOK
<1>4. slot' = slot /\ dl' = dl /\ appr' = appr /\ Then(<<>>)
  BY DEF ReconcileResume, onlyReconciler
<1>5. QueueGoes(NoToken) /\ QuietSlots /\ GrantInv'
  <2>1. CASE ResumeFromApproval(j, a)
    BY <1>2, <1>3, <1>4, <2>1, GrantsByResume
  <2>2. CASE UNCHANGED queueVars
    BY <1>2, <1>4, <2>2, QueueRests, GrantsStand
  <2>3. QED
    BY <2>1, <2>2 DEF ReconcileResume
<1>6. QED
  BY <1>1, <1>4, <1>5, ReconcilerGoesThen

\* The release of a retry: the notice goes out for a job that has just failed.
LEMMA ReconcileReleaseStep ==
  ASSUME IInv, ReconcileRelease(rec.job), UNCHANGED onlyReconciler,
         rec.todo = <<"release">>
  PROVE  IInv' /\ [QueueNext]_queueVars
<1> DEFINE j == rec.job
           todo == IF jobs'[j].state = "failed" THEN Append(Notice(j), "slot") ELSE <<>>
<1>1. rec.todo # <<>>
  BY Lists
<1>2. QInv /\ GrantInv /\ j \in Jobs
  BY <1>1 DEF IInv, ReconcilerInv
<1>3. slot' = slot /\ dl' = dl /\ appr' = appr
  BY DEF ReconcileRelease, onlyReconciler
<1>4. CASE ReleaseRetryWait(j) /\ Then(todo)
  <2>1. QueueGoes(NoToken) /\ QuietSlots /\ QuietGrants
    BY <1>2, <1>4, Releases
  <2>2. GrantInv'
    BY <1>2, <1>3, <2>1, GrantsStand
  <2>3. \/ todo = <<>>
        \/ /\ jobs'[j].state = "failed"
           /\ todo = <<"slot">> \/ todo = <<"failure", "slot">>
    BY Joins DEF Notice
  <2> HIDE DEF todo
  <2>4. todo # <<>> => todo \in RecTodos /\ PlanOK(todo, rec.seen.approval, jobs'[j], appr)
    BY <2>3 DEF RecTodos, PlanOK, Done, Left, Fell
  <2>5. QED
    BY <1>1, <1>3, <1>4, <2>1, <2>2, <2>4, ReconcilerGoesThen
<1>5. CASE Then(<<>>) /\ UNCHANGED queueVars
  <2>1. QueueGoes(NoToken) /\ QuietSlots /\ QuietGrants
    BY <1>2, <1>5, QueueRests
  <2>2. GrantInv'
    BY <1>2, <1>3, <2>1, GrantsStand
  <2>3. QED
    BY <1>1, <1>3, <1>5, <2>1, <2>2, ReconcilerGoesThen
<1>6. QED
  BY <1>4, <1>5 DEF ReconcileRelease

\* The rewriting of an expired card, which is a delivery or nothing.
LEMMA ReconcileExpireStep ==
  ASSUME IInv, ReconcileExpire(rec.job), UNCHANGED onlyReconciler,
         rec.todo = <<"expire">>
  PROVE  IInv' /\ [QueueNext]_queueVars
<1> DEFINE j == rec.job
<1>1. rec.todo # <<>>
  BY Lists
<1>2. QInv /\ SlotInv /\ DeliveriesInv /\ GrantInv /\ ReconcilerInv /\ j \in Jobs
  BY <1>1 DEF IInv, ReconcilerInv
<1>3. Then(<<>>) /\ UNCHANGED queueVars /\ slot' = slot /\ appr' = appr
  BY DEF ReconcileExpire, onlyReconciler
<1>4. QueueGoes(NoToken) /\ SlotInv' /\ DeliveriesInv' /\ GrantInv'
  <2>1. CASE EnqueueDelivery(j, "resolved")
    <3>1. Effect("resolved", j)
      BY <1>3, <2>1 DEF Effect, Purposes
    <3>2. QED
      BY <1>2, <1>3, <3>1, EffectStep
  <2>2. CASE dl' = dl
    <3>1. QueueGoes(NoToken) /\ QuietSlots /\ QuietGrants
      BY <1>2, <1>3, QueueRests
    <3>2. QED
      BY <1>2, <1>3, <2>2, <3>1, SlotsStand, DeliveriesStand, GrantsStand
  <2>3. QED
    BY <2>1, <2>2 DEF ReconcileExpire
<1>5. ReconcilerInv'
  BY <1>2, <1>3, <1>4, GoesThen
<1>6. QED
  BY <1>4, <1>5, ReconcilerActs

\* The lists that begin with a single operation, with the fact they rest on.
Simple(todo, d, a) ==
  \/ todo = <<"mark">>
  \/ todo = <<"final", "mark">> /\ Succ(d)
  \/ todo = <<"slot", "verdict">> /\ Done(d) /\ a \in Approvals
  \/ todo = <<"slot">> /\ Done(d)
  \/ todo = <<"slot", "failure">> /\ Fell(d)
  \/ todo = <<"failure">> /\ Fell(d)
  \/ todo = <<"failure", "slot">> /\ Fell(d)
  \/ todo = <<"slot", "expire">> /\ Done(d)

\* Such a list rests on a fact for its first entry, and so does what remains.
LEMMA SimpleList ==
  ASSUME NEW todo, NEW d, NEW a, NEW ap, Simple(todo, d, a)
  PROVE  /\ todo # <<>>
         /\ Head(todo) \in Effects
         /\ Head(todo) = "slot" => Done(d)
         /\ Head(todo) = "final" => Succ(d)
         /\ Head(todo) = "failure" => Fell(d)
         /\ Tail(todo) # <<>> => Tail(todo) \in RecTodos /\ PlanOK(Tail(todo), a, d, ap)
<1>1. Fell(d) => Done(d)
  BY DEF Fell, Done, Left
<1>2. {"mark", "final", "slot", "failure"} \subseteq Effects
  BY DEF Effects, Purposes
<1>3. CASE todo = <<"mark">>
  BY <1>2, <1>3, Lists
<1>4. CASE todo = <<"final", "mark">> /\ Succ(d)
  <2>1. todo # <<>> /\ Head(todo) = "final" /\ Tail(todo) = <<"mark">>
    BY <1>4, Lists
  <2>2. QED
    BY <1>2, <1>4, <2>1 DEF PlanOK, RecTodos
<1>5. CASE todo = <<"slot", "verdict">> /\ Done(d) /\ a \in Approvals
  <2>1. todo # <<>> /\ Head(todo) = "slot" /\ Tail(todo) = <<"verdict">>
    BY <1>5, Lists
  <2>2. QED
    BY <1>2, <1>5, <2>1 DEF PlanOK, RecTodos
<1>6. CASE todo = <<"slot">> /\ Done(d)
  BY <1>2, <1>6, Lists
<1>7. CASE todo = <<"slot", "failure">> /\ Fell(d)
  <2>1. todo # <<>> /\ Head(todo) = "slot" /\ Tail(todo) = <<"failure">>
    BY <1>7, Lists
  <2>2. QED
    BY <1>1, <1>2, <1>7, <2>1 DEF PlanOK, RecTodos
<1>8. CASE todo = <<"failure">> /\ Fell(d)
  BY <1>2, <1>8, Lists
<1>9. CASE todo = <<"failure", "slot">> /\ Fell(d)
  <2>1. todo # <<>> /\ Head(todo) = "failure" /\ Tail(todo) = <<"slot">>
    BY <1>9, Lists
  <2>2. QED
    BY <1>1, <1>2, <1>9, <2>1 DEF PlanOK, RecTodos
<1>10. CASE todo = <<"slot", "expire">> /\ Done(d)
  <2>1. todo # <<>> /\ Head(todo) = "slot" /\ Tail(todo) = <<"expire">>
    BY <1>10, Lists
  <2>2. QED
    BY <1>2, <1>10, <2>1 DEF PlanOK, RecTodos
<1>11. QED
  BY <1>3, <1>4, <1>5, <1>6, <1>7, <1>8, <1>9, <1>10 DEF Simple

\* A single operation of the reconciler.
LEMMA ReconcileEffectStep ==
  ASSUME IInv, Simple(rec.todo, jobs[rec.job], rec.seen.approval),
         Effect(Head(rec.todo), rec.job), Then(Tail(rec.todo)), UNCHANGED onlyReconciler
  PROVE  IInv' /\ [QueueNext]_queueVars
<1> DEFINE j == rec.job
           a == rec.seen.approval
           e == Head(rec.todo)
           todo == Tail(rec.todo)
<1>1. /\ rec.todo # <<>>
      /\ e = "slot" => Done(jobs[j])
      /\ e = "final" => Succ(jobs[j])
      /\ e = "failure" => Fell(jobs[j])
      /\ todo # <<>> => todo \in RecTodos /\ PlanOK(todo, a, jobs[j], appr)
  BY SimpleList
<1>2. QInv /\ SlotInv /\ DeliveriesInv /\ GrantInv /\ ReconcilerInv /\ j \in Jobs
  BY <1>1 DEF IInv, ReconcilerInv
<1>3. appr' = appr /\ Effect(e, j) /\ Then(todo)
  BY DEF onlyReconciler
<1>4. QueueGoes(NoToken) /\ SlotInv' /\ DeliveriesInv' /\ GrantInv'
  <2> HIDE DEF e, j, todo
  <2>1. QED
    BY <1>1, <1>2, <1>3, EffectStep
<1>5. todo # <<>> => PlanOK(todo, a, jobs'[j], appr)
  <2>1. KeepsVerdicts(jobs[j], jobs'[j], NoToken) /\ GrantsGrow(appr, appr')
    BY <1>2, <1>3, <1>4, SameGrants DEF QueueGoes
  <2> HIDE DEF j, a, todo
  <2>2. todo # <<>> => PlanOK(todo, a, jobs'[j], appr')
    BY <1>1, <2>1, PlanKept
  <2>3. QED
    BY <1>3, <2>2
<1>6. ReconcilerInv'
  <2> HIDE DEF todo
  <2>1. QED
    BY <1>1, <1>2, <1>3, <1>4, <1>5, GoesThen
<1>7. QED
  BY <1>4, <1>6, ReconcilerActs

\* Every step of the reconciler on its list.
LEMMA ReconcileSteps ==
  ASSUME IInv, ReconcileStep
  PROVE  IInv' /\ [QueueNext]_queueVars
<1> DEFINE todo == rec.todo
           j == rec.job
           a == rec.seen.approval
<1>1. todo # <<>> /\ UNCHANGED onlyReconciler
  BY DEF ReconcileStep
<1>2. PlanOK(todo, a, jobs[j], appr)
  BY <1>1 DEF IInv, ReconcilerInv
<1>3. CASE Simple(todo, jobs[j], a)
  <2>1. Head(todo) \in Effects
    BY <1>3, SimpleList
  <2>2. Effect(Head(todo), j) /\ Then(Tail(todo))
    BY <2>1 DEF ReconcileStep, Effects, Purposes
  <2>3. QED
    BY <1>1, <1>3, <2>2, ReconcileEffectStep
<1>4. CASE todo = <<"verdict">>
  <2>1. Head(todo) = "verdict"
    BY <1>4, Lists
  <2>2. ReconcileVerdict(a)
    BY <2>1 DEF ReconcileStep, Effects, Purposes
  <2>3. QED
    BY <1>1, <1>4, <2>2, ReconcileVerdictStep
<1>5. CASE \/ todo = <<"cancel", "slot">>
           \/ todo = <<"cancel", "slot", "failure">> /\ Spent(jobs[j])
           \/ todo = <<"cancel", "slot", "expire">>
  <2>1. Head(todo) = "cancel"
    <3>1. CASE todo = <<"cancel", "slot">>
      BY <3>1, Lists
    <3>2. CASE todo = <<"cancel", "slot", "failure">>
      BY <3>2, Lists
    <3>3. CASE todo = <<"cancel", "slot", "expire">>
      BY <3>3, Lists
    <3>4. QED
      BY <1>5, <3>1, <3>2, <3>3
  <2>2. ReconcileCancel(j)
    BY <2>1 DEF ReconcileStep, Effects, Purposes
  <2>3. QED
    BY <1>1, <1>5, <2>2, ReconcileCancelStep
<1>6. CASE todo = <<"resume">>
  <2>1. Head(todo) = "resume"
    BY <1>6, Lists
  <2>2. ReconcileResume(j, a)
    BY <2>1 DEF ReconcileStep, Effects, Purposes
  <2>3. QED
    BY <1>1, <1>6, <2>2, ReconcileResumeStep
<1>7. CASE todo = <<"release">>
  <2>1. Head(todo) = "release"
    BY <1>7, Lists
  <2>2. ReconcileRelease(j)
    BY <2>1 DEF ReconcileStep, Effects, Purposes
  <2>3. QED
    BY <1>1, <1>7, <2>2, ReconcileReleaseStep
<1>8. CASE todo = <<"expire">>
  <2>1. Head(todo) = "expire"
    BY <1>8, Lists
  <2>2. ReconcileExpire(j)
    BY <2>1 DEF ReconcileStep, Effects, Purposes
  <2>3. QED
    BY <1>1, <1>8, <2>2, ReconcileExpireStep
<1>9. QED
  <2> HIDE DEF todo, j, a
  <2>1. QED
    BY <1>2, <1>3, <1>4, <1>5, <1>6, <1>7, <1>8 DEF PlanOK, Simple

(***************************************************************************)
(* Admission, recovery, the delivery worker, crashes and time.             *)
(***************************************************************************)
\* A step that no actor takes part in.
LEMMA ActorsRest ==
  ASSUME IInv, QueueGoes(NoToken), GrantsGrow(appr, appr'), UNCHANGED actorVars,
         SlotInv', DeliveriesInv', GrantInv'
  PROVE  IInv' /\ [QueueNext]_queueVars
<1>1. /\ wk' = wk /\ bridge' = bridge /\ dec' = dec /\ rec' = rec
      /\ undelivered' = undelivered /\ crashes' = crashes
  BY DEF actorVars
<1>2. WorkersInv' /\ BridgesInv' /\ CoordinatorInv' /\ ReconcilerInv' /\ LoopsInv'
  BY <1>1, WorkersStand, BridgesStand, CoordinatorStands, ReconcilerStands, LoopsStand
     DEF IInv
<1>3. QED
  BY <1>2 DEF IInv, QueueGoes

\* A step of the queue alone.
LEMMA QueueAlone ==
  ASSUME IInv, QueueGoes(NoToken), QuietSlots, QuietGrants,
         UNCHANGED <<slot, appr, dl, actorVars>>
  PROVE  IInv' /\ [QueueNext]_queueVars
<1>1. slot' = slot /\ appr' = appr /\ dl' = dl /\ UNCHANGED actorVars
  OBVIOUS
<1>2. SlotInv' /\ DeliveriesInv' /\ GrantInv' /\ GrantsGrow(appr, appr')
  BY <1>1, SlotsStand, DeliveriesStand, GrantsStand, SameGrants DEF IInv
<1>3. QED
  BY <1>1, <1>2, ActorsRest

\* Submit: an interactive job comes with its reservation.
LEMMA SubmitStep ==
  ASSUME IInv, NEW j \in Jobs, Submit(j)
  PROVE  IInv' /\ [QueueNext]_queueVars
<1>1. /\ Enqueue(j)
      /\ slot' = [slot EXCEPT ![j] = IF j \in Interactive THEN "held" ELSE @]
      /\ appr' = appr /\ dl' = dl /\ UNCHANGED actorVars
  BY DEF Submit
<1>2. QInv /\ SlotInv /\ DeliveriesInv /\ GrantInv
  BY DEF IInv
<1>3. /\ QueueGoes(NoToken) /\ QuietGrants
      /\ \A k \in Jobs \ {j} : jobs'[k] = jobs[k]
  BY <1>1, <1>2, Enqueues
<1>4. slot \in [Jobs -> {"none", "held", "released"}]
  BY <1>2 DEF SlotInv
<1>5. slot' \in [Jobs -> {"none", "held", "released"}]
  BY <1>1, <1>4
<1>6. \A k \in Jobs \ {j} : slot'[k] = slot[k]
  BY <1>1, <1>4
<1>7. j \in Interactive => slot'[j] = "held"
  BY <1>1, <1>4
<1>8. \A k \in Interactive : Executing(jobs'[k]) => slot'[k] = "held"
  BY <1>2, <1>3, <1>6, <1>7, InteractiveAssumption DEF SlotInv
<1>9. SlotInv'
  BY <1>5, <1>8 DEF SlotInv, Executing
<1>10. DeliveriesInv' /\ GrantInv' /\ GrantsGrow(appr, appr')
  BY <1>1, <1>2, <1>3, DeliveriesStand, GrantsStand, SameGrants
<1>11. QED
  BY <1>1, <1>3, <1>9, <1>10, ActorsRest

\* The recovery of expired leases, and the clock.
LEMMA ClockSteps ==
  ASSUME IInv, NEW j \in Jobs,
         RecoverJobs(j) \/ LoseLease(j) \/ ReachExpiry(j) \/ PurgeJob(j)
  PROVE  IInv' /\ [QueueNext]_queueVars
<1>1. QInv
  BY DEF IInv
<1>2. UNCHANGED <<slot, appr, dl, actorVars>>
  BY DEF RecoverJobs, LoseLease, ReachExpiry, PurgeJob
<1>3. QueueGoes(NoToken) /\ QuietSlots /\ QuietGrants
  BY <1>1, Recovers, TimePasses, Deletes DEF RecoverJobs, LoseLease, ReachExpiry, PurgeJob
<1>4. QED
  BY <1>2, <1>3, QueueAlone

\* An approval expires: it stays asked and, if it was given, given.
LEMMA ApprovalExpiresStep ==
  ASSUME IInv, NEW a \in Approvals, ApprovalExpires(a)
  PROVE  IInv' /\ [QueueNext]_queueVars
<1> DEFINE ap == [appr[a] EXCEPT !.expired = TRUE]
<1>1. /\ Asked(appr[a]) /\ appr' = [appr EXCEPT ![a] = ap]
      /\ UNCHANGED queueVars /\ slot' = slot /\ dl' = dl /\ UNCHANGED actorVars
  BY DEF ApprovalExpires, Asked
<1>2. QInv /\ SlotInv /\ DeliveriesInv /\ GrantInv
  BY DEF IInv
<1>3. appr[a] \in ApprovalRec /\ appr[a].job \in Jobs
  BY <1>1, <1>2 DEF GrantInv
<1>4. ap \in ApprovalRec /\ ap.status = appr[a].status /\ ap.job = appr[a].job
  BY <1>3 DEF ApprovalRec
<1> HIDE DEF ap
<1>5. /\ Asked(appr[a]) => Asked(ap) /\ ap.job = appr[a].job
      /\ Given(appr[a]) => Given(ap)
      /\ Asked(ap) => ap.job \in Jobs
  BY <1>3, <1>4 DEF Asked, Given
<1>6. QueueGoes(NoToken) /\ QuietSlots /\ QuietGrants
  BY <1>1, <1>2, QueueRests
<1>7. GrantInv' /\ GrantsGrow(appr, appr')
  BY <1>1, <1>2, <1>4, <1>5, <1>6, ApprovalGrows
<1>8. SlotInv' /\ DeliveriesInv'
  BY <1>1, <1>2, <1>6, SlotsStand, DeliveriesStand
<1>9. QED
  BY <1>1, <1>6, <1>7, <1>8, ActorsRest

\* A step of the delivery worker.
LEMMA DelivererActs ==
  ASSUME IInv, QueueGoes(NoToken), QuietSlots, QuietGrants, DeliveriesInv',
         undelivered' \subseteq Jobs, UNCHANGED onlyDelivery
  PROVE  IInv' /\ [QueueNext]_queueVars
<1>1. /\ slot' = slot /\ appr' = appr /\ dec' = dec /\ rec' = rec /\ wk' = wk
      /\ bridge' = bridge /\ crashes' = crashes
  BY DEF onlyDelivery
<1>2. SlotInv' /\ GrantInv' /\ GrantsGrow(appr, appr')
  BY <1>1, SlotsStand, GrantsStand, SameGrants DEF IInv
<1>3. WorkersInv' /\ BridgesInv' /\ CoordinatorInv' /\ ReconcilerInv'
  BY <1>1, <1>2, WorkersStand, BridgesStand, CoordinatorStands, ReconcilerStands DEF IInv
<1>4. LoopsInv'
  BY <1>1 DEF IInv, LoopsInv
<1>5. QED
  BY <1>2, <1>3, <1>4 DEF IInv, QueueGoes

\* A pending delivery becomes another one: it was enqueued already.
LEMMA DeliveryMoves ==
  ASSUME IInv, NEW j \in Jobs, NEW k \in Purposes, NEW st \in DeliveryStatus,
         dl[j][k] = "pending", dl' = [dl EXCEPT ![j][k] = st], UNCHANGED queueVars
  PROVE  DeliveriesInv'
<1>1. jobs' = jobs
  BY DEF queueVars
<1>2. dl \in [Jobs -> [Purposes -> DeliveryStatus]]
  BY DEF IInv, DeliveriesInv
<1>3. dl' \in [Jobs -> [Purposes -> DeliveryStatus]]
  BY <1>2
<1>4. \A i \in Jobs, p \in Purposes :
        dl'[i][p] = IF i = j /\ p = k THEN st ELSE dl[i][p]
  BY <1>2
<1>5. \A i \in Jobs, p \in Purposes : dl'[i][p] # "none" => dl[i][p] # "none"
  BY <1>4
<1>6. "final" \in Purposes /\ "failure" \in Purposes
  BY DEF Purposes
<1>7. \A i \in Jobs : /\ dl'[i]["final"] # "none" => Succ(jobs[i])
                      /\ dl'[i]["failure"] # "none" => Fell(jobs[i])
  BY <1>5, <1>6 DEF IInv, DeliveriesInv
<1>8. QED
  BY <1>1, <1>3, <1>7 DEF DeliveriesInv, Succ, Fell

\* The delivery worker sends a card, or gives a record up.
LEMMA DeliverySteps ==
  ASSUME IInv, NEW j \in Jobs,
         \/ SendCard(j)
         \/ \E k \in Purposes : AbandonDelivery(j, k) \/ ExhaustDelivery(j, k)
  PROVE  IInv' /\ [QueueNext]_queueVars
<1>1. UNCHANGED queueVars /\ UNCHANGED onlyDelivery
  BY DEF SendCard, AbandonDelivery, ExhaustDelivery
<1>2. PICK k \in Purposes, st \in DeliveryStatus :
        dl[j][k] = "pending" /\ dl' = [dl EXCEPT ![j][k] = st]
  <2>1. /\ "requested" \in Purposes
        /\ "delivered" \in DeliveryStatus
        /\ "abandoned" \in DeliveryStatus
    BY DEF Purposes, DeliveryStatus
  <2>2. QED
    BY <2>1 DEF SendCard, AbandonDelivery, ExhaustDelivery
<1>3. DeliveriesInv'
  BY <1>1, <1>2, DeliveryMoves
<1>4. undelivered' \subseteq Jobs
  BY DEF IInv, LoopsInv, SendCard, AbandonDelivery, ExhaustDelivery
<1>5. QueueGoes(NoToken) /\ QuietSlots /\ QuietGrants
  BY <1>1, QueueRests DEF IInv
<1>6. QED
  BY <1>1, <1>3, <1>4, <1>5, DelivererActs

\* The mark of a job whose delivery was given up.
LEMMA MarkUndeliveredStep ==
  ASSUME IInv, NEW j \in Jobs, MarkUndelivered(j)
  PROVE  IInv' /\ [QueueNext]_queueVars
<1>1. dl' = dl /\ UNCHANGED onlyDelivery
  BY DEF MarkUndelivered
<1>2. QueueGoes(NoToken) /\ QuietSlots /\ QuietGrants
  BY Marks, QueueRests DEF IInv, MarkUndelivered
<1>3. undelivered' \subseteq Jobs
  BY DEF IInv, LoopsInv, MarkUndelivered
<1>4. DeliveriesInv'
  BY <1>1, <1>2, DeliveriesStand DEF IInv
<1>5. QED
  BY <1>1, <1>2, <1>3, <1>4, DelivererActs

\* One more crash.
LEMMA CrashCounts ==
  ASSUME LoopsInv, MayCrash
  PROVE  crashes' \in 0 .. MaxCrashes
  BY MaxCrashesAssumption DEF LoopsInv, MayCrash

\* A worker crashes, and the tool call of its harness with it.
LEMMA CrashWorkerStep ==
  ASSUME IInv, NEW w \in Workers, CrashWorker(w)
  PROVE  IInv' /\ [QueueNext]_queueVars
<1>1. /\ MayCrash
      /\ wk' = [wk EXCEPT ![w] = IdleWorker]
      /\ bridge' = [bridge EXCEPT ![w] = IdleBridge]
      /\ UNCHANGED queueVars
      /\ slot' = slot /\ appr' = appr /\ dl' = dl /\ dec' = dec /\ rec' = rec
      /\ undelivered' = undelivered
  BY DEF CrashWorker
<1>2. QueueGoes(NoToken) /\ QuietSlots /\ QuietGrants /\ GrantsGrow(appr, appr')
  BY <1>1, QueueRests, SameGrants DEF IInv
<1>3. SlotInv' /\ DeliveriesInv' /\ GrantInv' /\ CoordinatorInv' /\ ReconcilerInv'
  BY <1>1, <1>2, SlotsStand, DeliveriesStand, GrantsStand, CoordinatorStands,
     ReconcilerStands DEF IInv
<1>4. WorkersInv'
  <2>1. WorkerOK(IdleWorker, jobs'[IdleWorker.job], nextToken') /\ IdleWorker.pc = "idle"
    BY Idle
  <2>2. QED
    BY <1>1, <1>2, <2>1, WorkerMoves DEF IInv
<1>5. BridgesInv'
  BY <1>1, <1>2, IdleCall, BridgeMoves DEF IInv
<1>6. LoopsInv'
  <2>1. crashes' \in 0 .. MaxCrashes
    BY <1>1, CrashCounts DEF IInv
  <2>2. QED
    BY <1>1, <2>1 DEF IInv, LoopsInv
<1>7. QED
  BY <1>2, <1>3, <1>4, <1>5, <1>6 DEF IInv, QueueGoes

\* The control process crashes.
LEMMA CrashControlStep ==
  ASSUME IInv, CrashControl
  PROVE  IInv' /\ [QueueNext]_queueVars
<1>1. /\ MayCrash
      /\ dec' = IdleDecision /\ rec' = IdleReconciler /\ undelivered' = {}
      /\ UNCHANGED queueVars
      /\ slot' = slot /\ appr' = appr /\ dl' = dl /\ wk' = wk /\ bridge' = bridge
  BY DEF CrashControl
<1>2. QueueGoes(NoToken) /\ QuietSlots /\ QuietGrants /\ GrantsGrow(appr, appr')
  BY <1>1, QueueRests, SameGrants DEF IInv
<1>3. SlotInv' /\ DeliveriesInv' /\ GrantInv' /\ WorkersInv' /\ BridgesInv'
  BY <1>1, <1>2, SlotsStand, DeliveriesStand, GrantsStand, WorkersStand, BridgesStand
     DEF IInv
<1>4. CoordinatorInv'
  <2>1. DecisionOK(IdleDecision, appr', jobs')
    BY NoDecision
  <2>2. QED
    BY <1>1, <2>1 DEF CoordinatorInv
<1>5. ReconcilerInv'
  <2>1. /\ rec' \in ReconcilerRec /\ rec'.todo = <<>>
        /\ \A j \in Jobs : SeenOK(rec'.list[j], jobs'[j])
    BY <1>1, NoPass DEF SeenOK
  <2>2. QED
    BY <2>1 DEF ReconcilerInv
<1>6. LoopsInv'
  <2>1. crashes' \in 0 .. MaxCrashes
    BY <1>1, CrashCounts DEF IInv
  <2>2. QED
    BY <1>1, <2>1 DEF LoopsInv
<1>7. QED
  BY <1>2, <1>3, <1>4, <1>5, <1>6 DEF IInv, QueueGoes

(***************************************************************************)
(* The theorems.                                                           *)
(***************************************************************************)
\* Every step, or a stutter, keeps the invariant and is a step of the queue.
LEMMA LifeStep ==
  ASSUME IInv, [LifeNext]_lifeVars
  PROVE  IInv' /\ [QueueNext]_queueVars
<1>1. CASE UNCHANGED lifeVars
  <2>1. UNCHANGED queueVars /\ UNCHANGED <<slot, appr, dl, actorVars>>
    BY <1>1 DEF lifeVars
  <2>2. QueueGoes(NoToken) /\ QuietSlots /\ QuietGrants
    BY <2>1, QueueRests DEF IInv
  <2>3. QED
    BY <2>1, <2>2, QueueAlone
<1>2. ASSUME NEW j \in Jobs,
             \/ Submit(j) \/ RecoverJobs(j) \/ TakeListed(j) \/ SendCard(j)
             \/ MarkUndelivered(j) \/ LoseLease(j) \/ ReachExpiry(j) \/ PurgeJob(j)
             \/ \E k \in Purposes : AbandonDelivery(j, k) \/ ExhaustDelivery(j, k)
      PROVE  IInv' /\ [QueueNext]_queueVars
  BY <1>2, SubmitStep, ClockSteps, TakeListedStep, DeliverySteps, MarkUndeliveredStep
<1>3. ASSUME NEW w \in Workers,
             WorkerStep(w) \/ BridgeAuthorize(w) \/ BridgeStep(w) \/ CrashWorker(w)
      PROVE  IInv' /\ [QueueNext]_queueVars
  BY <1>3, WorkerSteps, BridgeSteps, CrashWorkerStep
<1>4. ASSUME NEW a \in Approvals, NEW approve \in BOOLEAN, HandleSlackDecision(a, approve)
      PROVE  IInv' /\ [QueueNext]_queueVars
  BY <1>4, HandleStep
<1>5. ASSUME NEW a \in Approvals, ApprovalExpires(a)
      PROVE  IInv' /\ [QueueNext]_queueVars
  BY <1>5, ApprovalExpiresStep
<1>6. CASE DecisionStep \/ ListJobs \/ ReconcileStep \/ CrashControl
  BY <1>6, DecisionSteps, ListJobsStep, ReconcileSteps, CrashControlStep
<1>7. QED
  BY <1>1, <1>2, <1>3, <1>4, <1>5, <1>6 DEF LifeNext

\* The empty system.
LEMMA LifeStart ==
  ASSUME LifeInit
  PROVE  IInv
<1>1. /\ QueueInit
      /\ slot = [j \in Jobs |-> "none"]
      /\ appr = [a \in Approvals |-> [status |-> "none", job |-> None, expired |-> FALSE]]
      /\ dl = [j \in Jobs |-> [k \in Purposes |-> "none"]]
      /\ wk = [w \in Workers |-> IdleWorker]
      /\ bridge = [w \in Workers |-> IdleBridge]
      /\ dec = IdleDecision
      /\ rec = IdleReconciler
      /\ undelivered = {}
      /\ crashes = 0
  BY DEF LifeInit
<1>2. /\ NoJob.state = "absent" /\ NoJob.epoch = 0 /\ NoJob.approved = FALSE
      /\ \A j \in Jobs : jobs[j] = NoJob
  BY <1>1 DEF QueueInit, NoJob
<1>3. QInv
  BY <1>1, <1>2, QueueStart DEF QInv, LifeDoc
<1>4. SlotInv
  <2>1. \A j \in Jobs : ~Executing(jobs[j])
    BY <1>2 DEF Executing
  <2>2. QED
    BY <1>1, <2>1, InteractiveAssumption DEF SlotInv
<1>5. DeliveriesInv
  <2>1. /\ "none" \in DeliveryStatus
        /\ "final" \in Purposes
        /\ "failure" \in Purposes
    BY DEF DeliveryStatus, Purposes
  <2>2. QED
    BY <1>1, <2>1 DEF DeliveriesInv
<1>6. GrantInv
  <2> DEFINE ap == [status |-> "none", job |-> None, expired |-> FALSE]
  <2>1. ap \in ApprovalRec /\ ~Asked(ap)
    BY DEF ApprovalRec, ApprovalStatus, Asked
  <2>2. appr = [a \in Approvals |-> ap]
    BY <1>1
  <2> HIDE DEF ap
  <2>3. QED
    BY <1>2, <2>1, <2>2 DEF GrantInv
<1>7. WorkersInv
  <2>1. /\ \A d, n : WorkerOK(IdleWorker, d, n)
        /\ IdleWorker.pc = "idle"
    BY Idle
  <2>2. IdleWorker \in WorkerRec
    BY <2>1 DEF WorkerOK
  <2>3. QED
    BY <1>1, <2>1, <2>2 DEF WorkersInv
<1>8. BridgesInv
  <2>1. BridgeOK(IdleBridge, appr)
    BY IdleCall
  <2>2. IdleBridge \in BridgeRec
    BY <2>1 DEF BridgeOK
  <2>3. QED
    BY <1>1, <2>1, <2>2 DEF BridgesInv
<1>9. CoordinatorInv
  <2>1. DecisionOK(IdleDecision, appr, jobs)
    BY NoDecision
  <2>2. QED
    BY <1>1, <2>1 DEF CoordinatorInv
<1>10. ReconcilerInv
  BY <1>1, NoPass DEF ReconcilerInv, SeenOK
<1>11. LoopsInv
  BY <1>1, MaxCrashesAssumption DEF LoopsInv
<1>12. QED
  BY <1>3, <1>4, <1>5, <1>6, <1>7, <1>8, <1>9, <1>10, <1>11 DEF IInv

\* The inductive invariant contains what is promised.
LEMMA LifePromise ==
  ASSUME IInv
  PROVE  LifeInv
<1>1. LifeTypeOK
  <2>1. ASSUME NEW w \in Workers
        PROVE  /\ wk[w].job \in Jobs \cup {None}
               /\ wk[w].pc \in WorkerPc
               /\ (wk[w].pc = "idle") <=> (wk[w] = IdleWorker)
               /\ (wk[w].pc = "finish") <=> (wk[w].todo # <<>>)
               /\ bridge[w].pc \in BridgePc
    <3>1. /\ WorkerOK(wk[w], jobs[wk[w].job], nextToken)
          /\ BridgeOK(bridge[w], appr)
      BY DEF IInv, WorkersInv, BridgesInv
    <3>2. wk[w] \in WorkerRec /\ bridge[w] \in BridgeRec
      BY <3>1 DEF WorkerOK, BridgeOK
    <3>3. IdleWorker.pc = "idle"
      BY Idle
    <3>4. (wk[w].pc = "idle") <=> (wk[w] = IdleWorker)
      BY <3>1, <3>3 DEF WorkerOK
    <3>5. (wk[w].pc = "finish") <=> (wk[w].todo # <<>>)
      BY <3>1 DEF WorkerOK
    <3>6. QED
      BY <3>2, <3>4, <3>5 DEF WorkerRec, BridgeRec
  <2>2. QueueTypeOK
    BY DEF IInv, QInv, QueueInv
  <2>3. /\ slot \in [Jobs -> {"none", "held", "released"}]
        /\ dl \in [Jobs -> [Purposes -> DeliveryStatus]]
        /\ appr \in [Approvals -> ApprovalRec]
        /\ undelivered \subseteq Jobs
        /\ crashes \in 0 .. MaxCrashes
    BY DEF IInv, SlotInv, DeliveriesInv, GrantInv, LoopsInv
  <2>4. QED
    BY <2>1, <2>2, <2>3 DEF LifeTypeOK, WorkerPc, BridgePc, ApprovalRec
<1>2. VerdictMatchesState
  BY DEF IInv, DeliveriesInv, VerdictMatchesState, Succ, Fell
<1>3. SlotHeldWhileExecuting
  BY DEF IInv, SlotInv, SlotHeldWhileExecuting, Executing
<1>4. ResumedByApproval
  BY DEF IInv, GrantInv, ResumedByApproval, Given
<1>5. QED
  BY <1>1, <1>2, <1>3, <1>4 DEF LifeInv

\* Whatever workers, tool bridge, coordinator, reconciler and delivery worker
\* read before each other's steps and do after them, and wherever one crashes:
\* Slack is told what the job became, a job that executes owns its admission
\* slot, and a resumed job was resumed by its own approval.
THEOREM LifeSafe == LifeSpec => []LifeInv
<1>1. LifeInit => IInv
  BY LifeStart
<1>2. IInv /\ [LifeNext]_lifeVars => IInv'
  BY LifeStep
<1>3. IInv => LifeInv
  BY LifePromise
<1>4. QED
  BY <1>1, <1>2, <1>3, PTL DEF LifeSpec

\* Every step of the pipeline's actors is one operation of the job queue or
\* leaves the queue alone: processOneJob, the bridge, the coordinator and the
\* reconciler use the queue only as the queue's own specification allows.
THEOREM LifeImplementsQueue == LifeSpec => ImplementsQueue
<1>1. LifeInit => IInv /\ QueueInit
  BY LifeStart DEF LifeInit
<1>2. IInv /\ [LifeNext]_lifeVars => IInv' /\ [QueueNext]_queueVars
  BY LifeStep
<1>3. QED
  BY <1>1, <1>2, PTL DEF LifeSpec, ImplementsQueue, QueueSpec

\* Hence what is proved of the queue under every use holds of the pipeline: one
\* writer per session and no attempt beyond the budget, no settled job revived
\* and no lost lease token honoured again.
THEOREM PipelineKeepsQueueSafe ==
  LifeSpec => []QueueInv /\ TerminalIsFinal /\ LostTokensStayLost
  BY LifeImplementsQueue, QueueInvariant, SettledStaysSettled, FencedForEver, PTL
     DEF ImplementsQueue
=============================================================================
