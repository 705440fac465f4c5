----------------------------- MODULE JobLifecycle -----------------------------
(***************************************************************************)
(* A job from its admission to its verdict: the workers of the pipeline    *)
(* (processOneJob, runHarness), the tool bridge that suspends a job for    *)
(* approval, the coordinator that applies a Slack decision, the job        *)
(* reconciler and the delivery worker, all working on the job queue.       *)
(*                                                                         *)
(* Each actor's program counter is its own; everything else is in MongoDB. *)
(* A handler is a sequence of database operations, and between any two of  *)
(* them the other actors may run and the actor may crash.  What a handler  *)
(* still has to do, once its course is settled, is its todo list.  A crash *)
(* loses program counters and todo lists and nothing else.                 *)
(***************************************************************************)
EXTENDS JobQueue, Sequences

CONSTANTS Workers,       \* job workers
          Interactive,   \* the agent_response jobs; the others are routines
          None,          \* no job
          MaxCrashes,    \* bound: how often an actor crashes
          CardsMayFail   \* whether Slack may refuse an approval card for good

ASSUME InteractiveAssumption == Interactive \subseteq Jobs
ASSUME NoneAssumption == None \notin Jobs
ASSUME MaxCrashesAssumption == MaxCrashes \in Nat
ASSUME CardsMayFailAssumption == CardsMayFail \in BOOLEAN

VARIABLES slot,          \* admission reservation of each job
          appr,          \* the approvals collection
          dl,            \* the deliveries collection, by job and purpose
          wk,            \* the workers
          bridge,        \* the tool call each worker's harness has under way
          dec,           \* the approval coordinator
          rec,           \* the job reconciler
          undelivered,   \* jobs the delivery worker is about to mark
          crashes

actorVars == <<wk, bridge, dec, rec, undelivered, crashes>>
lifeVars == <<queueVars, slot, appr, dl, actorVars>>

Purposes == {"final", "failure", "requested", "resolved"}
DeliveryStatus == {"none", "pending", "delivered", "abandoned"}
ApprovalStatus == {"none", "pending", "approved", "denied", "consumed"}
Outcomes == {"ok", "fatal", "retry", "revoked"}

IdleWorker == [pc |-> "idle", job |-> None, token |-> NoToken, epoch |-> 0,
               grant |-> NoApproval, outcome |-> "ok", todo |-> <<>>]
IdleBridge == [pc |-> "idle", job |-> None, token |-> NoToken, appr |-> NoApproval]
IdleDecision == [appr |-> NoApproval, todo |-> <<>>]

\* What reconcileJobs keeps of a listed job, and of the clock at that moment.
NotSeen == [state |-> "absent", approval |-> NoApproval, late |-> FALSE,
            expired |-> FALSE]
Seen(j) == [state |-> jobs[j].state, approval |-> jobs[j].approval,
            late |-> /\ jobs[j].approval # NoApproval
                     /\ appr[jobs[j].approval].expired,
            expired |-> jobs[j].expired]
EmptyList == [j \in Jobs |-> NotSeen]
IdleReconciler == [list |-> EmptyList, job |-> None, seen |-> NotSeen, todo |-> <<>>]

LifeInit == /\ QueueInit
            /\ slot = [j \in Jobs |-> "none"]
            /\ appr = [a \in Approvals |->
                         [status |-> "none", job |-> None, expired |-> FALSE]]
            /\ dl = [j \in Jobs |-> [k \in Purposes |-> "none"]]
            /\ wk = [w \in Workers |-> IdleWorker]
            /\ bridge = [w \in Workers |-> IdleBridge]
            /\ dec = IdleDecision
            /\ rec = IdleReconciler
            /\ undelivered = {}
            /\ crashes = 0

(***************************************************************************)
(* The database operations that handlers share.                            *)
(***************************************************************************)
\* Admissions.Complete: idempotent, and nothing for a job without reservation.
CompleteSlot(j) ==
  slot' = [slot EXCEPT ![j] = IF @ = "held" THEN "released" ELSE @]

\* Deliveries.Enqueue: the idempotency key makes the second call a no-op.
EnqueueDelivery(j, k) ==
  dl' = [dl EXCEPT ![j][k] = IF @ = "none" THEN "pending" ELSE @]

\* enqueueInteractiveFailureNotice tells nobody about a routine.
Notice(j) == IF j \in Interactive THEN <<"failure">> ELSE <<>>

\* A fenced transition whose error the caller ignores or handles.
TryTransition(j, t, to) ==
  IF CanMove(j, t, to) THEN Transition(j, t, to) ELSE UNCHANGED queueVars

TryMark(j) == IF jobs[j].state = "succeeded" THEN MarkFinalDeliveryEnqueued(j)
                                             ELSE UNCHANGED queueVars

\* One entry of a todo list that is a single unconditional operation.
Effect(e, j) ==
  \/ /\ e = "slot"
     /\ CompleteSlot(j)
     /\ UNCHANGED <<queueVars, dl>>
  \/ /\ e \in Purposes
     /\ EnqueueDelivery(j, e)
     /\ UNCHANGED <<queueVars, slot>>
  \/ /\ e = "mark"
     /\ TryMark(j)
     /\ UNCHANGED <<slot, dl>>

Effects == Purposes \cup {"slot", "mark"}

\* The decision that admitted an observation, or the scheduler, enqueues a job;
\* only an agent_response job comes with an admission reservation.
Submit(j) ==
  /\ Enqueue(j)
  /\ slot' = [slot EXCEPT ![j] = IF j \in Interactive THEN "held" ELSE @]
  /\ UNCHANGED <<appr, dl, actorVars>>

(***************************************************************************)
(* The workers: processOneJob.                                             *)
(***************************************************************************)
GoTo(w, pc) == wk' = [wk EXCEPT ![w].pc = pc]

Return(w) == wk' = [wk EXCEPT ![w] = IdleWorker]

\* Past the harness the worker only needs the job's id and its lease token.
After(w) == [IdleWorker EXCEPT !.job = wk[w].job, !.token = wk[w].token]
Settle(w, pc) == wk' = [wk EXCEPT ![w] = [After(w) EXCEPT !.pc = pc]]
Finish(w, todo) ==
  wk' = [wk EXCEPT ![w] = [After(w) EXCEPT !.pc = "finish", !.todo = todo]]

onlyWorker == <<slot, appr, dl, bridge, dec, rec, undelivered, crashes>>

ClaimJob(w) ==
  /\ wk[w].pc = "idle"
  /\ \E j \in Jobs :
       /\ Claim(j)
       /\ wk' = [wk EXCEPT ![w] = [IdleWorker EXCEPT !.pc = "claimed", !.job = j,
                                                    !.token = nextToken]]
  /\ UNCHANGED onlyWorker

\* Mutant of StartJob: a worker that lost its lease gives the slot back.
StartJobReleasing(w) ==
  LET j == wk[w].job
      t == wk[w].token
  IN /\ wk[w].pc = "claimed"
     /\ \/ /\ Transition(j, t, "running")
           /\ wk' = [wk EXCEPT ![w].pc = "gate", ![w].epoch = jobs[j].epoch,
                               ![w].grant = IF jobs[j].approved
                                              THEN jobs[j].approval ELSE NoApproval]
        \/ /\ ~CanMove(j, t, "running")
           /\ Finish(w, <<"slot">>)
           /\ UNCHANGED queueVars
     /\ UNCHANGED onlyWorker

\* The worker keeps the document Transition returns: its steering epoch, and the
\* approval it was resumed with.
StartJob(w) ==
  LET j == wk[w].job
      t == wk[w].token
  IN /\ wk[w].pc = "claimed"
     /\ \/ /\ Transition(j, t, "running")
           /\ wk' = [wk EXCEPT ![w].pc = "gate", ![w].epoch = jobs[j].epoch,
                               ![w].grant = IF jobs[j].approved
                                              THEN jobs[j].approval ELSE NoApproval]
        \/ /\ ~CanMove(j, t, "running")
           /\ Return(w)
           /\ UNCHANGED queueVars
     /\ UNCHANGED onlyWorker

\* The live channel policy or the model policy denies the job; the error of the
\* transition is ignored.
DenyJob(w) ==
  /\ wk[w].pc \in {"gate", "routed"}
  /\ TryTransition(wk[w].job, wk[w].token, "failed")
  /\ Finish(w, <<"slot">>)
  /\ UNCHANGED onlyWorker

\* A routine's first attempt resolves its model and persists it.
RouteJob(w) ==
  LET j == wk[w].job
      t == wk[w].token
  IN /\ wk[w].pc = "gate"
     /\ j \notin Interactive
     /\ \/ TryTransition(j, t, "failed") /\ Return(w)
        \/ Transition(j, t, "running") /\ GoTo(w, "routed")
        \/ ~CanMove(j, t, "running") /\ Return(w) /\ UNCHANGED queueVars
     /\ UNCHANGED onlyWorker

\* runHarness refuses an approved job whose approval is not approved or has been
\* consumed; the refusal is an ordinary, retryable error.
StartHarness(w) ==
  LET a == wk[w].grant
  IN /\ wk[w].pc \in {"gate", "routed"}
     /\ IF a # NoApproval /\ appr[a].status # "approved"
          THEN wk' = [wk EXCEPT ![w].pc = "ended", ![w].outcome = "retry"]
          ELSE GoTo(w, "harness")
     /\ UNCHANGED <<queueVars, onlyWorker>>

\* The harness returns a valid result (ok), an error that is not retryable or a
\* result that does not render (fatal), any other error (retry); or a heartbeat
\* finds the job not running, the policy withdrawn or the lease lost (revoked).
HarnessEnds(w, outcome) ==
  /\ wk[w].pc = "harness"
  /\ wk' = [wk EXCEPT ![w].pc = "ended", ![w].outcome = outcome]
  /\ UNCHANGED <<queueVars, onlyWorker>>

AfterHarness(w) ==
  /\ wk[w].pc = "ended"
  /\ IF jobs[wk[w].job].state = "waiting_approval"
       THEN Finish(w, <<"slot">>)
       ELSE Settle(w, wk[w].outcome)
  /\ UNCHANGED <<queueVars, onlyWorker>>

\* Revoked: read the job again, ...
RevokedLook(w) ==
  LET j == wk[w].job
  IN /\ wk[w].pc = "revoked"
     /\ \/ jobs[j].state = "running" /\ GoTo(w, "cancel")
        \/ /\ jobs[j].state = "cancelling"
           /\ jobs[j].token = wk[w].token
           /\ GoTo(w, "settle")
        \/ /\ jobs[j].state # "running"
           /\ ~(jobs[j].state = "cancelling" /\ jobs[j].token = wk[w].token)
           /\ Finish(w, <<"slot">>)
     /\ UNCHANGED <<queueVars, onlyWorker>>

\* ... ask for its cancellation by id, whoever holds the lease by now, ...
RevokedCancel(w) ==
  LET j == wk[w].job
  IN /\ wk[w].pc = "cancel"
     /\ \/ /\ Cancel(j)
           /\ IF jobs'[j].state = "cancelling" /\ jobs[j].token = wk[w].token
                THEN GoTo(w, "settle")
                ELSE Finish(w, <<"slot">>)
        \/ /\ ~Cancellable(j)
           /\ Finish(w, <<"slot">>)
           /\ UNCHANGED queueVars
     /\ UNCHANGED onlyWorker

\* ... and settle it if the lease is still this worker's.
RevokedSettle(w) ==
  /\ wk[w].pc = "settle"
  /\ TryTransition(wk[w].job, wk[w].token, "cancelled")
  /\ Finish(w, <<"slot">>)
  /\ UNCHANGED onlyWorker

\* Mutant of FailJob: the notice does not wait for the transition.
FailJobAnyway(w) ==
  LET j == wk[w].job
  IN /\ wk[w].pc = "fatal"
     /\ TryTransition(j, wk[w].token, "failed")
     /\ Finish(w, Append(Notice(j), "slot"))
     /\ UNCHANGED onlyWorker

FailJob(w) ==
  LET j == wk[w].job
      t == wk[w].token
  IN /\ wk[w].pc = "fatal"
     /\ \/ Transition(j, t, "failed") /\ Finish(w, Append(Notice(j), "slot"))
        \/ ~CanMove(j, t, "failed") /\ Finish(w, <<"slot">>) /\ UNCHANGED queueVars
     /\ UNCHANGED onlyWorker

RequeueJob(w) ==
  /\ wk[w].pc = "retry"
  /\ TryTransition(wk[w].job, wk[w].token, "retry_wait")
  /\ Return(w)
  /\ UNCHANGED onlyWorker

\* When the transition fails it also empties the worker's copy of the job, so
\* the reservation the error path completes is the empty one.
SucceedJob(w) ==
  LET j == wk[w].job
      t == wk[w].token
  IN /\ wk[w].pc = "ok"
     /\ \/ Transition(j, t, "succeeded") /\ Finish(w, <<"slot", "final", "mark">>)
        \/ ~CanMove(j, t, "succeeded") /\ Return(w) /\ UNCHANGED queueVars
     /\ UNCHANGED onlyWorker

FinishJob(w) ==
  /\ wk[w].pc = "finish"
  /\ Effect(Head(wk[w].todo), wk[w].job)
  /\ IF Len(wk[w].todo) = 1
       THEN Return(w)
       ELSE wk' = [wk EXCEPT ![w].todo = Tail(@)]
  /\ UNCHANGED <<appr, bridge, dec, rec, undelivered, crashes>>

WorkerStep(w) ==
  \/ ClaimJob(w) \/ StartJob(w) \/ DenyJob(w) \/ RouteJob(w) \/ StartHarness(w)
  \/ \E outcome \in Outcomes : HarnessEnds(w, outcome)
  \/ AfterHarness(w) \/ RevokedLook(w) \/ RevokedCancel(w) \/ RevokedSettle(w)
  \/ FailJob(w) \/ RequeueJob(w) \/ SucceedJob(w) \/ FinishJob(w)

(***************************************************************************)
(* The tool bridge, called by the harness while the worker waits for it.   *)
(***************************************************************************)
onlyBridge == <<slot, dec, rec, wk, undelivered, crashes>>

\* authorize reads the job once; what follows is not fenced by that read.
BridgeAuthorize(w) ==
  LET j == wk[w].job
  IN /\ wk[w].pc = "harness"
     /\ bridge[w].pc = "idle"
     /\ jobs[j].state = "running"
     /\ jobs[j].epoch = wk[w].epoch
     /\ HoldsLease(j, wk[w].token)
     /\ bridge' = [bridge EXCEPT ![w] = [IdleBridge EXCEPT
                     !.pc = "authorized", !.job = j, !.token = wk[w].token,
                     !.appr = wk[w].grant]]
     /\ UNCHANGED <<queueVars, appr, dl, onlyBridge>>

\* A call without an approval requests one ...
BridgeRequest(w) ==
  /\ bridge[w].pc = "authorized"
  /\ \E a \in Approvals :
       /\ appr[a].status = "none"
       /\ appr' = [appr EXCEPT ![a].status = "pending", ![a].job = bridge[w].job]
       /\ bridge' = [bridge EXCEPT ![w].pc = "requested", ![w].appr = a]
  /\ UNCHANGED <<queueVars, dl, onlyBridge>>

\* ... and a resumed one consumes the approval it was granted, once.
BridgeConsume(w) ==
  LET a == bridge[w].appr
  IN /\ bridge[w].pc = "authorized"
     /\ a # NoApproval
     /\ appr' = [appr EXCEPT ![a].status =
                   IF @ = "approved" /\ ~appr[a].expired THEN "consumed" ELSE @]
     /\ bridge' = [bridge EXCEPT ![w] = IdleBridge]
     /\ UNCHANGED <<queueVars, dl, onlyBridge>>

\* SuspendAndNotify.  The suspension fails when the lease is gone, and also when
\* a heartbeat bumps the version between its read and its write.
BridgeSuspend(w) ==
  LET b == bridge[w]
  IN /\ b.pc = "requested"
     /\ \/ /\ SuspendForApproval(b.job, b.token, b.appr)
           /\ bridge' = [bridge EXCEPT ![w].pc = "suspended"]
        \/ /\ \/ ~CanMove(b.job, b.token, "waiting_approval")
              \/ wk[w].pc = "harness"
           /\ bridge' = [bridge EXCEPT ![w] = IdleBridge]
           /\ UNCHANGED queueVars
     /\ UNCHANGED <<appr, dl, onlyBridge>>

BridgeNotify(w) ==
  /\ bridge[w].pc = "suspended"
  /\ EnqueueDelivery(bridge[w].job, "requested")
  /\ bridge' = [bridge EXCEPT ![w] = IdleBridge]
  /\ UNCHANGED <<queueVars, appr, onlyBridge>>

\* The harness is gone and its request context is cancelled.
BridgeAborts(w) ==
  /\ bridge[w].pc # "idle"
  /\ wk[w].pc # "harness"
  /\ bridge' = [bridge EXCEPT ![w] = IdleBridge]
  /\ UNCHANGED <<queueVars, appr, dl, onlyBridge>>

\* A call that was let in runs to its end.
BridgeStep(w) ==
  \/ BridgeRequest(w) \/ BridgeConsume(w)
  \/ BridgeSuspend(w) \/ BridgeNotify(w) \/ BridgeAborts(w)

(***************************************************************************)
(* The approval coordinator: HandleSlackDecision.                          *)
(***************************************************************************)
onlyDecision == <<rec, wk, bridge, undelivered, crashes>>

\* Somebody presses a button of a card that was sent.  The approval is read
\* here, and a decision it already carries is not made again.
HandleSlackDecision(a, approve) ==
  /\ dec.todo = <<>>
  /\ appr[a].status # "none"
  /\ dl[appr[a].job]["requested"] \notin {"none", "abandoned"}
  /\ jobs[appr[a].job].approval = a
  /\ dec' = [appr |-> a,
             todo |-> IF approve
                        THEN (IF appr[a].status \in {"approved", "consumed"}
                                THEN <<>> ELSE <<"approve">>)
                             \o <<"resume", "resolved">>
                        ELSE (IF appr[a].status = "denied"
                                THEN <<>> ELSE <<"deny">>)
                             \o <<"cancel", "slot", "resolved">>]
  /\ UNCHANGED <<queueVars, slot, appr, dl, onlyDecision>>

Proceed == dec' = IF Len(dec.todo) = 1 THEN IdleDecision
                                       ELSE [dec EXCEPT !.todo = Tail(@)]
GiveUp == dec' = IdleDecision

\* ApproveContext and DenyContext: a pending approval, before it expires.
Resolve(a, status) ==
  /\ \/ /\ appr[a].status = "pending"
        /\ ~appr[a].expired
        /\ appr' = [appr EXCEPT ![a].status = status]
        /\ Proceed
     \/ /\ appr[a].status # "pending" \/ appr[a].expired
        /\ GiveUp
        /\ UNCHANGED appr
  /\ UNCHANGED <<queueVars, slot, dl>>

DecisionResume(j, a) ==
  /\ \/ ResumeFromApproval(j, a) /\ Proceed
     \/ /\ ~AwaitsApproval(j, a)
        /\ IF jobs[j].approval = a /\ jobs[j].approved
              /\ jobs[j].state # "waiting_approval"
             THEN Proceed
             ELSE GiveUp
        /\ UNCHANGED queueVars
  /\ UNCHANGED <<slot, appr, dl>>

DecisionCancel(j) ==
  /\ \/ Cancel(j) /\ Proceed
     \/ /\ ~Cancellable(j)
        /\ IF jobs[j].state \in {"cancelled", "cancelling"} THEN Proceed ELSE GiveUp
        /\ UNCHANGED queueVars
  /\ UNCHANGED <<slot, appr, dl>>

DecisionStep ==
  LET a == dec.appr
      j == appr[a].job
      e == Head(dec.todo)
  IN /\ dec.todo # <<>>
     /\ \/ e = "approve" /\ Resolve(a, "approved")
        \/ e = "deny" /\ Resolve(a, "denied")
        \/ e = "resume" /\ DecisionResume(j, a)
        \/ e = "cancel" /\ DecisionCancel(j)
        \/ e \in Effects /\ Effect(e, j) /\ Proceed /\ UNCHANGED appr
     /\ UNCHANGED onlyDecision

(***************************************************************************)
(* The reconciler: reconcileJobLoop and reconcileJobs.                     *)
(***************************************************************************)
onlyReconciler == <<appr, dec, wk, bridge, undelivered, crashes>>

RecoverJobs(j) ==
  /\ RecoverExpired(j)
  /\ UNCHANGED <<slot, appr, dl, actorVars>>

ListJobs ==
  /\ rec = IdleReconciler
  /\ \E j \in Jobs : ListReconciliation(j)
  /\ rec' = [rec EXCEPT !.list =
               [j \in Jobs |-> IF ListReconciliation(j) THEN Seen(j) ELSE NotSeen]]
  /\ UNCHANGED <<queueVars, slot, dl, onlyReconciler>>

\* What the loop body does for a listed job, by the state it was listed in.
Plan(j, seen) ==
  CASE seen.state = "succeeded" ->
         IF jobs[j].expired \/ jobs[j].state = "deleted" THEN <<"mark">>
                                                         ELSE <<"final", "mark">>
    [] seen.state = "waiting_approval" -> <<"slot", "verdict">>
    [] seen.state = "queued" ->
         <<"cancel", "slot">> \o (IF seen.expired THEN <<>> ELSE Notice(j))
    [] seen.state = "needs_reconciliation" -> <<"slot">>
    [] seen.state = "retry_wait" -> <<"release">>

TakeListed(j) ==
  /\ rec.todo = <<>>
  /\ rec.list[j] # NotSeen
  /\ rec' = [list |-> [rec.list EXCEPT ![j] = NotSeen], job |-> j,
             seen |-> rec.list[j], todo |-> Plan(j, rec.list[j])]
  /\ UNCHANGED <<queueVars, slot, dl, onlyReconciler>>

\* Continue with todo; the next listed job, or the next pass, when it is empty.
Then(todo) ==
  rec' = IF todo # <<>>
           THEN [rec EXCEPT !.todo = todo]
           ELSE [IdleReconciler EXCEPT !.list = rec.list]

\* Mutant of Verdict: expiry is not looked at.
VerdictWithoutExpiry(status, late) ==
  IF status = "denied" THEN <<"cancel", "slot">>
  ELSE IF status \in {"approved", "consumed"} THEN <<"resume">> ELSE <<>>

\* The approval is read now, its expiry compared with the time of the listing.
Verdict(status, late) ==
  IF status = "denied" \/ late
    THEN <<"cancel", "slot">> \o (IF status = "denied" THEN <<>> ELSE <<"expire">>)
    ELSE IF status \in {"approved", "consumed"} THEN <<"resume">> ELSE <<>>

ReconcileVerdict(a) ==
  /\ Then(Verdict(appr[a].status, rec.seen.late))
  /\ UNCHANGED <<queueVars, slot, dl>>

ReconcileCancel(j) ==
  /\ \/ Cancel(j) /\ Then(Tail(rec.todo))
     \/ ~Cancellable(j) /\ Then(<<>>) /\ UNCHANGED queueVars
  /\ UNCHANGED <<slot, dl>>

ReconcileResume(j, a) ==
  /\ IF AwaitsApproval(j, a) THEN ResumeFromApproval(j, a) ELSE UNCHANGED queueVars
  /\ Then(<<>>)
  /\ UNCHANGED <<slot, dl>>

ReconcileRelease(j) ==
  /\ \/ /\ ReleaseRetryWait(j)
        /\ Then(IF jobs'[j].state = "failed" THEN Append(Notice(j), "slot") ELSE <<>>)
     \/ /\ jobs[j].state # "retry_wait"
        /\ Then(<<>>)
        /\ UNCHANGED queueVars
  /\ UNCHANGED <<slot, dl>>

\* enqueueExpiredApprovalUpdate rewrites a card that reached Slack.
ReconcileExpire(j) ==
  /\ IF dl[j]["requested"] = "delivered" THEN EnqueueDelivery(j, "resolved")
                                         ELSE UNCHANGED dl
  /\ Then(<<>>)
  /\ UNCHANGED <<queueVars, slot>>

ReconcileStep ==
  LET j == rec.job
      a == rec.seen.approval
      e == Head(rec.todo)
  IN /\ rec.todo # <<>>
     /\ \/ e = "verdict" /\ ReconcileVerdict(a)
        \/ e = "cancel" /\ ReconcileCancel(j)
        \/ e = "resume" /\ ReconcileResume(j, a)
        \/ e = "release" /\ ReconcileRelease(j)
        \/ e = "expire" /\ ReconcileExpire(j)
        \/ e \in Effects /\ Effect(e, j) /\ Then(Tail(rec.todo))
     /\ UNCHANGED onlyReconciler

(***************************************************************************)
(* The delivery worker: processOneDelivery, seen from the job.             *)
(***************************************************************************)
onlyDelivery == <<slot, appr, dec, rec, wk, bridge, crashes>>

MayFail(k) == k \in {"final", "failure"} \/ CardsMayFail

\* Only the arrival of the approval card has consequences in this module: for
\* the others "delivered" and "pending" are one, and abandonment may follow.
SendCard(j) ==
  /\ dl[j]["requested"] = "pending"
  /\ dl' = [dl EXCEPT ![j]["requested"] = "delivered"]
  /\ UNCHANGED <<queueVars, undelivered, onlyDelivery>>

\* Denied by policy or out of attempts: the record is abandoned, then the job
\* it belongs to is marked, whatever the record was for.
AbandonDelivery(j, k) ==
  /\ dl[j][k] = "pending"
  /\ MayFail(k)
  /\ dl' = [dl EXCEPT ![j][k] = "abandoned"]
  /\ undelivered' = undelivered \cup {j}
  /\ UNCHANGED <<queueVars, onlyDelivery>>

\* Claim abandons a record whose last attempt lost its lease, and marks nothing.
ExhaustDelivery(j, k) ==
  /\ dl[j][k] = "pending"
  /\ MayFail(k)
  /\ dl' = [dl EXCEPT ![j][k] = "abandoned"]
  /\ UNCHANGED <<queueVars, undelivered, onlyDelivery>>

\* Mutant of MarkUndelivered: the job is not required to have succeeded.
MarkUndeliveredAnyway(j) ==
  /\ j \in undelivered
  /\ undelivered' = undelivered \ {j}
  /\ jobs' = [jobs EXCEPT ![j].state = "completed_undelivered"]
  /\ UNCHANGED <<nextToken, dl, onlyDelivery>>

MarkUndelivered(j) ==
  /\ j \in undelivered
  /\ undelivered' = undelivered \ {j}
  /\ IF jobs[j].state \in {"succeeded", "completed_undelivered"}
       THEN MarkCompletedUndelivered(j)
       ELSE UNCHANGED queueVars
  /\ UNCHANGED <<dl, onlyDelivery>>

(***************************************************************************)
(* Crashes and time.                                                       *)
(***************************************************************************)
MayCrash == crashes < MaxCrashes /\ crashes' = crashes + 1

CrashWorker(w) ==
  /\ wk[w].pc # "idle" \/ bridge[w].pc # "idle"
  /\ MayCrash
  /\ wk' = [wk EXCEPT ![w] = IdleWorker]
  /\ bridge' = [bridge EXCEPT ![w] = IdleBridge]
  /\ UNCHANGED <<queueVars, slot, appr, dl, dec, rec, undelivered>>

\* The coordinator, the reconciler and the delivery worker of one process.
CrashControl ==
  /\ dec # IdleDecision \/ rec # IdleReconciler \/ undelivered # {}
  /\ MayCrash
  /\ dec' = IdleDecision
  /\ rec' = IdleReconciler
  /\ undelivered' = {}
  /\ UNCHANGED <<queueVars, slot, appr, dl, wk, bridge>>

\* A lease nobody will renew: its worker has crashed or moved on.
Orphaned(j) == \A w \in Workers : wk[w].token # jobs[j].token

LoseLease(j) == LeaseExpires(j) /\ UNCHANGED <<slot, appr, dl, actorVars>>
ReachExpiry(j) == JobExpires(j) /\ UNCHANGED <<slot, appr, dl, actorVars>>
PurgeJob(j) == TTLDelete(j) /\ UNCHANGED <<slot, appr, dl, actorVars>>

ApprovalExpires(a) ==
  /\ appr[a].status # "none"
  /\ ~appr[a].expired
  /\ appr' = [appr EXCEPT ![a].expired = TRUE]
  /\ UNCHANGED <<queueVars, slot, dl, actorVars>>

LifeNext ==
  \/ \E j \in Jobs : Submit(j)
  \/ \E w \in Workers :
       WorkerStep(w) \/ BridgeAuthorize(w) \/ BridgeStep(w) \/ CrashWorker(w)
  \/ \E a \in Approvals, approve \in BOOLEAN : HandleSlackDecision(a, approve)
  \/ DecisionStep
  \/ \E j \in Jobs : RecoverJobs(j) \/ TakeListed(j)
  \/ ListJobs
  \/ ReconcileStep
  \/ \E j \in Jobs, k \in Purposes : AbandonDelivery(j, k) \/ ExhaustDelivery(j, k)
  \/ \E j \in Jobs : SendCard(j) \/ MarkUndelivered(j)
  \/ CrashControl
  \/ \E j \in Jobs : LoseLease(j) \/ ReachExpiry(j) \/ PurgeJob(j)
  \/ \E a \in Approvals : ApprovalExpires(a)

(***************************************************************************)
(* Fairness: the loops of a running process keep running, a harness ends   *)
(* (its timeout), and time passes for what nobody renews.  Nobody is       *)
(* obliged to press a button, and no policy or lease has to fail.          *)
(***************************************************************************)
LifeFairness ==
  /\ \A w \in Workers : WF_lifeVars(WorkerStep(w)) /\ WF_lifeVars(BridgeStep(w))
  /\ WF_lifeVars(DecisionStep)
  /\ WF_lifeVars(ListJobs \/ (\E j \in Jobs : TakeListed(j)) \/ ReconcileStep)
  /\ \A j \in Jobs : /\ WF_lifeVars(RecoverJobs(j))
                     /\ WF_lifeVars(Orphaned(j) /\ LoseLease(j))
  /\ \A a \in Approvals : WF_lifeVars(ApprovalExpires(a))

LifeSpec == LifeInit /\ [][LifeNext]_lifeVars
FairLifeSpec == LifeSpec /\ LifeFairness

(***************************************************************************)
(* Properties.                                                             *)
(***************************************************************************)
\* Every variable has its type.
LifeTypeOK ==
  /\ QueueTypeOK
  /\ slot \in [Jobs -> {"none", "held", "released"}]
  /\ appr \in [Approvals -> [status : ApprovalStatus, job : Jobs \cup {None},
                             expired : BOOLEAN]]
  /\ dl \in [Jobs -> [Purposes -> DeliveryStatus]]
  /\ \A w \in Workers :
       /\ wk[w].job \in Jobs \cup {None}
       /\ wk[w].pc \in {"idle", "claimed", "gate", "routed", "harness", "ended",
                        "cancel", "settle", "finish"} \cup Outcomes
       /\ (wk[w].pc = "idle") <=> (wk[w] = IdleWorker)
       /\ (wk[w].pc = "finish") <=> (wk[w].todo # <<>>)
       /\ bridge[w].pc \in {"idle", "authorized", "requested", "suspended"}
  /\ undelivered \subseteq Jobs
  /\ crashes \in 0 .. MaxCrashes

\* What Slack is told agrees with what the job became: a final answer is only
\* ever enqueued for a job that succeeded and a failure notice for one that
\* failed or was cancelled, although a worker and the reconciler enqueue them
\* in steps of their own, later and from what they read earlier.  Hence no
\* thread ever gets both.
VerdictMatchesState ==
  \A j \in Jobs :
    /\ dl[j]["final"] # "none" =>
         jobs[j].state \in {"succeeded", "completed_undelivered", "deleted"}
    /\ dl[j]["failure"] # "none" => jobs[j].state \in {"failed", "cancelled", "deleted"}

\* An interactive job that executes, or still can, owns its admission slot, so
\* the channel's concurrency limit counts it, unless an approval resumed it (a
\* resumed job runs without one): no late worker and no stale reconciler pass
\* gives the slot of such a job away.
SlotHeldWhileExecuting ==
  \A j \in Interactive :
    (/\ \/ jobs[j].state \in {"queued", "leased", "retry_wait"}
        \/ jobs[j].state = "running" /\ jobs[j].live
     /\ jobs[j].epoch = 1) => slot[j] = "held"

\* A resumed job is resumed by the very approval it waited for: one that was
\* approved, never a denied one.
ResumedByApproval ==
  \A j \in Jobs : jobs[j].approved =>
    /\ appr[jobs[j].approval].job = j
    /\ appr[jobs[j].approval].status \in {"approved", "consumed"}

\* Whatever workers, bridge, coordinator, reconciler and delivery loop read before and do
\* after each other's steps, and wherever one crashes: Slack is told what the job became,
\* an executing job owns its slot, and a resumed one has its approval.
LifeInv == /\ LifeTypeOK
           /\ VerdictMatchesState
           /\ SlotHeldWhileExecuting
           /\ ResumedByApproval

\* Every step of workers, bridge, coordinator, reconciler and delivery worker is
\* a queue operation or leaves the queue alone: what is proved of the queue under
\* every use holds of the pipeline.
ImplementsQueue == QueueSpec

\* No job that does not execute keeps its admission slot: suspended jobs and
\* jobs fenced off for an operator give it back, even if their worker died.
Parked(j) == jobs[j].state \in {"waiting_approval", "needs_reconciliation"}
ParkedJobsGiveSlotBack ==
  \A j \in Jobs : Parked(j) ~> (~Parked(j) \/ slot[j] # "held")

\* A job that succeeded gets its final answer enqueued, even if its worker
\* crashes right after recording the result, unless the job expires first.
FinalIsEnqueued ==
  \A j \in Jobs : (jobs[j].state = "succeeded") ~>
    (dl[j]["final"] # "none" \/ jobs[j].expired \/ jobs[j].state = "deleted")

\* A cancelling job whose lease has run out: no operation moves it any more.
Stuck(j) == jobs[j].state = "cancelling" /\ ~jobs[j].live

\* Every job that was enqueued comes to rest: settled, fenced off for an
\* operator, or stuck in cancelling because its worker died there.  In particular
\* a suspension ends: somebody decides, or the approval expires and the
\* reconciler cancels the job, across crashes between decision and resume.
JobsComeToRest ==
  \A j \in Jobs : (jobs[j].state = "queued") ~>
    (jobs[j].state \in Terminal \cup {"needs_reconciliation", "deleted"} \/ Stuck(j))

\* Once another attempt holds the job's lease, the worker of an earlier attempt
\* changes nothing about the job.
StaleWorkersChangeNothing ==
  [][\A w \in Workers :
       (/\ wk[w].pc # "idle"
        /\ wk'[w] # wk[w]
        /\ jobs[wk[w].job].token \notin {NoToken, wk[w].token})
       => jobs'[wk[w].job] = jobs[wk[w].job]]_lifeVars
=============================================================================
