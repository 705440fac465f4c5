------------------------------ MODULE AgentTurn ------------------------------
(***************************************************************************)
(* One agent turn inside the process: runHarness, the Codex session it     *)
(* opens, the goroutine that reads the app server's output, the goroutine  *)
(* that forwards the session's events, the goroutine of every tool call,   *)
(* and the tool bridge those calls go through.                             *)
(*                                                                         *)
(* A step goes from one wait (a channel, a lock another goroutine holds    *)
(* for long, the database, the process) to the next.  The job may be taken *)
(* away at any moment, and a tool call may outlive the session that made   *)
(* it.  The app server is an external process: it may answer, refuse, fall *)
(* silent or die, and its wall time ends it.                               *)
(***************************************************************************)
EXTENDS Naturals, Sequences

CONSTANTS Calls,       \* bound: the tool calls the model makes, numbered in order
          Earlier,     \* an approval the job was granted before it was claimed
          Capacity,    \* events a session holds (128 in the code)
          MaxTexts,    \* bound: final messages of a turn
          Plans        \* bound: the kinds of the calls a turn makes, in order

ASSUME CallsAssumption == Calls \subseteq Nat /\ Earlier \notin Calls
ASSUME CapacityAssumption == Capacity \in Nat \ {0}
ASSUME MaxTextsAssumption == MaxTexts \in Nat
ASSUME PlansAssumption == Plans \subseteq [Calls -> {"read", "image", "write", "resume", "none"}]

VARIABLES job,      \* the job, as this attempt sees it: running, waiting, lost or done
          appr,     \* the approvals
          runner,   \* runHarness
          sess,     \* codexWorkerSession
          cli,      \* codexAppServer, the client of the process
          proc,     \* the app server's process
          fwd,      \* the goroutine of Events
          call,     \* the goroutines of tool calls
          bridge,   \* the bridge's scope, artifacts and image generation of the attempt
          ran,      \* how often each approved action was executed
          shutdown  \* the pipeline's context is cancelled

turnVars == <<job, appr, runner, sess, cli, proc, fwd, call, bridge, ran, shutdown>>
recordVars == <<job, appr, ran, shutdown>>

Approvals == Calls \cup {Earlier}
NoCall(k) == [pc |-> "none", kind |-> k, names |-> Earlier, ok |-> FALSE, taken |-> {}]

TurnInit ==
  /\ job = "running"
  /\ \E plan \in Plans :
       /\ call = [c \in Calls |-> NoCall(plan[c])]
       /\ appr = [p \in Approvals |->
                    IF p = Earlier /\ \E c \in Calls : plan[c] = "resume"
                    THEN "approved" ELSE "none"]
  /\ runner = [pc |-> "start", deferred |-> FALSE, text |-> FALSE, files |-> {},
               result |-> "none"]
  /\ sess = [known |-> FALSE, closed |-> FALSE, err |-> FALSE, events |-> <<>>]
  /\ cli = [closed |-> TRUE, pending |-> "none", reply |-> "none"]
  /\ proc = [alive |-> FALSE, out |-> <<>>, request |-> "none", turn |-> "none", texts |-> 0]
  /\ fwd = [pc |-> "none", event |-> <<>>, err |-> FALSE]
  /\ bridge = [scope |-> FALSE, artifacts |-> {}, imaged |-> FALSE]
  /\ ran = [p \in Approvals |-> 0]
  /\ shutdown = FALSE

(***************************************************************************)
(* The job around the turn.                                                *)
(***************************************************************************)
\* processOneJob: the verdict counts if the lease and the context still stand.
Verdict ==
  /\ runner.pc = "returned"
  /\ runner' = [runner EXCEPT !.pc = "settled"]
  /\ job' = IF job # "running" \/ shutdown THEN job
            ELSE IF runner.result = "ok" THEN "done" ELSE "lost"
  /\ UNCHANGED <<appr, sess, cli, proc, fwd, call, bridge, ran, shutdown>>

\* The lease runs out, the job is cancelled or its channel's policy changes.
\* Bound: not while the pipeline stops, nor the other way round.
LoseJob ==
  /\ ~shutdown /\ job \in {"running", "waiting"} /\ job' = "lost"
  /\ UNCHANGED <<appr, runner, sess, cli, proc, fwd, call, bridge, ran, shutdown>>

\* A human approves; the job goes to another attempt.
Approve(p) ==
  /\ appr[p] = "pending"
  /\ appr' = [appr EXCEPT ![p] = "approved"]
  /\ job' = IF job = "waiting" THEN "lost" ELSE job
  /\ UNCHANGED <<runner, sess, cli, proc, fwd, call, bridge, ran, shutdown>>

\* The pipeline is stopped: every context derived from it is cancelled.
\* Bound: in turns of one call only.
Shutdown ==
  /\ ~shutdown /\ job # "lost" /\ \E c \in Calls : call[c].kind = "none"
  /\ shutdown' = TRUE
  /\ UNCHANGED <<job, appr, runner, sess, cli, proc, fwd, call, bridge, ran>>

(***************************************************************************)
(* The session: a bounded buffer that closes once.                         *)
(***************************************************************************)
\* finish: the first of complete, fail and stop decides; later ones do nothing.
finish(s, failed) == IF s.closed THEN s ELSE [s EXCEPT !.closed = TRUE, !.err = failed]
complete == sess' = finish(sess, FALSE)
fail == sess' = finish(sess, TRUE)

\* emit: a closed session drops the event; a full one makes the emitter wait
\* until there is room or the session is closed.
CanEmit == sess.closed \/ Len(sess.events) < Capacity
emit(e) == sess' = [sess EXCEPT !.events = IF sess.closed THEN @ ELSE Append(@, e)]

\* codexAppServer.fail: pending calls get the error and so does the session.
clientFailed == [cli EXCEPT !.closed = TRUE, !.pending = "none"]
clientFail ==
  /\ cli' = clientFailed
  /\ IF cli.closed THEN UNCHANGED sess ELSE fail

(***************************************************************************)
(* The app server, as its client sees it.                                  *)
(***************************************************************************)
\* Bound: what it says by itself waits until what it said before is read.
Speaking == proc.alive /\ proc.turn = "running" /\ proc.out = <<>>
Say(m) == proc' = [proc EXCEPT !.out = Append(@, m)]

\* It answers or refuses a request; a started turn is running from then on,
\* and an interrupted one is over.
ServerAnswers ==
  /\ proc.alive /\ proc.request # "none"
  /\ \E reply \in {"ok", "error"} :
       LET m == proc.request IN
       proc' = [proc EXCEPT !.request = "none",
                            !.out = Append(@, <<"answer", m, reply>>),
                            !.turn = IF reply = "error" THEN @
                                        ELSE IF m = "turn" THEN "running"
                                        ELSE IF m = "interrupt" THEN "over" ELSE @]
  /\ UNCHANGED <<recordVars, runner, sess, cli, fwd, call, bridge>>

\* A turn calls tools, gives a final answer, and ends; it answers and ends only
\* when the tools it called have answered.
CallsAnswered == \A c \in Calls : call[c].pc \in {"none", "done"}
ServerSpeaks ==
  /\ Speaking /\ CallsAnswered /\ proc.texts < MaxTexts
  /\ proc' = [proc EXCEPT !.out = Append(@, <<"item">>), !.texts = @ + 1]
  /\ UNCHANGED <<recordVars, runner, sess, cli, fwd, call, bridge>>

ServerCalls(c) ==
  /\ Speaking /\ call[c].pc = "none" /\ call[c].kind # "none"
  /\ \A d \in Calls : d < c => call[d].pc # "none"
  /\ \E p \in Approvals :
       /\ IF call[c].kind = "resume" THEN appr[p] # "none" ELSE p = Earlier
       /\ call' = [call EXCEPT ![c] = [@ EXCEPT !.pc = "said", !.names = p]]
  /\ Say(<<"call", c>>)
  /\ UNCHANGED <<recordVars, runner, sess, cli, fwd, bridge>>

ServerEnds ==
  /\ Speaking /\ CallsAnswered
  /\ \E status \in {"completed", "failed"} :
       proc' = [proc EXCEPT !.turn = "over", !.out = Append(@, <<"turn", status>>)]
  /\ UNCHANGED <<recordVars, runner, sess, cli, fwd, call, bridge>>

\* The process dies: by itself, by its wall time, or because the context it
\* was started with is cancelled.
ServerDies ==
  /\ proc.alive
  /\ proc' = [proc EXCEPT !.alive = FALSE, !.request = "none", !.turn = "over"]
  /\ UNCHANGED <<recordVars, runner, sess, cli, fwd, call, bridge>>

(***************************************************************************)
(* readLoop: one goroutine reads every message, in order.                  *)
(***************************************************************************)
Head1 == Head(proc.out)
Reading(kind) == /\ ~cli.closed /\ proc.out # <<>> /\ Head1[1] = kind
                    /\ proc' = [proc EXCEPT !.out = Tail(@)]

handleResponse ==
  /\ Reading("answer")
  /\ cli' = IF cli.pending = Head1[2]
            THEN [cli EXCEPT !.pending = "none", !.reply = Head1[3]] ELSE cli
  /\ UNCHANGED <<recordVars, runner, sess, fwd, call, bridge>>

\* notification: an item is emitted, and the reader waits if it has to.
notification ==
  /\ Reading("item") /\ CanEmit
  /\ emit(<<"text">>)
  /\ UNCHANGED <<recordVars, runner, cli, fwd, call, bridge>>

turnCompleted ==
  /\ Reading("turn")
  /\ IF Head1[2] = "completed" THEN complete ELSE fail
  /\ UNCHANGED <<recordVars, runner, cli, fwd, call, bridge>>

\* A tool call gets a goroutine of its own.
handleServerRequest ==
  /\ Reading("call")
  /\ call' = [call EXCEPT ![Head1[2]].pc = "prepare"]
  /\ UNCHANGED <<recordVars, runner, sess, cli, fwd, bridge>>

\* The end of the output: whatever was said before has been read.
readLoopEnds ==
  /\ ~cli.closed /\ ~proc.alive /\ proc.out = <<>>
  /\ clientFail
  /\ UNCHANGED <<recordVars, runner, proc, fwd, call, bridge>>

readLoop == \/ handleResponse \/ notification \/ turnCompleted
               \/ handleServerRequest \/ readLoopEnds

(***************************************************************************)
(* terminate, called by runHarness and by the forwarder: the first one to  *)
(* take the session out of the map does the work.                          *)
(***************************************************************************)
\* Out of the map, closed, and its client with it.
TakeSession ==
  /\ sess.known
  /\ sess' = [finish(sess, FALSE) EXCEPT !.known = FALSE]
  /\ cli' = clientFailed
  /\ proc' = [proc EXCEPT !.out = <<>>]

RevokeAttempt == bridge' = [scope |-> FALSE, artifacts |-> {}, imaged |-> FALSE]

\* Local.Terminate: the attempt's capability is revoked and its process killed.
Terminate == /\ RevokeAttempt
             /\ proc' = [proc EXCEPT !.alive = FALSE, !.out = <<>>, !.request = "none",
                                    !.turn = "over"]

(***************************************************************************)
(* runHarness.                                                             *)
(***************************************************************************)
At(pc) == runner.pc = pc
Go(pc) == runner' = [runner EXCEPT !.pc = pc]
Returned == runner' = [runner EXCEPT !.pc = "returned", !.result = "error"]
\* An error after the session exists: the deferred Abort runs first.
Failed == runner' = [runner EXCEPT !.pc = "abort", !.deferred = TRUE, !.result = "error",
                                   !.text = FALSE, !.files = {}]

\* A resumed job needs its approval approved and not yet consumed.
StartHarness ==
  /\ At("start")
  /\ Go("create") \/ (appr[Earlier] # "none" /\ Returned)
  /\ UNCHANGED <<recordVars, sess, cli, proc, fwd, call, bridge>>

\* provision, newCodexAppServer: a process and a client of its own, or an error.
Provision ==
  /\ At("create")
  /\ \/ /\ Go("initialize")
        /\ proc' = [proc EXCEPT !.alive = TRUE]
        /\ cli' = [cli EXCEPT !.closed = FALSE]
     \/ Returned /\ UNCHANGED <<proc, cli>>
  /\ UNCHANGED <<recordVars, sess, fwd, call, bridge>>

\* codexAppServer.call, its first half: a request on the process's input.
Send(m) ==
  /\ ~cli.closed
  /\ cli' = [cli EXCEPT !.pending = m, !.reply = "none"]
  /\ proc' = [proc EXCEPT !.request = IF proc.alive THEN m ELSE "none"]
  /\ UNCHANGED <<recordVars, sess, fwd, call, bridge>>

\* Its second half: the answer, the end of the transport, or the context.
Answered == cli.pending = "none" /\ cli.reply # "none"
Refused == cli.closed \/ shutdown \/ (Answered /\ cli.reply = "error")

Initialize == At("initialize") /\ Send("initialize") /\ Go("ready")

\* initialize has 30 seconds; then the client and the process are given up.
InitializeFails ==
  /\ At("initialize") \/ At("ready")
  /\ cli' = clientFailed
  /\ sess' = finish(sess, TRUE)
  /\ runner' = [runner EXCEPT !.pc = "kill", !.deferred = TRUE,
                              !.result = "error"]
  /\ UNCHANGED <<recordVars, proc, fwd, call, bridge>>

\* Bridge.Register hands out the capability; the session enters the map.
Register ==
  /\ At("ready") /\ Answered /\ cli.reply = "ok"
  /\ bridge' = [bridge EXCEPT !.scope = TRUE]
  /\ sess' = [sess EXCEPT !.known = TRUE]
  /\ Go("thread")
  /\ UNCHANGED <<recordVars, cli, proc, fwd, call>>

\* Prompt: thread/start, then turn/start, each with the pipeline's context.
ThreadStart == At("thread") /\ Send("thread") /\ Go("threaded")
TurnStart ==
  /\ At("threaded") /\ Answered /\ cli.reply = "ok"
  /\ Send("turn") /\ Go("started")
PromptFails ==
  /\ runner.pc \in {"thread", "threaded", "started"} /\ Refused
  /\ runner' = [runner EXCEPT !.pc = "terminate", !.result = "error"]
  /\ UNCHANGED <<recordVars, sess, cli, proc, fwd, call, bridge>>

\* Events: the forwarder starts and the loop begins.
Events ==
  /\ At("started") /\ Answered /\ cli.reply = "ok"
  /\ IF sess.known
     THEN Go("loop") /\ fwd' = [fwd EXCEPT !.pc = "select"]
     ELSE Failed /\ UNCHANGED fwd
  /\ UNCHANGED <<recordVars, sess, cli, proc, call, bridge>>

\* The loop takes the event the forwarder offers; it may refuse one (native
\* image generation, a receipt it cannot write, too many files).
ReceiveEvent ==
  /\ At("loop") /\ fwd.pc \in {"send", "drainSend"}
  /\ LET e == fwd.event IN
     \/ runner' = [runner EXCEPT !.text = @ \/ e[1] = "text",
                                 !.files = IF e[1] = "file" THEN @ \cup {e[2]} ELSE @]
     \/ e[1] # "text" /\ Failed
  /\ fwd' = [fwd EXCEPT !.pc = IF @ = "send" THEN "select" ELSE "drain",
                        !.event = <<>>]
  /\ UNCHANGED <<recordVars, sess, cli, proc, call, bridge>>

ReceiveError ==
  /\ At("loop") /\ fwd.err
  /\ Failed
  /\ UNCHANGED <<recordVars, sess, cli, proc, fwd, call, bridge>>

\* Both channels closed: the turn's text and files are the result, if there
\* is a text.
LoopEnds ==
  /\ At("loop") /\ fwd.pc = "closed" /\ ~fwd.err
  /\ runner' = [runner EXCEPT !.pc = "abort", !.deferred = TRUE,
                              !.result = IF runner.text THEN "ok" ELSE "error"]
  /\ UNCHANGED <<recordVars, sess, cli, proc, fwd, call, bridge>>

\* The context is cancelled, or the heartbeat finds the job in other hands:
\* an Abort without a deadline, then the deferred one.
Revoked == shutdown \/ job # "running"
LoopRevoked ==
  /\ At("loop") /\ Revoked
  /\ runner' = [runner EXCEPT !.pc = "abort", !.result = "error", !.text = FALSE,
                              !.files = {}]
  /\ UNCHANGED <<recordVars, sess, cli, proc, fwd, call, bridge>>

AfterAbort == runner' = [runner EXCEPT !.pc = IF runner.deferred THEN "returned" ELSE "abort",
                                          !.deferred = TRUE]

\* Mutant of Abort: the interrupt is sent while the session is still open.
AbortOpen ==
  /\ At("abort")
  /\ IF sess.known THEN Go("interrupt") ELSE AfterAbort
  /\ UNCHANGED <<recordVars, sess, cli, proc, fwd, call, bridge>>

\* Abort: the session is stopped, so that nobody waits for its buffer, before
\* the interrupt is sent through the same reader.
Abort ==
  /\ At("abort")
  /\ IF sess.known
     THEN sess' = finish(sess, FALSE) /\ Go("interrupt")
     ELSE AfterAbort /\ UNCHANGED sess
  /\ UNCHANGED <<recordVars, cli, proc, fwd, call, bridge>>

Interrupt == At("interrupt") /\ Send("interrupt") /\ Go("interrupted")

\* The deferred Abort waits five seconds at most, the other one as long as it
\* takes: for the answer, or for the transport to end.
Interrupted ==
  /\ \/ At("interrupt") /\ cli.closed
     \/ At("interrupted") /\ (cli.closed \/ Answered \/ runner.deferred)
  /\ Go("terminate")
  /\ UNCHANGED <<recordVars, sess, cli, proc, fwd, call, bridge>>

RunnerTerminates ==
  \/ /\ At("terminate")
     /\ IF sess.known THEN TakeSession /\ Go("kill")
        ELSE AfterAbort /\ UNCHANGED <<sess, cli, proc>>
     /\ UNCHANGED <<recordVars, fwd, call, bridge>>
  \/ /\ At("kill") /\ Terminate /\ AfterAbort
     /\ UNCHANGED <<recordVars, sess, cli, fwd, call>>

runHarness ==
  \/ StartHarness \/ Provision \/ Initialize \/ InitializeFails \/ Register
  \/ ThreadStart \/ TurnStart \/ PromptFails \/ Events
  \/ ReceiveEvent \/ ReceiveError \/ LoopEnds \/ LoopRevoked
  \/ Abort \/ Interrupt \/ Interrupted \/ RunnerTerminates \/ Verdict

(***************************************************************************)
(* Events' goroutine: from the session's buffer to the loop.               *)
(***************************************************************************)
Forward(pc) == fwd' = [fwd EXCEPT !.pc = pc]

\* Takes the next event and offers it; gives up when the context ends.
ForwardTake ==
  /\ fwd.pc \in {"select", "drain"} /\ sess.events # <<>>
  /\ fwd' = [fwd EXCEPT !.pc = IF @ = "select" THEN "send" ELSE "drainSend",
                        !.event = Head(sess.events)]
  /\ sess' = [sess EXCEPT !.events = Tail(@)]
  /\ UNCHANGED <<recordVars, runner, cli, proc, call, bridge>>

\* An error ends the forwarding, whatever is still buffered; a cancelled
\* context does too, and says so unless the session is being drained.
ForwardError ==
  /\ \/ fwd.pc = "select" /\ sess.err
     \/ fwd.pc \in {"select", "send", "drainSend"} /\ shutdown
  /\ fwd' = [fwd EXCEPT !.pc = "terminate", !.err = @ \/ fwd.pc # "drainSend"]
  /\ sess' = [sess EXCEPT !.err = @ /\ fwd.pc # "select"]
  /\ UNCHANGED <<recordVars, runner, cli, proc, call, bridge>>

\* A closed session is drained: every buffered event, and an error if any.
ForwardDrain ==
  \/ /\ fwd.pc = "select" /\ sess.closed /\ Forward("drain")
     /\ UNCHANGED <<recordVars, runner, sess, cli, proc, call, bridge>>
  \/ /\ fwd.pc = "drain" /\ sess.err
     /\ fwd' = [fwd EXCEPT !.err = TRUE]
     /\ sess' = [sess EXCEPT !.err = FALSE]
     /\ UNCHANGED <<recordVars, runner, cli, proc, call, bridge>>
  \/ /\ fwd.pc = "drain" /\ sess.events = <<>> /\ ~sess.err
     /\ Forward("terminate")
     /\ UNCHANGED <<recordVars, runner, sess, cli, proc, call, bridge>>

\* The session is terminated before the channels are closed.
ForwarderTerminates ==
  \/ /\ fwd.pc = "terminate"
     /\ IF sess.known THEN TakeSession /\ Forward("kill")
        ELSE Forward("closed") /\ UNCHANGED <<sess, cli, proc>>
     /\ UNCHANGED <<recordVars, runner, call, bridge>>
  \/ /\ fwd.pc = "kill" /\ Terminate /\ Forward("closed")
     /\ UNCHANGED <<recordVars, runner, sess, cli, call>>

forwarder == \/ ForwardTake \/ ForwardError \/ ForwardDrain
                \/ ForwarderTerminates

(***************************************************************************)
(* A tool call: serverRequest on the worker's side, serve on the bridge's. *)
(***************************************************************************)
Step(c, from, to) == call[c].pc = from /\ call' = [call EXCEPT ![c].pc = to]
Fails(c) == call' = [call EXCEPT ![c].pc = "answered"]

\* prepareToolInvocation refuses a malformed call; the loop is told of others.
prepareToolInvocation(c) ==
  /\ \/ Step(c, "prepare", "done") /\ UNCHANGED sess
     \/ Step(c, "prepare", "authorize") /\ CanEmit /\ emit(<<"status">>)
  /\ UNCHANGED <<recordVars, runner, cli, proc, fwd, bridge>>

\* serve, authorize: the capability is registered and the job still in this
\* attempt's hands, read once; if it is not, the capability is revoked.  An
\* attempt generates one image.  A read is executed with nothing else to tell.
authorize(c) ==
  /\ call[c].pc = "authorize"
  /\ IF ~bridge.scope \/ job # "running" THEN Fails(c) /\ RevokeAttempt
     ELSE CASE call[c].kind = "read" ->
                 /\ \E ok \in BOOLEAN :
                      call' = [call EXCEPT ![c] = [@ EXCEPT !.pc = "answered", !.ok = ok]]
                 /\ UNCHANGED bridge
            [] call[c].kind = "image" ->
                 /\ IF bridge.imaged THEN Fails(c) ELSE Step(c, "authorize", "execute")
                 /\ bridge' = [bridge EXCEPT !.imaged = TRUE]
            [] OTHER -> Step(c, "authorize", call[c].kind) /\ UNCHANGED bridge
  /\ UNCHANGED <<recordVars, runner, sess, cli, proc, fwd>>

\* A write without an approval asks for one, and suspends the job if the lease
\* is still the attempt's own.
requestApproval(c) ==
  /\ Step(c, "write", "suspend")
  /\ appr' = [appr EXCEPT ![c] = "pending"]
  /\ UNCHANGED <<job, runner, sess, cli, proc, fwd, bridge, ran, shutdown>>
suspendAndNotify(c) ==
  /\ Step(c, "suspend", "answered")
  /\ job' = IF job = "running" THEN "waiting" ELSE job
  /\ UNCHANGED <<appr, runner, sess, cli, proc, fwd, bridge, ran, shutdown>>

\* Mutant of consume: the approval is looked up first and marked afterwards.
consumeLater(c) ==
  /\ \/ /\ call[c].pc = "resume"
        /\ IF appr[call[c].names] = "approved" THEN Step(c, "resume", "mark") ELSE Fails(c)
        /\ UNCHANGED appr
     \/ /\ Step(c, "mark", "execute")
        /\ appr' = [appr EXCEPT ![call[c].names] = "consumed"]
  /\ UNCHANGED <<job, runner, sess, cli, proc, fwd, bridge, ran, shutdown>>

\* ConsumeContext: one conditional update.
consume(c) ==
  /\ call[c].pc = "resume"
  /\ IF appr[call[c].names] = "approved"
     THEN /\ Step(c, "resume", "execute")
          /\ appr' = [appr EXCEPT ![call[c].names] = "consumed"]
     ELSE Fails(c) /\ UNCHANGED appr
  /\ UNCHANGED <<job, runner, sess, cli, proc, fwd, bridge, ran, shutdown>>

Imaging(c) == call[c].kind = "image"

\* No receipt, no execution.
receiptRefused(c) == /\ call[c].pc = "execute" /\ Fails(c)
                     /\ UNCHANGED <<recordVars, runner, sess, cli, proc, fwd, bridge>>

\* Gateway.Execute: an unknown operation or an unbound secret ends it there.
gatewayRefuses(c) == /\ call[c].pc = "execute" /\ Fails(c)
                     /\ UNCHANGED <<recordVars, runner, sess, cli, proc, fwd, bridge>>

\* The second receipt, and the file waits for the worker to take it.
keepArtifact(c, ok) ==
  /\ call' = [call EXCEPT ![c] = [@ EXCEPT !.pc = "answered", !.ok = ok]]
  /\ bridge' = [bridge EXCEPT !.artifacts = IF ok /\ Imaging(c) THEN @ \cup {c} ELSE @]

\* Executor.Execute: the script runs, and may fail after it had its effect.
execute(c) ==
  /\ call[c].pc = "execute"
  /\ ran' = IF call[c].kind = "resume" THEN [ran EXCEPT ![call[c].names] = @ + 1] ELSE ran
  /\ \E ok \in BOOLEAN : keepArtifact(c, ok)
  /\ UNCHANGED <<job, appr, runner, sess, cli, proc, fwd, shutdown>>

\* Mutant of afterTake: the model is answered while files are still to be emitted.
afterTakeEarly(files) == "done"

\* The model gets its answer last, after the files are emitted.
afterTake(files) == IF files = {} THEN "done" ELSE "files"

\* The loop is told; TakeArtifacts then takes every file of the attempt,
\* whichever call produced it.
TakeArtifacts(c) ==
  /\ call[c].pc = "answered" /\ CanEmit /\ emit(<<"status">>)
  /\ IF call[c].ok
     THEN /\ call' = [call EXCEPT ![c] = [@ EXCEPT !.pc = afterTake(bridge.artifacts),
                                                  !.taken = bridge.artifacts]]
          /\ bridge' = [bridge EXCEPT !.artifacts = {}]
     ELSE Step(c, "answered", "done") /\ UNCHANGED bridge
  /\ UNCHANGED <<recordVars, runner, cli, proc, fwd>>

emitFile(c) ==
  /\ CanEmit
  /\ \E f \in call[c].taken :
       /\ emit(<<"file", f>>)
       /\ LET rest == call[c].taken \ {f}
          IN  call' = [call EXCEPT ![c] = [@ EXCEPT !.taken = rest, !.pc = afterTake(rest)]]
  /\ UNCHANGED <<recordVars, runner, cli, proc, fwd, bridge>>

toolCall(c) ==
  \/ prepareToolInvocation(c) \/ authorize(c) \/ requestApproval(c) \/ suspendAndNotify(c)
  \/ consume(c) \/ receiptRefused(c) \/ gatewayRefuses(c) \/ execute(c) \/ TakeArtifacts(c)
  \/ emitFile(c)

(***************************************************************************)
(* The whole.                                                              *)
(***************************************************************************)
server == \/ ServerAnswers \/ ServerSpeaks \/ ServerEnds \/ ServerDies
          \/ \E c \in Calls : ServerCalls(c)

TurnNext == \/ runHarness \/ readLoop \/ forwarder \/ server
            \/ \E c \in Calls : toolCall(c)
            \/ \E p \in Approvals : Approve(p)
            \/ LoseJob \/ Shutdown

\* Goroutines run, and the wall time ends every process; the app server need
\* never answer, and nobody need ever approve.
TurnSpec == /\ TurnInit /\ [][TurnNext]_turnVars
            /\ WF_turnVars(runHarness) /\ WF_turnVars(readLoop)
            /\ WF_turnVars(forwarder) /\ WF_turnVars(ServerDies)
            /\ \A c \in Calls : WF_turnVars(toolCall(c))

(***************************************************************************)
(* Properties.                                                             *)
(***************************************************************************)
\* An approved action is executed at most once, however many concurrent calls
\* present the approval (Bridge.serve, ConsumeContext).
ApprovedOnce == \A p \in Approvals : ran[p] <= 1

\* The files of a finished job are all the files its turn's successful calls
\* produced: none is left with the bridge, in the session's buffer or with the
\* forwarder when the result is taken (serverRequest, Events, runHarness).
FilesWithAnswer ==
  job = "done" => \A c \in Calls : call[c].ok /\ Imaging(c) => c \in runner.files

\* A turn ends: runHarness returns, and the attempt's capability and its
\* process are gone for good (runHarness, Abort, terminate, Local.Terminate).
TurnEnds == <>[](runner.pc = "settled" /\ ~proc.alive /\ ~bridge.scope)

=============================================================================
