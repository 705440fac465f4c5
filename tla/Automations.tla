----------------------------- MODULE Automations ------------------------------
(***************************************************************************)
(* Routines and heartbeats (core/routines, core/triggers, core/schedule),  *)
(* the poll loops that turn their occurrences into jobs, and the editors   *)
(* that change them meanwhile: the Slack modals (core/automations and the  *)
(* interactions of core/slack/live.go) and the management API.             *)
(*                                                                         *)
(* Every process of the deployment runs a loop for each kind, on the one   *)
(* database.  A loop reads what is due, asks the policy and, for a         *)
(* heartbeat, the classifier, enqueues a job under a key made of the task  *)
(* and its occurrence, and then advances the task.  Every step of a loop   *)
(* and of an editor is one operation on the database; a loop may be slow,  *)
(* or crash, between any two of them.                                      *)
(***************************************************************************)
EXTENDS Integers, FiniteSets

CONSTANTS Tasks, Loops, Editors,
          KindOf,        \* of a task and of a loop: "routine" or "heartbeat"
          Contents,      \* what a task may say: [cron, every, text, enabled]
          MaxTime,       \* bound: the clock
          MaxEdits,    \* bound: edits, changes of the policy, crashes and failed calls
          ScanLimit,     \* tasks a scan reads (100 in the code)
          IdsReused      \* whether a deleted task's id may be used again

ASSUME AutomationsBounds == /\ {MaxTime, MaxEdits} \subseteq Nat
                           /\ ScanLimit \in Nat \ {0}
ASSUME KindAssumption == KindOf \in [Tasks \cup Loops -> {"routine", "heartbeat"}]
ASSUME ContentAssumption ==
  \A c \in Contents : {c.cron, c.enabled} \subseteq BOOLEAN /\ c.every \in Nat \ {0}
ASSUME ReuseAssumption == IdsReused \in BOOLEAN

VARIABLES clock,
          tasks,      \* the records of both collections; version 0: no record
          used,       \* ids that have had a record
          allowed,    \* whether the channel's policy authorizes background work
          jobs,       \* [task, key, occurrence] of the jobs enqueued
          loop,       \* the poll loops
          editor,     \* the Slack modals
          decided,    \* history: <<task, occurrence>> enqueued, refused or gated
          passed,     \* history: the occurrences a loop has advanced a task past
          count       \* of changes, for the bound

avars == <<clock, tasks, used, allowed, jobs, loop, editor, decided, passed, count>>

NoTask == [version |-> 0]
Saved(t) == tasks[t].version > 0
IdleLoop == [pc |-> "idle", now |-> 0, due |-> {}, task |-> CHOOSE t \in Tasks : TRUE,
             seen |-> NoTask]
IdleEditor == [pc |-> "idle", task |-> CHOOSE t \in Tasks : TRUE, shown |-> NoTask,
               says |-> NoTask, next |-> 0]

Edit == count < MaxEdits /\ count' = count + 1

------------------------------------------------------------------------------
(* schedule.Spec.  A cron schedule's occurrences are the multiples of its   *)
(* period; an interval's go on from the one before.                         *)

\* Spec.Next: the first occurrence strictly after a time.
NextAfter(s, after) ==
  IF s.cron THEN (after \div s.every + 1) * s.every ELSE after + s.every

\* Spec.Advance: the next future occurrence; windows that were missed are skipped.
Advance(s, current, now) ==
  IF s.cron THEN NextAfter(s, now)
  ELSE IF current > now THEN current
  ELSE current + ((now - current) \div s.every + 1) * s.every

\* normalize: the first run is derived from the schedule when none is given.
Normalized(c, next, version) ==
  [version |-> version, says |-> c, next |-> IF next = 0 THEN NextAfter(c, clock) ELSE next]

AutomationsInit ==
  /\ clock = 0
  /\ used \in SUBSET Tasks
  /\ \E c \in Contents :
       tasks = [t \in Tasks |-> IF t \in used THEN Normalized(c, 0, 1) ELSE NoTask]
  /\ allowed = TRUE
  /\ jobs = {}
  /\ loop = [l \in Loops |-> IdleLoop]
  /\ editor = [e \in Editors |-> IdleEditor]
  /\ decided = {}
  /\ passed = {}
  /\ count = 0

Tick == /\ clock < MaxTime
        /\ clock' = clock + 1
        /\ UNCHANGED <<tasks, used, allowed, jobs, loop, editor, decided, passed, count>>

------------------------------------------------------------------------------
(* RunDue of a poll loop.                                                   *)

Earlier(t, u) == tasks[t].next < tasks[u].next
Due(kind) == {t \in Tasks : /\ KindOf[t] = kind /\ Saved(t)
                            /\ tasks[t].says.enabled /\ tasks[t].next <= clock}

\* DueContext: the earliest tasks that are due, read once for the whole scan.
DueContext(l) ==
  /\ loop[l].pc = "idle"
  /\ LET due == Due(KindOf[l])
         read == {t \in due : Cardinality({u \in due : Earlier(u, t)}) < ScanLimit} IN
       /\ due # {}
       /\ loop' = [loop EXCEPT ![l] = [IdleLoop EXCEPT
                     !.pc = "authorize", !.now = clock,
                     !.due = {[task |-> t, record |-> tasks[t]] : t \in read}]]
  /\ UNCHANGED <<clock, tasks, used, allowed, jobs, editor, decided, passed, count>>

Occurrence(l) == <<loop[l].task, loop[l].seen.next>>

\* The tasks are worked off in the order of their occurrences.
First(due) == {d \in due : \A o \in due : d.record.next <= o.record.next}

\* Mutant of Authorize: a task that is refused ends the scan and stays due.
AuthorizeOrStop(l) ==
  /\ loop[l].pc = "authorize"
  /\ \E d \in First(loop[l].due) :
       LET at == [loop[l] EXCEPT !.task = d.task, !.seen = d.record,
                                 !.due = loop[l].due \ {d}] IN
       IF allowed
         THEN /\ loop' = [loop EXCEPT ![l] = [at EXCEPT !.pc =
                           IF KindOf[l] = "heartbeat" THEN "gate" ELSE "enqueue"]]
              /\ UNCHANGED decided
         ELSE /\ loop' = [loop EXCEPT ![l] = IdleLoop]
              /\ decided' = decided \cup {<<d.task, d.record.next>>}
  /\ UNCHANGED <<clock, tasks, used, allowed, jobs, editor, passed, count>>
\* The policy is resolved; a task it does not authorize is advanced, not run.
Authorize(l) ==
  /\ loop[l].pc = "authorize"
  /\ \E d \in First(loop[l].due) :
       LET at == [loop[l] EXCEPT !.task = d.task, !.seen = d.record,
                                 !.due = loop[l].due \ {d}] IN
       IF allowed
         THEN /\ loop' = [loop EXCEPT ![l] = [at EXCEPT !.pc =
                           IF KindOf[l] = "heartbeat" THEN "gate" ELSE "enqueue"]]
              /\ UNCHANGED decided
         ELSE /\ loop' = [loop EXCEPT ![l] = [at EXCEPT !.pc = "advance"]]
              /\ decided' = decided \cup {<<d.task, d.record.next>>}
  /\ UNCHANGED <<clock, tasks, used, allowed, jobs, editor, passed, count>>

\* EvaluateHeartbeat: the flood gate, the context pack and the classifier.  Refused,
\* not confident enough or failed, the occurrence is over.
EvaluateHeartbeat(l) ==
  /\ loop[l].pc = "gate"
  /\ \/ loop' = [loop EXCEPT ![l].pc = "enqueue"] /\ UNCHANGED decided
     \/ /\ loop' = [loop EXCEPT ![l].pc = "advance"]
        /\ decided' = decided \cup {Occurrence(l)}
  /\ UNCHANGED <<clock, tasks, used, allowed, jobs, editor, passed, count>>

\* The idempotency key of the job: the task's channel, id and occurrence.
Key(l) == Occurrence(l)

\* Enqueue is idempotent by key.
Enqueue(l) ==
  /\ loop[l].pc = "enqueue"
  /\ jobs' = IF \E j \in jobs : j.key = Key(l) THEN jobs
             ELSE jobs \cup {[key |-> Key(l), occurrence |-> Occurrence(l)]}
  /\ decided' = decided \cup {Occurrence(l)}
  /\ loop' = [loop EXCEPT ![l].pc = "advance"]
  /\ UNCHANGED <<clock, tasks, used, allowed, editor, passed, count>>

\* AdvanceContext reads the task again; one that is gone ends the scan.
AdvanceRead(l) ==
  /\ loop[l].pc = "advance"
  /\ loop' = [loop EXCEPT ![l] = IF Saved(loop[l].task)
                                   THEN [@ EXCEPT !.pc = "swap", !.seen = tasks[loop[l].task]]
                                   ELSE IdleLoop]
  /\ UNCHANGED <<clock, tasks, used, allowed, jobs, editor, decided, passed, count>>
\* Mutant of From: a task is advanced from the time of its advance.
FromClock(l) == clock
\* A task is advanced from the time its scan began, not from a later one.
From(l) == loop[l].now
\* Its update is conditional on the version; a conflict ends the scan.
AdvanceContext(l) ==
  /\ loop[l].pc = "swap"
  /\ LET t == loop[l].task
         next == Advance(loop[l].seen.says, loop[l].seen.next, From(l)) IN
       IF tasks[t].version = loop[l].seen.version
         THEN /\ tasks' = [tasks EXCEPT ![t] = [@ EXCEPT !.next = next,
                                                        !.version = tasks[t].version + 1]]
              /\ passed' = IF next > tasks[t].next
                             THEN passed \cup {[task |-> t, at |-> tasks[t].next,
                                                 scan |-> loop[l].now]}
                             ELSE passed
              /\ loop' = [loop EXCEPT ![l] =
                            IF loop[l].due = {} THEN IdleLoop
                            ELSE [@ EXCEPT !.pc = "authorize", !.seen = NoTask]]
         ELSE /\ loop' = [loop EXCEPT ![l] = IdleLoop]
              /\ UNCHANGED <<tasks, passed>>
  /\ UNCHANGED <<clock, used, allowed, jobs, editor, decided, count>>

\* The process of a loop ends and another begins, or a call fails and ends the scan.
Crash(l) ==
  /\ Edit
  /\ loop[l].pc # "idle"
  /\ loop' = [loop EXCEPT ![l] = IdleLoop]
  /\ UNCHANGED <<clock, tasks, used, allowed, jobs, editor, decided, passed>>

------------------------------------------------------------------------------
(* The modals of Slack: automations.Editor.                                 *)

\* The modal closes: what it asked for is done, or it is told of a conflict.
Close(e) == editor' = [editor EXCEPT ![e] = IdleEditor]

\* What List shows, and the picker and the edit button name.
Listed == {t \in Tasks : Saved(t)}
\* Load opens a modal; its metadata hold the version it shows.
Load(e) ==
  /\ editor[e].pc = "idle"
  /\ allowed
  /\ \E t \in Listed :
       /\ editor' = [editor EXCEPT ![e] = [IdleEditor EXCEPT !.pc = "open", !.task = t,
                                                             !.shown = tasks[t]]]
  /\ UNCHANGED <<clock, tasks, used, allowed, jobs, loop, decided, passed, count>>

\* NormalizeAutomationSubmission: what a modal asks for is a cron schedule.
Submission == {c \in Contents : c.cron}
SameSchedule(c, d) == c.cron = d.cron /\ c.every = d.every
Stale(e) == tasks[editor[e].task].version # editor[e].shown.version

\* Save reads the task: a new schedule has its first run derived again.
SaveRead(e) ==
  /\ editor[e].pc = "open"
  /\ Edit
  /\ IF ~ allowed \/ Stale(e)
       THEN Close(e)
       ELSE \E c \in Submission :
              editor' = [editor EXCEPT ![e] = [@ EXCEPT !.pc = "save", !.says = c,
                !.next = IF SameSchedule(c, tasks[editor[e].task].says)
                           THEN tasks[editor[e].task].next ELSE 0]]
  /\ UNCHANGED <<clock, tasks, used, allowed, jobs, loop, decided, passed>>

\* Mutant of UpdateContext: the update does not ask for the version.
UpdateContextAny(e) ==
  /\ editor[e].pc = "save"
  /\ tasks' = [tasks EXCEPT ![editor[e].task] =
                 Normalized(editor[e].says, editor[e].next, @.version + 1)]
  /\ Close(e)
  /\ UNCHANGED <<clock, used, allowed, jobs, loop, decided, passed, count>>
\* UpdateContext: one update of every field, conditional on the version.  A receipt
\* follows; that it fails is told the modal and changes nothing.
UpdateContext(e) ==
  /\ editor[e].pc = "save"
  /\ tasks' = IF Stale(e) THEN tasks
              ELSE [tasks EXCEPT ![editor[e].task] =
                      Normalized(editor[e].says, editor[e].next, @.version + 1)]
  /\ Close(e)
  /\ UNCHANGED <<clock, used, allowed, jobs, loop, decided, passed, count>>

\* Delete: the deletion, too, is conditional on the version.
DeleteContext(e) ==
  /\ editor[e].pc = "open"
  /\ Edit
  /\ tasks' = IF ~ allowed \/ Stale(e) THEN tasks
              ELSE [tasks EXCEPT ![editor[e].task] = NoTask]
  /\ Close(e)
  /\ UNCHANGED <<clock, used, allowed, jobs, loop, decided, passed>>

\* CreateContext: the modal of a new task; the id must be free.
CreateContext(e) ==
  /\ editor[e].pc = "idle"
  /\ allowed
  /\ Edit
  /\ \E t \in Tasks, c \in Submission :
       /\ KindOf[t] = "heartbeat" /\ ~ Saved(t)
       /\ IdsReused \/ t \notin used
       /\ tasks' = [tasks EXCEPT ![t] = Normalized(c, 0, 1)]
       /\ used' = used \cup {t}
  /\ UNCHANGED <<clock, allowed, jobs, loop, editor, decided, passed>>

\* PutContext writes every field, whatever the version is.
Upsert(t, c, next) == tasks' = [tasks EXCEPT ![t] = Normalized(c, next, @.version + 1)]
\* The management API puts a task.  A first run is named for intervals only, and is
\* not in the past.
PutAutomation(t) ==
  /\ Edit
  /\ IdsReused \/ t \notin used \/ Saved(t)
  /\ \E c \in Contents : \E next \in IF c.cron THEN {0} ELSE {0, clock + 1} :
       Upsert(t, c, next)
  /\ used' = used \cup {t}
  /\ UNCHANGED <<clock, allowed, jobs, loop, editor, decided, passed>>

\* An operator withdraws the channel's authorization, or gives it back.
SetPolicy ==
  /\ Edit
  /\ allowed' = ~ allowed
  /\ UNCHANGED <<clock, tasks, used, jobs, loop, editor, decided, passed>>

------------------------------------------------------------------------------
LoopStep(l) == \/ DueContext(l) \/ Authorize(l) \/ EvaluateHeartbeat(l)
               \/ Enqueue(l) \/ AdvanceRead(l) \/ AdvanceContext(l)
EditorStep(e) == \/ Load(e) \/ SaveRead(e) \/ UpdateContext(e)
                 \/ DeleteContext(e) \/ CreateContext(e)

AutomationsNext ==
  \/ Tick \/ SetPolicy
  \/ \E l \in Loops : LoopStep(l) \/ Crash(l)
  \/ \E e \in Editors : EditorStep(e)
  \/ \E t \in Tasks : PutAutomation(t)

\* schedule.Service polls for as long as the process lives; time passes.
AutomationsFairness == \A l \in Loops : WF_avars(LoopStep(l))

AutomationsSpec == AutomationsInit /\ [][AutomationsNext]_avars /\ AutomationsFairness

------------------------------------------------------------------------------
\* No occurrence is lost and none runs twice: what a loop advances past was due
\* when its scan began, and this or an occurrence before it was enqueued or refused
\* (windows missed meanwhile are one); and no two jobs come of one occurrence.
\* Crashes, edits and overlapping scans may lie between reading what is due and
\* advancing it.
EachOccurrenceOnce ==
  /\ \A p \in passed : /\ p.at <= p.scan
                        /\ \E w \in 0 .. p.at : <<p.task, w>> \in decided
  /\ \A j, k \in jobs : j.occurrence = k.occurrence => j = k

\* An editor's save or deletion that is accepted replaces exactly what its modal
\* showed: nobody's edit is lost under it.
EditsReplaceWhatTheyShowed ==
  [][\A e \in Editors :
       editor[e].pc \in {"open", "save"} /\ editor'[e].pc = "idle" /\ tasks' # tasks =>
         tasks[editor[e].task].says = editor[e].shown.says]_avars

\* A task that is due does not stay so: refused, failed and conflicting ones before
\* it in the list do not keep it from being decided.
DueIsDecided ==
  \A t \in Tasks : \A w \in 1 .. MaxTime :
    Saved(t) /\ tasks[t].says.enabled /\ tasks[t].next = w /\ w <= clock
      ~> ~ Saved(t) \/ ~ tasks[t].says.enabled \/ tasks[t].next # w
=============================================================================
