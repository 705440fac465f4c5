---------------------------- MODULE InitiativeProofs ----------------------------
(***************************************************************************)
(* When Tag acts by itself, and what it answers.                           *)
(*                                                                         *)
(* Automations: occurrences are decided once, and edits replace what they  *)
(* showed.  A loop advances the record it read last, not the one it found  *)
(* due, and other loops and editors write between.  Two facts carry the    *)
(* proof.                                                                  *)
(* A version identifies a record, as every write raises it and no id is    *)
(* used again.  And a task of which something was decided never comes      *)
(* before all that was decided: a loop advances past the time of its scan, *)
(* an editor past the clock, and whoever keeps the time keeps it as it is. *)
(*                                                                         *)
(* Judgement (the last sections): a chain of corrections rewrites what the *)
(* model answered.  The proof goes along the chain, for any text, context, *)
(* profiles and answer, with one fact about each correction.               *)
(***************************************************************************)
EXTENDS Automations, Judgement, TLAPS

\* The functions and records the module keeps.
On(f, S) == f = [x \in S |-> f[x]]
IsRecord(r) == r = [version |-> r.version, says |-> r.says, next |-> r.next]
IsLoop(x) == x = [pc |-> x.pc, now |-> x.now, due |-> x.due, task |-> x.task, seen |-> x.seen]
IsEditor(x) == x = [pc |-> x.pc, task |-> x.task, shown |-> x.shown, says |-> x.says,
                    next |-> x.next]

\* An occurrence of a cron schedule is a multiple of its period.
OnSchedule(c, n) == c.cron => \E m \in 0 .. n : n = m * c.every
RecordOK(r) == /\ IsRecord(r)
               /\ r.version \in Nat \ {0} /\ r.says \in Contents /\ r.next \in Nat
               /\ OnSchedule(r.says, r.next)
TasksInv == /\ On(tasks, Tasks)
            /\ \A t \in Tasks : \/ tasks[t] = NoTask
                                \/ RecordOK(tasks[t]) /\ t \in used

\* A record that was read of task t: as long as t has its version, it is the record of t.
SeenOK(r, t, ts, us) ==
  /\ RecordOK(r) /\ t \in us
  /\ \/ ts[t] = NoTask
     \/ RecordOK(ts[t]) /\ r.version < ts[t].version
     \/ ts[t] = r

\* Something was decided of task t.
Begun(t, dec) == \E d \in dec : d[1] = t
\* Occurrence w of task t was due at now: t has not gone back before it, unless it began.
Pending(t, w, now, ts, dec) ==
  /\ t \in Tasks /\ w \in Nat /\ w <= now
  /\ Begun(t, dec) \/ ts[t] = NoTask \/ ts[t].next >= w

LoopOK(x, ts, us, dec, c) ==
  /\ IsLoop(x) /\ x.now \in Nat /\ x.now <= c
  /\ \A d \in x.due : Pending(d.task, d.record.next, x.now, ts, dec)
  /\ x.pc \in {"gate", "enqueue"} => Pending(x.task, x.seen.next, x.now, ts, dec)
  /\ x.pc \in {"advance", "swap"} =>
       x.task \in Tasks /\ \E w \in 0 .. x.now : <<x.task, w>> \in dec
  /\ x.pc = "swap" => SeenOK(x.seen, x.task, ts, us)
LoopsInv == /\ On(loop, Loops)
            /\ \A l \in Loops : LoopOK(loop[l], tasks, used, decided, clock)

EditorOK(x, ts, us) ==
  /\ IsEditor(x)
  /\ x.pc \in {"open", "save"} => x.task \in Tasks /\ SeenOK(x.shown, x.task, ts, us)
  /\ x.pc = "save" => /\ x.says \in Submission /\ x.next \in Nat
                      /\ x.next # 0 => x.next = x.shown.next /\ OnSchedule(x.says, x.next)
EditorsInv == /\ On(editor, Editors)
              /\ \A e \in Editors : EditorOK(editor[e], tasks, used)

\* What was decided was due, and no task comes before all that was decided of it.
DecidedInv ==
  /\ clock \in Nat
  /\ decided \subseteq Tasks \X (0 .. clock)
  /\ \A t \in Tasks : Begun(t, decided) =>
       tasks[t] = NoTask \/ \E w \in 0 .. tasks[t].next : <<t, w>> \in decided

PassedInv == \A p \in passed : /\ p.at <= p.scan
                               /\ \E w \in 0 .. p.at : <<p.task, w>> \in decided
JobsInv == \A j \in jobs : j = [key |-> j.occurrence, occurrence |-> j.occurrence]

AInv == TasksInv /\ LoopsInv /\ EditorsInv /\ DecidedInv /\ PassedInv /\ JobsInv

------------------------------------------------------------------------------
(* Schedules.                                                               *)

\* Division, as far as schedules need it.
LEMMA Divides ==
  ASSUME NEW a \in Nat, NEW e \in Nat \ {0}
  PROVE  /\ a \div e \in Nat /\ (a \div e) * e <= a
         /\ (a \div e + 1) * e \in Nat /\ a < (a \div e + 1) * e
  OBVIOUS

\* The multiple after a time is the first one after it.
LEMMA NoneBetween ==
  ASSUME NEW m \in Nat, NEW q \in Nat, NEW e \in Nat \ {0}, m * e < (q + 1) * e
  PROVE  m * e <= q * e
  OBVIOUS

\* A multiple is not smaller than what is multiplied.
LEMMA Multiple ==
  ASSUME NEW q \in Nat, NEW e \in Nat \ {0}
  PROVE  q * e \in Nat /\ q <= q * e
  OBVIOUS

\* Spec.Next gives an occurrence of the schedule after the time it is asked for.
LEMMA NextIsAfter ==
  ASSUME NEW c \in Contents, NEW a \in Nat
  PROVE  NextAfter(c, a) \in Nat /\ NextAfter(c, a) > a /\ OnSchedule(c, NextAfter(c, a))
<1>1. c.every \in Nat \ {0} /\ c.cron \in BOOLEAN
  BY ContentAssumption
<1>2. CASE c.cron
  <2> DEFINE q == a \div c.every + 1
  <2>1. NextAfter(c, a) = q * c.every
    BY <1>2 DEF NextAfter
  <2>2. q \in Nat /\ q * c.every \in Nat /\ a < q * c.every
    BY <1>1, Divides
  <2> HIDE DEF q
  <2>3. q \in 0 .. (q * c.every)
    BY <1>1, <2>2, Multiple
  <2>4. QED
    BY <2>1, <2>2, <2>3 DEF OnSchedule
<1>3. CASE ~c.cron
  BY <1>1, <1>3 DEF NextAfter, OnSchedule
<1>4. QED
  BY <1>2, <1>3

\* Spec.Advance comes after the time it is asked for; a record whose time it moves was due.
LEMMA AdvanceIsAfter ==
  ASSUME NEW c \in Contents, NEW current \in Nat, OnSchedule(c, current), NEW now \in Nat
  PROVE  /\ Advance(c, current, now) \in Nat /\ Advance(c, current, now) > now
         /\ OnSchedule(c, Advance(c, current, now))
         /\ Advance(c, current, now) > current => current <= now
<1>1. c.every \in Nat \ {0} /\ c.cron \in BOOLEAN
  BY ContentAssumption
<1>2. CASE c.cron
  <2>1. Advance(c, current, now) = NextAfter(c, now)
    BY <1>2 DEF Advance
  <2>2. ASSUME NextAfter(c, now) > current PROVE current <= now
    <3> DEFINE q == now \div c.every
    <3>1. NextAfter(c, now) = (q + 1) * c.every
      BY <1>2 DEF NextAfter
    <3>2. q \in Nat /\ q * c.every <= now /\ q * c.every \in Nat
      BY <1>1, Divides, Multiple
    <3>3. PICK m \in 0 .. current : current = m * c.every
      BY <1>2 DEF OnSchedule
    <3> HIDE DEF q
    <3>4. m * c.every < (q + 1) * c.every
      BY <1>1, <2>2, <3>1, <3>2, <3>3
    <3>5. m * c.every <= q * c.every
      BY <1>1, <3>2, <3>4, NoneBetween
    <3>6. QED
      BY <3>2, <3>3, <3>5
  <2>3. QED
    BY <2>1, <2>2, NextIsAfter
<1>3. CASE ~c.cron
  <2>1. CASE current > now
    BY <1>3, <2>1 DEF Advance, OnSchedule
  <2>2. CASE ~(current > now)
    <3> DEFINE d == now - current
               q == d \div c.every + 1
    <3>1. d \in Nat
      BY <2>2
    <3>2. q * c.every \in Nat /\ d < q * c.every
      BY <1>1, <3>1, Divides
    <3>3. Advance(c, current, now) = current + q * c.every
      BY <1>3, <2>2 DEF Advance
    <3> DEFINE p == q * c.every
    <3> HIDE DEF q, p
    <3>4. p \in Nat /\ now < current + p /\ Advance(c, current, now) = current + p
      BY <3>2, <3>3 DEF p
    <3>5. QED
      BY <1>3, <2>2, <3>4 DEF OnSchedule
  <2>3. QED
    BY <2>1, <2>2
<1>4. QED
  BY <1>2, <1>3

\* What normalize makes of a submission.
LEMMA NormalizedOK ==
  ASSUME clock \in Nat, NEW c \in Contents, NEW n \in Nat, NEW v \in Nat \ {0},
         n # 0 => OnSchedule(c, n)
  PROVE  /\ RecordOK(Normalized(c, n, v))
         /\ Normalized(c, n, v).version = v /\ Normalized(c, n, v).says = c
         /\ n # 0 => Normalized(c, n, v).next = n
         /\ n = 0 => Normalized(c, n, v).next > clock
<1> DEFINE r == Normalized(c, n, v)
<1>1. IsRecord(r) /\ r.version = v /\ r.says = c
  BY DEF Normalized, IsRecord
<1>2. (n # 0 => r.next = n) /\ (n = 0 => r.next = NextAfter(c, clock))
  BY DEF Normalized
<1> HIDE DEF r
<1>3. NextAfter(c, clock) \in Nat /\ NextAfter(c, clock) > clock
      /\ OnSchedule(c, NextAfter(c, clock))
  BY NextIsAfter
<1>4. r.next \in Nat /\ OnSchedule(c, r.next) /\ (n = 0 => r.next > clock)
  BY <1>2, <1>3
<1>5. QED
  BY <1>1, <1>2, <1>4 DEF RecordOK, r

------------------------------------------------------------------------------
(* What every step leaves standing.                                         *)

\* A record is not the absence of one.
LEMMA RecordIsSome ==
  ASSUME NEW r, RecordOK(r)
  PROVE  r # NoTask
<1>1. r.version # 0
  BY DEF RecordOK
<1>2. NoTask.version = 0
  BY DEF NoTask
<1>3. QED
  BY <1>1, <1>2

\* Whether a task is saved.
LEMMA SavedIsSome ==
  ASSUME TasksInv, NEW t \in Tasks
  PROVE  /\ Saved(t) <=> tasks[t] # NoTask
         /\ tasks[t] # NoTask => RecordOK(tasks[t]) /\ t \in used
         /\ tasks[t].version \in Nat /\ (tasks[t] = NoTask => tasks[t].version = 0)
<1>1. CASE tasks[t] = NoTask
  BY <1>1 DEF Saved, NoTask
<1>2. CASE tasks[t] # NoTask
  <2>1. RecordOK(tasks[t]) /\ t \in used
    BY <1>2 DEF TasksInv
  <2>2. QED
    BY <1>2, <2>1 DEF Saved, RecordOK
<1>3. QED
  BY <1>1, <1>2

\* What every step leaves standing: what was read of a record; that a task does not go back
\* before what is due; what was decided; the time.
Stands ==
  /\ \A k \in Tasks : \A r : SeenOK(r, k, tasks, used) => SeenOK(r, k, tasks', used')
  /\ \A k \in Tasks : \/ Begun(k, decided')
                      \/ tasks'[k] = NoTask
                      \/ tasks'[k].next > clock
                      \/ tasks[k] # NoTask /\ tasks'[k].next = tasks[k].next
  /\ \A k \in Tasks : tasks'[k] # NoTask => tasks'[k].next \in Nat
  /\ decided \subseteq decided'
  /\ clock \in Nat /\ clock' \in Nat /\ clock <= clock'

\* What was due for a loop stays so.
LEMMA PendingStands ==
  ASSUME Stands, NEW t, NEW w, NEW now, now \in Nat, now <= clock,
         Pending(t, w, now, tasks, decided)
  PROVE  Pending(t, w, now, tasks', decided')
<1>1. t \in Tasks /\ w \in Nat /\ w <= now
  BY DEF Pending
<1>2. CASE Begun(t, decided)
  <2>1. Begun(t, decided')
    BY <1>2 DEF Stands, Begun
  <2>2. QED
    BY <1>1, <2>1 DEF Pending
<1>3. CASE tasks'[t] = NoTask \/ Begun(t, decided')
  BY <1>1, <1>3 DEF Pending
<1>4. CASE tasks'[t] # NoTask /\ tasks'[t].next > clock
  <2>1. tasks'[t].next \in Nat /\ clock \in Nat
    BY <1>1, <1>4 DEF Stands
  <2>2. tasks'[t].next >= w
    BY <1>1, <1>4, <2>1
  <2>3. QED
    BY <1>1, <2>2 DEF Pending
<1>5. CASE ~Begun(t, decided) /\ tasks[t] # NoTask /\ tasks'[t].next = tasks[t].next
  BY <1>1, <1>5 DEF Pending
<1>6. QED
  BY <1>1, <1>2, <1>3, <1>4, <1>5 DEF Stands

\* A loop that does not move.
LEMMA LoopStands ==
  ASSUME Stands, NEW x, LoopOK(x, tasks, used, decided, clock)
  PROVE  LoopOK(x, tasks', used', decided', clock')
<1>1. IsLoop(x) /\ x.now \in Nat /\ x.now <= clock /\ x.now <= clock'
  BY DEF LoopOK, Stands
<1>2. \A d \in x.due : Pending(d.task, d.record.next, x.now, tasks', decided')
  BY <1>1, PendingStands DEF LoopOK
<1>3. x.pc \in {"gate", "enqueue"} => Pending(x.task, x.seen.next, x.now, tasks', decided')
  BY <1>1, PendingStands DEF LoopOK
<1>4. x.pc \in {"advance", "swap"} =>
        x.task \in Tasks /\ \E w \in 0 .. x.now : <<x.task, w>> \in decided'
  BY DEF LoopOK, Stands
<1>5. x.pc = "swap" => SeenOK(x.seen, x.task, tasks', used')
  BY DEF LoopOK, Stands
<1>6. QED
  BY <1>1, <1>2, <1>3, <1>4, <1>5 DEF LoopOK

\* No loop moves.
LEMMA LoopsStand ==
  ASSUME Stands, LoopsInv, loop' = loop
  PROVE  LoopsInv'
  BY LoopStands DEF LoopsInv

\* Loop l moves.
LEMMA LoopMoves ==
  ASSUME Stands, LoopsInv, NEW l \in Loops, NEW x, loop' = [loop EXCEPT ![l] = x],
         LoopOK(x, tasks', used', decided', clock')
  PROVE  LoopsInv'
<1>1. On(loop', Loops) /\ \A k \in Loops : loop'[k] = IF k = l THEN x ELSE loop[k]
  BY DEF LoopsInv, On
<1>2. \A k \in Loops : LoopOK(loop[k], tasks', used', decided', clock')
  BY LoopStands DEF LoopsInv
<1>3. \A k \in Loops : LoopOK(loop'[k], tasks', used', decided', clock')
  BY <1>1, <1>2
<1>4. QED
  BY <1>1, <1>3 DEF LoopsInv

\* A modal that does not move.
LEMMA EditorStands ==
  ASSUME Stands, NEW x, EditorOK(x, tasks, used)
  PROVE  EditorOK(x, tasks', used')
  BY DEF EditorOK, Stands

\* No modal moves.
LEMMA EditorsStand ==
  ASSUME Stands, EditorsInv, editor' = editor
  PROVE  EditorsInv'
  BY EditorStands DEF EditorsInv

\* The modal of e moves.
LEMMA EditorMoves ==
  ASSUME Stands, EditorsInv, NEW e \in Editors, NEW x, editor' = [editor EXCEPT ![e] = x],
         EditorOK(x, tasks', used')
  PROVE  EditorsInv'
<1>1. On(editor', Editors) /\ \A k \in Editors : editor'[k] = IF k = e THEN x ELSE editor[k]
  BY DEF EditorsInv, On
<1>2. \A k \in Editors : EditorOK(editor[k], tasks', used')
  BY EditorStands DEF EditorsInv
<1>3. \A k \in Editors : EditorOK(editor'[k], tasks', used')
  BY <1>1, <1>2
<1>4. QED
  BY <1>1, <1>3 DEF EditorsInv

\* An idle loop and a closed modal.
LEMMA IdleIsOK ==
  ASSUME NEW ts, NEW us, NEW dec, NEW c \in Nat
  PROVE  LoopOK(IdleLoop, ts, us, dec, c) /\ EditorOK(IdleEditor, ts, us)
         /\ IdleEditor.pc = "idle"
<1>1. /\ IsLoop(IdleLoop) /\ IdleLoop.pc = "idle" /\ IdleLoop.due = {} /\ IdleLoop.now = 0
      /\ IsEditor(IdleEditor) /\ IdleEditor.pc = "idle"
  BY DEF IdleLoop, IdleEditor, IsLoop, IsEditor
<1>2. QED
  BY <1>1 DEF LoopOK, EditorOK

\* No record changes.
LEMMA NoWrite ==
  ASSUME TasksInv, DecidedInv, tasks' = tasks, used' = used, decided \subseteq decided',
         clock' \in Nat, clock <= clock'
  PROVE  Stands /\ TasksInv'
<1>1. \A k \in Tasks : tasks[k] # NoTask => tasks[k].next \in Nat
  BY DEF TasksInv, RecordOK
<1>2. Stands
  BY <1>1 DEF Stands, DecidedInv
<1>3. QED
  BY <1>2 DEF TasksInv

\* Nothing is decided either.
LEMMA NothingDecided ==
  ASSUME TasksInv, DecidedInv, PassedInv, tasks' = tasks, used' = used, decided' = decided,
         passed' = passed, clock' \in Nat, clock <= clock'
  PROVE  Stands /\ TasksInv' /\ DecidedInv' /\ PassedInv'
<1>1. Stands /\ TasksInv'
  BY NoWrite
<1>2. clock \in Nat /\ 0 .. clock \subseteq 0 .. clock'
  BY DEF DecidedInv
<1>3. decided' \subseteq Tasks \X (0 .. clock')
  BY <1>2 DEF DecidedInv
<1>4. DecidedInv'
  BY <1>3 DEF DecidedInv
<1>5. QED
  BY <1>1, <1>4 DEF PassedInv

\* An occurrence that was due is decided.
LEMMA OneDecided ==
  ASSUME TasksInv, DecidedInv, PassedInv, tasks' = tasks, used' = used, passed' = passed,
         clock' = clock, NEW t, NEW w, NEW now \in Nat, now <= clock,
         Pending(t, w, now, tasks, decided), decided' = decided \cup {<<t, w>>}
  PROVE  /\ Stands /\ TasksInv' /\ DecidedInv' /\ PassedInv'
         /\ t \in Tasks /\ \E v \in 0 .. now : <<t, v>> \in decided'
<1>1. /\ clock \in Nat /\ t \in Tasks /\ w \in 0 .. now /\ w \in 0 .. clock
      /\ <<t, w>> \in decided' /\ decided \subseteq decided'
  BY DEF DecidedInv, Pending
<1>2. Stands /\ TasksInv'
  BY <1>1, NoWrite
<1>3. decided' \subseteq Tasks \X (0 .. clock)
  BY <1>1 DEF DecidedInv
<1>4. ASSUME NEW k \in Tasks, Begun(k, decided'), tasks[k] # NoTask
      PROVE  \E v \in 0 .. tasks[k].next : <<k, v>> \in decided'
  <2>1. CASE Begun(k, decided)
    BY <1>1, <1>4, <2>1 DEF DecidedInv
  <2>2. CASE ~Begun(k, decided)
    <3>1. k = t
      BY <1>4, <2>2 DEF Begun
    <3>2. tasks[t].next >= w
      BY <1>4, <2>2, <3>1 DEF Pending
    <3>3. tasks[t].next \in Nat
      BY <1>1, <1>4, <3>1 DEF TasksInv, RecordOK
    <3>4. w \in 0 .. tasks[t].next
      BY <1>1, <3>2, <3>3
    <3>5. QED
      BY <1>1, <3>1, <3>4
  <2>3. QED
    BY <2>1, <2>2
<1>5. DecidedInv'
  BY <1>1, <1>3, <1>4 DEF DecidedInv
<1>6. PassedInv'
  BY <1>1 DEF PassedInv
<1>7. QED
  BY <1>1, <1>2, <1>5, <1>6

\* A record is written, with the next version; a new one only under an id that had none.
\* Its time is after the clock, or after something that was decided, or what it was.
LEMMA OneWritten ==
  ASSUME TasksInv, DecidedInv, NEW t \in Tasks, NEW r, tasks' = [tasks EXCEPT ![t] = r],
         RecordOK(r), r.version = tasks[t].version + 1, tasks[t] # NoTask \/ t \notin used,
         used' = used \cup {t}, decided' = decided, clock' = clock,
         \/ r.next > clock
         \/ \E v \in 0 .. r.next : <<t, v>> \in decided
         \/ tasks[t] # NoTask /\ r.next = tasks[t].next
  PROVE  Stands /\ TasksInv' /\ DecidedInv'
<1>1. On(tasks', Tasks) /\ \A k \in Tasks : tasks'[k] = IF k = t THEN r ELSE tasks[k]
  BY DEF TasksInv, On
<1>2. TasksInv'
  BY <1>1 DEF TasksInv
<1>3. tasks[t].version \in Nat /\ (tasks[t] # NoTask => RecordOK(tasks[t]))
  BY SavedIsSome
<1>4. ASSUME NEW k \in Tasks, NEW x, SeenOK(x, k, tasks, used)
      PROVE  SeenOK(x, k, tasks', used')
  <2>1. CASE k # t
    BY <1>1, <1>4, <2>1 DEF SeenOK
  <2>2. CASE k = t
    <3>1. tasks[t] # NoTask /\ t \in used /\ RecordOK(x)
      BY <1>4, <2>2 DEF SeenOK
    <3>2. x.version = tasks[t].version \/ x.version < tasks[t].version
      BY <1>4, <2>2, <3>1 DEF SeenOK
    <3>3. x.version < r.version
      BY <1>3, <3>1, <3>2 DEF RecordOK
    <3>4. QED
      BY <1>1, <2>2, <3>1, <3>3 DEF SeenOK
  <2>3. QED
    BY <2>1, <2>2
<1>5. \A k \in Tasks : tasks'[k] # NoTask => tasks'[k].next \in Nat
  BY <1>2 DEF TasksInv, RecordOK
<1>6. clock \in Nat /\ r.next \in Nat
  BY DEF DecidedInv, RecordOK
<1>7. \A k \in Tasks : \/ Begun(k, decided')
                       \/ tasks'[k] = NoTask
                       \/ tasks'[k].next > clock
                       \/ tasks[k] # NoTask /\ tasks'[k].next = tasks[k].next
  BY <1>1 DEF Begun
<1>8. Stands
  <2>1. \A k \in Tasks : \A x : SeenOK(x, k, tasks, used) => SeenOK(x, k, tasks', used')
    BY <1>4
  <2>2. decided \subseteq decided' /\ clock' \in Nat /\ clock <= clock'
    BY <1>6
  <2>3. QED
    BY <1>5, <1>6, <1>7, <2>1, <2>2, Zenon DEF Stands
<1>9. ASSUME Begun(t, decided) PROVE \E v \in 0 .. r.next : <<t, v>> \in decided
  <2>1. CASE r.next > clock
    <3>1. PICK d \in decided : d[1] = t
      BY <1>9 DEF Begun
    <3>2. d = <<t, d[2]>> /\ d[2] \in 0 .. clock
      BY <3>1 DEF DecidedInv
    <3>3. d[2] \in 0 .. r.next
      BY <1>6, <2>1, <3>2
    <3>4. QED
      BY <3>1, <3>2, <3>3
  <2>2. CASE tasks[t] # NoTask /\ r.next = tasks[t].next
    BY <1>9, <2>2 DEF DecidedInv
  <2>3. QED
    BY <2>1, <2>2
<1>10. DecidedInv'
  BY <1>1, <1>6, <1>9 DEF DecidedInv
<1>11. QED
  BY <1>2, <1>8, <1>10

\* A record is deleted.
LEMMA OneDeleted ==
  ASSUME TasksInv, DecidedInv, NEW t \in Tasks, tasks' = [tasks EXCEPT ![t] = NoTask],
         used' = used, decided' = decided, clock' = clock
  PROVE  Stands /\ TasksInv' /\ DecidedInv'
<1>1. On(tasks', Tasks) /\ \A k \in Tasks : tasks'[k] = IF k = t THEN NoTask ELSE tasks[k]
  BY DEF TasksInv, On
<1>2. TasksInv'
  BY <1>1 DEF TasksInv
<1>3. \A k \in Tasks : \A x : SeenOK(x, k, tasks, used) => SeenOK(x, k, tasks', used')
  BY <1>1 DEF SeenOK
<1>4. \A k \in Tasks : tasks'[k] # NoTask => tasks'[k].next \in Nat
  BY <1>2 DEF TasksInv, RecordOK
<1>5. Stands
  <2>1. \A k \in Tasks : \/ Begun(k, decided')
                         \/ tasks'[k] = NoTask
                         \/ tasks'[k].next > clock
                         \/ tasks[k] # NoTask /\ tasks'[k].next = tasks[k].next
    BY <1>1
  <2>2. clock \in Nat /\ clock' \in Nat /\ clock <= clock' /\ decided \subseteq decided'
    BY DEF DecidedInv
  <2>3. QED
    BY <1>3, <1>4, <2>1, <2>2, Zenon DEF Stands
<1>6. DecidedInv'
  BY <1>1 DEF DecidedInv
<1>7. QED
  BY <1>2, <1>5, <1>6

------------------------------------------------------------------------------
(* The steps of a loop.                                                     *)

\* A loop moves and nothing else does.
LEMMA OnlyLoopMoves ==
  ASSUME AInv, NEW l \in Loops, NEW x, loop' = [loop EXCEPT ![l] = x],
         LoopOK(x, tasks, used, decided, clock),
         UNCHANGED <<clock, tasks, used, jobs, editor, decided, passed>>
  PROVE  AInv'
<1>1. Stands /\ TasksInv' /\ DecidedInv' /\ PassedInv'
  <2>1. clock' \in Nat /\ clock <= clock'
    BY DEF AInv, DecidedInv
  <2>2. QED
    BY <2>1, NothingDecided DEF AInv
<1>2. LoopsInv'
  <2>1. LoopOK(x, tasks', used', decided', clock')
    OBVIOUS
  <2>2. QED
    BY <1>1, <2>1, LoopMoves DEF AInv
<1>3. EditorsInv' /\ JobsInv'
  BY <1>1, EditorsStand DEF AInv, JobsInv
<1>4. QED
  BY <1>1, <1>2, <1>3 DEF AInv

\* DueContext reads what is due.
LEMMA DueContextKeeps ==
  ASSUME AInv, NEW l \in Loops, DueContext(l)
  PROVE  AInv'
<1> DEFINE due == Due(KindOf[l])
           read == {t \in due : Cardinality({u \in due : Earlier(u, t)}) < ScanLimit}
           found == {[task |-> t, record |-> tasks[t]] : t \in read}
<1>1. PICK x : x = [IdleLoop EXCEPT !.pc = "authorize", !.now = clock, !.due = found]
  OBVIOUS
<1>2. loop' = [loop EXCEPT ![l] = x]
  BY <1>1 DEF DueContext
<1>3. IsLoop(x) /\ x.pc = "authorize" /\ x.now = clock /\ x.due = found
  BY <1>1 DEF IdleLoop, IsLoop
<1>4. clock \in Nat
  BY DEF AInv, DecidedInv
<1>5. ASSUME NEW d \in found PROVE Pending(d.task, d.record.next, clock, tasks, decided)
  <2>1. PICK t \in due : d = [task |-> t, record |-> tasks[t]]
    OBVIOUS
  <2>2. t \in Tasks /\ Saved(t) /\ tasks[t].next <= clock
    BY <2>1 DEF Due
  <2>3. RecordOK(tasks[t])
    BY <2>2, SavedIsSome DEF AInv
  <2>4. d.task = t /\ d.record = tasks[t] /\ tasks[t].next \in Nat
    BY <2>1, <2>3 DEF RecordOK
  <2>5. tasks[t].next >= tasks[t].next
    BY <2>4
  <2>6. QED
    BY <2>2, <2>4, <2>5 DEF Pending
<1> HIDE DEF found
<1>6. LoopOK(x, tasks, used, decided, clock)
  BY <1>3, <1>4, <1>5 DEF LoopOK
<1>7. QED
  BY <1>2, <1>6, OnlyLoopMoves DEF DueContext

\* A loop decides the occurrence it is at.
LEMMA LoopDecides ==
  ASSUME AInv, NEW l \in Loops, NEW x, loop' = [loop EXCEPT ![l] = x], IsLoop(x),
         NEW t, NEW w, Pending(t, w, loop[l].now, tasks, decided),
         x.pc = "advance", x.task = t, x.now = loop[l].now, x.due \subseteq loop[l].due,
         decided' = decided \cup {<<t, w>>},
         UNCHANGED <<clock, tasks, used, editor, passed>>, JobsInv'
  PROVE  AInv'
<1>1. LoopOK(loop[l], tasks, used, decided, clock)
  BY DEF AInv, LoopsInv
<1>2. x.now \in Nat /\ x.now <= clock
  BY <1>1 DEF LoopOK
<1>3. /\ Stands /\ TasksInv' /\ DecidedInv' /\ PassedInv'
      /\ t \in Tasks /\ \E v \in 0 .. x.now : <<t, v>> \in decided'
  BY <1>2, OneDecided DEF AInv
<1>4. \A d \in x.due : Pending(d.task, d.record.next, x.now, tasks', decided')
  <2>1. LoopOK(loop[l], tasks', used', decided', clock')
    BY <1>1, <1>3, LoopStands
  <2>2. QED
    BY <2>1 DEF LoopOK
<1>5. LoopOK(x, tasks', used', decided', clock')
  BY <1>2, <1>3, <1>4 DEF LoopOK
<1>6. LoopsInv' /\ EditorsInv'
  BY <1>3, <1>5, LoopMoves, EditorsStand DEF AInv
<1>7. QED
  BY <1>3, <1>6 DEF AInv

\* The policy is asked.
LEMMA AuthorizeKeeps ==
  ASSUME AInv, NEW l \in Loops, Authorize(l)
  PROVE  AInv'
<1> DEFINE o == loop[l]
<1>1. LoopOK(o, tasks, used, decided, clock) /\ IsLoop(o)
  BY DEF AInv, LoopsInv, LoopOK
<1> DEFINE At(d) == [o EXCEPT !.task = d.task, !.seen = d.record, !.due = o.due \ {d}]
<1>2. PICK d \in First(o.due) :
        IF allowed
          THEN /\ loop' = [loop EXCEPT ![l] = [At(d) EXCEPT !.pc =
                            IF KindOf[l] = "heartbeat" THEN "gate" ELSE "enqueue"]]
               /\ UNCHANGED decided
          ELSE /\ loop' = [loop EXCEPT ![l] = [At(d) EXCEPT !.pc = "advance"]]
               /\ decided' = decided \cup {<<d.task, d.record.next>>}
  BY DEF Authorize
<1>3. PICK at : at = At(d)
  OBVIOUS
<1>4. /\ IsLoop(at) /\ at.task = d.task /\ at.seen = d.record /\ at.due = o.due \ {d}
      /\ at.now = o.now
  BY <1>1, <1>3 DEF IsLoop
<1>5. d \in o.due /\ Pending(d.task, d.record.next, o.now, tasks, decided)
  BY <1>1, <1>2 DEF First, LoopOK
<1>6. CASE allowed
  <2>1. PICK x : x = [at EXCEPT !.pc = IF KindOf[l] = "heartbeat" THEN "gate" ELSE "enqueue"]
    OBVIOUS
  <2>2. /\ IsLoop(x) /\ x.task = d.task /\ x.seen = d.record /\ x.due = o.due \ {d}
        /\ x.now = o.now /\ x.pc \in {"gate", "enqueue"}
    BY <1>4, <2>1 DEF IsLoop
  <2>3. LoopOK(x, tasks, used, decided, clock)
    BY <1>1, <1>5, <2>2 DEF LoopOK
  <2>4. loop' = [loop EXCEPT ![l] = x] /\ decided' = decided
    BY <1>2, <1>6, <1>3, <2>1
  <2>5. QED
    BY <2>3, <2>4, OnlyLoopMoves DEF Authorize
<1>7. CASE ~allowed
  <2>1. PICK x : x = [at EXCEPT !.pc = "advance"]
    OBVIOUS
  <2>2. /\ IsLoop(x) /\ x.task = d.task /\ x.due \subseteq o.due /\ x.now = o.now
        /\ x.pc = "advance"
    BY <1>4, <2>1 DEF IsLoop
  <2>3. /\ loop' = [loop EXCEPT ![l] = x]
        /\ decided' = decided \cup {<<d.task, d.record.next>>}
    BY <1>2, <1>7, <1>3, <2>1
  <2>4. JobsInv' /\ UNCHANGED <<clock, tasks, used, editor, passed>>
    BY DEF Authorize, AInv, JobsInv
  <2>5. QED
    BY <1>5, <2>2, <2>3, <2>4, LoopDecides
<1>8. QED
  BY <1>6, <1>7

\* The heartbeat is judged.
LEMMA EvaluateKeeps ==
  ASSUME AInv, NEW l \in Loops, EvaluateHeartbeat(l)
  PROVE  AInv'
<1> DEFINE o == loop[l]
<1>1. LoopOK(o, tasks, used, decided, clock) /\ IsLoop(o) /\ o.pc = "gate"
  BY DEF AInv, LoopsInv, LoopOK, EvaluateHeartbeat
<1>2. Pending(o.task, o.seen.next, o.now, tasks, decided)
  BY <1>1 DEF LoopOK
<1>3. CASE loop' = [loop EXCEPT ![l].pc = "enqueue"] /\ UNCHANGED decided
  <2>1. PICK x : x = [o EXCEPT !.pc = "enqueue"]
    OBVIOUS
  <2>2. /\ IsLoop(x) /\ x.task = o.task /\ x.seen = o.seen /\ x.due = o.due /\ x.now = o.now
        /\ x.pc = "enqueue"
    BY <1>1, <2>1 DEF IsLoop
  <2>3. LoopOK(x, tasks, used, decided, clock)
    BY <1>1, <1>2, <2>2 DEF LoopOK
  <2>4. loop' = [loop EXCEPT ![l] = x]
    BY <1>3, <2>1
  <2>5. QED
    BY <1>3, <2>3, <2>4, OnlyLoopMoves DEF EvaluateHeartbeat
<1>4. CASE /\ loop' = [loop EXCEPT ![l].pc = "advance"]
           /\ decided' = decided \cup {Occurrence(l)}
  <2>1. PICK x : x = [o EXCEPT !.pc = "advance"]
    OBVIOUS
  <2>2. /\ IsLoop(x) /\ x.task = o.task /\ x.due = o.due /\ x.now = o.now /\ x.pc = "advance"
    BY <1>1, <2>1 DEF IsLoop
  <2>3. /\ loop' = [loop EXCEPT ![l] = x]
        /\ decided' = decided \cup {<<o.task, o.seen.next>>}
    BY <1>4, <2>1 DEF Occurrence
  <2>4. JobsInv' /\ UNCHANGED <<clock, tasks, used, editor, passed>>
    BY DEF EvaluateHeartbeat, AInv, JobsInv
  <2>5. QED
    BY <1>2, <2>2, <2>3, <2>4, LoopDecides
<1>5. QED
  BY <1>3, <1>4 DEF EvaluateHeartbeat

\* The job is enqueued.
LEMMA EnqueueKeeps ==
  ASSUME AInv, NEW l \in Loops, Enqueue(l)
  PROVE  AInv'
<1> DEFINE o == loop[l]
<1>1. LoopOK(o, tasks, used, decided, clock) /\ IsLoop(o) /\ o.pc = "enqueue"
  BY DEF AInv, LoopsInv, LoopOK, Enqueue
<1>2. Pending(o.task, o.seen.next, o.now, tasks, decided)
  BY <1>1 DEF LoopOK
<1>3. PICK x : x = [o EXCEPT !.pc = "advance"]
  OBVIOUS
<1>4. /\ IsLoop(x) /\ x.task = o.task /\ x.due = o.due /\ x.now = o.now /\ x.pc = "advance"
  BY <1>1, <1>3 DEF IsLoop
<1>5. /\ loop' = [loop EXCEPT ![l] = x]
      /\ decided' = decided \cup {<<o.task, o.seen.next>>}
      /\ UNCHANGED <<clock, tasks, used, editor, passed>>
  BY <1>3 DEF Enqueue, Occurrence
<1>6. JobsInv'
  <2>1. \/ jobs' = jobs
        \/ jobs' = jobs \cup {[key |-> Occurrence(l), occurrence |-> Occurrence(l)]}
    BY DEF Enqueue, Key
  <2>2. QED
    BY <2>1 DEF AInv, JobsInv
<1>7. QED
  BY <1>2, <1>4, <1>5, <1>6, LoopDecides

\* The record is read again.
LEMMA AdvanceReadKeeps ==
  ASSUME AInv, NEW l \in Loops, AdvanceRead(l)
  PROVE  AInv'
<1> DEFINE o == loop[l]
<1>1. /\ LoopOK(o, tasks, used, decided, clock) /\ IsLoop(o) /\ o.pc = "advance"
      /\ o.task \in Tasks /\ clock \in Nat
  BY DEF AInv, LoopsInv, LoopOK, AdvanceRead, DecidedInv
<1>2. CASE Saved(o.task)
  <2>1. PICK x : x = [o EXCEPT !.pc = "swap", !.seen = tasks[o.task]]
    OBVIOUS
  <2>2. /\ IsLoop(x) /\ x.task = o.task /\ x.seen = tasks[o.task] /\ x.due = o.due
        /\ x.now = o.now /\ x.pc = "swap"
    BY <1>1, <2>1 DEF IsLoop
  <2>3. SeenOK(tasks[o.task], o.task, tasks, used)
    BY <1>1, <1>2, SavedIsSome DEF AInv, SeenOK
  <2>4. LoopOK(x, tasks, used, decided, clock)
    BY <1>1, <2>2, <2>3 DEF LoopOK
  <2>5. loop' = [loop EXCEPT ![l] = x]
    BY <1>2, <2>1 DEF AdvanceRead
  <2>6. QED
    BY <2>4, <2>5, OnlyLoopMoves DEF AdvanceRead
<1>3. CASE ~Saved(o.task)
  <2>1. loop' = [loop EXCEPT ![l] = IdleLoop]
    BY <1>3 DEF AdvanceRead
  <2>2. QED
    BY <1>1, <2>1, IdleIsOK, OnlyLoopMoves DEF AdvanceRead
<1>4. QED
  BY <1>2, <1>3

\* The record read again is advanced, if it is the record still: it was due at the scan,
\* and it or something before it was decided.
LEMMA AdvanceContextKeeps ==
  ASSUME AInv, NEW l \in Loops, AdvanceContext(l)
  PROVE  AInv'
<1> DEFINE o == loop[l]
           t == o.task
           next == Advance(o.seen.says, o.seen.next, o.now)
<1>1. /\ LoopOK(o, tasks, used, decided, clock) /\ IsLoop(o) /\ o.pc = "swap"
      /\ clock \in Nat
  BY DEF AInv, LoopsInv, LoopOK, AdvanceContext, DecidedInv
<1>2. /\ t \in Tasks /\ SeenOK(o.seen, t, tasks, used) /\ o.now \in Nat /\ o.now <= clock
      /\ \E w \in 0 .. o.now : <<t, w>> \in decided
  BY <1>1 DEF LoopOK
<1>3. CASE tasks[t].version # o.seen.version
  <2>1. /\ loop' = [loop EXCEPT ![l] = IdleLoop]
        /\ UNCHANGED <<clock, tasks, used, jobs, editor, decided, passed>>
    BY <1>3 DEF AdvanceContext
  <2>2. QED
    BY <1>1, <2>1, IdleIsOK, OnlyLoopMoves
<1>4. CASE tasks[t].version = o.seen.version
  <2>1. tasks[t] = o.seen /\ RecordOK(tasks[t]) /\ t \in used /\ tasks[t] # NoTask
    BY <1>2, <1>4, RecordIsSome DEF SeenOK, RecordOK, NoTask
  <2>2. /\ next \in Nat /\ next > o.now /\ OnSchedule(tasks[t].says, next)
        /\ next > tasks[t].next => tasks[t].next <= o.now
    <3>1. /\ o.seen.says \in Contents /\ o.seen.next \in Nat
          /\ OnSchedule(o.seen.says, o.seen.next)
      BY <2>1 DEF RecordOK
    <3>2. /\ next \in Nat /\ next > o.now /\ OnSchedule(o.seen.says, next)
          /\ next > o.seen.next => o.seen.next <= o.now
      BY <1>2, <3>1, AdvanceIsAfter
    <3>3. QED
      BY <2>1, <3>2
  <2>3. PICK r : r = [tasks[t] EXCEPT !.next = next, !.version = tasks[t].version + 1]
    OBVIOUS
  <2>4. PICK x : x = IF o.due = {} THEN IdleLoop
                     ELSE [o EXCEPT !.pc = "authorize", !.seen = NoTask]
    OBVIOUS
  <2>5. /\ tasks' = [tasks EXCEPT ![t] = r]
        /\ passed' = IF next > tasks[t].next
                       THEN passed \cup {[task |-> t, at |-> tasks[t].next, scan |-> o.now]}
                       ELSE passed
        /\ loop' = [loop EXCEPT ![l] = x]
        /\ UNCHANGED <<clock, used, jobs, editor, decided>>
    BY <1>4, <2>3, <2>4 DEF AdvanceContext, From
  <2>6. IsRecord(r) /\ r.next = next /\ r.version = tasks[t].version + 1 /\ r.says = tasks[t].says
    BY <2>1, <2>3 DEF RecordOK, IsRecord
  <2>7. tasks[t].version + 1 \in Nat \ {0}
    BY <2>1 DEF RecordOK
  <2> HIDE DEF next
  <2>8. RecordOK(r)
    BY <2>1, <2>2, <2>6, <2>7 DEF RecordOK
  <2>9. \E v \in 0 .. r.next : <<t, v>> \in decided
    <3>1. PICK w \in 0 .. o.now : <<t, w>> \in decided
      BY <1>2
    <3>2. w \in 0 .. r.next
      BY <1>2, <2>2, <2>6, <3>1
    <3>3. QED
      BY <3>1, <3>2
  <2>10. Stands /\ TasksInv' /\ DecidedInv'
    <3>1. used' = used \cup {t}
      BY <2>1, <2>5
    <3>2. QED
      BY <1>2, <2>1, <2>5, <2>6, <2>8, <2>9, <3>1, OneWritten DEF AInv
  <2>11. PassedInv'
    <3>1. CASE next > tasks[t].next
      <4>1. tasks[t].next <= o.now
        BY <2>2, <3>1
      <4>2. Begun(t, decided)
        BY <1>2 DEF Begun
      <4>3. \E w \in 0 .. tasks[t].next : <<t, w>> \in decided
        BY <1>2, <2>1, <4>2 DEF AInv, DecidedInv
      <4>4. PICK p : p = [task |-> t, at |-> tasks[t].next, scan |-> o.now]
        OBVIOUS
      <4>5. p.task = t /\ p.at = tasks[t].next /\ p.scan = o.now
        BY <4>4
      <4>6. passed' = passed \cup {p} /\ decided' = decided
        BY <2>5, <3>1, <4>4
      <4>7. QED
        BY <4>1, <4>3, <4>5, <4>6 DEF AInv, PassedInv
    <3>2. CASE ~(next > tasks[t].next)
      BY <2>5, <3>2 DEF AInv, PassedInv
    <3>3. QED
      BY <3>1, <3>2
  <2>12. LoopOK(x, tasks', used', decided', clock')
    <3>1. CASE o.due = {}
      BY <1>1, <2>4, <2>5, <3>1, IdleIsOK
    <3>2. CASE o.due # {}
      <4>1. x = [o EXCEPT !.pc = "authorize", !.seen = NoTask]
        BY <2>4, <3>2
      <4>2. IsLoop(x) /\ x.pc = "authorize" /\ x.due = o.due /\ x.now = o.now
        BY <1>1, <4>1 DEF IsLoop
      <4>3. LoopOK(x, tasks, used, decided, clock)
        BY <1>1, <4>2 DEF LoopOK
      <4>4. QED
        BY <2>10, <4>3, LoopStands
    <3>3. QED
      BY <3>1, <3>2
  <2>13. LoopsInv' /\ EditorsInv' /\ JobsInv'
    BY <2>5, <2>10, <2>12, LoopMoves, EditorsStand DEF AInv, JobsInv
  <2>14. QED
    BY <2>10, <2>11, <2>13 DEF AInv
<1>5. QED
  BY <1>3, <1>4

\* A scan ends.
LEMMA CrashKeeps ==
  ASSUME AInv, NEW l \in Loops, Crash(l)
  PROVE  AInv'
<1>1. clock \in Nat /\ loop' = [loop EXCEPT ![l] = IdleLoop]
  BY DEF AInv, DecidedInv, Crash
<1>2. QED
  BY <1>1, IdleIsOK, OnlyLoopMoves DEF Crash

------------------------------------------------------------------------------
(* The steps of an editor.                                                  *)

\* A modal moves and nothing else does.
LEMMA OnlyEditorMoves ==
  ASSUME AInv, NEW e \in Editors, NEW x, editor' = [editor EXCEPT ![e] = x],
         EditorOK(x, tasks, used),
         UNCHANGED <<clock, tasks, used, jobs, loop, decided, passed>>
  PROVE  AInv'
<1>1. Stands /\ TasksInv' /\ DecidedInv' /\ PassedInv'
  <2>1. clock' \in Nat /\ clock <= clock'
    BY DEF AInv, DecidedInv
  <2>2. QED
    BY <2>1, NothingDecided DEF AInv
<1>2. EditorOK(x, tasks', used')
  OBVIOUS
<1>3. EditorsInv' /\ LoopsInv' /\ JobsInv'
  BY <1>1, <1>2, EditorMoves, LoopsStand DEF AInv, JobsInv
<1>4. QED
  BY <1>1, <1>3 DEF AInv

\* A record was written or deleted; a modal may have closed.
LEMMA WriteKeeps ==
  ASSUME AInv, Stands, TasksInv', DecidedInv', decided' = decided,
         \/ editor' = editor
         \/ \E e \in Editors : editor' = [editor EXCEPT ![e] = IdleEditor],
         UNCHANGED <<clock, jobs, loop, passed>>
  PROVE  AInv'
<1>1. LoopsInv' /\ JobsInv' /\ PassedInv'
  BY LoopsStand DEF AInv, JobsInv, PassedInv
<1>2. EditorsInv'
  <2>1. CASE editor' = editor
    BY <2>1, EditorsStand DEF AInv
  <2>2. CASE \E e \in Editors : editor' = [editor EXCEPT ![e] = IdleEditor]
    <3>1. EditorOK(IdleEditor, tasks', used')
      BY IdleIsOK DEF AInv, DecidedInv
    <3>2. QED
      BY <2>2, <3>1, EditorMoves DEF AInv
  <2>3. QED
    BY <2>1, <2>2
<1>3. QED
  BY <1>1, <1>2 DEF AInv

\* A modal opens.
LEMMA LoadKeeps ==
  ASSUME AInv, NEW e \in Editors, Load(e)
  PROVE  AInv'
<1>1. PICK t \in Tasks :
        /\ Saved(t)
        /\ editor' = [editor EXCEPT ![e] = [IdleEditor EXCEPT !.pc = "open", !.task = t,
                                                              !.shown = tasks[t]]]
  BY DEF Load, Listed
<1>2. PICK x : x = [IdleEditor EXCEPT !.pc = "open", !.task = t, !.shown = tasks[t]]
  OBVIOUS
<1>3. IsEditor(x) /\ x.pc = "open" /\ x.task = t /\ x.shown = tasks[t]
  BY <1>2 DEF IdleEditor, IsEditor
<1>4. SeenOK(tasks[t], t, tasks, used)
  BY <1>1, SavedIsSome DEF AInv, SeenOK
<1>5. EditorOK(x, tasks, used)
  BY <1>3, <1>4 DEF EditorOK
<1>6. QED
  BY <1>1, <1>2, <1>5, OnlyEditorMoves DEF Load

\* A record of which a modal shows the version is the one it shows.
LEMMA FreshIsShown ==
  ASSUME AInv, NEW e \in Editors, editor[e].pc \in {"open", "save"}, ~Stale(e)
  PROVE  /\ editor[e].task \in Tasks /\ tasks[editor[e].task] = editor[e].shown
         /\ RecordOK(editor[e].shown) /\ editor[e].task \in used
         /\ tasks[editor[e].task] # NoTask
<1>1. editor[e].task \in Tasks /\ SeenOK(editor[e].shown, editor[e].task, tasks, used)
  BY DEF AInv, EditorsInv, EditorOK
<1>2. QED
  BY <1>1, RecordIsSome DEF SeenOK, RecordOK, NoTask, Stale

\* A modal is submitted.
LEMMA SaveReadKeeps ==
  ASSUME AInv, NEW e \in Editors, SaveRead(e)
  PROVE  AInv'
<1> DEFINE o == editor[e]
<1>1. /\ EditorOK(o, tasks, used) /\ IsEditor(o) /\ o.pc = "open" /\ clock \in Nat
  BY DEF AInv, EditorsInv, EditorOK, SaveRead, DecidedInv
<1>2. CASE ~allowed \/ Stale(e)
  <2>1. editor' = [editor EXCEPT ![e] = IdleEditor]
    BY <1>2 DEF SaveRead, Close
  <2>2. QED
    BY <1>1, <2>1, IdleIsOK, OnlyEditorMoves DEF SaveRead
<1>3. CASE ~(~allowed \/ Stale(e))
  <2> DEFINE Kept(c) == IF SameSchedule(c, tasks[o.task].says) THEN tasks[o.task].next ELSE 0
  <2>1. PICK c \in Submission :
          editor' = [editor EXCEPT ![e] = [o EXCEPT !.pc = "save", !.says = c, !.next = Kept(c)]]
    BY <1>3 DEF SaveRead
  <2> DEFINE n == Kept(c)
  <2>2. PICK x : x = [o EXCEPT !.pc = "save", !.says = c, !.next = n]
    OBVIOUS
  <2>3. /\ IsEditor(x) /\ x.pc = "save" /\ x.says = c /\ x.next = n /\ x.task = o.task
        /\ x.shown = o.shown
    BY <1>1, <2>2 DEF IsEditor
  <2>4. tasks[o.task] = o.shown /\ RecordOK(o.shown)
    BY <1>1, <1>3, FreshIsShown
  <2>5. n \in Nat /\ (n # 0 => n = o.shown.next /\ OnSchedule(c, n))
    <3>1. CASE SameSchedule(c, tasks[o.task].says)
      BY <2>4, <3>1 DEF SameSchedule, RecordOK, OnSchedule, Submission
    <3>2. CASE ~SameSchedule(c, tasks[o.task].says)
      BY <3>2
    <3>3. QED
      BY <3>1, <3>2
  <2>6. EditorOK(x, tasks, used)
    BY <1>1, <2>3, <2>5 DEF EditorOK
  <2>7. QED
    BY <2>1, <2>2, <2>6, OnlyEditorMoves DEF SaveRead
<1>4. QED
  BY <1>2, <1>3

\* The submission is written.
LEMMA UpdateKeeps ==
  ASSUME AInv, NEW e \in Editors, UpdateContext(e)
  PROVE  AInv'
<1> DEFINE o == editor[e]
           t == o.task
           r == Normalized(o.says, o.next, tasks[t].version + 1)
<1>1. /\ EditorOK(o, tasks, used) /\ o.pc = "save" /\ clock \in Nat
      /\ editor' = [editor EXCEPT ![e] = IdleEditor]
      /\ UNCHANGED <<clock, used, jobs, loop, decided, passed>>
  BY DEF AInv, EditorsInv, UpdateContext, Close, DecidedInv
<1>2. CASE Stale(e)
  <2>1. tasks' = tasks
    BY <1>2 DEF UpdateContext
  <2>2. QED
    BY <1>1, <2>1, IdleIsOK, OnlyEditorMoves
<1>3. CASE ~Stale(e)
  <2>1. tasks' = [tasks EXCEPT ![t] = r]
    BY <1>3 DEF UpdateContext
  <2>2. /\ t \in Tasks /\ tasks[t] = o.shown /\ RecordOK(o.shown) /\ t \in used
        /\ tasks[t] # NoTask
    BY <1>1, <1>3, FreshIsShown
  <2>3. /\ o.says \in Contents /\ o.next \in Nat
        /\ o.next # 0 => o.next = o.shown.next /\ OnSchedule(o.says, o.next)
    BY <1>1 DEF EditorOK, Submission
  <2>4. tasks[t].version + 1 \in Nat \ {0}
    BY <2>2 DEF RecordOK
  <2>5. /\ RecordOK(r) /\ r.version = tasks[t].version + 1
        /\ o.next # 0 => r.next = o.next
        /\ o.next = 0 => r.next > clock
    BY <1>1, <2>3, <2>4, NormalizedOK
  <2> HIDE DEF r
  <2>6. r.next > clock \/ (tasks[t] # NoTask /\ r.next = tasks[t].next)
    <3>1. CASE o.next = 0
      BY <2>5, <3>1
    <3>2. CASE o.next # 0
      BY <2>2, <2>3, <2>5, <3>2
    <3>3. QED
      BY <3>1, <3>2
  <2>7. used' = used \cup {t}
    BY <1>1, <2>2
  <2>8. Stands /\ TasksInv' /\ DecidedInv'
    BY <1>1, <2>1, <2>2, <2>5, <2>6, <2>7, OneWritten DEF AInv
  <2>9. QED
    BY <1>1, <2>8, WriteKeeps
<1>4. QED
  BY <1>2, <1>3

\* The record is deleted.
LEMMA DeleteKeeps ==
  ASSUME AInv, NEW e \in Editors, DeleteContext(e)
  PROVE  AInv'
<1> DEFINE t == editor[e].task
<1>1. /\ editor[e].pc = "open" /\ clock \in Nat
      /\ editor' = [editor EXCEPT ![e] = IdleEditor]
      /\ UNCHANGED <<clock, used, jobs, loop, decided, passed>>
  BY DEF AInv, DeleteContext, Close, DecidedInv
<1>2. CASE ~allowed \/ Stale(e)
  <2>1. tasks' = tasks
    BY <1>2 DEF DeleteContext
  <2>2. QED
    BY <1>1, <2>1, IdleIsOK, OnlyEditorMoves
<1>3. CASE ~(~allowed \/ Stale(e))
  <2>1. tasks' = [tasks EXCEPT ![t] = NoTask]
    BY <1>3 DEF DeleteContext
  <2>2. t \in Tasks
    BY <1>1, <1>3, FreshIsShown
  <2>3. Stands /\ TasksInv' /\ DecidedInv'
    BY <1>1, <2>1, <2>2, OneDeleted DEF AInv
  <2>4. QED
    BY <1>1, <2>3, WriteKeeps
<1>4. QED
  BY <1>2, <1>3

\* A record is written whose time is after the clock.
LEMMA PutKeeps ==
  ASSUME AInv, NEW t \in Tasks, NEW c \in Contents, NEW n \in Nat,
         n = 0 \/ (n > clock /\ ~c.cron), tasks[t] # NoTask \/ t \notin used,
         tasks' = [tasks EXCEPT ![t] = Normalized(c, n, tasks[t].version + 1)],
         used' = used \cup {t}, UNCHANGED <<clock, jobs, loop, editor, decided, passed>>
  PROVE  AInv'
<1> DEFINE r == Normalized(c, n, tasks[t].version + 1)
<1>1. clock \in Nat /\ tasks[t].version + 1 \in Nat \ {0}
  BY SavedIsSome DEF AInv, DecidedInv
<1>2. n # 0 => OnSchedule(c, n)
  BY <1>1 DEF OnSchedule
<1>3. /\ RecordOK(r) /\ r.version = tasks[t].version + 1
      /\ n # 0 => r.next = n
      /\ n = 0 => r.next > clock
  BY <1>1, <1>2, NormalizedOK
<1> HIDE DEF r
<1>4. r.next > clock
  BY <1>3
<1>5. tasks' = [tasks EXCEPT ![t] = r]
  BY DEF r
<1>6. Stands /\ TasksInv' /\ DecidedInv'
  BY <1>3, <1>4, <1>5, OneWritten DEF AInv
<1>7. QED
  BY <1>6, WriteKeeps

\* A task is made.
LEMMA CreateKeeps ==
  ASSUME ~IdsReused, AInv, NEW e \in Editors, CreateContext(e)
  PROVE  AInv'
<1>1. PICK t \in Tasks, c \in Submission :
        /\ ~Saved(t) /\ t \notin used
        /\ tasks' = [tasks EXCEPT ![t] = Normalized(c, 0, 1)]
        /\ used' = used \cup {t}
  BY DEF CreateContext
<1>2. tasks[t].version + 1 = 1 /\ c \in Contents
  BY <1>1, SavedIsSome DEF AInv, Submission
<1>3. tasks' = [tasks EXCEPT ![t] = Normalized(c, 0, tasks[t].version + 1)]
  BY <1>1, <1>2
<1>4. UNCHANGED <<clock, jobs, loop, editor, decided, passed>> /\ 0 \in Nat
  BY DEF CreateContext
<1>5. QED
  BY <1>1, <1>2, <1>3, <1>4, PutKeeps

\* The management API puts a task.
LEMMA PutAutomationKeeps ==
  ASSUME ~IdsReused, AInv, NEW t \in Tasks, PutAutomation(t)
  PROVE  AInv'
<1>1. PICK c \in Contents : \E n \in IF c.cron THEN {0} ELSE {0, clock + 1} : Upsert(t, c, n)
  BY DEF PutAutomation
<1>2. PICK n \in IF c.cron THEN {0} ELSE {0, clock + 1} : Upsert(t, c, n)
  BY <1>1
<1>3. clock \in Nat
  BY DEF AInv, DecidedInv
<1>4. n \in Nat /\ (n = 0 \/ (n > clock /\ ~c.cron))
  BY <1>2, <1>3
<1>5. tasks[t] # NoTask \/ t \notin used
  BY SavedIsSome DEF AInv, PutAutomation
<1>6. tasks' = [tasks EXCEPT ![t] = Normalized(c, n, tasks[t].version + 1)]
  BY <1>2 DEF Upsert
<1>7. used' = used \cup {t} /\ UNCHANGED <<clock, jobs, loop, editor, decided, passed>>
  BY DEF PutAutomation
<1>8. QED
  BY <1>4, <1>5, <1>6, <1>7, PutKeeps

\* The clock, the policy, and stuttering.
LEMMA ElseKeeps ==
  ASSUME AInv, clock' \in Nat, clock <= clock',
         UNCHANGED <<tasks, used, jobs, loop, editor, decided, passed>>
  PROVE  AInv'
<1>1. Stands /\ TasksInv' /\ DecidedInv' /\ PassedInv'
  BY NothingDecided DEF AInv
<1>2. QED
  BY <1>1, LoopsStand, EditorsStand DEF AInv, JobsInv

\* The invariant is inductive, when no id is used again.
LEMMA AutomationsStep ==
  ASSUME ~IdsReused, AInv, [AutomationsNext]_avars
  PROVE  AInv'
<1>1. ASSUME Tick \/ SetPolicy \/ UNCHANGED avars PROVE AInv'
  <2>1. clock \in Nat /\ (clock' = clock \/ clock' = clock + 1)
    BY <1>1 DEF AInv, DecidedInv, Tick, SetPolicy, avars
  <2>2. clock' \in Nat /\ clock <= clock'
    BY <2>1
  <2>3. UNCHANGED <<tasks, used, jobs, loop, editor, decided, passed>>
    BY <1>1 DEF Tick, SetPolicy, avars
  <2>4. QED
    BY <2>2, <2>3, ElseKeeps
<1>2. ASSUME NEW l \in Loops, LoopStep(l) \/ Crash(l) PROVE AInv'
  BY <1>2, DueContextKeeps, AuthorizeKeeps, EvaluateKeeps, EnqueueKeeps, AdvanceReadKeeps,
     AdvanceContextKeeps, CrashKeeps DEF LoopStep
<1>3. ASSUME NEW e \in Editors, EditorStep(e) PROVE AInv'
  BY <1>3, LoadKeeps, SaveReadKeeps, UpdateKeeps, DeleteKeeps, CreateKeeps DEF EditorStep
<1>4. ASSUME NEW t \in Tasks, PutAutomation(t) PROVE AInv'
  BY <1>4, PutAutomationKeeps
<1>5. QED
  BY <1>1, <1>2, <1>3, <1>4 DEF AutomationsNext

\* It holds at the start.
LEMMA AutomationsStart ==
  ASSUME AutomationsInit
  PROVE  AInv
<1>1. clock = 0 /\ decided = {} /\ passed = {} /\ jobs = {} /\ 0 \in Nat
  BY DEF AutomationsInit
<1>2. TasksInv
  <2>1. PICK c \in Contents :
          tasks = [t \in Tasks |-> IF t \in used THEN Normalized(c, 0, 1) ELSE NoTask]
    BY DEF AutomationsInit
  <2>2. RecordOK(Normalized(c, 0, 1))
    BY <1>1, NormalizedOK
  <2>3. QED
    BY <2>1, <2>2 DEF TasksInv, On
<1>3. LoopsInv
  BY <1>1, IdleIsOK DEF AutomationsInit, LoopsInv, On
<1>4. EditorsInv
  BY <1>1, IdleIsOK DEF AutomationsInit, EditorsInv, On
<1>5. DecidedInv /\ PassedInv /\ JobsInv
  BY <1>1 DEF DecidedInv, PassedInv, JobsInv, Begun
<1>6. QED
  BY <1>2, <1>3, <1>4, <1>5 DEF AInv

------------------------------------------------------------------------------
(* Theorems.                                                                *)

\* No occurrence is lost and none runs twice (EachOccurrenceOnce): RunDue and
\* AdvanceContext (core/routines, core/triggers) advance a task past an occurrence only
\* when it was due at their scan and it or one before it was decided, and Enqueue makes
\* one job of it, for any number of processes, tasks, editors and failures, and any
\* schedules.  As long as the id of a deleted task is not used again.
THEOREM OccurrencesOnce ==
  ASSUME ~IdsReused
  PROVE  AutomationsSpec => []EachOccurrenceOnce
<1>1. AInv => EachOccurrenceOnce
  BY DEF AInv, PassedInv, JobsInv, EachOccurrenceOnce
<1>2. QED
  BY <1>1, AutomationsStart, AutomationsStep, PTL DEF AutomationsSpec

\* Nobody's edit is lost under another's (EditsReplaceWhatTheyShowed): UpdateContext and
\* DeleteContext of a modal take effect only on the record that it shows, whatever loops,
\* other modals and the management API wrote since it was opened.  As long as the id of a
\* deleted task is not used again.
THEOREM EditsReplaceShown ==
  ASSUME ~IdsReused
  PROVE  AutomationsSpec => EditsReplaceWhatTheyShowed
<1> DEFINE Replaced(e) ==
             editor[e].pc \in {"open", "save"} /\ editor'[e].pc = "idle" /\ tasks' # tasks =>
               tasks[editor[e].task].says = editor[e].shown.says
<1>1. AInv /\ [AutomationsNext]_avars => [\A e \in Editors : Replaced(e)]_avars
  <2> SUFFICES ASSUME AInv, AutomationsNext, NEW e \in Editors,
                      editor[e].pc \in {"open", "save"}, editor'[e].pc = "idle", tasks' # tasks
               PROVE  tasks[editor[e].task].says = editor[e].shown.says
    BY Zenon
  <2>1. editor' # editor
    OBVIOUS
  <2>2. PICK k \in Editors : EditorStep(k)
    BY <2>1 DEF AutomationsNext, Tick, SetPolicy, LoopStep, DueContext, Authorize,
                EvaluateHeartbeat, Enqueue, AdvanceRead, AdvanceContext, Crash, PutAutomation
  <2>3. UpdateContext(k) \/ DeleteContext(k)
    BY <2>1, <2>2 DEF EditorStep, Load, SaveRead, CreateContext
  <2>4. ~Stale(k) /\ editor[k].pc \in {"open", "save"}
    BY <2>3 DEF UpdateContext, DeleteContext
  <2>5. k = e
    <3>1. editor' = [editor EXCEPT ![k] = IdleEditor]
      BY <2>3 DEF UpdateContext, DeleteContext, Close
    <3>2. k # e => editor'[e] = editor[e]
      BY <3>1 DEF AInv, EditorsInv, On
    <3>3. QED
      BY <3>2
  <2>6. QED
    BY <2>4, <2>5, FreshIsShown
<1>2. QED
  BY <1>1, AutomationsStart, AutomationsStep, PTL DEF AutomationsSpec, EditsReplaceWhatTheyShowed

(***************************************************************************)
(* The classifier's decision.  Three facts go along the corrections: a     *)
(* decision changes the source only where it was asked to (Follows), it    *)
(* stays one the next correction can work on (Usable), and after the last  *)
(* choice of a profile it has what its outcome needs (Fitted).             *)
(***************************************************************************)
\* The fields of a decision.
Fields == {"outcome", "sure", "reasons", "reply", "write", "product", "topic", "full", "evidence",
           "signals", "disclosure", "reaction", "profile", "strength", "effort"}
\* A decision e that took the place of d: a decision, which calls for a change of the
\* source only where d did.
Follows(e, d) == DOMAIN e = Fields /\ (e.write => d.write)

\* A decision that is made from scratch changes no source.
LEMMA DecisionFields ==
  ASSUME NEW o PROVE DOMAIN Decision(o) = Fields /\ ~Decision(o).write
BY DEF Decision, Fields

\* Neither does the one a failed call leaves.
LEMMA ZeroFields == DOMAIN Zero = Fields /\ ~Zero.write
BY DecisionFields DEF Zero, Fields, Decision

\* Nor one that takes the place of another.
LEMMA InsteadFields ==
  ASSUME NEW d, NEW o PROVE DOMAIN Instead(d, o) = Fields /\ ~Instead(d, o).write
BY DecisionFields DEF Instead, Fields

\* Asking for a strength leaves the rest of the decision.
LEMMA AskingFollows ==
  ASSUME NEW d, DOMAIN d = Fields, NEW s PROVE Follows(Asking(d, s), d)
BY DEF Asking, Follows, Fields

\* So does taking a profile,
LEMMA TakingFollows ==
  ASSUME NEW d, DOMAIN d = Fields, NEW p PROVE Follows(Taking(d, p), d)
BY DEF Taking, Follows, Fields

\* the lightest one,
LEMMA LightestFollows ==
  ASSUME NEW d, DOMAIN d = Fields, NEW profiles PROVE Follows(withLightestProfile(d, profiles), d)
BY TakingFollows DEF withLightestProfile, Follows

\* or the one that its strength names.
LEMMA CanonicalFollows ==
  ASSUME NEW d, DOMAIN d = Fields, NEW profiles PROVE Follows(withCanonicalAgentProfile(d, profiles), d)
<1> DEFINE agent == [d EXCEPT !.full = d.full \/ (outcomeNeedsAgent(d.outcome) /\ d.reply = "")]
           worded == [agent EXCEPT !.reply = ""]
           offered == {p \in profiles : p.strength = WantedStrength(worded)}
<1>1. DOMAIN worded = Fields /\ (worded.write => d.write)
  BY DEF Fields
<1>2. Follows(Taking(worded, CHOOSE p \in offered : TRUE), worded)
  BY <1>1, TakingFollows
<1>3. CASE d.outcome = "silent"
  BY <1>3 DEF withCanonicalAgentProfile, Follows, Fields
<1>4. CASE d.outcome # "silent" /\ ~agent.full
  BY <1>4 DEF withCanonicalAgentProfile, Follows, Fields
<1>5. CASE ~(d.outcome = "silent") /\ ~(d.outcome # "silent" /\ ~agent.full)
  <2>1. withCanonicalAgentProfile(d, profiles) \in {worded, Taking(worded, CHOOSE p \in offered : TRUE)}
    BY <1>5 DEF withCanonicalAgentProfile
  <2> QED
    BY <2>1, <1>1, <1>2 DEF Follows
<1> QED
  BY <1>3, <1>4, <1>5

\* The corrections, one by one: none asks for a change of the source that was not asked for.
LEMMA DirectMentionFollows ==
  ASSUME NEW d, DOMAIN d = Fields, NEW t, NEW profiles
  PROVE  Follows(withDirectMentionPolicyCorrections(d, t, profiles), d)
<1> DEFINE e == [Instead(d, "reply_in_channel") EXCEPT !.full = TRUE, !.reaction = "warning"]
<1>1. DOMAIN e = Fields /\ ~e.write
  BY InsteadFields DEF Fields
<1>2. Follows(withLightestProfile(e, profiles), e)
  BY <1>1, LightestFollows
<1> QED
  BY <1>1, <1>2 DEF withDirectMentionPolicyCorrections, Follows

\* The fallback for a social turn is a reply with its words.
LEMMA SocialFallbackFields ==
  ASSUME NEW thread
  PROVE  /\ DOMAIN directSocialFallback(thread) = Fields /\ ~directSocialFallback(thread).write
         /\ directSocialFallback(thread).outcome \in Replies
         /\ directSocialFallback(thread).reply = "social"
BY DEF directSocialFallback, Decision, Fields, Replies

\* A social turn that addresses Tag.
LEMMA AddressedSocialFollows ==
  ASSUME NEW d, DOMAIN d = Fields, NEW t
  PROVE  Follows(withAddressedSocialPolicyCorrections(d, t), d)
BY SocialFallbackFields DEF withAddressedSocialPolicyCorrections, Follows, Fields

\* A turn that addresses Tag in a conversation.
LEMMA ConversationalAddressFollows ==
  ASSUME NEW d, DOMAIN d = Fields, NEW t, NEW p
  PROVE  Follows(withConversationalAddressPolicyCorrections(d, t, p), d)
BY InsteadFields DEF withConversationalAddressPolicyCorrections, Follows, Fields

\* A turn that refers to what was said.
LEMMA ConversationalReferenceFollows ==
  ASSUME NEW d, DOMAIN d = Fields, NEW t, NEW p, NEW profiles
  PROVE  Follows(withConversationalReferencePolicyCorrections(d, t, p, profiles), d)
<1> DEFINE e == [Asking(Instead(d, "reply_in_channel"), "standard") EXCEPT !.reaction = "thinking_face"]
<1>1. DOMAIN e = Fields /\ ~e.write
  BY InsteadFields, AskingFollows DEF Fields, Follows
<1>2. Follows(withCanonicalAgentProfile(e, profiles), e)
  BY <1>1, CanonicalFollows
<1> QED
  BY <1>1, <1>2 DEF withConversationalReferencePolicyCorrections, Follows

\* The answer to a question that Tag asked.
LEMMA ClarificationFollowupFollows ==
  ASSUME NEW d, DOMAIN d = Fields, NEW t, NEW p, NEW profiles
  PROVE  Follows(withClarificationFollowupPolicyCorrections(d, t, p, profiles), d)
<1> DEFINE e == [Asking(d, "standard") EXCEPT !.outcome = "reply_in_thread", !.sure = Surely(@),
                   !.reasons = @ \cup {"policy"}, !.reply = "", !.reaction = "thinking_face"]
<1>1. Follows(e, d)
  BY AskingFollows DEF Fields, Follows
<1>2. Follows(withCanonicalAgentProfile(e, profiles), e)
  BY <1>1, CanonicalFollows DEF Follows
<1> QED
  BY <1>1, <1>2 DEF withClarificationFollowupPolicyCorrections, Follows

\* A question about the product.
LEMMA ProductKnowledgeFollows ==
  ASSUME NEW d, DOMAIN d = Fields, NEW t, NEW profiles
  PROVE  Follows(withProductKnowledgePolicyCorrections(d, t, profiles), d)
<1> DEFINE question == d.product \/ isObviousProductKnowledgeQuestion(t.text, d.topic)
           writes == d.write /\ (~question \/ isObviousSourceWriteRequest(t.text))
           brief == ~d.write /\ (d.outcome = "reply_in_channel" \/ isBriefProductDefinitionQuestion(t.text))
           kept == [d EXCEPT !.write = writes,
                             !.reasons = IF writes # d.write THEN @ \cup {"policy"} ELSE @]
           place == IF ~t.thread /\ brief THEN "reply_in_channel" ELSE "reply_in_thread"
           other == [d EXCEPT !.product = FALSE, !.reasons = @ \cup {"policy"}]
           e == [Asking(Instead(d, place), "standard") EXCEPT !.topic = d.topic, !.evidence = d.evidence,
                   !.product = TRUE, !.reaction = "thinking_face"]
<1>1. Follows(kept, d) /\ Follows(other, d) /\ Follows(d, d)
  BY DEF Fields, Follows
<1>2. DOMAIN e = Fields /\ ~e.write
  BY InsteadFields, AskingFollows DEF Fields, Follows
<1>3. Follows(withCanonicalAgentProfile(e, profiles), d)
  BY <1>2, CanonicalFollows DEF Follows
<1> HIDE DEF kept, other, e
<1> QED
  BY <1>1, <1>3 DEF withProductKnowledgePolicyCorrections, kept, other, e

\* The correction that reads the text: after it only a text that says so calls for a change.
LEMMA SourceWriteSays ==
  ASSUME NEW d, DOMAIN d = Fields, NEW t
  PROVE  /\ DOMAIN withSourceWritePolicyCorrections(d, t) = Fields
         /\ withSourceWritePolicyCorrections(d, t).write => isObviousSourceWriteRequest(t.text)
<1> DEFINE wiki == /\ isObviousWikiPageCRUDRequest(t.text)
                   /\ ~isExplicitSeparateSourceMutationRequest(t.text)
           page == [d EXCEPT !.outcome = "reply_in_thread", !.sure = Surely(@),
                      !.reasons = @ \cup {"policy"}, !.reply = "", !.write = FALSE, !.full = TRUE,
                      !.reaction = "eyes"]
           quiet == [Instead(d, "silent") EXCEPT !.reasons = @ \cup {"write_silent"}, !.write = TRUE,
                                      !.strength = "none"]
           plain == [d EXCEPT !.write = FALSE, !.reply = "", !.reasons = @ \cup {"policy"}]
<1>1. DOMAIN page = Fields /\ ~page.write
  BY DEF Fields
<1>2. DOMAIN quiet = Fields
  BY InsteadFields DEF Fields
<1>3. DOMAIN plain = Fields /\ ~plain.write
  BY DEF Fields
<1>4. DOMAIN Asking(page, "standard") = Fields /\ ~Asking(page, "standard").write
  BY <1>1, AskingFollows DEF Follows
<1> HIDE DEF page, quiet, plain
<1>5. CASE wiki
  BY <1>5, <1>1, <1>4 DEF withSourceWritePolicyCorrections, page
<1>6. CASE isObviousSourceWriteRequest(t.text) /\ ~wiki
  BY <1>6, <1>2 DEF withSourceWritePolicyCorrections, quiet
<1>7. CASE ~wiki /\ ~isObviousSourceWriteRequest(t.text)
  BY <1>7, <1>3 DEF withSourceWritePolicyCorrections, plain
<1> QED
  BY <1>5, <1>6, <1>7

\* A question that asks for a plan.
LEMMA ImplementationPlanningFollows ==
  ASSUME NEW d, DOMAIN d = Fields, NEW t, NEW profiles
  PROVE  Follows(withImplementationPlanningPolicyCorrections(d, t, profiles), d)
<1> DEFINE e == [Asking(d, "standard") EXCEPT !.outcome = "reply_in_thread", !.sure = Surely(@), !.reply = "",
                   !.reasons = (@ \ {"write_silent"}) \cup {"policy"}, !.write = FALSE]
<1>1. DOMAIN e = Fields /\ ~e.write
  BY AskingFollows DEF Fields, Follows
<1>2. Follows(withCanonicalAgentProfile(e, profiles), e)
  BY <1>1, CanonicalFollows
<1> QED
  BY <1>1, <1>2 DEF withImplementationPlanningPolicyCorrections, Follows

\* A question about code.
LEMMA ReadOnlyCodeAnalysisFollows ==
  ASSUME NEW d, DOMAIN d = Fields, NEW t, NEW profiles
  PROVE  Follows(withReadOnlyCodeAnalysisPolicyCorrections(d, t, profiles), d)
<1> DEFINE strength == IF isSecuritySensitiveCodeAnalysis(t.text) THEN "strong" ELSE "standard"
           e == [Asking(d, strength) EXCEPT
                   !.outcome = "reply_in_thread", !.sure = Surely(@), !.reply = "",
                   !.reasons = @ \cup {"policy"}, !.write = FALSE]
<1>1. DOMAIN e = Fields /\ ~e.write
  BY AskingFollows DEF Fields, Follows
<1>2. Follows(withCanonicalAgentProfile(e, profiles), e)
  BY <1>1, CanonicalFollows
<1> QED
  BY <1>1, <1>2 DEF withReadOnlyCodeAnalysisPolicyCorrections, Follows

\* A question about operations.
LEMMA OperationalSynthesisFollows ==
  ASSUME NEW d, DOMAIN d = Fields, NEW t, NEW p, NEW profiles
  PROVE  Follows(withOperationalSynthesisPolicyCorrections(d, t, p, profiles), d)
<1> DEFINE e == [Asking(d, "strong") EXCEPT
            !.outcome = IF requestedReplyPlacement(t.text) = "channel" THEN "reply_in_channel"
                        ELSE "reply_in_thread",
            !.sure = Surely(@), !.reasons = @ \cup {"policy"}, !.reply = "", !.product = FALSE,
            !.evidence = operationalSynthesisEvidenceIDs(p),
            !.reaction = IF @ = "warning" THEN @ ELSE "thinking_face"]
<1>1. Follows(e, d)
  BY AskingFollows DEF Fields, Follows
<1>2. Follows(withCanonicalAgentProfile(e, profiles), e)
  BY <1>1, CanonicalFollows DEF Follows
<1> QED
  BY <1>1, <1>2 DEF withOperationalSynthesisPolicyCorrections, Follows

\* Work that needs the strong profile.
LEMMA HighIntelligenceFollows ==
  ASSUME NEW d, DOMAIN d = Fields, NEW t, NEW profiles
  PROVE  Follows(withHighIntelligenceProfileCorrections(d, t, profiles), d)
<1> DEFINE e == [Asking(d, "strong") EXCEPT !.reasons = @ \cup {"policy"}]
<1>1. Follows(e, d)
  BY AskingFollows DEF Fields, Follows
<1>2. Follows(withCanonicalAgentProfile(e, profiles), e)
  BY <1>1, CanonicalFollows DEF Follows
<1> QED
  BY <1>1, <1>2 DEF withHighIntelligenceProfileCorrections, Follows

\* A mention with little else in it.
LEMMA BriefMentionFollows ==
  ASSUME NEW d, DOMAIN d = Fields, NEW t, NEW profiles
  PROVE  Follows(withBriefMentionPolicyCorrections(d, t, profiles), d)
<1> DEFINE substantive == /\ t.mention /\ d.reply # "" /\ ~d.write
                          /\ ~isDirectSocialCandidate(t.text)
           asked == IF substantive
               THEN [d EXCEPT !.reply = "", !.full = TRUE, !.profile = "", !.strength = "",
                       !.effort = "", !.reaction = "thinking_face", !.reasons = @ \cup {"policy"}]
               ELSE d
           e == [asked EXCEPT !.outcome = "reply_in_channel", !.sure = Surely(@),
                                  !.reasons = @ \cup {"policy"}, !.full = TRUE]
<1>1. Follows(asked, d)
  BY DEF Fields, Follows
<1> HIDE DEF asked
<1>2. Follows(e, d)
  BY <1>1 DEF Fields, Follows
<1>3. Follows(withLightestProfile(e, profiles), e)
  BY <1>2, LightestFollows DEF Follows
<1>4. withBriefMentionPolicyCorrections(d, t, profiles) \in {asked, withLightestProfile(e, profiles)}
  BY DEF withBriefMentionPolicyCorrections, asked
<1> QED
  BY <1>1, <1>2, <1>3, <1>4 DEF Follows

\* A question about the state of things.
LEMMA AnswerStatusFollows ==
  ASSUME NEW d, DOMAIN d = Fields, NEW t, NEW p, NEW profiles
  PROVE  Follows(AnswerStatus(d, t, p, profiles), d)
<1> DEFINE first == CHOOSE i \in StatusEvidence(p) : \A k \in StatusEvidence(p) : i <= k
           told == [d EXCEPT !.outcome = IF @ \in Replies THEN @ ELSE "reply_in_thread", !.full = TRUE,
                        !.evidence = @ \cup {p[first].id}, !.reasons = @ \cup {"policy"}]
<1> HIDE DEF first
<1>1. Follows(told, d)
  BY DEF Fields, Follows
<1> HIDE DEF told
<1>2. Follows(withLightestProfile(told, profiles), told)
  BY <1>1, LightestFollows DEF Follows
<1>3. AnswerStatus(d, t, p, profiles) \in {told, withLightestProfile(told, profiles)}
  BY DEF AnswerStatus, told, first
<1> QED
  BY <1>1, <1>2, <1>3 DEF Follows

\* What an ambient turn may start.
LEMMA AlignFollows ==
  ASSUME NEW d, DOMAIN d = Fields, NEW t, NEW p, NEW profiles
  PROVE  Follows(Align(d, t, p, profiles), d)
<1> DEFINE seen == [d EXCEPT !.reasons = @ \cup {"policy"},
                        !.reaction = IF @ \in {"speech_balloon", "warning"} THEN @ ELSE "speech_balloon"]
           told == [seen EXCEPT !.outcome = "reply_in_channel", !.sure = Surely(@)]
           e == [told EXCEPT !.full = TRUE, !.evidence = @ \cup {FirstConflict(t, p).id}]
<1>1. Follows(seen, d)
  BY DEF Fields, Follows
<1> HIDE DEF seen
<1>2. Follows(told, d)
  BY <1>1 DEF Fields, Follows
<1> HIDE DEF told
<1>3. Follows(e, d)
  BY <1>2 DEF Fields, Follows
<1>4. Follows(withLightestProfile(e, profiles), d)
  BY <1>3, LightestFollows DEF Follows
<1>5. Align(d, t, p, profiles) \in {withLightestProfile(e, profiles), told, seen}
  BY DEF Align, seen, told
<1> QED
  BY <1>1, <1>2, <1>4, <1>5

\* An ambient turn.
LEMMA AmbientFollows ==
  ASSUME NEW d, DOMAIN d = Fields, NEW t, NEW p, NEW profiles
  PROVE  Follows(withAmbientPolicyCorrections(d, t, p, profiles), d)
<1> DEFINE quiet == [Instead(d, "silent") EXCEPT !.strength = "none"]
           status == asksOperationalStatus(t.text) /\ StatusEvidence(p) # {}
           told == IF status THEN AnswerStatus(d, t, p, profiles) ELSE d
           metric == [Instead(told, "react") EXCEPT !.reaction = "warning", !.strength = "none"]
<1>1. DOMAIN quiet = Fields /\ ~quiet.write
  BY InsteadFields DEF Fields
<1>2. Follows(told, d)
  BY AnswerStatusFollows DEF Follows
<1> HIDE DEF told
<1>3. DOMAIN metric = Fields /\ ~metric.write
  BY InsteadFields DEF Fields
<1>4. Follows(Align(told, t, p, profiles), d)
  BY <1>2, AlignFollows DEF Follows
<1> HIDE DEF quiet, metric
<1>5. withAmbientPolicyCorrections(d, t, p, profiles) \in {d, quiet, Align(told, t, p, profiles), metric, told}
  BY DEF withAmbientPolicyCorrections, quiet, metric, told
<1> QED
  BY <1>1, <1>2, <1>3, <1>4, <1>5 DEF Follows

\* Background work gets no less than the standard profile.
LEMMA FloorFollows ==
  ASSUME NEW d, DOMAIN d = Fields, NEW t, NEW profiles
  PROVE  Follows(withBackgroundProfileFloor(d, t, profiles), d)
<1> DEFINE want == IF Has(t.text, {"security"}) THEN "strong" ELSE "standard"
           offered == {p \in profiles : p.strength = want}
           taken == Taking(d, CHOOSE p \in offered : TRUE)
           e == [taken EXCEPT !.reasons = @ \cup {"policy"}]
<1>1. Follows(taken, d)
  BY TakingFollows
<1> HIDE DEF taken
<1>2. Follows(e, d)
  BY <1>1 DEF Fields, Follows
<1> HIDE DEF e
<1>3. withBackgroundProfileFloor(d, t, profiles) \in {e, d}
  BY DEF withBackgroundProfileFloor, e, taken
<1> QED
  BY <1>2, <1>3 DEF Follows

\* The reactions and the reasons on record.
LEMMA LastFollow ==
  ASSUME NEW d, DOMAIN d = Fields
  PROVE  /\ \A r : Follows(withPolicyReactionAllowlist(d, r), d)
         /\ Follows(withDefaultReaction(d), d)
         /\ Follows(withConsistentAuditReasonCodes(d), d)
<1>1. ASSUME NEW r PROVE Follows(withPolicyReactionAllowlist(d, r), d)
  BY DEF withPolicyReactionAllowlist, Follows, Fields
<1>2. Follows(withDefaultReaction(d), d)
  <2> DEFINE ok(x) == [d EXCEPT !.reasons = @ \cup {"policy"}, !.reaction = x]
  <2>1. \A x : Follows(ok(x), d)
    BY DEF Follows, Fields
  <2> HIDE DEF ok
  <2>2. withDefaultReaction(d) = d \/ \E x : withDefaultReaction(d) = ok(x)
    BY DEF withDefaultReaction, ok
  <2> QED
    BY <2>1, <2>2 DEF Follows
<1>3. Follows(withConsistentAuditReasonCodes(d), d)
  BY DEF withConsistentAuditReasonCodes, Follows, Fields
<1> QED
  BY <1>1, <1>2, <1>3

\* What the corrections leave calls for a change of the source only where the text does.
LEMMA CorrectedSays ==
  ASSUME NEW a, DOMAIN a = Fields, NEW t, NEW p, NEW profiles
  PROVE  /\ DOMAIN Corrected(a, t, p, profiles) = Fields
         /\ Corrected(a, t, p, profiles).write => isObviousSourceWriteRequest(t.text)
<1> DEFINE d1 == withDirectMentionPolicyCorrections(a, t, profiles)
           d2 == withAddressedSocialPolicyCorrections(d1, t)
           d3 == withConversationalAddressPolicyCorrections(d2, t, p)
           d4 == withConversationalReferencePolicyCorrections(d3, t, p, profiles)
           d5 == withClarificationFollowupPolicyCorrections(d4, t, p, profiles)
           d6 == withProductKnowledgePolicyCorrections(d5, t, profiles)
           d7 == withSourceWritePolicyCorrections(d6, t)
           d8 == withImplementationPlanningPolicyCorrections(d7, t, profiles)
           d9 == withReadOnlyCodeAnalysisPolicyCorrections(d8, t, profiles)
           d10 == withOperationalSynthesisPolicyCorrections(d9, t, p, profiles)
           d11 == withHighIntelligenceProfileCorrections(d10, t, profiles)
           d12 == withBriefMentionPolicyCorrections(d11, t, profiles)
           d13 == withAmbientPolicyCorrections(d12, t, p, profiles)
           d14 == withCanonicalAgentProfile(d13, profiles)
           d15 == withBackgroundProfileFloor(d14, t, profiles)
           d16 == withPolicyReactionAllowlist(d15, a.reaction)
           d17 == withDefaultReaction(d16)
           d18 == withConsistentAuditReasonCodes(d17)
<1>0. Corrected(a, t, p, profiles) = d18
  BY DEF Corrected
<1> HIDE DEF d1, d2, d3, d4, d5, d6, d7, d8, d9, d10, d11, d12, d13, d14, d15, d16, d17, d18
<1>1. DOMAIN d1 = Fields
  BY DirectMentionFollows DEF d1, Follows
<1>2. DOMAIN d2 = Fields
  BY <1>1, AddressedSocialFollows DEF d2, Follows
<1>3. DOMAIN d3 = Fields
  BY <1>2, ConversationalAddressFollows DEF d3, Follows
<1>4. DOMAIN d4 = Fields
  BY <1>3, ConversationalReferenceFollows DEF d4, Follows
<1>5. DOMAIN d5 = Fields
  BY <1>4, ClarificationFollowupFollows DEF d5, Follows
<1>6. DOMAIN d6 = Fields
  BY <1>5, ProductKnowledgeFollows DEF d6, Follows
<1>7. DOMAIN d7 = Fields /\ (d7.write => isObviousSourceWriteRequest(t.text))
  BY <1>6, SourceWriteSays DEF d7
<1>8. DOMAIN d8 = Fields /\ (d8.write => d7.write)
  BY <1>7, ImplementationPlanningFollows DEF d8, Follows
<1>9. DOMAIN d9 = Fields /\ (d9.write => d8.write)
  BY <1>8, ReadOnlyCodeAnalysisFollows DEF d9, Follows
<1>10. DOMAIN d10 = Fields /\ (d10.write => d9.write)
  BY <1>9, OperationalSynthesisFollows DEF d10, Follows
<1>11. DOMAIN d11 = Fields /\ (d11.write => d10.write)
  BY <1>10, HighIntelligenceFollows DEF d11, Follows
<1>12. DOMAIN d12 = Fields /\ (d12.write => d11.write)
  BY <1>11, BriefMentionFollows DEF d12, Follows
<1>13. DOMAIN d13 = Fields /\ (d13.write => d12.write)
  BY <1>12, AmbientFollows DEF d13, Follows
<1>14. DOMAIN d14 = Fields /\ (d14.write => d13.write)
  BY <1>13, CanonicalFollows DEF d14, Follows
<1>15. DOMAIN d15 = Fields /\ (d15.write => d14.write)
  BY <1>14, FloorFollows DEF d15, Follows
<1>16. DOMAIN d16 = Fields /\ (d16.write => d15.write)
  BY <1>15, LastFollow DEF d16, Follows
<1>17. DOMAIN d17 = Fields /\ (d17.write => d16.write)
  BY <1>16, LastFollow DEF d17, Follows
<1>18. DOMAIN d18 = Fields /\ (d18.write => d17.write)
  BY <1>17, LastFollow DEF d18, Follows
<1> QED
  BY <1>0, <1>7, <1>8, <1>9, <1>10, <1>11, <1>12, <1>13, <1>14, <1>15, <1>16, <1>17, <1>18

\* The decisions that Tag makes without the model: to work on it,
LEMMA WorkingFields ==
  ASSUME NEW o
  PROVE  /\ DOMAIN Working(o) = Fields /\ ~Working(o).write
         /\ Working(o).outcome = o /\ Working(o).full
BY DEF Working, Decision, Fields

\* to say something,
LEMMA SayingFields ==
  ASSUME NEW o, NEW reply
  PROVE  /\ DOMAIN Saying(o, reply) = Fields /\ ~Saying(o, reply).write
         /\ Saying(o, reply).outcome = o /\ Saying(o, reply).reply = reply
BY DEF Saying, Decision, Fields

\* to say nothing.
LEMMA SilentFields == DOMAIN silent = Fields /\ ~silent.write /\ silent.outcome = "silent"
BY DecisionFields DEF silent, Fields, Decision

\* The fallback for a mention works on a reply.
LEMMA MentionFallback ==
  ASSUME NEW text
  PROVE  \E o \in Replies : directMentionFallback(text) = Working(o)
BY DEF directMentionFallback, Replies

\* So does what is decided where no model is configured.
LEMMA OfflineSays ==
  ASSUME NEW t, NEW p
  PROVE  /\ DOMAIN Offline(t, p) = Fields
         /\ Offline(t, p).write => isObviousSourceWriteRequest(t.text)
<1> DEFINE Good(d) == DOMAIN d = Fields /\ (d.write => isObviousSourceWriteRequest(t.text))
           base == [Decision("silent") EXCEPT !.reasons = {"policy"}, !.disclosure = ""]
           weather == withConversationalAddressPolicyCorrections(base, t, p)
           reference == withConversationalReferencePolicyCorrections(base, t, p, {})
           followup == withClarificationFollowupPolicyCorrections(base, t, p, {})
           incidents == {i \in DOMAIN p : p[i].partition \in {"evidence", "situation"} /\ containsIncident(p[i].text)}
           first == p[CHOOSE i \in incidents : \A k \in incidents : i <= k]
           begun == [base EXCEPT !.outcome = ""]
           wiki == [Working("reply_in_thread") EXCEPT !.strength = "standard", !.effort = "medium"]
           source == withSourceWritePolicyCorrections(begun, t)
           product == [Working("reply_in_thread") EXCEPT !.product = TRUE]
           social == [directSocialFallback(t.thread) EXCEPT !.strength = ""]
           mention == directMentionFallback(t.text)
           metric == [silent EXCEPT !.outcome = "react", !.reaction = "warning", !.strength = "none"]
           aligned == [Working("reply_in_channel") EXCEPT !.evidence = {FirstConflict(t, p).id}]
           told == [Working("reply_in_thread") EXCEPT !.evidence = {first.id}]
           hinted == [Working("reply_in_thread") EXCEPT !.signals = {first.id}, !.disclosure = "restricted"]
<1> HIDE DEF incidents, first
<1>1. DOMAIN base = Fields /\ ~base.write
  BY DecisionFields DEF Fields
<1> HIDE DEF base
<1>2. Good(weather)
  BY <1>1, ConversationalAddressFollows DEF Follows
<1>3. Good(reference)
  BY <1>1, ConversationalReferenceFollows DEF Follows
<1>4. Good(followup)
  BY <1>1, ClarificationFollowupFollows DEF Follows
<1>5. DOMAIN begun = Fields
  BY <1>1
<1> HIDE DEF begun
<1>6. Good(source)
  BY <1>5, SourceWriteSays
<1>7. Good(wiki) /\ Good(product) /\ Good(aligned) /\ Good(told) /\ Good(hinted)
  BY WorkingFields DEF Fields
<1>8. Good(social) /\ Good(metric) /\ Good(silent)
  BY SocialFallbackFields, SilentFields DEF Fields
<1>9. Good(mention) /\ Good(Working("reply_in_channel")) /\ Good(Working("reply_in_thread"))
  BY MentionFallback, WorkingFields
<1> HIDE DEF weather, reference, followup, wiki, source, product, social, mention, metric, aligned, told, hinted
<1>10. Offline(t, p) \in {weather, reference, followup, wiki, source, product, social, mention, metric,
                          aligned, told, hinted, silent, Working("reply_in_channel"), Working("reply_in_thread")}
  BY DEF Offline, weather, reference, followup, wiki, source, product, social, mention, metric, aligned, told,
         hinted, base, begun, incidents, first
<1> QED
  BY <1>2, <1>3, <1>4, <1>6, <1>7, <1>8, <1>9, <1>10

\* The rest of a text, after its first phrase.
LEMMA TailPhrases ==
  ASSUME NEW text \in Seq(STRING), text # <<>>
  PROVE  /\ Tail(text) \in Seq(STRING) /\ Len(Tail(text)) = Len(text) - 1
         /\ \A i \in DOMAIN Tail(text) : i + 1 \in DOMAIN text /\ Tail(text)[i] = text[i + 1]
OBVIOUS

\* A text that starts with a phrase has it.
LEMMA StartsHas ==
  ASSUME NEW text \in Seq(STRING), NEW phrases, Starts(text, phrases)
  PROVE  Has(text, phrases)
<1>1. 1 \in DOMAIN text /\ text[1] \in phrases
  BY DEF Starts
<1> QED
  BY <1>1 DEF Has

\* Whoever calls Tag by name says its name.
LEMMA AddressNamesTag ==
  ASSUME NEW text \in Seq(STRING), explicitlyAddressesTag(text)
  PROVE  Has(text, TagWords)
<1> DEFINE called == IF Starts(text, {"hi"}) THEN Tail(text) ELSE text
<1>1. called \in Seq(STRING)
  BY TailPhrases DEF Starts
<1>2. ASSUME Starts(called, TagWords) PROVE Has(text, TagWords)
  <2>1. Has(called, TagWords)
    BY <1>1, <1>2, StartsHas
  <2>2. CASE Starts(text, {"hi"})
    BY <2>1, <2>2, TailPhrases DEF Has, Starts
  <2> QED
    BY <2>1, <2>2
<1>3. CASE Has(text, TagWords)
  BY <1>3
<1>4. CASE Len(text) > 1 /\ text[1] = "<@U>" /\ text[2] = "tag,"
  <2>1. Len(text) > 1
    BY <1>4, Zenon
  <2>2. 2 \in DOMAIN text
    <3>1. Len(text) \in Nat /\ DOMAIN text = 1..Len(text)
      OBVIOUS
    <3> HIDE <1>4
    <3> QED
      BY <2>1, <3>1
  <2>3. text[2] \in TagWords
    BY <1>4 DEF TagWords
  <2> QED
    BY <2>2, <2>3 DEF Has
<1>5. CASE EndsBefore(text, Marks, {",tag"})
  BY <1>5 DEF EndsBefore, Has, TagWords
<1>6. CASE called = <<"tag">>
  <2>0. <<"tag">> # <<>> /\ Head(<<"tag">>) = "tag"
    OBVIOUS
  <2> HIDE DEF called
  <2>1. Starts(called, TagWords)
    BY <1>6, <2>0 DEF Starts, TagWords
  <2> QED
    BY <2>1, <1>2
<1>7. CASE Starts(called, {"tag,"}) \/ Starts(called, {"tag"})
  <2>1. Starts(called, TagWords)
    BY <1>7 DEF Starts, TagWords
  <2> QED
    BY <2>1, <1>2
<1> HIDE DEF called
<1>8. Has(text, TagWords) \/ (Len(text) > 1 /\ text[1] = "<@U>" /\ text[2] = "tag,")
      \/ EndsBefore(text, Marks, {",tag"}) \/ called = <<"tag">> \/ Starts(called, {"tag,"})
      \/ Starts(called, {"tag"})
  BY DEF explicitlyAddressesTag, called
<1> QED
  BY <1>3, <1>4, <1>5, <1>6, <1>7, <1>8

\* A bare declaration asks no question and makes no request.
LEMMA DeclarationsAskNothing ==
  ASSUME NEW text \in Seq(STRING), Declares(text)
  PROVE  /\ ~looksLikeQuestion(text) /\ ~looksLikeExplicitRequest(text)
         /\ ~explicitlyAddressesTag(text) /\ ~asksOperationalStatus(text)
<1>1. ~StartsAfter(text, {"url?"}, QuestionWords) /\ ~StartsAfter(text, {"url?"}, Requests)
  BY DEF Declares, StartsAfter
<1>2. ~Has(text, Marks) /\ ~Has(text, TagWords)
  BY DEF Declares, Has
<1>3. ~EndsBefore(text, {"url?"}, {"?"})
  BY <1>2 DEF EndsBefore, Has, Marks
<1>4. ~Starts(text, Requests)
  <2>1. ASSUME Starts(text, Requests) PROVE FALSE
    <3>1. 1 \in DOMAIN text /\ text[1] \in Requests /\ 1..(1 - 1) = {}
      BY <2>1 DEF Starts
    <3> QED
      BY <3>1, <1>1 DEF StartsAfter
  <2> QED
    BY <2>1
<1>5. ~Ends(text, Marks)
  <2>1. ASSUME Ends(text, Marks) PROVE FALSE
    <3>1. Len(text) \in DOMAIN text /\ text[Len(text)] \in Marks
      BY <2>1 DEF Ends, Last
    <3> QED
      BY <3>1, <1>2 DEF Has
  <2> QED
    BY <2>1
<1> QED
  BY <1>1, <1>2, <1>3, <1>4, <1>5, AddressNamesTag
     DEF looksLikeQuestion, looksLikeExplicitRequest, asksOperationalStatus

------------------------------------------------------------------------------
(* The corrections keep an answer usable.                                   *)

\* A decision the corrections can go on with: sure to a degree, with its reasons, one of the
\* outcomes, and words only where there is a reply.
Usable(d) ==
  /\ DOMAIN d = Fields /\ d.sure \in 0..2 /\ d.reasons # {} /\ d.outcome \in Outcomes
  /\ d.reply \in {"", "social", "weather"}
  /\ d.reply # "" => d.outcome \in Replies

\* Being surer stays on the scale.
LEMMA SurelyBounded == \A sure \in 0..2 : Surely(sure) \in 0..2
BY DEF Surely

\* The outcomes.
LEMMA RepliesAreOutcomes == Replies \subseteq Outcomes /\ {"silent", "react"} \subseteq Outcomes
                            /\ {"reply_in_channel", "reply_in_thread"} \subseteq Replies
BY DEF Replies, Outcomes

\* What takes the place of a decision is usable and has no words,
LEMMA InsteadUsable ==
  ASSUME NEW d, d.sure \in 0..2, NEW o \in Outcomes
  PROVE  /\ Usable(Instead(d, o)) /\ Instead(d, o).outcome = o /\ Instead(d, o).reply = ""
<1>1. Surely(d.sure) \in 0..2
  BY SurelyBounded
<1> QED
  BY <1>1, InsteadFields DEF Instead, Usable, Decision

\* and asking for a strength changes nothing else,
LEMMA AskingUsable ==
  ASSUME NEW d, Usable(d), NEW s
  PROVE  /\ Usable(Asking(d, s))
         /\ Asking(d, s).outcome = d.outcome /\ Asking(d, s).reply = d.reply
         /\ Asking(d, s).sure = d.sure /\ Asking(d, s).reasons = d.reasons
BY DEF Asking, Usable, Fields

\* nor does taking a profile,
LEMMA TakingUsable ==
  ASSUME NEW d, Usable(d), NEW p
  PROVE  Usable(Taking(d, p)) /\ Taking(d, p).outcome = d.outcome /\ Taking(d, p).reply = d.reply
BY DEF Taking, Usable, Fields

\* the lightest one,
LEMMA LightestUsable ==
  ASSUME NEW d, Usable(d), NEW profiles
  PROVE  Usable(withLightestProfile(d, profiles))
BY TakingUsable DEF withLightestProfile

\* or the one that its strength names.
LEMMA CanonicalUsable ==
  ASSUME NEW d, Usable(d), NEW profiles
  PROVE  Usable(withCanonicalAgentProfile(d, profiles))
<1> DEFINE agent == [d EXCEPT !.full = d.full \/ (outcomeNeedsAgent(d.outcome) /\ d.reply = "")]
           worded == [agent EXCEPT !.reply = ""]
           offered == {p \in profiles : p.strength = WantedStrength(worded)}
           taken == Taking(worded, CHOOSE p \in offered : TRUE)
           quiet == [d EXCEPT !.reaction = "", !.reply = "", !.full = FALSE, !.profile = "",
                       !.strength = "none", !.effort = "", !.evidence = {}, !.signals = {}]
           plain == [d EXCEPT !.profile = "", !.strength = "none", !.effort = ""]
<1>1. Usable(worded)
  BY DEF Usable, Fields
<1>2. Usable(quiet) /\ Usable(plain)
  BY DEF Usable, Fields
<1> HIDE DEF worded, quiet, plain
<1>3. Usable(taken)
  BY <1>1, TakingUsable
<1> HIDE DEF taken
<1>4. withCanonicalAgentProfile(d, profiles) \in {quiet, plain, d, worded, taken}
  BY DEF withCanonicalAgentProfile, quiet, plain, worded, taken
<1> QED
  BY <1>1, <1>2, <1>3, <1>4

\* The corrections again, in their order: each keeps a usable decision usable.
LEMMA DirectMentionUsable ==
  ASSUME NEW d, Usable(d), NEW t, NEW profiles
  PROVE  Usable(withDirectMentionPolicyCorrections(d, t, profiles))
<1> DEFINE i == Instead(d, "reply_in_channel")
           e == [i EXCEPT !.full = TRUE, !.reaction = "warning"]
<1>1. Usable(i)
  BY InsteadUsable, RepliesAreOutcomes DEF Usable
<1> HIDE DEF i
<1>2. Usable(e)
  BY <1>1 DEF Usable, Fields
<1>3. Usable(withLightestProfile(e, profiles))
  BY <1>2, LightestUsable
<1> HIDE DEF e
<1>4. withDirectMentionPolicyCorrections(d, t, profiles) \in {d, withLightestProfile(e, profiles)}
  BY DEF withDirectMentionPolicyCorrections, e, i
<1> QED
  BY <1>3, <1>4

\* A social turn that addresses Tag.
LEMMA AddressedSocialUsable ==
  ASSUME NEW d, Usable(d), NEW t
  PROVE  Usable(withAddressedSocialPolicyCorrections(d, t))
<1> DEFINE f == directSocialFallback(t.thread)
           e == [f EXCEPT !.sure = Surely(d.sure), !.reasons = @ \cup d.reasons]
<1>1. Surely(d.sure) \in 0..2
  BY SurelyBounded DEF Usable
<1>2. DOMAIN f = Fields /\ f.outcome \in Replies /\ f.reply = "social"
  BY SocialFallbackFields
<1> HIDE DEF f
<1>3. Usable(e)
  BY <1>1, <1>2, RepliesAreOutcomes DEF Usable, Fields
<1> HIDE DEF e
<1>4. withAddressedSocialPolicyCorrections(d, t) \in {d, e}
  BY DEF withAddressedSocialPolicyCorrections, e, f
<1> QED
  BY <1>3, <1>4

\* A turn that addresses Tag in a conversation.
LEMMA ConversationalAddressUsable ==
  ASSUME NEW d, Usable(d), NEW t, NEW p
  PROVE  Usable(withConversationalAddressPolicyCorrections(d, t, p))
<1> DEFINE i == Instead(d, "reply_in_channel")
           e == [i EXCEPT !.reply = "weather", !.reaction = "speech_balloon", !.strength = "none"]
<1>1. Usable(i) /\ i.outcome = "reply_in_channel"
  BY InsteadUsable, RepliesAreOutcomes DEF Usable
<1> HIDE DEF i
<1>2. Usable(e)
  BY <1>1 DEF Usable, Fields, Replies
<1> HIDE DEF e
<1>3. withConversationalAddressPolicyCorrections(d, t, p) \in {d, e}
  BY DEF withConversationalAddressPolicyCorrections, e, i
<1> QED
  BY <1>2, <1>3

\* A turn that refers to what was said.
LEMMA ConversationalReferenceUsable ==
  ASSUME NEW d, Usable(d), NEW t, NEW p, NEW profiles
  PROVE  Usable(withConversationalReferencePolicyCorrections(d, t, p, profiles))
<1> DEFINE i == Asking(Instead(d, "reply_in_channel"), "standard")
           e == [i EXCEPT !.reaction = "thinking_face"]
<1>0. Usable(Instead(d, "reply_in_channel"))
  BY InsteadUsable, RepliesAreOutcomes DEF Usable
<1>1. Usable(i)
  BY <1>0, AskingUsable
<1> HIDE DEF i
<1>2. Usable(e)
  BY <1>1 DEF Usable, Fields
<1> HIDE DEF e
<1>3. Usable(withCanonicalAgentProfile(e, profiles))
  BY <1>2, CanonicalUsable
<1>4. withConversationalReferencePolicyCorrections(d, t, p, profiles)
        \in {d, withCanonicalAgentProfile(e, profiles)}
  BY DEF withConversationalReferencePolicyCorrections, e, i
<1> QED
  BY <1>3, <1>4

\* The answer to a question that Tag asked.
LEMMA ClarificationFollowupUsable ==
  ASSUME NEW d, Usable(d), NEW t, NEW p, NEW profiles
  PROVE  Usable(withClarificationFollowupPolicyCorrections(d, t, p, profiles))
<1> DEFINE i == Asking(d, "standard")
           e == [i EXCEPT !.outcome = "reply_in_thread", !.sure = Surely(@),
                   !.reasons = @ \cup {"policy"}, !.reply = "", !.reaction = "thinking_face"]
<1>1. Usable(i) /\ Surely(i.sure) \in 0..2
  BY AskingUsable, SurelyBounded DEF Usable
<1> HIDE DEF i
<1>2. Usable(e)
  BY <1>1, RepliesAreOutcomes DEF Usable, Fields
<1> HIDE DEF e
<1>3. Usable(withCanonicalAgentProfile(e, profiles))
  BY <1>2, CanonicalUsable
<1>4. withClarificationFollowupPolicyCorrections(d, t, p, profiles)
        \in {d, withCanonicalAgentProfile(e, profiles)}
  BY DEF withClarificationFollowupPolicyCorrections, e, i
<1> QED
  BY <1>3, <1>4

\* A question about the product.
LEMMA ProductKnowledgeUsable ==
  ASSUME NEW d, Usable(d), NEW t, NEW profiles
  PROVE  Usable(withProductKnowledgePolicyCorrections(d, t, profiles))
<1> DEFINE question == d.product \/ isObviousProductKnowledgeQuestion(t.text, d.topic)
           writes == d.write /\ (~question \/ isObviousSourceWriteRequest(t.text))
           brief == ~d.write /\ (d.outcome = "reply_in_channel" \/ isBriefProductDefinitionQuestion(t.text))
           kept == [d EXCEPT !.write = writes,
                             !.reasons = IF writes # d.write THEN @ \cup {"policy"} ELSE @]
           place == IF ~t.thread /\ brief THEN "reply_in_channel" ELSE "reply_in_thread"
           other == [d EXCEPT !.product = FALSE, !.reasons = @ \cup {"policy"}]
           i == Asking(Instead(d, place), "standard")
           e == [i EXCEPT !.topic = d.topic, !.evidence = d.evidence,
                   !.product = TRUE, !.reaction = "thinking_face"]
<1>1. Usable(kept) /\ Usable(other)
  BY DEF Usable, Fields
<1>2. place \in Outcomes
  BY RepliesAreOutcomes
<1> HIDE DEF kept, other, place
<1>3. Usable(Instead(d, place))
  BY <1>2, InsteadUsable DEF Usable
<1>4. Usable(i)
  BY <1>3, AskingUsable
<1> HIDE DEF i
<1>5. Usable(e)
  BY <1>4 DEF Usable, Fields
<1> HIDE DEF e
<1>6. Usable(withCanonicalAgentProfile(e, profiles))
  BY <1>5, CanonicalUsable
<1>7. withProductKnowledgePolicyCorrections(d, t, profiles)
        \in {d, kept, other, withCanonicalAgentProfile(e, profiles)}
  BY DEF withProductKnowledgePolicyCorrections, kept, other, e, i, place
<1> QED
  BY <1>1, <1>6, <1>7

\* A request for a change of the source.
LEMMA SourceWriteUsable ==
  ASSUME NEW d, Usable(d), NEW t
  PROVE  Usable(withSourceWritePolicyCorrections(d, t))
<1> DEFINE page == [d EXCEPT !.outcome = "reply_in_thread", !.sure = Surely(@),
                      !.reasons = @ \cup {"policy"}, !.reply = "", !.write = FALSE, !.full = TRUE,
                      !.reaction = "eyes"]
           i == Instead(d, "silent")
           quiet == [i EXCEPT !.reasons = @ \cup {"write_silent"}, !.write = TRUE, !.strength = "none"]
           plain == [d EXCEPT !.write = FALSE, !.reply = "", !.reasons = @ \cup {"policy"}]
<1>1. Surely(d.sure) \in 0..2
  BY SurelyBounded DEF Usable
<1>2. Usable(page)
  BY <1>1, RepliesAreOutcomes DEF Usable, Fields
<1>3. Usable(plain)
  BY DEF Usable, Fields
<1> HIDE DEF page, plain
<1>4. Usable(Asking(page, "standard"))
  BY <1>2, AskingUsable
<1>5. Usable(i)
  BY InsteadUsable, RepliesAreOutcomes DEF Usable
<1> HIDE DEF i
<1>6. Usable(quiet)
  BY <1>5 DEF Usable, Fields
<1> HIDE DEF quiet
<1>7. withSourceWritePolicyCorrections(d, t) \in {d, page, Asking(page, "standard"), quiet, plain}
  BY DEF withSourceWritePolicyCorrections, page, plain, quiet, i
<1> QED
  BY <1>2, <1>3, <1>4, <1>6, <1>7

\* A question that asks for a plan.
LEMMA ImplementationPlanningUsable ==
  ASSUME NEW d, Usable(d), NEW t, NEW profiles
  PROVE  Usable(withImplementationPlanningPolicyCorrections(d, t, profiles))
<1> DEFINE i == Asking(d, "standard")
           e == [i EXCEPT !.outcome = "reply_in_thread", !.sure = Surely(@), !.reply = "",
                   !.reasons = (@ \ {"write_silent"}) \cup {"policy"}, !.write = FALSE]
<1>1. Usable(i) /\ Surely(i.sure) \in 0..2
  BY AskingUsable, SurelyBounded DEF Usable
<1> HIDE DEF i
<1>2. Usable(e)
  BY <1>1, RepliesAreOutcomes DEF Usable, Fields
<1> HIDE DEF e
<1>3. Usable(withCanonicalAgentProfile(e, profiles))
  BY <1>2, CanonicalUsable
<1>4. withImplementationPlanningPolicyCorrections(d, t, profiles)
        \in {d, withCanonicalAgentProfile(e, profiles)}
  BY DEF withImplementationPlanningPolicyCorrections, e, i
<1> QED
  BY <1>3, <1>4

\* A question about code.
LEMMA ReadOnlyCodeAnalysisUsable ==
  ASSUME NEW d, Usable(d), NEW t, NEW profiles
  PROVE  Usable(withReadOnlyCodeAnalysisPolicyCorrections(d, t, profiles))
<1> DEFINE strength == IF isSecuritySensitiveCodeAnalysis(t.text) THEN "strong" ELSE "standard"
           i == Asking(d, strength)
           e == [i EXCEPT !.outcome = "reply_in_thread", !.sure = Surely(@), !.reply = "",
                   !.reasons = @ \cup {"policy"}, !.write = FALSE]
<1>1. Usable(i) /\ Surely(i.sure) \in 0..2
  BY AskingUsable, SurelyBounded DEF Usable
<1> HIDE DEF i
<1>2. Usable(e)
  BY <1>1, RepliesAreOutcomes DEF Usable, Fields
<1> HIDE DEF e
<1>3. Usable(withCanonicalAgentProfile(e, profiles))
  BY <1>2, CanonicalUsable
<1>4. withReadOnlyCodeAnalysisPolicyCorrections(d, t, profiles)
        \in {d, withCanonicalAgentProfile(e, profiles)}
  BY DEF withReadOnlyCodeAnalysisPolicyCorrections, e, i
<1> QED
  BY <1>3, <1>4

\* A question about operations.
LEMMA OperationalSynthesisUsable ==
  ASSUME NEW d, Usable(d), NEW t, NEW p, NEW profiles
  PROVE  Usable(withOperationalSynthesisPolicyCorrections(d, t, p, profiles))
<1> DEFINE i == Asking(d, "strong")
           e == [i EXCEPT
            !.outcome = IF requestedReplyPlacement(t.text) = "channel" THEN "reply_in_channel"
                        ELSE "reply_in_thread",
            !.sure = Surely(@), !.reasons = @ \cup {"policy"}, !.reply = "", !.product = FALSE,
            !.evidence = operationalSynthesisEvidenceIDs(p),
            !.reaction = IF @ = "warning" THEN @ ELSE "thinking_face"]
<1>1. Usable(i) /\ Surely(i.sure) \in 0..2
  BY AskingUsable, SurelyBounded DEF Usable
<1> HIDE DEF i
<1>2. Usable(e)
  BY <1>1, RepliesAreOutcomes DEF Usable, Fields
<1> HIDE DEF e
<1>3. Usable(withCanonicalAgentProfile(e, profiles))
  BY <1>2, CanonicalUsable
<1>4. withOperationalSynthesisPolicyCorrections(d, t, p, profiles)
        \in {d, withCanonicalAgentProfile(e, profiles)}
  BY DEF withOperationalSynthesisPolicyCorrections, e, i
<1> QED
  BY <1>3, <1>4

\* Work that needs the strong profile.
LEMMA HighIntelligenceUsable ==
  ASSUME NEW d, Usable(d), NEW t, NEW profiles
  PROVE  Usable(withHighIntelligenceProfileCorrections(d, t, profiles))
<1> DEFINE i == Asking(d, "strong")
           e == [i EXCEPT !.reasons = @ \cup {"policy"}]
<1>1. Usable(i)
  BY AskingUsable
<1> HIDE DEF i
<1>2. Usable(e)
  BY <1>1 DEF Usable, Fields
<1> HIDE DEF e
<1>3. Usable(withCanonicalAgentProfile(e, profiles))
  BY <1>2, CanonicalUsable
<1>4. withHighIntelligenceProfileCorrections(d, t, profiles)
        \in {d, withCanonicalAgentProfile(e, profiles)}
  BY DEF withHighIntelligenceProfileCorrections, e, i
<1> QED
  BY <1>3, <1>4

\* A mention with little else in it.
LEMMA BriefMentionUsable ==
  ASSUME NEW d, Usable(d), NEW t, NEW profiles
  PROVE  Usable(withBriefMentionPolicyCorrections(d, t, profiles))
<1> DEFINE substantive == /\ t.mention /\ d.reply # "" /\ ~d.write
                          /\ ~isDirectSocialCandidate(t.text)
           asked == IF substantive
               THEN [d EXCEPT !.reply = "", !.full = TRUE, !.profile = "", !.strength = "",
                       !.effort = "", !.reaction = "thinking_face", !.reasons = @ \cup {"policy"}]
               ELSE d
           e == [asked EXCEPT !.outcome = "reply_in_channel", !.sure = Surely(@),
                                  !.reasons = @ \cup {"policy"}, !.full = TRUE]
<1>1. Usable(asked)
  BY DEF Usable, Fields
<1> HIDE DEF asked
<1>2. Surely(asked.sure) \in 0..2
  BY <1>1, SurelyBounded DEF Usable
<1>3. Usable(e)
  BY <1>1, <1>2, RepliesAreOutcomes DEF Usable, Fields
<1> HIDE DEF e
<1>4. Usable(withLightestProfile(e, profiles))
  BY <1>3, LightestUsable
<1>5. withBriefMentionPolicyCorrections(d, t, profiles) \in {asked, withLightestProfile(e, profiles)}
  BY DEF withBriefMentionPolicyCorrections, asked, e
<1> QED
  BY <1>1, <1>4, <1>5

\* A question about the state of things.
LEMMA AnswerStatusUsable ==
  ASSUME NEW d, Usable(d), d.reply = "", NEW t, NEW p, NEW profiles
  PROVE  Usable(AnswerStatus(d, t, p, profiles)) /\ AnswerStatus(d, t, p, profiles).reply = ""
<1> DEFINE first == CHOOSE i \in StatusEvidence(p) : \A k \in StatusEvidence(p) : i <= k
           told == [d EXCEPT !.outcome = IF @ \in Replies THEN @ ELSE "reply_in_thread", !.full = TRUE,
                        !.evidence = @ \cup {p[first].id}, !.reasons = @ \cup {"policy"}]
<1> HIDE DEF first
<1>1. Usable(told) /\ told.reply = ""
  BY RepliesAreOutcomes DEF Usable, Fields
<1> HIDE DEF told
<1>2. Usable(withLightestProfile(told, profiles)) /\ withLightestProfile(told, profiles).reply = ""
  BY <1>1, TakingUsable DEF withLightestProfile
<1>3. AnswerStatus(d, t, p, profiles) \in {told, withLightestProfile(told, profiles)}
  BY DEF AnswerStatus, told, first
<1> QED
  BY <1>1, <1>2, <1>3

\* What an ambient turn may start.
LEMMA AlignUsable ==
  ASSUME NEW d, Usable(d), d.reply = "", NEW t, NEW p, NEW profiles
  PROVE  Usable(Align(d, t, p, profiles))
<1> DEFINE seen == [d EXCEPT !.reasons = @ \cup {"policy"},
                        !.reaction = IF @ \in {"speech_balloon", "warning"} THEN @ ELSE "speech_balloon"]
           told == [seen EXCEPT !.outcome = "reply_in_channel", !.sure = Surely(@)]
           e == [told EXCEPT !.full = TRUE, !.evidence = @ \cup {FirstConflict(t, p).id}]
<1>1. Usable(seen)
  BY DEF Usable, Fields
<1> HIDE DEF seen
<1>2. Surely(seen.sure) \in 0..2
  BY <1>1, SurelyBounded DEF Usable
<1>3. Usable(told)
  BY <1>1, <1>2, RepliesAreOutcomes DEF Usable, Fields
<1> HIDE DEF told
<1>4. Usable(e)
  BY <1>3 DEF Usable, Fields
<1> HIDE DEF e
<1>5. Usable(withLightestProfile(e, profiles))
  BY <1>4, LightestUsable
<1>6. Align(d, t, p, profiles) \in {withLightestProfile(e, profiles), told, seen}
  BY DEF Align, seen, told, e
<1> QED
  BY <1>1, <1>3, <1>5, <1>6

\* An ambient turn.
LEMMA AmbientUsable ==
  ASSUME NEW d, Usable(d), NEW t, NEW p, NEW profiles
  PROVE  Usable(withAmbientPolicyCorrections(d, t, p, profiles))
<1>1. CASE d.reply # ""
  BY <1>1 DEF withAmbientPolicyCorrections
<1>2. CASE d.reply = ""
  <2> DEFINE i == Instead(d, "silent")
             quiet == [i EXCEPT !.strength = "none"]
             status == asksOperationalStatus(t.text) /\ StatusEvidence(p) # {}
             told == IF status THEN AnswerStatus(d, t, p, profiles) ELSE d
             m == Instead(told, "react")
             metric == [m EXCEPT !.reaction = "warning", !.strength = "none"]
  <2>1. Usable(i)
    BY InsteadUsable, RepliesAreOutcomes DEF Usable
  <2> HIDE DEF i
  <2>2. Usable(quiet)
    BY <2>1 DEF Usable, Fields
  <2> HIDE DEF quiet
  <2>3. Usable(told) /\ told.reply = ""
    BY <1>2, AnswerStatusUsable
  <2> HIDE DEF told
  <2>4. Usable(m)
    BY <2>3, InsteadUsable, RepliesAreOutcomes DEF Usable
  <2> HIDE DEF m
  <2>5. Usable(metric)
    BY <2>4 DEF Usable, Fields
  <2> HIDE DEF metric
  <2>6. Usable(Align(told, t, p, profiles))
    BY <2>3, AlignUsable
  <2>7. withAmbientPolicyCorrections(d, t, p, profiles) \in {d, quiet, Align(told, t, p, profiles), metric, told}
    BY DEF withAmbientPolicyCorrections, quiet, metric, told, i, m
  <2> QED
    BY <2>2, <2>3, <2>5, <2>6, <2>7
<1> QED
  BY <1>1, <1>2

\* Profiles of every strength are offered, each with its name, strength and effort.
Offered(profiles) ==
  /\ \A s \in {"light", "standard", "strong"} : \E q \in profiles : q.strength = s
  /\ \A q \in profiles : q = [id |-> q.id, strength |-> q.strength, effort |-> q.effort]

\* The profile that a decision names.
Choice(d) == [id |-> d.profile, strength |-> d.strength, effort |-> d.effort]

\* What the check asks of a decision, but for its reaction.
Fitted(d, profiles) ==
  /\ d.outcome = "silent" => d.reaction = "" /\ d.reply = "" /\ ~d.full /\ NoProfile(d)
  /\ d.outcome # "silent" /\ d.reply # "" => ~d.full /\ NoProfile(d)
  /\ d.outcome # "silent" /\ d.reply = "" /\ ~d.full => ~outcomeNeedsAgent(d.outcome) /\ NoProfile(d)
  /\ d.outcome # "silent" /\ d.reply = "" /\ d.full => Choice(d) \in profiles

\* A decision names the profile that it took.
LEMMA TakingChoice ==
  ASSUME NEW d, DOMAIN d = Fields, NEW profiles, Offered(profiles), NEW q \in profiles
  PROVE  Choice(Taking(d, q)) = q /\ Taking(d, q).outcome = d.outcome
         /\ Taking(d, q).reply = d.reply /\ (Taking(d, q).full <=> d.full)
BY DEF Taking, Fields, Offered, Choice

\* The last choice of a profile makes a usable decision fit,
LEMMA CanonicalFits ==
  ASSUME NEW d, Usable(d), NEW profiles, Offered(profiles)
  PROVE  Fitted(withCanonicalAgentProfile(d, profiles), profiles)
<1> DEFINE agent == [d EXCEPT !.full = d.full \/ (outcomeNeedsAgent(d.outcome) /\ d.reply = "")]
           worded == [agent EXCEPT !.reply = ""]
           offered == {p \in profiles : p.strength = WantedStrength(worded)}
           pick == CHOOSE p \in offered : TRUE
           taken == Taking(worded, pick)
           quiet == [d EXCEPT !.reaction = "", !.reply = "", !.full = FALSE, !.profile = "",
                       !.strength = "none", !.effort = "", !.evidence = {}, !.signals = {}]
           plain == [d EXCEPT !.profile = "", !.strength = "none", !.effort = ""]
<1>0. DOMAIN d = Fields /\ d.outcome \in Outcomes
  BY DEF Usable
<1>1. CASE d.outcome = "silent"
  <2>1. Fitted(quiet, profiles)
    BY <1>0, <1>1 DEF Fitted, Fields, NoProfile
  <2> HIDE DEF quiet
  <2>2. withCanonicalAgentProfile(d, profiles) = quiet
    BY <1>1 DEF withCanonicalAgentProfile, quiet
  <2> QED
    BY <2>1, <2>2
<1>2. agent.full <=> d.full \/ (outcomeNeedsAgent(d.outcome) /\ d.reply = "")
  BY <1>0 DEF Fields
<1>3. CASE d.outcome # "silent" /\ ~agent.full
  <2>1. ~d.full /\ (d.reply = "" => ~outcomeNeedsAgent(d.outcome))
    BY <1>2, <1>3
  <2>2. d.reply # "" \/ d.outcome = "react"
    BY <1>0, <1>3, <2>1 DEF Outcomes, outcomeNeedsAgent
  <2>3. Fitted(plain, profiles)
    BY <1>0, <1>3, <2>1 DEF Fitted, Fields, NoProfile
  <2> HIDE DEF plain
  <2>4. withCanonicalAgentProfile(d, profiles) = plain
    BY <1>3, <2>2 DEF withCanonicalAgentProfile, plain
  <2> QED
    BY <2>3, <2>4
<1>4. CASE d.outcome # "silent" /\ agent.full
  <2>1. DOMAIN worded = Fields /\ worded.outcome = d.outcome /\ worded.reply = "" /\ worded.full
        /\ Choice(worded) = Choice(d)
    BY <1>0, <1>4 DEF Fields, Choice
  <2> HIDE DEF worded
  <2>2. WantedStrength(worded) \in {"light", "standard", "strong"}
    BY DEF WantedStrength
  <2>3. offered # {}
    BY <2>2 DEF Offered
  <2>4. pick \in profiles
    BY <2>3
  <2>5. Fitted(taken, profiles)
    <3> HIDE DEF pick
    <3> QED
      BY <1>4, <2>1, <2>4, TakingChoice DEF Fitted
  <2>6. Choice(d) \in profiles => Fitted(worded, profiles)
    BY <1>4, <2>1 DEF Fitted
  <2> HIDE DEF taken, offered
  <2>7. withCanonicalAgentProfile(d, profiles) = IF Choice(d) \in profiles \/ offered = {} THEN worded ELSE taken
    BY <1>4 DEF withCanonicalAgentProfile, worded, offered, taken, Choice
  <2> QED
    BY <2>3, <2>5, <2>6, <2>7
<1> HIDE DEF agent
<1> QED
  BY <1>1, <1>3, <1>4

\* and the floor for background work keeps it fitting.
LEMMA FloorFits ==
  ASSUME NEW d, Usable(d), NEW t, NEW profiles, Offered(profiles), Fitted(d, profiles)
  PROVE  /\ Usable(withBackgroundProfileFloor(d, t, profiles))
         /\ Fitted(withBackgroundProfileFloor(d, t, profiles), profiles)
<1> DEFINE want == IF Has(t.text, {"security"}) THEN "strong" ELSE "standard"
           offered == {p \in profiles : p.strength = want}
           pick == CHOOSE p \in offered : TRUE
           taken == Taking(d, pick)
           e == [taken EXCEPT !.reasons = @ \cup {"policy"}]
<1>1. CASE withBackgroundProfileFloor(d, t, profiles) = d
  BY <1>1
<1>2. CASE d.outcome = "start_background_job" /\ offered # {} /\ withBackgroundProfileFloor(d, t, profiles) = e
  <2>1. pick \in profiles
    BY <1>2
  <2> HIDE DEF pick
  <2>2. DOMAIN d = Fields /\ d.reply = "" /\ d.full
    BY <1>2 DEF Usable, Fitted, outcomeNeedsAgent, Replies
  <2>3. /\ Usable(taken) /\ Choice(taken) = pick /\ taken.outcome = d.outcome
        /\ taken.reply = "" /\ taken.full
    BY <2>1, <2>2, TakingUsable, TakingChoice
  <2> HIDE DEF taken
  <2>4. Usable(e) /\ e.outcome = d.outcome /\ e.reply = "" /\ e.full /\ Choice(e) = Choice(taken)
    BY <2>3 DEF Usable, Fields, Choice
  <2> HIDE DEF e
  <2> QED
    BY <1>2, <2>1, <2>3, <2>4 DEF Fitted
<1>3. withBackgroundProfileFloor(d, t, profiles) = d
      \/ (d.outcome = "start_background_job" /\ offered # {} /\ withBackgroundProfileFloor(d, t, profiles) = e)
  BY DEF withBackgroundProfileFloor
<1> QED
  BY <1>1, <1>2, <1>3

\* e is d but for its reaction and its reasons.
Reacts(e, d) ==
  /\ DOMAIN e = Fields /\ e.reasons # {}
  /\ \A f \in Fields \ {"reaction", "reasons"} : e[f] = d[f]
  /\ d.outcome = "silent" => e.reaction = d.reaction

\* A reaction changes neither.
LEMMA ReactsFits ==
  ASSUME NEW d, NEW e, NEW profiles, Usable(d), Fitted(d, profiles), Reacts(e, d)
  PROVE  Usable(e) /\ Fitted(e, profiles) /\ e.outcome = d.outcome
<1>1. /\ e.outcome = d.outcome /\ e.sure = d.sure /\ e.reply = d.reply /\ e.full = d.full
      /\ e.profile = d.profile /\ e.strength = d.strength /\ e.effort = d.effort
  BY DEF Reacts, Fields
<1>2. Usable(e)
  BY <1>1 DEF Usable, Reacts
<1>3. Fitted(e, profiles)
  BY <1>1 DEF Fitted, NoProfile, Choice, Reacts
<1> QED
  BY <1>1, <1>2, <1>3

\* The reactions the policy allows.
LEMMA AllowlistReacts ==
  ASSUME NEW d, Usable(d), NEW r \in AllowedReactions
  PROVE  /\ Reacts(withPolicyReactionAllowlist(d, r), d)
         /\ d.outcome # "silent" => withPolicyReactionAllowlist(d, r).reaction \in {""} \cup AllowedReactions
<1> DEFINE e == [d EXCEPT !.reaction = "", !.reasons = @ \cup {"policy"}]
<1>1. Reacts(d, d)
  BY DEF Reacts, Usable
<1>2. d.outcome # "silent" => Reacts(e, d) /\ e.reaction = ""
  BY DEF Reacts, Usable, Fields
<1> HIDE DEF e
<1> QED
  BY <1>1, <1>2 DEF withPolicyReactionAllowlist, e

\* There are two default reactions.
LEMMA OneOrTwo == \A i \in 1..2 : i = 1 \/ i = 2
OBVIOUS

\* The reaction of a decision that has none.
LEMMA DefaultReacts ==
  ASSUME NEW d, Usable(d), d.outcome # "silent" => d.reaction \in {""} \cup AllowedReactions,
         AllowedReactions # {}
  PROVE  /\ Reacts(withDefaultReaction(d), d)
         /\ d.outcome # "silent" => withDefaultReaction(d).reaction \in AllowedReactions
<1> DEFINE e(x) == [d EXCEPT !.reasons = @ \cup {"policy"}, !.reaction = x]
<1>1. Reacts(d, d)
  BY DEF Reacts, Usable
<1>2. ASSUME d.outcome # "silent", NEW x PROVE Reacts(e(x), d) /\ e(x).reaction = x
  BY <1>2 DEF Reacts, Usable, Fields
<1>3. CASE d.outcome = "silent" \/ d.reaction # ""
  BY <1>1, <1>3 DEF withDefaultReaction
<1>4. CASE d.outcome # "silent" /\ d.reaction = ""
  <2> DEFINE preferred == IF d.reply # "" THEN <<"white_check_mark", "speech_balloon">>
                   ELSE IF d.outcome \in {"start_background_job", "escalate_for_approval"}
                   THEN <<"eyes", "thinking_face">> ELSE <<"speech_balloon", "eyes">>
             x == IF \E i \in 1..2 : preferred[i] \in AllowedReactions
                  THEN preferred[IF preferred[1] \in AllowedReactions THEN 1 ELSE 2]
                  ELSE CHOOSE r \in AllowedReactions : TRUE
  <2> HIDE DEF preferred
  <2>1. x \in AllowedReactions
    <3>1. (\E i \in 1..2 : preferred[i] \in AllowedReactions) =>
             preferred[IF preferred[1] \in AllowedReactions THEN 1 ELSE 2] \in AllowedReactions
      BY OneOrTwo
    <3>2. (CHOOSE r \in AllowedReactions : TRUE) \in AllowedReactions
      OBVIOUS
    <3> QED
      BY <3>1, <3>2
  <2> HIDE DEF x, e
  <2>2. withDefaultReaction(d) = e(x)
    BY <1>4 DEF withDefaultReaction, x, e, preferred
  <2> QED
    BY <1>2, <1>4, <2>1, <2>2
<1> QED
  BY <1>3, <1>4

\* The reasons on record.
LEMMA AuditReacts ==
  ASSUME NEW d, Usable(d)
  PROVE  Reacts(withConsistentAuditReasonCodes(d), d)
         /\ withConsistentAuditReasonCodes(d).reaction = d.reaction
BY DEF withConsistentAuditReasonCodes, Reacts, Usable, Fields

\* An answer the instructions ask for passes the check, whatever the corrections do to it.
LEMMA CorrectedFits ==
  ASSUME NEW a, DOMAIN a = Fields, Consistent(a), NEW t, NEW p, NEW profiles, Offered(profiles)
  PROVE  LET d == Corrected(a, t, p, profiles) IN
         /\ Usable(d) /\ Fitted(d, profiles)
         /\ d.outcome # "silent" => d.reaction \in AllowedReactions
<1> DEFINE d1 == withDirectMentionPolicyCorrections(a, t, profiles)
           d2 == withAddressedSocialPolicyCorrections(d1, t)
           d3 == withConversationalAddressPolicyCorrections(d2, t, p)
           d4 == withConversationalReferencePolicyCorrections(d3, t, p, profiles)
           d5 == withClarificationFollowupPolicyCorrections(d4, t, p, profiles)
           d6 == withProductKnowledgePolicyCorrections(d5, t, profiles)
           d7 == withSourceWritePolicyCorrections(d6, t)
           d8 == withImplementationPlanningPolicyCorrections(d7, t, profiles)
           d9 == withReadOnlyCodeAnalysisPolicyCorrections(d8, t, profiles)
           d10 == withOperationalSynthesisPolicyCorrections(d9, t, p, profiles)
           d11 == withHighIntelligenceProfileCorrections(d10, t, profiles)
           d12 == withBriefMentionPolicyCorrections(d11, t, profiles)
           d13 == withAmbientPolicyCorrections(d12, t, p, profiles)
           d14 == withCanonicalAgentProfile(d13, profiles)
           d15 == withBackgroundProfileFloor(d14, t, profiles)
           d16 == withPolicyReactionAllowlist(d15, a.reaction)
           d17 == withDefaultReaction(d16)
           d18 == withConsistentAuditReasonCodes(d17)
<1>a. Usable(a) /\ a.reaction \in AllowedReactions
  BY DEF Consistent, Usable
<1>0. Corrected(a, t, p, profiles) = d18
  BY DEF Corrected
<1> HIDE DEF d1, d2, d3, d4, d5, d6, d7, d8, d9, d10, d11, d12, d13, d14, d15, d16, d17, d18
<1>1. Usable(d1)
  BY <1>a, DirectMentionUsable DEF d1
<1>2. Usable(d2)
  BY <1>1, AddressedSocialUsable DEF d2
<1>3. Usable(d3)
  BY <1>2, ConversationalAddressUsable DEF d3
<1>4. Usable(d4)
  BY <1>3, ConversationalReferenceUsable DEF d4
<1>5. Usable(d5)
  BY <1>4, ClarificationFollowupUsable DEF d5
<1>6. Usable(d6)
  BY <1>5, ProductKnowledgeUsable DEF d6
<1>7. Usable(d7)
  BY <1>6, SourceWriteUsable DEF d7
<1>8. Usable(d8)
  BY <1>7, ImplementationPlanningUsable DEF d8
<1>9. Usable(d9)
  BY <1>8, ReadOnlyCodeAnalysisUsable DEF d9
<1>10. Usable(d10)
  BY <1>9, OperationalSynthesisUsable DEF d10
<1>11. Usable(d11)
  BY <1>10, HighIntelligenceUsable DEF d11
<1>12. Usable(d12)
  BY <1>11, BriefMentionUsable DEF d12
<1>13. Usable(d13)
  BY <1>12, AmbientUsable DEF d13
<1>14. Usable(d14) /\ Fitted(d14, profiles)
  BY <1>13, CanonicalUsable, CanonicalFits DEF d14
<1>15. Usable(d15) /\ Fitted(d15, profiles)
  BY <1>14, FloorFits DEF d15
<1>16. Reacts(d16, d15) /\ (d15.outcome # "silent" => d16.reaction \in {""} \cup AllowedReactions)
  BY <1>a, <1>15, AllowlistReacts DEF d16
<1>17. Usable(d16) /\ Fitted(d16, profiles) /\ d16.outcome = d15.outcome
  BY <1>15, <1>16, ReactsFits
<1>18. Reacts(d17, d16) /\ (d16.outcome # "silent" => d17.reaction \in AllowedReactions)
  BY <1>a, <1>16, <1>17, DefaultReacts DEF d17
<1>19. Usable(d17) /\ Fitted(d17, profiles) /\ d17.outcome = d16.outcome
  BY <1>17, <1>18, ReactsFits
<1>20. Reacts(d18, d17) /\ d18.reaction = d17.reaction
  BY <1>19, AuditReacts DEF d18
<1>21. Usable(d18) /\ Fitted(d18, profiles) /\ d18.outcome = d17.outcome
  BY <1>19, <1>20, ReactsFits
<1> QED
  BY <1>0, <1>18, <1>19, <1>20, <1>21

\* What fits is a valid recommendation,
LEMMA FittedIsValid ==
  ASSUME NEW d, NEW profiles, Usable(d), Fitted(d, profiles),
         d.outcome # "silent" => d.reaction \in AllowedReactions
  PROVE  validateRecommendation(d, profiles)
BY DEF validateRecommendation, Fitted, Usable, Choice

\* as sure as the scale goes.
LEMMA SurenessBounded == \A sure \in 0..2 : sure <= 2
OBVIOUS

\* Checked sources and the place of a reply leave a decision that passes as it was.
LEMMA PlacedIsValid ==
  ASSUME NEW d, NEW profiles, NEW t, NEW p, Usable(d), Fitted(d, profiles),
         d.outcome # "silent" => d.reaction \in AllowedReactions
  PROVE  validateDecision(enforceDirectReplyPlacement(sanitizeEvidenceReferences(d, p), t), p)
<1> DEFINE evidence == {id \in d.evidence : Class(p, id) = "safe"}
           signals == {id \in d.signals : Class(p, id) = "restricted"}
           s == sanitizeEvidenceReferences(d, p)
           want == IF t.thread THEN "reply_in_thread" ELSE "reply_in_channel"
           e == enforceDirectReplyPlacement(s, t)
<1>0. /\ DOMAIN d = Fields /\ d.sure \in 0..2 /\ d.reasons # {} /\ d.outcome \in Outcomes
      /\ d.reply \in {"", "social", "weather"} /\ (d.reply # "" => d.outcome \in Replies)
  BY DEF Usable
<1>1. /\ DOMAIN s = Fields /\ s.evidence = evidence /\ s.signals = signals /\ s.reasons # {}
      /\ s.outcome = d.outcome /\ s.sure = d.sure /\ s.reply = d.reply /\ s.full = d.full
      /\ s.reaction = d.reaction /\ s.profile = d.profile /\ s.strength = d.strength /\ s.effort = d.effort
  BY <1>0 DEF sanitizeEvidenceReferences, Fields
<1> HIDE DEF s
<1>2. /\ e.evidence = evidence /\ e.signals = signals /\ e.reasons # {}
      /\ e.outcome = IF d.reply = "" THEN d.outcome ELSE want
      /\ e.sure = d.sure /\ e.reply = d.reply /\ e.full = d.full
      /\ e.reaction = d.reaction /\ e.profile = d.profile /\ e.strength = d.strength /\ e.effort = d.effort
  BY <1>1 DEF enforceDirectReplyPlacement, Fields
<1> HIDE DEF e
<1>3. want \in Replies
  BY DEF Replies
<1> HIDE DEF want
<1>4. e.sure <= 2 /\ e.outcome \in Outcomes /\ e.reasons # {}
  <2>1. e.sure <= 2
    BY <1>0, <1>2, SurenessBounded
  <2>2. e.outcome \in Outcomes
    BY <1>0, <1>2, <1>3, RepliesAreOutcomes
  <2> QED
    BY <1>2, <2>1, <2>2
<1>5. e.outcome # "silent" => e.reaction # ""
  <2>1. CASE d.outcome # "silent"
    BY <2>1, <1>2, ReactionsAssumption
  <2>2. CASE d.outcome = "silent"
    BY <2>2, <1>2 DEF Fitted
  <2> QED
    BY <2>1, <2>2
<1>6. ASSUME e.reply # ""
      PROVE  /\ e.outcome \in Replies /\ ~e.full /\ e.profile = "" /\ e.strength \in {"", "none"}
             /\ e.effort = "" /\ validateDirectReplyText(e.reply)
  <2>1. d.reply # "" /\ d.outcome # "silent"
    BY <1>2, <1>6 DEF Fitted
  <2> QED
    BY <1>0, <1>2, <1>3, <2>1 DEF Fitted, NoProfile, validateDirectReplyText
<1>7. ASSUME e.reply = "", outcomeNeedsAgent(e.outcome) PROVE e.full
  <2>1. d.reply = "" /\ outcomeNeedsAgent(d.outcome) /\ d.outcome # "silent"
    BY <1>2, <1>7 DEF outcomeNeedsAgent, Replies
  <2> QED
    BY <1>2, <2>1 DEF Fitted
<1>8. /\ \A id \in e.evidence : Class(p, id) = "safe"
      /\ \A id \in e.signals : Class(p, id) = "restricted"
  BY <1>2
<1>9. validateDecision(e, p)
  BY <1>4, <1>5, <1>6, <1>7, <1>8 DEF validateDecision
<1> QED
  BY <1>9 DEF e, s

\* What the router advertises is a profile.
LEMMA ProfilesAreRecords ==
  ASSUME NEW sn, NEW q \in advertisedProfiles(sn)
  PROVE  q = [id |-> q.id, strength |-> q.strength, effort |-> q.effort]
<1>1. \E x, y, z : q = [id |-> x, strength |-> y, effort |-> z]
  BY DEF advertisedProfiles
<1> QED
  BY <1>1

------------------------------------------------------------------------------
(* What is placed, and what is predicted.                                   *)

\* After the corrections: the evidence that is not in the pack is dropped,
LEMMA SanitizedFollows ==
  ASSUME NEW d, DOMAIN d = Fields, NEW p
  PROVE  Follows(sanitizeEvidenceReferences(d, p), d)
BY DEF sanitizeEvidenceReferences, Follows, Fields

\* a reply to a thread stays there,
LEMMA ReplyPlacementFollows ==
  ASSUME NEW d, DOMAIN d = Fields, NEW t
  PROVE  Follows(enforceDirectReplyPlacement(d, t), d)
BY DEF enforceDirectReplyPlacement, Follows, Fields

\* and so does one to a mention,
LEMMA MentionPlacementFollows ==
  ASSUME NEW d, DOMAIN d = Fields, NEW text
  PROVE  Follows(enforceDirectMentionPlacement(d, text), d)
<1> DEFINE to(place) == [d EXCEPT !.outcome = place,
                             !.reasons = IF d.outcome = place THEN @ ELSE @ \cup {"policy"}]
<1>1. \A place : Follows(to(place), d)
  BY DEF Follows, Fields
<1> HIDE DEF to
<1>2. enforceDirectMentionPlacement(d, text) \in {d, to("reply_in_thread"), to("reply_in_channel")}
  BY DEF enforceDirectMentionPlacement, to
<1> QED
  BY <1>1, <1>2 DEF Follows

\* which changes nothing else of the decision.
LEMMA PlacedFollows ==
  ASSUME NEW d, DOMAIN d = Fields, NEW t, NEW p
  PROVE  Follows(enforceDirectReplyPlacement(sanitizeEvidenceReferences(d, p), t), d)
BY SanitizedFollows, ReplyPlacementFollows DEF Follows

\* Tag answers: in words, or with an agent at work.
Answered(d) == d.outcome \notin {"silent", "react"} /\ (d.reply # "" \/ d.full)

\* A valid decision that is to reply has words or work.
LEMMA ValidAnswers ==
  ASSUME NEW d, NEW p, validateDecision(d, p), d.outcome \notin {"silent", "react"}
  PROVE  Answered(d)
BY DEF validateDecision, Answered, Outcomes, outcomeNeedsAgent

\* So has every fallback.
LEMMA FallbacksAnswer ==
  /\ \A o \in Replies : Answered(Working(o))
  /\ \A o \in Replies : \A reply : reply # "" => Answered(Saying(o, reply))
  /\ \A thread : Answered(directSocialFallback(thread))
  /\ \A text : Answered(directMentionFallback(text))
  /\ \A thread : Answered(directMessageSourceWriteFallback(thread))
<1>1. \A o \in Replies : Answered(Working(o))
  BY WorkingFields DEF Answered, Replies
<1>2. \A o \in Replies : \A reply : reply # "" => Answered(Saying(o, reply))
  BY SayingFields DEF Answered, Replies
<1>3. \A thread : Answered(directSocialFallback(thread))
  BY SocialFallbackFields DEF Answered, Replies
<1>4. \A text : Answered(directMentionFallback(text))
  BY <1>1, MentionFallback
<1>5. \A thread : Answered(directMessageSourceWriteFallback(thread))
  BY <1>2 DEF directMessageSourceWriteFallback, Replies
<1> QED
  BY <1>1, <1>2, <1>3, <1>4, <1>5

\* In its own threads Tag answers, or is silent where the source is to be changed.
LEMMA ThreadAnswered ==
  ASSUME NEW t, NEW p, NEW a, DOMAIN a.decision = Fields,
         a.decision.write => isObviousSourceWriteRequest(t.text)
  PROVE  \/ Answered(PredictThread(t, p, a))
         \/ ~t.dm /\ isObviousSourceWriteRequest(t.text)
<1> DEFINE d == enforceDirectReplyPlacement(sanitizeEvidenceReferences(a.decision, p), t)
           valid == a.ok /\ validateDecision(d, p)
           usable == /\ d.outcome \notin {"silent", "react"}
                     /\ d.reply # "" => d.sure >= 1 /\ validateDirectReplyForTarget(d, t, p)
           moved == [d EXCEPT !.outcome = "reply_in_thread", !.reasons = @ \cup {"policy"}]
<1>1. Follows(d, a.decision)
  BY PlacedFollows
<1> HIDE DEF d
<1>2. CASE valid /\ isSourceWriteSilentDecision(d)
  <2>1. isObviousSourceWriteRequest(t.text)
    BY <1>1, <1>2 DEF isSourceWriteSilentDecision, Follows
  <2>2. t.dm => PredictThread(t, p, a) = directMessageSourceWriteFallback(TRUE)
    BY <1>2 DEF PredictThread, d
  <2> QED
    BY <2>1, <2>2, FallbacksAnswer
<1>3. CASE valid /\ ~isSourceWriteSilentDecision(d) /\ usable
  <2>1. Answered(d)
    BY <1>3, ValidAnswers
  <2>2. Answered(moved)
    BY <1>1, <2>1 DEF Answered, Follows, Fields
  <2> HIDE DEF moved
  <2>3. PredictThread(t, p, a) \in {d, moved}
    BY <1>3 DEF PredictThread, d, moved
  <2> QED
    BY <2>1, <2>2, <2>3
<1>4. CASE ~(valid /\ isSourceWriteSilentDecision(d)) /\ ~(valid /\ ~isSourceWriteSilentDecision(d) /\ usable)
  <2>1. PredictThread(t, p, a) \in {directSocialFallback(TRUE), Working("reply_in_thread")}
    BY <1>4 DEF PredictThread, d
  <2> QED
    BY <2>1, FallbacksAnswer DEF Replies
<1> QED
  BY <1>2, <1>3, <1>4

\* A turn that is to Tag, in a channel or a direct message.
LEMMA DirectAnswered ==
  ASSUME NEW t, NEW p, NEW a, DOMAIN a.decision = Fields,
         a.decision.write => isObviousSourceWriteRequest(t.text)
  PROVE  \/ Answered(PredictDirect(t, p, a))
         \/ ~t.dm /\ isObviousSourceWriteRequest(t.text)
<1> DEFINE placed == enforceDirectReplyPlacement(sanitizeEvidenceReferences(a.decision, p), t)
           d == IF t.mention THEN enforceDirectMentionPlacement(placed, t.text) ELSE placed
           valid == a.ok /\ validateDecision(d, p)
           usable == /\ d.outcome \notin {"silent", "react"}
                     /\ d.reply # "" => d.sure >= 2 /\ validateDirectReplyForTarget(d, t, p)
<1>1. Follows(placed, a.decision)
  BY PlacedFollows
<1> HIDE DEF placed
<1>2. Follows(d, a.decision)
  BY <1>1, MentionPlacementFollows DEF Follows
<1> HIDE DEF d
<1>3. CASE valid /\ isSourceWriteSilentDecision(d)
  <2>1. isObviousSourceWriteRequest(t.text)
    BY <1>2, <1>3 DEF isSourceWriteSilentDecision, Follows
  <2>2. t.dm => PredictDirect(t, p, a) = directMessageSourceWriteFallback(FALSE)
    BY <1>3 DEF PredictDirect, d, placed
  <2> QED
    BY <2>1, <2>2, FallbacksAnswer
<1>4. CASE valid /\ ~isSourceWriteSilentDecision(d) /\ usable
  <2>1. Answered(d)
    BY <1>4, ValidAnswers
  <2>2. PredictDirect(t, p, a) = d
    BY <1>4 DEF PredictDirect, d, placed
  <2> QED
    BY <2>1, <2>2
<1>5. CASE ~(valid /\ isSourceWriteSilentDecision(d)) /\ ~(valid /\ ~isSourceWriteSilentDecision(d) /\ usable)
  <2>1. PredictDirect(t, p, a) \in {directSocialFallback(FALSE), directMessageReplyFallback,
                                     directMessageAgentFallback(t.text), directMentionFallback(t.text)}
    BY <1>5 DEF PredictDirect, d, placed
  <2>2. Answered(directMessageReplyFallback)
    BY FallbacksAnswer DEF directMessageReplyFallback, Replies
  <2> QED
    BY <2>1, <2>2, FallbacksAnswer DEF directMessageAgentFallback
<1> QED
  BY <1>3, <1>4, <1>5

\* An ambient turn ends in one of the outcomes.
LEMMA AmbientOutcome ==
  ASSUME NEW t, NEW p, NEW a, DOMAIN a.decision = Fields
  PROVE  PredictAmbient(t, p, a).outcome \in Outcomes
<1> DEFINE d == enforceDirectReplyPlacement(sanitizeEvidenceReferences(a.decision, p), t)
           moved == [d EXCEPT !.outcome = "reply_in_thread", !.reasons = @ \cup {"policy"}]
<1>1. DOMAIN d = Fields
  BY PlacedFollows DEF Follows
<1> HIDE DEF d
<1>2. moved.outcome \in Outcomes
  BY <1>1 DEF Fields, Outcomes, Replies
<1> HIDE DEF moved
<1>3. PredictAmbient(t, p, a) = silent \/ (validateDecision(d, p) /\ PredictAmbient(t, p, a) \in {d, moved})
  BY DEF PredictAmbient, d, moved
<1>4. silent.outcome \in Outcomes
  BY SilentFields DEF Outcomes
<1> QED
  BY <1>2, <1>3, <1>4 DEF validateDecision

------------------------------------------------------------------------------
(* What is decided.                                                         *)

\* The decision that takes effect.
Final == EnforceParticipation(Decide(target, pack, answered), target, pack).effective

\* Anything but silence is the prediction, of a turn no rule forbids, under the mode.
LEMMA FinalCases ==
  /\ Final.outcome # "silent" =>
       /\ ~hardSuppression(target) /\ target.mode # "observe"
       /\ Final = predict(target, pack, answered)
       /\ Ambient(target) => ~shadow
       /\ target.mode = "assist" /\ outcomeNeedsAgent(Final.outcome) =>
            assistInitiativeAuthorized(target, pack, Final)
  /\ (~Ambient(target) /\ ~hardSuppression(target) /\ target.mode # "observe") =>
       Final = predict(target, pack, answered)
<1> DEFINE r == Decide(target, pack, answered)
           d == predict(target, pack, answered)
           both(x) == [predicted |-> x, effective |-> x]
           permitted(x) == ~(/\ target.mode = "assist" /\ outcomeNeedsAgent(x.outcome)
                             /\ ~assistInitiativeAuthorized(target, pack, x))
           shadowed == \E x : r = [predicted |-> x, effective |-> silent]
<1>1. \/ shadowed
      \/ r = EnforceParticipation(both(d), target, pack) \/ r = both(d)
  BY DEF Decide
<1>2. r.effective # silent => ~hardSuppression(target) /\ target.mode # "observe"
                              /\ (Ambient(target) /\ d.outcome # "silent" => ~shadow)
  BY DEF Decide
<1>3. (~Ambient(target) /\ ~hardSuppression(target) /\ target.mode # "observe") => r = both(d)
  BY DEF Decide
<1> HIDE DEF r, d
<1>4. r.effective = silent \/ r.effective = d
  BY <1>1 DEF EnforceParticipation, Suppress
<1>5. DOMAIN r = {"predicted", "effective"}
  BY <1>1 DEF EnforceParticipation, Suppress
<1>6. Final = IF permitted(r.effective) THEN r.effective ELSE silent
  BY <1>5 DEF Final, EnforceParticipation, Suppress, r
<1>7. ~Ambient(target) /\ ~hardSuppression(target) => assistInitiativeAuthorized(target, pack, d)
  BY DEF assistInitiativeAuthorized, hardSuppression
<1>8. Final = silent \/ (Final = d /\ r.effective = d /\ permitted(d))
  BY <1>4, <1>6
<1>9. ASSUME Final.outcome # "silent"
      PROVE  /\ ~hardSuppression(target) /\ target.mode # "observe"
             /\ Final = d /\ (Ambient(target) => ~shadow)
             /\ target.mode = "assist" /\ outcomeNeedsAgent(Final.outcome) =>
                  assistInitiativeAuthorized(target, pack, Final)
  BY <1>2, <1>8, <1>9, SilentFields
<1>10. ASSUME ~Ambient(target), ~hardSuppression(target), target.mode # "observe" PROVE Final = d
  BY <1>3, <1>6, <1>7, <1>10
<1> QED
  BY <1>9, <1>10 DEF d

\* A decision to act, where it may be made.
Invited(e) ==
  e.outcome # "silent" =>
    /\ target.mode # "observe" /\ target.flags \subseteq {"integration"}
    /\ Ambient(target) => ~shadow /\ target.mode \in {"assist", "proactive"}
    /\ target.thread /\ Starts(target.text, {"<@U>"}) =>
         target.mention \/ target.dm \/ Has(target.text, TagWords)
    /\ (/\ Ambient(target) /\ target.mode = "assist" /\ e.reply = ""
        /\ e.outcome # "react" /\ Declares(target.text)) =>
         target.trigger \/ alignmentConflict(target, pack)

\* The decision that takes effect was invited,
LEMMA FinalInvited ==
  ASSUME target \in Targets, DOMAIN answered.decision = Fields
  PROVE  Invited(Final)
<1> SUFFICES ASSUME Final.outcome # "silent"
             PROVE  Invited(Final)
  BY DEF Invited
<1>0. target.mode \in Modes /\ target.text \in Seq(STRING)
  BY TurnsAssumption
<1>1. /\ ~hardSuppression(target) /\ target.mode # "observe"
      /\ Final = predict(target, pack, answered)
      /\ Ambient(target) => ~shadow
      /\ target.mode = "assist" /\ outcomeNeedsAgent(Final.outcome) =>
            assistInitiativeAuthorized(target, pack, Final)
  BY FinalCases
<1>2. target.flags \subseteq {"integration"}
  BY <1>1 DEF hardSuppression
<1>3. ASSUME Ambient(target)
      PROVE  target.mode \in {"assist", "proactive"} /\ Final = PredictAmbient(target, pack, answered)
  <2>1. predict(target, pack, answered) = IF target.mode = "mention" THEN silent
                                          ELSE PredictAmbient(target, pack, answered)
    BY <1>3 DEF predict, Ambient
  <2> QED
    BY <1>0, <1>1, <2>1, SilentFields DEF Modes
<1>4. ASSUME target.thread, Starts(target.text, {"<@U>"})
      PROVE  target.mention \/ target.dm \/ Has(target.text, TagWords)
  <2>1. target.mention \/ target.dm \/ explicitlyAddressesTag(target.text)
    BY <1>1, <1>4, Zenon DEF hardSuppression, thirdPartyAddressedTurn
  <2> QED
    BY <2>1, <1>0, AddressNamesTag
<1>5. ASSUME Ambient(target), target.mode = "assist", Final.outcome # "react", Declares(target.text)
      PROVE  target.trigger \/ alignmentConflict(target, pack)
  <2>1. Final.outcome \in Outcomes
    BY <1>3, <1>5, AmbientOutcome
  <2>2. outcomeNeedsAgent(Final.outcome)
    BY <2>1, <1>5 DEF Outcomes, outcomeNeedsAgent
  <2>3. assistInitiativeAuthorized(target, pack, Final)
    BY <2>2, <1>1, <1>5
  <2>4. /\ ~looksLikeQuestion(target.text) /\ ~looksLikeExplicitRequest(target.text)
        /\ ~explicitlyAddressesTag(target.text) /\ ~asksOperationalStatus(target.text)
    BY <1>0, <1>5, DeclarationsAskNothing
  <2> QED
    BY <2>3, <2>4, <1>5 DEF assistInitiativeAuthorized
<1> QED
  BY <1>1, <1>2, <1>3, <1>4, <1>5, Zenon DEF Invited

\* and answers a turn that is to Tag.
LEMMA FinalAnswered ==
  ASSUME DOMAIN answered.decision = Fields,
         answered.decision.write => isObviousSourceWriteRequest(target.text),
         ~Ambient(target), ~hardSuppression(target), target.mode # "observe"
  PROVE  Answered(Final) \/ (~target.dm /\ isObviousSourceWriteRequest(target.text))
<1>1. Final = predict(target, pack, answered)
  BY FinalCases
<1>2. predict(target, pack, answered) = IF target.thread THEN PredictThread(target, pack, answered)
                                        ELSE PredictDirect(target, pack, answered)
  BY DEF predict, Ambient
<1>3. \/ Answered(PredictThread(target, pack, answered))
      \/ ~target.dm /\ isObviousSourceWriteRequest(target.text)
  BY ThreadAnswered
<1>4. \/ Answered(PredictDirect(target, pack, answered))
      \/ ~target.dm /\ isObviousSourceWriteRequest(target.text)
  BY DirectAnswered
<1> QED
  BY <1>1, <1>2, <1>3, <1>4

\* What the classifier returned is a decision, which calls for a change of the source only
\* where the text of the turn does.
AnsweredAsAsked ==
  /\ target \in Targets
  /\ DOMAIN answered.decision = Fields
  /\ answered.decision.write => isObviousSourceWriteRequest(target.text)

\* The invariant.
JudgementInv == AnsweredAsAsked /\ ActsWhereInvited /\ DirectTurnIsAnswered

\* A call that failed left a decision that does nothing.
LEMMA FailedFields == DOMAIN Failed.decision = Fields /\ ~Failed.decision.write
BY ZeroFields DEF Failed

\* The invariant holds at the start.
LEMMA JudgementStarts == JudgementInit => JudgementInv
BY FailedFields DEF JudgementInit, JudgementInv, AnsweredAsAsked, ActsWhereInvited, DirectTurnIsAnswered, Acts

\* Nothing is claimed of a turn that is not judged yet.
LEMMA UnjudgedStep ==
  ASSUME AnsweredAsAsked', stage' # "done"
  PROVE  JudgementInv'
BY DEF JudgementInv, ActsWhereInvited, DirectTurnIsAnswered, Acts

\* The model answers: whatever it says was corrected.
LEMMA ClassifyAnswers ==
  ASSUME AnsweredAsAsked, Classify PROVE AnsweredAsAsked' /\ stage' # "done"
<1> DEFINE profiles == advertisedProfiles(snapshot)
           d(a) == Corrected(a, target, pack, profiles)
<1>1. PICK a \in Answers :
        answered' = IF profiles # {} /\ validateRecommendation(d(a), profiles)
                    THEN [ok |-> TRUE, decision |-> d(a)] ELSE Failed
  BY DEF Classify
<1>2. DOMAIN a = Fields
  BY TurnsAssumption, ZeroFields
<1> HIDE DEF profiles
<1>3. DOMAIN d(a) = Fields /\ (d(a).write => isObviousSourceWriteRequest(target.text))
  BY <1>2, CorrectedSays
<1> HIDE DEF d
<1>4. target' = target /\ stage' = "classified"
  BY DEF Classify, Stay
<1>5. answered'.decision \in {d(a), Failed.decision}
  BY <1>1
<1> QED
  BY <1>3, <1>4, <1>5, FailedFields DEF AnsweredAsAsked

\* The call of the model fails.
LEMMA ClassifyFailsAnswers ==
  ASSUME AnsweredAsAsked, ClassifyFails PROVE AnsweredAsAsked' /\ stage' # "done"
BY FailedFields DEF ClassifyFails, Stay, AnsweredAsAsked

\* There is no model.
LEMMA ClassifyOfflineAnswers ==
  ASSUME AnsweredAsAsked, ClassifyOffline PROVE AnsweredAsAsked' /\ stage' # "done"
<1>1. answered'.decision = Offline(target, pack) /\ target' = target /\ stage' = "classified"
  BY DEF ClassifyOffline, Stay
<1> QED
  BY <1>1, OfflineSays DEF AnsweredAsAsked

\* The judgement.
LEMMA JudgeKeeps ==
  ASSUME AnsweredAsAsked, Judge PROVE JudgementInv'
<1>1. /\ target' = target /\ pack' = pack /\ shadow' = shadow /\ answered' = answered
      /\ result'.effective = Final
  BY DEF Judge, Stay, Final
<1>2. AnsweredAsAsked'
  BY <1>1 DEF AnsweredAsAsked
<1>3. Invited(Final)
  BY FinalInvited DEF AnsweredAsAsked
<1>4. (~Ambient(target) /\ ~hardSuppression(target) /\ target.mode # "observe") =>
         Answered(Final) \/ (~target.dm /\ isObviousSourceWriteRequest(target.text))
  BY FinalAnswered DEF AnsweredAsAsked
<1> HIDE DEF Final
<1>5. ActsWhereInvited'
  BY <1>1, <1>3, Zenon DEF ActsWhereInvited, Acts, Effective, Invited
<1>6. DirectTurnIsAnswered'
  BY <1>1, <1>4, Zenon DEF DirectTurnIsAnswered, Effective, Answered
<1> QED
  BY <1>2, <1>5, <1>6 DEF JudgementInv

\* Every step keeps the invariant.
LEMMA JudgementKept == JudgementInv /\ [JudgementNext]_jvars => JudgementInv'
<1> SUFFICES ASSUME JudgementInv, [JudgementNext]_jvars PROVE JudgementInv'
  OBVIOUS
<1>0. AnsweredAsAsked
  BY DEF JudgementInv
<1>1. CASE Classify
  BY <1>0, <1>1, ClassifyAnswers, UnjudgedStep
<1>2. CASE ClassifyFails
  BY <1>0, <1>2, ClassifyFailsAnswers, UnjudgedStep
<1>3. CASE ClassifyOffline
  BY <1>0, <1>3, ClassifyOfflineAnswers, UnjudgedStep
<1>4. CASE Judge
  BY <1>0, <1>4, JudgeKeeps
<1>5. CASE UNCHANGED jvars
  BY <1>5, Zenon DEF jvars, JudgementInv, AnsweredAsAsked, ActsWhereInvited, DirectTurnIsAnswered, Acts, Effective
<1> QED
  BY <1>1, <1>2, <1>3, <1>4, <1>5 DEF JudgementNext

\* It always holds.
LEMMA JudgementAlways == JudgementSpec => []JudgementInv
BY JudgementStarts, JudgementKept, PTL DEF JudgementSpec

\* Whatever the model answers and however a turn is worded, Tag starts something only where
\* the mode, the marks of the message, the thread and the initiative allow it.
THEOREM ActsOnlyWhereInvited == JudgementSpec => []ActsWhereInvited
<1>1. JudgementInv => ActsWhereInvited
  BY DEF JudgementInv
<1> QED
  BY <1>1, JudgementAlways, PTL

\* Whether the model answers, fails or is not there, a turn that is to Tag ends in a reply
\* that has words or work; only a change of the source outside a direct message may not.
THEOREM DirectTurnsAreAnswered == JudgementSpec => []DirectTurnIsAnswered
<1>1. JudgementInv => DirectTurnIsAnswered
  BY DEF JudgementInv
<1> QED
  BY <1>1, JudgementAlways, PTL

\* A consistent answer is valid after the corrections.
LEMMA ClassifyAgrees ==
  ASSUME AnsweredAsAsked, Classify PROVE CorrectionsAgree'
<1> DEFINE profiles == advertisedProfiles(snapshot)
           d(a) == Corrected(a, target, pack, profiles)
           Placed(x) == enforceDirectReplyPlacement(sanitizeEvidenceReferences(x, pack), target)
<1>1. PICK a \in Answers :
        /\ answered' = IF profiles # {} /\ validateRecommendation(d(a), profiles)
                       THEN [ok |-> TRUE, decision |-> d(a)] ELSE Failed
        /\ consistent' = Consistent(a)
  BY DEF Classify
<1>2. DOMAIN a = Fields
  BY TurnsAssumption, ZeroFields
<1>3. target' = target /\ pack' = pack /\ snapshot' = snapshot
  BY DEF Classify, Stay
<1>4. ASSUME Consistent(a),
             \A s \in {"light", "standard", "strong"} : \E q \in profiles : q.strength = s
      PROVE  answered'.ok /\ validateDecision(Placed(answered'.decision), pack)
  <2>1. Offered(profiles) /\ profiles # {}
    BY <1>4, ProfilesAreRecords DEF Offered
  <2> HIDE DEF profiles
  <2>2. /\ Usable(d(a)) /\ Fitted(d(a), profiles)
        /\ d(a).outcome # "silent" => d(a).reaction \in AllowedReactions
    BY <1>2, <1>4, <2>1, CorrectedFits
  <2> HIDE DEF d
  <2>3. validateRecommendation(d(a), profiles)
    BY <2>2, FittedIsValid
  <2>4. answered' = [ok |-> TRUE, decision |-> d(a)]
    BY <1>1, <2>1, <2>3
  <2>5. validateDecision(Placed(d(a)), pack)
    BY <2>2, PlacedIsValid
  <2> HIDE DEF Placed
  <2> QED
    BY <2>4, <2>5
<1> QED
  BY <1>1, <1>3, <1>4, Zenon DEF CorrectionsAgree

\* No answer is on record before the classifier is asked.
Agreement == CorrectionsAgree /\ (stage = "new" => ~consistent)

\* Every step keeps the agreement.
LEMMA AgreementKept == AnsweredAsAsked /\ Agreement /\ [JudgementNext]_jvars => Agreement'
<1> SUFFICES ASSUME AnsweredAsAsked, Agreement, [JudgementNext]_jvars PROVE Agreement'
  OBVIOUS
<1>1. CASE Classify
  <2>1. stage' = "classified"
    BY <1>1 DEF Classify
  <2> QED
    BY <1>1, <2>1, ClassifyAgrees DEF Agreement
<1>2. CASE ClassifyFails \/ ClassifyOffline
  BY <1>2 DEF ClassifyFails, ClassifyOffline, CorrectionsAgree, Agreement
<1>3. CASE Judge
  <2>1. UNCHANGED <<target, pack, snapshot, answered, consistent>> /\ stage' = "done"
    BY <1>3 DEF Judge, Stay
  <2>2. CASE stage = "new"
    BY <2>1, <2>2 DEF Agreement, CorrectionsAgree
  <2>3. CASE stage # "new"
    BY <2>1, <2>3, Zenon DEF Agreement, CorrectionsAgree
  <2> QED
    BY <2>2, <2>3
<1>4. CASE UNCHANGED jvars
  BY <1>4, Zenon DEF jvars, CorrectionsAgree, Agreement
<1> QED
  BY <1>1, <1>2, <1>3, <1>4 DEF JudgementNext

\* However the corrections follow one another, what they make of an answer the
\* instructions ask for passes the validation after them, where profiles of every strength
\* are offered: no correction undoes what another one needs.
THEOREM CorrectionsAlwaysAgree == JudgementSpec => []CorrectionsAgree
<1>1. JudgementInit => Agreement
  BY DEF JudgementInit, CorrectionsAgree, Agreement
<1>2. JudgementInv => AnsweredAsAsked
  BY DEF JudgementInv
<1>3. Agreement => CorrectionsAgree
  BY DEF Agreement
<1> QED
  BY <1>1, <1>2, <1>3, AgreementKept, JudgementAlways, PTL DEF JudgementSpec
==============================================================================
