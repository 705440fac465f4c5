----------------------------- MODULE ContextSync ------------------------------
(***************************************************************************)
(* The Slack context sync (core/slack, ContextSyncer and its state store)  *)
(* of one conversation, with the live loop beside it and the cycles that   *)
(* core/core.go starts: at startup, when the socket reconnects, and from   *)
(* time to time to refresh the membership.                                 *)
(*                                                                         *)
(* Messages that are posted while no socket is connected are missed.  A    *)
(* durable watermark, synced, says up to where the conversation is stored; *)
(* a cycle arms a catch-up from the watermark to its own start, live       *)
(* events count separately while it is armed, and the cycle reads Slack's  *)
(* history between the two, as far as its message budget goes.             *)
(*                                                                         *)
(* Every post and every cycle has a time of its own.  The look-back of 30  *)
(* days is longer than what is modelled.  Slack delivers the events of a   *)
(* connection in order; one it could not store is a missed one.            *)
(***************************************************************************)
EXTENDS Integers, FiniteSets

CONSTANTS MaxPosts,    \* bound: messages
          MaxCycles,   \* bound: cycles of the sync
          MaxBreaks,   \* bound: crashes, lost sockets and failed cycles
          Budget,      \* messages a cycle may read (MessagesPerChannel)
          Kinds,       \* "mention", "ambient": roots; "reply": in a thread of Tag's
          Prompt       \* whether no message comes between a startup's discovery and
                       \* its socket, and no live event between a reconnect and the
                       \* catch-up it arms (nothing in the code makes it so)

ASSUME SyncBounds == /\ {MaxPosts, MaxCycles, MaxBreaks} \subseteq Nat
                           /\ Budget \in Nat \ {0}
ASSUME KindsAssumption == Kinds \subseteq {"mention", "ambient", "reply"}
ASSUME PromptAssumption == Prompt \in BOOLEAN

VARIABLES clock,
          posted,    \* time of a message |-> its kind
          stored,    \* time of a message |-> its observation's decision state
          socket,    \* "stopped" (no process), "cut", or "up"
          inbox,     \* events the live loop has not handled
          joined,    \* whether Tag is a member
          doc,       \* the sync state of the conversation, in the database
          live,      \* the live loop: [pc, at]
          owed,      \* reconnects whose recovery has not begun
          sync,      \* the cycle that holds contextCycleMu
          missed,    \* history: messages no socket delivered
          history,   \* history: messages older than the bootstrap's start
          early,     \* history: messages missed before the bootstrap completed
          count      \* of cycles and faults, for the bounds

syncVars == <<clock, posted, stored, socket, inbox, joined, doc, live, owed, sync,
              missed, history, early, count>>

Times == 1 .. MaxPosts + MaxCycles
Larger(x, y) == IF x < y THEN y ELSE x
\* The oldest and the newest of a set of messages, when there is one.
Oldest(S) == {t \in S : \A u \in S : t <= u}
Newest(S) == {t \in S : \A u \in S : u <= t}

\* SlackContextSyncState; a time of 0 is one that is not set.
NoDoc == [boot |-> FALSE, synced |-> 0, through |-> 0, latest |-> 0, thread |-> 0,
          live |-> 0]
IdleLive == [pc |-> "idle", at |-> 0]
IdleSync == [pc |-> "idle", cycle |-> "none", started |-> 0, joined |-> FALSE,
             state |-> NoDoc, cursor |-> 0, left |-> 0]

SyncInit ==
  /\ clock = 0
  /\ posted = [t \in {} |-> "mention"]
  /\ stored = [t \in {} |-> "none"]
  /\ socket = "stopped"
  /\ inbox = {}
  /\ joined = TRUE
  /\ doc = NoDoc
  /\ live = IdleLive
  /\ owed = 0
  /\ sync = IdleSync
  /\ missed = {}
  /\ history = {}
  /\ early = {}
  /\ count = [cycles |-> 0, faults |-> 0]

Store(t, state) ==
  stored' = IF stored[t] = "none" THEN [stored EXCEPT ![t] = state] ELSE stored
Breaks == count.faults < MaxBreaks /\ count' = [count EXCEPT !.faults = @ + 1]
SyncGoTo(pc) == sync' = [sync EXCEPT !.pc = pc]

\* A message is posted.  A socket that is up delivers it, another does not.
Post(k) ==
  /\ Cardinality(DOMAIN posted) < MaxPosts
  /\ Prompt => ~ (socket = "stopped" /\ sync.pc # "idle")
  /\ clock' = clock + 1
  /\ posted' = [t \in DOMAIN posted \cup {clock + 1} |->
                  IF t > clock THEN k ELSE posted[t]]
  /\ stored' = [t \in DOMAIN stored \cup {clock + 1} |->
                  IF t > clock THEN "none" ELSE stored[t]]
  /\ IF socket = "up"
       THEN inbox' = inbox \cup {clock + 1} /\ UNCHANGED missed
       ELSE missed' = missed \cup {clock + 1} /\ UNCHANGED inbox
  /\ UNCHANGED <<socket, joined, doc, live, owed, sync, history, early, count>>

------------------------------------------------------------------------------
\* The live loop stores an event, then advances the watermark in two updates: of
\* live_through when a catch-up is armed, and of synced_through when none was.
HandleEnvelope ==
  /\ live.pc = "idle" /\ socket = "up"
  /\ Prompt => owed = 0 /\ sync.pc \notin {"list", "arm"}
  /\ \E t \in Oldest(inbox) :
       /\ Store(t, "pending")
       /\ live' = [pc |-> "advance", at |-> t]
       /\ inbox' = inbox \ {t}
  /\ UNCHANGED <<clock, posted, socket, joined, doc, owed, sync, missed, history, early, count>>

\* Mutant of AdvanceLive: live events move the watermark during a catch-up too.
AdvanceLiveNever ==
  /\ live.pc = "advance"
  /\ live' = [live EXCEPT !.pc = "synced"]
  /\ UNCHANGED <<clock, posted, stored, socket, inbox, joined, doc, owed, sync,
                 missed, history, early, count>>
AdvanceLive ==
  /\ live.pc = "advance"
  /\ IF doc.through # 0
       THEN /\ doc' = [doc EXCEPT !.live = Larger(@, live.at)]
            /\ live' = IdleLive
       ELSE /\ live' = [live EXCEPT !.pc = "synced"]
            /\ UNCHANGED doc
  /\ UNCHANGED <<clock, posted, stored, socket, inbox, joined, owed, sync, missed,
                 history, early, count>>
AdvanceSynced ==
  /\ live.pc = "synced"
  /\ doc' = [doc EXCEPT !.synced = Larger(@, live.at)]
  /\ live' = IdleLive
  /\ UNCHANGED <<clock, posted, stored, socket, inbox, joined, owed, sync, missed,
                 history, early, count>>

------------------------------------------------------------------------------
\* Core.Start discovers before it connects; recoverSlackContext begins once a
\* reconnect has connected; startContextRefresh's ticker needs neither.
Begin(cycle) ==
  /\ sync.pc = "idle" /\ count.cycles < MaxCycles
  /\ CASE cycle = "startup"   -> socket = "stopped" /\ owed' = 0
       [] cycle = "reconnect" -> socket # "stopped" /\ owed > 0 /\ owed' = owed - 1
       [] cycle = "refresh"   -> socket # "stopped" /\ UNCHANGED owed
  /\ clock' = clock + 1
  /\ count' = [count EXCEPT !.cycles = @ + 1]
  /\ sync' = [IdleSync EXCEPT !.pc = "list", !.cycle = cycle, !.started = clock + 1,
                              !.joined = joined]
  /\ UNCHANGED <<posted, stored, socket, inbox, joined, doc, live, missed, history, early>>

\* discover: channels and memberships are read, the sync states listed.
Discover ==
  /\ sync.pc = "list"
  /\ sync' = [sync EXCEPT !.state = doc,
                          !.pc = IF \/ ~ sync.joined /\ doc.through # 0
                                    \/ /\ sync.joined /\ sync.cycle # "refresh"
                                       /\ doc.boot /\ doc.synced < sync.started
                                   THEN "arm" ELSE "armed"]
  /\ UNCHANGED <<clock, posted, stored, socket, inbox, joined, doc, live, owed,
                 missed, history, early, count>>

\* BeginCatchUp: the checkpoints of a catch-up that was armed earlier are dropped.
BeginCatchUp ==
  /\ sync.pc = "arm" /\ sync.joined
  /\ doc' = IF doc.boot /\ doc.through < sync.started
              THEN [doc EXCEPT !.through = sync.started, !.latest = sync.started,
                               !.thread = 0]
              ELSE doc
  /\ SyncGoTo("armed")
  /\ UNCHANGED <<clock, posted, stored, socket, inbox, joined, live, owed, missed,
                 history, early, count>>
CancelCatchUp ==
  /\ sync.pc = "arm" /\ ~ sync.joined
  /\ doc' = IF doc.through = sync.state.through
              THEN [doc EXCEPT !.through = 0, !.latest = 0, !.thread = 0, !.live = 0]
              ELSE doc
  /\ SyncGoTo("armed")
  /\ UNCHANGED <<clock, posted, stored, socket, inbox, joined, live, owed, missed,
                 history, early, count>>

\* The startup connects the socket; a refresh goes on with the backfill only.
CatchUpList ==
  /\ sync.pc = "armed"
  /\ socket' = IF sync.cycle = "startup" THEN "up" ELSE socket
  /\ sync' = [sync EXCEPT !.state = doc, !.left = Budget, !.cursor = 0,
                          !.pc = IF /\ sync.cycle # "refresh" /\ sync.joined
                                    /\ doc.boot /\ doc.through # 0
                                   THEN "threads" ELSE "backfill"]
  /\ UNCHANGED <<clock, posted, stored, inbox, joined, doc, live, owed, missed,
                 history, early, count>>

\* A message of the history, strictly between two times.
Between(kinds, low, high) == {t \in DOMAIN posted : posted[t] \in kinds /\ low < t /\ t < high}
Roots == {"mention", "ambient"}

\* RecoverContextEnvelope: what asks something of Tag is queued for a decision.
Recover(t) == Store(t, IF posted[t] = "ambient" THEN "resolved" ELSE "pending")

\* backfillActiveThread: the replies of an active thread, the oldest first, from
\* the thread's checkpoint on.
ThreadAfter == Larger(Larger(sync.state.synced, sync.state.thread), sync.cursor)
RecoverReply ==
  /\ sync.pc = "threads" /\ sync.left > 0
  /\ \E t \in Oldest(Between({"reply"}, ThreadAfter, sync.state.through)) :
       /\ Recover(t)
       /\ sync' = [sync EXCEPT !.cursor = t, !.left = @ - 1]
  /\ UNCHANGED <<clock, posted, socket, inbox, joined, doc, live, owed, missed,
                 history, early, count>>
\* catchUpActiveThreads: the thread's checkpoint is where it got to.  The roots
\* are read when the threads are done and something is left of the budget.
CheckpointThreadCatchUp ==
  /\ sync.pc = "threads"
  /\ LET done == Between({"reply"}, ThreadAfter, sync.state.through) = {} IN
       /\ done \/ sync.left = 0
       /\ doc' = IF doc.through = sync.state.through
                   THEN [doc EXCEPT !.thread = IF done THEN sync.state.through
                                               ELSE Larger(@, sync.cursor)]
                   ELSE doc
       /\ sync' = [sync EXCEPT !.cursor = 0,
                     !.pc = IF done /\ sync.left > 0 THEN "roots" ELSE "deferred",
                     !.left = IF @ >= 4 THEN (@ * 3) \div 4 ELSE @]
  /\ UNCHANGED <<clock, posted, stored, socket, inbox, joined, live, owed, missed,
                 history, early, count>>

\* backfillChannel: the roots, the newest first, from the checkpoint on.
RootsBefore == IF sync.cursor # 0 THEN sync.cursor
               ELSE IF sync.state.latest # 0 THEN sync.state.latest
               ELSE sync.state.through
RootsLeft == Between(Roots, sync.state.synced, RootsBefore)
RecoverRoot ==
  /\ sync.pc = "roots" /\ sync.left > 0
  /\ \E t \in Newest(RootsLeft) :
       /\ Recover(t)
       /\ sync' = [sync EXCEPT !.cursor = t, !.left = @ - 1]
  /\ UNCHANGED <<clock, posted, socket, inbox, joined, doc, live, owed, missed,
                 history, early, count>>
CheckpointCatchUp ==
  /\ sync.pc = "roots" /\ sync.left = 0 /\ RootsLeft # {}
  /\ doc' = IF doc.through = sync.state.through
              THEN [doc EXCEPT !.latest = sync.cursor] ELSE doc
  /\ SyncGoTo("deferred")
  /\ UNCHANGED <<clock, posted, stored, socket, inbox, joined, live, owed, missed,
                 history, early, count>>

\* CompleteCatchUp: the watermark moves to the end of the catch-up, or to the last
\* live event when that is later; read and written in two steps.
CompleteCatchUpRead ==
  /\ sync.pc = "roots" /\ RootsLeft = {}
  /\ sync' = [sync EXCEPT !.pc = "complete",
                          !.cursor = Larger(sync.state.through, doc.live)]
  /\ UNCHANGED <<clock, posted, stored, socket, inbox, joined, doc, live, owed,
                 missed, history, early, count>>
CompleteCatchUp ==
  /\ sync.pc = "complete"
  /\ doc' = IF doc.through = sync.state.through
              THEN [doc EXCEPT !.synced = Larger(@, sync.cursor), !.through = 0,
                               !.latest = 0, !.thread = 0, !.live = 0]
              ELSE doc
  /\ SyncGoTo("backfill")
  /\ UNCHANGED <<clock, posted, stored, socket, inbox, joined, live, owed, missed,
                 history, early, count>>
\* The conversation is left to a later pass; also when Slack says it is gone
\* (recoverableContextChannelError), which leaves no checkpoint.
Deferred ==
  /\ \/ sync.pc = "deferred" /\ UNCHANGED count
     \/ sync.pc = "roots" /\ Breaks
  /\ SyncGoTo("backfill")
  /\ UNCHANGED <<clock, posted, stored, socket, inbox, joined, doc, live, owed,
                 missed, history, early>>

\* Backfill imports the history of a conversation once, as resolved context, as
\* far as the budget goes or not at all when Slack has no such channel.
BackfillList ==
  /\ sync.pc = "backfill"
  /\ sync' = IF doc.boot THEN IdleSync
             ELSE [sync EXCEPT !.pc = "import", !.cursor = sync.started, !.left = Budget]
  /\ UNCHANGED <<clock, posted, stored, socket, inbox, joined, doc, live, owed,
                 missed, history, early, count>>
\* Mutant of ImportHistory: the backfill recovers messages as a catch-up does.
ImportHistoryAsWork ==
  /\ sync.pc = "import" /\ sync.left > 0
  /\ \E t \in Newest(Between(Kinds, 0, sync.cursor)) :
       /\ Recover(t)
       /\ sync' = [sync EXCEPT !.cursor = t, !.left = @ - 1]
  /\ UNCHANGED <<clock, posted, socket, inbox, joined, doc, live, owed, missed,
                 history, early, count>>
ImportHistory ==
  /\ sync.pc = "import" /\ sync.left > 0
  /\ \E t \in Newest(Between(Kinds, 0, sync.cursor)) :
       /\ Store(t, "resolved")
       /\ sync' = [sync EXCEPT !.cursor = t, !.left = @ - 1]
  /\ UNCHANGED <<clock, posted, socket, inbox, joined, doc, live, owed, missed,
                 history, early, count>>
CompleteBootstrap ==
  /\ sync.pc = "import"
  /\ doc' = [doc EXCEPT !.synced = Larger(@, sync.started), !.boot = TRUE]
  /\ history' = {t \in DOMAIN posted : t < sync.started}
  /\ early' = missed
  /\ sync' = IdleSync
  /\ UNCHANGED <<clock, posted, stored, socket, inbox, joined, live, owed, missed, count>>

------------------------------------------------------------------------------
\* The socket is lost and comes back; the events it had not delivered are missed.
\* LiveIngress.run starts a recovery for every connection but the first.
Disconnect ==
  /\ Breaks
  /\ socket = "up"
  /\ socket' = "cut"
  /\ missed' = missed \cup inbox
  /\ inbox' = {}
  /\ UNCHANGED <<clock, posted, stored, joined, doc, live, owed, sync, history, early>>
Reconnect ==
  /\ socket = "cut"
  /\ socket' = "up"
  /\ owed' = owed + 1
  /\ UNCHANGED <<clock, posted, stored, inbox, joined, doc, live, sync, missed,
                 history, early, count>>

\* The process ends, wherever its loops are.
Crash ==
  /\ Breaks
  /\ socket' = "stopped"
  /\ missed' = missed \cup inbox
  /\ inbox' = {}
  /\ live' = IdleLive
  /\ owed' = 0
  /\ sync' = IdleSync
  /\ UNCHANGED <<clock, posted, stored, joined, doc, history, early>>

\* A call of Slack or of the database fails: the cycle ends, and at startup the
\* process with it (socket is "stopped" still); startContextBackfill goes on with
\* the backfill when it was the catch-up that failed.
CycleFails ==
  /\ Breaks
  /\ sync.pc # "idle"
  /\ ~ (Prompt /\ sync.cycle = "reconnect" /\ sync.pc \in {"list", "arm"})
  /\ sync' = IF sync.cycle = "startup" /\ sync.pc \in {"threads", "roots", "complete"}
               THEN [sync EXCEPT !.pc = "backfill"] ELSE IdleSync
  /\ UNCHANGED <<clock, posted, stored, socket, inbox, joined, doc, live, owed,
                 missed, history, early>>

Leave == /\ joined
         /\ joined' = FALSE
         /\ UNCHANGED <<clock, posted, stored, socket, inbox, doc, live, owed, sync,
                        missed, history, early, count>>

SyncNext ==
  \/ \E k \in Kinds : Post(k)
  \/ HandleEnvelope \/ AdvanceLive \/ AdvanceSynced
  \/ \E c \in {"startup", "reconnect", "refresh"} : Begin(c)
  \/ Discover \/ BeginCatchUp \/ CancelCatchUp \/ CatchUpList
  \/ RecoverReply \/ CheckpointThreadCatchUp
  \/ RecoverRoot \/ CheckpointCatchUp \/ CompleteCatchUpRead \/ CompleteCatchUp
  \/ Deferred \/ BackfillList \/ ImportHistory \/ CompleteBootstrap
  \/ Disconnect \/ Reconnect \/ Crash \/ CycleFails \/ Leave

SyncSpec == SyncInit /\ [][SyncNext]_syncVars

------------------------------------------------------------------------------
\* The watermark never passes a message that is not stored: whatever crashes and
\* reconnects come between the writes, what was missed since the bootstrap stays
\* ahead of the watermark until it has been recovered.
NothingSkipped ==
  joined /\ doc.boot =>
    \A t \in DOMAIN posted \ (history \cup early) : t <= doc.synced => stored[t] # "none"

\* History is context: a message from before the bootstrap asks for a decision
\* only if it was delivered live ("old mentions are never replayed as work"), and
\* a missed message that asks something of Tag is queued when it is stored.
HistoryIsContext ==
  \A t \in DOMAIN posted :
    /\ t \in missed \cap history => stored[t] # "pending"
    /\ t \in missed \ (history \cup early) /\ posted[t] # "ambient" /\ doc.boot =>
         stored[t] # "resolved"
=============================================================================
