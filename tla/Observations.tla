----------------------------- MODULE Observations -----------------------------
(***************************************************************************)
(* The observation store (core/observer, MongoStore): what happens to an   *)
(* envelope that is accepted from Slack or imported from its history.      *)
(*                                                                         *)
(* An observation is a document of its own, unique by event id; the        *)
(* current text of a message is a projection that later events overwrite.  *)
(* The two are written one after the other, by several handlers, and       *)
(* events arrive late, twice and out of order.                             *)
(*                                                                         *)
(* Times are small numbers; an observation keeps the time of the envelope  *)
(* that created it.  Claiming and deciding are in module Decision.         *)
(***************************************************************************)
EXTENDS Integers, Sequences, FiniteSets

CONSTANTS Handlers,    \* goroutines that store envelopes
          EventIds,    \* event ids: one per message, one per edit and deletion
          Messages,
          None

VARIABLES observations,  \* by event id
          messages,      \* the projection, by message
          call           \* the handlers

storeVars == <<observations, messages, call>>

NoObservation == [state |-> "none", at |-> 0]
NoMessage == [at |-> -1, rank |-> 0, text |-> "", deleted |-> FALSE]
NoEnvelope == [id |-> None, message |-> None, kind |-> "message", at |-> 0,
               text |-> "", class |-> "human", live |-> TRUE]
IdleCall == [pc |-> "idle", env |-> NoEnvelope, state |-> "none", at |-> 0]

StoreInit == /\ observations = [i \in EventIds |-> NoObservation]
             /\ messages = [m \in Messages |-> NoMessage]
             /\ call = [h \in Handlers |-> IdleCall]

CallGoTo(h, pc) == call' = [call EXCEPT ![h].pc = pc]

\* Accept queues the envelope for a decision, Import keeps it as resolved context.
StoreCall(h, e, state) ==
  call' = [call EXCEPT ![h] = [IdleCall EXCEPT !.pc = "find", !.env = e, !.state = state]]

Stored(id) == observations[id].state # "none"

\* An observation that exists is projected again, at the time it was stored with.
ProjectExisting(h) ==
  call' = [call EXCEPT ![h].pc = "project", ![h].at = observations[call[h].env.id].at]

\* Mutant of FindObservation: a duplicate is acknowledged without its projection.
FindObservationOnly(h) ==
  /\ call[h].pc = "find"
  /\ CallGoTo(h, IF Stored(call[h].env.id) THEN "stored" ELSE "insert")
  /\ UNCHANGED <<observations, messages>>
FindObservation(h) ==
  /\ call[h].pc = "find"
  /\ IF Stored(call[h].env.id) THEN ProjectExisting(h) ELSE CallGoTo(h, "insert")
  /\ UNCHANGED <<observations, messages>>

\* The two counters that number an observation are raised in between; a number
\* that is not used leaves a gap, and nothing here depends on it.
InsertObservation(h) ==
  /\ call[h].pc = "insert"
  /\ LET e == call[h].env IN
       IF Stored(e.id)
         THEN ProjectExisting(h) /\ UNCHANGED observations
         ELSE /\ observations' = [observations EXCEPT ![e.id] =
                   [state |-> call[h].state, at |-> e.at]]
              /\ call' = [call EXCEPT ![h].pc = "project", ![h].at = e.at]
  /\ UNCHANGED messages

projectionEventRank(kind) ==
  CASE kind = "delete" -> 3 [] kind = "edit" -> 2 [] OTHER -> 1

\* Mutant of newer: the rank of the event does not count.
newerAt(m, at, rank) == messages[m].at <= at
\* The event is newer than what is shown: later, or as late and of no lower rank.
newer(m, at, rank) ==
  \/ messages[m].at < at
  \/ messages[m].at = at /\ messages[m].rank <= rank

\* applyProjection: one update, that changes nothing when the event is not newer.
ApplyProjection(h) ==
  /\ call[h].pc = "project"
  /\ LET e == call[h].env
         rank == projectionEventRank(e.kind)
         deleted == e.kind = "delete" IN
       IF newer(e.message, call[h].at, rank)
         THEN messages' = [messages EXCEPT ![e.message] =
                [at |-> call[h].at, rank |-> rank, deleted |-> deleted,
                 text |-> IF deleted THEN "" ELSE e.text]]
         ELSE UNCHANGED messages
  /\ CallGoTo(h, "stored")
  /\ UNCHANGED observations

StoreStep(h) == FindObservation(h) \/ InsertObservation(h) \/ ApplyProjection(h)

\* A database call fails, or the process ends: the call is not acknowledged.
StoreFails(h) == /\ call[h].pc # "idle"
                 /\ call' = [call EXCEPT ![h] = IdleCall]
                 /\ UNCHANGED <<observations, messages>>
=============================================================================
