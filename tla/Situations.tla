------------------------------ MODULE Situations ------------------------------
(***************************************************************************)
(* Organization intelligence and retention: the projector keeps a fact     *)
(* about a public message that tells of an incident, or a signal about a   *)
(* restricted one (core/intelligence), with a link from the observation it *)
(* came from; the janitor removes what has expired (core/retention).       *)
(*                                                                         *)
(* One message, posted, edited and perhaps deleted; its texts tell of an   *)
(* incident or not.  Every step of Project and of the janitor's sweep is   *)
(* one operation on the database.  Observations are decided by one loop,   *)
(* in the order of their arrival; one whose decision fails comes back when *)
(* its lease has run out, after later ones.                                *)
(***************************************************************************)
EXTENDS Integers, FiniteSets, Sequences

CONSTANTS Stories,       \* what happens in Slack: sequences of [kind, text, denied]
          MaxFailures,   \* bound: decisions and sweeps that fail
          IncidentTexts  \* the texts with one of isIncident's words

ASSUME SituationBounds == MaxFailures \in Nat
\* What follows the first event of a message is an edit or its deletion.
ASSUME StoriesAssumption ==
  \A s \in Stories : /\ Len(s) \in Nat
                     /\ \A i \in 2 .. Len(s) : s[i].kind \in {"edit", "delete"}

VARIABLES story,        \* the events of the message: post, edits, deletion
          arrived,      \* how many have arrived
          message,      \* its projection: [text, deleted]; text "" before it is posted
          restricted,   \* the message is in a restricted channel
          sessionChannel, \* the channel keeps no history beyond its session
          pending,      \* observations to decide
          waiting,      \* observations under a lease that has to run out
          project,      \* the decision loop: [pc, event, text]
          facts,        \* the fact or signal of the message: [text, id, source], or NoFact
          links,        \* derivations: [source, derived]
          factIds,      \* fact ids given so far
          watermark,    \* the highest observation projected
          expired,      \* the context lookback of the message is over
          sweep,        \* the janitor: [pc, links]
          failures

svars == <<story, arrived, message, restricted, sessionChannel, pending, waiting, project, facts,
           links, factIds, watermark, expired, sweep, failures>>

NoFact == [text |-> "", id |-> 0, source |-> 0]
Resting == [pc |-> "idle", event |-> 0, text |-> ""]
Swept == [pc |-> "idle", links |-> {}]

SituationsInit ==
  /\ story \in Stories /\ arrived = 0
  /\ message = [text |-> "", deleted |-> FALSE]
  /\ restricted \in BOOLEAN /\ sessionChannel \in BOOLEAN
  /\ pending = {} /\ waiting = {}
  /\ project = Resting
  /\ facts = NoFact /\ links = {} /\ factIds = 0 /\ watermark = 0
  /\ expired = FALSE /\ sweep = Swept /\ failures = 0

isIncident(text) == text \in IncidentTexts

OnlyProjector == UNCHANGED <<story, arrived, message, restricted, sessionChannel, expired, sweep>>

------------------------------------------------------------------------------
(* Slack, and the ingress that projects a message before it is decided.     *)

Arrive ==
  /\ arrived < Len(story) /\ arrived' = arrived + 1
  /\ LET e == story[arrived + 1] IN
       message' = [text |-> e.text, deleted |-> e.kind = "delete"]
  /\ pending' = pending \cup {arrived + 1}
  /\ UNCHANGED <<story, restricted, sessionChannel, waiting, project, facts, links, factIds,
                 watermark, expired, sweep, failures>>

\* The message gets too old to be context.
Age ==
  /\ ~expired /\ arrived = Len(story) /\ expired' = TRUE
  /\ UNCHANGED <<story, arrived, message, restricted, sessionChannel, pending, waiting, project,
                 facts, links, factIds, watermark, sweep, failures>>

------------------------------------------------------------------------------
(* processOneDecision, up to the projection.                                *)

\* ClaimPending takes the oldest, and Slack's policy and the flood gate have their say; a
\* denied turn, and a deletion, is recorded without a projection.
Suppressed(e) == story[e].denied \/ story[e].kind = "delete"

Claim ==
  /\ project.pc = "idle"
  /\ \E e \in pending :
       /\ \A k \in pending : e <= k
       /\ pending' = pending \ {e}
       /\ project' = IF Suppressed(e) THEN Resting
                     ELSE [pc |-> "clean", event |-> e, text |-> ""]
  /\ OnlyProjector /\ UNCHANGED <<waiting, facts, links, factIds, watermark, failures>>

\* A lease runs out, and the observation is pending again.
LeaseEnds(e) ==
  /\ e \in waiting /\ waiting' = waiting \ {e} /\ pending' = pending \cup {e}
  /\ OnlyProjector /\ UNCHANGED <<project, facts, links, factIds, watermark, failures>>

\* An operation fails, or the process stops.
ProjectFails ==
  /\ project.pc # "idle" /\ failures < MaxFailures
  /\ failures' = failures + 1
  /\ waiting' = waiting \cup {project.event} /\ project' = Resting
  /\ OnlyProjector /\ UNCHANGED <<pending, facts, links, factIds, watermark>>

------------------------------------------------------------------------------
(* Project.                                                                 *)

requiresProjectionCleanup(e) == story[e].kind \in {"edit", "delete"}

\* An edit first removes the facts, signals and links of the message.
\* Mutant of CleanFacts: no cleanup.
CleanNothing ==
  /\ project.pc = "clean"
  /\ project' = [project EXCEPT !.pc = "unlink"]
  /\ OnlyProjector
  /\ UNCHANGED <<pending, waiting, facts, links, factIds, watermark, failures>>
CleanFacts ==
  /\ project.pc = "clean"
  /\ facts' = IF requiresProjectionCleanup(project.event) THEN NoFact ELSE facts
  /\ project' = [project EXCEPT !.pc = "unlink"]
  /\ OnlyProjector /\ UNCHANGED <<pending, waiting, links, factIds, watermark, failures>>

\* The links removed are the ones of this observation.
CleanLinks ==
  /\ project.pc = "unlink"
  /\ links' = IF requiresProjectionCleanup(project.event)
              THEN {l \in links : l.source # project.event} ELSE links
  /\ project' = [project EXCEPT !.pc = "read"]
  /\ OnlyProjector /\ UNCHANGED <<pending, waiting, facts, factIds, watermark, failures>>

\* The message as it is now.  Nothing is kept of a channel without history, of a message
\* that is gone or too old, or that tells of no incident.
ReadMessage ==
  /\ project.pc = "read"
  /\ project' = IF sessionChannel \/ message.deleted \/ expired \/ ~isIncident(message.text)
                THEN [project EXCEPT !.pc = "advance"]
                ELSE [project EXCEPT !.pc = "upsert", !.text = message.text]
  /\ OnlyProjector /\ UNCHANGED <<pending, waiting, facts, links, factIds, watermark, failures>>

\* A fact is written whole, with a new id; a signal has no text and keeps its id.
Upsert ==
  /\ project.pc = "upsert"
  /\ LET keeps == restricted /\ facts # NoFact IN
       /\ facts' = [text |-> IF restricted THEN "signal" ELSE project.text,
                    id |-> IF keeps THEN facts.id ELSE factIds + 1, source |-> project.event]
       /\ factIds' = IF keeps THEN factIds ELSE factIds + 1
  /\ project' = [project EXCEPT !.pc = "link"]
  /\ OnlyProjector /\ UNCHANGED <<pending, waiting, links, watermark, failures>>

Link ==
  /\ project.pc = "link"
  /\ links' = links \cup {[source |-> project.event, derived |-> facts.id]}
  /\ project' = [project EXCEPT !.pc = "advance"]
  /\ OnlyProjector /\ UNCHANGED <<pending, waiting, facts, factIds, watermark, failures>>

\* The watermark never goes back; the decision goes on to the classifier.
advance ==
  /\ project.pc = "advance"
  /\ watermark' = IF watermark < project.event THEN project.event ELSE watermark
  /\ project' = Resting
  /\ OnlyProjector /\ UNCHANGED <<pending, waiting, facts, links, factIds, failures>>

Derive == \/ Claim \/ CleanFacts \/ CleanLinks \/ ReadMessage \/ Upsert \/ Link \/ advance
          \/ \E e \in waiting : LeaseEnds(e)

------------------------------------------------------------------------------
(* The janitor.                                                             *)

OnlyJanitor == UNCHANGED <<story, arrived, message, restricted, sessionChannel, pending, waiting,
                           project, factIds, watermark, expired>>

\* A link expires with the message.
ReadLinks ==
  /\ sweep.pc = "idle" /\ expired /\ (links # {} \/ facts # NoFact)
  /\ sweep' = [pc |-> "derived", links |-> links]
  /\ OnlyJanitor /\ UNCHANGED <<facts, links, failures>>

DeleteDerived ==
  /\ sweep.pc = "derived"
  /\ facts' = IF \E l \in sweep.links : l.derived = facts.id THEN NoFact ELSE facts
  /\ sweep' = [sweep EXCEPT !.pc = "links"]
  /\ OnlyJanitor /\ UNCHANGED <<links, failures>>

DeleteLinks ==
  /\ sweep.pc = "links"
  /\ links' = links \ sweep.links
  /\ sweep' = [sweep EXCEPT !.pc = "expired"]
  /\ OnlyJanitor /\ UNCHANGED <<facts, failures>>

\* Mutant of DeleteExpired: only what has a link is removed.
DeleteNoneExpired ==
  /\ sweep.pc = "expired" /\ sweep' = Swept
  /\ OnlyJanitor /\ UNCHANGED <<facts, links, failures>>
\* What has no link left expires on its own, which the index on expires_at does too.
DeleteExpired ==
  /\ sweep.pc = "expired" /\ sweep' = Swept
  /\ facts' = IF expired THEN NoFact ELSE facts
  /\ OnlyJanitor /\ UNCHANGED <<links, failures>>

\* A step fails: the sweep ends, and the next one starts over.
SweepFails ==
  /\ sweep.pc # "idle" /\ failures < MaxFailures
  /\ failures' = failures + 1 /\ sweep' = Swept
  /\ OnlyJanitor /\ UNCHANGED <<facts, links>>

Sweep == ReadLinks \/ DeleteDerived \/ DeleteLinks \/ DeleteExpired

SituationsNext == Arrive \/ Age \/ Derive \/ ProjectFails \/ Sweep \/ SweepFails
SituationsSpec == SituationsInit /\ [][SituationsNext]_svars

------------------------------------------------------------------------------

Digested == arrived = Len(story) /\ pending = {} /\ waiting = {} /\ project = Resting
Believed == facts # NoFact
Told == isIncident(message.text) /\ ~message.deleted
\* The last event of the message was decided with a projection.
LastProjected == arrived > 0 /\ ~Suppressed(arrived)

\* Recall gives the classifier a fact until it expires.  It is the text the message has
\* now, whatever failed and came back between, unless the last event was denied or a
\* deletion.
RecalledIsCurrent ==
  (Digested /\ ~expired /\ ~restricted /\ LastProjected) =>
     facts.text = IF Told /\ ~sessionChannel THEN message.text ELSE ""

\* A fact, its link, and a fact that has lost its link, come to be removed once the
\* message is too old to be context.
ExpiredIsRemoved == expired ~> (facts = NoFact /\ links = {})

\* architecture.md: "Deleted and edited messages follow source event ordering": a message
\* that is deleted is no longer recalled as a fact.
DeletedIsNotRecalled == (Digested /\ ~expired /\ message.deleted) => ~Believed
=============================================================================
