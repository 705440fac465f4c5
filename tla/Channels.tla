------------------------------- MODULE Channels -------------------------------
(***************************************************************************)
(* The policy of one conversation (core/orgconfig) and those who write it: *)
(*   live  the socket loop of core/slack/live.go, one request at a time:   *)
(*         the mode commands and the bot's own membership events;          *)
(*   sync  the inventory pass of the context sync, which registers what    *)
(*         Slack lists with Pipeline.RegisterContextChannel;               *)
(*   the management API, whose body replaces the whole record.             *)
(*                                                                         *)
(* Slack's own state is external: whether the bot is in the conversation   *)
(* and whether it is private.  Writers read the policy first and write     *)
(* later, so each may act on what another has replaced.  The effective     *)
(* policy is read in two steps, the switches of the organization and the   *)
(* workspace before the record of the channel (Mongo.Resolve).             *)
(***************************************************************************)
EXTENDS Integers, Sequences

CONSTANTS Scenes,        \* [im, auto, open, public]: what conversation, and how configured
          Bodies,        \* what an operator may put: [mode, kill, managed]
          MaxChanges,    \* bound: changes made by people, in Slack or with the API
          MaxFaults      \* bound: calls that fail

ASSUME BoundsAssumption == {MaxChanges, MaxFaults} \subseteq Nat
ASSUME SceneAssumption ==
  \A s \in Scenes : {s.im, s.auto, s.open, s.public} \subseteq BOOLEAN
ASSUME BodyAssumption ==
  \A b \in Bodies : /\ b.mode \in {"observe", "mention", "assist", "proactive"}
                    /\ {b.kill, b.managed} \subseteq BOOLEAN

VARIABLES scene,      \* im: a direct message; auto: AutoAssistJoinedChannels;
                      \* open: enrollment of all observable channels; public: at first
          slack,      \* what is true in Slack: [in, private]
          switches,   \* [kill, enabled] of the organization and the workspace
          channel,    \* the record of the channel, or NoChannel
          events,     \* the bot's membership events on their way, TRUE: joined
          actor,      \* "live" and "sync"
          asked,      \* history: the mode an operator was last told is set, or ""
          changes, faults

vars == <<scene, slack, switches, channel, events, actor, asked, changes, faults>>

NoChannel == [version |-> 0]
Exists == channel # NoChannel
Idle == [pc |-> "idle", sw |-> <<>>, seen |-> NoChannel, req |-> <<>>, about |-> <<>>]
Actors == {"live", "sync"}

Init == /\ scene \in Scenes
        /\ slack = [in |-> FALSE, private |-> ~scene.public]
        /\ switches = [kill |-> FALSE, enabled |-> TRUE]
        /\ channel = NoChannel
        /\ events = <<>>
        /\ actor = [a \in Actors |-> Idle]
        /\ asked = ""
        /\ changes = 0
        /\ faults = 0

Change == changes < MaxChanges /\ changes' = changes + 1

------------------------------------------------------------------------------
(* core/orgconfig/store.go.                                                 *)

\* ValidateChannel: the modes a record may have (limits and lists are left out).
ValidMode(mode) == mode \in {"observe", "mention", "assist", "proactive"}

\* Resolve: a record's own switch, or that of the organization or the workspace.
Resolved(sw, record) ==
  IF record = NoChannel THEN NoChannel
  ELSE [record EXCEPT !.kill = @ \/ sw.kill \/ ~sw.enabled]

\* PutChannel: the whole record is replaced by the given one.
PutChannel(value) ==
  channel' = IF ValidMode(value.mode) THEN [value EXCEPT !.version = channel.version + 1]
             ELSE channel

\* The first write of UpsertContextChannel: participation that membership managed goes
\* back to observe when it no longer does.
Unmanage(value) ==
  channel' = IF value.known /\ ~value.managed /\ Exists /\ channel.managed
             THEN [channel EXCEPT !.mode = "observe", !.managed = FALSE, !.version = @ + 1]
             ELSE channel

\* The second write: the fields Slack knows are set one by one, the operators' own only
\* when the record is new.
Refreshed(value) ==
  IF ~Exists THEN [value EXCEPT !.version = 1]
  ELSE [channel EXCEPT
          !.restricted = @ \/ value.restricted,
          !.member = IF value.known THEN value.member ELSE @,
          !.known = @ \/ value.known,
          !.mode = IF value.managed THEN value.mode ELSE @,
          !.managed = @ \/ value.managed,
          !.fresh = TRUE,
          !.version = @ + 1]
UpsertContextChannel(value) == channel' = Refreshed(value)

------------------------------------------------------------------------------
(* Pipeline.ensureContextChannel.  "about" is what the caller says of the   *)
(* conversation: a types.SlackContextChannel.                               *)

\* Mutant of contextChannelPolicyCurrent: a recent record is taken to be right.
contextChannelPolicyRecent(current, about) ==
  current.fresh /\ (about.restricted => current.restricted)
\* contextChannelPolicyCurrent: nothing to write for a record that says the same.
contextChannelPolicyCurrent(current, about) ==
  /\ current.fresh
  /\ about.restricted => current.restricted
  /\ current.known /\ current.member = about.member
  /\ current.managed =>
       scene.auto /\ current.mode = IF ~scene.im /\ about.member THEN "assist" ELSE "observe"

\* The record the caller would like to see.  One an operator manages keeps its mode.
Wanted(current, about) ==
  LET operators == current # NoChannel /\ ~current.managed
      managed == scene.auto /\ ~scene.im /\ ~operators IN
  [version |-> 1, enrolled |-> TRUE, restricted |-> about.restricted, kill |-> FALSE,
   member |-> about.member, known |-> TRUE, fresh |-> TRUE, managed |-> managed,
   mode |-> CASE scene.im -> "assist"
              [] ~scene.im /\ operators -> current.mode
              [] OTHER -> IF managed /\ about.member THEN "assist" ELSE "observe"]

\* A direct message's record: the one that was read, changed and written back whole.
WantedDirect(current, about) ==
  [current EXCEPT !.enrolled = TRUE, !.mode = "assist", !.managed = FALSE,
                  !.restricted = @ \/ about.restricted, !.member = about.member,
                  !.known = TRUE, !.fresh = TRUE]

Go(a, pc) == actor' = [actor EXCEPT ![a].pc = pc, ![a].sw = <<>>]
Done(a) == actor' = [actor EXCEPT ![a] = Idle]

\* Where an actor goes on once it has ensured the channel.
AfterEnsure(a) == Go(a, IF a = "sync" THEN "registered" ELSE "ack")

\* The first reads of Mongo.Resolve, for whichever step needs the effective policy.
ReadSwitches(a) ==
  /\ actor[a].pc \in {"preflight", "change", "membership", "ensure", "registered"}
  /\ actor[a].sw = <<>>
  /\ actor' = [actor EXCEPT ![a].sw = switches]
  /\ UNCHANGED <<scene, slack, switches, channel, events, asked, changes, faults>>

\* The record is read: up to date, unknown, or to be written.
EnsureContextChannel(a) ==
  /\ actor[a].pc = "ensure" /\ actor[a].sw # <<>>
  /\ LET current == Resolved(actor[a].sw, channel)
         about == actor[a].about IN
       IF current = NoChannel THEN Go(a, "enroll")
       ELSE IF /\ contextChannelPolicyCurrent(current, about)
               /\ scene.im => current.enrolled /\ current.mode = "assist"
         THEN AfterEnsure(a)
       ELSE actor' = [actor EXCEPT ![a].pc = IF scene.im THEN "direct" ELSE "unmanage",
                        ![a].sw = <<>>,
                        ![a].seen = IF scene.im THEN WantedDirect(current, about)
                                    ELSE Wanted(current, about)]
  /\ UNCHANGED <<scene, slack, switches, channel, events, asked, changes, faults>>

\* An unknown conversation gets a record where the organization enrolls it.
EnrollContextChannel(a) ==
  /\ actor[a].pc = "enroll"
  /\ IF switches.kill \/ ~switches.enabled \/ (~scene.im /\ ~scene.open)
       THEN AfterEnsure(a)
       ELSE actor' = [actor EXCEPT ![a].pc = "unmanage",
                                   ![a].seen = Wanted(NoChannel, actor[a].about)]
  /\ UNCHANGED <<scene, slack, switches, channel, events, asked, changes, faults>>

EnableDirectMessage(a) ==
  /\ actor[a].pc = "direct"
  /\ PutChannel(actor[a].seen)
  /\ AfterEnsure(a)
  /\ UNCHANGED <<scene, slack, switches, events, asked, changes, faults>>

UpsertFirst(a) ==
  /\ actor[a].pc = "unmanage"
  /\ Unmanage(actor[a].seen)
  /\ Go(a, "upsert")
  /\ UNCHANGED <<scene, slack, switches, events, asked, changes, faults>>

UpsertSecond(a) ==
  /\ actor[a].pc = "upsert"
  /\ UpsertContextChannel(actor[a].seen)
  /\ AfterEnsure(a)
  /\ UNCHANGED <<scene, slack, switches, events, asked, changes, faults>>

------------------------------------------------------------------------------
(* sync: an inventory pass of the context sync.                             *)

\* listChannels: the conversations of the user, and contextChannel.
ListChannels ==
  /\ actor["sync"].pc = "idle"
  /\ actor' = [actor EXCEPT !["sync"].pc = "members",
                            !["sync"].about = [restricted |-> slack.private, member |-> FALSE]]
  /\ UNCHANGED <<scene, slack, switches, channel, events, asked, changes, faults>>

\* listBotMembership: the conversations the bot is in.
ListBotMembership ==
  /\ actor["sync"].pc = "members"
  /\ actor' = [actor EXCEPT !["sync"].pc = "ensure", !["sync"].about.member = slack.in]
  /\ UNCHANGED <<scene, slack, switches, channel, events, asked, changes, faults>>

\* RegisterContextChannel resolves the policy again, for its caller, and returns.
RegisterContextChannel ==
  /\ actor["sync"].pc = "registered" /\ actor["sync"].sw # <<>>
  /\ Done("sync")
  /\ UNCHANGED <<scene, slack, switches, channel, events, asked, changes, faults>>

------------------------------------------------------------------------------
(* live: membership events.                                                 *)

\* NormalizeBotMembershipChange: the next event about the bot itself.
ReceiveMembership ==
  /\ actor["live"].pc = "idle" /\ events # <<>>
  /\ actor' = [actor EXCEPT !["live"].pc = "membership",
                            !["live"].req = [kind |-> "event", joined |-> Head(events)]]
  /\ UNCHANGED <<scene, slack, switches, channel, events, asked, changes, faults>>

\* UpdateBotMembership: an unknown conversation is left to the inventory.
UpdateBotMembership ==
  /\ actor["live"].pc = "membership" /\ actor["live"].sw # <<>>
  /\ IF Exists
       THEN actor' = [actor EXCEPT !["live"].pc = "ensure", !["live"].sw = <<>>,
                        !["live"].about = [restricted |-> channel.restricted,
                                           member |-> actor["live"].req.joined]]
       ELSE Go("live", "ack")
  /\ UNCHANGED <<scene, slack, switches, channel, events, asked, changes, faults>>

\* The event is acknowledged, or the answer to the command is.
Acknowledge ==
  /\ actor["live"].pc = "ack"
  /\ IF actor["live"].req.kind = "event"
       THEN events' = Tail(events) /\ UNCHANGED asked
       ELSE /\ UNCHANGED events
            /\ asked' = IF actor["live"].req.mode = "" THEN asked ELSE actor["live"].req.mode
  /\ Done("live")
  /\ UNCHANGED <<scene, slack, switches, channel, changes, faults>>

------------------------------------------------------------------------------
(* live: the mode commands.                                                 *)

\* NormalizeModeCommand: /tag-mode with a mode or without one, and the fixed commands.
Command(mode, fixed) ==
  /\ Change
  /\ actor["live"].pc = "idle"
  /\ actor' = [actor EXCEPT !["live"].pc = IF fixed THEN "preflight" ELSE "change",
                 !["live"].req = [kind |-> "command", mode |-> mode, fixed |-> fixed,
                                 joined |-> FALSE]]
  /\ UNCHANGED <<scene, slack, switches, channel, events, asked, faults>>

\* handleStatusCommand inspects like a /tag-mode without a mode.
StatusCommand == Command("", FALSE)

Active(policy) == policy.enrolled /\ ~policy.kill
Req == actor["live"].req

\* handleModeCommand inspects the policy before a fixed command changes it, and keeps it
\* for what it will do to the membership; nothing is activated where it may not be.
Preflight ==
  /\ actor["live"].pc = "preflight" /\ actor["live"].sw # <<>>
  /\ LET policy == Resolved(actor["live"].sw, channel) IN
       IF policy = NoChannel \/ (Req.mode # "observe" /\ ~Active(policy))
         THEN Done("live")
         ELSE actor' = [actor EXCEPT !["live"].pc = "change", !["live"].sw = <<>>,
                                     !["live"].about = policy]
  /\ UNCHANGED <<scene, slack, switches, channel, events, asked, changes, faults>>

\* Where the command goes on once the mode is what it asked for.
AfterChange == IF Req.fixed THEN "join" ELSE "ack"

\* The handler of core.go: the policy is resolved again; the mode it has already is left.
ChangeMode ==
  /\ actor["live"].pc = "change" /\ actor["live"].sw # <<>>
  /\ LET policy == Resolved(actor["live"].sw, channel) IN
       IF policy = NoChannel THEN Done("live")
       ELSE IF Req.mode \in {"", policy.mode} THEN Go("live", AfterChange)
       ELSE IF Req.mode # "observe" /\ ~Active(policy) THEN Done("live")
       ELSE actor' = [actor EXCEPT !["live"].pc = "put", !["live"].sw = <<>>,
                        !["live"].seen = [policy EXCEPT !.mode = Req.mode, !.managed = FALSE]]
  /\ UNCHANGED <<scene, slack, switches, channel, events, asked, changes, faults>>

\* The policy that was resolved is written back whole, and the receipt appended.
PutMode ==
  /\ actor["live"].pc = "put"
  /\ PutChannel(actor["live"].seen)
  /\ Go("live", AfterChange)
  /\ UNCHANGED <<scene, slack, switches, events, asked, changes, faults>>

\* Whether the bot is in the conversation, to the knowledge of the handler: as recorded,
\* or as Slack says when it is asked.
Inside == IF actor["live"].about.known THEN actor["live"].about.member ELSE slack.in
Private == IF actor["live"].about.known THEN actor["live"].about.restricted ELSE slack.private

\* ensureJoinedForMode and leaveAfterModeOff.  Slack lets nobody join a private channel,
\* and nobody leave a direct message; it tells the other side with an event.
JoinOrLeave ==
  /\ actor["live"].pc = "join"
  /\ LET join == Req.mode # "observe" IN
       IF \/ Inside = join
          \/ join /\ Private
          \/ ~join /\ ~actor["live"].about.known /\ scene.im
       THEN Go("live", "ack") /\ UNCHANGED <<slack, events, faults>>
       ELSE \/ /\ ~scene.im /\ (join => ~slack.private)
               /\ slack' = [slack EXCEPT !.in = join]
               /\ events' = IF slack.in = join THEN events ELSE Append(events, join)
               /\ actor' = [actor EXCEPT !["live"].pc = "membership", !["live"].sw = <<>>,
                              !["live"].req.joined = join]
               /\ UNCHANGED faults
            \/ /\ faults < MaxFaults \/ scene.im \/ slack.private
               /\ Go("live", "ack")
               /\ faults' = IF faults < MaxFaults THEN faults + 1 ELSE faults
               /\ UNCHANGED <<slack, events>>
  /\ UNCHANGED <<scene, switches, channel, asked, changes>>

------------------------------------------------------------------------------
(* Failed calls.  A pass of the inventory is given up.  An event is not     *)
(* acknowledged and comes again; a command is answered with an error,       *)
(* unless only its record of the membership fails, which is logged.         *)

Fault(a) ==
  /\ faults < MaxFaults
  /\ faults' = faults + 1
  /\ actor[a].pc \notin {"idle", "join", "ack"}
  /\ IF a = "live" /\ Req.kind = "command" /\ actor[a].pc \notin {"preflight", "change", "put"}
       THEN Go("live", "ack")
       ELSE Done(a)
  /\ UNCHANGED <<scene, slack, switches, channel, events, asked, changes>>

------------------------------------------------------------------------------
(* People: in Slack, and with the management API.                           *)

\* Someone adds the bot to the conversation or removes it.
MemberChange ==
  /\ Change /\ ~scene.im
  /\ slack' = [slack EXCEPT !.in = ~@]
  /\ events' = Append(events, ~slack.in)
  /\ UNCHANGED <<scene, switches, channel, actor, asked, faults>>

\* A public channel is made private.
MakePrivate ==
  /\ Change /\ ~slack.private
  /\ slack' = [slack EXCEPT !.private = TRUE]
  /\ UNCHANGED <<scene, switches, channel, events, actor, asked, faults>>

PutOrganization ==
  /\ Change
  /\ switches' = [switches EXCEPT !.kill = ~@]
  /\ UNCHANGED <<scene, slack, channel, events, actor, asked, faults>>

PutWorkspace ==
  /\ Change
  /\ switches' = [switches EXCEPT !.enabled = ~@]
  /\ UNCHANGED <<scene, slack, channel, events, actor, asked, faults>>

\* putChannel: the body of the request is the record.
ApiPutChannel(body) ==
  /\ Change
  /\ LET old == IF Exists THEN channel
                ELSE [version |-> 0, enrolled |-> TRUE, restricted |-> slack.private,
                      kill |-> FALSE, member |-> FALSE, known |-> FALSE, fresh |-> TRUE,
                      managed |-> FALSE, mode |-> "observe"] IN
       PutChannel([old EXCEPT !.mode = body.mode, !.kill = body.kill, !.managed = body.managed])
  /\ asked' = IF body.managed THEN "" ELSE body.mode
  /\ UNCHANGED <<scene, slack, switches, events, actor, faults>>

\* Six hours pass: the record is to be refreshed.
GrowOld ==
  /\ Change /\ Exists /\ channel.fresh
  /\ channel' = [channel EXCEPT !.fresh = FALSE]
  /\ UNCHANGED <<scene, slack, switches, events, actor, asked, faults>>

Step(a) == \/ ReadSwitches(a) \/ EnsureContextChannel(a) \/ EnrollContextChannel(a)
           \/ EnableDirectMessage(a) \/ UpsertFirst(a) \/ UpsertSecond(a)
Sync == Step("sync") \/ ListChannels \/ ListBotMembership \/ RegisterContextChannel
Live == \/ Step("live") \/ ReceiveMembership \/ UpdateBotMembership \/ Acknowledge
        \/ Preflight \/ ChangeMode \/ PutMode \/ JoinOrLeave
People == \/ \E mode \in {"observe", "assist", "proactive"}, fixed \in BOOLEAN :
               Command(mode, fixed)
          \/ StatusCommand
          \/ MemberChange \/ MakePrivate \/ PutOrganization \/ PutWorkspace
          \/ \E body \in Bodies : ApiPutChannel(body)
          \/ GrowOld

Next == Sync \/ Live \/ People \/ \E a \in Actors : Fault(a)

\* The passes of the inventory go on (core.go runs them on a ticker), and the socket
\* loop finishes what it has begun.
Spec == Init /\ [][Next]_vars /\ WF_vars(Sync) /\ WF_vars(Live)

------------------------------------------------------------------------------
(* Properties.                                                              *)

Modes == {"observe", "mention", "assist", "proactive"}
TypeOK == /\ channel = NoChannel \/ (channel.mode \in Modes /\ channel.version > 0)
          /\ asked \in Modes \cup {""}
          /\ actor["sync"].pc # "preflight"

\* The record says what is true in Slack, and membership has the say where it manages.
Settled == Exists =>
  /\ channel.known /\ channel.member = slack.in
  /\ slack.private => channel.restricted
  /\ channel.managed => channel.mode = IF slack.in THEN "assist" ELSE "observe"

\* However commands, events, inventory passes and the operators' writes overtook each
\* other, once people leave the channel alone its record comes to agree with Slack.
Reconciled == <>[]Settled

\* What an operator was told is the mode of the channel stays its mode until an operator
\* asks for another (a direct message is always assist): "must not replace that explicit observe/assist/proactive choice".
OperatorChoiceKept ==
  asked # "" /\ Exists /\ ~scene.im /\ actor["live"].pc = "idle" => channel.mode = asked
=============================================================================
