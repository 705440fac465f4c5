------------------------------- MODULE Ingress --------------------------------
(***************************************************************************)
(* From Slack to the observation store and the audit trail: the Socket     *)
(* Mode loop (core/slack, LiveIngress.run), HandleEnvelope and             *)
(* ImportContextEnvelope (core/pipeline), over Observations and            *)
(* AuditChain.                                                             *)
(*                                                                         *)
(* People post, edit and delete messages.  Slack delivers an event for     *)
(* each, in any order, and again until it is acknowledged; the context     *)
(* sync reads the messages that exist.  Live event times are whole         *)
(* seconds, history has the exact time of a message.                       *)
(*                                                                         *)
(* Who may register a channel and what the watermarks mean are in modules  *)
(* Channels and ContextSync; here a channel is enrolled or not, and the    *)
(* watermark is the latest event time the live loop has stored.            *)
(***************************************************************************)
EXTENDS Observations, AuditChain

CONSTANTS Scripts,    \* what may happen in Slack: lists of events, in their order
          Live,       \* the handlers that are Socket Mode loops; the rest sync
          MaxImports, \* bound: how many messages the sync imports
          Redeliveries, \* bound: how many events Slack delivers again
          MaxFaults,  \* bound: how many calls fail and processes end
          Second      \* ticks in a second

ASSUME LiveAssumption == Live \subseteq Handlers /\ Handlers \subseteq Appenders
\* What NormalizeEventsAPI makes the event id of: two events that share one are about
\* the same message and of one kind, a message and the mention in it.
ASSUME ScriptsAssumption ==
  \A s \in Scripts :
    /\ DOMAIN s = 1 .. Len(s) /\ Len(s) \in Nat
    /\ \A i \in DOMAIN s :
         /\ s[i].id \in EventIds /\ s[i].message \in Messages /\ s[i].at \in Nat
         /\ s[i].kind \in {"message", "edit", "delete"}
         /\ \A j \in DOMAIN s : s[i].id = s[j].id =>
              s[i].message = s[j].message /\ s[i].kind = s[j].kind /\ s[i].class = s[j].class
\* An event's receipt has its observation's idempotency key; an administrator's
\* request is a call of its own.
ASSUME ReceiptsAssumption ==
  /\ EventIds \cup (Appenders \ Handlers) \subseteq Calls
  /\ \A i \in EventIds : KeyOf[i] # NoKey /\ i \notin Appenders
ASSUME FaultAssumption == MaxFaults \in Nat /\ Redeliveries \in Nat /\ Second \in Nat \ {0}

VARIABLES script,     \* what happens
          happened,   \* how much of it has
          delivered,  \* the events Slack has delivered
          again,      \* how many it has delivered again
          acked,      \* the events Slack has an acknowledgement for
          watermark,
          imports,
          faults

ingressVars == <<script, happened, delivered, again, acked, watermark, imports, faults>>
vars == <<storeVars, auditVars, ingressVars>>

Events == DOMAIN script
Seconds(t) == t - (t % Second)

Init == /\ StoreInit
        /\ AuditInit
        /\ script \in Scripts
        /\ happened = 0
        /\ delivered = {}
        /\ again = 0
        /\ acked = {}
        /\ watermark = 0
        /\ imports = 0
        /\ faults = 0

HandOver == UNCHANGED <<observations, messages>>
Slack == <<script, happened, delivered, again, acked>>

SlackEvent == /\ happened < Len(script)
              /\ happened' = happened + 1
              /\ UNCHANGED <<storeVars, auditVars, script, delivered, again, acked, watermark, imports, faults>>

\* NormalizeEventsAPI: an edit and a deletion have the message they are about as
\* their target and an event id of their own, and a message, mentioned or not,
\* the id its history has too.  The time is Slack's, in seconds.
NormalizeEventsAPI(i) ==
  LET s == script[i] IN
  [id |-> s.id, message |-> s.message, kind |-> s.kind, at |-> Seconds(s.at),
   text |-> s.text, class |-> s.class, live |-> TRUE]

\* HandleEnvelope, up to its first write.  Group direct messages and channels
\* that are not enrolled are acknowledged and left alone; what Tag, another
\* integration or Slack itself wrote is resolved context; the rest is queued.
Ignored(e) == e.class \in {"group", "excluded"}
ContextOnly(e) == e.class \in {"self", "integration", "membership"}
Deliver(h, i) ==
  /\ h \in Live /\ call[h].pc = "idle"
  /\ i <= happened /\ i \notin acked
  /\ i \in delivered => again < Redeliveries
  /\ again' = IF i \in delivered THEN again + 1 ELSE again
  /\ delivered' = delivered \cup {i}
  /\ LET e == NormalizeEventsAPI(i) IN
       IF Ignored(e)
         THEN call' = [call EXCEPT ![h] = [IdleCall EXCEPT !.pc = "ack", !.env = e]]
         ELSE StoreCall(h, e, IF ContextOnly(e) THEN "resolved" ELSE "pending")
  /\ HandOver
  /\ UNCHANGED <<auditVars, script, happened, acked, watermark, imports, faults>>

\* ImportContextEnvelope for a message that the history of its channel shows:
\* posted, not deleted, with the text it has now.
Latest(i, n) == \A j \in 1 .. n : script[j].message = script[i].message => j <= i
Shown(i) == /\ i <= happened
            /\ script[i].kind = "message"
            /\ script[i].class \notin {"group", "excluded"}
            /\ \A j \in 1 .. happened :
                 script[j].message = script[i].message => script[j].kind # "delete"
historyEnvelope(i, now) ==
  LET s == script[i] IN
  [id |-> s.id, message |-> s.message, kind |-> "message", at |-> s.at,
   text |-> script[now].text, class |-> s.class, live |-> FALSE]
ImportContextEnvelope(h, i) ==
  /\ h \in Handlers \ Live /\ call[h].pc = "idle"
  /\ Shown(i) /\ imports < MaxImports
  /\ imports' = imports + 1
  /\ \E now \in 1 .. happened :
       /\ script[now].message = script[i].message /\ Latest(now, happened)
       /\ StoreCall(h, historyEnvelope(i, now), "resolved")
  /\ HandOver
  /\ UNCHANGED <<auditVars, Slack, watermark, faults>>

\* The importer is done with the message; the live loop moves the watermark on.
Import(h) ==
  /\ call[h].pc = "stored" /\ ~ call[h].env.live
  /\ call' = [call EXCEPT ![h] = IdleCall]
  /\ HandOver
  /\ UNCHANGED <<auditVars, ingressVars>>
advanceContextSyncWatermark(h) ==
  /\ call[h].pc = "stored" /\ call[h].env.live
  /\ watermark' = IF call[h].env.at > watermark THEN call[h].env.at ELSE watermark
  /\ CallGoTo(h, IF ContextOnly(call[h].env) THEN "ack" ELSE "receipt")
  /\ HandOver
  /\ UNCHANGED <<auditVars, Slack, imports, faults>>

\* appendReceipt: an error of the audit trail is logged, the envelope acknowledged.
appendReceipt(h) ==
  /\ call[h].pc = "receipt"
  /\ \/ /\ app[h].pc = "idle" /\ app[h].result = "none"
        /\ app' = [app EXCEPT ![h] = [IdleAppender EXCEPT !.pc = "find",
                                                          !.call = call[h].env.id]]
        /\ UNCHANGED call
     \/ /\ app[h].pc = "idle" /\ app[h].result # "none"
        /\ app' = [app EXCEPT ![h] = IdleAppender]
        /\ CallGoTo(h, "ack")
  /\ HandOver
  /\ UNCHANGED <<receipts, head, ingressVars>>

\* Only now is the envelope acknowledged: an error before leaves it to Slack.
Acknowledge(h) ==
  /\ call[h].pc = "ack"
  /\ acked' = acked \cup {i \in Events : script[i].id = call[h].env.id}
  /\ call' = [call EXCEPT ![h] = IdleCall]
  /\ HandOver
  /\ UNCHANGED <<auditVars, script, happened, delivered, again, watermark, imports, faults>>

\* An administrator's request leaves a receipt that has no idempotency key.
AdminReceipt(a) ==
  /\ a \in Appenders \ Handlers
  /\ app[a].pc = "idle" /\ app[a].result = "none"
  /\ app' = [app EXCEPT ![a] = [IdleAppender EXCEPT !.pc = "find", !.call = a]]
  /\ UNCHANGED <<storeVars, receipts, head, ingressVars>>

Faulty == faults < MaxFaults /\ faults' = faults + 1
HandlerFails(h) ==
  /\ Faulty
  /\ StoreFails(h)
  /\ app' = [app EXCEPT ![h] = IdleAppender]
  /\ UNCHANGED <<receipts, head, Slack, watermark, imports>>
AppenderFails(a) ==
  /\ Faulty
  /\ AppendFails(a) \/ SwapAnswerLost(a)
  /\ UNCHANGED <<storeVars, Slack, watermark, imports>>

Next == \/ SlackEvent
        \/ \E h \in Handlers :
             \/ \E i \in Events : Deliver(h, i) \/ ImportContextEnvelope(h, i)
             \/ StoreStep(h) /\ UNCHANGED <<auditVars, ingressVars>>
             \/ Import(h) \/ advanceContextSyncWatermark(h) \/ appendReceipt(h)
             \/ Acknowledge(h) \/ HandlerFails(h)
        \/ \E a \in Appenders :
             \/ AppendStep(a) /\ UNCHANGED <<storeVars, ingressVars>>
             \/ AdminReceipt(a) \/ AppenderFails(a)

Spec == Init /\ [][Next]_vars

------------------------------------------------------------------------------
Visible(i) == script[i].class \notin {"group", "excluded"}
Rank(i) == projectionEventRank(script[i].kind)

\* An acknowledged event is in the store, and the current text of its message is
\* as new as the event or newer, however late, often and crossed the events came
\* and wherever a handler stopped; a group direct message and a channel that is
\* not enrolled leave nothing behind.
AckedIsProjected ==
  \A i \in Events :
    /\ i \in acked /\ Visible(i) =>
         LET m == messages[script[i].message] IN
         /\ Stored(script[i].id)
         /\ \/ m.at > observations[script[i].id].at
            \/ m.at = observations[script[i].id].at /\ m.rank >= Rank(i)
    /\ ~ Visible(i) => ~ Stored(script[i].id)

\* The events of a message can be told apart by the times the store keeps: an edit or a
\* deletion is of a later second than the exact time of what it follows, or of the same
\* second and of a higher rank than an earlier edit.  A message and the mention in it are
\* the same.
Apart(s) ==
  \A i, j \in DOMAIN s : (i < j /\ s[i].message = s[j].message) =>
    \/ s[i].id = s[j].id /\ s[i].at = s[j].at /\ s[i].text = s[j].text
    \/ /\ s[i].id # s[j].id /\ s[j].kind # "message"
       /\ \/ s[i].at < Seconds(s[j].at)
          \/ /\ s[i].kind # "message" /\ Seconds(s[i].at) = Seconds(s[j].at)
             /\ projectionEventRank(s[i].kind) < projectionEventRank(s[j].kind)

\* When Slack has an acknowledgement for everything that happened and no handler
\* is at work, every message reads as the last of its events left it in Slack, and
\* one that was deleted there has no text here; where the events can be told apart.
Settled == acked = 1 .. Len(script) /\ \A h \in Handlers : call[h].pc = "idle"
ReadsAsInSlack ==
  Settled /\ Apart(script) =>
    \A i \in Events : (Visible(i) /\ Latest(i, Len(script))) =>
      LET m == messages[script[i].message]
          gone == script[i].kind = "delete"
      IN m.deleted = gone /\ m.text = IF gone THEN "" ELSE script[i].text

\* Every receipt on record was appended to the list under a lock that core/audit
\* promises, by a step of its own; no receipt changes and none is lost.
ImplementsLog == Log!Spec
=============================================================================
