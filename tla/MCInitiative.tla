----------------------------- MODULE MCInitiative ------------------------------
(* What makes Tag act.  Part "turns": a message judged, over texts, packs, profiles and   *)
(* answers of a provider.  Part "automations": a heartbeat, there from the start or made  *)
(* later, that two processes poll.  What is due becomes a job without being judged, so    *)
(* the two are explored one beside the other: part says which.                            *)
EXTENDS Automations, Judgement

VARIABLE part

MCKindOf == [x \in Tasks \cup Loops |-> "heartbeat"]
Says(cron, every, text, enabled) ==
  [cron |-> cron, every |-> every, text |-> text, enabled |-> enabled]
MCContents == {Says(TRUE, 2, "a", TRUE), Says(FALSE, 1, "a", TRUE), Says(TRUE, 2, "b", FALSE)}

\* A text for each rule, and texts that meet two of them.
MCTexts ==
  {<<"chat">>, <<"chat", "?">>, <<"outage", "api">>, <<"outage", "api", "url?">>, <<"url?", "is", "api">>,
   <<"healthy", "api">>,
   <<"thanks", "tag">>, <<"morning", "everyone">>, <<"<@U>", "thanks">>, <<"<@U>", "tag,", "tell me">>,
   <<"<@U>", "review", "code">>, <<"tag", "is it down", "?">>, <<"is it down", "api", "?">>,
   <<"weather", "?">>, <<"are we", "using it", "?">>, <<"how are you", "?">>,
   <<"what", "premium trial", "?">>, <<"compare", "premium trial", "reply in the channel">>,
   <<"what", "openai", "pricing", "?">>, <<"please", "edit the code">>,
   <<"deploy the", "api", "healthy">>, <<"any incidents", "?", "deploy the">>,
   <<"update", "wiki page">>, <<"update", "wiki page", "then commit">>,
   <<"implementation plan", "edit the code">>, <<"review", "code", "security">>,
   <<"investigate", "root cause", "reply in a thread">>, <<"any incidents", "?">>,
   <<"share", "private channel">>, <<"anyone know", "?">>, <<"steady, no errors", "api">>}

Turn(mode, kind, trigger, flags, text) ==
  [mode |-> mode, mention |-> kind \in {"mention", "thread mention"}, dm |-> kind \in {"dm", "dm thread"},
   thread |-> kind \in {"thread", "thread mention", "dm thread"}, trigger |-> trigger, flags |-> flags,
   user |-> "ann", text |-> text]
MCTargets ==
  {Turn(mode, "ambient", FALSE, {}, text) : mode \in {"mention", "assist", "proactive"}, text \in MCTexts}
  \cup {Turn("assist", kind, FALSE, {}, text) :
          kind \in {"mention", "dm", "thread", "thread mention", "dm thread"}, text \in MCTexts}
  \cup {Turn("observe", kind, FALSE, {}, text) : kind \in {"ambient", "mention"}, text \in {<<"chat", "?">>}}
  \cup {Turn("assist", "ambient", trigger, {flag}, <<"outage", "api">>) :
          trigger \in BOOLEAN, flag \in {"integration", "killed"}}

Source(id, class, provenance, author, channel, partition, text) ==
  [id |-> id, class |-> class, provenance |-> provenance, author |-> author, channel |-> channel,
   partition |-> partition, text |-> text, fresh |-> TRUE, recent |-> TRUE]
\* Nothing; a talk with Tag; Tag asking back in its thread; reports from elsewhere; an
\* incident of a restricted channel.
MCPacks ==
  {<<>>,
   <<Source("m1", "safe", "human", "ann", "here", "channel", <<"chat">>),
     Source("m2", "safe", "agent", "", "here", "channel", <<"chat">>)>>,
   <<Source("m1", "safe", "human", "bob", "here", "thread", <<"chat">>),
     Source("m2", "safe", "agent", "", "here", "thread", <<"do you mean", "?">>)>>,
   <<Source("s1", "safe", "human", "bob", "there", "evidence", <<"outage", "api">>),
     Source("s2", "safe", "human", "cat", "far", "evidence", <<"failing", "login">>)>>,
   <<Source("r1", "restricted", "human", "bob", "there", "situation", <<"outage", "api">>)>>}

Profile(id, strength, effort) == [id |-> id, strength |-> strength, effort |-> effort, enabled |-> TRUE]
MCSnapshots ==
  {[profiles |-> <<Profile("small", "light", "low"), Profile("mid", "standard", "medium"),
                   Profile("big", "strong", "medium")>>, default |-> "big"],
   [profiles |-> <<[Profile("small", "light", "low") EXCEPT !.enabled = FALSE],
                   Profile("old", "strong", "high"), Profile("big", "strong", "medium")>>,
    default |-> "big"]}

\* Answers that differ in what the corrections and the checks look at.
Answer(outcome, sure, reply, full, write, product, cites) ==
  [Decision(outcome) EXCEPT !.sure = sure, !.reasons = {"model", "contradiction"}, !.reply = reply,
     !.full = full, !.write = write, !.product = product, !.topic = product,
     !.evidence = IF cites = "safe" THEN {"s1"} ELSE IF cites = "invented" THEN {"x"} ELSE {},
     !.signals = IF cites = "restricted" THEN {"r1"} ELSE {},
     !.reaction = IF outcome = "react" THEN "warning" ELSE "eyes",
     !.profile = IF full THEN "big" ELSE "", !.strength = IF full THEN "strong" ELSE "none",
     !.effort = IF full THEN "medium" ELSE ""]
MCAnswers ==
  {Answer(o, s, "", f, w, FALSE, "nothing") : o \in Outcomes, s \in 0..3, f \in BOOLEAN, w \in BOOLEAN}
  \cup {Answer(o, 2, "", TRUE, FALSE, p, c) :
          o \in Outcomes, p \in BOOLEAN, c \in {"nothing", "safe", "invented", "restricted"}}
  \cup {Answer(o, s, r, f, FALSE, FALSE, "nothing") :
          o \in Replies \cup {"react"}, s \in 1..2, r \in {"social", "formatted"}, f \in BOOLEAN}
  \cup {[Answer("reply_in_thread", 2, "", TRUE, FALSE, FALSE, "nothing") EXCEPT !.reaction = r] :
          r \in {"", "tada"}}

MCInit == /\ AutomationsInit /\ JudgementInit
          /\ part \in {"turns", "automations"}
          /\ part = "turns" => used = {} /\ tasks = [t \in Tasks |-> NoTask]
          /\ part = "automations" => /\ target = CHOOSE x \in Targets : TRUE
                                     /\ snapshot = CHOOSE x \in Snapshots : TRUE
                                     /\ pack = <<>> /\ ~shadow
MCNext == /\ UNCHANGED part
          /\ \/ part = "turns" /\ JudgementNext /\ UNCHANGED avars
             \/ part = "automations" /\ AutomationsNext /\ UNCHANGED jvars
MCFairness == \A l \in Loops :
  WF_avars(part = "automations" /\ LoopStep(l) /\ UNCHANGED <<jvars, part>>)
MCSpec == MCInit /\ [][MCNext]_<<avars, jvars, part>> /\ MCFairness
=============================================================================
