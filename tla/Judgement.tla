------------------------------- MODULE Judgement -------------------------------
(***************************************************************************)
(* Whether and how Tag takes part in a turn (core/classifier/service.go):  *)
(* the classifier is asked where no rule forbids it, what it decides is    *)
(* checked and placed, a turn that is for Tag has an answer of its own     *)
(* where the classifier has none, and an ambient one keeps to the mode of  *)
(* the channel.                                                            *)
(***************************************************************************)
EXTENDS Corrections

CONSTANTS Targets,     \* the turns
          Packs,       \* their context: sequences of sources
          Snapshots,   \* the model profiles
          Answers      \* what the model may answer

Modes == {"observe", "mention", "assist", "proactive"}

\* A turn has a mode and a text, and an answer of the model is a decision.
ASSUME TurnsAssumption ==
  /\ \A t \in Targets : /\ t.mode \in Modes /\ t.text \in Seq(STRING)
                        /\ {t.mention, t.dm, t.thread, t.trigger} \subseteq BOOLEAN
  /\ \A a \in Answers : DOMAIN a = DOMAIN Zero

VARIABLES target,      \* [mode, mention, dm, thread, trigger, flags, user, text]
          pack,
          snapshot,
          shadow,      \* the service only measures ambient decisions
          answered,    \* what the classifier returned: [ok, decision]
          consistent,  \* history: the model's answer was one the instructions ask for
          result,      \* [predicted, effective]
          stage

jvars == <<target, pack, snapshot, shadow, answered, consistent, result, stage>>

Failed == [ok |-> FALSE, decision |-> Zero]
NoResult == [predicted |-> Zero, effective |-> Zero]

JudgementInit ==
  /\ target \in Targets /\ pack \in Packs /\ snapshot \in Snapshots /\ shadow \in BOOLEAN
  /\ answered = Failed /\ consistent = FALSE /\ result = NoResult /\ stage = "new"

------------------------------------------------------------------------------
(* Rules no decision overrides.                                             *)

silent == [Decision("silent") EXCEPT !.sure = 2, !.reasons = {"policy"}]

\* A turn in Tag's thread that begins with a person's name is theirs.
thirdPartyAddressedTurn(t) ==
  /\ t.thread /\ ~t.mention /\ ~t.dm /\ ~explicitlyAddressesTag(t.text) /\ Starts(t.text, {"<@U>"})

\* Killed, self, loop, deleted, link only, membership, or of an integration without a trigger.
hardSuppression(t) ==
  \/ t.flags \ {"integration"} # {}
  \/ "integration" \in t.flags /\ ~t.trigger
  \/ thirdPartyAddressedTurn(t)

RequiresProviderCall(t) == ~hardSuppression(t) /\ (t.mode # "observe" \/ shadow)

------------------------------------------------------------------------------
(* What is checked of a decision.                                           *)

Class(p, id) == IF \E i \in DOMAIN p : p[i].id = id
                THEN (CHOOSE s \in Range(p) : s.id = id).class ELSE ""
\* Sources the pack does not give for the purpose are taken out.
sanitizeEvidenceReferences(d, p) ==
  LET evidence == {id \in d.evidence : Class(p, id) = "safe"}
      signals == {id \in d.signals : Class(p, id) = "restricted"}
  IN  [d EXCEPT !.evidence = evidence, !.signals = signals,
         !.reasons = IF evidence = d.evidence /\ signals = d.signals THEN @ ELSE @ \cup {"policy"}]

enforceDirectReplyPlacement(d, t) ==
  IF d.reply = "" THEN d
  ELSE LET want == IF t.thread THEN "reply_in_thread" ELSE "reply_in_channel"
       IN  [d EXCEPT !.outcome = want, !.reasons = IF d.outcome = want THEN @ ELSE @ \cup {"policy"}]

substantialAgentRecommendation(d) == d.full /\ (d.strength = "strong" \/ d.effort = "high")
enforceDirectMentionPlacement(d, text) ==
  LET to(place) == [d EXCEPT !.outcome = place,
                             !.reasons = IF d.outcome = place THEN @ ELSE @ \cup {"policy"}]
      asked == requestedReplyPlacement(text)
  IN  CASE d.write -> d
        [] ~d.write /\ asked # "any" ->
             to(IF asked = "thread" THEN "reply_in_thread" ELSE "reply_in_channel")
        [] OTHER ->
             IF substantialAgentRecommendation(d) /\ d.outcome \in Replies THEN to("reply_in_thread")
             ELSE IF d.product THEN d
             ELSE IF d.outcome = "reply_in_thread" /\ briefSelfContainedMention(text)
                  THEN to("reply_in_channel")
             ELSE IF d.outcome = "reply_in_channel" /\ requiresThreadSurface(text)
                  THEN to("reply_in_thread")
             ELSE d

\* One line of plain text.
validateDirectReplyText(reply) == reply # "formatted"
Outcomes == Replies \cup {"silent", "react", "start_background_job", "escalate_for_approval"}
validateDecision(d, p) ==
  /\ d.sure <= 2 /\ d.outcome \in Outcomes /\ d.reasons # {}
  /\ d.outcome # "silent" => d.reaction # ""
  /\ IF d.reply # ""
     THEN /\ d.outcome \in Replies /\ ~d.full /\ d.profile = "" /\ d.strength \in {"", "none"}
          /\ d.effort = "" /\ validateDirectReplyText(d.reply)
     ELSE outcomeNeedsAgent(d.outcome) => d.full
  /\ \A id \in d.evidence : Class(p, id) = "safe"
  /\ \A id \in d.signals : Class(p, id) = "restricted"

\* Only social turns, and two questions Tag may ask, are answered without an agent.
validateDirectReplyForTarget(d, t, p) ==
  LET clarifies == /\ likelyConversationallyAddressedToAgent(t, p) /\ d.reply = "weather"
                   /\ isMissingLocationWeatherQuestion(t.text)
      social == isDirectSocialCandidate(t.text) \/ (t.dm /\ isDirectMessageSocialCandidate(t.text))
  IN  /\ clarifies \/ (t.dm /\ d.reply = "help") \/ social
      /\ ~d.full /\ d.evidence = {} /\ d.signals = {} /\ d.disclosure = "safe"
      /\ d.outcome = IF t.thread THEN "reply_in_thread" ELSE "reply_in_channel"
      /\ validateDirectReplyText(d.reply)

\* Mutant of isSourceWriteSilentDecision: any silence will do.
isSilentDecision(d) == d.outcome = "silent"
isSourceWriteSilentDecision(d) == d.outcome = "silent" /\ d.write /\ "write_silent" \in d.reasons

------------------------------------------------------------------------------
(* The answers of a turn that is for Tag.                                   *)

Working(outcome) == [Decision(outcome) EXCEPT !.sure = 2, !.reasons = {"policy"}, !.full = TRUE,
                                              !.reaction = "eyes"]
Saying(outcome, reply) == [Decision(outcome) EXCEPT !.sure = 2, !.reasons = {"policy"},
                             !.reply = reply, !.reaction = "speech_balloon", !.strength = "none"]

directMentionFallback(text) ==
  LET asked == requestedReplyPlacement(text) IN
  Working(IF asked = "channel" \/ (asked = "any" /\ briefSelfContainedMention(text))
          THEN "reply_in_channel" ELSE "reply_in_thread")
directMessageAgentFallback(text) == directMentionFallback(text)
directMessageReplyFallback == Saying("reply_in_channel", "help")
directMessageSourceWriteFallback(thread) ==
  Saying(IF thread THEN "reply_in_thread" ELSE "reply_in_channel", "decline")

PredictThread(t, p, a) ==
  LET d == enforceDirectReplyPlacement(sanitizeEvidenceReferences(a.decision, p), t)
      valid == a.ok /\ validateDecision(d, p)
      usable == /\ d.outcome \notin {"silent", "react"}
                /\ d.reply # "" => d.sure >= 1 /\ validateDirectReplyForTarget(d, t, p)
  IN  CASE valid /\ isSourceWriteSilentDecision(d) ->
             IF t.dm THEN directMessageSourceWriteFallback(TRUE) ELSE d
        [] valid /\ ~isSourceWriteSilentDecision(d) /\ usable ->
             IF d.outcome = "reply_in_channel"
             THEN [d EXCEPT !.outcome = "reply_in_thread", !.reasons = @ \cup {"policy"}] ELSE d
        [] OTHER -> IF isDirectSocialCandidate(t.text) THEN directSocialFallback(TRUE)
                    ELSE Working("reply_in_thread")

PredictDirect(t, p, a) ==
  LET placed == enforceDirectReplyPlacement(sanitizeEvidenceReferences(a.decision, p), t)
      d == IF t.mention THEN enforceDirectMentionPlacement(placed, t.text) ELSE placed
      valid == a.ok /\ validateDecision(d, p)
      usable == /\ d.outcome \notin {"silent", "react"}
                /\ d.reply # "" => d.sure >= 2 /\ validateDirectReplyForTarget(d, t, p)
      social == isDirectSocialCandidate(t.text) \/ (t.dm /\ isDirectMessageSocialCandidate(t.text))
  IN  CASE valid /\ isSourceWriteSilentDecision(d) ->
             IF t.dm THEN directMessageSourceWriteFallback(FALSE) ELSE d
        [] valid /\ ~isSourceWriteSilentDecision(d) /\ usable -> d
        [] OTHER ->
             IF social THEN directSocialFallback(FALSE)
             ELSE IF t.dm /\ ~looksLikeQuestion(t.text) /\ ~looksLikeExplicitRequest(t.text)
                  THEN directMessageReplyFallback
             ELSE IF t.dm THEN directMessageAgentFallback(t.text) ELSE directMentionFallback(t.text)

------------------------------------------------------------------------------
(* What nobody asked Tag.                                                   *)

PredictAmbient(t, p, a) ==
  LET d == enforceDirectReplyPlacement(sanitizeEvidenceReferences(a.decision, p), t)
      placed == IF d.outcome = "reply_in_channel" /\ d.sure < 2
                THEN [d EXCEPT !.outcome = "reply_in_thread", !.reasons = @ \cup {"policy"}] ELSE d
  IN  IF \/ ~a.ok \/ ~validateDecision(d, p)
         \/ d.reply # "" /\ ~validateDirectReplyForTarget(d, t, p)
         \/ d.outcome # "silent" /\ d.sure < 1
         \/ d.outcome = "reply_in_channel" /\ d.reply # "" /\ d.sure < 2
         \/ /\ placed.reply = "" /\ outcomeNeedsEvidence(placed.outcome)
            /\ placed.evidence = {} /\ placed.signals # {}
      THEN silent ELSE placed

predict(t, p, a) ==
  CASE t.thread -> PredictThread(t, p, a)
    [] ~t.thread /\ (t.mention \/ t.dm) -> PredictDirect(t, p, a)
    [] OTHER -> IF t.mode = "mention" THEN silent ELSE PredictAmbient(t, p, a)

\* In an assist channel a question, a request made to Tag, a conflict, or a trigger.
assistInitiativeAuthorized(t, p, d) ==
  LET asks == looksLikeQuestion(t.text) \/ looksLikeExplicitRequest(t.text) IN
  /\ ~thirdPartyAddressedTurn(t)
  /\ \/ ~Ambient(t) \/ t.trigger \/ explicitlyAddressesTag(t.text)
     \/ looksLikeQuestion(t.text)
     \/ likelyConversationallyAddressedToAgent(t, p) /\ asks
     \/ d.product /\ asks
     \/ asksOperationalStatus(t.text) /\ d.evidence # {}
     \/ alignmentConflict(t, p)

Suppress(r) == [r EXCEPT !.effective = silent]
EnforceParticipation(r, t, p) ==
  IF /\ t.mode = "assist" /\ outcomeNeedsAgent(r.effective.outcome)
     /\ ~assistInitiativeAuthorized(t, p, r.effective)
  THEN Suppress(r) ELSE r

Decide(t, p, a) ==
  LET both(d) == [predicted |-> d, effective |-> d] IN
  CASE hardSuppression(t) -> both(silent)
    [] ~hardSuppression(t) /\ t.mode = "observe" ->
         IF shadow THEN [predicted |-> predict([t EXCEPT !.mode = "assist"], p, a), effective |-> silent]
         ELSE both(silent)
    [] OTHER ->
         LET d == predict(t, p, a) IN
         IF ~Ambient(t) \/ d.outcome = "silent" THEN both(d)
         ELSE IF shadow THEN [predicted |-> d, effective |-> silent]
         ELSE EnforceParticipation(both(d), t, p)

------------------------------------------------------------------------------
(* DeterministicClassifier, where no model is configured.                   *)

Offline(t, p) ==
  LET base == [Decision("silent") EXCEPT !.reasons = {"policy"}, !.disclosure = ""]
      weather == withConversationalAddressPolicyCorrections(base, t, p)
      reference == withConversationalReferencePolicyCorrections(base, t, p, {})
      followup == withClarificationFollowupPolicyCorrections(base, t, p, {})
      incidents == {i \in DOMAIN p : p[i].partition \in {"evidence", "situation"} /\ containsIncident(p[i].text)}
      first == p[CHOOSE i \in incidents : \A k \in incidents : i <= k]
      open == t.mode \in {"assist", "proactive"}
  IN  IF weather.outcome # "silent" THEN weather
      ELSE IF reference.outcome # "silent" THEN reference
      ELSE IF followup.outcome # "silent" THEN followup
      ELSE IF isObviousWikiPageCRUDRequest(t.text)
           THEN [Working("reply_in_thread") EXCEPT !.strength = "standard", !.effort = "medium"]
      ELSE IF isObviousSourceWriteRequest(t.text)
           THEN withSourceWritePolicyCorrections([base EXCEPT !.outcome = ""], t)
      ELSE IF isObviousProductKnowledgeQuestion(t.text, FALSE)
           THEN [Working("reply_in_thread") EXCEPT !.product = TRUE]
      ELSE IF isDirectSocialCandidate(t.text)
           THEN [directSocialFallback(t.thread) EXCEPT !.strength = ""]
      ELSE IF t.mention THEN directMentionFallback(t.text)
      ELSE IF open /\ isStableNonUrgentMetricObservation(t.text)
           THEN [silent EXCEPT !.outcome = "react", !.reaction = "warning", !.strength = "none"]
      ELSE IF open /\ alignmentConflict(t, p)
           THEN [Working("reply_in_channel") EXCEPT !.evidence = {FirstConflict(t, p).id}]
      ELSE IF t.mode = "proactive" /\ containsActionableSignal(t.text) THEN Working("reply_in_channel")
      ELSE IF asksOperationalStatus(t.text) /\ incidents # {}
           THEN IF first.class = "safe" THEN [Working("reply_in_thread") EXCEPT !.evidence = {first.id}]
                ELSE [Working("reply_in_thread") EXCEPT !.signals = {first.id}, !.disclosure = "restricted"]
      ELSE IF Ends(t.text, Marks) THEN Working("reply_in_thread")
      ELSE silent

------------------------------------------------------------------------------

\* The answer the instructions ask for: one of the outcomes, with a reason and a confidence
\* up to one, words only in a reply without an agent, and a reaction of the list.
Consistent(d) ==
  /\ d.outcome \in Outcomes /\ d.sure \in 0..2 /\ d.reasons # {}
  /\ d.reply \in {"", "social"} /\ (d.reply # "" => d.outcome \in Replies /\ ~d.full)
  /\ d.reaction \in AllowedReactions

Stay == UNCHANGED <<target, pack, snapshot, shadow>>

\* The model answers; what the corrections make of it is checked.
Classify ==
  /\ stage = "new" /\ RequiresProviderCall(target)
  /\ LET profiles == advertisedProfiles(snapshot) IN
     \E answer \in Answers :
       LET d == Corrected(answer, target, pack, profiles) IN
       /\ answered' = IF profiles # {} /\ validateRecommendation(d, profiles)
                      THEN [ok |-> TRUE, decision |-> d] ELSE Failed
       /\ consistent' = Consistent(answer)
  /\ stage' = "classified" /\ Stay /\ UNCHANGED result

\* It does not answer in time or in form.
ClassifyFails ==
  /\ stage = "new" /\ RequiresProviderCall(target)
  /\ answered' = Failed /\ consistent' = FALSE /\ stage' = "classified" /\ Stay /\ UNCHANGED result

ClassifyOffline ==
  /\ stage = "new" /\ RequiresProviderCall(target)
  /\ answered' = [ok |-> TRUE, decision |-> Offline(target, pack)] /\ consistent' = FALSE
  /\ stage' = "classified" /\ Stay /\ UNCHANGED result

\* The service decides, and the pipeline enforces the mode once more.
Judge ==
  /\ stage = "classified" \/ (stage = "new" /\ ~RequiresProviderCall(target))
  /\ result' = EnforceParticipation(Decide(target, pack, answered), target, pack)
  /\ stage' = "done" /\ Stay /\ UNCHANGED <<answered, consistent>>

JudgementNext == Classify \/ ClassifyFails \/ ClassifyOffline \/ Judge
JudgementSpec == JudgementInit /\ [][JudgementNext]_jvars

------------------------------------------------------------------------------

Effective == result.effective
Acts == stage = "done" /\ Effective.outcome # "silent"
\* Nothing in the words asks anything, or names Tag; a link is not one of the words.
Declares(text) ==
  /\ ~StartsAfter(text, {"url?"}, QuestionWords \cup Requests)
  /\ ~Has(text, Marks \cup TagWords)

\* Tag acts only where it may: never in an observed channel or for a turn that is someone
\* else's; unasked only where the channel lets it and decisions are not just measured; and in
\* an assist channel a bare declaration, whatever the model says of it, starts no work
\* unless a report elsewhere contradicts it or an operator set a trigger.
ActsWhereInvited ==
  Acts => /\ target.mode # "observe" /\ target.flags \subseteq {"integration"}
          /\ Ambient(target) => ~shadow /\ target.mode \in {"assist", "proactive"}
          /\ target.thread /\ Starts(target.text, {"<@U>"}) =>
               target.mention \/ target.dm \/ Has(target.text, TagWords)
          /\ (/\ Ambient(target) /\ target.mode = "assist" /\ Effective.reply = ""
              /\ Effective.outcome # "react" /\ Declares(target.text)) =>
               target.trigger \/ alignmentConflict(target, pack)

\* Who speaks to Tag has an answer, in words or in work, whatever the model answers or
\* fails to: only a request to change the source in a channel is met with silence.
DirectTurnIsAnswered ==
  (stage = "done" /\ ~Ambient(target) /\ ~hardSuppression(target) /\ target.mode # "observe") =>
     \/ Effective.outcome \notin {"silent", "react"} /\ (Effective.reply # "" \/ Effective.full)
     \/ ~target.dm /\ isObviousSourceWriteRequest(target.text)

\* The corrections keep an answer usable: one the instructions ask for, corrected by any
\* chain of rules, is never thrown away where profiles of every strength are offered.
CorrectionsAgree ==
  (/\ stage # "new" /\ consistent
   /\ \A s \in {"light", "standard", "strong"} :
        \E offered \in advertisedProfiles(snapshot) : offered.strength = s) =>
     /\ answered.ok
     /\ validateDecision(enforceDirectReplyPlacement(sanitizeEvidenceReferences(answered.decision, pack),
                                                     target), pack)

\* IMPLEMENTATION_CHECKLIST.md: "Silently suppress source-write requests across ambient,
\* direct-mention" turns: no such request outside a direct message has any effect.
SourceWritesStaySilent ==
  (Acts /\ ~target.dm /\ isObviousSourceWriteRequest(target.text)) =>
     \/ isObviousWikiPageCRUDRequest(target.text) /\ ~isExplicitSeparateSourceMutationRequest(target.text)
     \/ isImplementationPlanningRequest(target.text)
=============================================================================
