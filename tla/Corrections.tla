------------------------------ MODULE Corrections ------------------------------
(***************************************************************************)
(* OpenAIClassifier.Decide (core/classifier/openai_classifier.go): the     *)
(* answer of the model, and the chain of corrections that makes it agree   *)
(* with policy.                                                            *)
(*                                                                         *)
(* A decision keeps what the code tells apart.  sure is the confidence:    *)
(* 0 below the assist threshold, 1 below the channel threshold, 2 above    *)
(* both, as 0.99 is, 3 above one.  Reasons are the ones some code looks    *)
(* for: "write_silent" and "contradiction" (of a mention or of a thread);  *)
(* "model" and "policy" are the others.                                    *)
(***************************************************************************)
EXTENDS Wording

CONSTANT AllowedReactions    \* the reactions of the configuration

\* The empty name is no reaction: it stands beside them in the model's choice.
ASSUME ReactionsAssumption == "" \notin AllowedReactions

Decision(outcome) ==
  [outcome |-> outcome, sure |-> 0, reasons |-> {}, reply |-> "", write |-> FALSE,
   product |-> FALSE, topic |-> FALSE, full |-> FALSE, evidence |-> {}, signals |-> {},
   disclosure |-> "safe", reaction |-> "", profile |-> "", strength |-> "", effort |-> ""]
Zero == [Decision("") EXCEPT !.disclosure = ""]

Replies == {"reply_in_channel", "reply_in_thread"}
outcomeNeedsEvidence(o) == o \in Replies \cup {"start_background_job"}
outcomeNeedsAgent(o) == o \in Replies \cup {"start_background_job", "escalate_for_approval"}
Surely(sure) == IF sure < 2 THEN 2 ELSE sure
\* A decision in the place of d, which keeps only d's reasons.
Instead(d, outcome) ==
  [Decision(outcome) EXCEPT !.sure = Surely(d.sure), !.reasons = d.reasons \cup {"policy"}]
Asking(d, strength) == [d EXCEPT !.full = TRUE, !.profile = "", !.strength = strength, !.effort = "medium"]

isDirectMessageTarget(target) == target.dm
\* A turn of which the classifier is not the first to say that Tag takes part.
Ambient(target) == ~target.mention /\ ~target.dm /\ ~target.thread

------------------------------------------------------------------------------
(* The profiles the model may choose.                                       *)

Strengths == <<"light", "standard", "strong">>
\* One enabled profile of each strength: the default, or else the first.
advertisedProfiles(snapshot) ==
  LET of(s) == {i \in DOMAIN snapshot.profiles :
                  snapshot.profiles[i].enabled /\ snapshot.profiles[i].strength = s}
      chosen(s) == IF \E i \in of(s) : snapshot.profiles[i].id = snapshot.default
                   THEN CHOOSE i \in of(s) : snapshot.profiles[i].id = snapshot.default
                   ELSE CHOOSE i \in of(s) : \A k \in of(s) : i <= k
  IN  {LET p == snapshot.profiles[chosen(s)] IN
         [id |-> p.id, strength |-> p.strength, effort |-> p.effort] :
       s \in {x \in {"light", "standard", "strong"} : of(x) # {}}}

Taking(d, p) == [d EXCEPT !.profile = p.id, !.strength = p.strength, !.effort = p.effort]
withLightestProfile(d, profiles) ==
  IF profiles = {} THEN d
  ELSE Taking(d, CHOOSE p \in profiles : \A q \in profiles :
                   \E i, k \in 1..3 : i <= k /\ p.strength = Strengths[i] /\ q.strength = Strengths[k])

\* The strength a decision asks for; without one its effort says it.
WantedStrength(d) ==
  IF d.strength \in {"light", "standard", "strong"} THEN d.strength
  ELSE CASE d.effort = "high" -> "strong" [] d.effort = "medium" -> "standard" [] OTHER -> "light"

\* Mutant of withCanonicalAgentProfile: what the model recommends beside its choice stays.
asRecommended(d, profiles) == d
\* Silence has no action; a reaction and a direct reply have no profile; work has an agent,
\* no text, and a profile of those offered where there is one of its strength.
withCanonicalAgentProfile(d, profiles) ==
  LET agent == [d EXCEPT !.full = d.full \/ (outcomeNeedsAgent(d.outcome) /\ d.reply = "")]
      worded == [agent EXCEPT !.reply = ""]
      offered == {p \in profiles : p.strength = WantedStrength(worded)}
  IN  CASE d.outcome = "silent" ->
             [d EXCEPT !.reaction = "", !.reply = "", !.full = FALSE, !.profile = "",
                       !.strength = "none", !.effort = "", !.evidence = {}, !.signals = {}]
        [] d.outcome # "silent" /\ ~agent.full ->
             IF d.outcome = "react" \/ d.reply # ""
             THEN [d EXCEPT !.profile = "", !.strength = "none", !.effort = ""] ELSE d
        [] OTHER ->
             IF [id |-> d.profile, strength |-> d.strength, effort |-> d.effort] \in profiles
                \/ offered = {}
             THEN worded
             ELSE Taking(worded, CHOOSE p \in offered : TRUE)

------------------------------------------------------------------------------
(* The conversation the message is part of.  The sources of a pack are in   *)
(* the order of their times.                                                *)

\* The people who wrote in the destination.
destinationRecentParticipantIDs(pack) ==
  {pack[i].author : i \in {k \in DOMAIN pack : pack[k].channel = "here" /\ pack[k].provenance = "human"}}
IsTurn(s) == s.channel = "here" /\ s.provenance \in {"human", "agent"} /\ s.id # "target"
\* In a thread only the thread counts.
destinationConversationFocus(target, pack) ==
  SelectSeq(pack, LAMBDA s : IsTurn(s) /\ s.class = "safe" /\ (target.thread => s.partition = "thread"))
previousDestinationConversationSource(target, pack) == Last(destinationConversationFocus(target, pack))
\* The last turn, no more than fifteen minutes old, is Tag's.
previousDestinationMessageFromAgent(pack) ==
  LET turns == SelectSeq(pack, IsTurn) IN
  turns # <<>> /\ Last(turns).provenance = "agent" /\ Last(turns).fresh
likelyConversationallyAddressedToAgent(target, pack) ==
  destinationRecentParticipantIDs(pack) = {target.user} /\ previousDestinationMessageFromAgent(pack)

sourceAuthorRecentlyParticipated(author, pack) == author \in destinationRecentParticipantIDs(pack)
\* The reports from elsewhere that say the opposite of the message.
Conflicts(target, pack) ==
  {i \in DOMAIN pack :
     LET s == pack[i] IN
     /\ operationalStance(target.text) # 0
     /\ s.class = "safe" /\ s.provenance = "human" /\ s.author # target.user /\ s.channel # "here"
     /\ s.recent /\ ~sourceAuthorRecentlyParticipated(s.author, pack)
     /\ operationalStance(s.text) = -operationalStance(target.text)
     /\ sharesOperationalSubject(target.text, s.text)}
alignmentConflict(target, pack) == Conflicts(target, pack) # {}
FirstConflict(target, pack) ==
  pack[CHOOSE i \in Conflicts(target, pack) : \A k \in Conflicts(target, pack) : i <= k]

------------------------------------------------------------------------------
(* The corrections, in the order of their calls.                            *)

withDirectMentionPolicyCorrections(d, target, profiles) ==
  IF target.mention /\ ~target.thread /\ requestsCrossDestinationPrivateDisclosure(target.text)
  THEN withLightestProfile([Instead(d, "reply_in_channel") EXCEPT !.full = TRUE, !.reaction = "warning"],
                           profiles)
  ELSE d

directSocialFallback(thread) ==
  [Decision(IF thread THEN "reply_in_thread" ELSE "reply_in_channel") EXCEPT
     !.sure = 2, !.reasons = {"policy"}, !.reply = "social", !.reaction = "speech_balloon",
     !.strength = "none"]
withAddressedSocialPolicyCorrections(d, target) ==
  IF /\ isDirectSocialCandidate(target.text)
     /\ target.thread \/ (~target.mention /\ explicitlyAddressesTag(target.text))
  THEN [directSocialFallback(target.thread) EXCEPT !.sure = Surely(d.sure), !.reasons = @ \cup d.reasons]
  ELSE d

withConversationalAddressPolicyCorrections(d, target, pack) ==
  IF /\ ~target.thread /\ ~target.mention /\ likelyConversationallyAddressedToAgent(target, pack)
     /\ isMissingLocationWeatherQuestion(target.text)
  THEN [Instead(d, "reply_in_channel") EXCEPT !.reply = "weather", !.reaction = "speech_balloon",
                                              !.strength = "none"]
  ELSE d

withConversationalReferencePolicyCorrections(d, target, pack, profiles) ==
  IF /\ ~target.thread /\ ~target.mention /\ likelyConversationallyAddressedToAgent(target, pack)
     /\ isConversationalReferenceQuestion(target.text)
     /\ destinationConversationFocus(target, pack) # <<>>
     /\ previousDestinationConversationSource(target, pack).provenance = "agent"
  THEN withCanonicalAgentProfile(
         [Asking(Instead(d, "reply_in_channel"), "standard") EXCEPT !.reaction = "thinking_face"], profiles)
  ELSE d

\* A short answer in a thread to the question Tag asked about an earlier request.
withClarificationFollowupPolicyCorrections(d, target, pack, profiles) ==
  LET focus == destinationConversationFocus(target, pack) IN
  IF /\ target.thread /\ Len(target.text) <= 4 /\ Len(focus) >= 2
     /\ Last(focus).provenance = "agent" /\ looksLikeClarificationQuestion(Last(focus).text)
     /\ \E i \in 1..Len(focus) - 1 : focus[i].provenance = "human"
  THEN withCanonicalAgentProfile(
         [Asking(d, "standard") EXCEPT !.outcome = "reply_in_thread", !.sure = Surely(@),
            !.reasons = @ \cup {"policy"}, !.reply = "", !.reaction = "thinking_face"], profiles)
  ELSE d

\* A public source is not the product's, nor is the state of operations; a question about
\* the product is not a change of the source unless its text says so.
withProductKnowledgePolicyCorrections(d, target, profiles) ==
  LET question == d.product \/ isObviousProductKnowledgeQuestion(target.text, d.topic)
      writes == d.write /\ (~question \/ isObviousSourceWriteRequest(target.text))
      brief == ~d.write /\ (d.outcome = "reply_in_channel" \/ isBriefProductDefinitionQuestion(target.text))
      kept == [d EXCEPT !.write = writes,
                        !.reasons = IF writes # d.write THEN @ \cup {"policy"} ELSE @]
      place == IF ~target.thread /\ brief THEN "reply_in_channel" ELSE "reply_in_thread"
  IN  IF \/ isClearlyExternalPublicSourceQuestion(target.text)
         \/ isClearlyOperationalSchedulingQuestion(target.text)
      THEN IF question THEN [d EXCEPT !.product = FALSE, !.reasons = @ \cup {"policy"}] ELSE d
      ELSE IF writes \/ ~question THEN kept
      ELSE withCanonicalAgentProfile(
             [Asking(Instead(d, place), "standard") EXCEPT !.topic = d.topic, !.evidence = d.evidence,
                !.product = TRUE, !.reaction = "thinking_face"], profiles)

\* A page of the Wiki may be written; a request to change the source is met with silence,
\* and the model's word that it is one counts only where the text says so.
withSourceWritePolicyCorrections(d, target) ==
  CASE /\ isObviousWikiPageCRUDRequest(target.text)
       /\ ~isExplicitSeparateSourceMutationRequest(target.text) ->
         LET page == [d EXCEPT !.outcome = "reply_in_thread", !.sure = Surely(@),
                        !.reasons = @ \cup {"policy"}, !.reply = "", !.write = FALSE, !.full = TRUE,
                        !.reaction = "eyes"]
         IN  IF d.strength \in {"standard", "strong"} THEN page ELSE Asking(page, "standard")
    [] isObviousSourceWriteRequest(target.text)
       /\ ~(/\ isObviousWikiPageCRUDRequest(target.text)
            /\ ~isExplicitSeparateSourceMutationRequest(target.text)) ->
         [Instead(d, "silent") EXCEPT !.reasons = @ \cup {"write_silent"}, !.write = TRUE,
                                      !.strength = "none"]
    [] OTHER -> IF d.write THEN [d EXCEPT !.write = FALSE, !.reply = "", !.reasons = @ \cup {"policy"}]
                ELSE d

withImplementationPlanningPolicyCorrections(d, target, profiles) ==
  IF target.mention /\ isImplementationPlanningRequest(target.text)
  THEN withCanonicalAgentProfile(
         [Asking(d, "standard") EXCEPT !.outcome = "reply_in_thread", !.sure = Surely(@), !.reply = "",
            !.reasons = (@ \ {"write_silent"}) \cup {"policy"}, !.write = FALSE], profiles)
  ELSE d

withReadOnlyCodeAnalysisPolicyCorrections(d, target, profiles) ==
  IF isObviousReadOnlyCodeAnalysisRequest(target.text)
  THEN withCanonicalAgentProfile(
         [Asking(d, IF isSecuritySensitiveCodeAnalysis(target.text) THEN "strong" ELSE "standard") EXCEPT
            !.outcome = "reply_in_thread", !.sure = Surely(@), !.reply = "",
            !.reasons = @ \cup {"policy"}, !.write = FALSE], profiles)
  ELSE d

\* The first report of each channel that tells of an incident.
operationalSynthesisEvidenceIDs(pack) ==
  LET reports(c) == {i \in DOMAIN pack : /\ pack[i].channel = c /\ pack[i].provenance = "human"
                                         /\ pack[i].class = "safe" /\ containsIncident(pack[i].text)}
      channels == {c \in {pack[i].channel : i \in DOMAIN pack} : reports(c) # {}}
  IN  {pack[CHOOSE i \in reports(c) : \A k \in reports(c) : i <= k].id : c \in channels}

withOperationalSynthesisPolicyCorrections(d, target, pack, profiles) ==
  IF /\ target.mention /\ ~target.thread /\ isBroadOperationalStatusQuestion(target.text)
     /\ Cardinality(operationalSynthesisEvidenceIDs(pack)) >= 2
  THEN withCanonicalAgentProfile(
         [Asking(d, "strong") EXCEPT
            !.outcome = IF requestedReplyPlacement(target.text) = "channel" THEN "reply_in_channel"
                        ELSE "reply_in_thread",
            !.sure = Surely(@), !.reasons = @ \cup {"policy"}, !.reply = "", !.product = FALSE,
            !.evidence = operationalSynthesisEvidenceIDs(pack),
            !.reaction = IF @ = "warning" THEN @ ELSE "thinking_face"], profiles)
  ELSE d

withHighIntelligenceProfileCorrections(d, target, profiles) ==
  IF d.full /\ outcomeNeedsAgent(d.outcome) /\ isHardTopic(target.text)
  THEN withCanonicalAgentProfile([Asking(d, "strong") EXCEPT !.reasons = @ \cup {"policy"}], profiles)
  ELSE d

\* A mention is answered in words only where it is social; a short one is answered in the
\* channel by the lightest agent.
withBriefMentionPolicyCorrections(d, target, profiles) ==
  LET substantive == /\ target.mention /\ d.reply # "" /\ ~d.write
                     /\ ~isDirectSocialCandidate(target.text)
      asked == IF substantive
               THEN [d EXCEPT !.reply = "", !.full = TRUE, !.profile = "", !.strength = "",
                       !.effort = "", !.reaction = "thinking_face", !.reasons = @ \cup {"policy"}]
               ELSE d
  IN  IF /\ target.mention /\ ~target.thread /\ ~asked.write /\ ~asked.product /\ asked.reply = ""
         /\ asked.evidence = {} /\ asked.reaction # "warning" /\ briefSelfContainedMention(target.text)
      THEN withLightestProfile([asked EXCEPT !.outcome = "reply_in_channel", !.sure = Surely(@),
                                  !.reasons = @ \cup {"policy"}, !.full = TRUE], profiles)
      ELSE asked

------------------------------------------------------------------------------
(* withAmbientPolicyCorrections: what nobody asked Tag.                     *)

\* The evidence of an incident, for a question whether something is down.
StatusEvidence(pack) ==
  {i \in DOMAIN pack : /\ pack[i].class = "safe" /\ pack[i].partition \in {"evidence", "situation"}
                       /\ containsIncident(pack[i].text)}
AnswerStatus(d, target, pack, profiles) ==
  LET first == CHOOSE i \in StatusEvidence(pack) : \A k \in StatusEvidence(pack) : i <= k
      told == [d EXCEPT !.outcome = IF @ \in Replies THEN @ ELSE "reply_in_thread", !.full = TRUE,
                        !.evidence = @ \cup {pack[first].id}, !.reasons = @ \cup {"policy"}]
  IN  IF told.profile = "" \/ told.strength \in {"", "none"} THEN withLightestProfile(told, profiles)
      ELSE told

\* A conflict with a report elsewhere becomes a message in the channel.
Align(d, target, pack, profiles) ==
  LET seen == [d EXCEPT !.reasons = @ \cup {"policy"},
                        !.reaction = IF @ \in {"speech_balloon", "warning"} THEN @ ELSE "speech_balloon"]
      told == [seen EXCEPT !.outcome = "reply_in_channel", !.sure = Surely(@)]
  IN  CASE d.outcome \in {"silent", "react"} ->
             withLightestProfile([told EXCEPT !.full = TRUE,
                                    !.evidence = @ \cup {FirstConflict(target, pack).id}], profiles)
        [] d.outcome \in Replies -> told
        [] OTHER -> seen

withAmbientPolicyCorrections(d, target, pack, profiles) ==
  LET quiet == [Instead(d, "silent") EXCEPT !.strength = "none"]
      status == asksOperationalStatus(target.text) /\ StatusEvidence(pack) # {}
      answered == IF status THEN AnswerStatus(d, target, pack, profiles) ELSE d
      work == d.outcome \in {"start_background_job", "escalate_for_approval"}
      metric == [Instead(answered, "react") EXCEPT !.reaction = "warning", !.strength = "none"]
  IN  CASE d.reply # "" \/ ~Ambient(target) -> d
        [] /\ d.reply = "" /\ Ambient(target) /\ target.mode = "assist"
           /\ isUndirectedAmbientQuestion(target.text)
           /\ ~d.product /\ d.evidence = {} /\ d.signals = {} -> quiet
        [] OTHER ->
             IF d.outcome = "react" /\ isUndirectedGroupGreeting(target.text) THEN quiet
             ELSE IF status /\ work THEN d
             ELSE IF alignmentConflict(target, pack) THEN Align(answered, target, pack, profiles)
             ELSE IF /\ answered.outcome \notin {"silent", "react"}
                     /\ isStableNonUrgentMetricObservation(target.text)
                  THEN metric
             ELSE answered

------------------------------------------------------------------------------
(* The last ones, and the check of the result.                              *)

\* Background work takes a standard profile, or a strong one where it is about security.
withBackgroundProfileFloor(d, target, profiles) ==
  LET want == IF Has(target.text, {"security"}) THEN "strong" ELSE "standard"
      enough == d.strength = want \/ (want = "standard" /\ d.strength = "strong")
      offered == {p \in profiles : p.strength = want}
  IN  IF d.outcome = "start_background_job" /\ ~enough /\ offered # {}
      THEN [Taking(d, CHOOSE p \in offered : TRUE) EXCEPT !.reasons = @ \cup {"policy"}]
      ELSE d

\* A reaction of policy that is not allowed goes; the model's own is left to the check.
withPolicyReactionAllowlist(d, providerReaction) ==
  IF \/ d.outcome = "silent" \/ d.reaction \in {"", providerReaction} \cup AllowedReactions
  THEN d ELSE [d EXCEPT !.reaction = "", !.reasons = @ \cup {"policy"}]

withDefaultReaction(d) ==
  LET preferred == IF d.reply # "" THEN <<"white_check_mark", "speech_balloon">>
                   ELSE IF d.outcome \in {"start_background_job", "escalate_for_approval"}
                   THEN <<"eyes", "thinking_face">> ELSE <<"speech_balloon", "eyes">>
      first == IF \E i \in 1..2 : preferred[i] \in AllowedReactions
               THEN preferred[IF preferred[1] \in AllowedReactions THEN 1 ELSE 2]
               ELSE CHOOSE r \in AllowedReactions : TRUE
  IN  IF d.outcome = "silent" \/ d.reaction # "" \/ AllowedReactions = {} THEN d
      ELSE [d EXCEPT !.reasons = @ \cup {"policy"}, !.reaction = first]

\* A reason that contradicts what is known of the message is taken out.
withConsistentAuditReasonCodes(d) ==
  IF "contradiction" \in d.reasons
  THEN [d EXCEPT !.reasons = (@ \ {"contradiction"}) \cup {"policy"}] ELSE d

NoProfile(d) == d.profile = "" /\ d.strength = "none" /\ d.effort = ""
validateRecommendation(d, profiles) ==
  IF d.outcome = "silent" THEN d.reaction = "" /\ d.reply = "" /\ ~d.full /\ NoProfile(d)
  ELSE /\ d.reaction \in AllowedReactions
       /\ CASE d.reply # "" -> d.outcome \in Replies /\ ~d.full /\ NoProfile(d)
            [] d.reply = "" /\ ~d.full -> ~outcomeNeedsAgent(d.outcome) /\ NoProfile(d)
            [] OTHER -> [id |-> d.profile, strength |-> d.strength, effort |-> d.effort] \in profiles

Corrected(answer, target, pack, profiles) ==
  LET d1 == withDirectMentionPolicyCorrections(answer, target, profiles)
      d2 == withAddressedSocialPolicyCorrections(d1, target)
      d3 == withConversationalAddressPolicyCorrections(d2, target, pack)
      d4 == withConversationalReferencePolicyCorrections(d3, target, pack, profiles)
      d5 == withClarificationFollowupPolicyCorrections(d4, target, pack, profiles)
      d6 == withProductKnowledgePolicyCorrections(d5, target, profiles)
      d7 == withSourceWritePolicyCorrections(d6, target)
      d8 == withImplementationPlanningPolicyCorrections(d7, target, profiles)
      d9 == withReadOnlyCodeAnalysisPolicyCorrections(d8, target, profiles)
      d10 == withOperationalSynthesisPolicyCorrections(d9, target, pack, profiles)
      d11 == withHighIntelligenceProfileCorrections(d10, target, profiles)
      d12 == withBriefMentionPolicyCorrections(d11, target, profiles)
      d13 == withAmbientPolicyCorrections(d12, target, pack, profiles)
      d14 == withCanonicalAgentProfile(d13, profiles)
      d15 == withBackgroundProfileFloor(d14, target, profiles)
      d16 == withPolicyReactionAllowlist(d15, answer.reaction)
  IN  withConsistentAuditReasonCodes(withDefaultReaction(d16))
=============================================================================
