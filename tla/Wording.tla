-------------------------------- MODULE Wording --------------------------------
(***************************************************************************)
(* What the classifier reads in a message (core/classifier).  A message is *)
(* a sequence of phrases, one for each list of markers the code looks for; *)
(* a test looks at its first phrase, its last one or at all of them, as    *)
(* the code looks at prefixes, suffixes and substrings.  "<@U>" addresses  *)
(* a person, "url?" is a link with a query, and a phrase that no test      *)
(* looks for is "chat".                                                    *)
(***************************************************************************)
EXTENDS Integers, FiniteSets, Sequences, SequencesExt

QuestionWords == {"what", "is", "is it down", "are we", "how are you", "which package"}
Requests == {"please", "tell me", "review", "update", "create", "investigate", "compare"}
Marks == {"?", "??"}
Greetings == {"hi", "morning"}
TagWords == {"tag", "tag,", ",tag"}
ProductNames == {"premium trial"}
Healthy == {"healthy"}
Failing == {"outage", "failing", "any incidents", "steady, no errors"}
Deep == {"implementation plan", "compare", "review", "investigate", "design document"}

Has(text, phrases) == \E i \in DOMAIN text : text[i] \in phrases
Starts(text, phrases) == text # <<>> /\ Head(text) \in phrases
Ends(text, phrases) == text # <<>> /\ Last(text) \in phrases
Without(text, phrases) == SelectSeq(text, LAMBDA w : w \notin phrases)
\* The first phrase, or the last one, of those that are not passed over.
StartsAfter(text, passed, phrases) ==
  \E i \in DOMAIN text : text[i] \in phrases /\ \A k \in 1..i - 1 : text[k] \in passed
EndsBefore(text, passed, phrases) ==
  \E i \in DOMAIN text : text[i] \in phrases /\ \A k \in i + 1..Len(text) : text[k] \in passed
\* How often the sign ? occurs, in links too.
MarkCount(text) == Cardinality({i \in DOMAIN text : text[i] \in {"?", "url?"}})
                   + 2 * Cardinality({i \in DOMAIN text : text[i] = "??"})

------------------------------------------------------------------------------
(* service.go                                                               *)

\* Mutant of looksLikeQuestion: the query of a link makes a question.
linkIsQuestion(text) == Starts(text, QuestionWords) \/ Ends(text, {"?", "url?"})
\* Links are data: they are passed over.
looksLikeQuestion(text) ==
  StartsAfter(text, {"url?"}, QuestionWords) \/ EndsBefore(text, {"url?"}, {"?"})

looksLikeExplicitRequest(text) == Starts(text, Requests)

\* Addresses of people go, and a leading tag.
normalizedSocialText(text) ==
  LET rest == Without(text, {"<@U>"}) IN IF Starts(rest, {"tag", "tag,"}) THEN Tail(rest) ELSE rest

\* The rest of a greeting or of thanks asks for something, or tells of a failure.
hasSubstantiveSocialTail(text) ==
  LET tail == Tail(text)
      rest == IF Starts(tail, TagWords) THEN Tail(tail) ELSE tail
  IN  Starts(rest, Requests \cup QuestionWords) \/ Has(rest, Failing)

isSocialAcknowledgement(text) == text = <<"thanks">>

isDirectSocialCandidate(text) ==
  LET natural == normalizedSocialText(text) IN
  /\ MarkCount(text) = 0 /\ natural # <<>>
  /\ \/ isSocialAcknowledgement(natural)
     \/ Len(natural) = 1 /\ natural[1] \in Greetings
     \/ natural[1] = "thanks" /\ ~hasSubstantiveSocialTail(natural)
     \/ /\ Len(natural) > 1 /\ natural[1] \in Greetings /\ natural[2] \in TagWords
        /\ ~hasSubstantiveSocialTail(natural)

isDirectMessageSocialCandidate(text) ==
  isDirectSocialCandidate(text) \/ Starts(normalizedSocialText(text), {"how are you"})

\* By name: with thanks or a greeting, beside another person, at the end, or in front, where
\* a bare tag has to be followed by a question or a request.
explicitlyAddressesTag(text) ==
  LET called == IF Starts(text, {"hi"}) THEN Tail(text) ELSE text IN
  \/ Has(text, TagWords) /\ isDirectSocialCandidate(text)
  \/ Len(text) > 1 /\ text[1] = "<@U>" /\ text[2] = "tag,"
  \/ EndsBefore(text, Marks, {",tag"})
  \/ called = <<"tag">> \/ Starts(called, {"tag,"})
  \/ /\ Starts(called, {"tag"})
     /\ looksLikeQuestion(Tail(called)) \/ looksLikeExplicitRequest(Tail(called))

\* Where the message asks to be answered, unless it asks for both.
requestedReplyPlacement(text) ==
  LET thread == Has(text, {"reply in a thread"})
      channel == Has(text, {"reply in the channel"})
  IN  CASE thread = channel -> "any" [] thread -> "thread" [] OTHER -> "channel"

requiresThreadSurface(text) == Has(text, Deep)
briefSelfContainedMention(text) ==
  /\ MarkCount(text) <= 1 /\ ~requiresThreadSurface(text)
  /\ MarkCount(text) = 1 \/ Has(text, {"tell me"})
isImplementationPlanningRequest(text) == Has(text, {"implementation plan"})

operationalStance(text) ==
  IF Has(text, Healthy) THEN 1 ELSE IF Has(text, Failing) THEN -1 ELSE 0
sharesOperationalSubject(left, right) == \E s \in {"api", "login"} : Has(left, {s}) /\ Has(right, {s})
containsActionableSignal(text) == Has(text, {"outage", "any incidents", "steady, no errors"})
containsIncident(text) == Has(text, Failing \cup {"is it down"})
asksOperationalStatus(text) == Ends(text, Marks) /\ Has(text, {"is it down"})

------------------------------------------------------------------------------
(* openai_classifier.go                                                     *)

isConversationalReferenceQuestion(text) ==
  MarkCount(text) > 0 /\ Has(text, {"are we"}) /\ Has(text, {"using it"})
looksLikeClarificationQuestion(text) == MarkCount(text) > 0 /\ Has(text, {"do you mean"})
isMissingLocationWeatherQuestion(text) ==
  MarkCount(text) > 0 /\ Has(text, {"weather"}) /\ ~Has(text, {"in oslo"})

isExplicitSeparateSourceMutationRequest(text) == Has(text, {"then commit"})
isObviousWikiPageCRUDRequest(text) == Has(text, {"wiki page"}) /\ Has(text, {"update", "create"})
\* A verb and a source within four words of each other.
hasNearbySourceMutationAction(text) ==
  \E i, j \in DOMAIN text :
    /\ text[i] \in {"update"} /\ text[j] \in {"code", "then commit"}
    /\ i - j \in -4..4
isObviousSourceWriteRequest(text) ==
  /\ ~(Has(text, {"read the code"}) /\ ~Has(text, {"then fix"}))
  /\ Has(text, {"edit the code", "deploy the"}) \/ hasNearbySourceMutationAction(text)
isObviousReadOnlyCodeAnalysisRequest(text) ==
  /\ ~isObviousSourceWriteRequest(text)
  /\ \/ Has(text, {"review", "investigate", "read the code"}) /\ Has(text, {"code", "read the code"})
     \/ Has(text, {"which package"})
isSecuritySensitiveCodeAnalysis(text) ==
  isObviousReadOnlyCodeAnalysisRequest(text) /\ Has(text, {"security"})
\* A document to write, or a fault whose cause is to be found.
isHardTopic(text) ==
  \/ Has(text, {"design document"}) /\ Has(text, {"create", "update"})
  \/ Has(text, {"root cause"}) /\ Has(text, {"investigate", "review"})

isClearlyExternalPublicSourceQuestion(text) ==
  ~Has(text, ProductNames) /\ Has(text, {"pricing"}) /\ Has(text, {"openai"})
isBriefProductDefinitionQuestion(text) == Starts(text, {"what", "is", "is it down"}) /\ ~Has(text, {"compare"})
isBroadOperationalStatusQuestion(text) == MarkCount(text) > 0 /\ Has(text, {"any incidents"})
isClearlyOperationalSchedulingQuestion(text) ==
  ~Has(text, ProductNames \cup {"pricing"}) /\ Has(text, {"any incidents"})
isObviousProductKnowledgeQuestion(text, topic) ==
  /\ MarkCount(text) > 0 \/ Has(text, {"what", "compare"})
  /\ topic \/ Has(text, ProductNames)
requestsCrossDestinationPrivateDisclosure(text) == Has(text, {"private channel"}) /\ Has(text, {"share"})
isUndirectedAmbientQuestion(text) == MarkCount(text) > 0 /\ Starts(text, {"anyone know"})
isStableNonUrgentMetricObservation(text) ==
  Has(text, {"steady, no errors"}) /\ ~Has(text, {"outage", "failing", "investigate"})
isUndirectedGroupGreeting(text) ==
  Has(text, {"everyone"}) /\ Has(text, Greetings) /\ ~Has(text, TagWords) /\ MarkCount(text) = 0
=============================================================================
