-------------------------------- MODULE Memory --------------------------------
(***************************************************************************)
(* Durable memory (core/memory): the curator summarises the recent         *)
(* messages of a channel and of its thread, and operators correct, pin,    *)
(* unpin and forget what it wrote.                                         *)
(*                                                                         *)
(* The messages are those of one channel with one thread, whose root is    *)
(* the first message.  What a record says is left out: the hash of its     *)
(* sources stands for it, and a hash is the set of the messages it is over *)
(* with their versions.  Every step is one operation on the database; a    *)
(* call of the model is the wait between two of them.                      *)
(***************************************************************************)
EXTENDS Integers, FiniteSets, Sequences, FiniteSetsExt

CONSTANTS Curators,      \* the processes that run a curator
          Lookback,      \* how old a message may be to be summarised (168h)
          Validity,      \* how old a message may be to be context (30 days)
          MinMessages, MaxMessages, MaxScopes, MaxTries,   \* MaxTries: 8 in the code
          UnpinsCross,   \* whether a record may be forgotten while it is being unpinned
          Commanded,     \* bound: the scopes whose records operators work on
          MaxPosts,      \* bound: messages
          MaxEdits,      \* bound: edits, deletions and switches to session-only
          MaxCommands,   \* bound: commands of operators
          MaxLosses,     \* bound: summaries that fail or say too little, and failed calls
          MaxTime        \* bound: the clock

\* Configuration refuses a memory whose sources outlive what may be context
\* (config.go:581).  The two are told apart here, as the clock counts days and a pass
\* of the curator takes minutes.
ASSUME MemoryOptions ==
  /\ Lookback \in Nat /\ Validity \in Nat /\ Lookback < Validity
  /\ MinMessages \in Nat /\ MinMessages >= 2 /\ MaxMessages >= MinMessages

ASSUME UnpinsCrossAssumption == UnpinsCross \in BOOLEAN

VARIABLES messages,     \* [at, reply, version, deleted], in the order of their times
          sessionOnly,  \* the channel keeps no history beyond its session
          memory,       \* by scope: a record, or None
          ids,          \* record ids given so far
          curator,      \* by process: where its pass is
          operator,     \* an operator's unpin between its read and its write
          forgotten,    \* history: the sources last forgotten, by scope
          now, edits, commands, losses

mvars == <<messages, sessionOnly, memory, ids, curator, operator, forgotten, now, edits,
           commands, losses>>

Scopes == {"channel", "thread"}
ASSUME CommandedAssumption == Commanded \subseteq Scopes
None == [hash |-> {<<0, 0>>}]
Nothing == {}
Never == 0            \* the zero time

IdleCurator == [pc |-> "idle", batches |-> {}, batch |-> None, seen |-> None, tries |-> 0]
IdleOperator == [scope |-> "channel", id |-> 0, natural |-> Never]

------------------------------------------------------------------------------
(* candidates: the messages of a scope and what they hash to.               *)

\* The query: not deleted, and no older than the lookback.
Recent == {i \in 1..Len(messages) : ~messages[i].deleted /\ messages[i].at >= now - Lookback}
Replied == {i \in Recent : messages[i].reply}
\* A thread is a group once it has a reply; its root joins it where it is recent.
Group(s) == IF s = "channel" THEN Recent
            ELSE IF Replied = {} THEN {} ELSE Replied \cup ({1} \cap Recent)
\* The newest MaxMessages of a group.
Newest(group) == {i \in group : Cardinality({k \in group : k > i}) < MaxMessages}
Sources(s) == IF Cardinality(Group(s)) < MinMessages THEN {} ELSE Newest(Group(s))
SourceHash(s) == {<<i, messages[i].version>> : i \in Sources(s)}
NaturalExpiry(s) == Min({messages[i].at : i \in Sources(s)}) + Validity
Batch(s) == [scope |-> s, hash |-> SourceHash(s), natural |-> NaturalExpiry(s),
             last |-> Max(Sources(s))]
Candidate(s) == ~sessionOnly /\ Sources(s) # {}
\* The scopes with the newest messages come first, and only MaxScopes of them; scopes
\* with the same newest message come in any order.
Selected == LET all == {Batch(s) : s \in {x \in Scopes : Candidate(x)}}
            IN  {chosen \in SUBSET all :
                   /\ Cardinality(chosen) = Min({MaxScopes, Cardinality(all)})
                   /\ \A b \in chosen, c \in all \ chosen : b.last >= c.last}

------------------------------------------------------------------------------
(* The curator.                                                             *)

\* A message, and no memory yet.
MemoryInit ==
  /\ messages = <<[at |-> 1, reply |-> FALSE, version |-> 1, deleted |-> FALSE]>>
  /\ sessionOnly = FALSE
  /\ memory = [s \in Scopes |-> None] /\ ids = 0
  /\ curator = [c \in Curators |-> IdleCurator]
  /\ operator = IdleOperator
  /\ forgotten = [s \in Scopes |-> Nothing]
  /\ now = 1 /\ edits = 0 /\ commands = 0 /\ losses = 0

Protected(record) == record.status = "active" /\ (record.pinned \/ record.origin = "operator")
\* Mutant of skipGeneratedUpdate: what an operator forgot is the operator's for ever.
skipAnyOperators(record, hash) == record.hash = hash \/ record.pinned \/ record.origin = "operator"
\* The sources are the ones summarised, or the record is an operator's.
skipGeneratedUpdate(record, hash) == record.hash = hash \/ Protected(record)

OnlyCurator(c) == UNCHANGED <<messages, sessionOnly, operator, now, edits, commands>>

\* RunOnce starts, after the interval: one query of the channels and one of the messages.
RunOnce(c) ==
  /\ curator[c].pc = "idle"
  /\ \E batches \in Selected :
       /\ batches # {}
       /\ curator' = [curator EXCEPT ![c] = [@ EXCEPT !.pc = "find", !.batches = batches]]
  /\ OnlyCurator(c) /\ UNCHANGED <<memory, ids, forgotten, losses>>

\* The pass goes on with the rest of its batches, or ends.
Rest(c, batch) == LET rest == curator[c].batches \ {batch}
                  IN  IF rest = {} THEN IdleCurator
                      ELSE [IdleCurator EXCEPT !.pc = "find", !.batches = rest]

\* The next batch and the record of its scope.  Where there is nothing to do the pass goes
\* on; else it asks the model, and waits.
FindScope(c) ==
  /\ curator[c].pc = "find"
  /\ \E b \in curator[c].batches :
       /\ \A other \in curator[c].batches : b.last >= other.last
       /\ curator' = [curator EXCEPT ![c] =
            IF memory[b.scope] # None /\ skipGeneratedUpdate(memory[b.scope], b.hash)
            THEN Rest(c, b)
            ELSE [@ EXCEPT !.batch = b, !.pc = "ask"]]
  /\ OnlyCurator(c) /\ UNCHANGED <<memory, ids, forgotten, losses>>

\* The model answers, with a summary in the form it was asked for.
Summarize(c) ==
  /\ curator[c].pc = "ask"
  /\ curator' = [curator EXCEPT ![c].pc = "put"]
  /\ OnlyCurator(c) /\ UNCHANGED <<memory, ids, forgotten, losses>>

\* It does not answer in time or in form, or no fact of its summary is sure enough and
\* cites only messages of the batch: the scope waits for the next pass.
SummaryFails(c) ==
  /\ curator[c].pc = "ask" /\ losses < MaxLosses
  /\ losses' = losses + 1
  /\ curator' = [curator EXCEPT ![c] = Rest(c, curator[c].batch)]
  /\ OnlyCurator(c) /\ UNCHANGED <<memory, ids, forgotten>>

\* PutGenerated, with the summary, reads the record again, and gives up after MaxTries,
\* which ends the pass.
PutReads(c) ==
  /\ curator[c].pc = "put"
  /\ LET record == memory[curator[c].batch.scope]
     IN  curator' = [curator EXCEPT ![c] =
           IF curator[c].tries = MaxTries THEN IdleCurator
           ELSE IF record # None /\ skipGeneratedUpdate(record, curator[c].batch.hash)
                THEN Rest(c, curator[c].batch)
                ELSE [@ EXCEPT !.pc = "write", !.seen = record,
                               !.tries = curator[c].tries + 1]]
  /\ OnlyCurator(c) /\ UNCHANGED <<memory, ids, forgotten, losses>>

Generated(b, id, revision) ==
  [id |-> id, hash |-> b.hash, status |-> "active", origin |-> "model", pinned |-> FALSE,
   natural |-> b.natural, expires |-> b.natural, revision |-> revision]

\* Mutant of Unseen: the update asks for the record by its scope only.
UnseenAlso(s, seen) == seen # None /\ memory[s] # None
\* The update is for the revision that was read.
Unseen(s, seen) == seen # None /\ memory[s] # None /\ memory[s].revision = seen.revision

\* A record is inserted where there was none, under the unique index of the scope, and
\* replaced where it still has the revision that was read; or else all is tried again.
PutWrites(c) ==
  /\ curator[c].pc = "write"
  /\ LET b == curator[c].batch
         s == b.scope
         seen == curator[c].seen
         inserts == seen = None /\ memory[s] = None
         replaces == Unseen(s, seen)
     IN  IF inserts \/ replaces
         THEN /\ memory' = [memory EXCEPT ![s] =
                   IF inserts THEN Generated(b, ids + 1, 1)
                   ELSE Generated(b, seen.id, seen.revision + 1)]
              /\ ids' = IF inserts THEN ids + 1 ELSE ids
              /\ forgotten' = [forgotten EXCEPT ![s] = IF @ = b.hash THEN @ ELSE Nothing]
              /\ curator' = [curator EXCEPT ![c] = Rest(c, b)]
         ELSE /\ curator' = [curator EXCEPT ![c].pc = "put"]
              /\ UNCHANGED <<memory, ids, forgotten>>
  /\ OnlyCurator(c) /\ UNCHANGED losses

\* A call of the database fails, or the process stops: the pass ends where it is.
PassEnds(c) ==
  /\ curator[c].pc # "idle" /\ losses < MaxLosses
  /\ losses' = losses + 1
  /\ curator' = [curator EXCEPT ![c] = IdleCurator]
  /\ OnlyCurator(c) /\ UNCHANGED <<memory, ids, forgotten>>

Curate(c) == RunOnce(c) \/ FindScope(c) \/ Summarize(c) \/ PutReads(c) \/ PutWrites(c)

------------------------------------------------------------------------------
(* The commands of operators (the agent memory page).                       *)

OnlyOperators == UNCHANGED <<messages, sessionOnly, ids, curator, now, edits, losses>>
Ordered == commands < MaxCommands /\ commands' = commands + 1
\* A command names a record the operator sees on the page.
Revised(s, record) ==
  memory' = [memory EXCEPT ![s] = [record EXCEPT !.revision = record.revision + 1]]

\* A correction is pinned and does not expire, whatever it corrects.
Correct(s) ==
  /\ Ordered /\ memory[s] # None
  /\ Revised(s, [memory[s] EXCEPT !.origin = "operator", !.status = "active",
                                  !.pinned = TRUE, !.expires = Never])
  /\ forgotten' = [forgotten EXCEPT ![s] = Nothing]
  /\ OnlyOperators /\ UNCHANGED operator

Pin(s) ==
  /\ Ordered /\ memory[s] # None
  /\ Revised(s, [memory[s] EXCEPT !.pinned = TRUE, !.expires = Never])
  /\ OnlyOperators /\ UNCHANGED <<operator, forgotten>>

\* Unpinning reads the natural expiry first.
UnpinReads(s) ==
  /\ operator.id = 0 /\ commands < MaxCommands /\ memory[s] # None
  /\ operator' = [scope |-> s, id |-> memory[s].id, natural |-> memory[s].natural]
  /\ OnlyOperators /\ UNCHANGED <<memory, forgotten, commands>>

\* The record may have been replaced, corrected, forgotten or deleted since.
UnpinWrites ==
  /\ operator.id # 0
  /\ LET s == operator.scope IN
     IF memory[s] # None /\ memory[s].id = operator.id
     THEN /\ Ordered
          /\ Revised(s, [memory[s] EXCEPT !.pinned = FALSE,
               !.expires = IF operator.natural = Never THEN memory[s].expires
                          ELSE operator.natural])
     ELSE UNCHANGED <<memory, commands>>
  /\ operator' = IdleOperator
  /\ OnlyOperators /\ UNCHANGED forgotten

\* Mutant of Erased: the hash of the sources goes with the rest.
ErasedAll(record) == [record EXCEPT !.status = "forgotten", !.origin = "operator",
                        !.pinned = FALSE, !.expires = Never, !.natural = Never, !.hash = {}]
\* Text, facts and sources go; the hash stays.
Erased(record) == [record EXCEPT !.status = "forgotten", !.origin = "operator",
                     !.pinned = FALSE, !.expires = Never, !.natural = Never]

Forget(s) ==
  /\ Ordered /\ memory[s] # None
  /\ UnpinsCross \/ operator.id = 0 \/ operator.scope # s
  /\ Revised(s, Erased(memory[s]))
  /\ forgotten' = [forgotten EXCEPT ![s] = memory[s].hash]
  /\ OnlyOperators /\ UNCHANGED operator

------------------------------------------------------------------------------
(* Slack, the clock and retention.                                          *)

OnlySlack == UNCHANGED <<memory, ids, curator, operator, forgotten, now, commands, losses>>
Changed == edits < MaxEdits /\ edits' = edits + 1

Post(reply) ==
  /\ Len(messages) < MaxPosts
  /\ messages' = Append(messages, [at |-> now, reply |-> reply, version |-> 1, deleted |-> FALSE])
  /\ OnlySlack /\ UNCHANGED <<sessionOnly, edits>>

Edit(i) ==
  /\ Changed /\ ~messages[i].deleted
  /\ messages' = [messages EXCEPT ![i].version = @ + 1]
  /\ OnlySlack /\ UNCHANGED sessionOnly

DeleteMessage(i) ==
  /\ Changed /\ ~messages[i].deleted
  /\ messages' = [messages EXCEPT ![i].deleted = TRUE, ![i].version = @ + 1]
  /\ OnlySlack /\ UNCHANGED sessionOnly

SetSessionOnly ==
  /\ Changed /\ sessionOnly' = TRUE /\ ~sessionOnly
  /\ OnlySlack /\ UNCHANGED messages

\* A unit of the clock is far longer than a pass or a command.
Tick ==
  /\ now < MaxTime /\ now' = now + 1
  /\ operator = IdleOperator /\ \A c \in Curators : curator[c].pc = "idle"
  /\ UNCHANGED <<messages, sessionOnly, memory, ids, curator, operator, forgotten, edits,
                 commands, losses>>

\* The index on expires_at, and the janitor's sweep of the collection.
Expire(s) ==
  /\ memory[s] # None /\ memory[s].expires # Never /\ memory[s].expires <= now
  /\ memory' = [memory EXCEPT ![s] = None]
  /\ UNCHANGED <<messages, sessionOnly, ids, curator, operator, forgotten, now, edits,
                 commands, losses>>

MemoryNext ==
  \/ \E c \in Curators : Curate(c) \/ SummaryFails(c) \/ PassEnds(c)
  \/ \E s \in Commanded : Correct(s) \/ Pin(s) \/ UnpinReads(s) \/ Forget(s)
  \/ \E s \in Scopes : Expire(s)
  \/ UnpinWrites
  \/ \E reply \in BOOLEAN : Post(reply)
  \/ \E i \in 1..Len(messages) : Edit(i) \/ DeleteMessage(i)
  \/ SetSessionOnly
  \/ Tick

MemorySpec == MemoryInit /\ [][MemoryNext]_mvars

------------------------------------------------------------------------------
(* Properties.                                                              *)

\* What an operator corrected or pinned stands until an operator changes it: no summary
\* under way replaces it, and the curator writes nothing else between.  An unpinned
\* correction may expire.
OperatorStands ==
  [][\A s \in Scopes :
       (memory[s] # None /\ Protected(memory[s]) /\ commands' = commands) =>
         \/ memory'[s] = memory[s]
         \/ memory'[s] = None /\ ~memory[s].pinned]_mvars

\* What an operator forgot is not learned again from the same messages, although passes
\* that read them before are under way: the tombstone keeps their hash.  It stands as long
\* as no unpin crosses the forgetting; one that does gives the tombstone the expiry of the
\* record it read, and once retention has removed it the messages are learned again.
NotLearnedAgain ==
  \A s \in Scopes :
    (memory[s] # None /\ memory[s].origin = "model") => memory[s].hash # forgotten[s]

\* Where the curator runs, the messages of a scope that stay as they are come to be the
\* ones its record is about, unless the record is an operator's.
ComesToBeLearned ==
  \A s \in Scopes :
    []<>(\/ ~Candidate(s)
         \/ memory[s] # None /\ (memory[s].hash = SourceHash(s) \/ Protected(memory[s])))
=============================================================================
