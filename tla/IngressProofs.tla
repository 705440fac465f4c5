---------------------------- MODULE IngressProofs ----------------------------
(***************************************************************************)
(* What the observation store and the audit trail keep of Slack's events,  *)
(* for any scripts, handlers, appenders and faults, and what the context   *)
(* sync recovers of the ones no socket delivered (the last section).       *)
(*                                                                         *)
(* The first theorems: ChainIntact, the refinement of the list under a     *)
(* lock (ImplementsLog), and AckedIsProjected.  The two halves of their    *)
(* invariant meet in one place: the receipt a handler appends is for the   *)
(* event of its envelope.  Then ReadsAsInSlack, from what brought each     *)
(* time and each text into the store.                                      *)
(***************************************************************************)
EXTENDS Ingress, ContextSync, FiniteSetTheorems, SequenceTheorems, TLAPS

(***************************************************************************)
(* The audit trail.  Hashes are never opened here: two receipts have one   *)
(* hash when they are the same receipt, and that is not needed.            *)
(***************************************************************************)
Hashes == Seq(Calls)
HeadSet == [sequence : Nat, hash : Hashes, version : Nat]
ReceiptSet == [call : Calls, previous : Hashes]
AppPlace == {"idle", "find", "head", "recover", "adopt", "insert", "exists", "swap",
             "reread"}
Results == {"none", "ok", "error"}
CallSet == Calls \cup {NoCall}
AppenderSet == [pc : AppPlace, call : CallSet, head : HeadSet, attempt : Nat,
                result : Results]

\* Where an appender has read the head; where the receipt after it is on record;
\* where that is its own; and where it has not inserted its own.
HeadRead == {"recover", "adopt", "insert", "exists", "swap", "reread"}
Followed == {"adopt", "swap", "reread"}
Inserted == {"swap", "reread"}
Before == {"find", "head", "recover", "adopt", "insert", "exists"}

HashAt(rs, n) == IF n = 0 THEN << >> ELSE hashReceipt(rs[n])

\* A head as it was once written, when rs is on record.
HeadOK(h, rs) == /\ h.version = h.sequence
                 /\ h.sequence <= Len(rs)
                 /\ h.hash = HashAt(rs, h.sequence)

\* The appender x of a, against the receipts rs and the last number n of the head.
AppOK(a, x, rs, n) ==
  /\ x.pc # "idle" => IF a \in Handlers THEN x.call \in EventIds ELSE x.call = a
  /\ x.pc \in HeadRead => HeadOK(x.head, rs) /\ x.head.sequence <= n
  /\ x.pc \in Followed => x.head.sequence + 1 <= Len(rs)
  /\ x.pc \in Inserted => rs[x.head.sequence + 1].call = x.call
  /\ a \in Handlers \/ (x.pc \notin Before /\ (x.pc # "idle" \/ x.result # "none"))
       \/ \A m \in 1 .. Len(rs) : rs[m].call # a

AuditTypes == /\ receipts \in Seq(ReceiptSet)
              /\ head \in HeadSet
              /\ app \in [Appenders -> AppenderSet]

ChainInv == /\ \A n \in 1 .. Len(receipts) : receipts[n].previous = HashAt(receipts, n - 1)
            /\ HeadOK(head, receipts)
            /\ Len(receipts) <= head.sequence + 1

UniqueInv == \A m, n \in 1 .. Len(receipts) : m # n =>
               /\ receipts[m].call # receipts[n].call
               /\ \/ KeyOf[receipts[m].call] = NoKey
                  \/ KeyOf[receipts[m].call] # KeyOf[receipts[n].call]

AppendersInv == \A a \in Appenders : AppOK(a, app[a], receipts, head.sequence)

AuditInv == AuditTypes /\ ChainInv /\ UniqueInv /\ AppendersInv

(***************************************************************************)
(* The observation store.                                                  *)
(***************************************************************************)
ObservationSet == [state : {"none", "pending", "resolved"}, at : Int]
Fields == {"pc", "env", "state", "at"}

\* The envelope e tells of event i.
Tells(e, i) == /\ e.id = script[i].id
               /\ e.message = script[i].message
               /\ e.kind = script[i].kind
               /\ e.class = script[i].class
               /\ e.at \in Int

\* The event e is in the store, and its message is as new as the event or newer.
Shows(e, obs, msgs) ==
  /\ obs[e.id].state # "none"
  /\ \/ msgs[e.message].at > obs[e.id].at
     \/ /\ msgs[e.message].at = obs[e.id].at
        /\ msgs[e.message].rank >= projectionEventRank(e.kind)

Hidden(class) == class \in {"group", "excluded"}

\* The handler's call x, against the observations obs and the messages msgs.
HandlerOK(x, obs, msgs) ==
  /\ DOMAIN x = Fields
  /\ x.pc # "idle" => \E i \in Events : Tells(x.env, i)
  /\ x.pc \notin {"idle", "ack"} => ~Hidden(x.env.class)
  /\ x.pc \in {"find", "insert"} => x.state \in {"pending", "resolved"}
  /\ x.pc = "project" => /\ obs[x.env.id].state # "none"
                         /\ x.at = obs[x.env.id].at
  /\ x.pc \in {"stored", "receipt", "ack"} =>
       Hidden(x.env.class) \/ Shows(x.env, obs, msgs)

StoreTypes == /\ script \in Scripts
              /\ observations \in [EventIds -> ObservationSet]
              /\ messages = [m \in Messages |-> messages[m]]
              /\ \A m \in Messages : messages[m].at \in Int /\ messages[m].rank \in Nat
              /\ call = [h \in Handlers |-> call[h]]

HandlersInv == \A h \in Handlers : HandlerOK(call[h], observations, messages)

AckedInv ==
  \A i \in Events :
    /\ i \in acked => Hidden(script[i].class) \/ Shows(script[i], observations, messages)
    /\ Hidden(script[i].class) => observations[script[i].id].state = "none"

StoreInv == StoreTypes /\ HandlersInv /\ AckedInv

IInv == AuditInv /\ StoreInv

(***************************************************************************)
(* Appending to the audit trail.                                           *)
(***************************************************************************)
Grows == /\ Len(receipts) <= Len(receipts')
         /\ \A m \in 1 .. Len(receipts) : receipts'[m] = receipts[m]
         /\ head.sequence <= head'.sequence

\* A head that was read stays a head that was once written.
LEMMA HeadStands ==
  ASSUME AuditTypes, receipts' \in Seq(ReceiptSet), Grows, NEW h \in HeadSet,
         HeadOK(h, receipts)
  PROVE  HeadOK(h, receipts')
<1>1. h.sequence \in Nat /\ Len(receipts) \in Nat /\ Len(receipts') \in Nat
  BY DEF HeadSet, AuditTypes
<1>2. h.sequence <= Len(receipts') /\ (h.sequence = 0 \/ h.sequence \in 1 .. Len(receipts))
  BY <1>1 DEF HeadOK, Grows
<1>3. HashAt(receipts', h.sequence) = HashAt(receipts, h.sequence)
  BY <1>2 DEF HashAt, Grows
<1>4. QED
  BY <1>2, <1>3 DEF HeadOK

\* An appender that does not move keeps its part of the invariant.
LEMMA AppStands ==
  ASSUME AuditInv, receipts' \in Seq(ReceiptSet), head' \in HeadSet, Grows,
         NEW e \in Appenders,
         \A m \in 1 .. Len(receipts') : receipts'[m].call # e \/ m <= Len(receipts)
  PROVE  AppOK(e, app[e], receipts', head'.sequence)
<1> DEFINE x == app[e]
<1>0. AuditTypes /\ x \in AppenderSet /\ AppOK(e, x, receipts, head.sequence)
  BY DEF AuditInv, AuditTypes, AppendersInv
<1>1. /\ x.head \in HeadSet /\ x.head.sequence \in Nat /\ head.sequence \in Nat
      /\ head'.sequence \in Nat /\ Len(receipts) \in Nat /\ Len(receipts') \in Nat
  BY <1>0 DEF AuditTypes, AppenderSet, HeadSet
<1> HIDE DEF x
<1>2. x.pc \in HeadRead => HeadOK(x.head, receipts') /\ x.head.sequence <= head'.sequence
  BY <1>0, <1>1, HeadStands DEF AppOK, Grows
<1>3. x.pc \in Followed => /\ x.head.sequence + 1 <= Len(receipts')
                           /\ receipts'[x.head.sequence + 1] = receipts[x.head.sequence + 1]
  BY <1>0, <1>1 DEF AppOK, Grows
<1>4. (\A m \in 1 .. Len(receipts) : receipts[m].call # e) =>
        \A m \in 1 .. Len(receipts') : receipts'[m].call # e
  BY <1>1 DEF Grows
<1>5. QED
  BY <1>0, <1>2, <1>3, <1>4 DEF AppOK, Followed, Inserted, x

\* Appender a becomes x, and the receipts stay; the head may move.
LEMMA AppenderMoves ==
  ASSUME AuditInv, NEW a \in Appenders, NEW x \in AppenderSet,
         app' = [app EXCEPT ![a] = x], receipts' = receipts, head' \in HeadSet,
         head.sequence <= head'.sequence, HeadOK(head', receipts),
         AppOK(a, x, receipts, head'.sequence)
  PROVE  AuditInv'
<1>1. AuditTypes'
  BY DEF AuditInv, AuditTypes
<1>2. /\ head.sequence \in Nat /\ head'.sequence \in Nat /\ Len(receipts) \in Nat
      /\ Len(receipts) <= head.sequence + 1
  BY DEF AuditInv, AuditTypes, HeadSet, ChainInv
<1>3. ChainInv' /\ UniqueInv'
  BY <1>2 DEF AuditInv, ChainInv, UniqueInv
<1>4. Grows
  BY <1>2 DEF Grows
<1>5. AppendersInv'
  <2> SUFFICES ASSUME NEW e \in Appenders
               PROVE  AppOK(e, app'[e], receipts', head'.sequence)
    BY DEF AppendersInv
  <2>1. app'[e] = IF e = a THEN x ELSE app[e]
    BY DEF AuditInv, AuditTypes
  <2>2. CASE e = a
    BY <2>1, <2>2
  <2>3. CASE e # a
    <3>1. receipts' \in Seq(ReceiptSet)
      BY DEF AuditInv, AuditTypes
    <3>2. \A m \in 1 .. Len(receipts') : m <= Len(receipts)
      BY <1>2
    <3>3. QED
      BY <1>4, <2>1, <2>3, <3>1, <3>2, AppStands
  <2>4. QED
    BY <2>2, <2>3
<1>6. QED
  BY <1>1, <1>3, <1>5 DEF AuditInv

\* The head did not move either.
LEMMA AppenderSteps ==
  ASSUME AuditInv, NEW a \in Appenders, NEW x \in AppenderSet,
         app' = [app EXCEPT ![a] = x], UNCHANGED <<receipts, head>>,
         AppOK(a, x, receipts, head.sequence)
  PROVE  AuditInv'
<1>1. head \in HeadSet /\ head.sequence <= head.sequence /\ HeadOK(head, receipts)
  BY DEF AuditInv, AuditTypes, HeadSet, ChainInv
<1>2. QED
  BY <1>1, AppenderMoves

\* The idle appender, field by field.
LEMMA IdleAppenderFields ==
  /\ IdleAppender \in AppenderSet /\ IdleAppender.pc = "idle"
  /\ IdleAppender.result = "none"
  BY DEF IdleAppender, NoHead, AppenderSet, AppPlace, CallSet, HeadSet, Hashes, Results

\* An append that is over with an answer, or that goes around its loop again.
Settles(a, x) == /\ app' = [app EXCEPT ![a] = x]
                 /\ x \in AppenderSet
                 /\ \/ x.pc = "idle" /\ x.result # "none"
                    \/ x.pc = "head" /\ x.call = app[a].call /\ app[a].pc # "idle"

\* Returning settles, and so does another turn.
LEMMA AppendSettles ==
  ASSUME AuditInv, NEW a \in Appenders, app[a].pc # "idle",
         AppReturn(a, "ok") \/ AppReturn(a, "error") \/ Again(a)
  PROVE  \E x : Settles(a, x)
<1>0. app[a] \in AppenderSet
  BY DEF AuditInv, AuditTypes
<1>1. ASSUME NEW r \in {"ok", "error"}, app' = [app EXCEPT ![a] = [IdleAppender EXCEPT !.result = r]]
      PROVE  \E x : Settles(a, x)
  <2> DEFINE x == [IdleAppender EXCEPT !.result = r]
  <2>1. x \in AppenderSet /\ x.pc = "idle" /\ x.result = r
    BY IdleAppenderFields DEF AppenderSet, Results
  <2>2. Settles(a, x)
    BY <1>1, <2>1 DEF Settles
  <2>3. QED
    BY <2>2
<1>2. CASE app' = [app EXCEPT ![a] = [app[a] EXCEPT !.pc = "head", !.attempt = @ + 1]]
  <2> DEFINE x == [app[a] EXCEPT !.pc = "head", !.attempt = @ + 1]
  <2>0. app[a].attempt + 1 \in Nat /\ "head" \in AppPlace
    BY <1>0 DEF AppenderSet, AppPlace
  <2>1. x \in AppenderSet /\ x.pc = "head" /\ x.call = app[a].call
    BY <1>0, <2>0 DEF AppenderSet
  <2>2. Settles(a, x)
    BY <1>2, <2>1 DEF Settles
  <2>3. QED
    BY <2>2
<1>3. QED
  BY <1>1, <1>2 DEF AppReturn, Again

\* An appender that settles keeps its part, unless it goes around after an insertion.
LEMMA SettledOK ==
  ASSUME AuditInv, NEW a \in Appenders, NEW x, Settles(a, x),
         x.pc = "idle" \/ app[a].pc \in Before, NEW n
  PROVE  AppOK(a, x, receipts, n)
<1>1. AppOK(a, app[a], receipts, head.sequence)
  BY DEF AuditInv, AppendersInv
<1>2. QED
  BY <1>1 DEF AppOK, Settles, HeadRead, Followed, Inserted, Before

\* The steps of an append that settle and write nothing.
LEMMA SettleStep ==
  ASSUME AuditInv, NEW a \in Appenders, app[a].pc # "idle",
         \/ AppReturn(a, "ok") \/ AppReturn(a, "error")
         \/ Again(a) /\ app[a].pc \in Before,
         UNCHANGED <<receipts, head>>
  PROVE  AuditInv'
<1>1. PICK x : Settles(a, x)
  BY AppendSettles
<1>2. x.pc = "idle" \/ app[a].pc \in Before
  <2>1. CASE app[a].pc \in Before
    BY <2>1
  <2>2. CASE AppReturn(a, "ok") \/ AppReturn(a, "error")
    <3>1. app'[a].pc = "idle"
      BY <2>2, IdleAppenderFields DEF AppReturn, AuditInv, AuditTypes, AppenderSet
    <3>2. app'[a] = x
      BY <1>1 DEF Settles, AuditInv, AuditTypes
    <3>3. QED
      BY <3>1, <3>2
  <2>3. QED
    BY <2>1, <2>2
<1>3. AppOK(a, x, receipts, head.sequence)
  BY <1>1, <1>2, SettledOK
<1>4. QED
  BY <1>1, <1>3, AppenderSteps DEF Settles

\* Looking a key up, a duplicate, and failing: the append settles.
LEMMA SettlingInv ==
  ASSUME AuditInv, NEW a \in Appenders, FindByKey(a) \/ Exists(a) \/ AppendFails(a)
  PROVE  AuditInv'
<1>1. CASE FindByKey(a)
  BY <1>1, SettleStep DEF FindByKey, Before
<1>2. CASE Exists(a)
  BY <1>2, SettleStep DEF Exists, Before
<1>3. CASE AppendFails(a)
  BY <1>3, SettleStep DEF AppendFails
<1>4. QED
  BY <1>1, <1>2, <1>3

\* Looking at the head again after the swap: the receipt is the appender's own.
LEMMA RereadInv ==
  ASSUME AuditInv, NEW a \in Appenders, Reread(a)
  PROVE  AuditInv'
<1>1. AppOK(a, app[a], receipts, head.sequence) /\ app[a] \in AppenderSet /\ AuditTypes
  BY DEF AuditInv, AppendersInv, AuditTypes
<1>2. /\ app[a].head.sequence + 1 <= Len(receipts)
      /\ receipts[app[a].head.sequence + 1].call = app[a].call
  BY <1>1 DEF AppOK, Followed, Inserted, Reread
<1>3. app[a].head.sequence \in Nat
  BY <1>1 DEF AppenderSet, HeadSet
<1>4. HasSequence(app[a].head.sequence + 1)
  BY <1>1, <1>2, <1>3 DEF HasSequence, AuditTypes
<1>5. AppReturn(a, "ok") /\ UNCHANGED <<receipts, head>> /\ app[a].pc = "reread"
  BY <1>2, <1>4 DEF Reread
<1>6. QED
  BY <1>5, SettleStep

\* The head is read.
LEMMA ReadHeadInv ==
  ASSUME AuditInv, NEW a \in Appenders, ReadHead(a)
  PROVE  AuditInv'
<1> DEFINE x == [app[a] EXCEPT !.pc = "recover", !.head = head]
<1>0. /\ AppOK(a, app[a], receipts, head.sequence) /\ app[a] \in AppenderSet
      /\ head \in HeadSet /\ HeadOK(head, receipts)
  BY DEF AuditInv, AppendersInv, AuditTypes, ChainInv
<1>1. /\ x \in AppenderSet /\ x.pc = "recover" /\ x.head = head /\ x.call = app[a].call
      /\ app' = [app EXCEPT ![a] = x]
  BY <1>0 DEF AppenderSet, AppPlace, ReadHead
<1>2. head.sequence <= head.sequence
  BY <1>0 DEF HeadSet
<1> HIDE DEF x
<1>3. AppOK(a, x, receipts, head.sequence)
  BY <1>0, <1>1, <1>2 DEF AppOK, HeadRead, Followed, Inserted, Before, ReadHead
<1>4. QED
  BY <1>1, <1>3, AppenderSteps DEF ReadHead

\* The appender only goes on, to p.
LEMMA AppGoesTo ==
  ASSUME AuditTypes, NEW a \in Appenders, NEW p \in AppPlace, AppGoTo(a, p)
  PROVE  \E x \in AppenderSet : /\ app' = [app EXCEPT ![a] = x]
                                /\ x.pc = p /\ x.call = app[a].call
                                /\ x.head = app[a].head
<1> DEFINE x == [app[a] EXCEPT !.pc = p]
<1>0. app[a] \in AppenderSet
  BY DEF AuditTypes
<1>1. /\ x \in AppenderSet /\ x.pc = p /\ x.head = app[a].head /\ x.call = app[a].call
      /\ app' = [app EXCEPT ![a] = x]
  BY <1>0 DEF AppenderSet, AppGoTo
<1>2. QED
  BY <1>1

\* The receipt after the head that was read is looked for; it is never a strange one.
LEMMA LookAheadInv ==
  ASSUME AuditInv, NEW a \in Appenders, LookAhead(a)
  PROVE  AuditInv'
<1> DEFINE h == app[a].head
<1>0. /\ AppOK(a, app[a], receipts, head.sequence) /\ app[a] \in AppenderSet
      /\ AuditTypes /\ app[a].pc = "recover" /\ UNCHANGED <<receipts, head>>
  BY DEF AuditInv, AppendersInv, AuditTypes, LookAhead
<1>1. h \in HeadSet /\ h.sequence \in Nat /\ HeadOK(h, receipts) /\ Len(receipts) \in Nat
  BY <1>0 DEF AppOK, HeadRead, AppenderSet, HeadSet, AuditTypes
<1>2. HasSequence(h.sequence + 1) <=> h.sequence + 1 <= Len(receipts)
  BY <1>0, <1>1 DEF HasSequence, AuditTypes
<1>3. HasSequence(h.sequence + 1) => ValidOrphan(h)
  <2> SUFFICES ASSUME h.sequence + 1 <= Len(receipts) PROVE ValidOrphan(h)
    BY <1>2
  <2>1. receipts[h.sequence + 1].previous = HashAt(receipts, (h.sequence + 1) - 1)
    BY <1>1 DEF AuditInv, ChainInv
  <2>2. (h.sequence + 1) - 1 = h.sequence
    BY <1>1
  <2>3. QED
    BY <1>1, <2>1, <2>2 DEF HeadOK, ValidOrphan
<1>4. CASE h.sequence + 1 <= Len(receipts)
  <2>1. AppGoTo(a, "adopt")
    BY <1>2, <1>3, <1>4 DEF LookAhead
  <2>2. PICK x \in AppenderSet : /\ app' = [app EXCEPT ![a] = x] /\ x.pc = "adopt"
                                 /\ x.call = app[a].call /\ x.head = h
    BY <1>0, <2>1, AppGoesTo DEF AppPlace
  <2>3. AppOK(a, x, receipts, head.sequence)
    BY <1>0, <1>4, <2>2 DEF AppOK, HeadRead, Followed, Inserted, Before
  <2>4. QED
    BY <1>0, <2>2, <2>3, AppenderSteps
<1>5. CASE ~(h.sequence + 1 <= Len(receipts))
  <2>1. AppGoTo(a, "insert")
    BY <1>2, <1>5 DEF LookAhead
  <2>2. PICK x \in AppenderSet : /\ app' = [app EXCEPT ![a] = x] /\ x.pc = "insert"
                                 /\ x.call = app[a].call /\ x.head = h
    BY <1>0, <2>1, AppGoesTo DEF AppPlace
  <2>3. AppOK(a, x, receipts, head.sequence)
    BY <1>0, <2>2 DEF AppOK, HeadRead, Followed, Inserted, Before
  <2>4. QED
    BY <1>0, <2>2, <2>3, AppenderSteps
<1>6. QED
  BY <1>4, <1>5

\* The compare and swap moves the head to a receipt that is on record, or not at all.
LEMMA SwapMoves ==
  ASSUME AuditInv, NEW a \in Appenders, app[a].pc \in {"adopt", "swap"},
         Swap(app[a].head) \/ UNCHANGED head
  PROVE  /\ head' \in HeadSet
         /\ head.sequence <= head'.sequence
         /\ HeadOK(head', receipts)
<1> DEFINE h == app[a].head
<1>0. /\ AppOK(a, app[a], receipts, head.sequence) /\ app[a] \in AppenderSet
      /\ AuditTypes /\ head \in HeadSet /\ HeadOK(head, receipts)
  BY DEF AuditInv, AppendersInv, AuditTypes, ChainInv
<1>1. /\ h \in HeadSet /\ h.sequence \in Nat /\ HeadOK(h, receipts) /\ Len(receipts) \in Nat
      /\ h.sequence + 1 <= Len(receipts) /\ head.sequence \in Nat /\ h.version = h.sequence
  BY <1>0 DEF AppOK, HeadRead, Followed, AppenderSet, HeadSet, AuditTypes, HeadOK
<1> HIDE DEF h
<1>2. CASE UNCHANGED head
  BY <1>0, <1>1, <1>2
<1>3. CASE head' = [sequence |-> h.sequence + 1,
                    hash |-> hashReceipt(receipts[h.sequence + 1]),
                    version |-> h.version + 1] /\ head.sequence = h.sequence
  <2>1. receipts[h.sequence + 1] \in ReceiptSet
    BY <1>0, <1>1 DEF AuditTypes
  <2>2. hashReceipt(receipts[h.sequence + 1]) \in Hashes
    BY <2>1 DEF ReceiptSet, hashReceipt, Hashes
  <2>3. /\ head'.sequence = h.sequence + 1 /\ head'.version = h.sequence + 1
        /\ head'.hash = hashReceipt(receipts[h.sequence + 1]) /\ head' \in HeadSet
    BY <1>1, <1>3, <2>2 DEF HeadSet
  <2>4. h.sequence + 1 # 0
    BY <1>1
  <2>5. HeadOK(head', receipts)
    BY <1>1, <2>3, <2>4 DEF HeadOK, HashAt
  <2>6. QED
    BY <1>1, <1>3, <2>3, <2>5
<1>4. QED
  BY <1>2, <1>3 DEF Swap, h

\* Adopting a receipt, and moving the head to one's own.
LEMMA AdoptInv ==
  ASSUME AuditInv, NEW a \in Appenders, Adopt(a)
  PROVE  AuditInv'
<1>0. /\ AppOK(a, app[a], receipts, head.sequence) /\ app[a] \in AppenderSet
      /\ AuditTypes /\ app[a].pc = "adopt" /\ receipts' = receipts
      /\ head.sequence \in Nat /\ app[a].head.sequence \in Nat
  BY DEF AuditInv, AppendersInv, AuditTypes, Adopt, AppenderSet, HeadSet
<1>1. head' \in HeadSet /\ head.sequence <= head'.sequence /\ HeadOK(head', receipts)
  BY <1>0, SwapMoves DEF Adopt
<1>2. CASE Again(a)
  <2>1. PICK x : Settles(a, x)
    BY <1>0, <1>2, AppendSettles
  <2>2. AppOK(a, x, receipts, head'.sequence)
    BY <1>0, <2>1, SettledOK DEF Before
  <2>3. QED
    BY <1>0, <1>1, <2>1, <2>2, AppenderMoves DEF Settles
<1>3. CASE AppGoTo(a, "insert")
  <2>1. PICK x \in AppenderSet : /\ app' = [app EXCEPT ![a] = x] /\ x.pc = "insert"
                                 /\ x.call = app[a].call /\ x.head = app[a].head
    BY <1>0, <1>3, AppGoesTo DEF AppPlace
  <2>2. head'.sequence \in Nat
    BY <1>1 DEF HeadSet
  <2>3. AppOK(a, x, receipts, head'.sequence)
    BY <1>0, <1>1, <2>1, <2>2 DEF AppOK, HeadRead, Followed, Inserted, Before
  <2>4. QED
    BY <1>0, <1>1, <2>1, <2>3, AppenderMoves
<1>4. QED
  BY <1>2, <1>3 DEF Adopt

\* The swap after one's own insertion, its answer lost or not.
LEMMA MoveHeadInv ==
  ASSUME AuditInv, NEW a \in Appenders, MoveHead(a) \/ SwapAnswerLost(a)
  PROVE  AuditInv'
<1>0. /\ AppOK(a, app[a], receipts, head.sequence) /\ app[a] \in AppenderSet
      /\ AuditTypes /\ app[a].pc = "swap" /\ receipts' = receipts
      /\ head.sequence \in Nat /\ app[a].head.sequence \in Nat
  BY DEF AuditInv, AppendersInv, AuditTypes, MoveHead, SwapAnswerLost, AppenderSet, HeadSet
<1>1. head' \in HeadSet /\ head.sequence <= head'.sequence /\ HeadOK(head', receipts)
  BY <1>0, SwapMoves DEF MoveHead, SwapAnswerLost
<1>2. CASE AppReturn(a, "ok")
  <2>1. PICK x : Settles(a, x)
    BY <1>0, <1>2, AppendSettles
  <2>2. app'[a].pc = "idle"
    BY <1>2, IdleAppenderFields DEF AppReturn, AuditInv, AuditTypes, AppenderSet
  <2>3. app'[a] = x
    BY <2>1 DEF Settles, AuditInv, AuditTypes
  <2>4. AppOK(a, x, receipts, head'.sequence)
    BY <2>1, <2>2, <2>3, SettledOK
  <2>5. QED
    BY <1>0, <1>1, <2>1, <2>4, AppenderMoves DEF Settles
<1>3. CASE AppGoTo(a, "reread")
  <2>1. PICK x \in AppenderSet : /\ app' = [app EXCEPT ![a] = x] /\ x.pc = "reread"
                                 /\ x.call = app[a].call /\ x.head = app[a].head
    BY <1>0, <1>3, AppGoesTo DEF AppPlace
  <2>2. head'.sequence \in Nat
    BY <1>1 DEF HeadSet
  <2>3. AppOK(a, x, receipts, head'.sequence)
    BY <1>0, <1>1, <2>1, <2>2 DEF AppOK, HeadRead, Followed, Inserted, Before
  <2>4. QED
    BY <1>0, <1>1, <2>1, <2>3, AppenderMoves
<1>4. QED
  BY <1>2, <1>3 DEF MoveHead, SwapAnswerLost

\* What an insertion that meets neither index does to the receipts.
LEMMA InsertAppends ==
  ASSUME AuditInv, NEW a \in Appenders, Insert(a), ~HasKey(KeyOf[app[a].call]),
         ~HasSequence(app[a].head.sequence + 1)
  PROVE  /\ app[a].call \in Calls
         /\ receipts' \in Seq(ReceiptSet)
         /\ Len(receipts') = Len(receipts) + 1
         /\ \A m \in 1 .. Len(receipts) : receipts'[m] = receipts[m]
         /\ receipts'[Len(receipts) + 1].call = app[a].call
         /\ receipts'[Len(receipts) + 1].previous = HashAt(receipts, Len(receipts))
         /\ app[a].head.sequence = Len(receipts)
         /\ head.sequence = Len(receipts)
<1> DEFINE h == app[a].head
           L == Len(receipts)
<1>0. /\ AppOK(a, app[a], receipts, head.sequence) /\ app[a] \in AppenderSet
      /\ AuditTypes /\ app[a].pc = "insert" /\ HeadOK(head, receipts)
      /\ receipts \in Seq(ReceiptSet) /\ head.sequence \in Nat
  BY DEF AuditInv, AppendersInv, AuditTypes, ChainInv, Insert, HeadSet
<1>1. /\ h \in HeadSet /\ h.sequence \in Nat /\ HeadOK(h, receipts) /\ L \in Nat
      /\ h.sequence <= head.sequence /\ head.sequence <= L /\ h.hash \in Hashes
  BY <1>0 DEF AppOK, HeadRead, AppenderSet, HeadSet, AuditTypes, HeadOK
<1>2. DOMAIN receipts = 1 .. L
  BY <1>0
<1>3. h.sequence = L /\ head.sequence = L
  <2>1. h.sequence + 1 \notin 1 .. L
    BY <1>2 DEF HasSequence
  <2> HIDE DEF h, L
  <2>2. QED
    BY <1>0, <1>1, <2>1
<1>4. app[a].call \in Calls
  BY <1>0, ReceiptsAssumption DEF AppOK
<1>5. receipts' = [i \in 1 .. (L + 1) |->
                     IF i = L + 1 THEN Receipt(app[a].call, h) ELSE receipts[i]]
  <2>1. receipts' = [i \in DOMAIN receipts \cup {h.sequence + 1} |->
                       IF i = h.sequence + 1 THEN Receipt(app[a].call, h) ELSE receipts[i]]
    BY DEF Insert
  <2>2. DOMAIN receipts \cup {h.sequence + 1} = 1 .. (L + 1)
    BY <1>1, <1>2, <1>3
  <2>3. QED
    BY <1>3, <2>1, <2>2
<1>6. /\ Receipt(app[a].call, h) \in ReceiptSet /\ Receipt(app[a].call, h).call = app[a].call
      /\ Receipt(app[a].call, h).previous = h.hash
  BY <1>1, <1>4 DEF Receipt, ReceiptSet
<1>7. \A i \in 1 .. L : receipts[i] \in ReceiptSet /\ i \in 1 .. (L + 1) /\ i # L + 1
  BY <1>0, <1>1
<1>8. L + 1 \in 1 .. (L + 1) /\ L + 1 \in Nat
  BY <1>1
<1>9. \A i \in 1 .. (L + 1) : i = L + 1 \/ i \in 1 .. L
  BY <1>1
<1>10. h.hash = HashAt(receipts, L)
  BY <1>1, <1>3 DEF HeadOK
<1> HIDE DEF h, L
<1>11. receipts' \in [1 .. (L + 1) -> ReceiptSet]
  BY <1>5, <1>6, <1>7, <1>9
<1>12. receipts' \in Seq(ReceiptSet) /\ Len(receipts') = L + 1
  BY <1>8, <1>11
<1>13. QED
  BY <1>3, <1>4, <1>5, <1>6, <1>7, <1>8, <1>10, <1>12 DEF h, L

\* A receipt is inserted, or its number or its key is on record.
LEMMA InsertInv ==
  ASSUME AuditInv, NEW a \in Appenders, Insert(a)
  PROVE  AuditInv'
<1> DEFINE h == app[a].head
           c == app[a].call
           L == Len(receipts)
<1>0. /\ AppOK(a, app[a], receipts, head.sequence) /\ AuditTypes /\ app[a].pc = "insert"
      /\ head' = head /\ head \in HeadSet /\ head.sequence \in Nat
  BY DEF AuditInv, AppendersInv, AuditTypes, Insert, HeadSet
<1>1. CASE HasSequence(h.sequence + 1) \/ HasKey(KeyOf[c])
  <2>1. AppGoTo(a, "exists") /\ receipts' = receipts
    BY <1>1 DEF Insert
  <2>2. PICK x \in AppenderSet : /\ app' = [app EXCEPT ![a] = x] /\ x.pc = "exists"
                                 /\ x.call = c /\ x.head = h
    BY <1>0, <2>1, AppGoesTo DEF AppPlace
  <2>3. AppOK(a, x, receipts, head.sequence)
    BY <1>0, <2>2 DEF AppOK, HeadRead, Followed, Inserted, Before
  <2>4. QED
    BY <1>0, <2>1, <2>2, <2>3, AppenderSteps
<1>2. CASE ~HasSequence(h.sequence + 1) /\ ~HasKey(KeyOf[c])
  <2>1. /\ c \in Calls
        /\ receipts' \in Seq(ReceiptSet)
        /\ Len(receipts') = L + 1
        /\ \A m \in 1 .. L : receipts'[m] = receipts[m]
        /\ receipts'[L + 1].call = c
        /\ receipts'[L + 1].previous = HashAt(receipts, L)
        /\ h.sequence = L
        /\ head.sequence = L
    BY <1>2, InsertAppends
  <2>2. AppGoTo(a, "swap")
    BY <1>2 DEF Insert
  <2>3. PICK x \in AppenderSet : /\ app' = [app EXCEPT ![a] = x] /\ x.pc = "swap"
                                 /\ x.call = c /\ x.head = h
    BY <1>0, <2>2, AppGoesTo DEF AppPlace
  <2>4. L \in Nat /\ DOMAIN receipts = 1 .. L
    BY <1>0 DEF AuditTypes
  <2>5. \A m \in 1 .. (L + 1) : m = L + 1 \/ m \in 1 .. L
    BY <2>4
  <2>6. \A m \in 1 .. L : receipts[m].call # c /\
          (KeyOf[c] = NoKey \/ KeyOf[receipts[m].call] # KeyOf[c])
    <3>1. CASE KeyOf[c] # NoKey
      BY <1>2, <2>4, <3>1 DEF HasKey
    <3>2. CASE KeyOf[c] = NoKey
      <4>1. a \notin Handlers /\ c = a
        BY <1>0, <3>2, ReceiptsAssumption DEF AppOK
      <4>2. QED
        BY <1>0, <3>2, <4>1 DEF AppOK, Before
    <3>3. QED
      BY <3>1, <3>2
  <2>7. Grows
    BY <1>0, <2>1, <2>4 DEF Grows
  <2>8. UniqueInv'
    <3> SUFFICES ASSUME NEW m \in 1 .. (L + 1), NEW n \in 1 .. (L + 1), m # n
                 PROVE  /\ receipts'[m].call # receipts'[n].call
                        /\ \/ KeyOf[receipts'[m].call] = NoKey
                           \/ KeyOf[receipts'[m].call] # KeyOf[receipts'[n].call]
      BY <2>1 DEF UniqueInv
    <3>1. CASE m \in 1 .. L /\ n \in 1 .. L
      BY <2>1, <3>1 DEF AuditInv, UniqueInv
    <3>2. CASE m = L + 1 /\ n \in 1 .. L
      BY <2>1, <2>6, <3>2
    <3>3. CASE m \in 1 .. L /\ n = L + 1
      BY <2>1, <2>6, <3>3
    <3>4. QED
      BY <2>5, <3>1, <3>2, <3>3
  <2>9. ChainInv'
    <3>1. HeadOK(head', receipts')
      BY <1>0, <2>1, <2>7, HeadStands DEF AuditInv, ChainInv
    <3>2. \A n \in 1 .. (L + 1) : receipts'[n].previous = HashAt(receipts', n - 1)
      <4> SUFFICES ASSUME NEW n \in 1 .. (L + 1)
                   PROVE  receipts'[n].previous = HashAt(receipts', n - 1)
        OBVIOUS
      <4>1. receipts'[n].previous = HashAt(receipts, n - 1)
        <5>1. CASE n \in 1 .. L
          BY <2>1, <5>1 DEF AuditInv, ChainInv
        <5>2. CASE n = L + 1
          <6>1. n - 1 = L
            BY <2>4, <5>2
          <6>2. QED
            BY <2>1, <5>2, <6>1
        <5>3. QED
          BY <2>5, <5>1, <5>2
      <4>2. n - 1 = 0 \/ n - 1 \in 1 .. L
        BY <2>4
      <4>3. HashAt(receipts', n - 1) = HashAt(receipts, n - 1)
        BY <2>1, <4>2 DEF HashAt
      <4>4. QED
        BY <4>1, <4>3
    <3>3. Len(receipts') <= head'.sequence + 1
      BY <1>0, <2>1, <2>4
    <3>4. QED
      BY <2>1, <3>1, <3>2, <3>3 DEF ChainInv
  <2>10. AppendersInv'
    <3> SUFFICES ASSUME NEW e \in Appenders
                 PROVE  AppOK(e, app'[e], receipts', head'.sequence)
      BY DEF AppendersInv
    <3>1. app'[e] = IF e = a THEN x ELSE app[e]
      BY <1>0, <2>3 DEF AuditTypes
    <3>2. CASE e = a
      <4>1. HeadOK(h, receipts') /\ h.sequence <= head'.sequence
        <5>1. h \in HeadSet /\ HeadOK(h, receipts)
          BY <1>0 DEF AppOK, HeadRead, AuditTypes, AppenderSet
        <5>2. QED
          BY <1>0, <2>1, <2>4, <2>7, <5>1, HeadStands
      <4>2. h.sequence + 1 <= Len(receipts') /\ receipts'[h.sequence + 1].call = c
        BY <2>1, <2>4
      <4>3. IF a \in Handlers THEN c \in EventIds ELSE c = a
        BY <1>0 DEF AppOK
      <4>4. AppOK(a, x, receipts', head'.sequence)
        BY <2>3, <4>1, <4>2, <4>3 DEF AppOK, Before
      <4>5. QED
        BY <3>1, <3>2, <4>4
    <3>3. CASE e # a
      <4>1. c # e
        BY <1>0, <3>3, ReceiptsAssumption DEF AppOK
      <4>2. \A m \in 1 .. Len(receipts') : receipts'[m].call # e \/ m <= L
        BY <2>1, <2>4, <4>1
      <4>3. QED
        BY <1>0, <2>1, <2>7, <3>1, <3>3, <4>2, AppStands
    <3>4. QED
      BY <3>2, <3>3
  <2>11. AuditTypes'
    BY <1>0, <2>1, <2>3 DEF AuditTypes
  <2>12. QED
    BY <2>8, <2>9, <2>10, <2>11 DEF AuditInv
<1>3. QED
  BY <1>1, <1>2

(***************************************************************************)
(* Storing an envelope.                                                    *)
(***************************************************************************)
\* Observations are kept as they were stored, and messages only get newer.
StoreGrows ==
  /\ \A i \in EventIds : observations[i].state = "none" \/ observations'[i] = observations[i]
  /\ \A m \in Messages : \/ messages'[m].at > messages[m].at
                         \/ /\ messages'[m].at = messages[m].at
                            /\ messages'[m].rank >= messages[m].rank

\* What the envelope of an event names.
LEMMA EventFacts ==
  ASSUME StoreTypes, NEW i \in Events, NEW e, Tells(e, i)
  PROVE  /\ e.id \in EventIds /\ e.message \in Messages
         /\ \A j \in Events : script[j].id = e.id =>
              /\ script[j].message = e.message /\ script[j].kind = e.kind
              /\ script[j].class = e.class
  BY ScriptsAssumption DEF StoreTypes, Tells, Events

\* The ranks are numbers.
LEMMA RankType == \A k : projectionEventRank(k) \in Nat
  BY DEF projectionEventRank

\* An event that shows goes on showing.
LEMMA ShowsStands ==
  ASSUME StoreTypes, StoreGrows, observations' \in [EventIds -> ObservationSet],
         \A m \in Messages : messages'[m].at \in Int /\ messages'[m].rank \in Nat,
         NEW e, e.id \in EventIds, e.message \in Messages, Shows(e, observations, messages)
  PROVE  Shows(e, observations', messages')
<1> DEFINE k == projectionEventRank(e.kind)
<1>1. /\ observations'[e.id] = observations[e.id] /\ observations[e.id].at \in Int
      /\ observations'[e.id].state # "none"
  BY DEF Shows, StoreGrows, StoreTypes, ObservationSet
<1>2. /\ messages[e.message].at \in Int /\ messages[e.message].rank \in Nat
      /\ messages'[e.message].at \in Int /\ messages'[e.message].rank \in Nat /\ k \in Nat
  BY RankType DEF StoreTypes
<1>3. \/ messages[e.message].at > observations[e.id].at
      \/ messages[e.message].at = observations[e.id].at /\ messages[e.message].rank >= k
  BY DEF Shows
<1>4. \/ messages'[e.message].at > messages[e.message].at
      \/ /\ messages'[e.message].at = messages[e.message].at
         /\ messages'[e.message].rank >= messages[e.message].rank
  BY DEF StoreGrows
<1> HIDE DEF k
<1>5. \/ messages'[e.message].at > observations'[e.id].at
      \/ messages'[e.message].at = observations'[e.id].at /\ messages'[e.message].rank >= k
  BY <1>1, <1>2, <1>3, <1>4
<1>6. QED
  BY <1>1, <1>5 DEF Shows, k

\* Handler h's call becomes x.
LEMMA HandlerMoves ==
  ASSUME StoreInv, NEW h \in Handlers, NEW x, call' = [call EXCEPT ![h] = x],
         script' = script, observations' \in [EventIds -> ObservationSet],
         messages' = [m \in Messages |-> messages'[m]],
         \A m \in Messages : messages'[m].at \in Int /\ messages'[m].rank \in Nat,
         StoreGrows, HandlerOK(x, observations', messages'), acked' = acked,
         \A i \in Events : Hidden(script[i].class) =>
                             observations'[script[i].id].state = "none"
  PROVE  StoreInv'
<1>0. StoreTypes
  BY DEF StoreInv
<1>1. \A f \in Handlers : call'[f] = IF f = h THEN x ELSE call[f]
  BY <1>0 DEF StoreTypes
<1>2. StoreTypes'
  <2>1. call' = [f \in Handlers |-> call'[f]]
    BY <1>0, <1>1 DEF StoreTypes
  <2>2. QED
    BY <1>0, <2>1 DEF StoreTypes
<1>3. HandlersInv'
  <2> SUFFICES ASSUME NEW f \in Handlers, f # h
               PROVE  HandlerOK(call[f], observations', messages')
    BY <1>1 DEF HandlersInv, HandlerOK, Tells, Events
  <2>1. HandlerOK(call[f], observations, messages)
    BY DEF StoreInv, HandlersInv
  <2>2. call[f].pc # "idle" => call[f].env.id \in EventIds /\ call[f].env.message \in Messages
    BY <1>0, <2>1, EventFacts DEF HandlerOK
  <2>3. call[f].pc = "project" => /\ observations'[call[f].env.id].state # "none"
                                  /\ call[f].at = observations'[call[f].env.id].at
    BY <2>1, <2>2 DEF HandlerOK, StoreGrows
  <2>4. call[f].pc \in {"stored", "receipt", "ack"} =>
          Hidden(call[f].env.class) \/ Shows(call[f].env, observations', messages')
    BY <1>0, <2>1, <2>2, ShowsStands DEF HandlerOK
  <2>5. QED
    BY <2>1, <2>3, <2>4 DEF HandlerOK
<1>4. AckedInv'
  <2> SUFFICES ASSUME NEW i \in Events, i \in acked
               PROVE  Hidden(script[i].class) \/ Shows(script[i], observations', messages')
    BY DEF AckedInv, Events
  <2>1. script[i].id \in EventIds /\ script[i].message \in Messages
    BY <1>0, ScriptsAssumption DEF StoreTypes, Events
  <2>2. QED
    BY <1>0, <2>1, ShowsStands DEF StoreInv, AckedInv
<1>5. QED
  BY <1>2, <1>3, <1>4 DEF StoreInv

\* Only the handler's call goes on.
LEMMA HandlerSteps ==
  ASSUME StoreInv, NEW h \in Handlers, NEW x, call' = [call EXCEPT ![h] = x],
         UNCHANGED <<script, observations, messages, acked>>,
         HandlerOK(x, observations, messages)
  PROVE  StoreInv'
<1>1. /\ observations' \in [EventIds -> ObservationSet]
      /\ messages' = [m \in Messages |-> messages'[m]]
      /\ \A m \in Messages : messages'[m].at \in Int /\ messages'[m].rank \in Nat
  BY DEF StoreInv, StoreTypes
<1>2. StoreGrows
  BY DEF StoreGrows, StoreInv, StoreTypes
<1>3. \A i \in Events : Hidden(script[i].class) => observations'[script[i].id].state = "none"
  BY DEF StoreInv, AckedInv
<1>4. QED
  BY <1>1, <1>2, <1>3, HandlerMoves

\* A call that is over.
LEMMA IdleCallOK ==
  ASSUME NEW obs, NEW msgs
  PROVE  HandlerOK(IdleCall, obs, msgs)
<1>1. DOMAIN IdleCall = Fields /\ IdleCall.pc = "idle"
  BY DEF IdleCall, Fields
<1>2. QED
  BY <1>1 DEF HandlerOK

\* A call that starts: an envelope to store, or one to leave alone.
LEMMA CallStarts ==
  ASSUME StoreInv, NEW h \in Handlers, NEW i \in Events, NEW e, Tells(e, i),
         UNCHANGED <<script, observations, messages, acked>>,
         \/ /\ Hidden(e.class)
            /\ call' = [call EXCEPT ![h] = [IdleCall EXCEPT !.pc = "ack", !.env = e]]
         \/ /\ ~Hidden(e.class)
            /\ \E s \in {"pending", "resolved"} : StoreCall(h, e, s)
  PROVE  StoreInv'
<1>1. CASE /\ Hidden(e.class)
           /\ call' = [call EXCEPT ![h] = [IdleCall EXCEPT !.pc = "ack", !.env = e]]
  <2> DEFINE x == [IdleCall EXCEPT !.pc = "ack", !.env = e]
  <2>1. DOMAIN x = Fields /\ x.pc = "ack" /\ x.env = e
    BY DEF IdleCall, Fields
  <2> HIDE DEF x
  <2>2. HandlerOK(x, observations, messages)
    BY <1>1, <2>1 DEF HandlerOK
  <2>3. QED
    BY <1>1, <2>2, HandlerSteps DEF x
<1>2. CASE ~Hidden(e.class) /\ \E s \in {"pending", "resolved"} : StoreCall(h, e, s)
  <2>0. PICK s \in {"pending", "resolved"} : StoreCall(h, e, s)
    BY <1>2
  <2> DEFINE x == [IdleCall EXCEPT !.pc = "find", !.env = e, !.state = s]
  <2>1. DOMAIN x = Fields /\ x.pc = "find" /\ x.env = e /\ x.state = s
    BY DEF IdleCall, Fields
  <2>2. call' = [call EXCEPT ![h] = x]
    BY <2>0 DEF StoreCall
  <2> HIDE DEF x
  <2>3. HandlerOK(x, observations, messages)
    BY <1>2, <2>1 DEF HandlerOK
  <2>4. QED
    BY <2>2, <2>3, HandlerSteps
<1>3. QED
  BY <1>1, <1>2

\* Slack delivers an event.
LEMMA DeliverInv ==
  ASSUME StoreInv, NEW h \in Handlers, NEW i \in Events, Deliver(h, i)
  PROVE  StoreInv'
<1> DEFINE e == NormalizeEventsAPI(i)
<1>1. Tells(e, i)
  <2>1. script[i].at \in Int /\ Second \in Int /\ Second > 0
    BY ScriptsAssumption, FaultAssumption DEF StoreInv, StoreTypes, Events
  <2>2. Seconds(script[i].at) \in Int
    BY <2>1 DEF Seconds
  <2>3. QED
    BY <2>2 DEF Tells, NormalizeEventsAPI
<1>2. UNCHANGED <<script, observations, messages, acked>>
  BY DEF Deliver, HandOver
<1>3. \/ /\ Hidden(e.class)
         /\ call' = [call EXCEPT ![h] = [IdleCall EXCEPT !.pc = "ack", !.env = e]]
      \/ /\ ~Hidden(e.class)
         /\ \E s \in {"pending", "resolved"} : StoreCall(h, e, s)
  <2> DEFINE st == IF ContextOnly(e) THEN "resolved" ELSE "pending"
  <2>1. /\ Hidden(e.class) =>
             call' = [call EXCEPT ![h] = [IdleCall EXCEPT !.pc = "ack", !.env = e]]
        /\ ~Hidden(e.class) => StoreCall(h, e, st)
    BY DEF Deliver, Ignored, Hidden
  <2>2. st \in {"pending", "resolved"}
    OBVIOUS
  <2> HIDE DEF st, e
  <2>3. QED
    BY <2>1, <2>2
<1> HIDE DEF e
<1>4. QED
  BY <1>1, <1>2, <1>3, CallStarts

\* The context sync imports a message.
LEMMA ImportContextInv ==
  ASSUME StoreInv, NEW h \in Handlers, NEW i \in Events, ImportContextEnvelope(h, i)
  PROVE  StoreInv'
<1>0. PICK now \in 1 .. happened : StoreCall(h, historyEnvelope(i, now), "resolved")
  BY DEF ImportContextEnvelope
<1> DEFINE e == historyEnvelope(i, now)
<1>1. Tells(e, i) /\ ~Hidden(e.class)
  <2>1. script[i].at \in Int
    BY ScriptsAssumption DEF StoreInv, StoreTypes, Events
  <2>2. script[i].kind = "message" /\ script[i].class \notin {"group", "excluded"}
    BY DEF ImportContextEnvelope, Shown
  <2>3. QED
    BY <2>1, <2>2 DEF Tells, historyEnvelope, Hidden
<1>2. UNCHANGED <<script, observations, messages, acked>>
  BY DEF ImportContextEnvelope, HandOver, Slack
<1>3. StoreCall(h, e, "resolved")
  BY <1>0
<1> HIDE DEF e
<1>4. QED
  BY <1>1, <1>2, <1>3, CallStarts

\* The handler goes on to p with what it has, ...
LEMMA CallGoesTo ==
  ASSUME StoreInv, NEW h \in Handlers, NEW p, CallGoTo(h, p)
  PROVE  \E x : /\ call' = [call EXCEPT ![h] = x] /\ DOMAIN x = Fields /\ x.pc = p
                /\ x.env = call[h].env /\ x.state = call[h].state
<1>0. DOMAIN call[h] = Fields
  BY DEF StoreInv, HandlersInv, HandlerOK
<1> DEFINE x == [call[h] EXCEPT !.pc = p]
<1>1. /\ call' = [call EXCEPT ![h] = x] /\ DOMAIN x = Fields /\ x.pc = p
      /\ x.env = call[h].env /\ x.state = call[h].state
  BY <1>0 DEF Fields, CallGoTo
<1>2. QED
  BY <1>1

\* ... or to the projection, at time t.
ProjectsAt(h, t) == call' = [call EXCEPT ![h].pc = "project", ![h].at = t]
LEMMA CallProjects ==
  ASSUME StoreInv, NEW h \in Handlers, NEW t, ProjectsAt(h, t)
  PROVE  \E x : /\ call' = [call EXCEPT ![h] = x] /\ DOMAIN x = Fields /\ x.pc = "project"
                /\ x.env = call[h].env /\ x.at = t
<1>0. DOMAIN call[h] = Fields
  BY DEF StoreInv, HandlersInv, HandlerOK
<1> DEFINE x == [call[h] EXCEPT !.pc = "project", !.at = t]
<1>1. /\ call' = [call EXCEPT ![h] = x] /\ DOMAIN x = Fields /\ x.pc = "project"
      /\ x.env = call[h].env /\ x.at = t
  BY <1>0 DEF Fields, ProjectsAt
<1>2. QED
  BY <1>1

\* An observation that exists is about to be projected at the time it was stored with.
LEMMA ProjectExistingInv ==
  ASSUME StoreInv, NEW h \in Handlers, call[h].pc \in {"find", "insert"},
         Stored(call[h].env.id), ProjectExisting(h),
         UNCHANGED <<script, observations, messages, acked>>
  PROVE  StoreInv'
<1>0. HandlerOK(call[h], observations, messages)
  BY DEF StoreInv, HandlersInv
<1>1. PICK x : /\ call' = [call EXCEPT ![h] = x] /\ DOMAIN x = Fields /\ x.pc = "project"
               /\ x.env = call[h].env /\ x.at = observations[call[h].env.id].at
  <2>1. ProjectsAt(h, observations[call[h].env.id].at)
    BY DEF ProjectExisting, ProjectsAt
  <2>2. QED
    BY <2>1, CallProjects
<1>2. HandlerOK(x, observations, messages)
  BY <1>0, <1>1 DEF HandlerOK, Stored
<1>3. QED
  BY <1>1, <1>2, HandlerSteps

\* The lookup before the insertion.
LEMMA FindObservationInv ==
  ASSUME StoreInv, NEW h \in Handlers, FindObservation(h), UNCHANGED <<script, acked>>
  PROVE  StoreInv'
<1>0. /\ HandlerOK(call[h], observations, messages) /\ call[h].pc = "find"
      /\ UNCHANGED <<observations, messages>>
  BY DEF StoreInv, HandlersInv, FindObservation
<1>1. CASE Stored(call[h].env.id)
  BY <1>0, <1>1, ProjectExistingInv DEF FindObservation
<1>2. CASE ~Stored(call[h].env.id)
  <2>1. PICK x : /\ call' = [call EXCEPT ![h] = x] /\ DOMAIN x = Fields /\ x.pc = "insert"
                 /\ x.env = call[h].env /\ x.state = call[h].state
    <3>1. CallGoTo(h, "insert")
      BY <1>2 DEF FindObservation
    <3>2. QED
      BY <3>1, CallGoesTo
  <2>2. HandlerOK(x, observations, messages)
    BY <1>0, <2>1 DEF HandlerOK
  <2>3. QED
    BY <1>0, <2>1, <2>2, HandlerSteps
<1>3. QED
  BY <1>1, <1>2

\* The insertion, unless another handler was first.
LEMMA InsertObservationInv ==
  ASSUME StoreInv, NEW h \in Handlers, InsertObservation(h), UNCHANGED <<script, acked>>
  PROVE  StoreInv'
<1> DEFINE e == call[h].env
<1>0. /\ HandlerOK(call[h], observations, messages) /\ call[h].pc = "insert"
      /\ messages' = messages /\ StoreTypes
  BY DEF StoreInv, HandlersInv, InsertObservation
<1>1. CASE Stored(e.id)
  BY <1>0, <1>1, ProjectExistingInv DEF InsertObservation
<1>2. CASE ~Stored(e.id)
  <2>0. /\ observations' = [observations EXCEPT ![e.id] = [state |-> call[h].state, at |-> e.at]]
        /\ call' = [call EXCEPT ![h].pc = "project", ![h].at = e.at]
    BY <1>2 DEF InsertObservation
  <2>1. PICK x : /\ call' = [call EXCEPT ![h] = x] /\ DOMAIN x = Fields /\ x.pc = "project"
                 /\ x.env = e /\ x.at = e.at
    <3>1. ProjectsAt(h, e.at)
      BY <2>0 DEF ProjectsAt
    <3>2. QED
      BY <3>1, CallProjects
  <2>2. PICK i \in Events : Tells(e, i)
    BY <1>0 DEF HandlerOK
  <2> HIDE DEF e
  <2>3. e = call[h].env
    BY DEF e
  <2>4. /\ e.id \in EventIds /\ e.at \in Int
        /\ call[h].state \in {"pending", "resolved"} /\ ~Hidden(e.class)
    BY <1>0, <2>2, <2>3, EventFacts DEF HandlerOK, Tells
  <2>5. /\ observations' \in [EventIds -> ObservationSet]
        /\ observations'[e.id].state # "none" /\ observations'[e.id].at = e.at
        /\ \A j \in EventIds : j # e.id => observations'[j] = observations[j]
    BY <1>0, <2>0, <2>4 DEF StoreTypes, ObservationSet
  <2>6. StoreGrows
    BY <1>0, <1>2, <2>5 DEF StoreGrows, Stored, StoreTypes
  <2>7. HandlerOK(x, observations', messages')
    BY <2>1, <2>2, <2>4, <2>5 DEF HandlerOK
  <2>8. ASSUME NEW j \in Events, Hidden(script[j].class)
        PROVE  observations'[script[j].id].state = "none"
    <3>1. script[j].id # e.id
      BY <1>0, <2>2, <2>4, <2>8, EventFacts
    <3>2. script[j].id \in EventIds
      BY <1>0, ScriptsAssumption DEF StoreTypes, Events
    <3>3. QED
      BY <2>5, <2>8, <3>1, <3>2 DEF StoreInv, AckedInv
  <2>9. /\ messages' = [m \in Messages |-> messages'[m]]
        /\ \A m \in Messages : messages'[m].at \in Int /\ messages'[m].rank \in Nat
    BY <1>0 DEF StoreTypes
  <2>10. QED
    BY <2>1, <2>5, <2>6, <2>7, <2>8, <2>9, HandlerMoves
<1>3. QED
  BY <1>1, <1>2

\* The projection of the event, unless the message is newer.
LEMMA ApplyProjectionInv ==
  ASSUME StoreInv, NEW h \in Handlers, ApplyProjection(h), UNCHANGED <<script, acked>>
  PROVE  StoreInv'
<1> DEFINE e == call[h].env
           t == call[h].at
           k == projectionEventRank(e.kind)
           m0 == messages[e.message]
<1>0. /\ HandlerOK(call[h], observations, messages) /\ call[h].pc = "project"
      /\ observations' = observations /\ StoreTypes
  BY DEF StoreInv, HandlersInv, ApplyProjection
<1>1. PICK x : /\ call' = [call EXCEPT ![h] = x] /\ DOMAIN x = Fields /\ x.pc = "stored"
               /\ x.env = e
  <2>1. CallGoTo(h, "stored")
    BY DEF ApplyProjection
  <2>2. QED
    BY <2>1, CallGoesTo
<1>2. PICK i \in Events : Tells(e, i)
  BY <1>0 DEF HandlerOK
<1>3. /\ e.id \in EventIds /\ e.message \in Messages /\ ~Hidden(e.class)
      /\ observations[e.id].state # "none" /\ t = observations[e.id].at
  BY <1>0, <1>2, EventFacts DEF HandlerOK
<1>4. t \in Int /\ k \in Nat /\ m0.at \in Int /\ m0.rank \in Nat
  BY <1>0, <1>3, RankType DEF StoreTypes, ObservationSet
<1>5. CASE newer(e.message, t, k)
  <2>0. PICK r : /\ messages' = [messages EXCEPT ![e.message] = r]
                 /\ r.at = t /\ r.rank = k
    <3> DEFINE r == [at |-> t, rank |-> k, deleted |-> e.kind = "delete",
                     text |-> IF e.kind = "delete" THEN "" ELSE e.text]
    <3>1. messages' = [messages EXCEPT ![e.message] = r]
      BY <1>5 DEF ApplyProjection
    <3>2. r.at = t /\ r.rank = k
      OBVIOUS
    <3> HIDE DEF r
    <3>3. QED
      BY <3>1, <3>2
  <2>1. m0.at < t \/ (m0.at = t /\ m0.rank <= k)
    BY <1>5 DEF newer
  <2> HIDE DEF e, t, k
  <2>2. /\ messages'[e.message] = r
        /\ \A m \in Messages : m # e.message => messages'[m] = messages[m]
        /\ messages' = [m \in Messages |-> messages'[m]]
    BY <1>0, <1>3, <2>0 DEF StoreTypes
  <2>3. \A m \in Messages : messages'[m].at \in Int /\ messages'[m].rank \in Nat
    BY <1>0, <1>4, <2>0, <2>2 DEF StoreTypes
  <2>4. StoreGrows
    <3>1. \A m \in Messages : \/ messages'[m].at > messages[m].at
                              \/ /\ messages'[m].at = messages[m].at
                                 /\ messages'[m].rank >= messages[m].rank
      <4> SUFFICES ASSUME NEW m \in Messages
                   PROVE  \/ messages'[m].at > messages[m].at
                          \/ /\ messages'[m].at = messages[m].at
                             /\ messages'[m].rank >= messages[m].rank
        OBVIOUS
      <4>1. CASE m = e.message
        BY <1>4, <2>0, <2>1, <2>2, <4>1
      <4>2. CASE m # e.message
        BY <1>0, <2>2, <4>2 DEF StoreTypes
      <4>3. QED
        BY <4>1, <4>2
    <3>2. QED
      BY <1>0, <3>1 DEF StoreGrows
  <2>5. Shows(e, observations', messages')
    BY <1>0, <1>3, <1>4, <2>0, <2>2 DEF Shows, k
  <2>6. HandlerOK(x, observations', messages')
    BY <1>1, <1>2, <1>3, <2>5 DEF HandlerOK
  <2>7. /\ observations' \in [EventIds -> ObservationSet]
        /\ \A j \in Events : Hidden(script[j].class) =>
                               observations'[script[j].id].state = "none"
    BY <1>0 DEF StoreTypes, StoreInv, AckedInv
  <2>8. QED
    BY <1>1, <2>2, <2>3, <2>4, <2>6, <2>7, HandlerMoves
<1>6. CASE ~newer(e.message, t, k)
  <2>1. messages' = messages
    BY <1>6 DEF ApplyProjection
  <2>2. ~(m0.at < t \/ (m0.at = t /\ m0.rank <= k))
    BY <1>6 DEF newer
  <2>3. m0.at > t \/ (m0.at = t /\ m0.rank >= k)
    <3> HIDE DEF m0, t, k
    <3>1. QED
      BY <1>4, <2>2
  <2>4. Shows(e, observations, messages)
    BY <1>3, <2>3 DEF Shows
  <2> HIDE DEF e
  <2>5. HandlerOK(x, observations, messages)
    BY <1>1, <1>2, <1>3, <2>4 DEF HandlerOK
  <2>6. QED
    BY <1>0, <1>1, <2>1, <2>5, HandlerSteps
<1>7. QED
  BY <1>5, <1>6

\* The handler ends its call: imported, or failed.
LEMMA HandlerEndsInv ==
  ASSUME StoreInv, NEW h \in Handlers, call' = [call EXCEPT ![h] = IdleCall],
         UNCHANGED <<script, observations, messages, acked>>
  PROVE  StoreInv'
  BY HandlerSteps, IdleCallOK

\* The watermark, and the receipt: the event shows already.
LEMMA HandlerGoesOnInv ==
  ASSUME StoreInv, NEW h \in Handlers, call[h].pc \in {"stored", "receipt"},
         NEW p \in {"receipt", "ack"}, CallGoTo(h, p),
         UNCHANGED <<script, observations, messages, acked>>
  PROVE  StoreInv'
<1>0. HandlerOK(call[h], observations, messages)
  BY DEF StoreInv, HandlersInv
<1>1. PICK x : /\ call' = [call EXCEPT ![h] = x] /\ DOMAIN x = Fields /\ x.pc = p
               /\ x.env = call[h].env
  BY CallGoesTo
<1>2. HandlerOK(x, observations, messages)
  BY <1>0, <1>1 DEF HandlerOK
<1>3. QED
  BY <1>1, <1>2, HandlerSteps

\* The acknowledgement covers the events that have the id of the envelope.
LEMMA AcknowledgeInv ==
  ASSUME StoreInv, NEW h \in Handlers, Acknowledge(h)
  PROVE  StoreInv'
<1> DEFINE e == call[h].env
<1>0. /\ HandlerOK(call[h], observations, messages) /\ call[h].pc = "ack" /\ StoreTypes
      /\ UNCHANGED <<script, observations, messages>>
      /\ call' = [call EXCEPT ![h] = IdleCall]
      /\ acked' = acked \cup {i \in Events : script[i].id = e.id}
  BY DEF StoreInv, HandlersInv, Acknowledge, HandOver
<1>1. PICK i \in Events : Tells(e, i)
  BY <1>0 DEF HandlerOK
<1>2. Hidden(e.class) \/ Shows(e, observations, messages)
  BY <1>0 DEF HandlerOK
<1> HIDE DEF e
<1>3. AckedInv'
  <2> SUFFICES ASSUME NEW j \in Events, script[j].id = e.id
               PROVE  Hidden(script[j].class) \/ Shows(script[j], observations, messages)
    BY <1>0 DEF AckedInv, Events, StoreInv, Shows
  <2>1. /\ script[j].message = e.message /\ script[j].kind = e.kind
        /\ script[j].class = e.class
    BY <1>0, <1>1, EventFacts
  <2>2. QED
    BY <1>2, <2>1 DEF Shows
<1>4. \A f \in Handlers : call'[f] = IF f = h THEN IdleCall ELSE call[f]
  BY <1>0 DEF StoreTypes
<1>5. StoreTypes'
  <2>1. call' = [f \in Handlers |-> call'[f]]
    BY <1>0, <1>4 DEF StoreTypes
  <2>2. QED
    BY <1>0, <2>1 DEF StoreTypes
<1>6. HandlersInv'
  <2> SUFFICES ASSUME NEW f \in Handlers
               PROVE  HandlerOK(call[f], observations, messages)'
    BY DEF HandlersInv
  <2>1. HandlerOK(call'[f], observations, messages)
    BY <1>4, IdleCallOK DEF HandlersInv, StoreInv
  <2>2. QED
    BY <1>0, <2>1 DEF HandlerOK, Tells, Events, Shows
<1>7. QED
  BY <1>3, <1>5, <1>6 DEF StoreInv

(***************************************************************************)
(* The two halves together.                                                *)
(***************************************************************************)
\* Steps that leave a half alone.
LEMMA AuditFrame == AuditInv /\ UNCHANGED auditVars => AuditInv'
  BY DEF auditVars, AuditInv, AuditTypes, ChainInv, UniqueInv, AppendersInv
LEMMA StoreFrame == StoreInv /\ UNCHANGED <<storeVars, script, acked>> => StoreInv'
  BY DEF storeVars, StoreInv, StoreTypes, HandlersInv, HandlerOK, AckedInv, Tells, Events, Shows

\* A call of Append starts: a handler's for its event, an administrator's only one.
LEMMA AppendStarts ==
  ASSUME AuditInv, NEW a \in Appenders, app[a].pc = "idle", app[a].result = "none",
         NEW c, IF a \in Handlers THEN c \in EventIds ELSE c = a,
         app' = [app EXCEPT ![a] = [IdleAppender EXCEPT !.pc = "find", !.call = c]],
         UNCHANGED <<receipts, head>>
  PROVE  AuditInv'
<1> DEFINE x == [IdleAppender EXCEPT !.pc = "find", !.call = c]
<1>1. c \in CallSet
  BY ReceiptsAssumption DEF CallSet
<1>2. x \in AppenderSet /\ x.pc = "find" /\ x.call = c
  BY <1>1, IdleAppenderFields DEF AppenderSet, AppPlace
<1>3. AppOK(a, app[a], receipts, head.sequence)
  BY DEF AuditInv, AppendersInv
<1> HIDE DEF x
<1>4. AppOK(a, x, receipts, head.sequence)
  BY <1>2, <1>3 DEF AppOK, HeadRead, Followed, Inserted, Before
<1>5. QED
  BY <1>2, <1>4, AppenderSteps DEF x

\* A handler has the result of its append, or starts over.
LEMMA AppendEnds ==
  ASSUME AuditInv, NEW h \in Handlers, app' = [app EXCEPT ![h] = IdleAppender],
         UNCHANGED <<receipts, head>>
  PROVE  AuditInv'
<1>1. h \in Appenders
  BY LiveAssumption
<1>2. AppOK(h, IdleAppender, receipts, head.sequence)
  BY IdleAppenderFields DEF AppOK, HeadRead, Followed, Inserted
<1>3. QED
  BY <1>1, <1>2, IdleAppenderFields, AppenderSteps

\* A handler and its receipt.
LEMMA appendReceiptInv ==
  ASSUME IInv, NEW h \in Handlers, appendReceipt(h)
  PROVE  IInv'
<1>0. /\ AuditInv /\ StoreInv /\ h \in Appenders /\ call[h].pc = "receipt"
      /\ UNCHANGED <<receipts, head>>
      /\ UNCHANGED <<script, observations, messages, acked>>
  BY LiveAssumption DEF IInv, appendReceipt, HandOver, ingressVars
<1>1. CASE /\ app[h].pc = "idle" /\ app[h].result = "none"
           /\ app' = [app EXCEPT ![h] = [IdleAppender EXCEPT !.pc = "find",
                                                             !.call = call[h].env.id]]
           /\ UNCHANGED call
  <2>1. call[h].env.id \in EventIds
    BY <1>0, EventFacts DEF StoreInv, HandlersInv, HandlerOK
  <2>2. AuditInv'
    BY <1>0, <1>1, <2>1, AppendStarts
  <2>3. StoreInv'
    BY <1>0, <1>1, StoreFrame DEF storeVars
  <2>4. QED
    BY <2>2, <2>3 DEF IInv
<1>2. CASE app' = [app EXCEPT ![h] = IdleAppender] /\ CallGoTo(h, "ack")
  BY <1>0, <1>2, AppendEnds, HandlerGoesOnInv DEF IInv
<1>3. QED
  BY <1>1, <1>2 DEF appendReceipt

\* The steps of a handler.
LEMMA HandlerInv ==
  ASSUME IInv, NEW h \in Handlers,
         \/ \E i \in Events : Deliver(h, i) \/ ImportContextEnvelope(h, i)
         \/ StoreStep(h) /\ UNCHANGED <<auditVars, ingressVars>>
         \/ Import(h) \/ advanceContextSyncWatermark(h) \/ appendReceipt(h)
         \/ Acknowledge(h) \/ HandlerFails(h)
  PROVE  IInv'
<1>0. AuditInv /\ StoreInv
  BY DEF IInv
<1>1. CASE \E i \in Events : Deliver(h, i) \/ ImportContextEnvelope(h, i)
  <2>1. UNCHANGED auditVars
    BY <1>1 DEF Deliver, ImportContextEnvelope
  <2>2. QED
    BY <1>0, <1>1, <2>1, DeliverInv, ImportContextInv, AuditFrame DEF IInv
<1>2. CASE StoreStep(h) /\ UNCHANGED <<auditVars, ingressVars>>
  BY <1>0, <1>2, FindObservationInv, InsertObservationInv, ApplyProjectionInv, AuditFrame
     DEF IInv, StoreStep, ingressVars
<1>3. CASE Import(h)
  BY <1>0, <1>3, HandlerEndsInv, AuditFrame DEF IInv, Import, HandOver, ingressVars
<1>4. CASE advanceContextSyncWatermark(h)
  <2> DEFINE p == IF ContextOnly(call[h].env) THEN "ack" ELSE "receipt"
  <2>1. CallGoTo(h, p) /\ p \in {"receipt", "ack"} /\ call[h].pc = "stored"
    BY <1>4 DEF advanceContextSyncWatermark
  <2> HIDE DEF p
  <2>2. UNCHANGED <<script, observations, messages, acked>> /\ UNCHANGED auditVars
    BY <1>4 DEF advanceContextSyncWatermark, HandOver, Slack
  <2>3. QED
    BY <1>0, <2>1, <2>2, HandlerGoesOnInv, AuditFrame DEF IInv
<1>5. CASE Acknowledge(h)
  BY <1>0, <1>5, AcknowledgeInv, AuditFrame DEF IInv, Acknowledge
<1>6. CASE HandlerFails(h)
  BY <1>0, <1>6, HandlerEndsInv, AppendEnds DEF IInv, HandlerFails, StoreFails, Slack
<1>7. QED
  BY <1>1, <1>2, <1>3, <1>4, <1>5, <1>6, appendReceiptInv

\* The steps of an appender.
LEMMA AppenderInv ==
  ASSUME IInv, NEW a \in Appenders,
         \/ AppendStep(a) /\ UNCHANGED <<storeVars, ingressVars>>
         \/ AdminReceipt(a) \/ AppenderFails(a)
  PROVE  IInv'
<1>0. AuditInv /\ StoreInv
  BY DEF IInv
<1>1. StoreInv'
  BY <1>0, StoreFrame DEF ingressVars, AdminReceipt, AppenderFails, Slack
<1>2. CASE AppendStep(a)
  BY <1>0, <1>1, <1>2, SettlingInv, ReadHeadInv, LookAheadInv, AdoptInv, InsertInv,
     MoveHeadInv, RereadInv
     DEF IInv, AppendStep
<1>3. CASE AdminReceipt(a)
  <2>1. a \notin Handlers
    BY <1>3 DEF AdminReceipt
  <2>2. QED
    BY <1>0, <1>1, <1>3, <2>1, AppendStarts DEF IInv, AdminReceipt
<1>4. CASE AppenderFails(a)
  BY <1>0, <1>1, <1>4, SettlingInv, MoveHeadInv DEF IInv, AppenderFails
<1>5. QED
  BY <1>2, <1>3, <1>4

\* The invariant holds at the start.
LEMMA InitIInv == Init => IInv
<1> SUFFICES ASSUME Init PROVE IInv
  OBVIOUS
<1>1. receipts = << >> /\ Len(receipts) = 0 /\ head = NoHead /\ receipts \in Seq(ReceiptSet)
  BY DEF Init, AuditInit
<1>2. head \in HeadSet /\ head.sequence = 0 /\ head.version = 0 /\ head.hash = << >>
  BY <1>1 DEF NoHead, HeadSet, Hashes
<1>3. \A a \in Appenders : app[a] = IdleAppender
  BY DEF Init, AuditInit
<1>4. AuditTypes
  BY <1>1, <1>2, IdleAppenderFields DEF AuditTypes, Init, AuditInit
<1>5. ChainInv /\ UniqueInv
  BY <1>1, <1>2 DEF ChainInv, UniqueInv, HeadOK, HashAt
<1>6. AppendersInv
  BY <1>1, <1>3, IdleAppenderFields DEF AppendersInv, AppOK, HeadRead, Followed, Inserted
<1>7. StoreTypes
  <2>1. observations \in [EventIds -> ObservationSet]
    BY DEF Init, StoreInit, NoObservation, ObservationSet
  <2>2. /\ messages = [m \in Messages |-> messages[m]]
        /\ \A m \in Messages : messages[m] = NoMessage
    BY DEF Init, StoreInit
  <2>3. NoMessage.at \in Int /\ NoMessage.rank \in Nat
    BY DEF NoMessage
  <2>4. script \in Scripts /\ call = [h \in Handlers |-> call[h]]
    BY DEF Init, StoreInit
  <2>5. QED
    BY <2>1, <2>2, <2>3, <2>4 DEF StoreTypes
<1>8. HandlersInv
  BY IdleCallOK DEF HandlersInv, Init, StoreInit
<1>9. AckedInv
  <2>1. \A i \in Events : script[i].id \in EventIds
    BY <1>7, ScriptsAssumption DEF StoreTypes, Events
  <2>2. QED
    BY <2>1 DEF AckedInv, Init, StoreInit, NoObservation
<1>10. QED
  BY <1>4, <1>5, <1>6, <1>7, <1>8, <1>9 DEF IInv, AuditInv, StoreInv

\* Every step keeps it.
LEMMA NextIInv ==
  ASSUME IInv, [Next]_vars
  PROVE  IInv'
<1>1. CASE SlackEvent
  BY <1>1, AuditFrame, StoreFrame DEF IInv, SlackEvent
<1>2. CASE UNCHANGED vars
  BY <1>2, AuditFrame, StoreFrame DEF IInv, vars, ingressVars
<1>3. QED
  BY <1>1, <1>2, HandlerInv, AppenderInv DEF Next

(***************************************************************************)
(* The theorems.                                                           *)
(***************************************************************************)
\* What the invariant says of the audit trail, and of what is acknowledged.
LEMMA IInvImpliesChain == IInv => ChainIntact
<1> SUFFICES ASSUME IInv PROVE ChainIntact
  OBVIOUS
<1> DEFINE L == Len(receipts)
<1>0. /\ receipts \in Seq(ReceiptSet) /\ head.sequence \in Nat /\ L \in Nat
      /\ app \in [Appenders -> AppenderSet] /\ ChainInv /\ UniqueInv
  BY DEF IInv, AuditInv, AuditTypes, HeadSet
<1>1. DOMAIN receipts = 1 .. L
  BY <1>0
<1>2. Cardinality(1 .. L) = L
  <2> HIDE DEF L
  <2>1. QED
    BY <1>0, FS_Interval
<1>3. \A n \in 1 .. L : receipts[n].previous = IF n = 1 THEN << >> ELSE hashReceipt(receipts[n - 1])
  <2> SUFFICES ASSUME NEW n \in 1 .. L
               PROVE  receipts[n].previous = IF n = 1 THEN << >> ELSE hashReceipt(receipts[n - 1])
    OBVIOUS
  <2>1. receipts[n].previous = HashAt(receipts, n - 1)
    BY <1>0 DEF ChainInv
  <2>2. n - 1 = 0 <=> n = 1
    BY <1>0
  <2>3. QED
    BY <2>1, <2>2 DEF HashAt
<1>4. /\ head.sequence \in {L - 1, L}
      /\ head.hash = IF head.sequence = 0 THEN << >> ELSE hashReceipt(receipts[head.sequence])
  BY <1>0 DEF ChainInv, HeadOK, HashAt
<1>5. Verifies
  BY <1>1, <1>2, <1>3, <1>4 DEF Verifies
<1>6. \A a \in Appenders : app[a].result # "tampered"
  BY <1>0 DEF AppenderSet, Results
<1>7. QED
  BY <1>0, <1>1, <1>5, <1>6 DEF ChainIntact, UniqueInv
LEMMA IInvImpliesAcked == IInv => AckedIsProjected
  BY DEF IInv, StoreInv, AckedInv, AckedIsProjected, Shows, Hidden, Visible, Stored, Rank

\* Wherever appenders stop and however they interleave, the chain verifies but for a
\* head one receipt behind, no key and no call has two receipts, and no appender takes
\* a receipt of another for a tampered one.
THEOREM ChainSafe == Spec => []ChainIntact
<1>1. Init => IInv
  BY InitIInv
<1>2. IInv /\ [Next]_vars => IInv'
  BY NextIInv
<1>3. IInv => ChainIntact
  BY IInvImpliesChain
<1>4. QED
  BY <1>1, <1>2, <1>3, PTL DEF Spec

\* An acknowledged event is in the store and its message as new as the event, however
\* late, often and crossed the events came and wherever a handler stopped.
THEOREM AckedSafe == Spec => []AckedIsProjected
<1>1. Init => IInv
  BY InitIInv
<1>2. IInv /\ [Next]_vars => IInv'
  BY NextIInv
<1>3. IInv => AckedIsProjected
  BY IInvImpliesAcked
<1>4. QED
  BY <1>1, <1>2, <1>3, PTL DEF Spec

\* The list that the receipts are.
Listed == [n \in 1 .. Len(receipts) |-> receipts[n].call]

\* Only an insertion changes the receipts.
LEMMA OnlyInsert ==
  ASSUME [Next]_vars
  PROVE  \/ receipts' = receipts
         \/ \E a \in Appenders : /\ Insert(a)
                                 /\ ~HasKey(KeyOf[app[a].call])
                                 /\ ~HasSequence(app[a].head.sequence + 1)
<1>1. CASE SlackEvent
  BY <1>1 DEF SlackEvent, auditVars
<1>2. CASE UNCHANGED vars
  BY <1>2 DEF vars, auditVars
<1>3. ASSUME NEW h \in Handlers,
             \/ \E i \in Events : Deliver(h, i) \/ ImportContextEnvelope(h, i)
             \/ StoreStep(h) /\ UNCHANGED <<auditVars, ingressVars>>
             \/ Import(h) \/ advanceContextSyncWatermark(h) \/ appendReceipt(h)
             \/ Acknowledge(h) \/ HandlerFails(h)
      PROVE  receipts' = receipts
  BY <1>3 DEF Deliver, ImportContextEnvelope, Import, advanceContextSyncWatermark,
              appendReceipt, Acknowledge, HandlerFails, auditVars
<1>4. ASSUME NEW a \in Appenders,
             \/ AppendStep(a) /\ UNCHANGED <<storeVars, ingressVars>>
             \/ AdminReceipt(a) \/ AppenderFails(a)
      PROVE  receipts' = receipts \/ (Insert(a) /\ ~HasKey(KeyOf[app[a].call])
                                      /\ ~HasSequence(app[a].head.sequence + 1))
  <2>1. CASE Insert(a)
    BY <2>1 DEF Insert
  <2>2. CASE ~Insert(a)
    BY <1>4, <2>2 DEF AppendStep, FindByKey, ReadHead, LookAhead, Adopt, Exists, MoveHead,
                      Reread, AdminReceipt, AppenderFails, AppendFails, SwapAnswerLost
  <2>3. QED
    BY <2>1, <2>2
<1>5. QED
  BY <1>1, <1>2, <1>3, <1>4 DEF Next

\* An insertion appends to the list, and every other step leaves it alone.
LEMMA StepRefines ==
  ASSUME IInv, [Next]_vars
  PROVE  [Log!Next]_Listed
<1>1. CASE receipts' = receipts
  BY <1>1 DEF Listed
<1>2. CASE \E a \in Appenders : /\ Insert(a)
                                /\ ~HasKey(KeyOf[app[a].call])
                                /\ ~HasSequence(app[a].head.sequence + 1)
  <2>0. PICK a \in Appenders : /\ Insert(a)
                               /\ ~HasKey(KeyOf[app[a].call])
                               /\ ~HasSequence(app[a].head.sequence + 1)
    BY <1>2
  <2> DEFINE c == app[a].call
             L == Len(receipts)
  <2>1. /\ c \in Calls
        /\ receipts' \in Seq(ReceiptSet)
        /\ Len(receipts') = L + 1
        /\ \A m \in 1 .. L : receipts'[m] = receipts[m]
        /\ receipts'[L + 1].call = c
    BY <2>0, InsertAppends DEF IInv
  <2>2. receipts \in Seq(ReceiptSet) /\ L \in Nat /\ DOMAIN receipts = 1 .. L
    BY DEF IInv, AuditInv, AuditTypes
  <2>3. Listed \in Seq(Calls) /\ Len(Listed) = L /\ DOMAIN Listed = 1 .. L
        /\ \A m \in 1 .. L : Listed[m] = receipts[m].call
    <3>0. \A m \in 1 .. L : receipts[m] \in ReceiptSet
      BY <2>2
    <3>1. \A m \in 1 .. L : receipts[m].call \in Calls
      BY <3>0 DEF ReceiptSet
    <3>2. Listed \in [1 .. L -> Calls]
      BY <3>1 DEF Listed
    <3> HIDE DEF L
    <3>3. Listed \in Seq(Calls) /\ Len(Listed) = L /\ DOMAIN Listed = 1 .. L
      BY <2>2, <3>2
    <3>4. QED
      BY <3>3 DEF Listed, L
  <2>4. Listed' \in Seq(Calls) /\ Len(Listed') = L + 1
        /\ \A m \in 1 .. (L + 1) : Listed'[m] = receipts'[m].call
    <3>0. \A m \in 1 .. (L + 1) : receipts'[m] \in ReceiptSet
      BY <2>1
    <3>1. \A m \in 1 .. (L + 1) : receipts'[m].call \in Calls
      BY <3>0 DEF ReceiptSet
    <3>2. Listed' = [m \in 1 .. (L + 1) |-> receipts'[m].call]
      BY <2>1 DEF Listed
    <3> HIDE DEF L
    <3>3. Listed' \in [1 .. (L + 1) -> Calls]
      BY <3>1, <3>2
    <3>4. Listed' \in Seq(Calls) /\ Len(Listed') = L + 1
      BY <2>2, <3>3
    <3>5. QED
      BY <3>2, <3>4
  <2> HIDE DEF c, L
  <2>5. Listed' = Append(Listed, c)
    <3>1. /\ Append(Listed, c) \in Seq(Calls) /\ Len(Append(Listed, c)) = L + 1
          /\ \A m \in 1 .. L : Append(Listed, c)[m] = Listed[m]
          /\ Append(Listed, c)[L + 1] = c
      BY <2>1, <2>3, AppendProperties
    <3>2. \A m \in 1 .. (L + 1) : m = L + 1 \/ m \in 1 .. L
      BY <2>2
    <3>3. \A m \in 1 .. (L + 1) : Listed'[m] = Append(Listed, c)[m]
      BY <2>1, <2>3, <2>4, <3>1, <3>2
    <3>4. QED
      BY <2>4, <3>1, <3>3, SeqEqual
  <2>6. ~(KeyOf[c] # NoKey /\ \E i \in DOMAIN Listed : KeyOf[Listed[i]] = KeyOf[c])
    BY <2>0, <2>2, <2>3 DEF HasKey, c
  <2>7. Log!Next
    BY <2>1, <2>5, <2>6 DEF Log!Next, Log!Append1, Log!Recorded, Listed
  <2>8. QED
    BY <2>7
<1>3. QED
  BY <1>1, <1>2, OnlyInsert

\* Every receipt was appended to the list under a lock that core/audit promises, by a
\* step of its own; no receipt changes and none is lost.
THEOREM ChainIsTheLog == Spec => ImplementsLog
<1>1. Init => IInv
  BY InitIInv
<1>2. IInv /\ [Next]_vars => IInv'
  BY NextIInv
<1>3. Init => Log!Init
  <2>1. Init => Len(receipts) = 0
    BY DEF Init, AuditInit
  <2>2. QED
    BY <2>1 DEF Log!Init
<1>4. IInv /\ [Next]_vars => [Log!Next]_Listed
  BY StepRefines
<1>5. QED
  BY <1>1, <1>2, <1>3, <1>4, PTL DEF Spec, ImplementsLog, Log!Spec, Listed

(***************************************************************************)
(* What a message reads.  The times in the store decide between the events *)
(* of a message, so the invariant says where each time and each text came  *)
(* from: from an event, or, for the text of a message that the history     *)
(* showed, from a later event of that message.                             *)
(***************************************************************************)
\* The times the store may keep for event i of the script s: history has the exact one.
Stamps(s, i) == {Seconds(s[i].at)} \cup {t \in {s[i].at} : s[i].kind = "message"}

\* What event i may bring as its text: an imported message has that of a later version.
Wording(s, i, text) ==
  \E j \in DOMAIN s : /\ s[j].message = s[i].message /\ text = s[j].text
                      /\ s[i].kind # "message" => j = i

\* The envelope e brings event i.
Brings(e, s, i) == /\ e.id = s[i].id /\ e.message = s[i].message /\ e.kind = s[i].kind
                   /\ e.at \in Stamps(s, i) /\ Wording(s, i, e.text)

\* The message r is what event i, stored at time t, made it.
MadeBy(r, s, i, t) == /\ r.at = t /\ r.rank = projectionEventRank(s[i].kind)
                      /\ r.deleted = (s[i].kind = "delete")
                      /\ IF s[i].kind = "delete" THEN r.text = "" ELSE Wording(s, i, r.text)

HappenedInv == happened \in Nat /\ happened <= Len(script)
BringsInv == \A h \in Handlers :
  call[h].pc # "idle" => \E i \in DOMAIN script : Brings(call[h].env, script, i)
StampsInv == \A i \in DOMAIN script : observations[script[i].id].state # "none" =>
  \E j \in DOMAIN script : /\ script[j].id = script[i].id
                           /\ observations[script[i].id].at \in Stamps(script, j)
MadeInv == \A m \in Messages :
  \/ messages[m].at = -1
  \/ \E i \in DOMAIN script : /\ script[i].message = m
                              /\ observations[script[i].id].state # "none"
                              /\ MadeBy(messages[m], script, i, observations[script[i].id].at)
ReadsInv == HappenedInv /\ BringsInv /\ StampsInv /\ MadeInv

\* A step that leaves the store and the calls alone.
LEMMA ReadsFrame ==
  ASSUME ReadsInv, UNCHANGED <<script, storeVars>>, HappenedInv'
  PROVE  ReadsInv'
<1>1. BringsInv'
  BY DEF ReadsInv, BringsInv, storeVars
<1>2. StampsInv'
  BY DEF ReadsInv, StampsInv, storeVars
<1>3. MadeInv'
  BY DEF ReadsInv, MadeInv, storeVars
<1>4. QED
  BY <1>1, <1>2, <1>3 DEF ReadsInv

\* The handler's call becomes x: over, about the same envelope, or one that brings an event.
LEMMA BringsCall ==
  ASSUME StoreTypes, ReadsInv, NEW h \in Handlers, NEW x, call' = [call EXCEPT ![h] = x],
         script' = script,
         \/ x.pc = "idle"
         \/ call[h].pc # "idle" /\ x.env = call[h].env
         \/ \E i \in DOMAIN script : Brings(x.env, script, i)
  PROVE  BringsInv'
<1>1. \A f \in Handlers : call'[f] = IF f = h THEN x ELSE call[f]
  BY DEF StoreTypes
<1>2. x.pc # "idle" => \E i \in DOMAIN script : Brings(x.env, script, i)
  BY DEF ReadsInv, BringsInv
<1>3. \A f \in Handlers :
        call'[f].pc # "idle" => \E i \in DOMAIN script : Brings(call'[f].env, script, i)
  BY <1>1, <1>2 DEF ReadsInv, BringsInv
<1>4. QED
  BY <1>3 DEF BringsInv

\* And nothing else changes.
LEMMA ReadsCall ==
  ASSUME StoreTypes, ReadsInv, NEW h \in Handlers, NEW x, call' = [call EXCEPT ![h] = x],
         UNCHANGED <<script, happened, observations, messages>>,
         \/ x.pc = "idle"
         \/ call[h].pc # "idle" /\ x.env = call[h].env
         \/ \E i \in DOMAIN script : Brings(x.env, script, i)
  PROVE  ReadsInv'
<1>1. BringsInv'
  BY BringsCall
<1>2. HappenedInv'
  BY DEF ReadsInv, HappenedInv
<1>3. StampsInv'
  BY DEF ReadsInv, StampsInv
<1>4. MadeInv'
  BY DEF ReadsInv, MadeInv
<1>5. QED
  BY <1>1, <1>2, <1>3, <1>4 DEF ReadsInv

\* Slack delivers an event.
LEMMA ReadsDeliver ==
  ASSUME StoreInv, ReadsInv, NEW h \in Handlers, NEW i \in Events, Deliver(h, i)
  PROVE  ReadsInv'
<1> DEFINE e == NormalizeEventsAPI(i)
<1>0. UNCHANGED <<script, happened, observations, messages>> /\ StoreTypes
  BY DEF Deliver, HandOver, StoreInv
<1>1. Brings(e, script, i)
  <2>1. e.at \in Stamps(script, i)
    BY DEF Stamps, NormalizeEventsAPI
  <2>2. Wording(script, i, e.text)
    BY DEF Wording, NormalizeEventsAPI, Events
  <2>3. QED
    BY <2>1, <2>2 DEF Brings, NormalizeEventsAPI
<1>2. \E x : call' = [call EXCEPT ![h] = x] /\ x.env = e
  <2> DEFINE a == [IdleCall EXCEPT !.pc = "ack", !.env = e]
             b(s) == [IdleCall EXCEPT !.pc = "find", !.env = e, !.state = s]
  <2>1. a.env = e /\ \A s : b(s).env = e
    BY DEF IdleCall
  <2>2. call' = [call EXCEPT ![h] = a] \/ \E s : call' = [call EXCEPT ![h] = b(s)]
    BY DEF Deliver, StoreCall
  <2>3. QED
    BY <2>1, <2>2
<1> HIDE DEF e
<1>3. QED
  BY <1>0, <1>1, <1>2, ReadsCall DEF Events

\* The context sync imports a message, with the text it has now.
LEMMA ReadsImportContext ==
  ASSUME StoreInv, ReadsInv, NEW h \in Handlers, NEW i \in Events, ImportContextEnvelope(h, i)
  PROVE  ReadsInv'
<1>0. /\ UNCHANGED <<script, happened, observations, messages>> /\ StoreTypes
      /\ script[i].kind = "message"
  BY DEF ImportContextEnvelope, HandOver, Slack, StoreInv, Shown
<1>1. PICK now \in 1 .. happened : /\ script[now].message = script[i].message
                                   /\ StoreCall(h, historyEnvelope(i, now), "resolved")
  BY DEF ImportContextEnvelope
<1> DEFINE e == historyEnvelope(i, now)
           x == [IdleCall EXCEPT !.pc = "find", !.env = e, !.state = "resolved"]
<1>2. now \in DOMAIN script
  <2>1. DOMAIN script = 1 .. Len(script) /\ Len(script) \in Nat
    BY <1>0, ScriptsAssumption DEF StoreTypes
  <2>2. happened \in Nat /\ happened <= Len(script)
    BY DEF ReadsInv, HappenedInv
  <2>3. QED
    BY <2>1, <2>2
<1>3. e.at \in Stamps(script, i)
  BY <1>0 DEF Stamps, historyEnvelope
<1>4. Wording(script, i, e.text)
  BY <1>0, <1>1, <1>2 DEF Wording, historyEnvelope
<1>5. Brings(e, script, i)
  BY <1>0, <1>3, <1>4 DEF Brings, historyEnvelope
<1>6. call' = [call EXCEPT ![h] = x] /\ x.env = e
  BY <1>1 DEF StoreCall, IdleCall
<1> HIDE DEF e, x
<1>7. QED
  BY <1>0, <1>5, <1>6, ReadsCall DEF Events

\* The lookup before the insertion.
LEMMA ReadsFind ==
  ASSUME StoreInv, ReadsInv, NEW h \in Handlers, FindObservation(h), UNCHANGED <<script, happened>>
  PROVE  ReadsInv'
<1>0. StoreTypes /\ call[h].pc = "find" /\ UNCHANGED <<observations, messages>>
  BY DEF StoreInv, FindObservation
<1>1. PICK x : call' = [call EXCEPT ![h] = x] /\ x.env = call[h].env
  <2>1. CASE Stored(call[h].env.id)
    BY <2>1, CallProjects DEF FindObservation, ProjectExisting, ProjectsAt
  <2>2. CASE ~Stored(call[h].env.id)
    BY <2>2, CallGoesTo DEF FindObservation
  <2>3. QED
    BY <2>1, <2>2
<1>2. QED
  BY <1>0, <1>1, ReadsCall

\* The insertion: the time is that of the envelope, and those that are there stay.
LEMMA ReadsInsert ==
  ASSUME StoreInv, ReadsInv, NEW h \in Handlers, InsertObservation(h), UNCHANGED <<script, happened>>
  PROVE  ReadsInv'
<1> DEFINE e == call[h].env
<1>0. StoreTypes /\ call[h].pc = "insert" /\ messages' = messages
  BY DEF StoreInv, InsertObservation
<1>1. CASE Stored(e.id)
  <2>1. ProjectsAt(h, observations[e.id].at) /\ observations' = observations
    BY <1>1 DEF InsertObservation, ProjectExisting, ProjectsAt
  <2>2. PICK x : call' = [call EXCEPT ![h] = x] /\ x.env = call[h].env
    BY <2>1, CallProjects
  <2>3. QED
    BY <1>0, <2>1, <2>2, ReadsCall
<1>2. CASE ~Stored(e.id)
  <2>0. /\ observations' = [observations EXCEPT ![e.id] = [state |-> call[h].state, at |-> e.at]]
        /\ ProjectsAt(h, e.at)
    BY <1>2 DEF InsertObservation, ProjectsAt
  <2>1. PICK x : call' = [call EXCEPT ![h] = x] /\ x.env = call[h].env
    BY <2>0, CallProjects
  <2>2. PICK i \in DOMAIN script : Brings(e, script, i)
    BY <1>0 DEF ReadsInv, BringsInv
  <2>3. \A j \in DOMAIN script : script[j].id \in EventIds
    BY <1>0, ScriptsAssumption DEF StoreTypes
  <2>4. e.id = script[i].id /\ e.at \in Stamps(script, i) /\ e.id \in EventIds
    BY <2>2, <2>3 DEF Brings
  <2>5. observations[e.id].state = "none"
    BY <1>2 DEF Stored
  <2> HIDE DEF e
  <2>6. /\ observations'[e.id].at = e.at
        /\ \A j \in EventIds : j # e.id => observations'[j] = observations[j]
    BY <1>0, <2>0, <2>4 DEF StoreTypes
  <2>7. BringsInv'
    BY <1>0, <2>1, BringsCall
  <2>8. HappenedInv'
    BY DEF ReadsInv, HappenedInv
  <2>9. StampsInv'
    <3>1. ASSUME NEW k \in DOMAIN script, observations'[script[k].id].state # "none"
          PROVE  \E j \in DOMAIN script : /\ script[j].id = script[k].id
                                          /\ observations'[script[k].id].at \in Stamps(script, j)
      <4>1. CASE script[k].id = e.id
        BY <2>4, <2>6, <4>1
      <4>2. CASE script[k].id # e.id
        BY <2>3, <2>6, <3>1, <4>2 DEF ReadsInv, StampsInv
      <4>3. QED
        BY <4>1, <4>2
    <3>2. QED
      BY <3>1 DEF StampsInv
  <2>10. MadeInv'
    <3>1. \A k \in DOMAIN script : observations[script[k].id].state # "none" =>
            observations'[script[k].id] = observations[script[k].id]
      BY <2>3, <2>5, <2>6
    <3>2. QED
      BY <1>0, <3>1 DEF ReadsInv, MadeInv
  <2>11. QED
    BY <2>7, <2>8, <2>9, <2>10 DEF ReadsInv
<1>3. QED
  BY <1>1, <1>2

\* The projection: the message becomes what the event makes it, or stays.
LEMMA ReadsApply ==
  ASSUME StoreInv, ReadsInv, NEW h \in Handlers, ApplyProjection(h), UNCHANGED <<script, happened>>
  PROVE  ReadsInv'
<1> DEFINE e == call[h].env
           t == call[h].at
           k == projectionEventRank(e.kind)
           r == [at |-> t, rank |-> k, deleted |-> e.kind = "delete",
                 text |-> IF e.kind = "delete" THEN "" ELSE e.text]
<1>0. /\ StoreTypes /\ HandlerOK(call[h], observations, messages) /\ call[h].pc = "project"
      /\ observations' = observations
  BY DEF StoreInv, HandlersInv, ApplyProjection
<1>1. PICK x : call' = [call EXCEPT ![h] = x] /\ x.env = call[h].env
  BY CallGoesTo DEF ApplyProjection
<1>2. PICK i \in DOMAIN script : Brings(e, script, i)
  BY <1>0 DEF ReadsInv, BringsInv
<1>3. observations[e.id].state # "none" /\ t = observations[e.id].at
  BY <1>0 DEF HandlerOK
<1>4. messages' = [messages EXCEPT ![e.message] = r] \/ messages' = messages
  BY DEF ApplyProjection
<1>5. e.id = script[i].id /\ e.message = script[i].message /\ e.kind = script[i].kind
  BY <1>2 DEF Brings
<1>6. MadeBy(r, script, i, observations[script[i].id].at)
  BY <1>2, <1>3, <1>5 DEF MadeBy, Brings
<1> HIDE DEF e, t, r
<1>7. BringsInv'
  BY <1>0, <1>1, BringsCall
<1>8. HappenedInv'
  BY DEF ReadsInv, HappenedInv
<1>9. StampsInv'
  BY <1>0 DEF ReadsInv, StampsInv
<1>10. MadeInv'
  <2>1. CASE messages' = messages
    BY <1>0, <2>1 DEF ReadsInv, MadeInv
  <2>2. CASE messages' = [messages EXCEPT ![e.message] = r]
    <3>1. \A m \in Messages : messages'[m] = IF m = e.message THEN r ELSE messages[m]
      BY <1>0, <2>2 DEF StoreTypes
    <3>2. QED
      BY <1>0, <1>3, <1>5, <1>6, <3>1 DEF ReadsInv, MadeInv
  <2>3. QED
    BY <1>4, <2>1, <2>2
<1>11. QED
  BY <1>7, <1>8, <1>9, <1>10 DEF ReadsInv

\* The steps of a handler.
LEMMA ReadsHandler ==
  ASSUME StoreInv, ReadsInv, NEW h \in Handlers,
         \/ \E i \in Events : Deliver(h, i) \/ ImportContextEnvelope(h, i)
         \/ StoreStep(h) /\ UNCHANGED <<auditVars, ingressVars>>
         \/ Import(h) \/ advanceContextSyncWatermark(h) \/ appendReceipt(h)
         \/ Acknowledge(h) \/ HandlerFails(h)
  PROVE  ReadsInv'
<1>0. StoreTypes /\ IdleCall.pc = "idle"
  BY DEF StoreInv, IdleCall
<1>1. CASE \E i \in Events : Deliver(h, i) \/ ImportContextEnvelope(h, i)
  BY <1>1, ReadsDeliver, ReadsImportContext
<1>2. CASE StoreStep(h) /\ UNCHANGED <<auditVars, ingressVars>>
  BY <1>2, ReadsFind, ReadsInsert, ReadsApply DEF StoreStep, ingressVars
<1>3. CASE Import(h) \/ Acknowledge(h) \/ HandlerFails(h)
  <2>1. /\ call' = [call EXCEPT ![h] = IdleCall]
        /\ UNCHANGED <<script, happened, observations, messages>>
    BY <1>3 DEF Import, Acknowledge, HandlerFails, StoreFails, HandOver, ingressVars, Slack
  <2>2. QED
    BY <1>0, <2>1, ReadsCall
<1>4. CASE advanceContextSyncWatermark(h)
  <2>1. /\ call[h].pc # "idle" /\ \E p : CallGoTo(h, p)
        /\ UNCHANGED <<script, happened, observations, messages>>
    BY <1>4 DEF advanceContextSyncWatermark, HandOver, Slack
  <2>2. QED
    BY <1>0, <2>1, CallGoesTo, ReadsCall
<1>5. CASE appendReceipt(h)
  <2>1. /\ call[h].pc # "idle" /\ UNCHANGED <<script, happened, observations, messages>>
        /\ call' = call \/ CallGoTo(h, "ack")
    BY <1>5 DEF appendReceipt, HandOver, ingressVars
  <2>2. CASE call' = call
    <3>1. HappenedInv'
      BY <2>1 DEF ReadsInv, HappenedInv
    <3>2. QED
      BY <2>1, <2>2, <3>1, ReadsFrame DEF storeVars
  <2>3. CASE CallGoTo(h, "ack")
    BY <1>0, <2>1, <2>3, CallGoesTo, ReadsCall
  <2>4. QED
    BY <2>1, <2>2, <2>3
<1>6. QED
  BY <1>1, <1>2, <1>3, <1>4, <1>5

\* Every step keeps it.
LEMMA NextReads ==
  ASSUME StoreInv, ReadsInv, [Next]_vars
  PROVE  ReadsInv'
<1>0. Len(script) \in Nat /\ HappenedInv
  BY ScriptsAssumption DEF StoreInv, StoreTypes, ReadsInv
<1>1. CASE SlackEvent
  <2>1. HappenedInv'
    BY <1>0, <1>1 DEF SlackEvent, HappenedInv
  <2>2. QED
    BY <1>1, <2>1, ReadsFrame DEF SlackEvent
<1>2. CASE UNCHANGED <<script, happened, storeVars>>
  <2>1. HappenedInv'
    BY <1>0, <1>2 DEF HappenedInv
  <2>2. QED
    BY <1>2, <2>1, ReadsFrame
<1>3. CASE \E a \in Appenders :
             \/ AppendStep(a) /\ UNCHANGED <<storeVars, ingressVars>>
             \/ AdminReceipt(a) \/ AppenderFails(a)
  BY <1>2, <1>3 DEF AdminReceipt, AppenderFails, ingressVars, Slack
<1>4. CASE UNCHANGED vars
  BY <1>2, <1>4 DEF vars, ingressVars
<1>5. QED
  BY <1>1, <1>3, <1>4, ReadsHandler DEF Next

\* The invariant holds at the start.
LEMMA InitReads == Init => ReadsInv
<1> SUFFICES ASSUME Init PROVE ReadsInv
  OBVIOUS
<1>0. StoreTypes
  BY InitIInv DEF IInv, StoreInv
<1>1. HappenedInv
  BY <1>0, ScriptsAssumption DEF Init, StoreTypes, HappenedInv
<1>2. BringsInv
  BY DEF Init, StoreInit, IdleCall, BringsInv
<1>3. StampsInv
  <2>1. \A i \in DOMAIN script : script[i].id \in EventIds
    BY <1>0, ScriptsAssumption DEF StoreTypes
  <2>2. QED
    BY <2>1 DEF Init, StoreInit, NoObservation, StampsInv
<1>4. MadeInv
  BY DEF Init, StoreInit, NoMessage, MadeInv
<1>5. QED
  BY <1>1, <1>2, <1>3, <1>4 DEF ReadsInv

\* The second a moment is in.
LEMMA SecondsFacts ==
  ASSUME NEW t \in Nat
  PROVE  Seconds(t) \in Nat /\ Seconds(t) <= t
<1>1. Second \in Nat /\ Second > 0
  BY FaultAssumption
<1>2. t % Second \in Nat /\ t % Second < Second
  BY <1>1
<1>3. t % Second <= t
  <2>1. CASE t >= Second
    BY <1>1, <1>2, <2>1
  <2>2. CASE t < Second
    BY <1>1, <2>2
  <2>3. QED
    BY <1>1, <2>1, <2>2
<1>4. QED
  BY <1>2, <1>3 DEF Seconds

\* The time an event is kept with is not negative, and not later than the event.
LEMMA StampsFacts ==
  ASSUME StoreTypes, NEW i \in DOMAIN script, NEW t \in Stamps(script, i)
  PROVE  /\ t \in Nat /\ t <= script[i].at
         /\ script[i].kind # "message" => t = Seconds(script[i].at)
<1>1. script[i].at \in Nat
  BY ScriptsAssumption DEF StoreTypes
<1>2. Seconds(script[i].at) \in Nat /\ Seconds(script[i].at) <= script[i].at
  BY <1>1, SecondsFacts
<1>3. t = Seconds(script[i].at) \/ (t = script[i].at /\ script[i].kind = "message")
  BY DEF Stamps
<1>4. QED
  BY <1>1, <1>2, <1>3

\* When everything is acknowledged, a message is what its last event made it.
LEMMA ReadsLast ==
  ASSUME StoreInv, ReadsInv, Settled, Apart(script),
         NEW i \in Events, Visible(i), Latest(i, Len(script))
  PROVE  LET m == messages[script[i].message]
             gone == script[i].kind = "delete"
         IN m.deleted = gone /\ m.text = IF gone THEN "" ELSE script[i].text
<1> DEFINE m == script[i].message
           t == observations[script[i].id].at
           k == projectionEventRank(script[i].kind)
<1>0. /\ StoreTypes /\ DOMAIN script = 1 .. Len(script) /\ Len(script) \in Nat
      /\ i \in DOMAIN script /\ m \in Messages
  BY ScriptsAssumption DEF StoreInv, StoreTypes, Events
<1>1. \A j \in DOMAIN script : script[j].message = m => j <= i
  BY <1>0 DEF Latest
<1>2. \A j \in DOMAIN script : script[j].id = script[i].id =>
        script[j].message = m /\ script[j].kind = script[i].kind
  BY <1>0, ScriptsAssumption DEF StoreTypes
<1>3. \A j \in DOMAIN script : script[j].id = script[i].id =>
        script[j].at = script[i].at /\ script[j].text = script[i].text
  BY <1>0, <1>1, <1>2 DEF Apart
<1>4. Shows(script[i], observations, messages)
  BY <1>0 DEF Settled, Visible, StoreInv, AckedInv, Hidden, Events
<1>5. /\ observations[script[i].id].state # "none"
      /\ messages[m].at > t \/ (messages[m].at = t /\ messages[m].rank >= k)
  BY <1>4 DEF Shows
<1>6. t \in Stamps(script, i)
  <2>1. PICK j \in DOMAIN script : script[j].id = script[i].id /\ t \in Stamps(script, j)
    BY <1>0, <1>5 DEF ReadsInv, StampsInv
  <2>2. QED
    BY <1>2, <1>3, <2>1 DEF Stamps
<1>7. t \in Nat /\ (script[i].kind # "message" => t = Seconds(script[i].at))
  BY <1>0, <1>6, StampsFacts
<1>8. messages[m].at \in Int /\ messages[m].at # -1 /\ messages[m].rank \in Nat /\ k \in Nat
  <2>1. messages[m].at \in Int /\ messages[m].rank \in Nat /\ k \in Nat
    BY <1>0, RankType DEF StoreTypes
  <2> HIDE DEF t, k
  <2>2. QED
    BY <1>5, <1>7, <2>1
<1>9. PICK j \in DOMAIN script : /\ script[j].message = m
                                 /\ observations[script[j].id].state # "none"
                                 /\ MadeBy(messages[m], script, j, observations[script[j].id].at)
  BY <1>0, <1>8 DEF ReadsInv, MadeInv
<1>10. script[j].id = script[i].id
  <2> SUFFICES ASSUME script[j].id # script[i].id PROVE FALSE
    OBVIOUS
  <2> DEFINE u == observations[script[j].id].at
             l == projectionEventRank(script[j].kind)
  <2>1. j < i
    BY <1>0, <1>1, <1>9
  <2>2. /\ script[i].kind # "message"
        /\ \/ script[j].at < Seconds(script[i].at)
           \/ /\ script[j].kind # "message" /\ Seconds(script[j].at) = Seconds(script[i].at)
              /\ l < k
    BY <1>0, <1>9, <2>1 DEF Apart
  <2>3. messages[m].at = u /\ messages[m].rank = l
    BY <1>9 DEF MadeBy
  <2>4. PICK n \in DOMAIN script : script[n].id = script[j].id /\ u \in Stamps(script, n)
    BY <1>9 DEF ReadsInv, StampsInv
  <2>5. u \in Stamps(script, j)
    <3>1. script[n].message = m /\ script[n].kind = script[j].kind
      BY <1>0, <1>9, <2>4, ScriptsAssumption DEF StoreTypes
    <3>2. script[n].at = script[j].at
      BY <1>0, <1>9, <2>4, <3>1 DEF Apart
    <3>3. QED
      BY <2>4, <3>1, <3>2 DEF Stamps
  <2>6. /\ u \in Nat /\ u <= script[j].at
        /\ script[j].kind # "message" => u = Seconds(script[j].at)
    BY <1>0, <2>5, StampsFacts
  <2>7. script[j].at \in Nat /\ Seconds(script[i].at) \in Nat /\ l \in Nat
    BY <1>0, <1>7, <2>2, ScriptsAssumption, RankType DEF StoreTypes
  <2> HIDE DEF u, l, t, k
  <2>8. CASE script[j].at < Seconds(script[i].at)
    BY <1>5, <1>7, <2>2, <2>3, <2>6, <2>7, <2>8
  <2>9. CASE /\ script[j].kind # "message" /\ Seconds(script[j].at) = Seconds(script[i].at)
             /\ l < k
    BY <1>5, <1>7, <1>8, <2>2, <2>3, <2>6, <2>7, <2>9
  <2>10. QED
    BY <2>2, <2>8, <2>9
<1>11. script[j].kind = script[i].kind /\ script[j].message = m
  BY <1>2, <1>10
<1>12. script[i].kind # "delete" => messages[m].text = script[i].text
  <2> SUFFICES ASSUME script[i].kind # "delete" PROVE messages[m].text = script[i].text
    OBVIOUS
  <2>1. PICK n \in DOMAIN script : /\ script[n].message = m /\ messages[m].text = script[n].text
                                   /\ script[j].kind # "message" => n = j
    BY <1>9, <1>11 DEF MadeBy, Wording
  <2>2. CASE script[i].kind # "message"
    BY <1>3, <1>10, <1>11, <2>1, <2>2
  <2>3. CASE script[i].kind = "message"
    <3>1. n = i \/ n < i
      BY <1>0, <1>1, <2>1
    <3>2. script[n].text = script[i].text
      BY <1>0, <2>1, <2>3, <3>1 DEF Apart
    <3>3. QED
      BY <2>1, <3>2
  <2>4. QED
    BY <2>2, <2>3
<1>13. messages[m].deleted = (script[i].kind = "delete")
  BY <1>9, <1>11 DEF MadeBy
<1>14. script[i].kind = "delete" => messages[m].text = ""
  BY <1>9, <1>11 DEF MadeBy
<1>15. QED
  BY <1>12, <1>13, <1>14

\* When Slack has an acknowledgement for everything that happened and no handler is at
\* work, every message reads as the last of its events left it, however the events came
\* and whatever was imported or failed in between, for every script whose events the
\* times of the store tell apart.
THEOREM StoreReadsAsInSlack == Spec => []ReadsAsInSlack
<1>1. Init => IInv /\ ReadsInv
  BY InitIInv, InitReads
<1>2. IInv /\ ReadsInv /\ [Next]_vars => (IInv /\ ReadsInv)'
  BY NextIInv, NextReads DEF IInv
<1>3. IInv /\ ReadsInv => ReadsAsInSlack
  BY ReadsLast DEF IInv, ReadsAsInSlack
<1>4. QED
  BY <1>1, <1>2, <1>3, PTL DEF Spec

(***************************************************************************)
(* The context sync.  Why nothing is skipped: the watermark moves to a     *)
(* live event only when nothing older is unread or a catch-up is armed for *)
(* it, a catch-up reads threads from the oldest and roots from the newest, *)
(* so that its checkpoints split what is read from what is not, and it     *)
(* ends with nothing unread before its end.                                *)
(***************************************************************************)
\* The records, and where a cycle is catching up.
DocFields == {"boot", "synced", "through", "latest", "thread", "live"}
IsDoc(d) == DOMAIN d = DocFields /\ {d.synced, d.through, d.latest, d.thread, d.live} \subseteq Nat
SyncFields == {"pc", "cycle", "started", "joined", "state", "cursor", "left"}
CatchingUp == {"threads", "roots", "complete", "deferred"}

\* Types, and that nothing is later than the clock.
SyncShape ==
  /\ clock \in Nat /\ owed \in Nat
  /\ DOMAIN posted \subseteq 1 .. clock /\ DOMAIN stored = DOMAIN posted
  /\ \A t \in DOMAIN posted : posted[t] \in Kinds
  /\ inbox \cup missed \cup history \cup early \subseteq DOMAIN posted /\ inbox \cap missed = {}
  /\ IsDoc(doc) /\ doc.synced <= clock /\ doc.through <= clock /\ doc.live <= clock
  /\ DOMAIN live = {"pc", "at"} /\ live.at \in 0 .. clock
  /\ DOMAIN sync = SyncFields
  /\ sync.started \in 0 .. clock /\ sync.cursor \in 0 .. clock /\ IsDoc(sync.state)

\* What a cycle knows of the sync state it read, and where the socket is meanwhile.
CycleInv ==
  /\ doc.through \notin DOMAIN posted
  /\ sync.pc # "idle" => sync.started \notin DOMAIN posted /\ sync.started # 0
  /\ sync.pc # "idle" => /\ sync.cycle \in {"startup", "reconnect", "refresh"}
                         /\ ~sync.joined => ~joined
  /\ sync.pc \in {"list", "arm"} => doc.through < sync.started
  /\ Prompt /\ sync.pc \in {"list", "arm"} =>
       doc.synced < sync.started /\ doc.live < sync.started /\ live.at < sync.started
  /\ sync.pc \in CatchingUp => /\ doc.through = sync.state.through /\ doc.through # 0
                               /\ sync.state.synced <= doc.synced
  /\ sync.pc = "complete" => doc.through <= sync.cursor
  /\ sync.pc = "threads" => doc.thread = sync.state.thread
  /\ sync.pc \in {"threads", "roots"} => doc.latest = sync.state.latest
  /\ sync.pc = "import" => ~doc.boot /\ sync.cursor <= sync.started
  /\ ~doc.boot => doc.through = 0
  /\ sync.cycle = "startup" /\ sync.pc \in {"list", "arm", "armed"} =>
       /\ socket = "stopped" /\ owed = 0
       /\ Prompt => \A t \in DOMAIN posted : t < sync.started
  /\ Prompt /\ sync.cycle # "refresh" /\ sync.pc = "armed" /\ joined /\ doc.boot =>
       doc.through = sync.started
  /\ sync.cycle # "refresh" /\ sync.pc = "arm" => ~sync.joined \/ doc.boot
  /\ sync.cycle = "refresh" /\ sync.pc = "arm" => ~sync.joined

\* A message the sync answers for that is not stored; when live events are handled.
Unread(t) == t \in DOMAIN posted /\ t \notin history \cup early /\ stored[t] = "none"
Quiet == socket = "up" /\ owed = 0 /\ ~(sync.pc \in {"list", "arm"} /\ sync.cycle # "refresh")
\* Where an unread message is: ahead of the watermark and of what will move it, or in
\* the part of an armed catch-up that is still to be read.
Ahead(t) ==
  /\ t > doc.synced
  /\ doc.through # 0 /\ t >= doc.through => t > doc.live
  /\ doc.through # 0 /\ t < doc.through =>
       IF posted[t] = "reply" THEN t > doc.thread ELSE doc.latest = 0 \/ t < doc.latest
  /\ live.pc = "advance" => t > live.at \/ t < doc.through
  /\ live.pc = "synced" => t > live.at
  /\ Quiet => t \in inbox \/ t < doc.through
  /\ sync.pc = "threads" /\ t < doc.through /\ posted[t] = "reply" => t > sync.cursor
  /\ sync.pc = "roots" /\ t < doc.through => /\ posted[t] # "reply"
                                             /\ sync.cursor # 0 => t < sync.cursor
  /\ sync.pc = "complete" => t > sync.cursor
  /\ sync.pc \in {"list", "arm"} /\ sync.cycle = "reconnect" /\ socket = "up" /\ owed = 0 =>
       t \in inbox \/ t < sync.started
\* No unread message is lost sight of.
GapInv ==
  /\ \A t \in DOMAIN posted : stored[t] = "none" => t \in inbox \cup missed
  /\ \A t \in inbox : /\ live.pc # "idle" => t > live.at
                      /\ ~doc.boot => t > doc.synced
  /\ Prompt /\ joined /\ doc.boot => \A t \in DOMAIN posted : Unread(t) => Ahead(t)
\* What is stored as context and what as work.
ContextInv ==
  /\ ~doc.boot => /\ history = {} /\ early = {}
                  /\ \A t \in missed \cup inbox : stored[t] # "pending"
                  /\ sync.pc # "idle" => \A t \in DOMAIN posted : stored[t] = "resolved" => t < sync.started
  /\ doc.boot => /\ \A t \in history : t <= doc.synced
                 /\ \A t \in (missed \cup inbox) \cap history : stored[t] # "pending"
                 /\ \A t \in DOMAIN posted \ (history \cup early) :
                      posted[t] # "ambient" => stored[t] # "resolved"
  /\ sync.pc \in CatchingUp => doc.boot /\ \A t \in history : t <= sync.state.synced
\* The inductive invariant.
SyncInv == SyncShape /\ CycleInv /\ GapInv /\ ContextInv

\* A conversation that was never synced.
LEMMA NoDocFacts == IsDoc(NoDoc)
  BY DEF NoDoc, IsDoc, DocFields

\* So has the idle cycle.
LEMMA IdleSyncFacts ==
  /\ DOMAIN IdleSync = SyncFields /\ IdleSync.pc = "idle" /\ IdleSync.cycle = "none"
  /\ IdleSync.started = 0 /\ IdleSync.cursor = 0 /\ IdleSync.state = NoDoc /\ IsDoc(IdleSync.state)
  BY NoDocFacts DEF IdleSync, SyncFields

\* What is stored once stays as it was stored.
LEMMA StoreFacts ==
  ASSUME SyncShape, NEW t \in DOMAIN posted, NEW s, Store(t, s)
  PROVE  /\ DOMAIN stored' = DOMAIN stored
         /\ \A u \in DOMAIN posted : stored'[u] = IF u = t /\ stored[t] = "none" THEN s ELSE stored[u]
  BY DEF SyncShape, Store

\* The reply a catch-up of threads has still to read.
LEMMA UnreadReply ==
  ASSUME SyncInv, sync.pc = "threads", NEW t \in DOMAIN posted, Ahead(t), t < doc.through,
         posted[t] = "reply"
  PROVE  t \in Between({"reply"}, ThreadAfter, sync.state.through)
<1>1. /\ {sync.state.synced, sync.state.thread, sync.cursor, doc.synced, t} \subseteq Nat
      /\ sync.state.synced <= doc.synced
      /\ t > doc.synced /\ t > sync.state.thread /\ t > sync.cursor /\ t < sync.state.through
  BY DEF SyncInv, SyncShape, IsDoc, CycleInv, CatchingUp, Ahead
<1>2. t > sync.state.synced
  BY <1>1
<1>3. ThreadAfter < t
  BY <1>1, <1>2 DEF ThreadAfter, Larger
<1>4. QED
  BY <1>1, <1>3 DEF Between

\* The root a catch-up of roots has still to read.
LEMMA UnreadRoot ==
  ASSUME SyncInv, sync.pc = "roots", NEW t \in DOMAIN posted, Ahead(t), t < doc.through
  PROVE  t \in RootsLeft
<1>1. /\ {sync.state.synced, doc.synced, t} \subseteq Nat
      /\ sync.state.synced <= doc.synced /\ t > doc.synced /\ t < sync.state.through
      /\ sync.cursor # 0 => t < sync.cursor
      /\ sync.state.latest # 0 => t < sync.state.latest
      /\ posted[t] # "reply" /\ posted[t] \in Kinds
  BY DEF SyncInv, SyncShape, IsDoc, CycleInv, CatchingUp, Ahead
<1>2. t > sync.state.synced
  BY <1>1
<1>3. t < RootsBefore
  BY <1>1 DEF RootsBefore
<1>4. posted[t] \in Roots
  BY <1>1, KindsAssumption DEF Roots
<1>5. QED
  BY <1>2, <1>3, <1>4 DEF RootsLeft, Between

\* A catch-up reads nothing that the bootstrap imported.
LEMMA AfterHistory ==
  ASSUME SyncInv, NEW t \in DOMAIN posted,
         \/ sync.pc = "threads" /\ t \in Between({"reply"}, ThreadAfter, sync.state.through)
         \/ sync.pc = "roots" /\ t \in RootsLeft
  PROVE  doc.boot /\ t \notin history
<1>1. /\ {sync.state.synced, sync.state.thread, sync.cursor, t} \subseteq Nat
      /\ doc.boot /\ \A u \in history : u <= sync.state.synced
  BY DEF SyncInv, SyncShape, IsDoc, ContextInv, CatchingUp
<1>2. t > sync.state.synced
  <2>1. CASE t \in RootsLeft
    BY <1>1, <2>1 DEF RootsLeft, Between
  <2>2. CASE t \in Between({"reply"}, ThreadAfter, sync.state.through)
    BY <1>1, <2>2 DEF Between, ThreadAfter, Larger
  <2>3. QED
    BY <2>1, <2>2
<1>3. QED
  BY <1>1, <1>2

\* A message is posted: it is later than everything the loops have seen.
LEMMA PostKeeps ==
  ASSUME SyncInv, NEW k \in Kinds, Post(k)
  PROVE  SyncInv'
<1>0. /\ Prompt => ~ (socket = "stopped" /\ sync.pc # "idle")
      /\ clock' = clock + 1
      /\ DOMAIN posted' = DOMAIN posted \cup {clock + 1}
      /\ DOMAIN stored' = DOMAIN stored \cup {clock + 1}
      /\ \A t \in DOMAIN posted : posted'[t] = posted[t]
      /\ \A t \in DOMAIN stored : stored'[t] = stored[t]
      /\ posted'[clock + 1] = k
      /\ stored'[clock + 1] = "none"
      /\ IF socket = "up" THEN inbox' = inbox \cup {clock + 1} /\ missed' = missed
                ELSE missed' = missed \cup {clock + 1} /\ inbox' = inbox
      /\ UNCHANGED <<socket, joined, doc, live, owed, sync, history, early>>
  BY DEF SyncInv, SyncShape, IsDoc, DocFields, SyncFields, Post
<1>1. SyncShape'
  BY <1>0 DEF SyncInv, SyncShape, IsDoc
<1>2. CycleInv'
  BY <1>0 DEF SyncInv, SyncShape, IsDoc, CycleInv, CatchingUp
<1>3. \A t \in DOMAIN posted' : stored'[t] = "none" => t \in inbox' \cup missed'
  BY <1>0 DEF SyncInv, SyncShape, GapInv
<1>4. \A t \in inbox' : /\ live'.pc # "idle" => t > live'.at
                        /\ ~doc'.boot => t > doc'.synced
  BY <1>0 DEF SyncInv, SyncShape, IsDoc, GapInv
<1>5. ASSUME Prompt, joined', doc'.boot, NEW t \in DOMAIN posted', Unread(t)' PROVE Ahead(t)'
  <2>1. CASE t = clock + 1
    <3>1. /\ t > doc.synced /\ t > doc.live /\ ~(t < doc.through) /\ t > live.at /\ t > sync.cursor
      BY <2>1 DEF SyncInv, SyncShape, IsDoc
    <3>2. socket = "up" => t \in inbox'
      BY <1>0, <2>1
    <3>3. QED
      BY <1>0, <3>1, <3>2 DEF Ahead, Quiet
  <2>2. CASE t \in DOMAIN posted
    <3>1. Unread(t) /\ Ahead(t)
      BY <1>0, <1>5, <2>2 DEF SyncInv, SyncShape, GapInv, Unread
    <3>2. QED
      BY <1>0, <2>2, <3>1 DEF Ahead, Quiet
  <2>3. QED
    BY <1>0, <1>5, <2>1, <2>2
<1>6. GapInv'
  BY <1>3, <1>4, <1>5 DEF GapInv
<1>7. ContextInv'
  BY <1>0 DEF SyncInv, SyncShape, IsDoc, CycleInv, ContextInv, CatchingUp
<1>8. QED
  BY <1>1, <1>2, <1>6, <1>7 DEF SyncInv

\* A live event counts separately while a catch-up is armed.
LEMMA AdvanceLiveKeeps ==
  ASSUME SyncInv, AdvanceLive
  PROVE  SyncInv'
<1>0. /\ live.pc = "advance"
      /\ DOMAIN doc' = DocFields
      /\ doc'.boot = doc.boot
      /\ doc'.synced = doc.synced
      /\ doc'.through = doc.through
      /\ doc'.latest = doc.latest
      /\ doc'.thread = doc.thread
      /\ doc.through # 0 => doc'.live = Larger(doc.live, live.at) /\ live'.pc = "idle" /\ live'.at = 0
      /\ doc.through = 0 => doc'.live = doc.live /\ live'.pc = "synced" /\ live'.at = live.at
      /\ DOMAIN live' = {"pc", "at"}
      /\ UNCHANGED <<clock, posted, stored, socket, inbox, joined, owed, sync, missed, history, early>>
  BY DEF SyncInv, SyncShape, IsDoc, DocFields, SyncFields, AdvanceLive, IdleLive
<1>g. doc'.live \in Nat /\ doc'.live <= clock /\ doc'.live \in {doc.live, live.at}
  <2>1. {doc.live, live.at, clock} \subseteq Nat /\ doc.live <= clock /\ live.at <= clock
    BY <1>0 DEF SyncInv, SyncShape, IsDoc, CycleInv, CatchingUp
  <2>2. Larger(doc.live, live.at) \in Nat /\ Larger(doc.live, live.at) <= clock /\ doc.live <= Larger(doc.live, live.at) /\ live.at <= Larger(doc.live, live.at)
        /\ Larger(doc.live, live.at) \in {doc.live, live.at}
    BY <2>1 DEF Larger
  <2>3. QED
    BY <1>0, <2>1, <2>2
<1>1. SyncShape'
  BY <1>0, <1>g DEF SyncInv, SyncShape, IsDoc
<1>2. CycleInv'
  BY <1>0, <1>g DEF SyncInv, SyncShape, IsDoc, CycleInv, CatchingUp
<1>3. \A t \in DOMAIN posted' : stored'[t] = "none" => t \in inbox' \cup missed'
  BY <1>0, <1>g DEF SyncInv, SyncShape, GapInv
<1>4. \A t \in inbox' : /\ live'.pc # "idle" => t > live'.at
                        /\ ~doc'.boot => t > doc'.synced
  BY <1>0, <1>g DEF SyncInv, SyncShape, IsDoc, GapInv
<1>5. ASSUME Prompt, joined', doc'.boot, NEW t \in DOMAIN posted', Unread(t)' PROVE Ahead(t)'
  <2>1. Unread(t) /\ Ahead(t) /\ t \in DOMAIN posted
    BY <1>0, <1>g, <1>5 DEF SyncInv, SyncShape, GapInv, Unread
  <2>2. QED
    BY <1>0, <1>g, <1>5, <2>1 DEF SyncInv, SyncShape, IsDoc, CycleInv, CatchingUp, Ahead, Quiet
<1>6. GapInv'
  BY <1>3, <1>4, <1>5 DEF GapInv
<1>7. ContextInv'
  BY <1>0, <1>g DEF SyncInv, SyncShape, IsDoc, CycleInv, ContextInv, CatchingUp
<1>8. QED
  BY <1>1, <1>2, <1>6, <1>7 DEF SyncInv

\* A live event moves the watermark: nothing before it is unread.
LEMMA AdvanceSyncedKeeps ==
  ASSUME SyncInv, AdvanceSynced
  PROVE  SyncInv'
<1>0. /\ live.pc = "synced"
      /\ DOMAIN doc' = DocFields
      /\ doc'.boot = doc.boot
      /\ doc'.synced = Larger(doc.synced, live.at)
      /\ doc'.through = doc.through
      /\ doc'.latest = doc.latest
      /\ doc'.thread = doc.thread
      /\ doc'.live = doc.live
      /\ DOMAIN live' = {"pc", "at"}
      /\ live'.pc = "idle"
      /\ live'.at = 0
      /\ UNCHANGED <<clock, posted, stored, socket, inbox, joined, owed, sync, missed, history, early>>
  BY DEF SyncInv, SyncShape, IsDoc, DocFields, SyncFields, AdvanceSynced, IdleLive
<1>g. /\ doc'.synced \in Nat /\ doc'.synced <= clock /\ doc'.synced \in {doc.synced, live.at}
      /\ doc.synced <= doc'.synced
  <2>1. {doc.synced, live.at, clock} \subseteq Nat /\ doc.synced <= clock /\ live.at <= clock
    BY <1>0 DEF SyncInv, SyncShape, IsDoc, CycleInv, CatchingUp
  <2>2. Larger(doc.synced, live.at) \in Nat /\ Larger(doc.synced, live.at) <= clock /\ doc.synced <= Larger(doc.synced, live.at) /\ live.at <= Larger(doc.synced, live.at)
        /\ Larger(doc.synced, live.at) \in {doc.synced, live.at}
    BY <2>1 DEF Larger
  <2>3. QED
    BY <1>0, <2>1, <2>2
<1>1. SyncShape'
  BY <1>0, <1>g DEF SyncInv, SyncShape, IsDoc
<1>2. CycleInv'
  BY <1>0, <1>g DEF SyncInv, SyncShape, IsDoc, CycleInv, CatchingUp
<1>3. \A t \in DOMAIN posted' : stored'[t] = "none" => t \in inbox' \cup missed'
  BY <1>0, <1>g DEF SyncInv, SyncShape, GapInv
<1>4. \A t \in inbox' : /\ live'.pc # "idle" => t > live'.at
                        /\ ~doc'.boot => t > doc'.synced
  BY <1>0, <1>g DEF SyncInv, SyncShape, IsDoc, GapInv
<1>5. ASSUME Prompt, joined', doc'.boot, NEW t \in DOMAIN posted', Unread(t)' PROVE Ahead(t)'
  <2>1. Unread(t) /\ Ahead(t) /\ t \in DOMAIN posted
    BY <1>0, <1>g, <1>5 DEF SyncInv, SyncShape, GapInv, Unread
  <2>2. QED
    BY <1>0, <1>g, <1>5, <2>1 DEF SyncInv, SyncShape, IsDoc, CycleInv, CatchingUp, Ahead, Quiet
<1>6. GapInv'
  BY <1>3, <1>4, <1>5 DEF GapInv
<1>7. ContextInv'
  BY <1>0, <1>g DEF SyncInv, SyncShape, IsDoc, CycleInv, ContextInv, CatchingUp
<1>8. QED
  BY <1>1, <1>2, <1>6, <1>7 DEF SyncInv

\* A cycle begins, later than every message.
LEMMA BeginKeeps ==
  ASSUME SyncInv, NEW c \in {"startup", "reconnect", "refresh"}, Begin(c)
  PROVE  SyncInv'
<1>0. /\ sync.pc = "idle"
      /\ c = "startup" => socket = "stopped" /\ owed' = 0
      /\ c = "reconnect" => socket # "stopped" /\ owed > 0 /\ owed' = owed - 1
      /\ c = "refresh" => socket # "stopped" /\ owed' = owed
      /\ clock' = clock + 1
      /\ DOMAIN sync' = SyncFields
      /\ sync'.pc = "list"
      /\ sync'.cycle = c
      /\ sync'.started = clock + 1
      /\ sync'.joined = joined
      /\ sync'.state = NoDoc
      /\ sync'.cursor = 0
      /\ sync'.left = 0
      /\ UNCHANGED <<posted, stored, socket, inbox, joined, doc, live, missed, history, early>>
  BY DEF SyncInv, SyncShape, IsDoc, DocFields, SyncFields, Begin, IdleSync
<1>1. SyncShape'
  BY <1>0, NoDocFacts DEF SyncInv, SyncShape, IsDoc
<1>2. CycleInv'
  BY <1>0, NoDocFacts DEF SyncInv, SyncShape, IsDoc, CycleInv, CatchingUp
<1>3. \A t \in DOMAIN posted' : stored'[t] = "none" => t \in inbox' \cup missed'
  BY <1>0, NoDocFacts DEF SyncInv, SyncShape, GapInv
<1>4. \A t \in inbox' : /\ live'.pc # "idle" => t > live'.at
                        /\ ~doc'.boot => t > doc'.synced
  BY <1>0, NoDocFacts DEF SyncInv, SyncShape, IsDoc, GapInv
<1>5. ASSUME Prompt, joined', doc'.boot, NEW t \in DOMAIN posted', Unread(t)' PROVE Ahead(t)'
  <2>1. Unread(t) /\ Ahead(t) /\ t \in DOMAIN posted
    BY <1>0, NoDocFacts, <1>5 DEF SyncInv, SyncShape, GapInv, Unread
  <2>2. QED
    BY <1>0, NoDocFacts, <1>5, <2>1 DEF SyncInv, SyncShape, IsDoc, CycleInv, CatchingUp,
       Ahead, Quiet
<1>6. GapInv'
  BY <1>3, <1>4, <1>5 DEF GapInv
<1>7. ContextInv'
  BY <1>0, NoDocFacts DEF SyncInv, SyncShape, IsDoc, CycleInv, ContextInv, CatchingUp
<1>8. QED
  BY <1>1, <1>2, <1>6, <1>7 DEF SyncInv

\* Discovery decides whether a catch-up is to be armed.
LEMMA DiscoverKeeps ==
  ASSUME SyncInv, Discover
  PROVE  SyncInv'
<1>0. /\ sync.pc = "list"
      /\ IF \/ ~ sync.joined /\ doc.through # 0
            \/ /\ sync.joined /\ sync.cycle # "refresh"
               /\ doc.boot /\ doc.synced < sync.started
          THEN sync'.pc = "arm" ELSE sync'.pc = "armed"
      /\ DOMAIN sync' = SyncFields
      /\ sync'.cycle = sync.cycle
      /\ sync'.started = sync.started
      /\ sync'.joined = sync.joined
      /\ sync'.state = doc
      /\ sync'.cursor = sync.cursor
      /\ sync'.left = sync.left
      /\ UNCHANGED <<clock, posted, stored, socket, inbox, joined, doc, live, owed, missed, history, early>>
  BY DEF SyncInv, SyncShape, IsDoc, DocFields, SyncFields, Discover
<1>1. SyncShape'
  BY <1>0 DEF SyncInv, SyncShape, IsDoc
<1>2. CycleInv'
  BY <1>0 DEF SyncInv, SyncShape, IsDoc, CycleInv, CatchingUp
<1>3. \A t \in DOMAIN posted' : stored'[t] = "none" => t \in inbox' \cup missed'
  BY <1>0 DEF SyncInv, SyncShape, GapInv
<1>4. \A t \in inbox' : /\ live'.pc # "idle" => t > live'.at
                        /\ ~doc'.boot => t > doc'.synced
  BY <1>0 DEF SyncInv, SyncShape, IsDoc, GapInv
<1>5. ASSUME Prompt, joined', doc'.boot, NEW t \in DOMAIN posted', Unread(t)' PROVE Ahead(t)'
  <2>1. Unread(t) /\ Ahead(t) /\ t \in DOMAIN posted
    BY <1>0, <1>5 DEF SyncInv, SyncShape, GapInv, Unread
  <2>2. QED
    BY <1>0, <1>5, <2>1 DEF SyncInv, SyncShape, IsDoc, CycleInv, CatchingUp, Ahead, Quiet
<1>6. GapInv'
  BY <1>3, <1>4, <1>5 DEF GapInv
<1>7. ContextInv'
  BY <1>0 DEF SyncInv, SyncShape, IsDoc, CycleInv, ContextInv, CatchingUp
<1>8. QED
  BY <1>1, <1>2, <1>6, <1>7 DEF SyncInv

\* The catch-up is armed: all that was missed is before its end.
LEMMA BeginCatchUpKeeps ==
  ASSUME SyncInv, BeginCatchUp
  PROVE  SyncInv'
<1>0. /\ sync.pc = "arm"
      /\ sync.joined
      /\ DOMAIN doc' = DocFields
      /\ doc'.boot = doc.boot
      /\ doc'.synced = doc.synced
      /\ doc'.live = doc.live
      /\ IF doc.boot /\ doc.through < sync.started
            THEN doc'.through = sync.started /\ doc'.latest = sync.started /\ doc'.thread = 0
            ELSE doc' = doc
      /\ DOMAIN sync' = SyncFields
      /\ sync'.pc = "armed"
      /\ sync'.cycle = sync.cycle
      /\ sync'.started = sync.started
      /\ sync'.joined = sync.joined
      /\ sync'.state = sync.state
      /\ sync'.cursor = sync.cursor
      /\ sync'.left = sync.left
      /\ UNCHANGED <<clock, posted, stored, socket, inbox, joined, live, owed, missed, history, early>>
  BY DEF SyncInv, SyncShape, IsDoc, DocFields, SyncFields, BeginCatchUp, SyncGoTo
<1>1. SyncShape'
  BY <1>0 DEF SyncInv, SyncShape, IsDoc
<1>2. CycleInv'
  BY <1>0 DEF SyncInv, SyncShape, IsDoc, CycleInv, CatchingUp
<1>3. \A t \in DOMAIN posted' : stored'[t] = "none" => t \in inbox' \cup missed'
  BY <1>0 DEF SyncInv, SyncShape, GapInv
<1>4. \A t \in inbox' : /\ live'.pc # "idle" => t > live'.at
                        /\ ~doc'.boot => t > doc'.synced
  BY <1>0 DEF SyncInv, SyncShape, IsDoc, GapInv
<1>5. ASSUME Prompt, joined', doc'.boot, NEW t \in DOMAIN posted', Unread(t)' PROVE Ahead(t)'
  <2>1. Unread(t) /\ Ahead(t) /\ t \in DOMAIN posted
    BY <1>0, <1>5 DEF SyncInv, SyncShape, GapInv, Unread
  <2>2. /\ doc'.through = sync.started /\ doc'.latest = sync.started /\ doc'.thread = 0
        /\ doc.live < sync.started /\ live.at < sync.started /\ sync.started # 0
        /\ sync.cycle \in {"startup", "reconnect"} /\ (sync.cycle = "startup" => socket = "stopped")
        /\ {t, doc.live, live.at, sync.started} \subseteq Nat /\ t # 0
    BY <1>0, <1>5, <2>1 DEF SyncInv, SyncShape, IsDoc, CycleInv
  <2>3. t >= sync.started => t > doc.live /\ t > live.at
    BY <2>2
  <2>4. t < sync.started => t > 0
    BY <2>2
  <2>5. Quiet' => t \in inbox \/ t < sync.started
    BY <1>0, <2>1, <2>2 DEF Ahead, Quiet
  <2>6. live.pc = "advance" => t > live.at \/ t < sync.started
    BY <2>2, <2>3
  <2>7. QED
    BY <1>0, <2>1, <2>2, <2>3, <2>4, <2>5, <2>6 DEF Ahead
<1>6. GapInv'
  BY <1>3, <1>4, <1>5 DEF GapInv
<1>7. ContextInv'
  BY <1>0 DEF SyncInv, SyncShape, IsDoc, CycleInv, ContextInv, CatchingUp
<1>8. QED
  BY <1>1, <1>2, <1>6, <1>7 DEF SyncInv

\* The catch-up of a conversation that Tag has left is dropped.
LEMMA CancelCatchUpKeeps ==
  ASSUME SyncInv, CancelCatchUp
  PROVE  SyncInv'
<1>0. /\ sync.pc = "arm"
      /\ ~sync.joined
      /\ DOMAIN doc' = DocFields
      /\ doc'.boot = doc.boot
      /\ doc'.synced = doc.synced
      /\ \/ doc'.through = 0 /\ doc'.latest = 0 /\ doc'.thread = 0 /\ doc'.live = 0
         \/ doc' = doc
      /\ DOMAIN sync' = SyncFields
      /\ sync'.pc = "armed"
      /\ sync'.cycle = sync.cycle
      /\ sync'.started = sync.started
      /\ sync'.joined = sync.joined
      /\ sync'.state = sync.state
      /\ sync'.cursor = sync.cursor
      /\ sync'.left = sync.left
      /\ UNCHANGED <<clock, posted, stored, socket, inbox, joined, live, owed, missed, history, early>>
  BY DEF SyncInv, SyncShape, IsDoc, DocFields, SyncFields, CancelCatchUp, SyncGoTo
<1>1. SyncShape'
  BY <1>0 DEF SyncInv, SyncShape, IsDoc
<1>2. CycleInv'
  BY <1>0 DEF SyncInv, SyncShape, IsDoc, CycleInv, CatchingUp
<1>3. \A t \in DOMAIN posted' : stored'[t] = "none" => t \in inbox' \cup missed'
  BY <1>0 DEF SyncInv, SyncShape, GapInv
<1>4. \A t \in inbox' : /\ live'.pc # "idle" => t > live'.at
                        /\ ~doc'.boot => t > doc'.synced
  BY <1>0 DEF SyncInv, SyncShape, IsDoc, GapInv
<1>5. ASSUME Prompt, joined', doc'.boot, NEW t \in DOMAIN posted', Unread(t)' PROVE Ahead(t)'
  <2>1. Unread(t) /\ Ahead(t) /\ t \in DOMAIN posted
    BY <1>0, <1>5 DEF SyncInv, SyncShape, GapInv, Unread
  <2>2. QED
    BY <1>0, <1>5, <2>1 DEF SyncInv, SyncShape, IsDoc, CycleInv, CatchingUp, Ahead, Quiet
<1>6. GapInv'
  BY <1>3, <1>4, <1>5 DEF GapInv
<1>7. ContextInv'
  BY <1>0 DEF SyncInv, SyncShape, IsDoc, CycleInv, ContextInv, CatchingUp
<1>8. QED
  BY <1>1, <1>2, <1>6, <1>7 DEF SyncInv

\* The sync states are listed again, and the startup connects.
LEMMA CatchUpListKeeps ==
  ASSUME SyncInv, CatchUpList
  PROVE  SyncInv'
<1>0. /\ sync.pc = "armed"
      /\ IF sync.cycle = "startup" THEN socket' = "up" ELSE socket' = socket
      /\ IF /\ sync.cycle # "refresh" /\ sync.joined
            /\ doc.boot /\ doc.through # 0
          THEN sync'.pc = "threads" ELSE sync'.pc = "backfill"
      /\ DOMAIN sync' = SyncFields
      /\ sync'.cycle = sync.cycle
      /\ sync'.started = sync.started
      /\ sync'.joined = sync.joined
      /\ sync'.state = doc
      /\ sync'.cursor = 0
      /\ sync'.left = Budget
      /\ UNCHANGED <<clock, posted, stored, inbox, joined, doc, live, owed, missed, history, early>>
  BY DEF SyncInv, SyncShape, IsDoc, DocFields, SyncFields, CatchUpList
<1>1. SyncShape'
  BY <1>0 DEF SyncInv, SyncShape, IsDoc
<1>2. CycleInv'
  BY <1>0 DEF SyncInv, SyncShape, IsDoc, CycleInv, CatchingUp
<1>3. \A t \in DOMAIN posted' : stored'[t] = "none" => t \in inbox' \cup missed'
  BY <1>0 DEF SyncInv, SyncShape, GapInv
<1>4. \A t \in inbox' : /\ live'.pc # "idle" => t > live'.at
                        /\ ~doc'.boot => t > doc'.synced
  BY <1>0 DEF SyncInv, SyncShape, IsDoc, GapInv
<1>5. ASSUME Prompt, joined', doc'.boot, NEW t \in DOMAIN posted', Unread(t)' PROVE Ahead(t)'
  <2>1. Unread(t) /\ Ahead(t) /\ t \in DOMAIN posted
    BY <1>0, <1>5 DEF SyncInv, SyncShape, GapInv, Unread
  <2>2. QED
    BY <1>0, <1>5, <2>1 DEF SyncInv, SyncShape, IsDoc, CycleInv, CatchingUp, Ahead, Quiet
<1>6. GapInv'
  BY <1>3, <1>4, <1>5 DEF GapInv
<1>7. ContextInv'
  BY <1>0 DEF SyncInv, SyncShape, IsDoc, CycleInv, ContextInv, CatchingUp
<1>8. QED
  BY <1>1, <1>2, <1>6, <1>7 DEF SyncInv

\* The threads are done, or left where the budget ended.
LEMMA CheckpointThreadCatchUpKeeps ==
  ASSUME SyncInv, CheckpointThreadCatchUp
  PROVE  SyncInv'
<1>0. /\ sync.pc = "threads"
      /\ DOMAIN doc' = DocFields
      /\ doc'.boot = doc.boot
      /\ doc'.synced = doc.synced
      /\ doc'.through = doc.through
      /\ doc'.latest = doc.latest
      /\ doc'.live = doc.live
      /\ IF doc.through # sync.state.through THEN doc' = doc
          ELSE IF Between({"reply"}, ThreadAfter, sync.state.through) = {}
          THEN doc'.thread = sync.state.through ELSE doc'.thread = Larger(doc.thread, sync.cursor)
      /\ IF Between({"reply"}, ThreadAfter, sync.state.through) = {} /\ sync.left > 0
          THEN sync'.pc = "roots" ELSE sync'.pc = "deferred"
      /\ DOMAIN sync' = SyncFields
      /\ sync'.cycle = sync.cycle
      /\ sync'.started = sync.started
      /\ sync'.joined = sync.joined
      /\ sync'.state = sync.state
      /\ sync'.cursor = 0
      /\ UNCHANGED <<clock, posted, stored, socket, inbox, joined, live, owed, missed, history, early>>
  BY DEF SyncInv, SyncShape, IsDoc, DocFields, SyncFields, CheckpointThreadCatchUp
<1>g. /\ doc'.thread \in Nat /\ doc.through = sync.state.through /\ doc.through # 0
      /\ doc'.thread # doc.through => doc'.thread \in {doc.thread, sync.cursor}
      /\ Between({"reply"}, ThreadAfter, sync.state.through) # {} =>
           doc'.thread \in {doc.thread, sync.cursor}
  <2>1. /\ {doc.thread, sync.cursor, doc.through} \subseteq Nat
        /\ doc.through = sync.state.through /\ doc.through # 0
    BY <1>0 DEF SyncInv, SyncShape, IsDoc, CycleInv, CatchingUp
  <2>2. Larger(doc.thread, sync.cursor) \in {doc.thread, sync.cursor}
    BY DEF Larger
  <2>3. QED
    BY <1>0, <2>1, <2>2
<1>1. SyncShape'
  BY <1>0, <1>g DEF SyncInv, SyncShape, IsDoc
<1>2. CycleInv'
  BY <1>0, <1>g DEF SyncInv, SyncShape, IsDoc, CycleInv, CatchingUp
<1>3. \A t \in DOMAIN posted' : stored'[t] = "none" => t \in inbox' \cup missed'
  BY <1>0, <1>g DEF SyncInv, SyncShape, GapInv
<1>4. \A t \in inbox' : /\ live'.pc # "idle" => t > live'.at
                        /\ ~doc'.boot => t > doc'.synced
  BY <1>0, <1>g DEF SyncInv, SyncShape, IsDoc, GapInv
<1>5. ASSUME Prompt, joined', doc'.boot, NEW t \in DOMAIN posted', Unread(t)' PROVE Ahead(t)'
  <2>1. Unread(t) /\ Ahead(t) /\ t \in DOMAIN posted
    BY <1>0, <1>5 DEF SyncInv, SyncShape, GapInv, Unread
  <2> DEFINE left == Between({"reply"}, ThreadAfter, sync.state.through)
  <2>2. t < doc.through /\ posted[t] = "reply" => left # {} /\ t > doc'.thread
    <3>1. SUFFICES ASSUME t < doc.through, posted[t] = "reply" PROVE left # {} /\ t > doc'.thread
      OBVIOUS
    <3>2. t \in left
      BY <1>0, <2>1, <3>1, UnreadReply
    <3>3. t > doc.thread /\ t > sync.cursor
      BY <1>0, <2>1, <3>1, <1>g DEF Ahead
    <3>4. doc'.thread \in {doc.thread, sync.cursor}
      BY <1>g, <3>2
    <3>5. QED
      BY <3>2, <3>3, <3>4
  <2> HIDE DEF left
  <2>3. sync'.pc \in {"roots", "deferred"} /\ (sync'.pc = "roots" => left = {})
    BY <1>0 DEF left
  <2>4. QED
    BY <1>0, <1>5, <2>1, <2>2, <2>3 DEF Ahead, Quiet
<1>6. GapInv'
  BY <1>3, <1>4, <1>5 DEF GapInv
<1>7. ContextInv'
  BY <1>0, <1>g DEF SyncInv, SyncShape, IsDoc, CycleInv, ContextInv, CatchingUp
<1>8. QED
  BY <1>1, <1>2, <1>6, <1>7 DEF SyncInv

\* The roots are left where the budget ended.
LEMMA CheckpointCatchUpKeeps ==
  ASSUME SyncInv, CheckpointCatchUp
  PROVE  SyncInv'
<1>0. /\ sync.pc = "roots"
      /\ DOMAIN doc' = DocFields
      /\ doc'.boot = doc.boot
      /\ doc'.synced = doc.synced
      /\ doc'.through = doc.through
      /\ doc'.thread = doc.thread
      /\ doc'.live = doc.live
      /\ doc'.latest = sync.cursor \/ doc' = doc
      /\ DOMAIN sync' = SyncFields
      /\ sync'.pc = "deferred"
      /\ sync'.cycle = sync.cycle
      /\ sync'.started = sync.started
      /\ sync'.joined = sync.joined
      /\ sync'.state = sync.state
      /\ sync'.cursor = sync.cursor
      /\ sync'.left = sync.left
      /\ UNCHANGED <<clock, posted, stored, socket, inbox, joined, live, owed, missed, history, early>>
  BY DEF SyncInv, SyncShape, IsDoc, DocFields, SyncFields, CheckpointCatchUp, SyncGoTo
<1>1. SyncShape'
  BY <1>0 DEF SyncInv, SyncShape, IsDoc
<1>2. CycleInv'
  BY <1>0 DEF SyncInv, SyncShape, IsDoc, CycleInv, CatchingUp
<1>3. \A t \in DOMAIN posted' : stored'[t] = "none" => t \in inbox' \cup missed'
  BY <1>0 DEF SyncInv, SyncShape, GapInv
<1>4. \A t \in inbox' : /\ live'.pc # "idle" => t > live'.at
                        /\ ~doc'.boot => t > doc'.synced
  BY <1>0 DEF SyncInv, SyncShape, IsDoc, GapInv
<1>5. ASSUME Prompt, joined', doc'.boot, NEW t \in DOMAIN posted', Unread(t)' PROVE Ahead(t)'
  <2>1. Unread(t) /\ Ahead(t) /\ t \in DOMAIN posted
    BY <1>0, <1>5 DEF SyncInv, SyncShape, GapInv, Unread
  <2>2. QED
    BY <1>0, <1>5, <2>1 DEF SyncInv, SyncShape, IsDoc, CycleInv, CatchingUp, Ahead, Quiet
<1>6. GapInv'
  BY <1>3, <1>4, <1>5 DEF GapInv
<1>7. ContextInv'
  BY <1>0 DEF SyncInv, SyncShape, IsDoc, CycleInv, ContextInv, CatchingUp
<1>8. QED
  BY <1>1, <1>2, <1>6, <1>7 DEF SyncInv

\* Nothing before the end of the catch-up is unread any more.
LEMMA CompleteCatchUpReadKeeps ==
  ASSUME SyncInv, CompleteCatchUpRead
  PROVE  SyncInv'
<1>0. /\ sync.pc = "roots"
      /\ RootsLeft = {}
      /\ DOMAIN sync' = SyncFields
      /\ sync'.pc = "complete"
      /\ sync'.cycle = sync.cycle
      /\ sync'.started = sync.started
      /\ sync'.joined = sync.joined
      /\ sync'.state = sync.state
      /\ sync'.cursor = Larger(sync.state.through, doc.live)
      /\ sync'.left = sync.left
      /\ UNCHANGED <<clock, posted, stored, socket, inbox, joined, doc, live, owed, missed, history, early>>
  BY DEF SyncInv, SyncShape, IsDoc, DocFields, SyncFields, CompleteCatchUpRead
<1>g. /\ sync'.cursor \in 0 .. clock /\ sync'.cursor \in {doc.through, doc.live}
      /\ doc.through = sync.state.through /\ doc.through # 0 /\ doc.through <= sync'.cursor
  <2>1. {sync.state.through, doc.live, clock} \subseteq Nat /\ sync.state.through <= clock /\ doc.live <= clock /\ doc.through = sync.state.through /\ doc.through # 0
    BY <1>0 DEF SyncInv, SyncShape, IsDoc, CycleInv, CatchingUp
  <2>2. Larger(sync.state.through, doc.live) \in Nat /\ Larger(sync.state.through, doc.live) <= clock /\ sync.state.through <= Larger(sync.state.through, doc.live) /\ doc.live <= Larger(sync.state.through, doc.live)
        /\ Larger(sync.state.through, doc.live) \in {sync.state.through, doc.live}
    BY <2>1 DEF Larger
  <2>3. QED
    BY <1>0, <2>1, <2>2
<1>1. SyncShape'
  BY <1>0, <1>g DEF SyncInv, SyncShape, IsDoc
<1>2. CycleInv'
  BY <1>0, <1>g DEF SyncInv, SyncShape, IsDoc, CycleInv, CatchingUp
<1>3. \A t \in DOMAIN posted' : stored'[t] = "none" => t \in inbox' \cup missed'
  BY <1>0, <1>g DEF SyncInv, SyncShape, GapInv
<1>4. \A t \in inbox' : /\ live'.pc # "idle" => t > live'.at
                        /\ ~doc'.boot => t > doc'.synced
  BY <1>0, <1>g DEF SyncInv, SyncShape, IsDoc, GapInv
<1>5. ASSUME Prompt, joined', doc'.boot, NEW t \in DOMAIN posted', Unread(t)' PROVE Ahead(t)'
  <2>1. Unread(t) /\ Ahead(t) /\ t \in DOMAIN posted
    BY <1>0, <1>5 DEF SyncInv, SyncShape, GapInv, Unread
  <2>2. ~(t < doc.through)
    BY <1>0, <2>1, UnreadRoot
  <2>3. t # doc.through /\ {t, doc.through, doc.live} \subseteq Nat
    BY <2>1 DEF SyncInv, SyncShape, IsDoc, CycleInv
  <2>4. t > doc.through /\ t > doc.live
    BY <1>g, <2>1, <2>2, <2>3 DEF Ahead
  <2>5. t > sync'.cursor
    BY <1>g, <2>4
  <2>6. QED
    BY <1>0, <2>1, <2>5 DEF Ahead, Quiet
<1>6. GapInv'
  BY <1>3, <1>4, <1>5 DEF GapInv
<1>7. ContextInv'
  BY <1>0, <1>g DEF SyncInv, SyncShape, IsDoc, CycleInv, ContextInv, CatchingUp
<1>8. QED
  BY <1>1, <1>2, <1>6, <1>7 DEF SyncInv

\* The watermark moves to the end of the catch-up or the last live event.
LEMMA CompleteCatchUpKeeps ==
  ASSUME SyncInv, CompleteCatchUp
  PROVE  SyncInv'
<1>0. /\ sync.pc = "complete"
      /\ DOMAIN doc' = DocFields
      /\ doc'.boot = doc.boot
      /\ IF doc.through = sync.state.through
          THEN /\ doc'.synced = Larger(doc.synced, sync.cursor) /\ doc'.through = 0
               /\ doc'.latest = 0 /\ doc'.thread = 0 /\ doc'.live = 0
          ELSE doc' = doc
      /\ DOMAIN sync' = SyncFields
      /\ sync'.pc = "backfill"
      /\ sync'.cycle = sync.cycle
      /\ sync'.started = sync.started
      /\ sync'.joined = sync.joined
      /\ sync'.state = sync.state
      /\ sync'.cursor = sync.cursor
      /\ sync'.left = sync.left
      /\ UNCHANGED <<clock, posted, stored, socket, inbox, joined, live, owed, missed, history, early>>
  BY DEF SyncInv, SyncShape, IsDoc, DocFields, SyncFields, CompleteCatchUp, SyncGoTo
<1>g. /\ doc.through = sync.state.through /\ doc'.synced \in Nat /\ doc'.synced <= clock
      /\ doc'.synced \in {doc.synced, sync.cursor} /\ doc.synced <= doc'.synced
  <2>1. {doc.synced, sync.cursor, clock} \subseteq Nat /\ doc.synced <= clock /\ sync.cursor <= clock /\ doc.through = sync.state.through
    BY <1>0 DEF SyncInv, SyncShape, IsDoc, CycleInv, CatchingUp
  <2>2. Larger(doc.synced, sync.cursor) \in Nat /\ Larger(doc.synced, sync.cursor) <= clock /\ doc.synced <= Larger(doc.synced, sync.cursor) /\ sync.cursor <= Larger(doc.synced, sync.cursor)
        /\ Larger(doc.synced, sync.cursor) \in {doc.synced, sync.cursor}
    BY <2>1 DEF Larger
  <2>3. QED
    BY <1>0, <2>1, <2>2
<1>1. SyncShape'
  BY <1>0, <1>g DEF SyncInv, SyncShape, IsDoc
<1>2. CycleInv'
  BY <1>0, <1>g DEF SyncInv, SyncShape, IsDoc, CycleInv, CatchingUp
<1>3. \A t \in DOMAIN posted' : stored'[t] = "none" => t \in inbox' \cup missed'
  BY <1>0, <1>g DEF SyncInv, SyncShape, GapInv
<1>4. \A t \in inbox' : /\ live'.pc # "idle" => t > live'.at
                        /\ ~doc'.boot => t > doc'.synced
  BY <1>0 DEF SyncInv, GapInv, ContextInv, CatchingUp
<1>5. ASSUME Prompt, joined', doc'.boot, NEW t \in DOMAIN posted', Unread(t)' PROVE Ahead(t)'
  <2>1. Unread(t) /\ Ahead(t) /\ t \in DOMAIN posted
    BY <1>0, <1>5 DEF SyncInv, SyncShape, GapInv, Unread
  <2>2. /\ t > doc.synced /\ t > sync.cursor /\ doc.through <= sync.cursor
        /\ {t, doc.synced, doc.through, sync.cursor} \subseteq Nat
    BY <1>0, <2>1 DEF SyncInv, SyncShape, IsDoc, CycleInv, Ahead
  <2>3. t > doc'.synced /\ ~(t < doc.through)
    BY <1>g, <2>2
  <2>4. QED
    BY <1>0, <1>g, <2>1, <2>3 DEF Ahead, Quiet
<1>6. GapInv'
  BY <1>3, <1>4, <1>5 DEF GapInv
<1>7. ContextInv'
  BY <1>0, <1>g DEF SyncInv, SyncShape, IsDoc, CycleInv, ContextInv, CatchingUp
<1>8. QED
  BY <1>1, <1>2, <1>6, <1>7 DEF SyncInv

\* The conversation is left to a later pass.
LEMMA DeferredKeeps ==
  ASSUME SyncInv, Deferred
  PROVE  SyncInv'
<1>0. /\ sync.pc \in {"deferred", "roots"}
      /\ DOMAIN sync' = SyncFields
      /\ sync'.pc = "backfill"
      /\ sync'.cycle = sync.cycle
      /\ sync'.started = sync.started
      /\ sync'.joined = sync.joined
      /\ sync'.state = sync.state
      /\ sync'.cursor = sync.cursor
      /\ sync'.left = sync.left
      /\ UNCHANGED <<clock, posted, stored, socket, inbox, joined, doc, live, owed, missed, history, early>>
  BY DEF SyncInv, SyncShape, IsDoc, DocFields, SyncFields, Deferred, SyncGoTo, Breaks
<1>1. SyncShape'
  BY <1>0 DEF SyncInv, SyncShape, IsDoc
<1>2. CycleInv'
  BY <1>0 DEF SyncInv, SyncShape, IsDoc, CycleInv, CatchingUp
<1>3. \A t \in DOMAIN posted' : stored'[t] = "none" => t \in inbox' \cup missed'
  BY <1>0 DEF SyncInv, SyncShape, GapInv
<1>4. \A t \in inbox' : /\ live'.pc # "idle" => t > live'.at
                        /\ ~doc'.boot => t > doc'.synced
  BY <1>0 DEF SyncInv, SyncShape, IsDoc, GapInv
<1>5. ASSUME Prompt, joined', doc'.boot, NEW t \in DOMAIN posted', Unread(t)' PROVE Ahead(t)'
  <2>1. Unread(t) /\ Ahead(t) /\ t \in DOMAIN posted
    BY <1>0, <1>5 DEF SyncInv, SyncShape, GapInv, Unread
  <2>2. QED
    BY <1>0, <1>5, <2>1 DEF SyncInv, SyncShape, IsDoc, CycleInv, CatchingUp, Ahead, Quiet
<1>6. GapInv'
  BY <1>3, <1>4, <1>5 DEF GapInv
<1>7. ContextInv'
  BY <1>0 DEF SyncInv, SyncShape, IsDoc, CycleInv, ContextInv, CatchingUp
<1>8. QED
  BY <1>1, <1>2, <1>6, <1>7 DEF SyncInv

\* A conversation without a bootstrap is imported.
LEMMA BackfillListKeeps ==
  ASSUME SyncInv, BackfillList
  PROVE  SyncInv'
<1>0. /\ sync.pc = "backfill"
      /\ DOMAIN sync' = SyncFields
      /\ doc.boot => sync' = IdleSync
      /\ ~doc.boot => /\ sync'.pc = "import" /\ sync'.cycle = sync.cycle /\ sync'.started = sync.started
                      /\ sync'.joined = sync.joined /\ sync'.state = sync.state /\ sync'.cursor = sync.started
      /\ UNCHANGED <<clock, posted, stored, socket, inbox, joined, doc, live, owed, missed, history, early>>
  BY DEF SyncInv, SyncShape, IsDoc, DocFields, SyncFields, BackfillList, IdleSync
<1>1. SyncShape'
  BY <1>0, IdleSyncFacts DEF SyncInv, SyncShape, IsDoc
<1>2. CycleInv'
  BY <1>0, IdleSyncFacts DEF SyncInv, SyncShape, IsDoc, CycleInv, CatchingUp
<1>3. \A t \in DOMAIN posted' : stored'[t] = "none" => t \in inbox' \cup missed'
  BY <1>0, IdleSyncFacts DEF SyncInv, SyncShape, GapInv
<1>4. \A t \in inbox' : /\ live'.pc # "idle" => t > live'.at
                        /\ ~doc'.boot => t > doc'.synced
  BY <1>0, IdleSyncFacts DEF SyncInv, SyncShape, IsDoc, GapInv
<1>5. ASSUME Prompt, joined', doc'.boot, NEW t \in DOMAIN posted', Unread(t)' PROVE Ahead(t)'
  <2>1. Unread(t) /\ Ahead(t) /\ t \in DOMAIN posted
    BY <1>0, IdleSyncFacts, <1>5 DEF SyncInv, SyncShape, GapInv, Unread
  <2>2. QED
    BY <1>0, IdleSyncFacts, <1>5, <2>1 DEF SyncInv, SyncShape, IsDoc, CycleInv,
       CatchingUp, Ahead, Quiet
<1>6. GapInv'
  BY <1>3, <1>4, <1>5 DEF GapInv
<1>7. ContextInv'
  BY <1>0, IdleSyncFacts DEF SyncInv, SyncShape, IsDoc, CycleInv, ContextInv, CatchingUp
<1>8. QED
  BY <1>1, <1>2, <1>6, <1>7 DEF SyncInv

\* The bootstrap ends: what it leaves unread is still with the live loop.
LEMMA CompleteBootstrapKeeps ==
  ASSUME SyncInv, CompleteBootstrap
  PROVE  SyncInv'
<1>0. /\ sync.pc = "import"
      /\ DOMAIN doc' = DocFields
      /\ doc'.boot = TRUE
      /\ doc'.synced = Larger(doc.synced, sync.started)
      /\ doc'.through = doc.through
      /\ doc'.latest = doc.latest
      /\ doc'.thread = doc.thread
      /\ doc'.live = doc.live
      /\ history' = {t \in DOMAIN posted : t < sync.started}
      /\ early' = missed
      /\ sync' = IdleSync
      /\ UNCHANGED <<clock, posted, stored, socket, inbox, joined, live, owed, missed>>
  BY DEF SyncInv, SyncShape, IsDoc, DocFields, SyncFields, CompleteBootstrap
<1>g. /\ doc'.synced \in Nat /\ doc'.synced <= clock /\ doc'.synced \in {doc.synced, sync.started}
      /\ doc.synced <= doc'.synced /\ sync.started <= doc'.synced
  <2>1. {doc.synced, sync.started, clock} \subseteq Nat /\ doc.synced <= clock /\ sync.started <= clock
    BY <1>0 DEF SyncInv, SyncShape, IsDoc, CycleInv, CatchingUp
  <2>2. Larger(doc.synced, sync.started) \in Nat /\ Larger(doc.synced, sync.started) <= clock /\ doc.synced <= Larger(doc.synced, sync.started) /\ sync.started <= Larger(doc.synced, sync.started)
        /\ Larger(doc.synced, sync.started) \in {doc.synced, sync.started}
    BY <2>1 DEF Larger
  <2>3. QED
    BY <1>0, <2>1, <2>2
<1>1. SyncShape'
  BY <1>0, IdleSyncFacts, <1>g DEF SyncInv, SyncShape, IsDoc
<1>2. CycleInv'
  BY <1>0, IdleSyncFacts, <1>g DEF SyncInv, SyncShape, IsDoc, CycleInv, CatchingUp
<1>3. \A t \in DOMAIN posted' : stored'[t] = "none" => t \in inbox' \cup missed'
  BY <1>0, IdleSyncFacts, <1>g DEF SyncInv, SyncShape, GapInv
<1>4. \A t \in inbox' : /\ live'.pc # "idle" => t > live'.at
                        /\ ~doc'.boot => t > doc'.synced
  BY <1>0, IdleSyncFacts, <1>g DEF SyncInv, SyncShape, IsDoc, GapInv
<1>5. ASSUME Prompt, joined', doc'.boot, NEW t \in DOMAIN posted', Unread(t)' PROVE Ahead(t)'
  <2>1. /\ t \in DOMAIN posted /\ ~doc.boot /\ doc.through = 0 /\ stored[t] = "none"
        /\ ~(t < sync.started) /\ t \notin missed /\ t # sync.started
    BY <1>0, <1>5 DEF Unread, SyncInv, CycleInv
  <2>2. t \in inbox /\ {t, sync.started, doc.synced} \subseteq Nat
    BY <2>1 DEF SyncInv, SyncShape, IsDoc, GapInv
  <2>3. t > sync.started /\ t > doc.synced /\ (live.pc # "idle" => t > live.at)
    BY <2>1, <2>2 DEF SyncInv, GapInv
  <2>4. t > doc'.synced
    BY <1>g, <2>3
  <2>5. QED
    BY <1>0, <2>1, <2>2, <2>3, <2>4, IdleSyncFacts DEF Ahead
<1>6. GapInv'
  BY <1>3, <1>4, <1>5 DEF GapInv
<1>7. ContextInv'
  BY <1>0, IdleSyncFacts, <1>g DEF SyncInv, SyncShape, IsDoc, CycleInv, ContextInv, CatchingUp
<1>8. QED
  BY <1>1, <1>2, <1>6, <1>7 DEF SyncInv

\* The socket is lost, and what it had not delivered is missed.
LEMMA DisconnectKeeps ==
  ASSUME SyncInv, Disconnect
  PROVE  SyncInv'
<1>0. /\ socket = "up"
      /\ socket' = "cut"
      /\ missed' = missed \cup inbox
      /\ inbox' = {}
      /\ UNCHANGED <<clock, posted, stored, joined, doc, live, owed, sync, history, early>>
  BY DEF SyncInv, SyncShape, IsDoc, DocFields, SyncFields, Disconnect, Breaks
<1>1. SyncShape'
  BY <1>0 DEF SyncInv, SyncShape, IsDoc
<1>2. CycleInv'
  BY <1>0 DEF SyncInv, SyncShape, IsDoc, CycleInv, CatchingUp
<1>3. \A t \in DOMAIN posted' : stored'[t] = "none" => t \in inbox' \cup missed'
  BY <1>0 DEF SyncInv, SyncShape, GapInv
<1>4. \A t \in inbox' : /\ live'.pc # "idle" => t > live'.at
                        /\ ~doc'.boot => t > doc'.synced
  BY <1>0 DEF SyncInv, SyncShape, IsDoc, GapInv
<1>5. ASSUME Prompt, joined', doc'.boot, NEW t \in DOMAIN posted', Unread(t)' PROVE Ahead(t)'
  <2>1. Unread(t) /\ Ahead(t) /\ t \in DOMAIN posted
    BY <1>0, <1>5 DEF SyncInv, SyncShape, GapInv, Unread
  <2>2. QED
    BY <1>0, <1>5, <2>1 DEF SyncInv, SyncShape, IsDoc, CycleInv, CatchingUp, Ahead, Quiet
<1>6. GapInv'
  BY <1>3, <1>4, <1>5 DEF GapInv
<1>7. ContextInv'
  BY <1>0 DEF SyncInv, SyncShape, IsDoc, CycleInv, ContextInv, CatchingUp
<1>8. QED
  BY <1>1, <1>2, <1>6, <1>7 DEF SyncInv

\* The socket comes back and owes a recovery.
LEMMA ReconnectKeeps ==
  ASSUME SyncInv, Reconnect
  PROVE  SyncInv'
<1>0. /\ socket = "cut"
      /\ socket' = "up"
      /\ owed' = owed + 1
      /\ UNCHANGED <<clock, posted, stored, inbox, joined, doc, live, sync, missed, history, early>>
  BY DEF SyncInv, SyncShape, IsDoc, DocFields, SyncFields, Reconnect
<1>1. SyncShape'
  BY <1>0 DEF SyncInv, SyncShape, IsDoc
<1>2. CycleInv'
  BY <1>0 DEF SyncInv, SyncShape, IsDoc, CycleInv, CatchingUp
<1>3. \A t \in DOMAIN posted' : stored'[t] = "none" => t \in inbox' \cup missed'
  BY <1>0 DEF SyncInv, SyncShape, GapInv
<1>4. \A t \in inbox' : /\ live'.pc # "idle" => t > live'.at
                        /\ ~doc'.boot => t > doc'.synced
  BY <1>0 DEF SyncInv, SyncShape, IsDoc, GapInv
<1>5. ASSUME Prompt, joined', doc'.boot, NEW t \in DOMAIN posted', Unread(t)' PROVE Ahead(t)'
  <2>1. Unread(t) /\ Ahead(t) /\ t \in DOMAIN posted
    BY <1>0, <1>5 DEF SyncInv, SyncShape, GapInv, Unread
  <2>2. QED
    BY <1>0, <1>5, <2>1 DEF SyncInv, SyncShape, IsDoc, CycleInv, CatchingUp, Ahead, Quiet
<1>6. GapInv'
  BY <1>3, <1>4, <1>5 DEF GapInv
<1>7. ContextInv'
  BY <1>0 DEF SyncInv, SyncShape, IsDoc, CycleInv, ContextInv, CatchingUp
<1>8. QED
  BY <1>1, <1>2, <1>6, <1>7 DEF SyncInv

\* The process ends.
LEMMA CrashKeeps ==
  ASSUME SyncInv, Crash
  PROVE  SyncInv'
<1>0. /\ socket' = "stopped"
      /\ missed' = missed \cup inbox
      /\ inbox' = {}
      /\ live' = IdleLive
      /\ owed' = 0
      /\ sync' = IdleSync
      /\ UNCHANGED <<clock, posted, stored, joined, doc, history, early>>
  BY DEF SyncInv, SyncShape, IsDoc, DocFields, SyncFields, Crash, Breaks
<1>i. live'.pc = "idle" /\ live'.at = 0 /\ DOMAIN live' = {"pc", "at"}
  BY <1>0 DEF IdleLive
<1>1. SyncShape'
  BY <1>0, IdleSyncFacts, <1>i DEF SyncInv, SyncShape, IsDoc
<1>2. CycleInv'
  BY <1>0, IdleSyncFacts, <1>i DEF SyncInv, SyncShape, IsDoc, CycleInv, CatchingUp
<1>3. \A t \in DOMAIN posted' : stored'[t] = "none" => t \in inbox' \cup missed'
  BY <1>0, IdleSyncFacts, <1>i DEF SyncInv, SyncShape, GapInv
<1>4. \A t \in inbox' : /\ live'.pc # "idle" => t > live'.at
                        /\ ~doc'.boot => t > doc'.synced
  BY <1>0, IdleSyncFacts, <1>i DEF SyncInv, SyncShape, IsDoc, GapInv
<1>5. ASSUME Prompt, joined', doc'.boot, NEW t \in DOMAIN posted', Unread(t)' PROVE Ahead(t)'
  <2>1. Unread(t) /\ Ahead(t) /\ t \in DOMAIN posted
    BY <1>0, IdleSyncFacts, <1>i, <1>5 DEF SyncInv, SyncShape, GapInv, Unread
  <2>2. QED
    BY <1>0, IdleSyncFacts, <1>i, <1>5, <2>1 DEF SyncInv, SyncShape, IsDoc, CycleInv,
       CatchingUp, Ahead, Quiet
<1>6. GapInv'
  BY <1>3, <1>4, <1>5 DEF GapInv
<1>7. ContextInv'
  BY <1>0, IdleSyncFacts, <1>i DEF SyncInv, SyncShape, IsDoc, CycleInv, ContextInv, CatchingUp
<1>8. QED
  BY <1>1, <1>2, <1>6, <1>7 DEF SyncInv

\* A cycle fails; one that has a catch-up to arm is not lost.
LEMMA CycleFailsKeeps ==
  ASSUME SyncInv, CycleFails
  PROVE  SyncInv'
<1>0. /\ sync.pc # "idle"
      /\ ~ (Prompt /\ sync.cycle = "reconnect" /\ sync.pc \in {"list", "arm"})
      /\ DOMAIN sync' = SyncFields
      /\ \/ sync' = IdleSync
         \/ /\ sync'.pc = "backfill" /\ sync'.cycle = sync.cycle /\ sync'.started = sync.started
            /\ sync'.joined = sync.joined /\ sync'.state = sync.state /\ sync'.cursor = sync.cursor
      /\ UNCHANGED <<clock, posted, stored, socket, inbox, joined, doc, live, owed, missed, history, early>>
  BY DEF SyncInv, SyncShape, IsDoc, DocFields, SyncFields, CycleFails, IdleSync, Breaks
<1>1. SyncShape'
  BY <1>0, IdleSyncFacts DEF SyncInv, SyncShape, IsDoc
<1>2. CycleInv'
  BY <1>0, IdleSyncFacts DEF SyncInv, SyncShape, IsDoc, CycleInv, CatchingUp
<1>3. \A t \in DOMAIN posted' : stored'[t] = "none" => t \in inbox' \cup missed'
  BY <1>0, IdleSyncFacts DEF SyncInv, SyncShape, GapInv
<1>4. \A t \in inbox' : /\ live'.pc # "idle" => t > live'.at
                        /\ ~doc'.boot => t > doc'.synced
  BY <1>0, IdleSyncFacts DEF SyncInv, SyncShape, IsDoc, GapInv
<1>5. ASSUME Prompt, joined', doc'.boot, NEW t \in DOMAIN posted', Unread(t)' PROVE Ahead(t)'
  <2>1. Unread(t) /\ Ahead(t) /\ t \in DOMAIN posted
    BY <1>0, <1>5 DEF SyncInv, SyncShape, GapInv, Unread
  <2>2. sync'.pc \in {"idle", "backfill"}
    BY <1>0, IdleSyncFacts
  <2>3. Quiet' => t \in inbox \/ t < doc.through
    BY <1>0, <1>5, <2>1, <2>2 DEF SyncInv, CycleInv, Ahead, Quiet
  <2>4. QED
    BY <1>0, <2>1, <2>2, <2>3 DEF Ahead
<1>6. GapInv'
  BY <1>3, <1>4, <1>5 DEF GapInv
<1>7. ContextInv'
  BY <1>0, IdleSyncFacts DEF SyncInv, SyncShape, IsDoc, CycleInv, ContextInv, CatchingUp
<1>8. QED
  BY <1>1, <1>2, <1>6, <1>7 DEF SyncInv

\* Tag leaves the conversation, and nothing is promised of it.
LEMMA LeaveKeeps ==
  ASSUME SyncInv, Leave
  PROVE  SyncInv'
<1>0. /\ joined' = FALSE
      /\ UNCHANGED <<clock, posted, stored, socket, inbox, doc, live, owed, sync, missed, history, early>>
  BY DEF SyncInv, SyncShape, IsDoc, DocFields, SyncFields, Leave
<1>1. SyncShape'
  BY <1>0 DEF SyncInv, SyncShape, IsDoc
<1>2. CycleInv'
  BY <1>0 DEF SyncInv, SyncShape, IsDoc, CycleInv, CatchingUp
<1>3. \A t \in DOMAIN posted' : stored'[t] = "none" => t \in inbox' \cup missed'
  BY <1>0 DEF SyncInv, SyncShape, GapInv
<1>4. \A t \in inbox' : /\ live'.pc # "idle" => t > live'.at
                        /\ ~doc'.boot => t > doc'.synced
  BY <1>0 DEF SyncInv, SyncShape, IsDoc, GapInv
<1>5. ASSUME Prompt, joined', doc'.boot, NEW t \in DOMAIN posted', Unread(t)' PROVE Ahead(t)'
  <2>1. Unread(t) /\ Ahead(t) /\ t \in DOMAIN posted
    BY <1>0, <1>5 DEF SyncInv, SyncShape, GapInv, Unread
  <2>2. QED
    BY <1>0, <1>5, <2>1 DEF SyncInv, SyncShape, IsDoc, CycleInv, CatchingUp, Ahead, Quiet
<1>6. GapInv'
  BY <1>3, <1>4, <1>5 DEF GapInv
<1>7. ContextInv'
  BY <1>0 DEF SyncInv, SyncShape, IsDoc, CycleInv, ContextInv, CatchingUp
<1>8. QED
  BY <1>1, <1>2, <1>6, <1>7 DEF SyncInv

\* The live loop stores the oldest event it has.
LEMMA HandleEnvelopeKeeps ==
  ASSUME SyncInv, HandleEnvelope
  PROVE  SyncInv'
<1>0. PICK t0 \in Oldest(inbox) :
        /\ t0 \in inbox
        /\ \A u \in inbox : t0 <= u
        /\ live.pc = "idle"
        /\ socket = "up"
        /\ Prompt => owed = 0 /\ sync.pc \notin {"list", "arm"}
        /\ Store(t0, "pending")
        /\ inbox' = inbox \ {t0}
        /\ DOMAIN live' = {"pc", "at"}
        /\ live'.pc = "advance"
        /\ live'.at = t0
        /\ UNCHANGED <<clock, posted, socket, joined, doc, owed, sync, missed, history, early>>
  BY DEF SyncInv, SyncShape, IsDoc, DocFields, SyncFields, HandleEnvelope, Oldest, Newest
<1>t. t0 \in DOMAIN posted
  BY <1>0 DEF SyncInv, SyncShape, Between, RootsLeft
<1>s. /\ DOMAIN stored' = DOMAIN stored
      /\ \A u \in DOMAIN posted :
           stored'[u] = IF u = t0 /\ stored[t0] = "none" THEN "pending" ELSE stored[u]
  BY <1>0, <1>t, StoreFacts DEF SyncInv, Recover
<1>1. SyncShape'
  BY <1>0, <1>t, <1>s DEF SyncInv, SyncShape, IsDoc
<1>2. CycleInv'
  BY <1>0, <1>t, <1>s DEF SyncInv, SyncShape, IsDoc, CycleInv, CatchingUp
<1>3. \A t \in DOMAIN posted' : stored'[t] = "none" => t \in inbox' \cup missed'
  BY <1>0, <1>t, <1>s DEF SyncInv, SyncShape, GapInv
<1>4. \A t \in inbox' : /\ live'.pc # "idle" => t > live'.at
                        /\ ~doc'.boot => t > doc'.synced
  BY <1>0, <1>t, <1>s DEF SyncInv, SyncShape, IsDoc, GapInv
<1>5. ASSUME Prompt, joined', doc'.boot, NEW t \in DOMAIN posted', Unread(t)' PROVE Ahead(t)'
  <2>1. Unread(t) /\ Ahead(t) /\ t \in DOMAIN posted /\ t # t0
    BY <1>0, <1>s, <1>5 DEF SyncInv, SyncShape, GapInv, Unread
  <2>2. t \in inbox \/ t < doc.through
    BY <1>0, <1>5, <2>1 DEF Ahead, Quiet
  <2>3. t \in inbox => t \in inbox' /\ t > t0
    BY <1>0, <2>1 DEF SyncInv, SyncShape
  <2>4. QED
    BY <1>0, <2>1, <2>2, <2>3 DEF Ahead, Quiet
<1>6. GapInv'
  BY <1>3, <1>4, <1>5 DEF GapInv
<1>7. ContextInv'
  BY <1>0, <1>t, <1>s DEF SyncInv, SyncShape, IsDoc, CycleInv, ContextInv, CatchingUp
<1>8. QED
  BY <1>1, <1>2, <1>6, <1>7 DEF SyncInv

\* A catch-up stores the oldest reply it has not read.
LEMMA RecoverReplyKeeps ==
  ASSUME SyncInv, RecoverReply
  PROVE  SyncInv'
<1>0. PICK t0 \in Oldest(Between({"reply"}, ThreadAfter, sync.state.through)) :
        /\ t0 \in Between({"reply"}, ThreadAfter, sync.state.through)
        /\ \A u \in Between({"reply"}, ThreadAfter, sync.state.through) : t0 <= u
        /\ sync.pc = "threads"
        /\ Recover(t0)
        /\ DOMAIN sync' = SyncFields
        /\ sync'.pc = sync.pc
        /\ sync'.cycle = sync.cycle
        /\ sync'.started = sync.started
        /\ sync'.joined = sync.joined
        /\ sync'.state = sync.state
        /\ sync'.cursor = t0
        /\ UNCHANGED <<clock, posted, socket, inbox, joined, doc, live, owed, missed, history, early>>
  BY DEF SyncInv, SyncShape, IsDoc, DocFields, SyncFields, RecoverReply, Oldest, Newest
<1>t. t0 \in DOMAIN posted
  BY <1>0 DEF SyncInv, SyncShape, Between, RootsLeft
<1>s. /\ DOMAIN stored' = DOMAIN stored
      /\ \A u \in DOMAIN posted :
           stored'[u] = IF u = t0 /\ stored[t0] = "none" THEN (IF posted[t0] = "ambient" THEN "resolved" ELSE "pending") ELSE stored[u]
  BY <1>0, <1>t, StoreFacts DEF SyncInv, Recover
<1>1. SyncShape'
  BY <1>0, <1>t, <1>s DEF SyncInv, SyncShape, IsDoc
<1>2. CycleInv'
  BY <1>0, <1>t, <1>s DEF SyncInv, SyncShape, IsDoc, CycleInv, CatchingUp
<1>3. \A t \in DOMAIN posted' : stored'[t] = "none" => t \in inbox' \cup missed'
  BY <1>0, <1>t, <1>s DEF SyncInv, SyncShape, GapInv
<1>4. \A t \in inbox' : /\ live'.pc # "idle" => t > live'.at
                        /\ ~doc'.boot => t > doc'.synced
  BY <1>0, <1>t, <1>s DEF SyncInv, SyncShape, IsDoc, GapInv
<1>5. ASSUME Prompt, joined', doc'.boot, NEW t \in DOMAIN posted', Unread(t)' PROVE Ahead(t)'
  <2>1. Unread(t) /\ Ahead(t) /\ t \in DOMAIN posted /\ t # t0
    BY <1>0, <1>s, <1>5 DEF SyncInv, SyncShape, GapInv, Unread
  <2>2. t < doc.through /\ posted[t] = "reply" => t \in Between({"reply"}, ThreadAfter, sync.state.through)
    BY <1>0, <2>1, UnreadReply
  <2>3. t < doc.through /\ posted[t] = "reply" => t > t0
    BY <1>0, <1>t, <2>1, <2>2 DEF SyncInv, SyncShape
  <2>4. QED
    BY <1>0, <2>1, <2>3 DEF Ahead, Quiet
<1>6. GapInv'
  BY <1>3, <1>4, <1>5 DEF GapInv
<1>7. ContextInv'
  <2>1. doc.boot /\ t0 \notin history
    BY <1>0, <1>t, AfterHistory
  <2>2. QED
    BY <1>0, <1>t, <1>s, <2>1 DEF SyncInv, SyncShape, ContextInv, CatchingUp
<1>8. QED
  BY <1>1, <1>2, <1>6, <1>7 DEF SyncInv

\* A catch-up stores the newest root it has not read.
LEMMA RecoverRootKeeps ==
  ASSUME SyncInv, RecoverRoot
  PROVE  SyncInv'
<1>0. PICK t0 \in Newest(RootsLeft) :
        /\ t0 \in RootsLeft
        /\ \A u \in RootsLeft : u <= t0
        /\ sync.pc = "roots"
        /\ Recover(t0)
        /\ DOMAIN sync' = SyncFields
        /\ sync'.pc = sync.pc
        /\ sync'.cycle = sync.cycle
        /\ sync'.started = sync.started
        /\ sync'.joined = sync.joined
        /\ sync'.state = sync.state
        /\ sync'.cursor = t0
        /\ UNCHANGED <<clock, posted, socket, inbox, joined, doc, live, owed, missed, history, early>>
  BY DEF SyncInv, SyncShape, IsDoc, DocFields, SyncFields, RecoverRoot, Oldest, Newest
<1>t. t0 \in DOMAIN posted
  BY <1>0 DEF SyncInv, SyncShape, Between, RootsLeft
<1>s. /\ DOMAIN stored' = DOMAIN stored
      /\ \A u \in DOMAIN posted :
           stored'[u] = IF u = t0 /\ stored[t0] = "none" THEN (IF posted[t0] = "ambient" THEN "resolved" ELSE "pending") ELSE stored[u]
  BY <1>0, <1>t, StoreFacts DEF SyncInv, Recover
<1>1. SyncShape'
  BY <1>0, <1>t, <1>s DEF SyncInv, SyncShape, IsDoc
<1>2. CycleInv'
  BY <1>0, <1>t, <1>s DEF SyncInv, SyncShape, IsDoc, CycleInv, CatchingUp
<1>3. \A t \in DOMAIN posted' : stored'[t] = "none" => t \in inbox' \cup missed'
  BY <1>0, <1>t, <1>s DEF SyncInv, SyncShape, GapInv
<1>4. \A t \in inbox' : /\ live'.pc # "idle" => t > live'.at
                        /\ ~doc'.boot => t > doc'.synced
  BY <1>0, <1>t, <1>s DEF SyncInv, SyncShape, IsDoc, GapInv
<1>5. ASSUME Prompt, joined', doc'.boot, NEW t \in DOMAIN posted', Unread(t)' PROVE Ahead(t)'
  <2>1. Unread(t) /\ Ahead(t) /\ t \in DOMAIN posted /\ t # t0
    BY <1>0, <1>s, <1>5 DEF SyncInv, SyncShape, GapInv, Unread
  <2>2. t < doc.through => t \in RootsLeft
    BY <1>0, <2>1, UnreadRoot
  <2>3. t < doc.through => t < t0
    BY <1>0, <1>t, <2>1, <2>2 DEF SyncInv, SyncShape
  <2>4. QED
    BY <1>0, <2>1, <2>3 DEF Ahead, Quiet
<1>6. GapInv'
  BY <1>3, <1>4, <1>5 DEF GapInv
<1>7. ContextInv'
  <2>1. doc.boot /\ t0 \notin history
    BY <1>0, <1>t, AfterHistory
  <2>2. QED
    BY <1>0, <1>t, <1>s, <2>1 DEF SyncInv, SyncShape, ContextInv, CatchingUp
<1>8. QED
  BY <1>1, <1>2, <1>6, <1>7 DEF SyncInv

\* The bootstrap stores a message as context.
LEMMA ImportHistoryKeeps ==
  ASSUME SyncInv, ImportHistory
  PROVE  SyncInv'
<1>0. PICK t0 \in Newest(Between(Kinds, 0, sync.cursor)) :
        /\ t0 \in Between(Kinds, 0, sync.cursor)
        /\ sync.pc = "import"
        /\ Store(t0, "resolved")
        /\ DOMAIN sync' = SyncFields
        /\ sync'.pc = sync.pc
        /\ sync'.cycle = sync.cycle
        /\ sync'.started = sync.started
        /\ sync'.joined = sync.joined
        /\ sync'.state = sync.state
        /\ sync'.cursor = t0
        /\ UNCHANGED <<clock, posted, socket, inbox, joined, doc, live, owed, missed, history, early>>
  BY DEF SyncInv, SyncShape, IsDoc, DocFields, SyncFields, ImportHistory, Oldest, Newest
<1>t. t0 \in DOMAIN posted
  BY <1>0 DEF SyncInv, SyncShape, Between, RootsLeft
<1>s. /\ DOMAIN stored' = DOMAIN stored
      /\ \A u \in DOMAIN posted :
           stored'[u] = IF u = t0 /\ stored[t0] = "none" THEN "resolved" ELSE stored[u]
  BY <1>0, <1>t, StoreFacts DEF SyncInv, Recover
<1>g. t0 < sync.cursor /\ t0 < sync.started /\ ~doc.boot /\ t0 \in 0 .. clock
  BY <1>0, <1>t DEF SyncInv, SyncShape, CycleInv, Between
<1>1. SyncShape'
  BY <1>0, <1>t, <1>s, <1>g DEF SyncInv, SyncShape, IsDoc
<1>2. CycleInv'
  BY <1>0, <1>t, <1>s, <1>g DEF SyncInv, SyncShape, IsDoc, CycleInv, CatchingUp
<1>3. \A t \in DOMAIN posted' : stored'[t] = "none" => t \in inbox' \cup missed'
  BY <1>0, <1>t, <1>s, <1>g DEF SyncInv, SyncShape, GapInv
<1>4. \A t \in inbox' : /\ live'.pc # "idle" => t > live'.at
                        /\ ~doc'.boot => t > doc'.synced
  BY <1>0, <1>t, <1>s, <1>g DEF SyncInv, SyncShape, IsDoc, GapInv
<1>5. ASSUME Prompt, joined', doc'.boot, NEW t \in DOMAIN posted', Unread(t)' PROVE Ahead(t)'
  <2>1. Unread(t) /\ Ahead(t) /\ t \in DOMAIN posted
    BY <1>0, <1>t, <1>s, <1>g, <1>5 DEF SyncInv, SyncShape, GapInv, Unread
  <2>2. QED
    BY <1>0, <1>t, <1>s, <1>g, <1>5, <2>1 DEF SyncInv, SyncShape, IsDoc, CycleInv,
       CatchingUp, Ahead, Quiet
<1>6. GapInv'
  BY <1>3, <1>4, <1>5 DEF GapInv
<1>7. ContextInv'
  BY <1>0, <1>t, <1>s, <1>g DEF SyncInv, SyncShape, IsDoc, CycleInv, ContextInv, CatchingUp
<1>8. QED
  BY <1>1, <1>2, <1>6, <1>7 DEF SyncInv

\* Nothing is posted and nothing stored.
LEMMA SyncInitInv == SyncInit => SyncInv
<1> SUFFICES ASSUME SyncInit PROVE SyncInv
  OBVIOUS
<1>1. /\ clock = 0 /\ DOMAIN posted = {} /\ DOMAIN stored = {} /\ socket = "stopped" /\ inbox = {}
      /\ owed = 0 /\ sync = IdleSync /\ missed = {} /\ history = {} /\ early = {}
      /\ doc = NoDoc /\ live.pc = "idle" /\ live.at = 0 /\ DOMAIN live = {"pc", "at"}
  BY DEF SyncInit, IdleLive
<1>2. ~doc.boot /\ doc.synced = 0 /\ doc.through = 0 /\ doc.live = 0
  BY <1>1 DEF NoDoc
<1>3. SyncShape
  BY <1>1, <1>2, NoDocFacts, IdleSyncFacts DEF SyncShape
<1>4. CycleInv
  BY <1>1, <1>2, IdleSyncFacts DEF CycleInv, CatchingUp
<1>5. GapInv
  BY <1>1, <1>2 DEF GapInv
<1>6. ContextInv
  BY <1>1, <1>2, IdleSyncFacts DEF ContextInv, CatchingUp
<1>7. QED
  BY <1>3, <1>4, <1>5, <1>6 DEF SyncInv

\* A step that changes nothing.
LEMMA SyncStutter == SyncInv /\ UNCHANGED syncVars => SyncInv'
<1> SUFFICES ASSUME SyncInv, UNCHANGED syncVars PROVE SyncInv'
  OBVIOUS
<1>1. UNCHANGED <<clock, posted, stored, socket, inbox, joined, doc, live, owed, sync,
                  missed, history, early>>
  BY DEF syncVars
<1>2. SyncShape' /\ CycleInv' /\ ContextInv'
  BY <1>1 DEF SyncInv, SyncShape, CycleInv, ContextInv
<1>3. GapInv'
  BY <1>1 DEF SyncInv, GapInv, Unread, Ahead, Quiet
<1>4. QED
  BY <1>2, <1>3 DEF SyncInv

\* The invariant holds in every state, whether or not the code is prompt.
LEMMA SyncInvariant == SyncSpec => []SyncInv
<1>1. SyncInv /\ [SyncNext]_syncVars => SyncInv'
  BY SyncStutter, PostKeeps, HandleEnvelopeKeeps, AdvanceLiveKeeps, AdvanceSyncedKeeps,
     BeginKeeps, DiscoverKeeps, BeginCatchUpKeeps, CancelCatchUpKeeps, CatchUpListKeeps,
     RecoverReplyKeeps, CheckpointThreadCatchUpKeeps, RecoverRootKeeps,
     CheckpointCatchUpKeeps, CompleteCatchUpReadKeeps, CompleteCatchUpKeeps, DeferredKeeps,
     BackfillListKeeps, ImportHistoryKeeps, CompleteBootstrapKeeps, DisconnectKeeps,
     ReconnectKeeps, CrashKeeps, CycleFailsKeeps, LeaveKeeps DEF SyncNext
<1>2. QED
  BY <1>1, SyncInitInv, PTL DEF SyncSpec

\* The watermark never passes a message that is not stored, for any number of posts,
\* cycles, crashes and lost sockets and any budget of a cycle, as long as no message comes
\* between a discovery and its socket or between a reconnect and the catch-up it arms
\* (AdvanceLive, BeginCatchUp, CompleteCatchUp).
THEOREM GapsAreRecovered == ASSUME Prompt PROVE SyncSpec => []NothingSkipped
<1>1. SyncInv => NothingSkipped
  <2> SUFFICES ASSUME SyncInv, joined, doc.boot, NEW t \in DOMAIN posted,
                      t \notin history \cup early, t <= doc.synced, stored[t] = "none"
               PROVE  FALSE
    BY DEF NothingSkipped
  <2>1. t > doc.synced
    BY DEF SyncInv, GapInv, Unread, Ahead
  <2>2. t \in Nat /\ doc.synced \in Nat
    BY DEF SyncInv, SyncShape, IsDoc
  <2>3. QED
    BY <2>1, <2>2
<1>2. QED
  BY <1>1, SyncInvariant, PTL

\* A message that was only ever history is not replayed as work, and what was missed since
\* is queued when it is stored, whatever the loops do in between (ImportHistory,
\* RecoverContextEnvelope).
THEOREM HistoryStaysContext == SyncSpec => []HistoryIsContext
<1>1. SyncInv => HistoryIsContext
  BY DEF SyncInv, SyncShape, ContextInv, HistoryIsContext
<1>2. QED
  BY <1>1, SyncInvariant, PTL

=============================================================================
