------------------------------ MODULE AuditChain ------------------------------
(***************************************************************************)
(* The audit trail in the database (core/audit, MongoChain).               *)
(*                                                                         *)
(* Receipts are documents, unique by sequence number and by idempotency    *)
(* key, and a head document says which is the last.  An appender reads the *)
(* head, inserts the receipt after it and moves the head by compare and    *)
(* swap: two writes, with other appenders and crashes between them.  A     *)
(* receipt the head does not cover yet is adopted by the next appender.    *)
(*                                                                         *)
(* A hash is the list of the calls whose receipts it covers.               *)
(***************************************************************************)
EXTENDS Naturals, Sequences, FiniteSets

CONSTANTS Appenders,     \* processes that append
          Calls,         \* calls of Append, each for one receipt
          KeyOf,         \* the idempotency key of a call
          NoKey,         \* the empty key
          NoCall,        \* no call
          MaxAttempts    \* turns of the compare-and-swap loop (the code: 32)

ASSUME AttemptsAssumption == MaxAttempts \in Nat \ {0}
ASSUME KeysAssumption == KeyOf \in [Calls -> {KeyOf[c] : c \in Calls}]

VARIABLES receipts,  \* the receipts by sequence number
          head,      \* the head document: sequence, hash, version
          app        \* the appenders

auditVars == <<receipts, head, app>>

NoHead == [sequence |-> 0, hash |-> << >>, version |-> 0]
IdleAppender == [pc |-> "idle", call |-> NoCall, head |-> NoHead, attempt |-> 0,
                 result |-> "none"]

AuditInit == /\ receipts = << >>
             /\ head = NoHead
             /\ app = [a \in Appenders |-> IdleAppender]

\* A receipt for call c after head h; its hash covers the one before.
Receipt(c, h) == [call |-> c, previous |-> h.hash]
hashReceipt(r) == Append(r.previous, r.call)

\* Receipts are found by their number and by their key, both unique.
HasSequence(n) == n \in DOMAIN receipts
HasKey(k) == k # NoKey /\ \E n \in DOMAIN receipts : KeyOf[receipts[n].call] = k

AppGoTo(a, pc) == app' = [app EXCEPT ![a].pc = pc]
AppReturn(a, result) == app' = [app EXCEPT ![a] = [IdleAppender EXCEPT !.result = result]]
Again(a) ==
  app' = [app EXCEPT ![a] = IF app[a].attempt < MaxAttempts
                              THEN [app[a] EXCEPT !.pc = "head", !.attempt = @ + 1]
                              ELSE [IdleAppender EXCEPT !.result = "error"]]

\* Append, up to its loop: the receipt on record for the key is the answer.
FindByKey(a) ==
  /\ app[a].pc = "find"
  /\ IF HasKey(KeyOf[app[a].call])
       THEN AppReturn(a, "ok")
       ELSE Again(a)
  /\ UNCHANGED <<receipts, head>>

ReadHead(a) ==
  /\ app[a].pc = "head"
  /\ app' = [app EXCEPT ![a].pc = "recover", ![a].head = head]
  /\ UNCHANGED <<receipts, head>>

\* The compare and swap of the head, from h to the receipt at its next number.
\* An update that upserts meets the unique index of the head document.
Swap(h) ==
  IF head.sequence = h.sequence /\ head.version = h.version
    THEN head' = [sequence |-> h.sequence + 1,
                  hash |-> hashReceipt(receipts[h.sequence + 1]),
                  version |-> h.version + 1]
    ELSE UNCHANGED head
Swapped(h) == head.sequence = h.sequence /\ head.version = h.version

\* The receipt after the head continues the hash the head was read with.
ValidOrphan(h) == receipts[h.sequence + 1].previous = h.hash

\* recoverNext, its read: a receipt after the head is looked for.
LookAhead(a) ==
  /\ app[a].pc = "recover"
  /\ LET h == app[a].head IN
       IF HasSequence(h.sequence + 1)
         THEN IF ValidOrphan(h) THEN AppGoTo(a, "adopt") ELSE AppReturn(a, "tampered")
         ELSE AppGoTo(a, "insert")
  /\ UNCHANGED <<receipts, head>>

\* recoverNext, its write: the receipt is adopted unless the head has moved on.
Adopt(a) ==
  /\ app[a].pc = "adopt"
  /\ Swap(app[a].head)
  /\ IF Swapped(app[a].head) THEN Again(a) ELSE AppGoTo(a, "insert")
  /\ UNCHANGED receipts

\* Mutant of Insert: the index on the sequence number is missing.
InsertOver(a) ==
  /\ app[a].pc = "insert"
  /\ LET h == app[a].head IN
       /\ receipts' = [n \in DOMAIN receipts \cup {h.sequence + 1} |->
                         IF n = h.sequence + 1 THEN Receipt(app[a].call, h)
                         ELSE receipts[n]]
       /\ AppGoTo(a, "swap")
  /\ UNCHANGED head
Insert(a) ==
  /\ app[a].pc = "insert"
  /\ LET h == app[a].head
         n == h.sequence + 1 IN
       IF HasSequence(n) \/ HasKey(KeyOf[app[a].call])
         THEN AppGoTo(a, "exists") /\ UNCHANGED receipts
         ELSE /\ receipts' = [i \in DOMAIN receipts \cup {n} |->
                                IF i = n THEN Receipt(app[a].call, h) ELSE receipts[i]]
              /\ AppGoTo(a, "swap")
  /\ UNCHANGED head

\* A duplicate key: of the idempotency key, or of the sequence number.
Exists(a) ==
  /\ app[a].pc = "exists"
  /\ IF HasKey(KeyOf[app[a].call]) THEN AppReturn(a, "ok") ELSE Again(a)
  /\ UNCHANGED <<receipts, head>>

MoveHead(a) ==
  /\ app[a].pc = "swap"
  /\ Swap(app[a].head)
  /\ IF Swapped(app[a].head) THEN AppReturn(a, "ok") ELSE AppGoTo(a, "reread")
  /\ UNCHANGED receipts

\* Mutant of Reread: the call starts over when the head is not its receipt.
RereadOnly(a) ==
  /\ app[a].pc = "reread"
  /\ IF head.sequence = app[a].head.sequence + 1 THEN AppReturn(a, "ok") ELSE Again(a)
  /\ UNCHANGED <<receipts, head>>
\* The head is read again, then the receipt: both say that it is on record.
Reread(a) ==
  /\ app[a].pc = "reread"
  /\ LET n == app[a].head.sequence + 1 IN
       IF \/ head.sequence = n /\ head.hash = hashReceipt(Receipt(app[a].call, app[a].head))
          \/ HasSequence(n) /\ receipts[n].call = app[a].call
         THEN AppReturn(a, "ok")
         ELSE Again(a)
  /\ UNCHANGED <<receipts, head>>

\* The error of a database call, or the end of the process, at any place.  The
\* answer to the swap may be lost on its way: the swap is then looked up.
AppendFails(a) == /\ app[a].pc # "idle"
                  /\ AppReturn(a, "error")
                  /\ UNCHANGED <<receipts, head>>
SwapAnswerLost(a) == /\ app[a].pc = "swap"
                     /\ Swap(app[a].head) \/ UNCHANGED head
                     /\ AppGoTo(a, "reread")
                     /\ UNCHANGED receipts

AppendStep(a) == \/ FindByKey(a) \/ ReadHead(a) \/ LookAhead(a) \/ Adopt(a)
                 \/ Insert(a) \/ Exists(a) \/ MoveHead(a) \/ Reread(a)

\* MongoChain.Verify over the receipts, and how far the head may be behind.
Verifies ==
  /\ DOMAIN receipts = 1 .. Cardinality(DOMAIN receipts)
  /\ \A n \in DOMAIN receipts :
       receipts[n].previous = IF n = 1 THEN << >> ELSE hashReceipt(receipts[n - 1])
  /\ head.sequence \in {Cardinality(DOMAIN receipts) - 1, Cardinality(DOMAIN receipts)}
  /\ head.hash = IF head.sequence = 0 THEN << >> ELSE hashReceipt(receipts[head.sequence])

\* The chain verifies whatever the interleaving of the appenders and wherever
\* they stop, but for a head that is one receipt behind; no key has two receipts
\* and no call made two; and no appender takes a receipt of another for a
\* tampered one ("invalid orphan audit receipt").
ChainIntact ==
  /\ Verifies
  /\ \A m, n \in DOMAIN receipts : m # n =>
       /\ receipts[m].call # receipts[n].call
       /\ KeyOf[receipts[m].call] = NoKey \/ KeyOf[receipts[m].call] # KeyOf[receipts[n].call]
  /\ \A a \in Appenders : app[a].result # "tampered"

\* The chain is the list under a lock that core/audit promises: an insert
\* appends to it, and nothing else changes it.
Log == INSTANCE AuditLog WITH log <- [n \in 1 .. Len(receipts) |-> receipts[n].call]
=============================================================================
