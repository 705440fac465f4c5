----------------------------- MODULE AnswerProofs -----------------------------
(***************************************************************************)
(* An answer on its way: the turn that makes it (AgentTurn) and the queue  *)
(* that brings it to Slack (Delivery).  The two share no state.            *)
(*                                                                         *)
(* DeliveryInv, for any number of deliveries, senders, files, parts,       *)
(* attempts and crashes, under the two conditions the runs check it under: *)
(* no sender outlives its lease (~Stalls) and no message is rewritten.     *)
(* Why it holds: a record that is claimed has no sender at work on it, so  *)
(* from its read-back on a sender knows exactly what Slack has of its      *)
(* delivery, and nobody else changes that.  SenderInv says so for every    *)
(* place a sender can be at.                                               *)
(*                                                                         *)
(* ApprovedOnce and FilesWithAnswer, for any calls and plans of a turn.    *)
(* Why they hold: one call consumes an approval, and an approval that is   *)
(* not consumed has not been run; a file that was made is with the bridge, *)
(* the call, the buffer, the forwarder or the runner, the session is       *)
(* closed without an error only when every call is answered, and the       *)
(* forwarder ends only when the buffer of a closed session is empty.       *)
(***************************************************************************)
EXTENDS AgentTurn, Delivery, SequenceTheorems, TLAPS

\* What the theorems assume of the constants, besides the module's assumptions.
Ordinary == ~Stalls /\ \A d \in Deliveries : RewriteOf[d] = None

Record == [status : Status, token : Senders \cup {None}, live : BOOLEAN,
           attempt : 0 .. MaxAttempts, expired : BOOLEAN]
Place == {"idle", "sweep", "claim", "gate", "files", "upload", "parts", "post",
          "retry", "mark", "complete"}
ItemNo == 0 .. Items + 1
Seen == SUBSET (1 .. Items)
Sender == [pc : Place, del : Deliveries \cup {None}, item : ItemNo, found : Seen]

\* The places of a sender that has claimed a delivery and has not settled it.
Working == {"gate", "files", "upload", "parts", "post", "retry", "complete"}

\* A sender x named s against the record r of its delivery: it holds the lease, or
\* the record is gone.  Before it marks the job, the record is abandoned or gone.
LeaseOK(s, x, r) ==
  /\ x.pc \in Working => \/ r.status = "leased" /\ r.token = s /\ r.live = TRUE
                         \/ r.status = "deleted"
  /\ x.pc = "mark" => r.status \in {"abandoned", "deleted"}

\* A sender x against what Slack has, p: everything before its item is there, and
\* of the rest of its loop it has seen what is there.
CursorOK(x, p, first, last) ==
  /\ x.item \in first .. last + 1
  /\ \A i \in 1 .. last : i < x.item => p[i] > 0
  /\ \A i \in first .. last : i >= x.item => (i \in x.found <=> p[i] > 0)

ProgressOK(x, p) ==
  /\ x.pc = "upload" => CursorOK(x, p, 1, Files)
  /\ x.pc = "parts" => \A i \in 1 .. Files : p[i] > 0
  /\ x.pc = "post" => CursorOK(x, p, Files + 1, Items)
  /\ x.pc = "complete" => \A i \in 1 .. Items : p[i] > 0

\* What Slack has of one delivery, p: nothing twice, and no gap.
SlackOK(p) == /\ \A i \in 1 .. Items : p[i] <= 1
              /\ \A i \in 2 .. Items : p[i] > 0 => p[i - 1] > 0

Types == /\ rec \in [Deliveries -> Record]
         /\ snd \in [Senders -> Sender]
         /\ posted \in [Deliveries -> [1 .. Items -> Nat]]
         /\ tagged = posted
         /\ marked \subseteq Deliveries
         /\ crashes \in 0 .. MaxCrashes

SenderInv ==
  \A s \in Senders :
    /\ snd[s].del # None <=> snd[s].pc \in Working \cup {"mark"}
    /\ snd[s].del # None => /\ LeaseOK(s, snd[s], rec[snd[s].del])
                            /\ ProgressOK(snd[s], posted[snd[s].del])

\* Two senders do not work on one delivery.
OneSender == \A s, t \in Senders :
  (snd[s].pc \in Working /\ snd[t].pc \in Working /\ snd[s].del = snd[t].del) => s = t

RecordInv ==
  \A d \in Deliveries :
    /\ SlackOK(posted[d])
    /\ rec[d].status = "delivered" => \A i \in 1 .. Items : posted[d][i] > 0
    /\ d \in marked => rec[d].status \in {"abandoned", "deleted"}

IInv == Types /\ SenderInv /\ OneSender /\ RecordInv

(***************************************************************************)
(* Steps that leave Slack alone.                                           *)
(***************************************************************************)
\* What such a step may do to the record d while the senders S stand still: nothing
\* to a final record but delete it, nothing to a lease that one of S works under,
\* and delivered only when every item is in Slack.
Keeps(S, d) ==
  /\ rec[d].status = "deleted" => rec'[d].status = "deleted"
  /\ rec[d].status = "abandoned" => rec'[d].status \in {"abandoned", "deleted"}
  /\ (/\ rec[d].status = "leased"
      /\ rec[d].live = TRUE
      /\ \E s \in S : snd[s].del = d)
       => \/ rec'[d].status = "deleted"
          \/ /\ rec'[d].status = "leased"
             /\ rec'[d].live = TRUE
             /\ rec'[d].token = rec[d].token
  /\ rec'[d].status = "delivered" =>
       rec[d].status = "delivered" \/ \A i \in 1 .. Items : posted[d][i] > 0

\* A sender that stands still keeps its part of the invariant.
LEMMA StandsStill ==
  ASSUME IInv, NEW S \in SUBSET Senders, \A d \in Deliveries : Keeps(S, d),
         NEW s \in S, snd[s].del # None
  PROVE  LeaseOK(s, snd[s], rec'[snd[s].del])
<1>1. snd[s].del \in Deliveries /\ snd[s] \in Sender
  BY DEF IInv, Types, Sender
<1>2. LeaseOK(s, snd[s], rec[snd[s].del])
  BY DEF IInv, SenderInv
<1>3. Keeps(S, snd[s].del)
  BY <1>1
<1>4. QED
  BY <1>1, <1>2, <1>3 DEF LeaseOK, Keeps, Working

\* A step that rewrites records and moves no sender.
LEMMA RecordStep ==
  ASSUME IInv, rec' \in [Deliveries -> Record], \A d \in Deliveries : Keeps(Senders, d),
         UNCHANGED <<snd, slack, marked, crashes>>
  PROVE  IInv'
<1>1. Types' /\ OneSender'
  BY DEF IInv, Types, OneSender, slack
<1>2. SenderInv'
  BY StandsStill DEF IInv, SenderInv, slack
<1>3. RecordInv'
  BY DEF IInv, RecordInv, Keeps, slack
<1>4. QED
  BY <1>1, <1>2, <1>3 DEF IInv

\* A step in which sender s becomes x, and may rewrite records and mark jobs.
LEMMA SenderMoves ==
  ASSUME IInv, NEW s \in Senders, NEW x \in Sender,
         snd' = [snd EXCEPT ![s] = x],
         rec' \in [Deliveries -> Record],
         \A d \in Deliveries : Keeps(Senders \ {s}, d),
         marked' \subseteq Deliveries,
         \A d \in marked' : d \in marked \/ rec[d].status \in {"abandoned", "deleted"},
         crashes' \in 0 .. MaxCrashes,
         UNCHANGED slack,
         x.del # None <=> x.pc \in Working \cup {"mark"},
         x.del # None => /\ LeaseOK(s, x, rec'[x.del])
                         /\ ProgressOK(x, posted[x.del]),
         x.pc \in Working => \A t \in Senders \ {s} :
                               snd[t].pc \in Working => snd[t].del # x.del
  PROVE  IInv'
<1>1. Types'
  BY DEF IInv, Types, slack
<1>2. \A t \in Senders : snd'[t] = IF t = s THEN x ELSE snd[t]
  BY DEF IInv, Types
<1>3. posted' = posted
  BY DEF slack
<1>4. OneSender'
  BY <1>2 DEF IInv, OneSender
<1>5. SenderInv'
  <2> SUFFICES ASSUME NEW t \in Senders
               PROVE  /\ snd'[t].del # None <=> snd'[t].pc \in Working \cup {"mark"}
                      /\ snd'[t].del # None =>
                           /\ LeaseOK(t, snd'[t], rec'[snd'[t].del])
                           /\ ProgressOK(snd'[t], posted[snd'[t].del])
    BY <1>3 DEF SenderInv
  <2>1. CASE t = s
    BY <1>2, <2>1
  <2>2. CASE t # s
    BY <1>2, <2>2, StandsStill DEF IInv, SenderInv
  <2>3. QED
    BY <2>1, <2>2
<1>6. RecordInv'
  <2> SUFFICES ASSUME NEW d \in Deliveries
               PROVE  /\ SlackOK(posted[d])
                      /\ rec'[d].status = "delivered" =>
                           \A i \in 1 .. Items : posted[d][i] > 0
                      /\ d \in marked' => rec'[d].status \in {"abandoned", "deleted"}
    BY <1>3 DEF RecordInv
  <2>1. Keeps(Senders \ {s}, d)
    OBVIOUS
  <2>2. QED
    BY <2>1 DEF Keeps, IInv, RecordInv
<1>7. QED
  BY <1>1, <1>4, <1>5, <1>6 DEF IInv

\* A sender that only moves on: its delivery and all records stay.
LEMMA SenderGoesOn ==
  ASSUME IInv, NEW s \in Senders, NEW x \in Sender,
         snd' = [snd EXCEPT ![s] = x], rec' = rec, UNCHANGED <<slack, marked>>,
         crashes' \in 0 .. MaxCrashes,
         \/ x = IdleSender
         \/ /\ x.del = snd[s].del /\ x.del # None
            /\ x.pc \in Working /\ snd[s].pc \in Working
            /\ ProgressOK(x, posted[x.del])
  PROVE  IInv'
<1>1. \A d \in Deliveries : Keeps(Senders \ {s}, d)
  BY DEF Keeps
<1>2. rec' \in [Deliveries -> Record] /\ marked' \subseteq Deliveries /\ marked' = marked
  BY DEF IInv, Types
<1>3. CASE x = IdleSender
  <2>1. x.del = None /\ x.pc = "idle"
    BY <1>3 DEF IdleSender
  <2>2. x.pc \notin Working \cup {"mark"}
    BY <2>1 DEF Working
  <2>3. QED
    BY <1>1, <1>2, <2>1, <2>2, SenderMoves
<1>4. CASE /\ x.del = snd[s].del /\ x.del # None
           /\ x.pc \in Working /\ snd[s].pc \in Working
           /\ ProgressOK(x, posted[x.del])
  <2>1. LeaseOK(s, x, rec'[x.del])
    BY <1>4 DEF IInv, SenderInv, LeaseOK, Working
  <2>2. \A t \in Senders \ {s} : snd[t].pc \in Working => snd[t].del # x.del
    BY <1>4 DEF IInv, OneSender
  <2>3. QED
    BY <1>1, <1>2, <1>4, <2>1, <2>2, SenderMoves
<1>5. QED
  BY <1>3, <1>4

(***************************************************************************)
(* The actions.                                                            *)
(***************************************************************************)
\* The two initial values have their types.
LEMMA InitialTypes == IdleSender \in Sender /\ NoRecord \in Record
<1>1. 0 \in 0 .. Items + 1 /\ 0 \in 0 .. MaxAttempts
  BY ItemsAssumption, AttemptsAssumption
<1>2. QED
  BY <1>1 DEF IdleSender, Sender, Place, ItemNo, Seen, NoRecord, Record, Status

\* The steps on a record: an enqueue, the end of a lease, the expiry, the TTL index.
LEMMA RecordActions ==
  ASSUME Ordinary, IInv, NEW d \in Deliveries,
         Enqueue(d) \/ LeaseExpires(d) \/ DeliveryExpires(d) \/ TTLDelete(d)
  PROVE  IInv'
<1> USE AttemptsAssumption
<1>0. rec \in [Deliveries -> Record] /\ rec[d] \in Record
  BY DEF IInv, Types
<1>1. CASE Enqueue(d)
  <2>1. rec' \in [Deliveries -> Record]
    BY <1>0, <1>1 DEF Enqueue, Record, Status
  <2>2. \A e \in Deliveries : Keeps(Senders, e)
    BY <1>0, <1>1 DEF Enqueue, Keeps, Record
  <2>3. QED
    BY <1>1, <2>1, <2>2, RecordStep DEF Enqueue
<1>2. CASE LeaseExpires(d)
  <2>1. rec' \in [Deliveries -> Record]
    BY <1>0, <1>2 DEF LeaseExpires, Record
  <2>2. \A s \in Senders : snd[s].del # d
    BY <1>2 DEF LeaseExpires, Ordinary
  <2>3. \A e \in Deliveries : Keeps(Senders, e)
    BY <1>0, <1>2, <2>2 DEF LeaseExpires, Keeps, Record, IInv, RecordInv
  <2>4. QED
    BY <1>2, <2>1, <2>3, RecordStep DEF LeaseExpires
<1>3. CASE DeliveryExpires(d)
  <2>1. rec' \in [Deliveries -> Record]
    BY <1>0, <1>3 DEF DeliveryExpires, Record
  <2>2. \A e \in Deliveries : Keeps(Senders, e)
    BY <1>0, <1>3 DEF DeliveryExpires, Keeps, Record
  <2>3. QED
    BY <1>3, <2>1, <2>2, RecordStep DEF DeliveryExpires
<1>4. CASE TTLDelete(d)
  <2>1. rec' \in [Deliveries -> Record]
    <3>1. [NoRecord EXCEPT !.status = "deleted"] \in Record
      BY InitialTypes DEF Record, Status
    <3>2. QED
      BY <1>0, <1>4, <3>1 DEF TTLDelete
  <2>2. \A e \in Deliveries : Keeps(Senders, e)
    BY <1>0, <1>4, InitialTypes DEF TTLDelete, Keeps, Record
  <2>3. QED
    BY <1>4, <2>1, <2>2, RecordStep DEF TTLDelete
<1>5. QED
  BY <1>1, <1>2, <1>3, <1>4

\* Claim: the two sweeps and the lease.
LEMMA ClaimActions ==
  ASSUME Ordinary, IInv, NEW s \in Senders,
         RecoverLeases(s) \/ AbandonExhausted(s) \/ Claim(s)
  PROVE  IInv'
<1> USE AttemptsAssumption, NamesAssumption
<1>0. /\ rec \in [Deliveries -> Record]
      /\ \A d \in Deliveries : rec[d] \in Record
      /\ snd \in [Senders -> Sender]
      /\ snd[s] \in Sender
      /\ marked \subseteq Deliveries
      /\ crashes \in 0 .. MaxCrashes
  BY DEF IInv, Types
<1>1. CASE RecoverLeases(s)
  <2> DEFINE x == [snd[s] EXCEPT !.pc = "sweep"]
  <2>1. snd' = [snd EXCEPT ![s] = x]
    BY <1>0, <1>1 DEF RecoverLeases, GoTo
  <2>2. x \in Sender /\ x.pc = "sweep" /\ x.del = snd[s].del
    BY <1>0 DEF Sender, Place
  <2>3. x.del = None
    BY <1>1, <2>2 DEF RecoverLeases, IInv, SenderInv, Working
  <2>4. rec' \in [Deliveries -> Record]
    BY <1>0, <1>1 DEF RecoverLeases, Record, Status
  <2>5. \A d \in Deliveries : Keeps(Senders \ {s}, d)
    BY <1>0, <1>1 DEF RecoverLeases, Keeps, Record
  <2>6. UNCHANGED <<slack, marked, crashes>>
    BY <1>1 DEF RecoverLeases
  <2>7. x.pc \notin Working \cup {"mark"}
    BY <2>2 DEF Working
  <2> HIDE DEF x
  <2>8. QED
    BY <1>0, <2>1, <2>2, <2>3, <2>4, <2>5, <2>6, <2>7, SenderMoves
<1>2. CASE AbandonExhausted(s)
  <2> DEFINE x == [snd[s] EXCEPT !.pc = "claim"]
  <2>1. snd' = [snd EXCEPT ![s] = x]
    BY <1>0, <1>2 DEF AbandonExhausted, GoTo
  <2>2. x \in Sender /\ x.pc = "claim" /\ x.del = snd[s].del
    BY <1>0 DEF Sender, Place
  <2>3. x.del = None
    BY <1>2, <2>2 DEF AbandonExhausted, IInv, SenderInv, Working
  <2>4. rec' \in [Deliveries -> Record]
    BY <1>0, <1>2 DEF AbandonExhausted, Record, Status
  <2>5. \A d \in Deliveries : Keeps(Senders \ {s}, d)
    BY <1>0, <1>2 DEF AbandonExhausted, Waiting, Keeps, Record
  <2>6. UNCHANGED <<slack, marked, crashes>>
    BY <1>2 DEF AbandonExhausted
  <2>7. x.pc \notin Working \cup {"mark"}
    BY <2>2 DEF Working
  <2> HIDE DEF x
  <2>8. QED
    BY <1>0, <2>1, <2>2, <2>3, <2>4, <2>5, <2>6, <2>7, SenderMoves
<1>3. ASSUME NEW d \in Deliveries, Claimable(d), Claim(s),
             rec' = [rec EXCEPT ![d].status = "leased", ![d].token = s,
                                ![d].live = TRUE, ![d].attempt = @ + 1],
             snd' = [snd EXCEPT ![s] = [IdleSender EXCEPT !.pc = "gate", !.del = d]]
      PROVE  IInv'
  <2> DEFINE x == [IdleSender EXCEPT !.pc = "gate", !.del = d]
  <2>1. snd' = [snd EXCEPT ![s] = x]
    BY <1>3
  <2>2. x \in Sender /\ x.pc = "gate" /\ x.del = d
    BY InitialTypes DEF Sender, Place
  <2>3. rec[d].status \in {"pending", "retry_wait"} /\ rec[d].attempt + 1 \in 0 .. MaxAttempts
    BY <1>0, <1>3 DEF Claimable, Waiting, Record
  <2>4. /\ rec' = [rec EXCEPT ![d] = rec'[d]]
        /\ rec'[d] = [rec[d] EXCEPT !.status = "leased", !.token = s,
                                    !.live = TRUE, !.attempt = rec[d].attempt + 1]
    BY <1>0, <1>3
  <2>5. rec'[d] \in Record
    <3>1. \A n \in 0 .. MaxAttempts : [rec[d] EXCEPT !.status = "leased", !.token = s,
                                    !.live = TRUE, !.attempt = n] \in Record
      BY <1>0 DEF Record, Status
    <3>2. QED
      BY <2>3, <2>4, <3>1
  <2>6. rec' \in [Deliveries -> Record]
    BY <1>0, <2>4, <2>5
  <2>7. rec'[d].status = "leased" /\ rec'[d].token = s /\ rec'[d].live = TRUE
    BY <1>0, <2>4 DEF Record
  <2>8. \A e \in Deliveries : Keeps(Senders \ {s}, e)
    BY <1>0, <2>3, <2>4, <2>7 DEF Keeps
  <2>9. LeaseOK(s, x, rec'[x.del]) /\ ProgressOK(x, posted[x.del]) /\ x.pc \in Working
    BY <2>2, <2>7 DEF LeaseOK, ProgressOK, Working
  <2>10. \A t \in Senders : snd[t].pc \in Working => snd[t].del # d
    BY <2>3 DEF IInv, SenderInv, LeaseOK, Working
  <2>11. UNCHANGED <<slack, marked, crashes>>
    BY <1>3 DEF Claim
  <2> HIDE DEF x
  <2>12. QED
    BY <1>0, <2>1, <2>2, <2>6, <2>8, <2>9, <2>10, <2>11, SenderMoves
<1>4. ASSUME Claim(s), Return(s), UNCHANGED rec
      PROVE  IInv'
  BY <1>0, <1>4, InitialTypes, SenderGoesOn DEF Claim, Return
<1>5. QED
  BY <1>1, <1>2, <1>3, <1>4 DEF Claim

\* The steps of processOneDelivery that settle a record or mark its job.
LEMMA SettlingActions ==
  ASSUME Ordinary, IInv, NEW s \in Senders,
         Abandon(s) \/ MarkCompletedUndelivered(s) \/ Retry(s) \/ Complete(s)
  PROVE  IInv'
<1> USE NamesAssumption
<1> DEFINE d == snd[s].del
<1>0. /\ rec \in [Deliveries -> Record]
      /\ \A e \in Deliveries : rec[e] \in Record
      /\ snd \in [Senders -> Sender]
      /\ snd[s] \in Sender
      /\ marked \subseteq Deliveries
      /\ crashes \in 0 .. MaxCrashes
  BY DEF IInv, Types
<1>1. d # None /\ d \in Deliveries /\ snd[s].pc \in Working \cup {"mark"}
  BY <1>0 DEF Abandon, MarkCompletedUndelivered, Retry, Complete, IInv, SenderInv,
              Working, Sender
<1>2. LeaseOK(s, snd[s], rec[d]) /\ ProgressOK(snd[s], posted[d])
  BY <1>1 DEF IInv, SenderInv
\* The sender that settles a record is the only one that has it.
<1>3. ASSUME Owns(s, d), NEW status \in Status, rec' = Settled(d, status),
             snd[s].pc \in Working,
             status = "delivered" => \A i \in 1 .. Items : posted[d][i] > 0
      PROVE  /\ rec' \in [Deliveries -> Record]
             /\ \A e \in Deliveries : Keeps(Senders \ {s}, e)
             /\ rec'[d].status = status
  <2> DEFINE r == [rec[d] EXCEPT !.status = status, !.token = None, !.live = FALSE]
  <2>1. rec' = [rec EXCEPT ![d] = r]
    BY <1>3 DEF Settled
  <2>2. r \in Record /\ r.status = status
    BY <1>0, <1>1 DEF Record
  <2> HIDE DEF r, d
  <2>3. rec[d].status = "leased"
    BY <1>3 DEF Owns
  <2>4. \A t \in Senders \ {s} : snd[t].del # d
    <3> SUFFICES ASSUME NEW t \in Senders \ {s}, snd[t].del = d PROVE FALSE
      OBVIOUS
    <3>1. snd[t].pc \in Working \cup {"mark"} /\ LeaseOK(t, snd[t], rec[d])
      BY <1>1 DEF IInv, SenderInv
    <3>2. snd[t].pc \in Working
      BY <2>3, <3>1 DEF LeaseOK
    <3>3. QED
      BY <1>3, <3>2 DEF IInv, OneSender, d
  <2>5. \A e \in Deliveries : Keeps(Senders \ {s}, e)
    BY <1>0, <1>1, <1>3, <2>1, <2>2, <2>3, <2>4 DEF Keeps
  <2>6. QED
    BY <1>0, <1>1, <2>1, <2>2, <2>5
<1>4. ASSUME rec' = rec
      PROVE  /\ rec' \in [Deliveries -> Record]
             /\ \A e \in Deliveries : Keeps(Senders \ {s}, e)
  BY <1>0, <1>4 DEF Keeps
<1>5. IdleSender \in Sender /\ IdleSender.del = None
      /\ IdleSender.pc \notin Working \cup {"mark"}
  BY InitialTypes DEF IdleSender, Working
\* The sender goes on to mark the job of a record it abandoned or found deleted.
<1>6. ASSUME GoTo(s, "mark"), rec' \in [Deliveries -> Record],
             \A e \in Deliveries : Keeps(Senders \ {s}, e),
             rec'[d].status \in {"abandoned", "deleted"},
             UNCHANGED <<slack, marked, crashes>>
      PROVE  IInv'
  <2> DEFINE x == [snd[s] EXCEPT !.pc = "mark"]
  <2>1. snd' = [snd EXCEPT ![s] = x]
    BY <1>0, <1>6 DEF GoTo
  <2>2. x \in Sender /\ x.pc = "mark" /\ x.del = d
    BY <1>0 DEF Sender, Place
  <2>3. x.pc \notin Working
    BY <2>2 DEF Working
  <2>4. LeaseOK(s, x, rec'[x.del]) /\ ProgressOK(x, posted[x.del])
    BY <1>6, <2>2 DEF LeaseOK, ProgressOK, Working
  <2> HIDE DEF x, d
  <2>5. QED
    BY <1>0, <1>1, <1>6, <2>1, <2>2, <2>3, <2>4, SenderMoves
\* The sender returns.
<1>7. ASSUME Return(s), rec' \in [Deliveries -> Record],
             \A e \in Deliveries : Keeps(Senders \ {s}, e),
             UNCHANGED <<slack, marked, crashes>>
      PROVE  IInv'
  BY <1>0, <1>5, <1>7, SenderMoves DEF Return
<1>8. ASSUME snd[s].pc \in Working, ~Owns(s, d)
      PROVE  rec[d].status = "deleted"
  BY <1>2, <1>8 DEF LeaseOK, Owns
<1>9. CASE Abandon(s)
  <2>1. snd[s].pc \in Working
    BY <1>9 DEF Abandon, Working
  <2>2. CASE Owns(s, d)
    <3>1. rec' = Settled(d, "abandoned") /\ GoTo(s, "mark")
          /\ UNCHANGED <<slack, marked, crashes>>
      BY <1>9, <2>2 DEF Abandon
    <3> HIDE DEF d
    <3>2. QED
      BY <1>3, <1>6, <2>1, <2>2, <3>1 DEF Status
  <2>3. CASE ~Owns(s, d)
    <3>1. rec' = rec /\ GoTo(s, "mark") /\ UNCHANGED <<slack, marked, crashes>>
      BY <1>9, <2>3 DEF Abandon
    <3> HIDE DEF d
    <3>2. QED
      BY <1>4, <1>6, <1>8, <2>1, <2>3, <3>1
  <2>4. QED
    BY <2>2, <2>3
<1>10. CASE MarkCompletedUndelivered(s)
  <2>1. /\ snd[s].pc = "mark" /\ marked' = marked \cup {d} /\ Return(s)
        /\ rec' = rec /\ UNCHANGED slack /\ crashes' = crashes
    BY <1>10 DEF MarkCompletedUndelivered
  <2>2. rec[d].status \in {"abandoned", "deleted"}
    BY <1>2, <2>1 DEF LeaseOK
  <2> HIDE DEF d
  <2>3. QED
    BY <1>0, <1>1, <1>4, <1>5, <2>1, <2>2, SenderMoves DEF Return
<1>11. CASE Retry(s)
  <2>1. snd[s].pc \in Working /\ UNCHANGED <<slack, marked, crashes>>
    BY <1>11 DEF Retry, Working
  <2>2. \/ Owns(s, d) /\ rec' = Settled(d, "abandoned") /\ GoTo(s, "mark")
        \/ Owns(s, d) /\ rec' = Settled(d, "retry_wait") /\ Return(s)
        \/ Return(s) /\ rec' = rec
    BY <1>11 DEF Retry
  <2> HIDE DEF d
  <2>3. QED
    BY <1>3, <1>4, <1>6, <1>7, <2>1, <2>2 DEF Status
<1>12. CASE Complete(s)
  <2>1. snd[s].pc = "complete" /\ Return(s) /\ UNCHANGED <<slack, marked, crashes>>
        /\ rec' = IF Owns(s, d) THEN Settled(d, "delivered") ELSE rec
    BY <1>12 DEF Complete
  <2>2. snd[s].pc \in Working /\ \A i \in 1 .. Items : posted[d][i] > 0
    BY <1>2, <2>1 DEF ProgressOK, Working
  <2> HIDE DEF d
  <2>3. QED
    BY <1>3, <1>4, <1>7, <2>1, <2>2 DEF Status
<1>13. QED
  BY <1>9, <1>10, <1>11, <1>12

\* The cursor moves over an item that Slack has, q, before or since the read-back, p.
LEMMA CursorAdvances ==
  ASSUME NEW first \in Nat \ {0}, NEW last \in Nat, last <= Items,
         NEW p \in [1 .. Items -> Nat], NEW q \in [1 .. Items -> Nat],
         NEW x, NEW y, CursorOK(x, p, first, last), x.item \in first .. last,
         y.item = x.item + 1, y.found = x.found,
         q[x.item] > 0, \A i \in 1 .. Items : i # x.item => q[i] = p[i]
  PROVE  CursorOK(y, q, first, last)
<1> DEFINE n == x.item
<1>1. n \in first .. last /\ y.item = n + 1
  OBVIOUS
<1>2. y.item \in first .. last + 1
  BY <1>1
<1>3. ASSUME NEW i \in 1 .. last, i < y.item PROVE q[i] > 0
  <2>1. i = n \/ (i < n /\ i \in 1 .. Items)
    BY <1>1, <1>3, ItemsAssumption
  <2>2. QED
    BY <2>1 DEF CursorOK
<1>4. ASSUME NEW i \in first .. last, i >= y.item PROVE i \in y.found <=> q[i] > 0
  <2> HIDE DEF n
  <2>0. i \in Int /\ n \in Int /\ i >= n + 1
    BY <1>1, <1>4
  <2>1. i # n /\ i >= n /\ i \in 1 .. Items
    <3>1. i # n /\ i >= n
      BY <2>0
    <3>2. i \in 1 .. Items
      BY ItemsAssumption
    <3>3. QED
      BY <3>1, <3>2
  <2> USE DEF n
  <2>2. QED
    BY <2>1 DEF CursorOK
<1>5. QED
  BY <1>2, <1>3, <1>4 DEF CursorOK

\* Send up to its next call of Slack: refusals, look-ups, and items that are there.
LEMMA SendingActions ==
  ASSUME Ordinary, IInv, NEW s \in Senders,
         \/ Refuse(s) \/ StartSend(s) \/ LookUpFiles(s) \/ LookUpParts(s) \/ SkipItem(s)
  PROVE  IInv'
<1> USE NamesAssumption, ItemsAssumption
<1> DEFINE d == snd[s].del
<1>0. /\ snd \in [Senders -> Sender]
      /\ snd[s] \in Sender
      /\ posted \in [Deliveries -> [1 .. Items -> Nat]]
      /\ tagged = posted
      /\ crashes \in 0 .. MaxCrashes
  BY DEF IInv, Types
<1>1. d # None /\ d \in Deliveries /\ snd[s].pc \in Working
  BY <1>0 DEF Refuse, StartSend, LookUpFiles, LookUpParts, SkipItem, IInv, SenderInv,
              Working, Sender
<1>2. ProgressOK(snd[s], posted[d]) /\ posted[d] \in [1 .. Items -> Nat]
  BY <1>0, <1>1 DEF IInv, SenderInv
<1>3. rec' = rec /\ UNCHANGED <<slack, marked>> /\ crashes' = crashes
  BY DEF Refuse, StartSend, LookUpFiles, LookUpParts, SkipItem
<1>4. ASSUME NEW x \in Sender, snd' = [snd EXCEPT ![s] = x], x.del = d,
             x.pc \in Working, ProgressOK(x, posted[d])
      PROVE  IInv'
  <2> HIDE DEF d
  <2>1. d = snd[s].del
    BY DEF d
  <2>2. QED
    BY <1>0, <1>1, <1>3, <1>4, <2>1, SenderGoesOn
<1>5. CASE Refuse(s)
  <2> DEFINE x == [snd[s] EXCEPT !.pc = "retry"]
  <2>1. snd' = [snd EXCEPT ![s] = x]
    BY <1>0, <1>5 DEF Refuse, GoTo
  <2>2. x \in Sender /\ x.pc = "retry" /\ x.del = d
    BY <1>0 DEF Sender, Place
  <2> HIDE DEF x, d
  <2>3. x.pc \in Working /\ ProgressOK(x, posted[d])
    BY <2>2 DEF Working, ProgressOK
  <2>4. QED
    BY <1>4, <2>1, <2>2, <2>3
<1>6. CASE StartSend(s)
  <2> DEFINE x == [snd[s] EXCEPT !.pc = "files"]
  <2>1. snd' = [snd EXCEPT ![s] = x]
    BY <1>0, <1>6 DEF StartSend, GoTo
  <2>2. x \in Sender /\ x.pc = "files" /\ x.del = d
    BY <1>0 DEF Sender, Place
  <2> HIDE DEF x, d
  <2>3. x.pc \in Working /\ ProgressOK(x, posted[d])
    BY <2>2 DEF Working, ProgressOK
  <2>4. QED
    BY <1>4, <2>1, <2>2, <2>3
<1>7. CASE LookUpFiles(s)
  <2>0. 1 \in ItemNo /\ "upload" \in Place
    BY DEF ItemNo, Place
  <2> DEFINE f == Shown(d, 1 .. Files)
             x == [snd[s] EXCEPT !.pc = "upload", !.item = 1, !.found = f]
  <2>1. snd' = [snd EXCEPT ![s] = x]
    BY <1>0, <1>7 DEF LookUpFiles
  <2>2. f \in Seen /\ \A i \in 1 .. Files : i \in f <=> posted[d][i] > 0
    BY <1>0 DEF Shown, Seen
  <2> HIDE DEF f
  <2>3. x \in Sender /\ x.pc = "upload" /\ x.item = 1 /\ x.found = f /\ x.del = d
    BY <1>0, <2>0, <2>2 DEF Sender
  <2> HIDE DEF x, d
  <2>4. x.pc \in Working /\ ProgressOK(x, posted[d])
    BY <2>2, <2>3 DEF Working, ProgressOK, CursorOK
  <2>5. QED
    BY <1>4, <2>1, <2>3, <2>4
<1>8. CASE LookUpParts(s)
  <2>0. Files + 1 \in ItemNo /\ "post" \in Place
    BY DEF ItemNo, Place
  <2> DEFINE f == Shown(d, Files + 1 .. Items)
             x == [snd[s] EXCEPT !.pc = "post", !.item = Files + 1, !.found = f]
  <2>1. snd' = [snd EXCEPT ![s] = x]
    BY <1>0, <1>1, <1>8 DEF LookUpParts, FirstPart, Ordinary
  <2>2. f \in Seen
        /\ \A i \in Files + 1 .. Items : i \in f <=> posted[d][i] > 0
    BY <1>0 DEF Shown, Seen
  <2>3. \A i \in 1 .. Files : posted[d][i] > 0
    BY <1>2, <1>8 DEF LookUpParts, ProgressOK
  <2> HIDE DEF f
  <2>4. x \in Sender /\ x.pc = "post" /\ x.item = Files + 1 /\ x.found = f /\ x.del = d
    BY <1>0, <2>0, <2>2 DEF Sender
  <2> HIDE DEF x, d
  <2>5. x.pc \in Working /\ ProgressOK(x, posted[d])
    BY <2>2, <2>3, <2>4 DEF Working, ProgressOK, CursorOK
  <2>6. QED
    BY <1>4, <2>1, <2>4, <2>5
<1>9. CASE SkipItem(s)
  <2> DEFINE last == IF snd[s].pc = "upload" THEN Files ELSE Items
             first == IF snd[s].pc = "upload" THEN 1 ELSE Files + 1
             n == snd[s].item
  <2>1. /\ snd[s].pc \in {"upload", "post"}
        /\ n > last \/ n \in snd[s].found \/ n \notin 1 .. Items
    BY <1>1, <1>9 DEF SkipItem, LastItem, ItemsOf, Ordinary
  <2>2. CursorOK(snd[s], posted[d], first, last) /\ n \in first .. last + 1
    BY <1>2, <2>1 DEF ProgressOK, CursorOK
  <2>3. last \in Nat /\ first \in Nat \ {0} /\ last <= Items /\ n \in Nat
    BY <2>2
  <2>4. CASE n <= last
    <3> DEFINE x == [snd[s] EXCEPT !.item = n + 1]
    <3>1. snd' = [snd EXCEPT ![s] = x]
      <4>1. snd[s].item <= LastItem(s)
        BY <2>4 DEF LastItem
      <4>2. QED
        BY <1>9, <4>1 DEF SkipItem
    <3>2. n + 1 \in ItemNo
      BY <2>2, <2>3, <2>4 DEF ItemNo
    <3>3. /\ x \in Sender /\ x.pc = snd[s].pc /\ x.item = n + 1
          /\ x.found = snd[s].found /\ x.del = d
      <4> HIDE DEF n
      <4>1. snd[s].found \in Seen /\ snd[s].pc \in Place
        BY <1>0 DEF Sender, Place
      <4>2. QED
        BY <1>0, <3>2, <4>1 DEF Sender
    <3>4. posted[d][n] > 0
      <4>1. n \in first .. last /\ n >= n
        BY <2>2, <2>3, <2>4
      <4>2. n \in 1 .. Items
        BY <2>3, <4>1
      <4>3. n \in snd[s].found
        BY <2>1, <2>3, <2>4, <4>2
      <4> HIDE DEF first, last, n
      <4>4. n \in snd[s].found <=> posted[d][n] > 0
        BY <2>2, <4>1 DEF CursorOK, n
      <4>5. QED
        BY <4>3, <4>4
    <3> HIDE DEF x, d
    <3>5. CursorOK(x, posted[d], first, last)
      <4>1. snd[s].item \in first .. last
        BY <2>2, <2>3, <2>4
      <4> HIDE DEF first, last
      <4>2. QED
        BY <1>2, <2>2, <2>3, <3>3, <3>4, <4>1, CursorAdvances
    <3>6. x.pc \in Working /\ ProgressOK(x, posted[d])
      BY <1>1, <2>1, <3>3, <3>5 DEF ProgressOK
    <3>7. QED
      BY <1>4, <3>1, <3>3, <3>6
  <2>5. CASE ~(n <= last)
    <3> DEFINE to == IF snd[s].pc = "upload" THEN "parts" ELSE "complete"
               x == [snd[s] EXCEPT !.pc = to, !.item = 0, !.found = {}]
    <3>1. snd' = [snd EXCEPT ![s] = x]
      <4>1. ~(snd[s].item <= LastItem(s))
        BY <2>5 DEF LastItem
      <4>2. QED
        BY <1>9, <4>1 DEF SkipItem
    <3>2. x \in Sender /\ x.pc = to /\ x.del = d
      <4>1. to \in Place
        BY DEF Place
      <4>2. 0 \in ItemNo /\ {} \in Seen
        BY DEF ItemNo, Seen
      <4> HIDE DEF to
      <4>3. QED
        BY <1>0, <4>1, <4>2 DEF Sender
    <3>3. \A i \in 1 .. last : posted[d][i] > 0
      BY <2>2, <2>3, <2>5 DEF CursorOK
    <3> HIDE DEF x, d
    <3>4. x.pc \in Working /\ ProgressOK(x, posted[d])
      BY <2>1, <3>2, <3>3 DEF Working, ProgressOK
    <3>5. QED
      BY <1>4, <3>1, <3>2, <3>4
  <2>6. QED
    BY <2>4, <2>5
<1>10. QED
  BY <1>5, <1>6, <1>7, <1>8, <1>9

\* A call of Slack: taken and answered, taken and not answered, or not taken.
LEMMA PostItemAction ==
  ASSUME Ordinary, IInv, NEW s \in Senders, PostItem(s)
  PROVE  IInv'
<1> USE NamesAssumption, ItemsAssumption
<1> DEFINE d == snd[s].del
           n == snd[s].item
           last == IF snd[s].pc = "upload" THEN Files ELSE Items
           first == IF snd[s].pc = "upload" THEN 1 ELSE Files + 1
           p == posted[d]
<1>0. /\ snd \in [Senders -> Sender]
      /\ snd[s] \in Sender
      /\ rec \in [Deliveries -> Record]
      /\ posted \in [Deliveries -> [1 .. Items -> Nat]]
      /\ tagged = posted
      /\ marked \subseteq Deliveries
      /\ crashes \in 0 .. MaxCrashes
  BY DEF IInv, Types
<1>1. d # None /\ d \in Deliveries /\ snd[s].pc \in Working /\ p \in [1 .. Items -> Nat]
  BY <1>0 DEF PostItem, IInv, SenderInv, Working, Sender
<1>2. /\ snd[s].pc \in {"upload", "post"}
      /\ n \in 1 .. Items /\ n \notin snd[s].found /\ n <= last
      /\ rec' = rec /\ marked' = marked /\ crashes' = crashes
  BY <1>1 DEF PostItem, ItemsOf, LastItem, Ordinary
<1>3. CursorOK(snd[s], p, first, last)
  BY <1>1, <1>2 DEF IInv, SenderInv, ProgressOK
<1>4. first \in Nat \ {0} /\ last \in Nat /\ last <= Items /\ n \in first .. last
  BY <1>2, <1>3 DEF CursorOK
\* The read-back did not find the item and nobody else posts: it is not there.
<1>5. p[n] = 0
  <2>1. ~(p[n] > 0)
    BY <1>2, <1>3, <1>4 DEF CursorOK
  <2>2. p[n] \in Nat
    BY <1>1, <1>2
  <2>3. QED
    BY <2>1, <2>2
<1>6. /\ \/ snd' = [snd EXCEPT ![s].item = n + 1] /\ Accept(d, n)
         \/ snd' = [snd EXCEPT ![s].pc = "retry"]
      /\ Accept(d, n) \/ UNCHANGED slack
  BY DEF PostItem, GoTo
<1> DEFINE x == IF snd' = [snd EXCEPT ![s].item = n + 1] /\ Accept(d, n)
                  THEN [snd[s] EXCEPT !.item = n + 1]
                  ELSE [snd[s] EXCEPT !.pc = "retry"]
<1>7. /\ snd' = [snd EXCEPT ![s] = x]
      /\ x \in Sender /\ x.del = d /\ x.pc \in Working
      /\ \/ x.pc = "retry"
         \/ /\ Accept(d, n) /\ x.pc = snd[s].pc
            /\ x.item = n + 1 /\ x.found = snd[s].found
  <2>1. n + 1 \in ItemNo
    BY <1>2 DEF ItemNo
  <2>2. CASE snd' = [snd EXCEPT ![s].item = n + 1] /\ Accept(d, n)
    BY <1>0, <1>1, <2>1, <2>2 DEF Sender
  <2>3. CASE ~(snd' = [snd EXCEPT ![s].item = n + 1] /\ Accept(d, n))
    BY <1>0, <1>6, <2>3 DEF Sender, Place, Working
  <2>4. QED
    BY <2>2, <2>3
<1> HIDE DEF x
<1>8. CASE UNCHANGED slack /\ x.pc = "retry"
  <2>1. ProgressOK(x, posted[x.del])
    BY <1>8 DEF ProgressOK
  <2> HIDE DEF d, n, first, last, p
  <2>2. d = snd[s].del
    BY DEF d
  <2>3. QED
    BY <1>0, <1>1, <1>2, <1>7, <1>8, <2>1, <2>2, SenderGoesOn
<1>9. CASE Accept(d, n)
  <2> DEFINE q == [p EXCEPT ![n] = 1]
  <2>1. posted' = [posted EXCEPT ![d] = q] /\ tagged' = posted'
    <3>1. /\ posted' = [posted EXCEPT ![d][n] = @ + 1]
          /\ tagged' = [tagged EXCEPT ![d][n] = @ + 1]
      BY <1>1, <1>9 DEF Accept, Ordinary
    <3>2. posted' = [posted EXCEPT ![d] = [p EXCEPT ![n] = p[n] + 1]]
      BY <3>1
    <3>3. p[n] + 1 = 1
      BY <1>5
    <3>4. QED
      BY <1>0, <3>1, <3>2, <3>3
  <2>2. q \in [1 .. Items -> Nat] /\ q[n] = 1
        /\ \A i \in 1 .. Items : i # n => q[i] = p[i]
    BY <1>1, <1>2
  <2>3. SlackOK(q)
    <3>1. SlackOK(p)
      BY <1>1 DEF IInv, RecordInv
    <3>2. \A i \in 1 .. last : i < n => p[i] > 0
      BY <1>3 DEF CursorOK
    <3> HIDE DEF q, p, last, first, n
    <3>3. \A i \in 1 .. Items : q[i] <= 1
      BY <1>1, <1>2, <2>2, <3>1 DEF SlackOK
    <3>4. \A i \in 2 .. Items : q[i] > 0 => q[i - 1] > 0
      <4> SUFFICES ASSUME NEW i \in 2 .. Items, q[i] > 0 PROVE q[i - 1] > 0
        OBVIOUS
      <4>1. i - 1 \in 1 .. Items /\ (i = n => i - 1 < n /\ i - 1 \in 1 .. last)
        BY <1>2, <1>4
      <4>2. CASE i = n
        BY <1>1, <2>2, <3>2, <4>1, <4>2
      <4>3. CASE i # n
        <5>1. p[i - 1] > 0
          BY <2>2, <3>1, <4>1, <4>3 DEF SlackOK
        <5>2. QED
          BY <2>2, <4>1, <5>1
      <4>4. QED
        BY <4>2, <4>3
    <3>5. QED
      BY <3>3, <3>4 DEF SlackOK
  <2>4. ProgressOK(x, q)
    <3> HIDE DEF q, p, n
    <3>1. CASE x.pc = "retry"
      BY <3>1 DEF ProgressOK
    <3>2. CASE x.pc = snd[s].pc /\ x.item = n + 1 /\ x.found = snd[s].found
      <4>1. n = snd[s].item
        BY DEF n
      <4>2. CursorOK(x, q, first, last)
        <5>1. snd[s].item \in first .. last /\ q[snd[s].item] > 0
          BY <1>4, <2>2, <4>1
        <5> HIDE DEF first, last
        <5>2. QED
          BY <1>1, <1>3, <1>4, <2>2, <3>2, <4>1, <5>1, CursorAdvances
      <4>3. QED
        BY <1>2, <3>2, <4>2 DEF ProgressOK
    <3>3. QED
      BY <1>7, <3>1, <3>2
  <2>5. \A i \in 1 .. Items : p[i] > 0 => q[i] > 0
    BY <1>1, <2>2
  <2> HIDE DEF q, n, first, last, d, p
  <2>6. d = snd[s].del /\ p = posted[d]
    BY DEF d, p
  <2>7. \A t \in Senders : snd'[t] = IF t = s THEN x ELSE snd[t]
    BY <1>0, <1>7
  <2>8. \A e \in Deliveries : posted'[e] = IF e = d THEN q ELSE posted[e]
    BY <1>0, <1>1, <2>1
  <2>9. Types'
    BY <1>0, <1>1, <1>2, <1>7, <2>1, <2>2 DEF Types
  <2>10. OneSender'
    BY <1>1, <1>7, <2>6, <2>7 DEF IInv, OneSender
  <2>11. SenderInv'
    <3> SUFFICES ASSUME NEW t \in Senders
                 PROVE  /\ snd'[t].del # None <=> snd'[t].pc \in Working \cup {"mark"}
                        /\ snd'[t].del # None =>
                             /\ LeaseOK(t, snd'[t], rec[snd'[t].del])
                             /\ ProgressOK(snd'[t], posted'[snd'[t].del])
      BY <1>2 DEF SenderInv
    <3>1. CASE t = s
      <4>1. LeaseOK(s, x, rec[d])
        BY <1>1, <1>7, <2>6 DEF IInv, SenderInv, LeaseOK, Working
      <4>2. QED
        BY <1>1, <1>7, <2>4, <2>7, <2>8, <3>1, <4>1
    <3>2. CASE t # s /\ snd[t].del = d
      <4>1. snd[t].pc = "mark" /\ LeaseOK(t, snd[t], rec[d])
        BY <1>1, <2>6, <3>2 DEF IInv, SenderInv, OneSender
      <4>2. ProgressOK(snd[t], q)
        BY <4>1 DEF ProgressOK
      <4>3. QED
        BY <1>1, <2>7, <2>8, <3>2, <4>1, <4>2
    <3>3. CASE t # s /\ snd[t].del # d
      <4>1. snd[t].del \in Deliveries \cup {None}
        BY <1>0 DEF Sender, Place
      <4>2. QED
        BY <2>7, <2>8, <3>3, <4>1 DEF IInv, SenderInv
    <3>4. QED
      BY <3>1, <3>2, <3>3
  <2>12. RecordInv'
    BY <1>2, <2>3, <2>5, <2>6, <2>8 DEF IInv, RecordInv
  <2>13. QED
    BY <2>9, <2>10, <2>11, <2>12 DEF IInv
<1>10. QED
  BY <1>6, <1>7, <1>8, <1>9

(***************************************************************************)
(* The theorems.                                                           *)
(***************************************************************************)
\* Nothing has been posted and nobody works: the invariant holds initially.
LEMMA InitIInv == ASSUME Init PROVE IInv
<1>1. Types
  <2>1. [i \in 1 .. Items |-> 0] \in [1 .. Items -> Nat] /\ 0 \in 0 .. MaxCrashes
    BY AttemptsAssumption
  <2>2. QED
    BY <2>1, InitialTypes DEF Init, Types
<1>2. SenderInv /\ OneSender
  BY DEF Init, SenderInv, OneSender, IdleSender, Working
<1>3. RecordInv
  BY ItemsAssumption DEF Init, RecordInv, SlackOK, NoRecord
<1>4. QED
  BY <1>1, <1>2, <1>3 DEF IInv

\* Every step preserves the invariant, one lemma for each group of actions.
LEMMA NextIInv == ASSUME Ordinary, IInv, [Next]_vars PROVE IInv'
<1>1. ASSUME NEW d \in Deliveries,
             Enqueue(d) \/ LeaseExpires(d) \/ DeliveryExpires(d) \/ TTLDelete(d)
      PROVE  IInv'
  BY <1>1, RecordActions
<1>2. ASSUME NEW s \in Senders, SenderStep(s) PROVE IInv'
  BY <1>2, ClaimActions, SettlingActions, SendingActions, PostItemAction DEF SenderStep
<1>3. ASSUME NEW s \in Senders, Crash(s) PROVE IInv'
  <2>1. crashes' \in 0 .. MaxCrashes
    BY <1>3, AttemptsAssumption DEF Crash, IInv, Types
  <2>2. QED
    BY <1>3, <2>1, InitialTypes, SenderGoesOn DEF Crash, Return
<1>4. ASSUME UNCHANGED vars PROVE IInv'
  BY <1>4 DEF vars, slack, IInv, Types, SenderInv, OneSender, RecordInv
<1>5. QED
  BY <1>1, <1>2, <1>3, <1>4 DEF Next

\* The invariant says what DeliveryInv says, and what each sender knows.
LEMMA IInvImplies == ASSUME Ordinary, IInv PROVE DeliveryInv
<1>1. TypeOK
  BY DEF IInv, Types, TypeOK, Record, Sender, Place, ItemNo, Seen
<1>2. NothingPostedTwice /\ PartsInOrder
  BY DEF IInv, RecordInv, SlackOK, NothingPostedTwice, PartsInOrder
<1>3. DeliveredIsComplete /\ DeliveredIsNotMarked
  BY DEF IInv, Types, RecordInv, DeliveredIsComplete, DeliveredIsNotMarked, ItemsOf, Ordinary
<1>4. QED
  BY <1>1, <1>2, <1>3 DEF DeliveryInv

\* Send, Retry and the lease: however often senders crash, and whether or not Slack's
\* answers arrive, each file and part is posted at most once and in order, a delivered
\* record is complete in Slack, and its job is never marked undelivered.
THEOREM DeliverySafe == ASSUME Ordinary PROVE Spec => []DeliveryInv
<1>1. Init => IInv
  BY InitIInv
<1>2. IInv /\ [Next]_vars => IInv'
  BY NextIInv
<1>3. IInv => DeliveryInv
  BY IInvImplies
<1>4. QED
  BY <1>1, <1>2, <1>3, PTL DEF Spec

(***************************************************************************)
(* The turn: its inductive invariant.                                      *)
(***************************************************************************)
\* What the app server writes, and what a session buffers.
Messages == ({"answer"} \X {"initialize", "thread", "turn", "interrupt"} \X {"ok", "error"})
              \cup {<<"item">>} \cup ({"call"} \X Calls)
              \cup ({"turn"} \X {"completed", "failed"})
EventSet == {<<"text">>, <<"status">>} \cup ({"file"} \X Calls)
\* The places of runHarness: before the turn is asked for, with a session open,
\* and after its result is known.
Before == {"start", "create", "initialize", "ready", "thread", "threaded"}
Open == {"thread", "threaded", "started", "loop"}
Ending == {"kill", "terminate", "abort", "interrupt", "interrupted", "returned", "settled"}
CallKinds == {"read", "image", "write", "resume", "none"}

\* The fields of the records.
RunnerFields == {"pc", "deferred", "text", "files", "result"}
SessFields == {"known", "closed", "err", "events"}
ProcFields == {"alive", "out", "request", "turn", "texts"}
FwdFields == {"pc", "event", "err"}
CallFields == {"pc", "kind", "names", "ok", "taken"}
BridgeFields == {"scope", "artifacts", "imaged"}

IsCall(x) == /\ DOMAIN x = CallFields /\ x.kind \in CallKinds /\ x.names \in Approvals
             /\ x.taken \subseteq Calls
\* The records have their fields, the buffers hold what they may.
Shape ==
  /\ DOMAIN runner = RunnerFields
  /\ DOMAIN sess = SessFields /\ sess.events \in Seq(EventSet)
  /\ DOMAIN proc = ProcFields /\ proc.out \in Seq(Messages)
     /\ proc.request \in {"none", "initialize", "thread", "turn", "interrupt"}
  /\ DOMAIN fwd = FwdFields
  /\ DOMAIN bridge = BridgeFields /\ bridge.artifacts \subseteq Calls
  /\ DOMAIN call = Calls /\ \A c \in Calls : IsCall(call[c])
  /\ DOMAIN appr = Approvals
  /\ DOMAIN ran = Approvals /\ \A p \in Approvals : ran[p] \in Nat

\* What the server says by itself is said when all before is read.
OutInv ==
  \A i \in 1 .. Len(proc.out) :
    /\ proc.out[i][1] \in {"call", "turn", "item"} => i = 1
    /\ proc.out[i][1] = "call" => call[proc.out[i][2]].pc = "said"
    /\ proc.out[i][1] = "turn" => proc.turn = "over" /\ CallsAnswered

\* Nothing is called before the turn is asked for, and only the end has a result.
ServerInv ==
  /\ runner.pc \in Before \cup {"started", "loop"} \cup Ending
  /\ runner.pc \in {"start", "create"} => ~proc.alive /\ proc.turn = "none"
  /\ runner.pc \in Before => /\ proc.turn = "none" \/ ~proc.alive
                             /\ proc.request \notin {"turn", "interrupt"}
                             /\ \A c \in Calls : call[c].pc = "none"
  /\ proc.request = "turn" => proc.turn = "none"
  /\ runner.pc \in Before \cup {"started"} => fwd.pc = "none"
  /\ fwd.pc = "none" => ~fwd.err
  /\ (runner.result = "none") <=> (runner.pc \notin Ending)
  /\ job = "done" => runner.result = "ok" /\ runner.pc = "settled"

\* Where a call is, what it is and what it has made.
CallInv(c) ==
  /\ call[c].pc \in {"write", "suspend"} => call[c].kind = "write"
  /\ call[c].pc = "resume" => call[c].kind = "resume"
  /\ call[c].pc = "execute" => call[c].kind \in {"resume", "image"}
  /\ call[c].kind = "write" /\ call[c].pc \in {"none", "said", "prepare", "authorize", "write"} =>
       appr[c] = "none"
  /\ call[c].kind = "none" => call[c].pc = "none"
  /\ call[c].taken # {} => call[c].pc = "files"
  /\ call[c].ok => call[c].pc \in {"answered", "files", "done"}
  /\ c \in bridge.artifacts => call[c].ok /\ call[c].pc = "answered"
CallsInv == \A c \in Calls : CallInv(c)

\* The approved action is about to run.  An approval is consumed by one call, which
\* runs it once.
Executing(c, p) == call[c].kind = "resume" /\ call[c].pc = "execute" /\ call[c].names = p
OnceInv(p) ==
  /\ ran[p] <= 1
  /\ appr[p] # "consumed" => ran[p] = 0 /\ \A c \in Calls : ~Executing(c, p)
  /\ \A c \in Calls : Executing(c, p) => ran[p] = 0
  /\ \A c, d \in Calls : Executing(c, p) /\ Executing(d, p) => c = d
ApprovalsInv == \A p \in Approvals : OnceInv(p)

\* Neither the job, the session nor the forwarder has failed: the answer may count.
Sound == ~shutdown /\ job \in {"running", "done"} /\ runner.result # "error"
         /\ ~sess.err /\ ~fwd.err
Holds(es, c) == \E i \in 1 .. Len(es) : es[i] = <<"file", c>>
Made(c) == call[c].ok /\ call[c].kind = "image"
\* Where the file of a call may be on its way from the bridge to the runner.
Located(c) ==
  \/ c \in bridge.artifacts
  \/ \E d \in Calls : c \in call[d].taken
  \/ Holds(sess.events, c)
  \/ fwd.event = <<"file", c>>
  \/ c \in runner.files
\* The turn is over and every call of it answered.
Over == proc.turn = "over" /\ CallsAnswered
AllTaken == \A c \in Calls : Made(c) => c \in runner.files

\* The forwarder holds an event while it offers one, and closes only after the session.
ForwardInv ==
  /\ sess.err => sess.closed
  /\ fwd.pc \in {"send", "drainSend"} => fwd.event # <<>>
  /\ fwd.pc \in {"drain", "drainSend"} => sess.closed
  /\ ~shutdown /\ ~fwd.err /\ fwd.pc \notin {"send", "drainSend"} => fwd.event = <<>>
  /\ ~shutdown /\ ~fwd.err /\ fwd.pc \in {"terminate", "kill", "closed"} => sess.closed /\ ~sess.err
\* A file that was made is on its way; a session is closed when nothing more will be
\* made; the forwarder ends when the runner has it all.
FilesInv ==
  /\ Sound /\ runner.pc \in Open /\ fwd.pc # "closed" => bridge.scope
  /\ Sound /\ runner.result = "none" => \A c \in Calls : Made(c) => Located(c)
  /\ Sound /\ runner.result = "none" /\ sess.closed => Over
  /\ Sound /\ runner.pc = "loop" /\ fwd.pc \in {"terminate", "kill", "closed"} => Over /\ AllTaken
  /\ ~shutdown /\ job \in {"running", "done"} /\ runner.result = "ok" => Over /\ AllTaken
  /\ job = "done" => Over /\ AllTaken

\* The inductive invariant of a turn.
TurnInv == Shape /\ OutInv /\ ServerInv /\ CallsInv /\ ApprovalsInv /\ ForwardInv /\ FilesInv

(***************************************************************************)
(* Frames, the buffers and emit.                                           *)
(***************************************************************************)
\* A step that leaves the calls, the approvals and their executions alone.
LEMMA CallsFrame ==
  ASSUME CallsInv, ApprovalsInv, UNCHANGED <<call, appr, ran>>, bridge'.artifacts \subseteq bridge.artifacts
  PROVE  CallsInv' /\ ApprovalsInv'
  BY DEF CallsInv, CallInv, ApprovalsInv, OnceInv, Executing

\* A step that neither writes to the output of the app server nor reads it.
LEMMA OutFrame ==
  ASSUME OutInv, UNCHANGED call, proc'.out = proc.out, proc.turn = "over" => proc'.turn = "over"
  PROVE  OutInv'
  BY DEF OutInv, CallsAnswered

\* The app server writes a message: by itself only when all before is read.
LEMMA OutAppend ==
  ASSUME OutInv, UNCHANGED call, proc.out \in Seq(Messages), NEW m \in Messages,
         proc'.out = Append(proc.out, m), proc.turn = "over" => proc'.turn = "over",
         m[1] # "answer" => proc.out = <<>>, m[1] # "call",
         m[1] = "turn" => proc'.turn = "over" /\ CallsAnswered
  PROVE  OutInv' /\ proc'.out \in Seq(Messages)
<1>1. /\ proc'.out \in Seq(Messages) /\ Len(proc'.out) = Len(proc.out) + 1 /\ Len(proc.out) \in Nat
      /\ \A i \in 1 .. Len(proc.out) : proc'.out[i] = proc.out[i]
      /\ proc'.out[Len(proc.out) + 1] = m
  OBVIOUS
<1>2. \A i \in 1 .. Len(proc'.out) : i \in 1 .. Len(proc.out) \/ i = Len(proc.out) + 1
  BY <1>1
<1>3. proc.out = <<>> => Len(proc.out) = 0
  OBVIOUS
<1>4. m[1] \in {"call", "turn", "item"} => Len(proc.out) + 1 = 1
  BY <1>3
<1>5. QED
  BY <1>1, <1>2, <1>4 DEF OutInv, CallsAnswered

\* The read loop takes a message.
LEMMA OutTail ==
  ASSUME OutInv, proc.out \in Seq(Messages), proc.out # <<>>, proc'.out = Tail(proc.out)
  PROVE  OutInv' /\ proc'.out \in Seq(Messages)
<1>1. /\ proc'.out \in Seq(Messages) /\ Len(proc'.out) = Len(proc.out) - 1 /\ Len(proc.out) \in Nat
      /\ \A i \in 1 .. Len(proc'.out) : proc'.out[i] = proc.out[i + 1]
  OBVIOUS
<1>2. \A i \in 1 .. Len(proc'.out) : i + 1 \in 1 .. Len(proc.out) /\ i + 1 # 1
  BY <1>1
<1>3. \A i \in 1 .. Len(proc'.out) : proc'.out[i][1] \notin {"call", "turn", "item"}
  BY <1>1, <1>2 DEF OutInv
<1>4. QED
  BY <1>1, <1>3 DEF OutInv

\* The output of a terminated process is gone.
LEMMA OutEmpty == ASSUME proc'.out = <<>> PROVE OutInv' /\ proc'.out \in Seq(Messages)
  BY DEF OutInv

\* The message at the head: a call of it was said, and a turn it ends is over.
LEMMA HeadFacts ==
  ASSUME OutInv, proc.out \in Seq(Messages), proc.out # <<>>
  PROVE  /\ Head1 \in Messages
         /\ Head1[1] = "call" => call[Head1[2]].pc = "said"
         /\ Head1[1] = "turn" => proc.turn = "over" /\ CallsAnswered
<1>1. 1 \in 1 .. Len(proc.out) /\ Head1 = proc.out[1] /\ proc.out[1] \in Messages
  BY DEF Head1
<1>2. QED
  BY <1>1 DEF OutInv

\* No event is the empty one, by which the forwarder holds nothing.
LEMMA EventShape == \A e \in EventSet : e # <<>>
<1> SUFFICES ASSUME NEW e \in EventSet PROVE e # <<>>
  OBVIOUS
<1>1. CASE e \in {<<"text">>, <<"status">>}
  BY <1>1
<1>2. CASE e \in {"file"} \X Calls
  <2>1. PICK c \in Calls : e = <<"file", c>>
    BY <1>2
  <2>2. QED
    BY <2>1
<1>3. QED
  BY <1>1, <1>2 DEF EventSet

\* A file in the buffer stays there when an event is appended, and so is the appended one.
LEMMA HoldsAppend ==
  ASSUME NEW es \in Seq(EventSet), NEW e \in EventSet, NEW c, Holds(es, c) \/ e = <<"file", c>>
  PROVE  Holds(Append(es, e), c)
<1>1. /\ Len(Append(es, e)) = Len(es) + 1 /\ Len(es) \in Nat
      /\ \A i \in 1 .. Len(es) : Append(es, e)[i] = es[i]
      /\ Append(es, e)[Len(es) + 1] = e
  OBVIOUS
<1>2. /\ \A i \in 1 .. Len(es) : i \in 1 .. Len(es) + 1
      /\ Len(es) + 1 \in 1 .. Len(es) + 1
  BY <1>1
<1>3. QED
  BY <1>1, <1>2 DEF Holds

\* A file in the buffer is its head or stays in it.
LEMMA HoldsTail ==
  ASSUME NEW es \in Seq(EventSet), es # <<>>, NEW c, Holds(es, c)
  PROVE  Head(es) = <<"file", c>> \/ Holds(Tail(es), c)
<1>1. PICK i \in 1 .. Len(es) : es[i] = <<"file", c>>
  BY DEF Holds
<1>2. /\ Len(Tail(es)) = Len(es) - 1 /\ Len(es) \in Nat /\ Head(es) = es[1]
      /\ \A k \in 1 .. Len(Tail(es)) : Tail(es)[k] = es[k + 1]
  OBVIOUS
<1>3. i # 1 => i - 1 \in 1 .. Len(Tail(es)) /\ i - 1 + 1 = i
  BY <1>2
<1>4. i # 1 => Tail(es)[i - 1] = es[i]
  BY <1>2, <1>3
<1>5. QED
  BY <1>1, <1>2, <1>3, <1>4 DEF Holds

\* emit: a session that is not closed holds the event, and all it held before.
LEMMA EmitFacts ==
  ASSUME Shape, NEW e \in EventSet, emit(e)
  PROVE  /\ DOMAIN sess' = SessFields /\ sess'.events \in Seq(EventSet)
         /\ sess'.closed = sess.closed /\ sess'.err = sess.err /\ sess'.known = sess.known
         /\ \A c : Holds(sess.events, c) => Holds(sess'.events, c)
         /\ \A c : ~sess.closed /\ e = <<"file", c>> => Holds(sess'.events, c)
<1>1. /\ DOMAIN sess = SessFields /\ sess.events \in Seq(EventSet)
      /\ sess' = [sess EXCEPT !.events = IF sess.closed THEN @ ELSE Append(@, e)]
  BY DEF Shape, emit
<1>2. /\ DOMAIN sess' = SessFields
      /\ sess'.closed = sess.closed /\ sess'.err = sess.err /\ sess'.known = sess.known
      /\ sess'.events = IF sess.closed THEN sess.events ELSE Append(sess.events, e)
  BY <1>1 DEF SessFields
<1>3. Append(sess.events, e) \in Seq(EventSet)
  BY <1>1
<1>4. QED
  BY <1>1, <1>2, <1>3, HoldsAppend

(***************************************************************************)
(* runHarness, the app server, the read loop and the forwarder.            *)
(***************************************************************************)
\* runHarness decides on the result; a job is done only with an ok result.
LEMMA VerdictInv == TurnInv /\ Verdict => TurnInv'
<1> SUFFICES ASSUME TurnInv, Verdict PROVE TurnInv'
  OBVIOUS
<1>1. Shape'
  BY DEF TurnInv, Shape, Verdict, RunnerFields
<1>2. OutInv'
  BY OutFrame DEF TurnInv, Verdict
<1>3. CallsInv' /\ ApprovalsInv'
  BY CallsFrame DEF TurnInv, Verdict
<1>4. ServerInv'
  BY DEF TurnInv, ServerInv, Before, Ending, Verdict
<1>5. ForwardInv'
  BY DEF TurnInv, ForwardInv, Verdict
<1>6. FilesInv'
  BY DEF TurnInv, FilesInv, Sound, Over, CallsAnswered, AllTaken, Made, Located, Shape,
     Before, Ending, Open, Verdict, recordVars, RunnerFields
<1>7. QED
  BY <1>1, <1>2, <1>3, <1>4, <1>5, <1>6 DEF TurnInv

\* The job is taken away: nothing is said of its files any more.
LEMMA LoseJobInv == TurnInv /\ LoseJob => TurnInv'
<1> SUFFICES ASSUME TurnInv, LoseJob PROVE TurnInv'
  OBVIOUS
<1>1. Shape'
  BY DEF TurnInv, Shape, LoseJob
<1>2. OutInv'
  BY OutFrame DEF TurnInv, LoseJob
<1>3. CallsInv' /\ ApprovalsInv'
  BY CallsFrame DEF TurnInv, LoseJob
<1>4. ServerInv'
  BY DEF TurnInv, ServerInv, LoseJob
<1>5. ForwardInv'
  BY DEF TurnInv, ForwardInv, LoseJob
<1>6. FilesInv'
  BY DEF TurnInv, FilesInv, Sound, LoseJob
<1>7. QED
  BY <1>1, <1>2, <1>3, <1>4, <1>5, <1>6 DEF TurnInv

\* The context of the pipeline ends.
LEMMA ShutdownInv == TurnInv /\ Shutdown => TurnInv'
<1> SUFFICES ASSUME TurnInv, Shutdown PROVE TurnInv'
  OBVIOUS
<1>1. Shape'
  BY DEF TurnInv, Shape, Shutdown
<1>2. OutInv'
  BY OutFrame DEF TurnInv, Shutdown
<1>3. CallsInv' /\ ApprovalsInv'
  BY CallsFrame DEF TurnInv, Shutdown
<1>4. ServerInv'
  BY DEF TurnInv, ServerInv, Shutdown
<1>5. ForwardInv'
  BY DEF TurnInv, ForwardInv, Shutdown
<1>6. FilesInv'
  BY DEF TurnInv, FilesInv, Sound, Over, CallsAnswered, AllTaken, Made, Located,
     Shutdown, recordVars
<1>7. QED
  BY <1>1, <1>2, <1>3, <1>4, <1>5, <1>6 DEF TurnInv

\* The app server answers the request it has.
LEMMA ServerAnswersInv == TurnInv /\ ServerAnswers => TurnInv'
<1> SUFFICES ASSUME TurnInv, ServerAnswers PROVE TurnInv'
  OBVIOUS
<1>0. PICK reply \in {"ok", "error"} :
        proc' = [proc EXCEPT !.request = "none",
                             !.out = Append(@, <<"answer", proc.request, reply>>),
                             !.turn = IF reply = "error" THEN @
                                      ELSE IF proc.request = "turn" THEN "running"
                                      ELSE IF proc.request = "interrupt" THEN "over" ELSE @]
  BY DEF ServerAnswers
<1> DEFINE m == <<"answer", proc.request, reply>>
<1>a. /\ DOMAIN proc' = ProcFields /\ proc'.request = "none" /\ proc'.out = Append(proc.out, m)
      /\ proc.turn = "over" => proc'.turn = "over"
      /\ proc.request # "none" /\ UNCHANGED <<recordVars, runner, sess, cli, fwd, call, bridge>>
  BY <1>0 DEF TurnInv, Shape, ServerInv, ProcFields, ServerAnswers
<1>b. m \in Messages /\ m[1] = "answer"
  BY <1>a DEF TurnInv, Shape, Messages
<1>c. OutInv' /\ proc'.out \in Seq(Messages)
  <2> HIDE DEF m
  <2>1. QED
    BY <1>a, <1>b, OutAppend DEF TurnInv, Shape
<1>1. Shape'
  BY <1>a, <1>c DEF TurnInv, Shape, recordVars
<1>2. OutInv'
  BY <1>c
<1>3. CallsInv' /\ ApprovalsInv'
  BY CallsFrame DEF TurnInv, ServerAnswers, recordVars
<1>4. ServerInv'
  BY DEF TurnInv, ServerInv, Shape, Before, Ending, ServerAnswers, recordVars, ProcFields
<1>5. ForwardInv'
  BY DEF TurnInv, ForwardInv, ServerAnswers, recordVars
<1>6. FilesInv'
  BY DEF TurnInv, FilesInv, Sound, Over, CallsAnswered, AllTaken, Made, Located,
     ServerInv, Shape, Before, Ending, Open, ServerAnswers, recordVars, ProcFields
<1>7. QED
  BY <1>1, <1>2, <1>3, <1>4, <1>5, <1>6 DEF TurnInv

\* The app server says a final message.
LEMMA ServerSpeaksInv == TurnInv /\ ServerSpeaks => TurnInv'
<1> SUFFICES ASSUME TurnInv, ServerSpeaks PROVE TurnInv'
  OBVIOUS
<1>a. /\ DOMAIN proc' = ProcFields /\ proc'.request = proc.request
      /\ proc'.out = Append(proc.out, <<"item">>) /\ proc'.turn = proc.turn /\ proc.out = <<>>
      /\ UNCHANGED <<recordVars, runner, sess, cli, fwd, call, bridge>>
  BY DEF TurnInv, Shape, ProcFields, ServerSpeaks, Speaking
<1>b. OutInv' /\ proc'.out \in Seq(Messages)
  <2>1. <<"item">> \in Messages /\ <<"item">>[1] = "item"
    BY DEF Messages
  <2>2. QED
    BY <1>a, <2>1, OutAppend DEF TurnInv, Shape
<1>1. Shape'
  BY <1>a, <1>b DEF TurnInv, Shape, recordVars
<1>2. OutInv'
  BY <1>b
<1>3. CallsInv' /\ ApprovalsInv'
  BY CallsFrame DEF TurnInv, ServerSpeaks, Speaking, recordVars
<1>4. ServerInv'
  BY DEF TurnInv, ServerInv, Shape, Before, Ending, ServerSpeaks, Speaking, recordVars,
     ProcFields
<1>5. ForwardInv'
  BY DEF TurnInv, ForwardInv, ServerSpeaks, Speaking, recordVars
<1>6. FilesInv'
  BY DEF TurnInv, FilesInv, Sound, Over, CallsAnswered, AllTaken, Made, Located,
     ServerSpeaks, Speaking, recordVars
<1>7. QED
  BY <1>1, <1>2, <1>3, <1>4, <1>5, <1>6 DEF TurnInv

\* The app server ends the turn: all its calls have been answered.
LEMMA ServerEndsInv == TurnInv /\ ServerEnds => TurnInv'
<1> SUFFICES ASSUME TurnInv, ServerEnds PROVE TurnInv'
  OBVIOUS
<1>0. PICK status \in {"completed", "failed"} :
        proc' = [proc EXCEPT !.turn = "over", !.out = Append(@, <<"turn", status>>)]
  BY DEF ServerEnds
<1> DEFINE m == <<"turn", status>>
<1>a. /\ DOMAIN proc' = ProcFields /\ proc'.request = proc.request
      /\ proc'.out = Append(proc.out, m) /\ proc'.turn = "over" /\ proc.out = <<>>
      /\ CallsAnswered /\ UNCHANGED <<recordVars, runner, sess, cli, fwd, call, bridge>>
  BY <1>0 DEF TurnInv, Shape, ProcFields, ServerEnds, Speaking
<1>b. OutInv' /\ proc'.out \in Seq(Messages)
  <2>1. m \in Messages /\ m[1] = "turn"
    BY DEF Messages
  <2> HIDE DEF m
  <2>2. QED
    BY <1>a, <2>1, OutAppend DEF TurnInv, Shape
<1>1. Shape'
  BY <1>a, <1>b DEF TurnInv, Shape, recordVars
<1>2. OutInv'
  BY <1>b
<1>3. CallsInv' /\ ApprovalsInv'
  BY CallsFrame DEF TurnInv, ServerEnds, Speaking, recordVars
<1>4. ServerInv'
  BY DEF TurnInv, ServerInv, Shape, Before, Ending, ServerEnds, Speaking, recordVars,
     ProcFields
<1>5. ForwardInv'
  BY DEF TurnInv, ForwardInv, ServerEnds, Speaking, recordVars
<1>6. FilesInv'
  BY DEF TurnInv, FilesInv, Sound, Over, CallsAnswered, AllTaken, Made, Located,
     ServerEnds, Speaking, recordVars
<1>7. QED
  BY <1>1, <1>2, <1>3, <1>4, <1>5, <1>6 DEF TurnInv

\* The process dies.
LEMMA ServerDiesInv == TurnInv /\ ServerDies => TurnInv'
<1> SUFFICES ASSUME TurnInv, ServerDies PROVE TurnInv'
  OBVIOUS
<1>1. Shape'
  BY DEF TurnInv, Shape, ServerDies, recordVars, ProcFields
<1>2. OutInv'
  BY OutFrame DEF TurnInv, ServerDies
<1>3. CallsInv' /\ ApprovalsInv'
  BY CallsFrame DEF TurnInv, ServerDies, recordVars
<1>4. ServerInv'
  BY DEF TurnInv, ServerInv, Shape, Before, Ending, ServerDies, recordVars, ProcFields
<1>5. ForwardInv'
  BY DEF TurnInv, ForwardInv, ServerDies, recordVars
<1>6. FilesInv'
  BY DEF TurnInv, FilesInv, Sound, Over, CallsAnswered, AllTaken, Made, Located,
     ServerDies, recordVars
<1>7. QED
  BY <1>1, <1>2, <1>3, <1>4, <1>5, <1>6 DEF TurnInv

\* The read loop hands an answer to the request that waits for it.
LEMMA handleResponseInv == TurnInv /\ handleResponse => TurnInv'
<1> SUFFICES ASSUME TurnInv, handleResponse PROVE TurnInv'
  OBVIOUS
<1>1. Shape'
  BY DEF TurnInv, Shape, handleResponse, Reading, Head1, recordVars, ProcFields
<1>2. OutInv'
  BY OutTail DEF TurnInv, Shape, handleResponse, Reading, ProcFields
<1>3. CallsInv' /\ ApprovalsInv'
  BY CallsFrame DEF TurnInv, handleResponse, Reading, Head1, recordVars
<1>4. ServerInv'
  BY DEF TurnInv, ServerInv, Shape, Before, Ending, handleResponse, Reading, Head1,
     recordVars, ProcFields
<1>5. ForwardInv'
  BY DEF TurnInv, ForwardInv, handleResponse, Reading, Head1, recordVars
<1>6. FilesInv'
  BY DEF TurnInv, FilesInv, Sound, Over, CallsAnswered, AllTaken, Made, Located,
     handleResponse, Reading, Head1, recordVars
<1>7. QED
  BY <1>1, <1>2, <1>3, <1>4, <1>5, <1>6 DEF TurnInv

\* The read loop turns a final message into a text event.
LEMMA notificationInv == TurnInv /\ notification => TurnInv'
<1> SUFFICES ASSUME TurnInv, notification PROVE TurnInv'
  OBVIOUS
<1>a. /\ DOMAIN proc' = ProcFields /\ proc'.request = proc.request /\ proc'.turn = proc.turn
      /\ proc'.alive = proc.alive /\ proc'.out = Tail(proc.out) /\ proc.out # <<>>
      /\ UNCHANGED <<recordVars, runner, cli, fwd, call, bridge>> /\ emit(<<"text">>)
  BY DEF TurnInv, Shape, ProcFields, notification, Reading
<1>b. /\ DOMAIN sess' = SessFields /\ sess'.events \in Seq(EventSet)
      /\ sess'.closed = sess.closed /\ sess'.err = sess.err
      /\ \A c : Holds(sess.events, c) => Holds(sess'.events, c)
  BY <1>a, EmitFacts DEF TurnInv, EventSet
<1>c. OutInv' /\ proc'.out \in Seq(Messages)
  BY <1>a, OutTail DEF TurnInv, Shape
<1>1. Shape'
  BY <1>a, <1>b, <1>c DEF TurnInv, Shape, recordVars
<1>2. OutInv'
  BY <1>c
<1>3. CallsInv' /\ ApprovalsInv'
  BY CallsFrame DEF TurnInv, notification, Reading, Head1, emit, CanEmit, recordVars
<1>4. ServerInv'
  BY DEF TurnInv, ServerInv, Shape, Before, Ending, notification, Reading, Head1, emit,
     CanEmit, recordVars, ProcFields, SessFields
<1>5. ForwardInv'
  BY DEF TurnInv, ForwardInv, notification, Reading, Head1, emit, CanEmit, recordVars
<1>6. FilesInv'
  BY <1>a, <1>b DEF TurnInv, FilesInv, Sound, Over, CallsAnswered, AllTaken, Made,
     Located, recordVars
<1>7. QED
  BY <1>1, <1>2, <1>3, <1>4, <1>5, <1>6 DEF TurnInv

\* The read loop ends the session: with an error, or with the turn over.
LEMMA turnCompletedInv == TurnInv /\ turnCompleted => TurnInv'
<1> SUFFICES ASSUME TurnInv, turnCompleted PROVE TurnInv'
  OBVIOUS
<1>a. /\ DOMAIN proc' = ProcFields /\ proc'.request = proc.request /\ proc'.turn = proc.turn
      /\ proc'.alive = proc.alive /\ proc'.out = Tail(proc.out) /\ proc.out # <<>>
      /\ UNCHANGED <<recordVars, runner, cli, fwd, call, bridge>> /\ Head1[1] = "turn"
  BY DEF TurnInv, Shape, ProcFields, turnCompleted, Reading
<1>b. /\ DOMAIN sess' = SessFields /\ sess'.events = sess.events
      /\ sess'.closed /\ (sess.closed => sess'.err = sess.err)
      /\ sess.err => sess'.err
  BY DEF TurnInv, ForwardInv, Shape, SessFields, turnCompleted, complete, fail, finish
<1>c. OutInv' /\ proc'.out \in Seq(Messages)
  BY <1>a, OutTail DEF TurnInv, Shape
<1>d. Over
  BY <1>a, HeadFacts DEF TurnInv, Shape, Over
<1>1. Shape'
  BY <1>a, <1>b, <1>c DEF TurnInv, Shape, recordVars
<1>2. OutInv'
  BY <1>c
<1>3. CallsInv' /\ ApprovalsInv'
  BY CallsFrame DEF TurnInv, turnCompleted, Reading, Head1, complete, fail, finish,
     recordVars
<1>4. ServerInv'
  BY DEF TurnInv, ServerInv, Shape, Before, Ending, turnCompleted, Reading, Head1,
     complete, fail, finish, recordVars, ProcFields, SessFields
<1>5. ForwardInv'
  BY DEF TurnInv, ForwardInv, Shape, turnCompleted, Reading, Head1, complete, fail,
     finish, recordVars, ProcFields, SessFields
<1>6. FilesInv'
  BY <1>a, <1>b, <1>d DEF TurnInv, FilesInv, Sound, Over, CallsAnswered, AllTaken, Made,
     Located, recordVars
<1>7. QED
  BY <1>1, <1>2, <1>3, <1>4, <1>5, <1>6 DEF TurnInv

\* The output ends: the client fails, and the session with it.
LEMMA readLoopEndsInv == TurnInv /\ readLoopEnds => TurnInv'
<1> SUFFICES ASSUME TurnInv, readLoopEnds PROVE TurnInv'
  OBVIOUS
<1>1. Shape'
  BY DEF TurnInv, Shape, readLoopEnds, clientFail, fail, finish, recordVars, SessFields
<1>2. OutInv'
  BY OutFrame DEF TurnInv, readLoopEnds, clientFail, fail, finish
<1>3. CallsInv' /\ ApprovalsInv'
  BY CallsFrame DEF TurnInv, readLoopEnds, clientFail, fail, finish, recordVars
<1>4. ServerInv'
  BY DEF TurnInv, ServerInv, Shape, Before, Ending, readLoopEnds, clientFail, fail,
     finish, recordVars, SessFields
<1>5. ForwardInv'
  BY DEF TurnInv, ForwardInv, Shape, readLoopEnds, clientFail, fail, finish, recordVars,
     SessFields
<1>6. FilesInv'
  BY DEF TurnInv, FilesInv, Sound, Over, CallsAnswered, AllTaken, Made, Located, Shape,
     readLoopEnds, clientFail, fail, finish, recordVars, SessFields
<1>7. QED
  BY <1>1, <1>2, <1>3, <1>4, <1>5, <1>6 DEF TurnInv

\* runHarness begins, and refuses a job it cannot run.
LEMMA StartHarnessInv == TurnInv /\ StartHarness => TurnInv'
<1> SUFFICES ASSUME TurnInv, StartHarness PROVE TurnInv'
  OBVIOUS
<1>1. Shape'
  BY DEF TurnInv, Shape, StartHarness, At, Go, Returned, recordVars, RunnerFields
<1>2. OutInv'
  BY OutFrame DEF TurnInv, StartHarness, At, Go, Returned
<1>3. CallsInv' /\ ApprovalsInv'
  BY CallsFrame DEF TurnInv, StartHarness, At, Go, Returned, recordVars
<1>4. ServerInv'
  BY DEF TurnInv, ServerInv, Shape, Before, Ending, StartHarness, At, Go, Returned,
     recordVars, RunnerFields
<1>5. ForwardInv'
  BY DEF TurnInv, ForwardInv, StartHarness, At, Go, Returned, recordVars
<1>6. FilesInv'
  BY DEF TurnInv, FilesInv, Sound, Over, CallsAnswered, AllTaken, Made, Located, Shape,
     Before, Ending, Open, StartHarness, At, Go, Returned, recordVars, RunnerFields
<1>7. QED
  BY <1>1, <1>2, <1>3, <1>4, <1>5, <1>6 DEF TurnInv

\* The session is created and the process started.
LEMMA ProvisionInv == TurnInv /\ Provision => TurnInv'
<1> SUFFICES ASSUME TurnInv, Provision PROVE TurnInv'
  OBVIOUS
<1>1. Shape'
  BY DEF TurnInv, Shape, Provision, At, Go, Returned, recordVars, RunnerFields, ProcFields
<1>2. OutInv'
  BY OutFrame DEF TurnInv, Shape, Provision, At, Go, Returned, recordVars, RunnerFields,
     ProcFields
<1>3. CallsInv' /\ ApprovalsInv'
  BY CallsFrame DEF TurnInv, Provision, At, Go, Returned, recordVars
<1>4. ServerInv'
  BY DEF TurnInv, ServerInv, Shape, Before, Ending, Provision, At, Go, Returned,
     recordVars, RunnerFields, ProcFields
<1>5. ForwardInv'
  BY DEF TurnInv, ForwardInv, Provision, At, Go, Returned, recordVars
<1>6. FilesInv'
  BY DEF TurnInv, FilesInv, Sound, Over, CallsAnswered, AllTaken, Made, Located, Shape,
     Before, Ending, Open, Provision, At, Go, Returned, recordVars, RunnerFields,
     ProcFields
<1>7. QED
  BY <1>1, <1>2, <1>3, <1>4, <1>5, <1>6 DEF TurnInv

\* The client sends initialize.
LEMMA InitializeInv == TurnInv /\ Initialize => TurnInv'
<1> SUFFICES ASSUME TurnInv, Initialize PROVE TurnInv'
  OBVIOUS
<1>1. Shape'
  BY DEF TurnInv, Shape, Initialize, At, Go, Send, recordVars, RunnerFields, ProcFields
<1>2. OutInv'
  BY OutFrame DEF TurnInv, Initialize, At, Go, Send
<1>3. CallsInv' /\ ApprovalsInv'
  BY CallsFrame DEF TurnInv, Initialize, At, Go, Send, recordVars
<1>4. ServerInv'
  BY DEF TurnInv, ServerInv, Shape, Before, Ending, Initialize, At, Go, Send,
     recordVars, RunnerFields, ProcFields
<1>5. ForwardInv'
  BY DEF TurnInv, ForwardInv, Initialize, At, Go, Send, recordVars
<1>6. FilesInv'
  BY DEF TurnInv, FilesInv, Sound, Over, CallsAnswered, AllTaken, Made, Located, Shape,
     Before, Ending, Open, Initialize, At, Go, Send, recordVars, RunnerFields, ProcFields
<1>7. QED
  BY <1>1, <1>2, <1>3, <1>4, <1>5, <1>6 DEF TurnInv

\* The client could not be initialized.
LEMMA InitializeFailsInv == TurnInv /\ InitializeFails => TurnInv'
<1> SUFFICES ASSUME TurnInv, InitializeFails PROVE TurnInv'
  OBVIOUS
<1>1. Shape'
  BY DEF TurnInv, Shape, InitializeFails, At, finish, recordVars, RunnerFields, SessFields
<1>2. OutInv'
  BY OutFrame DEF TurnInv, InitializeFails, At, finish
<1>3. CallsInv' /\ ApprovalsInv'
  BY CallsFrame DEF TurnInv, InitializeFails, At, finish, recordVars
<1>4. ServerInv'
  BY DEF TurnInv, ServerInv, Shape, Before, Ending, InitializeFails, At, finish,
     recordVars, RunnerFields, SessFields
<1>5. ForwardInv'
  BY DEF TurnInv, ForwardInv, InitializeFails, At, finish, recordVars
<1>6. FilesInv'
  BY DEF TurnInv, FilesInv, Sound, Over, CallsAnswered, AllTaken, Made, Located,
     InitializeFails, At, finish, recordVars
<1>7. QED
  BY <1>1, <1>2, <1>3, <1>4, <1>5, <1>6 DEF TurnInv

\* The session is known and the capability of the attempt registered.
LEMMA RegisterInv == TurnInv /\ Register => TurnInv'
<1> SUFFICES ASSUME TurnInv, Register PROVE TurnInv'
  OBVIOUS
<1>1. Shape'
  BY DEF TurnInv, Shape, Register, At, Go, recordVars, RunnerFields, SessFields,
     BridgeFields
<1>2. OutInv'
  BY OutFrame DEF TurnInv, Register, At, Go
<1>3. CallsInv' /\ ApprovalsInv'
  BY CallsFrame DEF TurnInv, Register, At, Go, recordVars
<1>4. ServerInv'
  BY DEF TurnInv, ServerInv, Shape, Before, Ending, Register, At, Go, recordVars,
     RunnerFields, SessFields, BridgeFields
<1>5. ForwardInv'
  BY DEF TurnInv, ForwardInv, Register, At, Go, recordVars
<1>6. FilesInv'
  BY DEF TurnInv, FilesInv, Sound, Over, CallsAnswered, AllTaken, Made, Located,
     Register, At, Go, recordVars
<1>7. QED
  BY <1>1, <1>2, <1>3, <1>4, <1>5, <1>6 DEF TurnInv

\* The client asks for a thread.
LEMMA ThreadStartInv == TurnInv /\ ThreadStart => TurnInv'
<1> SUFFICES ASSUME TurnInv, ThreadStart PROVE TurnInv'
  OBVIOUS
<1>1. Shape'
  BY DEF TurnInv, Shape, ThreadStart, At, Go, Send, recordVars, RunnerFields, ProcFields
<1>2. OutInv'
  BY OutFrame DEF TurnInv, ThreadStart, At, Go, Send
<1>3. CallsInv' /\ ApprovalsInv'
  BY CallsFrame DEF TurnInv, ThreadStart, At, Go, Send, recordVars
<1>4. ServerInv'
  BY DEF TurnInv, ServerInv, Shape, Before, Ending, ThreadStart, At, Go, Send,
     recordVars, RunnerFields, ProcFields
<1>5. ForwardInv'
  BY DEF TurnInv, ForwardInv, ThreadStart, At, Go, Send, recordVars
<1>6. FilesInv'
  BY DEF TurnInv, FilesInv, Sound, Over, CallsAnswered, AllTaken, Made, Located, Shape,
     Before, Ending, Open, ThreadStart, At, Go, Send, recordVars, RunnerFields, ProcFields
<1>7. QED
  BY <1>1, <1>2, <1>3, <1>4, <1>5, <1>6 DEF TurnInv

\* The client asks for a turn.
LEMMA TurnStartInv == TurnInv /\ TurnStart => TurnInv'
<1> SUFFICES ASSUME TurnInv, TurnStart PROVE TurnInv'
  OBVIOUS
<1>1. Shape'
  BY DEF TurnInv, Shape, TurnStart, At, Go, Send, recordVars, RunnerFields, ProcFields
<1>2. OutInv'
  BY OutFrame DEF TurnInv, TurnStart, At, Go, Send
<1>3. CallsInv' /\ ApprovalsInv'
  BY CallsFrame DEF TurnInv, TurnStart, At, Go, Send, recordVars
<1>4. ServerInv'
  BY DEF TurnInv, ServerInv, Shape, Before, Ending, TurnStart, At, Go, Send, recordVars,
     RunnerFields, ProcFields
<1>5. ForwardInv'
  BY DEF TurnInv, ForwardInv, TurnStart, At, Go, Send, recordVars
<1>6. FilesInv'
  BY DEF TurnInv, FilesInv, Sound, Over, CallsAnswered, AllTaken, Made, Located, Shape,
     Before, Ending, Open, TurnStart, At, Go, Send, recordVars, RunnerFields, ProcFields
<1>7. QED
  BY <1>1, <1>2, <1>3, <1>4, <1>5, <1>6 DEF TurnInv

\* The prompt fails.
LEMMA PromptFailsInv == TurnInv /\ PromptFails => TurnInv'
<1> SUFFICES ASSUME TurnInv, PromptFails PROVE TurnInv'
  OBVIOUS
<1>1. Shape'
  BY DEF TurnInv, Shape, PromptFails, recordVars, RunnerFields
<1>2. OutInv'
  BY OutFrame DEF TurnInv, PromptFails
<1>3. CallsInv' /\ ApprovalsInv'
  BY CallsFrame DEF TurnInv, PromptFails, recordVars
<1>4. ServerInv'
  BY DEF TurnInv, ServerInv, Shape, Before, Ending, PromptFails, recordVars, RunnerFields
<1>5. ForwardInv'
  BY DEF TurnInv, ForwardInv, PromptFails, recordVars
<1>6. FilesInv'
  BY DEF TurnInv, FilesInv, Sound, Over, CallsAnswered, AllTaken, Made, Located,
     PromptFails, recordVars
<1>7. QED
  BY <1>1, <1>2, <1>3, <1>4, <1>5, <1>6 DEF TurnInv

\* The forwarder is started.
LEMMA EventsInv == TurnInv /\ Events => TurnInv'
<1> SUFFICES ASSUME TurnInv, Events PROVE TurnInv'
  OBVIOUS
<1>1. Shape'
  BY DEF TurnInv, Shape, Events, At, Go, Failed, recordVars, RunnerFields, FwdFields
<1>2. OutInv'
  BY OutFrame DEF TurnInv, Events, At, Go, Failed
<1>3. CallsInv' /\ ApprovalsInv'
  BY CallsFrame DEF TurnInv, Events, At, Go, Failed, recordVars
<1>4. ServerInv'
  BY DEF TurnInv, ServerInv, Shape, Before, Ending, Events, At, Go, Failed, recordVars,
     RunnerFields, FwdFields
<1>5. ForwardInv'
  BY DEF TurnInv, ForwardInv, ServerInv, Shape, Events, At, Go, Failed, recordVars,
     RunnerFields, FwdFields
<1>6. FilesInv'
  BY DEF TurnInv, FilesInv, Sound, Over, CallsAnswered, AllTaken, Made, Located,
     ServerInv, Shape, Before, Ending, Open, Events, At, Go, Failed, recordVars,
     RunnerFields, FwdFields
<1>7. QED
  BY <1>1, <1>2, <1>3, <1>4, <1>5, <1>6 DEF TurnInv

\* The loop takes an event from the forwarder: a file is with the runner now.
LEMMA ReceiveEventInv == TurnInv /\ ReceiveEvent => TurnInv'
<1> SUFFICES ASSUME TurnInv, ReceiveEvent PROVE TurnInv'
  OBVIOUS
<1>1. Shape'
  BY DEF TurnInv, Shape, ReceiveEvent, At, Failed, recordVars, RunnerFields, FwdFields
<1>2. OutInv'
  BY OutFrame DEF TurnInv, ReceiveEvent, At, Failed
<1>3. CallsInv' /\ ApprovalsInv'
  BY CallsFrame DEF TurnInv, ReceiveEvent, At, Failed, recordVars
<1>4. ServerInv'
  BY DEF TurnInv, ServerInv, Shape, Before, Ending, ReceiveEvent, At, Failed,
     recordVars, RunnerFields, FwdFields
<1>5. ForwardInv'
  BY DEF TurnInv, ForwardInv, ReceiveEvent, At, Failed
<1>6. FilesInv'
  <2>1. \/ runner'.result = "error"
         \/ /\ runner'.result = runner.result /\ runner'.pc = runner.pc /\ runner.files \subseteq runner'.files
            /\ \A c \in Calls : fwd.event = <<"file", c>> => c \in runner'.files
    <3>1. CASE Failed
      BY <3>1 DEF TurnInv, Shape, RunnerFields, Failed
    <3>2. CASE runner' = [runner EXCEPT !.text = @ \/ fwd.event[1] = "text",
                 !.files = IF fwd.event[1] = "file" THEN @ \cup {fwd.event[2]} ELSE @]
      <4>1. runner'.files = IF fwd.event[1] = "file" THEN runner.files \cup {fwd.event[2]} ELSE runner.files
        BY <3>2 DEF TurnInv, Shape, RunnerFields
      <4>2. \A c \in Calls : fwd.event = <<"file", c>> => fwd.event[1] = "file" /\ fwd.event[2] = c
        OBVIOUS
      <4>3. QED
        BY <3>2, <4>1, <4>2 DEF TurnInv, Shape, RunnerFields
    <3>3. QED
      BY <3>1, <3>2 DEF ReceiveEvent
  <2>2. /\ fwd'.err = fwd.err /\ fwd'.event = <<>> /\ runner.pc = "loop"
        /\ fwd'.pc \in {"select", "drain"} /\ fwd.pc \in {"send", "drainSend"}
        /\ UNCHANGED <<recordVars, sess, cli, proc, call, bridge>>
    BY DEF TurnInv, Shape, FwdFields, ReceiveEvent, At
  <2>3. runner.result = "none"
    BY <2>2 DEF TurnInv, ServerInv, Ending
  <2>4. QED
    BY <2>1, <2>2, <2>3 DEF TurnInv, ServerInv, FilesInv, Sound, Over, CallsAnswered,
       AllTaken, Made, Located, recordVars, Open
<1>7. QED
  BY <1>1, <1>2, <1>3, <1>4, <1>5, <1>6 DEF TurnInv

\* The loop takes the error of the session.
LEMMA ReceiveErrorInv == TurnInv /\ ReceiveError => TurnInv'
<1> SUFFICES ASSUME TurnInv, ReceiveError PROVE TurnInv'
  OBVIOUS
<1>1. Shape'
  BY DEF TurnInv, Shape, ReceiveError, At, Failed, recordVars, RunnerFields
<1>2. OutInv'
  BY OutFrame DEF TurnInv, ReceiveError, At, Failed
<1>3. CallsInv' /\ ApprovalsInv'
  BY CallsFrame DEF TurnInv, ReceiveError, At, Failed, recordVars
<1>4. ServerInv'
  BY DEF TurnInv, ServerInv, Shape, Before, Ending, ReceiveError, At, Failed,
     recordVars, RunnerFields
<1>5. ForwardInv'
  BY DEF TurnInv, ForwardInv, ReceiveError, At, Failed
<1>6. FilesInv'
  BY DEF TurnInv, FilesInv, Sound, Over, CallsAnswered, AllTaken, Made, Located,
     ServerInv, Shape, Before, Ending, Open, ReceiveError, At, Failed, recordVars,
     RunnerFields
<1>7. QED
  BY <1>1, <1>2, <1>3, <1>4, <1>5, <1>6 DEF TurnInv

\* The forwarder closed its channel: everything the turn made is with the runner.
LEMMA LoopEndsInv == TurnInv /\ LoopEnds => TurnInv'
<1> SUFFICES ASSUME TurnInv, LoopEnds PROVE TurnInv'
  OBVIOUS
<1>1. Shape'
  BY DEF TurnInv, Shape, LoopEnds, At, recordVars, RunnerFields
<1>2. OutInv'
  BY OutFrame DEF TurnInv, LoopEnds, At
<1>3. CallsInv' /\ ApprovalsInv'
  BY CallsFrame DEF TurnInv, LoopEnds, At, recordVars
<1>4. ServerInv'
  BY DEF TurnInv, ServerInv, Shape, Before, Ending, LoopEnds, At, recordVars, RunnerFields
<1>5. ForwardInv'
  BY DEF TurnInv, ForwardInv, LoopEnds, At, recordVars
<1>6. FilesInv'
  <2>1. /\ fwd.pc = "closed" /\ ~fwd.err /\ runner.pc = "loop" /\ runner'.files = runner.files
        /\ runner'.pc = "abort" /\ runner'.result \in {"ok", "error"}
        /\ UNCHANGED <<recordVars, sess, cli, proc, fwd, call, bridge>>
    BY DEF TurnInv, Shape, RunnerFields, LoopEnds, At
  <2>2. runner.result = "none" /\ job # "done"
    BY <2>1 DEF TurnInv, ServerInv, Ending
  <2>3. ~shutdown /\ job \in {"running", "done"} => Over /\ AllTaken
    BY <2>1, <2>2 DEF TurnInv, ForwardInv, FilesInv, Sound
  <2>4. QED
    BY <2>1, <2>2, <2>3 DEF FilesInv, Sound, Over, CallsAnswered, AllTaken, Made, Open,
       recordVars
<1>7. QED
  BY <1>1, <1>2, <1>3, <1>4, <1>5, <1>6 DEF TurnInv

\* The loop finds the job revoked.
LEMMA LoopRevokedInv == TurnInv /\ LoopRevoked => TurnInv'
<1> SUFFICES ASSUME TurnInv, LoopRevoked PROVE TurnInv'
  OBVIOUS
<1>1. Shape'
  BY DEF TurnInv, Shape, LoopRevoked, At, recordVars, RunnerFields
<1>2. OutInv'
  BY OutFrame DEF TurnInv, LoopRevoked, At
<1>3. CallsInv' /\ ApprovalsInv'
  BY CallsFrame DEF TurnInv, LoopRevoked, At, recordVars
<1>4. ServerInv'
  BY DEF TurnInv, ServerInv, Shape, Before, Ending, LoopRevoked, At, recordVars,
     RunnerFields
<1>5. ForwardInv'
  BY DEF TurnInv, ForwardInv, LoopRevoked, At, recordVars
<1>6. FilesInv'
  BY DEF TurnInv, FilesInv, Sound, Over, CallsAnswered, AllTaken, Made, Located,
     ServerInv, Shape, Before, Ending, Open, LoopRevoked, At, recordVars, RunnerFields
<1>7. QED
  BY <1>1, <1>2, <1>3, <1>4, <1>5, <1>6 DEF TurnInv

\* Abort marks the session.
LEMMA AbortInv == TurnInv /\ Abort => TurnInv'
<1> SUFFICES ASSUME TurnInv, Abort PROVE TurnInv'
  OBVIOUS
<1>1. Shape'
  BY DEF TurnInv, Shape, Abort, At, Go, AfterAbort, finish, recordVars, RunnerFields,
     SessFields
<1>2. OutInv'
  BY OutFrame DEF TurnInv, Abort, At, Go, AfterAbort, finish
<1>3. CallsInv' /\ ApprovalsInv'
  BY CallsFrame DEF TurnInv, Abort, At, Go, AfterAbort, finish, recordVars
<1>4. ServerInv'
  BY DEF TurnInv, ServerInv, Shape, Before, Ending, Abort, At, Go, AfterAbort, finish,
     recordVars, RunnerFields, SessFields
<1>5. ForwardInv'
  BY DEF TurnInv, ForwardInv, Shape, Abort, At, Go, AfterAbort, finish, recordVars,
     RunnerFields, SessFields
<1>6. FilesInv'
  BY DEF TurnInv, FilesInv, Sound, Over, CallsAnswered, AllTaken, Made, Located,
     ServerInv, Shape, Before, Ending, Open, Abort, At, Go, AfterAbort, finish, recordVars,
     RunnerFields, SessFields
<1>7. QED
  BY <1>1, <1>2, <1>3, <1>4, <1>5, <1>6 DEF TurnInv

\* Abort asks the app server to interrupt the turn.
LEMMA InterruptInv == TurnInv /\ Interrupt => TurnInv'
<1> SUFFICES ASSUME TurnInv, Interrupt PROVE TurnInv'
  OBVIOUS
<1>1. Shape'
  BY DEF TurnInv, Shape, Interrupt, At, Go, Send, recordVars, RunnerFields, ProcFields
<1>2. OutInv'
  BY OutFrame DEF TurnInv, Interrupt, At, Go, Send
<1>3. CallsInv' /\ ApprovalsInv'
  BY CallsFrame DEF TurnInv, Interrupt, At, Go, Send, recordVars
<1>4. ServerInv'
  BY DEF TurnInv, ServerInv, Shape, Before, Ending, Interrupt, At, Go, Send, recordVars,
     RunnerFields, ProcFields
<1>5. ForwardInv'
  BY DEF TurnInv, ForwardInv, Interrupt, At, Go, Send, recordVars
<1>6. FilesInv'
  BY DEF TurnInv, FilesInv, Sound, Over, CallsAnswered, AllTaken, Made, Located, Shape,
     Before, Ending, Open, Interrupt, At, Go, Send, recordVars, RunnerFields, ProcFields
<1>7. QED
  BY <1>1, <1>2, <1>3, <1>4, <1>5, <1>6 DEF TurnInv

\* Abort has its answer or gives up.
LEMMA InterruptedInv == TurnInv /\ Interrupted => TurnInv'
<1> SUFFICES ASSUME TurnInv, Interrupted PROVE TurnInv'
  OBVIOUS
<1>1. Shape'
  BY DEF TurnInv, Shape, Interrupted, At, Go, recordVars, RunnerFields
<1>2. OutInv'
  BY OutFrame DEF TurnInv, Interrupted, At, Go
<1>3. CallsInv' /\ ApprovalsInv'
  BY CallsFrame DEF TurnInv, Interrupted, At, Go, recordVars
<1>4. ServerInv'
  BY DEF TurnInv, ServerInv, Shape, Before, Ending, Interrupted, At, Go, recordVars,
     RunnerFields
<1>5. ForwardInv'
  BY DEF TurnInv, ForwardInv, Interrupted, At, Go, recordVars
<1>6. FilesInv'
  BY DEF TurnInv, FilesInv, Sound, Over, CallsAnswered, AllTaken, Made, Located, Shape,
     Before, Ending, Open, Interrupted, At, Go, recordVars, RunnerFields
<1>7. QED
  BY <1>1, <1>2, <1>3, <1>4, <1>5, <1>6 DEF TurnInv

\* runHarness terminates the session.
LEMMA RunnerTerminatesInv == TurnInv /\ RunnerTerminates => TurnInv'
<1> SUFFICES ASSUME TurnInv, RunnerTerminates PROVE TurnInv'
  OBVIOUS
<1>a. /\ DOMAIN runner' = RunnerFields /\ runner'.result = runner.result /\ runner'.files = runner.files
      /\ runner.pc \in {"terminate", "kill"} /\ runner'.pc \in {"kill", "returned", "abort"}
      /\ UNCHANGED <<recordVars, fwd, call>>
  BY DEF TurnInv, Shape, RunnerFields, RunnerTerminates, At, Go, AfterAbort, recordVars
<1>b. /\ DOMAIN sess' = SessFields /\ sess'.events = sess.events /\ (sess.closed => sess'.closed)
      /\ (sess.err <=> sess'.err)
  BY DEF TurnInv, ForwardInv, Shape, SessFields, RunnerTerminates, TakeSession, finish
<1>c. /\ DOMAIN proc' = ProcFields /\ (proc'.out = <<>> \/ proc'.out = proc.out)
      /\ proc'.request \in {proc.request, "none"} /\ proc'.turn \in {proc.turn, "over"}
  BY DEF TurnInv, Shape, ProcFields, RunnerTerminates, TakeSession, Terminate
<1>d. DOMAIN bridge' = BridgeFields /\ bridge'.artifacts \subseteq bridge.artifacts
  BY DEF TurnInv, Shape, BridgeFields, RunnerTerminates, Terminate, RevokeAttempt
<1>e. OutInv' /\ proc'.out \in Seq(Messages)
  BY <1>a, <1>c, OutFrame, OutEmpty DEF TurnInv, Shape
<1>1. Shape'
  BY <1>a, <1>b, <1>c, <1>d, <1>e DEF TurnInv, Shape, recordVars
<1>2. OutInv'
  BY <1>e
<1>3. CallsInv' /\ ApprovalsInv'
  BY CallsFrame DEF TurnInv, RunnerTerminates, At, Go, AfterAbort, TakeSession,
     Terminate, RevokeAttempt, finish, recordVars
<1>4. ServerInv'
  BY DEF TurnInv, ServerInv, Shape, Before, Ending, RunnerTerminates, At, Go,
     AfterAbort, TakeSession, Terminate, RevokeAttempt, finish, recordVars, RunnerFields,
     SessFields, ProcFields, BridgeFields
<1>5. ForwardInv'
  BY DEF TurnInv, ForwardInv, Shape, RunnerTerminates, At, Go, AfterAbort, TakeSession,
     Terminate, RevokeAttempt, finish, recordVars, RunnerFields, SessFields, ProcFields,
     BridgeFields
<1>6. FilesInv'
  BY <1>a, <1>b, <1>c DEF TurnInv, ServerInv, FilesInv, Sound, Over, CallsAnswered,
     AllTaken, Made, Ending, Open, recordVars
<1>7. QED
  BY <1>1, <1>2, <1>3, <1>4, <1>5, <1>6 DEF TurnInv

\* The forwarder takes an event out of the buffer.
LEMMA ForwardTakeInv == TurnInv /\ ForwardTake => TurnInv'
<1> SUFFICES ASSUME TurnInv, ForwardTake PROVE TurnInv'
  OBVIOUS
<1>a. /\ DOMAIN fwd' = FwdFields /\ fwd'.err = fwd.err /\ fwd'.event = Head(sess.events)
      /\ \/ fwd.pc = "select" /\ fwd'.pc = "send"
         \/ fwd.pc = "drain" /\ fwd'.pc = "drainSend"
      /\ sess.events # <<>> /\ UNCHANGED <<recordVars, runner, cli, proc, call, bridge>>
  BY DEF TurnInv, Shape, FwdFields, ForwardTake
<1>b. /\ DOMAIN sess' = SessFields /\ sess'.events = Tail(sess.events) /\ sess'.closed = sess.closed
      /\ sess'.err = sess.err
  BY DEF TurnInv, Shape, SessFields, ForwardTake
<1>c. sess.events \in Seq(EventSet) /\ Head(sess.events) \in EventSet
  BY <1>a DEF TurnInv, Shape
<1>d. fwd'.event # <<>>
  BY <1>a, <1>c, EventShape
<1>1. Shape'
  BY DEF TurnInv, Shape, ForwardTake, recordVars, FwdFields, SessFields
<1>2. OutInv'
  BY OutFrame DEF TurnInv, ForwardTake
<1>3. CallsInv' /\ ApprovalsInv'
  BY CallsFrame DEF TurnInv, ForwardTake, recordVars
<1>4. ServerInv'
  BY DEF TurnInv, ServerInv, Shape, Before, Ending, ForwardTake, recordVars, FwdFields,
     SessFields
<1>5. ForwardInv'
  BY <1>a, <1>b, <1>d DEF TurnInv, ForwardInv, recordVars
<1>6. FilesInv'
  <2>1. \A c : Holds(sess.events, c) => fwd'.event = <<"file", c>> \/ Holds(sess'.events, c)
    BY <1>a, <1>b, <1>c, HoldsTail
  <2>2. Sound => fwd.event = <<>>
    BY <1>a DEF TurnInv, ForwardInv, Sound
  <2>3. \A c : <<>> # <<"file", c>>
    OBVIOUS
  <2>4. QED
    BY <1>a, <1>b, <2>1, <2>2, <2>3 DEF TurnInv, FilesInv, Sound, Over, CallsAnswered,
       AllTaken, Made, Located, recordVars
<1>7. QED
  BY <1>1, <1>2, <1>3, <1>4, <1>5, <1>6 DEF TurnInv

\* The forwarder finds the error of the session or the end of the context.
LEMMA ForwardErrorInv == TurnInv /\ ForwardError => TurnInv'
<1> SUFFICES ASSUME TurnInv, ForwardError PROVE TurnInv'
  OBVIOUS
<1>1. Shape'
  BY DEF TurnInv, Shape, ForwardError, recordVars, FwdFields, SessFields
<1>2. OutInv'
  BY OutFrame DEF TurnInv, ForwardError
<1>3. CallsInv' /\ ApprovalsInv'
  BY CallsFrame DEF TurnInv, ForwardError, recordVars
<1>4. ServerInv'
  BY DEF TurnInv, ServerInv, Shape, Before, Ending, ForwardError, recordVars, FwdFields,
     SessFields
<1>5. ForwardInv'
  BY DEF TurnInv, ForwardInv, Shape, ForwardError, recordVars, FwdFields, SessFields
<1>6. FilesInv'
  BY DEF TurnInv, FilesInv, Sound, Over, CallsAnswered, AllTaken, Made, Located, Shape,
     ForwardError, recordVars, FwdFields, SessFields
<1>7. QED
  BY <1>1, <1>2, <1>3, <1>4, <1>5, <1>6 DEF TurnInv

\* The forwarder drains the buffer of a closed session until it is empty.
LEMMA ForwardDrainInv == TurnInv /\ ForwardDrain => TurnInv'
<1> SUFFICES ASSUME TurnInv, ForwardDrain PROVE TurnInv'
  OBVIOUS
<1>1. Shape'
  BY DEF TurnInv, Shape, ForwardDrain, Forward, recordVars, FwdFields, SessFields
<1>2. OutInv'
  BY OutFrame DEF TurnInv, ForwardDrain, Forward
<1>3. CallsInv' /\ ApprovalsInv'
  BY CallsFrame DEF TurnInv, ForwardDrain, Forward, recordVars
<1>4. ServerInv'
  BY DEF TurnInv, ServerInv, Shape, Before, Ending, ForwardDrain, Forward, recordVars,
     FwdFields, SessFields
<1>5. ForwardInv'
  BY DEF TurnInv, ForwardInv, Shape, ForwardDrain, Forward, recordVars, FwdFields,
     SessFields
<1>6. FilesInv'
  <2>0. DOMAIN fwd = FwdFields /\ DOMAIN sess = SessFields /\ UNCHANGED <<recordVars, runner, cli, proc, call, bridge>>
    BY DEF TurnInv, Shape, ForwardDrain
  <2>1. CASE sess.err /\ fwd' = [fwd EXCEPT !.err = TRUE] /\ sess' = [sess EXCEPT !.err = FALSE]
    BY <2>0, <2>1 DEF TurnInv, FilesInv, Sound, Over, CallsAnswered, AllTaken, Made,
       FwdFields, SessFields, recordVars
  <2>2. CASE fwd.pc = "select" /\ Forward("drain") /\ UNCHANGED sess
    BY <2>0, <2>2 DEF TurnInv, FilesInv, Sound, Over, CallsAnswered, AllTaken, Made,
       Located, FwdFields, Forward, recordVars
  <2>3. CASE fwd.pc = "drain" /\ sess.events = <<>> /\ ~sess.err /\ Forward("terminate") /\ UNCHANGED sess
    <3>1. /\ fwd'.pc = "terminate" /\ fwd'.err = fwd.err /\ fwd'.event = fwd.event
      BY <2>0, <2>3 DEF FwdFields, Forward
    <3>2. sess.closed /\ (Sound => fwd.event = <<>>)
      BY <2>3 DEF TurnInv, ForwardInv, Sound
    <3>3. \A c : <<>> # <<"file", c>> /\ ~Holds(<<>>, c)
      BY DEF Holds
    <3>4. Sound /\ runner.result = "none" => Over /\ AllTaken
      <4> SUFFICES ASSUME Sound, runner.result = "none" PROVE Over /\ AllTaken
        OBVIOUS
      <4>1. Over
        BY <3>2 DEF TurnInv, FilesInv
      <4>2. ASSUME NEW c \in Calls, Made(c) PROVE c \in runner.files
        <5>1. c \notin bridge.artifacts /\ \A d \in Calls : c \notin call[d].taken
          BY <4>1 DEF Over, CallsAnswered, TurnInv, CallsInv, CallInv
        <5>2. Located(c)
          BY <4>2 DEF TurnInv, FilesInv
        <5>3. QED
          BY <2>3, <3>2, <3>3, <5>1, <5>2 DEF Located
      <4>3. QED
        BY <4>1, <4>2 DEF AllTaken
    <3>5. runner.pc = "loop" => runner.result = "none"
      BY DEF TurnInv, ServerInv, Ending
    <3>6. QED
      BY <2>0, <2>3, <3>1, <3>2, <3>4, <3>5 DEF TurnInv, FilesInv, Sound, Over,
         CallsAnswered, AllTaken, Made, Located, recordVars
  <2>4. QED
    BY <2>1, <2>2, <2>3 DEF ForwardDrain
<1>7. QED
  BY <1>1, <1>2, <1>3, <1>4, <1>5, <1>6 DEF TurnInv

\* The forwarder terminates the session, when all is forwarded.
LEMMA ForwarderTerminatesInv == TurnInv /\ ForwarderTerminates => TurnInv'
<1> SUFFICES ASSUME TurnInv, ForwarderTerminates PROVE TurnInv'
  OBVIOUS
<1>a. /\ DOMAIN fwd' = FwdFields /\ fwd'.event = fwd.event /\ fwd'.err = fwd.err
      /\ fwd.pc \in {"terminate", "kill"} /\ fwd'.pc \in {"kill", "closed"}
      /\ UNCHANGED <<recordVars, runner, call>> /\ (fwd'.pc = "kill" => UNCHANGED bridge)
  BY DEF TurnInv, Shape, FwdFields, ForwarderTerminates, Forward, recordVars
<1>b. /\ DOMAIN sess' = SessFields /\ sess'.events = sess.events /\ (sess.closed => sess'.closed)
      /\ (sess.err <=> sess'.err)
  BY DEF TurnInv, ForwardInv, Shape, SessFields, ForwarderTerminates, TakeSession, finish
<1>c. /\ DOMAIN proc' = ProcFields /\ (proc'.out = <<>> \/ proc'.out = proc.out)
      /\ proc'.request \in {proc.request, "none"} /\ proc'.turn \in {proc.turn, "over"}
  BY DEF TurnInv, Shape, ProcFields, ForwarderTerminates, TakeSession, Terminate
<1>d. DOMAIN bridge' = BridgeFields /\ bridge'.artifacts \subseteq bridge.artifacts
  BY DEF TurnInv, Shape, BridgeFields, ForwarderTerminates, Terminate, RevokeAttempt
<1>e. OutInv' /\ proc'.out \in Seq(Messages)
  BY <1>a, <1>c, OutFrame, OutEmpty DEF TurnInv, Shape
<1>1. Shape'
  BY <1>a, <1>b, <1>c, <1>d, <1>e DEF TurnInv, Shape, recordVars
<1>2. OutInv'
  BY <1>e
<1>3. CallsInv' /\ ApprovalsInv'
  BY CallsFrame DEF TurnInv, ForwarderTerminates, Forward, TakeSession, Terminate,
     RevokeAttempt, finish, recordVars
<1>4. ServerInv'
  BY DEF TurnInv, ServerInv, Shape, Before, Ending, ForwarderTerminates, Forward,
     TakeSession, Terminate, RevokeAttempt, finish, recordVars, FwdFields, SessFields,
     ProcFields, BridgeFields
<1>5. ForwardInv'
  BY DEF TurnInv, ForwardInv, Shape, ForwarderTerminates, Forward, TakeSession,
     Terminate, RevokeAttempt, finish, recordVars, FwdFields, SessFields, ProcFields,
     BridgeFields
<1>6. FilesInv'
  <2>1. Sound /\ runner.result = "none" => Over /\ AllTaken
    BY <1>a DEF TurnInv, ServerInv, FilesInv, Ending, Before
  <2>2. QED
    BY <1>a, <1>b, <1>c, <2>1 DEF TurnInv, ServerInv, FilesInv, Sound, Over,
       CallsAnswered, AllTaken, Made, Located, Ending, Open, recordVars
<1>7. QED
  BY <1>1, <1>2, <1>3, <1>4, <1>5, <1>6 DEF TurnInv

(***************************************************************************)
(* A tool call.                                                            *)
(***************************************************************************)
\* A message about a call names a call.
LEMMA CallMessage == \A m \in Messages : m[1] = "call" => m[2] \in Calls
<1> SUFFICES ASSUME NEW m \in Messages, m[1] = "call" PROVE m[2] \in Calls
  OBVIOUS
<1>1. CASE m \in {"answer"} \X {"initialize", "thread", "turn", "interrupt"} \X {"ok", "error"}
  BY <1>1
<1>2. CASE m = <<"item">>
  BY <1>2
<1>3. CASE m \in {"call"} \X Calls
  BY <1>3
<1>4. CASE m \in {"turn"} \X {"completed", "failed"}
  BY <1>4
<1>5. QED
  BY <1>1, <1>2, <1>3, <1>4 DEF Messages

\* A step of a call that is being worked on is not about a message of the output.
LEMMA OutBusy ==
  ASSUME OutInv, proc.out \in Seq(Messages), NEW c \in Calls, call[c].pc \notin {"none", "said", "done"},
         \A d \in Calls : d # c => call'[d] = call[d], UNCHANGED proc
  PROVE  OutInv'
<1> SUFFICES ASSUME NEW i \in 1 .. Len(proc.out)
             PROVE  /\ proc.out[i][1] \in {"call", "turn", "item"} => i = 1
                    /\ proc.out[i][1] = "call" => call'[proc.out[i][2]].pc = "said"
                    /\ proc.out[i][1] # "turn"
  BY DEF OutInv
<1>1. proc.out[i] \in Messages
  OBVIOUS
<1>2. proc.out[i][1] = "call" => proc.out[i][2] \in Calls /\ proc.out[i][2] # c
  BY <1>1, CallMessage DEF OutInv
<1>3. QED
  BY <1>2 DEF OutInv, CallsAnswered

\* While a call is worked on the turn is not over, and a sound session is open.
LEMMA BusyFacts ==
  ASSUME TurnInv, NEW c \in Calls, call[c].pc \notin {"none", "done"}
  PROVE  /\ ~Over /\ runner.pc \notin Before /\ job # "done"
         /\ ~(~shutdown /\ job \in {"running", "done"} /\ runner.result = "ok")
         /\ Sound /\ runner.result = "none" => /\ ~sess.closed /\ bridge.scope /\ job = "running"
                                               /\ runner.pc \in Open /\ fwd.pc # "closed"
<1>1. ~Over /\ runner.pc \notin Before
  BY DEF Over, CallsAnswered, TurnInv, ServerInv
<1>2. job # "done" /\ ~(~shutdown /\ job \in {"running", "done"} /\ runner.result = "ok")
  BY <1>1 DEF TurnInv, FilesInv
<1>3. ASSUME Sound, runner.result = "none"
      PROVE  /\ ~sess.closed /\ bridge.scope /\ job = "running"
             /\ runner.pc \in Open /\ fwd.pc # "closed"
  <2>1. runner.pc \in {"started", "loop"} /\ job = "running"
    BY <1>1, <1>2, <1>3 DEF TurnInv, ServerInv, Sound
  <2>2. fwd.pc # "closed"
    BY <1>1, <1>3, <2>1 DEF TurnInv, ServerInv, FilesInv
  <2>3. QED
    BY <1>1, <1>3, <2>1, <2>2 DEF TurnInv, FilesInv, Open
<1>4. QED
  BY <1>1, <1>2, <1>3

\* A step of a call that is being worked on, given where its files are afterwards.
LEMMA BusyStep ==
  ASSUME TurnInv, NEW c \in Calls, call[c].pc \notin {"none", "done"},
         NEW x, call' = [call EXCEPT ![c] = x], IsCall(x),
         UNCHANGED <<runner, fwd, shutdown>>,
         DOMAIN proc' = ProcFields, proc'.out \in Seq(Messages), proc'.alive = proc.alive,
         proc'.request = proc.request, proc'.turn = proc.turn,
         DOMAIN sess' = SessFields, sess'.events \in Seq(EventSet),
         sess'.closed = sess.closed, sess'.err = sess.err,
         DOMAIN bridge' = BridgeFields, bridge'.artifacts \subseteq Calls,
         DOMAIN appr' = Approvals, DOMAIN ran' = Approvals, \A p \in Approvals : ran'[p] \in Nat,
         job' \in {job, "waiting"},
         Sound /\ runner.result = "none" =>
           /\ bridge'.scope
           /\ \A d \in Calls : Made(d)' => Located(d)'
  PROVE  Shape' /\ ServerInv' /\ ForwardInv' /\ FilesInv'
<1>1. DOMAIN call' = Calls /\ \A d \in Calls : call'[d] = IF d = c THEN x ELSE call[d]
  BY DEF TurnInv, Shape
<1>2. Shape'
  BY <1>1 DEF TurnInv, Shape
<1>3. ServerInv'
  BY BusyFacts DEF TurnInv, ServerInv
<1>4. ForwardInv'
  BY DEF TurnInv, ForwardInv
<1>5. Sound' => Sound
  BY DEF Sound
<1>6. runner.pc \in Open => runner.result = "none"
  BY DEF TurnInv, ServerInv, Open, Ending
<1>7. runner.pc = "loop" => runner.pc \in Open
  BY DEF Open
<1>8. FilesInv'
  <2>1. ~(Sound' /\ runner'.result = "none" /\ sess'.closed)
    BY <1>5, BusyFacts
  <2>2. ~(Sound' /\ runner'.pc = "loop" /\ fwd'.pc \in {"terminate", "kill", "closed"})
    BY <1>5, <1>6, <1>7, BusyFacts DEF TurnInv, FilesInv
  <2>3. job' # "done" /\ ~(~shutdown' /\ job' \in {"running", "done"} /\ runner'.result = "ok")
    BY BusyFacts
  <2>4. Sound' /\ runner'.pc \in Open /\ fwd'.pc # "closed" => bridge'.scope
    BY <1>5, <1>6
  <2>5. Sound' /\ runner'.result = "none" => \A d \in Calls : Made(d)' => Located(d)'
    BY <1>5
  <2>6. QED
    BY <2>1, <2>2, <2>3, <2>4, <2>5 DEF FilesInv
<1>9. QED
  BY <1>2, <1>3, <1>4, <1>8

\* A step of one call leaves what holds of the others.
LEMMA CallsMove ==
  ASSUME TurnInv, NEW c \in Calls, NEW x, call' = [call EXCEPT ![c] = x], CallInv(c)',
         \A d \in Calls \ {c} : appr[d] = "none" => appr'[d] = "none",
         bridge'.artifacts \subseteq bridge.artifacts \cup {c}
  PROVE  CallsInv'
<1>1. \A d \in Calls : d # c => call'[d] = call[d]
  BY DEF TurnInv, Shape
<1>2. QED
  BY <1>1 DEF TurnInv, CallsInv, CallInv

\* A step of a call that does not start the approved action.
LEMMA ApprovalsMove ==
  ASSUME TurnInv, NEW c \in Calls, NEW x, call' = [call EXCEPT ![c] = x],
         ~(x.kind = "resume" /\ x.pc = "execute"), UNCHANGED ran,
         \A p \in Approvals : appr'[p] # "consumed" => appr[p] # "consumed"
  PROVE  ApprovalsInv'
<1>1. \A d \in Calls : call'[d] = IF d = c THEN x ELSE call[d]
  BY DEF TurnInv, Shape
<1>2. \A d \in Calls, p \in Approvals : Executing(d, p)' => Executing(d, p)
  BY <1>1 DEF Executing
<1>3. QED
  BY <1>2 DEF TurnInv, ApprovalsInv, OnceInv

\* A step of a call that neither starts the action nor makes a file.
LEMMA PlainStep ==
  ASSUME TurnInv, NEW c \in Calls, call[c].pc \notin {"none", "said", "done"},
         NEW x, call' = [call EXCEPT ![c] = x], IsCall(x), CallInv(c)',
         x.kind = call[c].kind, x.ok /\ x.kind = "image" => call[c].ok, x.taken = call[c].taken,
         ~(x.kind = "resume" /\ x.pc = "execute"),
         UNCHANGED <<runner, proc, fwd, ran, shutdown>>, job' \in {job, "waiting"},
         DOMAIN appr' = Approvals,
         \A d \in Calls \ {c} : appr[d] = "none" => appr'[d] = "none",
         \A p \in Approvals : appr'[p] # "consumed" => appr[p] # "consumed",
         DOMAIN sess' = SessFields, sess'.events \in Seq(EventSet),
         sess'.closed = sess.closed, sess'.err = sess.err,
         \A d : Holds(sess.events, d) => Holds(sess'.events, d),
         DOMAIN bridge' = BridgeFields, bridge'.artifacts \subseteq bridge.artifacts,
         Sound /\ runner.result = "none" => bridge'.scope /\ bridge'.artifacts = bridge.artifacts
  PROVE  TurnInv'
<1>0. DOMAIN call = Calls /\ \A d \in Calls : call'[d] = IF d = c THEN x ELSE call[d]
  BY DEF TurnInv, Shape
<1>1. CallsInv' /\ ApprovalsInv'
  BY CallsMove, ApprovalsMove
<1>2. OutInv'
  BY <1>0, OutBusy DEF TurnInv, Shape
<1>3. /\ DOMAIN proc' = ProcFields /\ proc'.out \in Seq(Messages) /\ bridge'.artifacts \subseteq Calls
      /\ DOMAIN ran' = Approvals /\ \A p \in Approvals : ran'[p] \in Nat
  BY DEF TurnInv, Shape
<1>4. ASSUME Sound, runner.result = "none", NEW d \in Calls, Made(d)' PROVE Located(d)'
  <2>1. Made(d)
    BY <1>0, <1>4 DEF Made
  <2>2. Located(d)
    BY <1>4, <2>1 DEF TurnInv, FilesInv
  <2>3. QED
    BY <1>0, <1>4, <2>2 DEF Located
<1>5. Shape' /\ ServerInv' /\ ForwardInv' /\ FilesInv'
  BY <1>3, <1>4, BusyStep
<1>6. QED
  BY <1>1, <1>2, <1>5 DEF TurnInv

\* A session left alone.
LEMMA SameSession ==
  ASSUME TurnInv, UNCHANGED sess
  PROVE  /\ DOMAIN sess' = SessFields /\ sess'.events \in Seq(EventSet)
         /\ sess'.closed = sess.closed /\ sess'.err = sess.err
         /\ \A d : Holds(sess.events, d) => Holds(sess'.events, d)
  BY DEF TurnInv, Shape

\* Approvals left alone.
LEMMA SameApprovals ==
  ASSUME TurnInv, UNCHANGED appr
  PROVE  /\ DOMAIN appr' = Approvals
         /\ \A d \in Calls : appr[d] = "none" => appr'[d] = "none"
         /\ \A p \in Approvals : appr'[p] # "consumed" => appr[p] # "consumed"
  BY DEF TurnInv, Shape

\* Artifacts left alone.
LEMMA SameBridge ==
  ASSUME TurnInv, NEW c \in Calls, call[c].pc \notin {"none", "done"},
         DOMAIN bridge' = BridgeFields, bridge'.scope = bridge.scope, bridge'.artifacts = bridge.artifacts
  PROVE  /\ DOMAIN bridge' = BridgeFields /\ bridge'.artifacts \subseteq bridge.artifacts
         /\ Sound /\ runner.result = "none" => bridge'.scope /\ bridge'.artifacts = bridge.artifacts
  BY BusyFacts

\* prepareToolInvocation: the call is refused or the loop told of it.
LEMMA prepareToolInvocationInv ==
  ASSUME TurnInv, NEW c \in Calls, prepareToolInvocation(c) PROVE TurnInv'
<1>1. PICK p \in {"done", "authorize"} :
        /\ call[c].pc = "prepare" /\ call' = [call EXCEPT ![c].pc = p]
        /\ UNCHANGED sess \/ emit(<<"status">>)
  BY DEF prepareToolInvocation, Step
<1>2. PICK x : /\ call' = [call EXCEPT ![c] = x] /\ IsCall(x) /\ x.pc = p
               /\ x.kind = call[c].kind /\ x.names = call[c].names
               /\ x.ok = call[c].ok /\ x.taken = call[c].taken
  <2>1. PICK x : x = [call[c] EXCEPT !.pc = p] /\ call' = [call EXCEPT ![c] = x]
    BY <1>1
  <2>2. IsCall(call[c])
    BY DEF TurnInv, Shape
  <2>3. /\ DOMAIN x = CallFields /\ x.pc = p
        /\ x.kind = call[c].kind /\ x.names = call[c].names
        /\ x.ok = call[c].ok /\ x.taken = call[c].taken
    BY <2>1, <2>2 DEF IsCall, CallFields
  <2>4. QED
    BY <2>1, <2>2, <2>3 DEF IsCall
<1>3. UNCHANGED <<job, appr, ran, shutdown, runner, cli, proc, fwd, bridge>>
  BY DEF prepareToolInvocation, recordVars
<1>4. call'[c] = x
  BY <1>2 DEF TurnInv, Shape
<1>5. CallInv(c)'
  BY <1>1, <1>2, <1>3, <1>4 DEF TurnInv, CallsInv, CallInv
<1>6. /\ DOMAIN sess' = SessFields /\ sess'.events \in Seq(EventSet)
      /\ sess'.closed = sess.closed /\ sess'.err = sess.err
      /\ \A d : Holds(sess.events, d) => Holds(sess'.events, d)
  BY <1>1, SameSession, EmitFacts DEF TurnInv, EventSet
<1>7. /\ DOMAIN bridge' = BridgeFields /\ bridge'.artifacts \subseteq bridge.artifacts
      /\ Sound /\ runner.result = "none" => bridge'.scope /\ bridge'.artifacts = bridge.artifacts
  <2>1. DOMAIN bridge' = BridgeFields
    BY <1>3 DEF TurnInv, Shape
  <2>2. QED
    BY <1>1, <1>3, <2>1, SameBridge
<1>8. QED
  BY <1>1, <1>2, <1>3, <1>5, <1>6, <1>7, SameApprovals, PlainStep

\* A call is answered with a failure.
LEMMA FailsInv ==
  ASSUME TurnInv, NEW c \in Calls, call[c].pc \in {"authorize", "resume", "execute"}, Fails(c),
         UNCHANGED <<job, appr, ran, shutdown, runner, sess, proc, fwd>>,
         DOMAIN bridge' = BridgeFields,
         bridge'.artifacts \subseteq bridge.artifacts,
         Sound /\ runner.result = "none" => bridge'.scope /\ bridge'.artifacts = bridge.artifacts
  PROVE  TurnInv'
<1>1. PICK x : /\ call' = [call EXCEPT ![c] = x] /\ IsCall(x) /\ x.pc = "answered"
               /\ x.kind = call[c].kind /\ x.names = call[c].names
               /\ x.ok = call[c].ok /\ x.taken = call[c].taken
  <2>1. PICK x : x = [call[c] EXCEPT !.pc = "answered"] /\ call' = [call EXCEPT ![c] = x]
    BY DEF Fails
  <2>2. IsCall(call[c])
    BY DEF TurnInv, Shape
  <2>3. /\ DOMAIN x = CallFields /\ x.pc = "answered"
        /\ x.kind = call[c].kind /\ x.names = call[c].names
        /\ x.ok = call[c].ok /\ x.taken = call[c].taken
    BY <2>1, <2>2 DEF IsCall, CallFields
  <2>4. QED
    BY <2>1, <2>2, <2>3 DEF IsCall
<1>2. call'[c] = x
  BY <1>1 DEF TurnInv, Shape
<1>3. CallInv(c)'
  BY <1>1, <1>2 DEF TurnInv, CallsInv, CallInv
<1>4. QED
  BY <1>1, <1>3, SameSession, SameApprovals, PlainStep

\* The receipt or the gateway refuses the call.
LEMMA RefusedInv ==
  ASSUME TurnInv, NEW c \in Calls, receiptRefused(c) \/ gatewayRefuses(c) PROVE TurnInv'
<1>1. call[c].pc = "execute" /\ Fails(c) /\ UNCHANGED <<recordVars, runner, sess, cli, proc, fwd, bridge>>
  BY DEF receiptRefused, gatewayRefuses
<1>2. DOMAIN bridge' = BridgeFields
  BY <1>1 DEF TurnInv, Shape
<1>3. QED
  BY <1>1, <1>2, SameBridge, FailsInv DEF recordVars

\* serve, authorize: one read of the capability and of the job decides.
LEMMA authorizeInv ==
  ASSUME TurnInv, NEW c \in Calls, authorize(c) PROVE TurnInv'
<1>0. call[c].pc = "authorize" /\ UNCHANGED <<job, appr, ran, shutdown, runner, sess, cli, proc, fwd>>
  BY DEF authorize, recordVars
<1>1. CASE ~bridge.scope \/ job # "running"
  <2>1. Fails(c) /\ bridge' = [scope |-> FALSE, artifacts |-> {}, imaged |-> FALSE]
    BY <1>1 DEF authorize, RevokeAttempt
  <2>2. DOMAIN bridge' = BridgeFields /\ bridge'.artifacts \subseteq bridge.artifacts
    BY <2>1 DEF BridgeFields
  <2>3. ~(Sound /\ runner.result = "none")
    BY <1>0, <1>1, BusyFacts
  <2>4. QED
    BY <1>0, <2>1, <2>2, <2>3, FailsInv
<1>2. CASE bridge.scope /\ job = "running" /\ call[c].kind = "read"
  <2>1. PICK ok \in BOOLEAN :
          /\ call' = [call EXCEPT ![c] = [@ EXCEPT !.pc = "answered", !.ok = ok]] /\ UNCHANGED bridge
    BY <1>2 DEF authorize
  <2>2. PICK x : /\ call' = [call EXCEPT ![c] = x] /\ IsCall(x) /\ x.pc = "answered"
                 /\ x.kind = call[c].kind /\ x.names = call[c].names
                 /\ x.ok = ok /\ x.taken = call[c].taken
    <3>1. PICK x : x = [call[c] EXCEPT !.pc = "answered", !.ok = ok] /\ call' = [call EXCEPT ![c] = x]
      BY <2>1
    <3>2. IsCall(call[c])
      BY DEF TurnInv, Shape
    <3>3. /\ DOMAIN x = CallFields /\ x.pc = "answered"
          /\ x.kind = call[c].kind /\ x.names = call[c].names
          /\ x.ok = ok /\ x.taken = call[c].taken
      BY <3>1, <3>2 DEF IsCall, CallFields
    <3>4. QED
      BY <3>1, <3>2, <3>3 DEF IsCall
  <2>3. call'[c] = x /\ DOMAIN bridge' = BridgeFields
    BY <2>1, <2>2 DEF TurnInv, Shape
  <2>4. CallInv(c)'
    BY <1>0, <1>2, <2>1, <2>2, <2>3 DEF TurnInv, CallsInv, CallInv
  <2>5. QED
    BY <1>0, <1>2, <2>1, <2>2, <2>3, <2>4, SameSession, SameApprovals, SameBridge, PlainStep
<1>3. CASE bridge.scope /\ job = "running" /\ call[c].kind = "image"
  <2>1. /\ IF bridge.imaged THEN Fails(c) ELSE call' = [call EXCEPT ![c].pc = "execute"]
        /\ bridge' = [bridge EXCEPT !.imaged = TRUE]
    BY <1>3 DEF authorize, Step
  <2>2. DOMAIN bridge' = BridgeFields /\ bridge'.scope = bridge.scope /\ bridge'.artifacts = bridge.artifacts
    BY <2>1 DEF TurnInv, Shape, BridgeFields
  <2>3. CASE bridge.imaged
    BY <1>0, <2>1, <2>2, <2>3, SameBridge, FailsInv
  <2>4. CASE ~bridge.imaged
    <3>1. PICK x : /\ call' = [call EXCEPT ![c] = x] /\ IsCall(x) /\ x.pc = "execute"
                   /\ x.kind = call[c].kind /\ x.names = call[c].names
                   /\ x.ok = call[c].ok /\ x.taken = call[c].taken
      <4>1. PICK x : x = [call[c] EXCEPT !.pc = "execute"] /\ call' = [call EXCEPT ![c] = x]
        BY <2>1, <2>4
      <4>2. IsCall(call[c])
        BY DEF TurnInv, Shape
      <4>3. /\ DOMAIN x = CallFields /\ x.pc = "execute"
            /\ x.kind = call[c].kind /\ x.names = call[c].names
            /\ x.ok = call[c].ok /\ x.taken = call[c].taken
        BY <4>1, <4>2 DEF IsCall, CallFields
      <4>4. QED
        BY <4>1, <4>2, <4>3 DEF IsCall
    <3>2. call'[c] = x
      BY <3>1 DEF TurnInv, Shape
    <3>3. CallInv(c)'
      BY <1>0, <1>3, <2>2, <3>1, <3>2 DEF TurnInv, CallsInv, CallInv
    <3>4. QED
      BY <1>0, <1>3, <2>2, <3>1, <3>3, SameSession, SameApprovals, SameBridge, PlainStep
  <2>5. QED
    BY <2>3, <2>4
<1>4. CASE bridge.scope /\ job = "running" /\ call[c].kind \notin {"read", "image"}
  <2>1. call' = [call EXCEPT ![c].pc = call[c].kind] /\ UNCHANGED bridge
    BY <1>4 DEF authorize, Step
  <2>2. PICK x : /\ call' = [call EXCEPT ![c] = x] /\ IsCall(x) /\ x.pc = call[c].kind
                 /\ x.kind = call[c].kind /\ x.names = call[c].names
                 /\ x.ok = call[c].ok /\ x.taken = call[c].taken
    <3>1. PICK x : x = [call[c] EXCEPT !.pc = call[c].kind] /\ call' = [call EXCEPT ![c] = x]
      BY <2>1
    <3>2. IsCall(call[c])
      BY DEF TurnInv, Shape
    <3>3. /\ DOMAIN x = CallFields /\ x.pc = call[c].kind
          /\ x.kind = call[c].kind /\ x.names = call[c].names
          /\ x.ok = call[c].ok /\ x.taken = call[c].taken
      BY <3>1, <3>2 DEF IsCall, CallFields
    <3>4. QED
      BY <3>1, <3>2, <3>3 DEF IsCall
  <2>3. call'[c] = x /\ DOMAIN bridge' = BridgeFields /\ call[c].kind \in CallKinds
    BY <2>1, <2>2 DEF TurnInv, Shape, IsCall
  <2>4. call[c].kind \in {"write", "resume"}
    BY <1>0, <1>4, <2>3 DEF TurnInv, CallsInv, CallInv, CallKinds
  <2>5. CallInv(c)'
    BY <1>0, <2>1, <2>2, <2>3, <2>4 DEF TurnInv, CallsInv, CallInv
  <2>6. QED
    BY <1>0, <2>1, <2>2, <2>3, <2>4, <2>5, SameSession, SameApprovals, SameBridge, PlainStep
<1>5. QED
  BY <1>1, <1>2, <1>3, <1>4

\* An approval is asked for, under the number of the call.
LEMMA requestApprovalInv ==
  ASSUME TurnInv, NEW c \in Calls, requestApproval(c) PROVE TurnInv'
<1>0. /\ call[c].pc = "write" /\ call' = [call EXCEPT ![c].pc = "suspend"]
      /\ appr' = [appr EXCEPT ![c] = "pending"]
      /\ UNCHANGED <<job, ran, shutdown, runner, sess, cli, proc, fwd, bridge>>
  BY DEF requestApproval, Step
<1>1. PICK x : /\ call' = [call EXCEPT ![c] = x] /\ IsCall(x) /\ x.pc = "suspend"
               /\ x.kind = call[c].kind /\ x.names = call[c].names
               /\ x.ok = call[c].ok /\ x.taken = call[c].taken
  <2>1. PICK x : x = [call[c] EXCEPT !.pc = "suspend"] /\ call' = [call EXCEPT ![c] = x]
    BY <1>0
  <2>2. IsCall(call[c])
    BY DEF TurnInv, Shape
  <2>3. /\ DOMAIN x = CallFields /\ x.pc = "suspend"
        /\ x.kind = call[c].kind /\ x.names = call[c].names
        /\ x.ok = call[c].ok /\ x.taken = call[c].taken
    BY <2>1, <2>2 DEF IsCall, CallFields
  <2>4. QED
    BY <2>1, <2>2, <2>3 DEF IsCall
<1>2. call'[c] = x /\ DOMAIN bridge' = BridgeFields /\ c \in Approvals
  BY <1>0, <1>1 DEF TurnInv, Shape, Approvals
<1>3. appr[c] = "none" /\ call[c].kind = "write"
  BY <1>0 DEF TurnInv, CallsInv, CallInv
<1>4. CallInv(c)'
  BY <1>0, <1>1, <1>2, <1>3 DEF TurnInv, CallsInv, CallInv
<1>5. DOMAIN appr' = Approvals /\ \A p \in Approvals : appr'[p] = IF p = c THEN "pending" ELSE appr[p]
  BY <1>0 DEF TurnInv, Shape
<1>6. /\ \A d \in Calls \ {c} : appr[d] = "none" => appr'[d] = "none"
      /\ \A p \in Approvals : appr'[p] # "consumed" => appr[p] # "consumed"
  BY <1>3, <1>5 DEF Approvals
<1>7. /\ DOMAIN sess' = SessFields /\ sess'.events \in Seq(EventSet)
      /\ sess'.closed = sess.closed /\ sess'.err = sess.err
      /\ \A d : Holds(sess.events, d) => Holds(sess'.events, d)
  BY <1>0, SameSession
<1>8. /\ bridge'.artifacts \subseteq bridge.artifacts
      /\ Sound /\ runner.result = "none" => bridge'.scope /\ bridge'.artifacts = bridge.artifacts
  BY <1>0, <1>2, SameBridge
<1>9. /\ UNCHANGED <<runner, proc, fwd, ran, shutdown>> /\ job' \in {job, "waiting"}
      /\ call[c].pc \notin {"none", "said", "done"} /\ DOMAIN appr' = Approvals
      /\ ~(x.kind = "resume" /\ x.pc = "execute") /\ (x.ok /\ x.kind = "image" => call[c].ok)
  BY <1>0, <1>1, <1>5
<1>10. QED
  BY <1>1, <1>2, <1>4, <1>6, <1>7, <1>8, <1>9, PlainStep

\* The job is suspended until somebody approves.
LEMMA suspendAndNotifyInv ==
  ASSUME TurnInv, NEW c \in Calls, suspendAndNotify(c) PROVE TurnInv'
<1>0. /\ call[c].pc = "suspend" /\ call' = [call EXCEPT ![c].pc = "answered"]
      /\ job' \in {job, "waiting"}
      /\ UNCHANGED <<appr, ran, shutdown, runner, sess, cli, proc, fwd, bridge>>
  BY DEF suspendAndNotify, Step
<1>1. PICK x : /\ call' = [call EXCEPT ![c] = x] /\ IsCall(x) /\ x.pc = "answered"
               /\ x.kind = call[c].kind /\ x.names = call[c].names
               /\ x.ok = call[c].ok /\ x.taken = call[c].taken
  <2>1. PICK x : x = [call[c] EXCEPT !.pc = "answered"] /\ call' = [call EXCEPT ![c] = x]
    BY <1>0
  <2>2. IsCall(call[c])
    BY DEF TurnInv, Shape
  <2>3. /\ DOMAIN x = CallFields /\ x.pc = "answered"
        /\ x.kind = call[c].kind /\ x.names = call[c].names
        /\ x.ok = call[c].ok /\ x.taken = call[c].taken
    BY <2>1, <2>2 DEF IsCall, CallFields
  <2>4. QED
    BY <2>1, <2>2, <2>3 DEF IsCall
<1>2. call'[c] = x /\ DOMAIN bridge' = BridgeFields
  BY <1>0, <1>1 DEF TurnInv, Shape
<1>3. CallInv(c)'
  BY <1>0, <1>1, <1>2 DEF TurnInv, CallsInv, CallInv
<1>4. QED
  BY <1>0, <1>1, <1>2, <1>3, SameSession, SameApprovals, SameBridge, PlainStep

\* ConsumeContext: the approval is taken once, by one call.
LEMMA consumeInv ==
  ASSUME TurnInv, NEW c \in Calls, consume(c) PROVE TurnInv'
<1>0. /\ call[c].pc = "resume" /\ UNCHANGED <<job, ran, shutdown, runner, sess, cli, proc, fwd, bridge>>
  BY DEF consume
<1>a. DOMAIN bridge' = BridgeFields
  BY <1>0 DEF TurnInv, Shape
<1>1. CASE appr[call[c].names] # "approved"
  <2>1. Fails(c) /\ UNCHANGED appr
    BY <1>1 DEF consume
  <2>2. QED
    BY <1>0, <1>a, <2>1, SameBridge, FailsInv
<1>2. CASE appr[call[c].names] = "approved"
  <2> DEFINE q == call[c].names
  <2>0. q \in Approvals
    BY DEF TurnInv, Shape, IsCall
  <2>1. /\ call' = [call EXCEPT ![c].pc = "execute"]
        /\ appr' = [appr EXCEPT ![q] = "consumed"]
    BY <1>2 DEF consume, Step
  <2>2. DOMAIN appr' = Approvals /\ \A p \in Approvals : appr'[p] = IF p = q THEN "consumed" ELSE appr[p]
    BY <2>0, <2>1 DEF TurnInv, Shape
  <2>3. PICK x : /\ call' = [call EXCEPT ![c] = x] /\ IsCall(x) /\ x.pc = "execute"
                 /\ x.kind = call[c].kind /\ x.names = call[c].names
                 /\ x.ok = call[c].ok /\ x.taken = call[c].taken
    <3>1. PICK x : x = [call[c] EXCEPT !.pc = "execute"] /\ call' = [call EXCEPT ![c] = x]
      BY <2>1
    <3>2. IsCall(call[c])
      BY DEF TurnInv, Shape
    <3>3. /\ DOMAIN x = CallFields /\ x.pc = "execute"
          /\ x.kind = call[c].kind /\ x.names = call[c].names
          /\ x.ok = call[c].ok /\ x.taken = call[c].taken
      BY <3>1, <3>2 DEF IsCall, CallFields
    <3>4. QED
      BY <3>1, <3>2, <3>3 DEF IsCall
  <2>4. \A d \in Calls : call'[d] = IF d = c THEN x ELSE call[d]
    BY <2>3 DEF TurnInv, Shape
  <2>5. call[c].kind = "resume" /\ ~call[c].ok /\ call[c].taken = {} /\ c \notin bridge.artifacts
    BY <1>0 DEF TurnInv, CallsInv, CallInv
  <2>6. CallsInv'
    <3>1. CallInv(c)'
      BY <1>0, <2>3, <2>4, <2>5 DEF CallInv
    <3>2. \A d \in Calls \ {c} : appr[d] = "none" => appr'[d] = "none"
      BY <1>2, <2>2 DEF Approvals
    <3>3. bridge'.artifacts \subseteq bridge.artifacts \cup {c}
      BY <1>0
    <3>4. QED
      BY <2>3, <3>1, <3>2, <3>3, CallsMove
  <2>7. ApprovalsInv'
    <3>1. ran[q] = 0 /\ \A d \in Calls : ~Executing(d, q)
      BY <1>2, <2>0 DEF TurnInv, ApprovalsInv, OnceInv
    <3>2. \A d \in Calls, p \in Approvals : Executing(d, p)' <=> (Executing(d, p) \/ (d = c /\ p = q))
      BY <1>0, <2>3, <2>4, <2>5 DEF Executing
    <3>3. ASSUME NEW p \in Approvals PROVE OnceInv(p)'
      <4>1. CASE p = q
        BY <1>0, <2>2, <3>1, <3>2, <4>1 DEF OnceInv
      <4>2. CASE p # q
        BY <1>0, <2>2, <3>2, <4>2 DEF TurnInv, ApprovalsInv, OnceInv
      <4>3. QED
        BY <4>1, <4>2
    <3>4. QED
      BY <3>3 DEF ApprovalsInv
  <2>8. OutInv'
    BY <1>0, <2>4, OutBusy DEF TurnInv, Shape
  <2>9. ASSUME Sound, runner.result = "none", NEW d \in Calls, Made(d)' PROVE Located(d)'
    <3>1. Made(d)
      BY <2>3, <2>4, <2>9 DEF Made
    <3>2. Located(d)
      BY <2>9, <3>1 DEF TurnInv, FilesInv
    <3>3. QED
      BY <1>0, <2>3, <2>4, <3>2 DEF Located
  <2>10. /\ DOMAIN proc' = ProcFields /\ proc'.out \in Seq(Messages)
         /\ proc'.alive = proc.alive /\ proc'.request = proc.request /\ proc'.turn = proc.turn
         /\ DOMAIN sess' = SessFields /\ sess'.events \in Seq(EventSet)
         /\ sess'.closed = sess.closed /\ sess'.err = sess.err
         /\ bridge'.artifacts \subseteq Calls
         /\ DOMAIN ran' = Approvals /\ \A p \in Approvals : ran'[p] \in Nat
    BY <1>0 DEF TurnInv, Shape
  <2>11. Sound /\ runner.result = "none" => bridge'.scope
    BY <1>0, BusyFacts
  <2>12. call[c].pc \notin {"none", "done"} /\ UNCHANGED <<runner, fwd, shutdown>> /\ job' \in {job, "waiting"}
    BY <1>0
  <2>13. Shape' /\ ServerInv' /\ ForwardInv' /\ FilesInv'
    <3> HIDE DEF q
    <3>1. QED
      BY <1>a, <2>2, <2>3, <2>9, <2>10, <2>11, <2>12, BusyStep
  <2>14. QED
    BY <2>6, <2>7, <2>8, <2>13 DEF TurnInv
<1>3. QED
  BY <1>1, <1>2

\* The action is run, and its image kept with the bridge.
LEMMA executeInv ==
  ASSUME TurnInv, NEW c \in Calls, execute(c) PROVE TurnInv'
<1> DEFINE q == call[c].names
<1>0. /\ call[c].pc = "execute" /\ UNCHANGED <<job, appr, shutdown, runner, sess, cli, proc, fwd>>
      /\ ran' = IF call[c].kind = "resume" THEN [ran EXCEPT ![q] = @ + 1] ELSE ran
  BY DEF execute
<1>1. PICK ok \in BOOLEAN :
        /\ call' = [call EXCEPT ![c] = [@ EXCEPT !.pc = "answered", !.ok = ok]]
        /\ bridge' = [bridge EXCEPT !.artifacts = IF ok /\ call[c].kind = "image" THEN @ \cup {c} ELSE @]
  BY DEF execute, keepArtifact, Imaging
<1>2. q \in Approvals
  BY DEF TurnInv, Shape, IsCall
<1>3. PICK x : /\ call' = [call EXCEPT ![c] = x] /\ IsCall(x) /\ x.pc = "answered"
               /\ x.kind = call[c].kind /\ x.names = call[c].names
               /\ x.ok = ok /\ x.taken = call[c].taken
  <2>1. PICK x : x = [call[c] EXCEPT !.pc = "answered", !.ok = ok] /\ call' = [call EXCEPT ![c] = x]
    BY <1>1
  <2>2. IsCall(call[c])
    BY DEF TurnInv, Shape
  <2>3. /\ DOMAIN x = CallFields /\ x.pc = "answered"
        /\ x.kind = call[c].kind /\ x.names = call[c].names
        /\ x.ok = ok /\ x.taken = call[c].taken
    BY <2>1, <2>2 DEF IsCall, CallFields
  <2>4. QED
    BY <2>1, <2>2, <2>3 DEF IsCall
<1>4. \A d \in Calls : call'[d] = IF d = c THEN x ELSE call[d]
  BY <1>3 DEF TurnInv, Shape
<1>5. /\ call[c].kind \in {"resume", "image"} /\ ~call[c].ok /\ call[c].taken = {} /\ c \notin bridge.artifacts
  BY <1>0 DEF TurnInv, CallsInv, CallInv
<1>6. /\ DOMAIN bridge' = BridgeFields /\ bridge'.scope = bridge.scope
      /\ bridge'.artifacts = IF ok /\ call[c].kind = "image" THEN bridge.artifacts \cup {c} ELSE bridge.artifacts
  BY <1>1 DEF TurnInv, Shape, BridgeFields
<1>7. bridge'.artifacts \subseteq Calls /\ bridge'.artifacts \subseteq bridge.artifacts \cup {c}
  BY <1>6 DEF TurnInv, Shape
<1>8. DOMAIN ran' = Approvals /\ \A p \in Approvals : ran'[p] = IF call[c].kind = "resume" /\ p = q THEN ran[p] + 1 ELSE ran[p]
  BY <1>0, <1>2 DEF TurnInv, Shape
<1>9. \A p \in Approvals : ran'[p] \in Nat
  BY <1>8 DEF TurnInv, Shape
<1>10. CallsInv'
  <2>1. CallInv(c)'
    BY <1>0, <1>3, <1>4, <1>5, <1>6 DEF CallInv
  <2>2. QED
    BY <1>0, <1>3, <1>7, <2>1, CallsMove
<1>11. ApprovalsInv'
  <2>1. ASSUME NEW p \in Approvals PROVE OnceInv(p)'
    <3>1. \A d \in Calls : Executing(d, p)' <=> (Executing(d, p) /\ d # c)
      BY <1>3, <1>4 DEF Executing
    <3>2. CASE call[c].kind = "resume" /\ p = q
      <4>1. Executing(c, p)
        BY <1>0, <3>2 DEF Executing
      <4>2. ran[p] = 0 /\ appr[p] = "consumed" /\ \A d \in Calls : Executing(d, p) => d = c
        BY <4>1 DEF TurnInv, ApprovalsInv, OnceInv
      <4>3. ran'[p] = 1
        BY <1>8, <3>2, <4>2
      <4>4. QED
        BY <1>0, <3>1, <4>2, <4>3 DEF OnceInv
    <3>3. CASE ~(call[c].kind = "resume" /\ p = q)
      <4>1. ran'[p] = ran[p]
        BY <1>8, <3>3
      <4>2. QED
        BY <1>0, <3>1, <4>1 DEF TurnInv, ApprovalsInv, OnceInv
    <3>4. QED
      BY <3>2, <3>3
  <2>2. QED
    BY <2>1 DEF ApprovalsInv
<1>12. OutInv'
  BY <1>0, <1>4, OutBusy DEF TurnInv, Shape
<1>13. ASSUME Sound, runner.result = "none", NEW d \in Calls, Made(d)' PROVE Located(d)'
  <2>1. CASE d = c
    <3>1. ok /\ call[c].kind = "image"
      BY <1>3, <1>4, <1>13, <2>1 DEF Made
    <3>2. QED
      BY <1>6, <2>1, <3>1 DEF Located
  <2>2. CASE d # c
    <3>1. Made(d)
      BY <1>4, <1>13, <2>2 DEF Made
    <3>2. Located(d)
      BY <1>13, <3>1 DEF TurnInv, FilesInv
    <3>3. QED
      BY <1>0, <1>3, <1>4, <1>6, <3>2 DEF Located
  <2>3. QED
    BY <2>1, <2>2
<1>14. /\ DOMAIN proc' = ProcFields /\ proc'.out \in Seq(Messages)
       /\ proc'.alive = proc.alive /\ proc'.request = proc.request /\ proc'.turn = proc.turn
       /\ DOMAIN sess' = SessFields /\ sess'.events \in Seq(EventSet)
       /\ sess'.closed = sess.closed /\ sess'.err = sess.err
       /\ DOMAIN appr' = Approvals
  BY <1>0 DEF TurnInv, Shape
<1>15. Sound /\ runner.result = "none" => bridge'.scope
  BY <1>0, <1>6, BusyFacts
<1>16. call[c].pc \notin {"none", "done"} /\ UNCHANGED <<runner, fwd, shutdown>> /\ job' \in {job, "waiting"}
  BY <1>0
<1>17. Shape' /\ ServerInv' /\ ForwardInv' /\ FilesInv'
  BY <1>3, <1>6, <1>7, <1>8, <1>9, <1>13, <1>14, <1>15, <1>16, BusyStep
<1>18. QED
  BY <1>10, <1>11, <1>12, <1>17 DEF TurnInv

\* The worker takes the artifacts of the attempt over from the bridge.
LEMMA TakeArtifactsInv ==
  ASSUME TurnInv, NEW c \in Calls, TakeArtifacts(c) PROVE TurnInv'
<1>0. /\ call[c].pc = "answered" /\ emit(<<"status">>)
      /\ UNCHANGED <<job, appr, ran, shutdown, runner, cli, proc, fwd>>
  BY DEF TakeArtifacts, recordVars
<1>1. /\ DOMAIN sess' = SessFields /\ sess'.events \in Seq(EventSet)
      /\ sess'.closed = sess.closed /\ sess'.err = sess.err
      /\ \A d : Holds(sess.events, d) => Holds(sess'.events, d)
  BY <1>0, EmitFacts DEF TurnInv, EventSet
<1>2. CASE ~call[c].ok
  <2>1. call' = [call EXCEPT ![c].pc = "done"] /\ UNCHANGED bridge
    BY <1>2 DEF TakeArtifacts, Step
  <2>2. PICK x : /\ call' = [call EXCEPT ![c] = x] /\ IsCall(x) /\ x.pc = "done"
                 /\ x.kind = call[c].kind /\ x.names = call[c].names
                 /\ x.ok = call[c].ok /\ x.taken = call[c].taken
    <3>1. PICK x : x = [call[c] EXCEPT !.pc = "done"] /\ call' = [call EXCEPT ![c] = x]
      BY <2>1
    <3>2. IsCall(call[c])
      BY DEF TurnInv, Shape
    <3>3. /\ DOMAIN x = CallFields /\ x.pc = "done"
          /\ x.kind = call[c].kind /\ x.names = call[c].names
          /\ x.ok = call[c].ok /\ x.taken = call[c].taken
      BY <3>1, <3>2 DEF IsCall, CallFields
    <3>4. QED
      BY <3>1, <3>2, <3>3 DEF IsCall
  <2>3. call'[c] = x /\ DOMAIN bridge' = BridgeFields
    BY <2>1, <2>2 DEF TurnInv, Shape
  <2>4. CallInv(c)'
    BY <1>0, <1>2, <2>1, <2>2, <2>3 DEF TurnInv, CallsInv, CallInv
  <2>5. QED
    BY <1>0, <1>1, <2>1, <2>2, <2>3, <2>4, SameApprovals, SameBridge, PlainStep
<1>3. CASE call[c].ok
  <2> DEFINE files == bridge.artifacts
  <2>1. /\ call' = [call EXCEPT ![c] = [@ EXCEPT !.pc = afterTake(files), !.taken = files]]
        /\ bridge' = [bridge EXCEPT !.artifacts = {}]
    BY <1>3 DEF TakeArtifacts
  <2>2. PICK x : /\ call' = [call EXCEPT ![c] = x] /\ IsCall(x) /\ x.pc = afterTake(files)
                 /\ x.kind = call[c].kind /\ x.names = call[c].names
                 /\ x.ok = call[c].ok /\ x.taken = files
    <3>1. PICK x : x = [call[c] EXCEPT !.pc = afterTake(files), !.taken = files] /\ call' = [call EXCEPT ![c] = x]
      BY <2>1
    <3>2. IsCall(call[c]) /\ files \subseteq Calls
      BY DEF TurnInv, Shape
    <3>3. /\ DOMAIN x = CallFields /\ x.pc = afterTake(files)
          /\ x.kind = call[c].kind /\ x.names = call[c].names
          /\ x.ok = call[c].ok /\ x.taken = files
      BY <3>1, <3>2 DEF IsCall, CallFields
    <3>4. QED
      BY <3>1, <3>2, <3>3 DEF IsCall
  <2>3. \A d \in Calls : call'[d] = IF d = c THEN x ELSE call[d]
    BY <2>2 DEF TurnInv, Shape
  <2>4. DOMAIN bridge' = BridgeFields /\ bridge'.scope = bridge.scope /\ bridge'.artifacts = {}
    BY <2>1 DEF TurnInv, Shape, BridgeFields
  <2>5. x.pc = (IF files = {} THEN "done" ELSE "files")
    BY <2>2 DEF afterTake
  <2>6. call[c].taken = {} /\ (call[c].kind # "none")
    BY <1>0 DEF TurnInv, CallsInv, CallInv
  <2>7. CallsInv'
    <3>1. CallInv(c)'
      BY <1>0, <2>2, <2>3, <2>4, <2>5, <2>6 DEF CallInv
    <3>2. QED
      BY <1>0, <2>2, <2>4, <3>1, CallsMove
  <2>8. ApprovalsInv'
    BY <1>0, <2>2, <2>5, ApprovalsMove
  <2>9. OutInv'
    BY <1>0, <2>3, OutBusy DEF TurnInv, Shape
  <2>10. ASSUME Sound, runner.result = "none", NEW d \in Calls, Made(d)' PROVE Located(d)'
    <3>1. Made(d)
      BY <2>2, <2>3, <2>10 DEF Made
    <3>2. Located(d)
      BY <2>10, <3>1 DEF TurnInv, FilesInv
    <3>3. CASE d \in bridge.artifacts
      BY <2>2, <2>3, <3>3 DEF Located
    <3>4. CASE \E e \in Calls : d \in call[e].taken
      BY <2>3, <2>6, <3>4 DEF Located
    <3>5. CASE Holds(sess.events, d) \/ fwd.event = <<"file", d>> \/ d \in runner.files
      BY <1>0, <1>1, <3>5 DEF Located
    <3>6. QED
      BY <3>2, <3>3, <3>4, <3>5 DEF Located
  <2>11. /\ DOMAIN proc' = ProcFields /\ proc'.out \in Seq(Messages)
         /\ proc'.alive = proc.alive /\ proc'.request = proc.request /\ proc'.turn = proc.turn
         /\ bridge'.artifacts \subseteq Calls /\ DOMAIN appr' = Approvals
         /\ DOMAIN ran' = Approvals /\ \A p \in Approvals : ran'[p] \in Nat
    BY <1>0, <2>4 DEF TurnInv, Shape
  <2>12. Sound /\ runner.result = "none" => bridge'.scope
    BY <1>0, <2>4, BusyFacts
  <2>13. call[c].pc \notin {"none", "done"} /\ UNCHANGED <<runner, fwd, shutdown>> /\ job' \in {job, "waiting"}
    BY <1>0
  <2>14. Shape' /\ ServerInv' /\ ForwardInv' /\ FilesInv'
    BY <1>1, <2>2, <2>4, <2>10, <2>11, <2>12, <2>13, BusyStep
  <2>15. QED
    BY <2>7, <2>8, <2>9, <2>14 DEF TurnInv
<1>4. QED
  BY <1>2, <1>3

\* The worker puts one file into the buffer of the session.
LEMMA emitFileInv ==
  ASSUME TurnInv, NEW c \in Calls, emitFile(c) PROVE TurnInv'
<1>0. PICK f \in call[c].taken :
        LET rest == call[c].taken \ {f}
        IN  /\ emit(<<"file", f>>)
            /\ call' = [call EXCEPT ![c] = [@ EXCEPT !.taken = rest, !.pc = afterTake(rest)]]
  BY DEF emitFile
<1>a. UNCHANGED <<job, appr, ran, shutdown, runner, cli, proc, fwd, bridge>>
  BY DEF emitFile, recordVars
<1> DEFINE rest == call[c].taken \ {f}
<1>1. f \in Calls /\ call[c].pc = "files" /\ c \notin bridge.artifacts /\ call[c].kind # "none"
  BY DEF TurnInv, Shape, IsCall, CallsInv, CallInv
<1>2. /\ DOMAIN sess' = SessFields /\ sess'.events \in Seq(EventSet)
      /\ sess'.closed = sess.closed /\ sess'.err = sess.err
      /\ \A d : Holds(sess.events, d) => Holds(sess'.events, d)
      /\ ~sess.closed => Holds(sess'.events, f)
  <2>1. <<"file", f>> \in EventSet
    BY <1>1 DEF EventSet
  <2>2. QED
    BY <1>0, <2>1, EmitFacts DEF TurnInv
<1>3. PICK x : /\ call' = [call EXCEPT ![c] = x] /\ IsCall(x) /\ x.pc = afterTake(rest)
               /\ x.kind = call[c].kind /\ x.names = call[c].names
               /\ x.ok = call[c].ok /\ x.taken = rest
  <2>1. PICK x : x = [call[c] EXCEPT !.taken = rest, !.pc = afterTake(rest)] /\ call' = [call EXCEPT ![c] = x]
    BY <1>0
  <2>2. IsCall(call[c])
    BY DEF TurnInv, Shape
  <2>3. /\ DOMAIN x = CallFields /\ x.pc = afterTake(rest)
        /\ x.kind = call[c].kind /\ x.names = call[c].names
        /\ x.ok = call[c].ok /\ x.taken = rest
    BY <2>1, <2>2 DEF IsCall, CallFields
  <2>4. QED
    BY <2>1, <2>2, <2>3 DEF IsCall
<1>4. \A d \in Calls : call'[d] = IF d = c THEN x ELSE call[d]
  BY <1>3 DEF TurnInv, Shape
<1>5. x.pc = (IF rest = {} THEN "done" ELSE "files")
  BY <1>3 DEF afterTake
<1>6. CallsInv'
  <2>1. CallInv(c)'
    BY <1>a, <1>1, <1>3, <1>4, <1>5 DEF CallInv
  <2>2. QED
    BY <1>a, <1>3, <2>1, CallsMove
<1>7. ApprovalsInv'
  BY <1>a, <1>3, <1>5, ApprovalsMove
<1>8. OutInv'
  BY <1>a, <1>1, <1>4, OutBusy DEF TurnInv, Shape
<1>9. ASSUME Sound, runner.result = "none", NEW d \in Calls, Made(d)' PROVE Located(d)'
  <2>1. Made(d)
    BY <1>3, <1>4, <1>9 DEF Made
  <2>2. Located(d)
    BY <1>9, <2>1 DEF TurnInv, FilesInv
  <2>3. CASE \E e \in Calls : d \in call[e].taken
    <3>1. CASE d = f
      <4>1. ~sess.closed
        BY <1>1, <1>9, BusyFacts
      <4>2. QED
        BY <1>2, <3>1, <4>1 DEF Located
    <3>2. CASE d # f
      BY <1>3, <1>4, <2>3, <3>2 DEF Located
    <3>3. QED
      BY <3>1, <3>2
  <2>4. CASE d \in bridge.artifacts \/ Holds(sess.events, d) \/ fwd.event = <<"file", d>> \/ d \in runner.files
    BY <1>a, <1>2, <2>4 DEF Located
  <2>5. QED
    BY <2>2, <2>3, <2>4 DEF Located
<1>10. /\ DOMAIN proc' = ProcFields /\ proc'.out \in Seq(Messages)
       /\ proc'.alive = proc.alive /\ proc'.request = proc.request /\ proc'.turn = proc.turn
       /\ DOMAIN bridge' = BridgeFields /\ bridge'.artifacts \subseteq Calls /\ DOMAIN appr' = Approvals
       /\ DOMAIN ran' = Approvals /\ \A p \in Approvals : ran'[p] \in Nat
  BY <1>a DEF TurnInv, Shape
<1>11. Sound /\ runner.result = "none" => bridge'.scope
  BY <1>a, <1>1, BusyFacts
<1>12. call[c].pc \notin {"none", "done"} /\ UNCHANGED <<runner, fwd, shutdown>> /\ job' \in {job, "waiting"}
  BY <1>a, <1>1
<1>13. Shape' /\ ServerInv' /\ ForwardInv' /\ FilesInv'
  BY <1>2, <1>3, <1>9, <1>10, <1>11, <1>12, BusyStep
<1>14. QED
  BY <1>6, <1>7, <1>8, <1>13 DEF TurnInv

\* The read loop starts the goroutine of a tool call.
LEMMA handleServerRequestInv ==
  ASSUME TurnInv, handleServerRequest PROVE TurnInv'
<1>c. PICK c : c = Head1[2]
  OBVIOUS
<1>0. /\ Head1[1] = "call" /\ proc.out # <<>> /\ call' = [call EXCEPT ![c].pc = "prepare"]
      /\ UNCHANGED <<job, appr, ran, shutdown, runner, sess, cli, fwd, bridge>>
  BY <1>c DEF handleServerRequest, Reading, recordVars
<1>1. /\ DOMAIN proc' = ProcFields /\ proc'.out = Tail(proc.out)
      /\ proc'.alive = proc.alive /\ proc'.request = proc.request /\ proc'.turn = proc.turn
  BY DEF TurnInv, Shape, ProcFields, handleServerRequest, Reading
<1>2. c \in Calls /\ call[c].pc = "said"
  BY <1>c, <1>0, HeadFacts, CallMessage DEF TurnInv, Shape
<1>3. OutInv' /\ proc'.out \in Seq(Messages)
  BY <1>0, <1>1, OutTail DEF TurnInv, Shape
<1>4. PICK x : /\ call' = [call EXCEPT ![c] = x] /\ IsCall(x) /\ x.pc = "prepare"
               /\ x.kind = call[c].kind /\ x.names = call[c].names
               /\ x.ok = call[c].ok /\ x.taken = call[c].taken
  <2>1. PICK x : x = [call[c] EXCEPT !.pc = "prepare"] /\ call' = [call EXCEPT ![c] = x]
    BY <1>0
  <2>2. IsCall(call[c])
    BY <1>2 DEF TurnInv, Shape
  <2>3. /\ DOMAIN x = CallFields /\ x.pc = "prepare"
        /\ x.kind = call[c].kind /\ x.names = call[c].names
        /\ x.ok = call[c].ok /\ x.taken = call[c].taken
    BY <2>1, <2>2 DEF IsCall, CallFields
  <2>4. QED
    BY <2>1, <2>2, <2>3 DEF IsCall
<1>5. \A d \in Calls : call'[d] = IF d = c THEN x ELSE call[d]
  BY <1>2, <1>4 DEF TurnInv, Shape
<1>6. CallsInv' /\ ApprovalsInv'
  <2>1. CallInv(c)'
    BY <1>0, <1>2, <1>4, <1>5 DEF TurnInv, CallsInv, CallInv
  <2>2. CallsInv'
    BY <1>0, <1>2, <1>4, <2>1, CallsMove
  <2>3. QED
    BY <1>0, <1>2, <1>4, <2>2, ApprovalsMove
<1>7. ASSUME Sound, runner.result = "none", NEW d \in Calls, Made(d)' PROVE Located(d)'
  <2>1. Made(d)
    BY <1>4, <1>5, <1>7 DEF Made
  <2>2. Located(d)
    BY <1>7, <2>1 DEF TurnInv, FilesInv
  <2>3. QED
    BY <1>0, <1>4, <1>5, <2>2 DEF Located
<1>8. /\ DOMAIN sess' = SessFields /\ sess'.events \in Seq(EventSet)
      /\ sess'.closed = sess.closed /\ sess'.err = sess.err
      /\ DOMAIN bridge' = BridgeFields /\ bridge'.artifacts \subseteq Calls /\ DOMAIN appr' = Approvals
      /\ DOMAIN ran' = Approvals /\ \A p \in Approvals : ran'[p] \in Nat
  BY <1>0 DEF TurnInv, Shape
<1>9. Sound /\ runner.result = "none" => bridge'.scope
  BY <1>0, <1>2, BusyFacts
<1>10. call[c].pc \notin {"none", "done"} /\ UNCHANGED <<runner, fwd, shutdown>> /\ job' \in {job, "waiting"}
  BY <1>0, <1>2
<1>11. Shape' /\ ServerInv' /\ ForwardInv' /\ FilesInv'
  BY <1>1, <1>2, <1>3, <1>4, <1>7, <1>8, <1>9, <1>10, BusyStep
<1>12. QED
  BY <1>3, <1>6, <1>11 DEF TurnInv

\* The app server calls a tool.
LEMMA ServerCallsInv ==
  ASSUME TurnInv, NEW c \in Calls, ServerCalls(c) PROVE TurnInv'
<1>0. PICK p \in Approvals : call' = [call EXCEPT ![c] = [@ EXCEPT !.pc = "said", !.names = p]]
  BY DEF ServerCalls
<1>1. /\ proc.alive /\ proc.turn = "running" /\ proc.out = <<>> /\ call[c].pc = "none" /\ call[c].kind # "none"
      /\ UNCHANGED <<job, appr, ran, shutdown, runner, sess, cli, fwd, bridge>>
  BY DEF ServerCalls, Speaking, recordVars
<1>2. /\ DOMAIN proc' = ProcFields /\ proc'.out = Append(<<>>, <<"call", c>>)
      /\ proc'.alive = proc.alive /\ proc'.request = proc.request /\ proc'.turn = proc.turn
  BY <1>1 DEF TurnInv, Shape, ProcFields, ServerCalls, Say
<1>3. PICK x : /\ call' = [call EXCEPT ![c] = x] /\ IsCall(x) /\ x.pc = "said"
               /\ x.kind = call[c].kind /\ x.names = p
               /\ x.ok = call[c].ok /\ x.taken = call[c].taken
  <2>1. PICK x : x = [call[c] EXCEPT !.pc = "said", !.names = p] /\ call' = [call EXCEPT ![c] = x]
    BY <1>0
  <2>2. IsCall(call[c])
    BY DEF TurnInv, Shape
  <2>3. /\ DOMAIN x = CallFields /\ x.pc = "said"
        /\ x.kind = call[c].kind /\ x.names = p
        /\ x.ok = call[c].ok /\ x.taken = call[c].taken
    BY <2>1, <2>2 DEF IsCall, CallFields
  <2>4. QED
    BY <2>1, <2>2, <2>3 DEF IsCall
<1>4. DOMAIN call' = Calls /\ \A d \in Calls : call'[d] = IF d = c THEN x ELSE call[d]
  BY <1>3 DEF TurnInv, Shape
<1>5. CallsInv' /\ ApprovalsInv'
  <2>1. CallInv(c)'
    BY <1>1, <1>3, <1>4 DEF TurnInv, CallsInv, CallInv
  <2>2. CallsInv'
    BY <1>1, <1>3, <2>1, CallsMove
  <2>3. QED
    BY <1>1, <1>3, <2>2, ApprovalsMove
<1>6. OutInv' /\ proc'.out \in Seq(Messages)
  <2>1. <<"call", c>> \in Messages
    BY DEF Messages
  <2>2. /\ proc'.out \in Seq(Messages) /\ Len(proc'.out) = 1 /\ proc'.out[1] = <<"call", c>>
    BY <1>2, <2>1
  <2>3. \A i \in 1 .. Len(proc'.out) : i = 1
    BY <2>2
  <2>4. QED
    BY <1>3, <1>4, <2>2, <2>3 DEF OutInv
<1>7. Shape'
  BY <1>1, <1>2, <1>3, <1>4, <1>6 DEF TurnInv, Shape
<1>8. runner.pc \notin Before /\ ~Over
  BY <1>1 DEF TurnInv, ServerInv, Over
<1>9. ServerInv' /\ ForwardInv'
  BY <1>1, <1>2, <1>8 DEF TurnInv, ServerInv, ForwardInv
<1>10. FilesInv'
  <2>1. ~(Sound /\ runner.result = "none" /\ sess.closed)
        /\ ~(Sound /\ runner.pc = "loop" /\ fwd.pc \in {"terminate", "kill", "closed"})
        /\ ~(~shutdown /\ job \in {"running", "done"} /\ runner.result = "ok") /\ job # "done"
    BY <1>8 DEF TurnInv, FilesInv
  <2>2. Sound' <=> Sound
    BY <1>1 DEF Sound
  <2>3. ASSUME Sound, runner.result = "none", NEW d \in Calls, Made(d)' PROVE Located(d)'
    <3>1. Made(d)
      BY <1>3, <1>4, <2>3 DEF Made
    <3>2. Located(d)
      BY <2>3, <3>1 DEF TurnInv, FilesInv
    <3>3. QED
      BY <1>1, <1>3, <1>4, <3>2 DEF Located
  <2>4. Sound /\ runner.pc \in Open /\ fwd.pc # "closed" => bridge.scope
    BY DEF TurnInv, FilesInv
  <2>5. QED
    BY <1>1, <2>1, <2>2, <2>3, <2>4 DEF FilesInv
<1>11. QED
  BY <1>5, <1>6, <1>7, <1>9, <1>10 DEF TurnInv

\* Somebody approves.
LEMMA ApproveInv ==
  ASSUME TurnInv, NEW p \in Approvals, Approve(p) PROVE TurnInv'
<1>1. /\ appr[p] = "pending" /\ appr' = [appr EXCEPT ![p] = "approved"]
      /\ job' = (IF job = "waiting" THEN "lost" ELSE job)
      /\ UNCHANGED <<runner, sess, cli, proc, fwd, call, bridge, ran, shutdown>>
  BY DEF Approve
<1>2. DOMAIN appr' = Approvals /\ \A q \in Approvals : appr'[q] = IF q = p THEN "approved" ELSE appr[q]
  BY <1>1 DEF TurnInv, Shape
<1>3. Shape'
  BY <1>1, <1>2 DEF TurnInv, Shape
<1>4. OutInv'
  BY <1>1, OutFrame DEF TurnInv
<1>5. CallsInv'
  <2>1. \A c \in Calls : appr[c] = "none" => appr'[c] = "none"
    BY <1>1, <1>2 DEF Approvals
  <2>2. QED
    BY <1>1, <2>1 DEF TurnInv, CallsInv, CallInv
<1>6. ApprovalsInv'
  BY <1>1, <1>2 DEF TurnInv, ApprovalsInv, OnceInv, Executing
<1>7. ServerInv' /\ ForwardInv'
  BY <1>1 DEF TurnInv, ServerInv, ForwardInv
<1>8. FilesInv'
  BY <1>1 DEF TurnInv, FilesInv, Sound, Over, CallsAnswered, AllTaken, Made, Located
<1>9. QED
  BY <1>3, <1>4, <1>5, <1>6, <1>7, <1>8 DEF TurnInv

(***************************************************************************)
(* The invariant holds, and what it says.                                  *)
(***************************************************************************)
\* Nothing has been started and nothing made.
LEMMA TurnInitInv == TurnInit => TurnInv
<1> SUFFICES ASSUME TurnInit PROVE TurnInv
  OBVIOUS
<1>0. PICK plan \in Plans :
        /\ call = [c \in Calls |-> NoCall(plan[c])]
        /\ appr = [p \in Approvals |->
                     IF p = Earlier /\ \E c \in Calls : plan[c] = "resume" THEN "approved" ELSE "none"]
  BY DEF TurnInit
<1>1. \A c \in Calls : /\ IsCall(call[c]) /\ call[c].pc = "none" /\ ~call[c].ok /\ call[c].taken = {}
  BY <1>0, PlansAssumption DEF NoCall, IsCall, CallFields, CallKinds, Approvals
<1>2. \A p \in Approvals : appr[p] \in {"approved", "none"} /\ (p \in Calls => appr[p] = "none")
  BY <1>0, CallsAssumption
<1>3. Shape
  BY <1>0, <1>1 DEF TurnInit, Shape, RunnerFields, SessFields, ProcFields, FwdFields,
     BridgeFields
<1>4. OutInv
  BY DEF TurnInit, OutInv
<1>5. ServerInv
  BY <1>1 DEF TurnInit, ServerInv, Before, Ending
<1>6. CallsInv
  BY <1>1, <1>2 DEF TurnInit, CallsInv, CallInv, Approvals
<1>7. ApprovalsInv
  BY <1>1, <1>2 DEF TurnInit, ApprovalsInv, OnceInv, Executing
<1>8. ForwardInv
  BY DEF TurnInit, ForwardInv
<1>9. FilesInv
  BY <1>1 DEF TurnInit, FilesInv, Made, Open
<1>10. QED
  BY <1>3, <1>4, <1>5, <1>6, <1>7, <1>8, <1>9 DEF TurnInv

\* Every step of runHarness preserves the invariant.
LEMMA RunHarnessInv == TurnInv /\ runHarness => TurnInv'
  BY StartHarnessInv, ProvisionInv, InitializeInv, InitializeFailsInv, RegisterInv,
     ThreadStartInv, TurnStartInv, PromptFailsInv, EventsInv, ReceiveEventInv,
     ReceiveErrorInv, LoopEndsInv, LoopRevokedInv, AbortInv, InterruptInv,
     InterruptedInv, RunnerTerminatesInv, VerdictInv DEF runHarness

\* Every step of the read loop does.
LEMMA ReadLoopInv == TurnInv /\ readLoop => TurnInv'
  BY handleResponseInv, notificationInv, turnCompletedInv, handleServerRequestInv,
     readLoopEndsInv DEF readLoop

\* Every step of the forwarder does.
LEMMA ForwarderInv == TurnInv /\ forwarder => TurnInv'
  BY ForwardTakeInv, ForwardErrorInv, ForwardDrainInv, ForwarderTerminatesInv DEF forwarder

\* Every step of the app server does.
LEMMA AppServerInv == TurnInv /\ server => TurnInv'
  BY ServerAnswersInv, ServerSpeaksInv, ServerEndsInv, ServerDiesInv, ServerCallsInv DEF
     server

\* Every step of a tool call does.
LEMMA ToolCallInv == ASSUME TurnInv, NEW c \in Calls, toolCall(c) PROVE TurnInv'
  BY prepareToolInvocationInv, authorizeInv, requestApprovalInv, suspendAndNotifyInv,
     consumeInv, RefusedInv, executeInv, TakeArtifactsInv, emitFileInv DEF toolCall

\* A step that changes nothing does.
LEMMA TurnStutter == TurnInv /\ UNCHANGED turnVars => TurnInv'
<1> SUFFICES ASSUME TurnInv, UNCHANGED turnVars PROVE TurnInv'
  OBVIOUS
<1>0. UNCHANGED <<job, appr, runner, sess, cli, proc, fwd, call, bridge, ran, shutdown>>
  BY DEF turnVars
<1>1. Shape' /\ OutInv' /\ CallsInv' /\ ApprovalsInv'
  BY <1>0 DEF TurnInv, Shape, IsCall, OutInv, CallsAnswered, CallsInv, CallInv,
              ApprovalsInv, OnceInv, Executing
<1>2. ServerInv' /\ ForwardInv'
  BY <1>0 DEF TurnInv, ServerInv, ForwardInv
<1>3. FilesInv'
  BY <1>0 DEF TurnInv, FilesInv, Sound, Over, CallsAnswered, AllTaken, Made, Located, Holds
<1>4. QED
  BY <1>1, <1>2, <1>3 DEF TurnInv

\* TurnInv holds in every state of a turn, whatever the order of its goroutines.
LEMMA TurnInvariant == TurnSpec => []TurnInv
<1>1. TurnInv /\ [TurnNext]_turnVars => TurnInv'
  BY RunHarnessInv, ReadLoopInv, ForwarderInv, AppServerInv, ToolCallInv, ApproveInv,
     LoseJobInv, ShutdownInv, TurnStutter DEF TurnNext
<1>2. QED
  BY <1>1, TurnInitInv, PTL DEF TurnSpec

\* An approved action is executed at most once in a turn, for any number of calls
\* that present its approval at a time (Bridge.serve, ConsumeContext).
THEOREM ApprovedExecutedOnce == TurnSpec => []ApprovedOnce
<1>1. TurnInv => ApprovedOnce
  BY DEF TurnInv, ApprovalsInv, OnceInv, ApprovedOnce
<1>2. QED
  BY <1>1, TurnInvariant, PTL

\* A job that is done has every file its successful calls made, for any number of
\* calls and any capacity of the session (serverRequest, Events, runHarness).
THEOREM FilesReturned == TurnSpec => []FilesWithAnswer
<1>1. TurnInv => FilesWithAnswer
  BY DEF TurnInv, FilesInv, AllTaken, Made, FilesWithAnswer, Imaging
<1>2. QED
  BY <1>1, TurnInvariant, PTL

=============================================================================
