------------------------------- MODULE Delivery -------------------------------
(***************************************************************************)
(* Slack delivery: the deliveries queue (core/deliveries), the loop that   *)
(* drains it (processOneDelivery) and the Slack transport (LiveDelivery).  *)
(*                                                                         *)
(* A delivery is rendered into files and message parts.  Slack has no      *)
(* idempotent post, so every retry first reads the thread back and skips   *)
(* what carries the delivery's own file names and metadata.  A call to     *)
(* Slack may fail after Slack has accepted it.                             *)
(*                                                                         *)
(* Some deliveries rewrite a message instead of posting one: the resolved  *)
(* approval card replaces the requested one, metadata included.            *)
(***************************************************************************)
EXTENDS Integers, FiniteSets

CONSTANTS Deliveries,    \* delivery records, by idempotency key
          Senders,       \* delivery loops, one per process
          None,          \* no delivery, no sender
          Files,         \* how many files a delivery uploads first
          Items,         \* how many files and parts it has in all
          RewriteOf,     \* the delivery whose message a delivery rewrites, or None
          MaxAttempts,   \* max_attempts of every delivery
          MaxCrashes,    \* bound: how often a sender crashes
          Expiring,      \* the deliveries whose expires_at can be reached
          Stalls         \* whether a sender may outlive its lease

ASSUME ItemsAssumption == Files \in Nat /\ Items \in Nat \ {0} /\ Files < Items
ASSUME AttemptsAssumption == MaxAttempts \in Nat \ {0} /\ MaxCrashes \in Nat
ASSUME RewriteAssumption == RewriteOf \in [Deliveries -> Deliveries \cup {None}]
ASSUME NamesAssumption == None \notin Deliveries \cup Senders
ASSUME ExpiringAssumption == Expiring \subseteq Deliveries /\ Stalls \in BOOLEAN

VARIABLES rec,       \* the deliveries collection
          snd,       \* the senders
          posted,    \* how many messages or files Slack took for each item
          tagged,    \* how many of them still carry the item's metadata
          marked,    \* deliveries whose job was marked completed_undelivered
          crashes

vars == <<rec, snd, posted, tagged, marked, crashes>>
slack == <<posted, tagged>>

Status == {"none", "pending", "leased", "retry_wait", "delivered", "abandoned",
           "deleted"}
NoRecord == [status |-> "none", token |-> None, live |-> FALSE, attempt |-> 0,
             expired |-> FALSE]
IdleSender == [pc |-> "idle", del |-> None, item |-> 0, found |-> {}]

\* A rewrite is one message and no file.
ItemsOf(d) == IF RewriteOf[d] = None THEN 1 .. Items ELSE {Items}
FirstPart(d) == IF RewriteOf[d] = None THEN Files + 1 ELSE Items

Init == /\ rec = [d \in Deliveries |-> NoRecord]
        /\ snd = [s \in Senders |-> IdleSender]
        /\ posted = [d \in Deliveries |-> [i \in 1 .. Items |-> 0]]
        /\ tagged = [d \in Deliveries |-> [i \in 1 .. Items |-> 0]]
        /\ marked = {}
        /\ crashes = 0

GoTo(s, pc) == snd' = [snd EXCEPT ![s].pc = pc]
Return(s) == snd' = [snd EXCEPT ![s] = IdleSender]

(***************************************************************************)
(* The queue.                                                              *)
(***************************************************************************)
\* The unique index makes a second Enqueue return the record that is there.  A
\* rewrite is enqueued by somebody who has seen the message.
Enqueue(d) ==
  /\ rec[d].status = "none"
  /\ RewriteOf[d] # None => posted[RewriteOf[d]][Items] > 0
  /\ rec' = [rec EXCEPT ![d].status = "pending"]
  /\ UNCHANGED <<snd, slack, marked, crashes>>

\* Mutant of RecoverLeases: the lease of a sender that died is never taken back.
RecoverNothing(s) ==
  /\ snd[s].pc = "idle"
  /\ GoTo(s, "sweep")
  /\ UNCHANGED <<rec, slack, marked, crashes>>

\* Claim's first update: leases that ran out go back to pending.
RecoverLeases(s) ==
  /\ snd[s].pc = "idle"
  /\ rec' = [d \in Deliveries |->
               IF rec[d].status = "leased" /\ ~rec[d].live
                 THEN [rec[d] EXCEPT !.status = "pending", !.token = None]
                 ELSE rec[d]]
  /\ GoTo(s, "sweep")
  /\ UNCHANGED <<slack, marked, crashes>>

Waiting(d) == rec[d].status \in {"pending", "retry_wait"}

\* Its second update: records without an attempt left are abandoned.
AbandonExhausted(s) ==
  /\ snd[s].pc = "sweep"
  /\ rec' = [d \in Deliveries |->
               IF Waiting(d) /\ rec[d].attempt >= MaxAttempts
                 THEN [rec[d] EXCEPT !.status = "abandoned"] ELSE rec[d]]
  /\ GoTo(s, "claim")
  /\ UNCHANGED <<slack, marked, crashes>>

Claimable(d) == /\ Waiting(d)
                /\ ~rec[d].expired
                /\ rec[d].attempt < MaxAttempts

\* Its third: one record is leased.  A sender has one lease at a time, so its
\* name stands for the token.
Claim(s) ==
  /\ snd[s].pc = "claim"
  /\ \/ \E d \in Deliveries :
          /\ Claimable(d)
          /\ rec' = [rec EXCEPT ![d].status = "leased", ![d].token = s,
                                ![d].live = TRUE, ![d].attempt = @ + 1]
          /\ snd' = [snd EXCEPT ![s] = [IdleSender EXCEPT !.pc = "gate", !.del = d]]
     \/ /\ \A d \in Deliveries : ~Claimable(d)
        /\ Return(s)
        /\ UNCHANGED rec
  /\ UNCHANGED <<slack, marked, crashes>>

\* updateLeased: status, token and lease of a record that is still the sender's.
Owns(s, d) == /\ rec[d].status = "leased"
              /\ rec[d].token = s
              /\ rec[d].live

Settled(d, status) ==
  [rec EXCEPT ![d] = [@ EXCEPT !.status = status, !.token = None, !.live = FALSE]]

(***************************************************************************)
(* processOneDelivery.                                                     *)
(***************************************************************************)
\* The output channel or the live policy denies the delivery.  Its job is marked
\* although the error of Abandon is ignored.
Abandon(s) ==
  LET d == snd[s].del
  IN /\ snd[s].pc = "gate"
     /\ rec' = IF Owns(s, d) THEN Settled(d, "abandoned") ELSE rec
     /\ GoTo(s, "mark")
     /\ UNCHANGED <<slack, marked, crashes>>

MarkCompletedUndelivered(s) ==
  /\ snd[s].pc = "mark"
  /\ marked' = marked \cup {snd[s].del}
  /\ Return(s)
  /\ UNCHANGED <<rec, slack, crashes>>

\* The result does not render, or Slack cannot be asked what it has: Send fails
\* before it posts anything.
Refuse(s) ==
  /\ snd[s].pc \in {"gate", "files", "parts"}
  /\ GoTo(s, "retry")
  /\ UNCHANGED <<rec, slack, marked, crashes>>

StartSend(s) ==
  /\ snd[s].pc = "gate"
  /\ GoTo(s, "files")
  /\ UNCHANGED <<rec, slack, marked, crashes>>

\* Mutant of Shown: a retry does not ask Slack what it has.
ShownNothing(d, is) == {}

\* What Slack shows of d among the items is: deliveryFiles and deliveryParts.
Shown(d, is) == {i \in is : tagged[d][i] > 0}

LookUpFiles(s) ==
  LET d == snd[s].del
  IN /\ snd[s].pc = "files"
     /\ snd' = [snd EXCEPT ![s].pc = "upload", ![s].item = 1,
                           ![s].found = Shown(d, 1 .. Files)]
     /\ UNCHANGED <<rec, slack, marked, crashes>>

LookUpParts(s) ==
  LET d == snd[s].del
  IN /\ snd[s].pc = "parts"
     /\ snd' = [snd EXCEPT ![s].pc = "post", ![s].item = FirstPart(d),
                           ![s].found = Shown(d, Files + 1 .. Items)]
     /\ UNCHANGED <<rec, slack, marked, crashes>>

\* The end of each of the two loops over the items.
LastItem(s) == IF snd[s].pc = "upload" THEN Files ELSE Items
SkipItem(s) ==
  /\ snd[s].pc \in {"upload", "post"}
  /\ \/ snd[s].item > LastItem(s)
     \/ snd[s].item \in snd[s].found \/ snd[s].item \notin ItemsOf(snd[s].del)
  /\ IF snd[s].item <= LastItem(s)
       THEN snd' = [snd EXCEPT ![s].item = @ + 1]
       ELSE snd' = [snd EXCEPT ![s].pc = IF @ = "upload" THEN "parts" ELSE "complete",
                               ![s].item = 0, ![s].found = {}]
  /\ UNCHANGED <<rec, slack, marked, crashes>>

\* Slack takes the item: a new message, or the rewriting of one.
Accept(d, i) ==
  LET t == RewriteOf[d]
  IN IF t = None
       THEN /\ posted' = [posted EXCEPT ![d][i] = @ + 1]
            /\ tagged' = [tagged EXCEPT ![d][i] = @ + 1]
       ELSE /\ posted' = [posted EXCEPT ![d][i] = 1]
            /\ tagged' = [tagged EXCEPT ![d][i] = 1,
                                        ![t][i] = IF @ > 0 THEN @ - 1 ELSE 0]

\* Slack takes the item and says so; or it fails to answer, having taken it or not.
PostItem(s) ==
  LET d == snd[s].del
      i == snd[s].item
  IN /\ snd[s].pc \in {"upload", "post"}
     /\ i \in ItemsOf(d) \ snd[s].found
     /\ i <= LastItem(s)
     /\ \/ /\ Accept(d, i)
           /\ \/ snd' = [snd EXCEPT ![s].item = i + 1]
              \/ GoTo(s, "retry")
        \/ GoTo(s, "retry") /\ UNCHANGED slack
     /\ UNCHANGED <<rec, marked, crashes>>

\* Retry: abandoned with its last attempt, and only then is the job marked.
Retry(s) ==
  LET d == snd[s].del
  IN /\ snd[s].pc = "retry"
     /\ \/ /\ Owns(s, d)
           /\ IF rec[d].attempt >= MaxAttempts
                THEN rec' = Settled(d, "abandoned") /\ GoTo(s, "mark")
                ELSE rec' = Settled(d, "retry_wait") /\ Return(s)
        \/ ~Owns(s, d) /\ Return(s) /\ UNCHANGED rec
     /\ UNCHANGED <<slack, marked, crashes>>

Complete(s) ==
  LET d == snd[s].del
  IN /\ snd[s].pc = "complete"
     /\ rec' = IF Owns(s, d) THEN Settled(d, "delivered") ELSE rec
     /\ Return(s)
     /\ UNCHANGED <<slack, marked, crashes>>

(***************************************************************************)
(* Crashes and time.                                                       *)
(***************************************************************************)
Crash(s) ==
  /\ snd[s].pc # "idle"
  /\ crashes < MaxCrashes
  /\ crashes' = crashes + 1
  /\ Return(s)
  /\ UNCHANGED <<rec, slack, marked>>

\* Nothing renews a delivery lease; a sender that does not stall is done by then.
LeaseExpires(d) ==
  /\ rec[d].live
  /\ Stalls \/ \A s \in Senders : snd[s].del # d
  /\ rec' = [rec EXCEPT ![d].live = FALSE]
  /\ UNCHANGED <<snd, slack, marked, crashes>>

DeliveryExpires(d) ==
  /\ d \in Expiring
  /\ rec[d].status \notin {"none", "deleted"}
  /\ ~rec[d].expired
  /\ rec' = [rec EXCEPT ![d].expired = TRUE]
  /\ UNCHANGED <<snd, slack, marked, crashes>>

\* The TTL index on expires_at.
TTLDelete(d) ==
  /\ rec[d].expired
  /\ rec' = [rec EXCEPT ![d] = [NoRecord EXCEPT !.status = "deleted"]]
  /\ UNCHANGED <<snd, slack, marked, crashes>>

(***************************************************************************)
(* The specification.                                                      *)
(***************************************************************************)
SenderStep(s) ==
  \/ RecoverLeases(s) \/ AbandonExhausted(s) \/ Claim(s)
  \/ Abandon(s) \/ MarkCompletedUndelivered(s) \/ Refuse(s) \/ StartSend(s)
  \/ LookUpFiles(s) \/ LookUpParts(s) \/ SkipItem(s) \/ PostItem(s)
  \/ Retry(s) \/ Complete(s)

Next ==
  \/ \E d \in Deliveries : Enqueue(d) \/ LeaseExpires(d) \/ DeliveryExpires(d)
                           \/ TTLDelete(d)
  \/ \E s \in Senders : SenderStep(s) \/ Crash(s)

\* The delivery loops keep polling, and a lease nobody holds runs out.
Fairness == /\ \A s \in Senders : WF_vars(SenderStep(s))
            /\ \A d \in Deliveries : WF_vars(LeaseExpires(d))

Spec == Init /\ [][Next]_vars
FairSpec == Spec /\ Fairness

(***************************************************************************)
(* Properties.                                                             *)
(***************************************************************************)
\* Every variable has its type.
TypeOK ==
  /\ rec \in [Deliveries -> [status : Status, token : Senders \cup {None},
                             live : BOOLEAN, attempt : 0 .. MaxAttempts,
                             expired : BOOLEAN]]
  /\ \A s \in Senders :
       /\ snd[s].pc \in {"idle", "sweep", "claim", "gate", "files", "upload", "parts",
                         "post", "retry", "mark", "complete"}
       /\ snd[s].del \in Deliveries \cup {None}
       /\ snd[s].item \in 0 .. Items + 1
       /\ snd[s].found \subseteq 1 .. Items
  /\ posted \in [Deliveries -> [1 .. Items -> Nat]]
  /\ tagged \in [Deliveries -> [1 .. Items -> Nat]]
  /\ marked \subseteq Deliveries
  /\ crashes \in 0 .. MaxCrashes

\* No file and no message part reaches Slack twice, wherever a sender crashed and
\* whether or not Slack's answer was lost: a retry posts only what is missing.
NothingPostedTwice ==
  \A d \in Deliveries, i \in 1 .. Items : posted[d][i] <= 1

\* The parts of an answer arrive in order, also when several attempts post them.
PartsInOrder ==
  \A d \in Deliveries, i \in 2 .. Items :
    (RewriteOf[d] = None /\ posted[d][i] > 0) => posted[d][i - 1] > 0

\* A delivery that is recorded as delivered is in Slack completely.
DeliveredIsComplete ==
  \A d \in Deliveries : rec[d].status = "delivered" =>
    \A i \in ItemsOf(d) : posted[d][i] > 0

\* The job of a delivered answer is not marked completed_undelivered.
DeliveredIsNotMarked ==
  \A d \in marked : rec[d].status \in {"abandoned", "deleted"}

\* Whatever crashes, lost answers and retries come between: each item is posted once and
\* in its order, and a record that says delivered is complete in Slack and its job is
\* not told otherwise.
DeliveryInv == /\ TypeOK
               /\ NothingPostedTwice
               /\ PartsInOrder
               /\ DeliveredIsComplete
               /\ DeliveredIsNotMarked

\* Every delivery ends: delivered, abandoned, or past its expiry.
DeliveriesEnd ==
  \A d \in Deliveries : (rec[d].status # "none") ~>
    (rec[d].status \in {"delivered", "abandoned", "deleted"} \/ rec[d].expired)
=============================================================================
