------------------------------- MODULE Decision -------------------------------
(***************************************************************************)
(* From an observation to its output: the decision queue (core/observer),  *)
(* the recorded decisions (core/classifier) and decideObservation.         *)
(*                                                                         *)
(* A decider leases a pending observation, asks the classifier what to do  *)
(* with it, records the answer and produces at most one output: a job, or  *)
(* a direct reply.  No transaction spans these writes.  A decider that     *)
(* fails leaves the observation leased, and the next one starts over: it   *)
(* classifies afresh, while the decision that is on record stays.          *)
(*                                                                         *)
(* A message that reports an incident makes its decider reconsider, as     *)
(* revision 2, questions that were decided without an output.              *)
(*                                                                         *)
(* The retention date of an observation, days away, is not modelled: the   *)
(* module is about observations before it.                                 *)
(***************************************************************************)
EXTENDS Integers, FiniteSets

CONSTANTS Observations,  \* accepted observations
          Incidents,     \* those that report an incident; the others are questions
          Quiet,         \* deleted and link-only turns, decided without a classifier
          Deciders,      \* decision loops, one per process
          None,          \* no observation, no decider
          MaxFaults,     \* bound: how many calls fail and deciders crash
          Stalls         \* whether a decider may outlive its lease

ASSUME KindsAssumption == Incidents \subseteq Observations /\ Quiet \subseteq Observations
ASSUME NamesAssumption == None \notin Observations \cup Deciders
ASSUME FaultsAssumption == MaxFaults \in Nat /\ Stalls \in BOOLEAN

VARIABLES obs,       \* the observations collection
          rec,       \* the decisions on record, by observation and revision
          job,       \* the observations with a job; it owns a slot
          reply,     \* the observations with a direct reply in the delivery queue
          slots,     \* admission reservations that were not completed
          dec,       \* the deciders
          faults,
          dropped    \* history: the observations the flood gate dropped once

vars == <<obs, rec, job, reply, slots, dec, faults, dropped>>
outputs == <<job, reply>>
counts == <<faults, dropped>>

Revisions == 1 .. 2
\* The effective outcomes, by what they produce (createsJob, hasDirectReply); an
\* outcome that only reacts is silent here.
Outcome == {"silent", "reply", "job"}

Pending == [state |-> "pending", holder |-> None, live |-> FALSE,
            produced |-> FALSE, reserved |-> FALSE]
IdleDecider == [pc |-> "idle", obs |-> None, rev |-> 1, decision |-> "silent",
                recorded |-> "silent", slot |-> FALSE, late |-> {}]

Init == /\ obs = [o \in Observations |-> Pending]
        /\ rec = [o \in Observations |-> [r \in Revisions |-> "none"]]
        /\ job = {}
        /\ reply = {}
        /\ slots = 0
        /\ dec = [d \in Deciders |-> IdleDecider]
        /\ faults = 0
        /\ dropped = {}

GoTo(d, pc) == dec' = [dec EXCEPT ![d].pc = pc]
Return(d) == dec' = [dec EXCEPT ![d] = IdleDecider]

\* decideObservation returns.  A slot the decider still has is lost until it
\* expires.  The loop over late questions goes on, whatever the result.
NextLate(d) == [IdleDecider EXCEPT !.pc = "next", !.late = dec[d].late]
ReturnError(d) ==
  dec' = [dec EXCEPT ![d] = IF dec[d].rev = 1 THEN IdleDecider ELSE NextLate(d)]
ReturnNil(d) ==
  dec' = [dec EXCEPT ![d] =
            IF dec[d].rev = 1
              THEN [IdleDecider EXCEPT !.pc = "complete", !.obs = dec[d].obs]
              ELSE NextLate(d)]

\* Admissions.Complete, for a decider that has a slot.
SlotsWithout(d) == IF dec[d].slot THEN slots - 1 ELSE slots

(***************************************************************************)
(* The decision queue.                                                     *)
(***************************************************************************)
\* Mutant of Claimable: an expired lease is not claimed again.
ClaimableOnce(o) == obs[o].state = "pending"

Claimable(o) == \/ obs[o].state = "pending"
                \/ obs[o].state = "processing" /\ ~obs[o].live

\* A decider has one lease at a time, so its name stands for the token.
ClaimPending(d) ==
  /\ dec[d].pc = "idle"
  /\ \E o \in Observations :
       /\ Claimable(o)
       /\ obs' = [obs EXCEPT ![o].state = "processing", ![o].holder = d,
                             ![o].live = TRUE]
       /\ dec' = [dec EXCEPT ![d] = [IdleDecider EXCEPT !.pc = "scope", !.obs = o]]
  /\ UNCHANGED <<rec, outputs, slots, counts>>

Owns(d, o) == /\ obs[o].state = "processing"
              /\ obs[o].holder = d
              /\ obs[o].live

Ended(o, state) ==
  [obs EXCEPT ![o] = [@ EXCEPT !.state = state, !.holder = None, !.live = FALSE]]

(***************************************************************************)
(* decideObservation.                                                      *)
(***************************************************************************)
\* Another workspace, or a channel policy that does not authorize: the
\* observation is suppressed.
Deny(d) ==
  LET o == dec[d].obs
  IN /\ dec[d].pc = "scope"
     /\ obs' = IF dec[d].rev = 1 /\ Owns(d, o) THEN Ended(o, "suppressed") ELSE obs
     /\ ReturnError(d)
     /\ UNCHANGED <<rec, outputs, slots, counts>>

\* Mutant of Recorded: the last decision of a revision replaces the first.
RecordedLast(o, r, outcome) == outcome

\* Decisions.Record: the first decision of a revision stays.
Recorded(o, r, outcome) == IF rec[o][r] = "none" THEN outcome ELSE rec[o][r]

\* A silent decision is recorded and nothing else happens, whatever is on record.
RecordSilence(d) ==
  LET o == dec[d].obs
      r == dec[d].rev
  IN /\ dec[d].pc = "scope"
     /\ rec' = [rec EXCEPT ![o][r] = Recorded(o, r, "silent")]
     /\ ReturnNil(d)
     /\ UNCHANGED <<obs, outputs, slots, faults>>

SuppressQuiet(d) == /\ dec[d].obs \in Quiet
                    /\ RecordSilence(d)
                    /\ UNCHANGED dropped

\* The flood bucket is full, or cannot be charged.
FloodDrop(d) == /\ dec[d].obs \notin Quiet
                /\ RecordSilence(d)
                /\ dropped' = dropped \cup {dec[d].obs}

Classify(d) ==
  /\ dec[d].pc = "scope"
  /\ dec[d].obs \notin Quiet
  /\ \E c \in Outcome :
       dec' = [dec EXCEPT ![d].pc = IF c = "silent" THEN "record" ELSE "admit",
                          ![d].decision = c]
  /\ UNCHANGED <<obs, rec, outputs, slots, counts>>

\* Channel admission gives a slot, or the decision is suppressed.
Admit(d) ==
  /\ dec[d].pc = "admit"
  /\ \/ /\ slots' = slots + 1
        /\ dec' = [dec EXCEPT ![d].pc = "record", ![d].slot = TRUE]
     \/ /\ dec' = [dec EXCEPT ![d].pc = "record", ![d].decision = "silent"]
        /\ UNCHANGED slots
  /\ UNCHANGED <<obs, rec, outputs, counts>>

\* A direct reply follows the decision on record, a job the one just made.
Record(d) ==
  LET o == dec[d].obs
      r == dec[d].rev
      recorded == Recorded(o, r, dec[d].decision)
  IN /\ dec[d].pc = "record"
     /\ rec' = [rec EXCEPT ![o][r] = recorded]
     /\ IF recorded = "reply" \/ dec[d].decision = "job"
          THEN dec' = [dec EXCEPT ![d].recorded = recorded,
                         ![d].pc = IF recorded = "reply" THEN "reserve" ELSE "route"]
          ELSE ReturnNil(d)
     /\ UNCHANGED <<obs, outputs, slots, counts>>

\* The response model and the session are resolved.
Route(d) ==
  /\ dec[d].pc = "route"
  /\ GoTo(d, "reserve")
  /\ UNCHANGED <<obs, rec, outputs, slots, counts>>

\* Mutant of ReserveOutput: a reservation that was not used blocks the retry.
ReserveOutputOnce(d) ==
  LET o == dec[d].obs
  IN /\ dec[d].pc = "reserve"
     /\ \/ /\ ~obs[o].produced
           /\ obs' = [obs EXCEPT ![o].produced = TRUE, ![o].reserved = TRUE]
           /\ GoTo(d, "enqueue")
           /\ UNCHANGED slots
        \/ /\ obs[o].produced
           /\ slots' = SlotsWithout(d)
           /\ ReturnNil(d)
           /\ UNCHANGED obs
     /\ UNCHANGED <<rec, outputs, counts>>

\* ReserveOutput: the observation has no output, or one that is not finalized.
\* Every revision reserves under the same name.
ReserveOutput(d) ==
  LET o == dec[d].obs
  IN /\ dec[d].pc = "reserve"
     /\ \/ /\ ~obs[o].produced \/ obs[o].reserved
           /\ obs' = [obs EXCEPT ![o].produced = TRUE, ![o].reserved = TRUE]
           /\ GoTo(d, "enqueue")
           /\ UNCHANGED slots
        \/ /\ obs[o].produced /\ ~obs[o].reserved
           /\ slots' = SlotsWithout(d)
           /\ ReturnNil(d)
           /\ UNCHANGED obs
     /\ UNCHANGED <<rec, outputs, counts>>

\* The delivery is enqueued under the observation's key, ...
EnqueueReply(d) ==
  /\ dec[d].pc = "enqueue"
  /\ dec[d].recorded = "reply"
  /\ reply' = reply \cup {dec[d].obs}
  /\ GoTo(d, "release")
  /\ UNCHANGED <<obs, rec, job, slots, counts>>

\* ... and the slot is given back: a reply does not run.
ReleaseSlot(d) ==
  /\ dec[d].pc = "release"
  /\ slots' = SlotsWithout(d)
  /\ dec' = [dec EXCEPT ![d].pc = "finalize", ![d].slot = FALSE]
  /\ UNCHANGED <<obs, rec, outputs, counts>>

\* The job takes the slot over.  A job that is already there keeps its own.
EnqueueJob(d) ==
  /\ dec[d].pc = "enqueue"
  /\ dec[d].recorded # "reply"
  /\ job' = job \cup {dec[d].obs}
  /\ dec' = [dec EXCEPT ![d].pc = "finalize", ![d].slot = FALSE]
  /\ UNCHANGED <<obs, rec, reply, slots, counts>>

\* FinalizeOutput fails on an output that somebody else has finalized.
FinalizeOutput(d) ==
  LET o == dec[d].obs
  IN /\ dec[d].pc = "finalize"
     /\ \/ /\ obs[o].reserved
           /\ obs' = [obs EXCEPT ![o].reserved = FALSE]
           /\ ReturnNil(d)
        \/ ~obs[o].reserved /\ ReturnError(d) /\ UNCHANGED obs
     /\ UNCHANGED <<rec, outputs, slots, counts>>

(***************************************************************************)
(* processOneDecision, after decideObservation.                            *)
(***************************************************************************)
\* An incident leads on to the late questions, also when the lease was lost.
CompleteDecision(d) ==
  LET o == dec[d].obs
  IN /\ dec[d].pc = "complete"
     /\ obs' = IF Owns(d, o) THEN Ended(o, "decided") ELSE obs
     /\ IF o \in Incidents THEN GoTo(d, "list") ELSE Return(d)
     /\ UNCHANGED <<rec, outputs, slots, counts>>

\* LateCandidates: the questions that were decided and have no output, as far as
\* they are of the last minutes, within the limit and of another channel; none
\* when the incident is restricted or the query fails.
LateCandidates(d) ==
  /\ dec[d].pc = "list"
  /\ \E late \in SUBSET {o \in Observations \ Incidents :
                           obs[o].state = "decided" /\ ~obs[o].produced} :
       dec' = [dec EXCEPT ![d] = [IdleDecider EXCEPT !.pc = "next", !.late = late]]
  /\ UNCHANGED <<obs, rec, outputs, slots, counts>>

\* The loop over the candidates, which were read once.
Reconsider(d) ==
  /\ dec[d].pc = "next"
  /\ \/ \E o \in dec[d].late :
          dec' = [dec EXCEPT ![d] = [IdleDecider EXCEPT !.pc = "scope", !.obs = o,
                                       !.rev = 2, !.late = dec[d].late \ {o}]]
     \/ dec[d].late = {} /\ Return(d)
  /\ UNCHANGED <<obs, rec, outputs, slots, counts>>

(***************************************************************************)
(* Faults and time.                                                        *)
(***************************************************************************)
Working(d) == dec[d].pc \in {"scope", "admit", "record", "route", "reserve", "enqueue",
                             "finalize"}

\* A call fails and decideObservation returns the error.  The slot is given back
\* where the code says so; it is lost when recording the decision, resolving the
\* session or reserving a reply fails.
Fail(d) ==
  /\ Working(d)
  /\ faults < MaxFaults
  /\ faults' = faults + 1
  /\ \/ /\ dec[d].pc \in {"route", "reserve", "enqueue"}
        /\ dec[d].pc = "reserve" => dec[d].recorded # "reply"
        /\ slots' = SlotsWithout(d)
     \/ /\ dec[d].pc # "enqueue"
        /\ dec[d].pc = "reserve" => dec[d].recorded = "reply"
        /\ UNCHANGED slots
  /\ ReturnError(d)
  /\ UNCHANGED <<obs, rec, outputs, dropped>>

Crash(d) ==
  /\ dec[d].pc # "idle"
  /\ faults < MaxFaults
  /\ faults' = faults + 1
  /\ Return(d)
  /\ UNCHANGED <<obs, rec, outputs, slots, dropped>>

\* Nothing renews a decision lease; a decider that does not stall is done by then.
LeaseExpires(o) ==
  /\ obs[o].live
  /\ Stalls \/ dec[obs[o].holder].obs # o \/ dec[obs[o].holder].rev # 1
  /\ obs' = [obs EXCEPT ![o].live = FALSE]
  /\ UNCHANGED <<rec, outputs, slots, dec, counts>>

(***************************************************************************)
(* The specification.                                                      *)
(***************************************************************************)
Step(d) ==
  \/ ClaimPending(d) \/ Deny(d) \/ SuppressQuiet(d) \/ FloodDrop(d) \/ Classify(d)
  \/ Admit(d) \/ Record(d) \/ Route(d) \/ ReserveOutput(d)
  \/ EnqueueReply(d) \/ ReleaseSlot(d)
  \/ EnqueueJob(d) \/ FinalizeOutput(d) \/ CompleteDecision(d) \/ LateCandidates(d) \/ Reconsider(d)

Next == \/ \E d \in Deciders : Step(d) \/ Fail(d) \/ Crash(d)
        \/ \E o \in Observations : LeaseExpires(o)

\* The decision loops keep polling, and a lease nobody holds runs out.
Fairness == /\ \A d \in Deciders : WF_vars(Step(d))
            /\ \A o \in Observations : WF_vars(LeaseExpires(o))

Spec == Init /\ [][Next]_vars
FairSpec == Spec /\ Fairness

(***************************************************************************)
(* Properties.                                                             *)
(***************************************************************************)
\* Every variable has its type.
TypeOK ==
  /\ obs \in [Observations -> [state : {"pending", "processing", "decided", "suppressed"},
                               holder : Deciders \cup {None}, live : BOOLEAN,
                               produced : BOOLEAN, reserved : BOOLEAN]]
  /\ rec \in [Observations -> [Revisions -> Outcome \cup {"none"}]]
  /\ job \subseteq Observations
  /\ reply \subseteq Observations
  /\ slots \in Nat
  /\ \A d \in Deciders :
       /\ Working(d) \/ dec[d].pc \in {"idle", "release", "complete", "list", "next"}
       /\ dec[d].obs \in Observations \cup {None}
       /\ dec[d].decision \in Outcome
       /\ dec[d].late \subseteq Observations \ Incidents
  /\ faults \in 0 .. MaxFaults
  /\ dropped \subseteq Observations

\* An observation never gets both a job and a direct reply, although every retry
\* and every reconsideration asks a classifier that may change its mind.
OneOutput == job \cap reply = {}

\* A decision to reply is carried out: once the observation is decided its reply
\* is in the delivery queue, wherever the decider that recorded it stopped, unless
\* the flood gate dropped a retry.
RecordedReplyIsGiven ==
  \A o \in Observations :
    (obs[o].state = "decided" /\ rec[o][1] = "reply") => o \in reply \cup dropped

\* No slot is given back while a job or a decider has it.
JobsKeepTheirSlot ==
  Cardinality(job) + Cardinality({d \in Deciders : dec[d].slot}) <= slots

\* However often an observation is decided again, it has one output, and a job that
\* comes of it has the slot that was reserved for it.
DecisionInv == TypeOK /\ OneOutput /\ JobsKeepTheirSlot

\* A decision to stay silent, a flood drop for one, produces no job and no reply.
SilenceHasNoOutput ==
  \A o \in Observations :
    (\A r \in Revisions : rec[o][r] \in {"none", "silent"}) => o \notin job \cup reply

\* Every observation is decided or suppressed in the end.
DecisionsEnd ==
  \A o \in Observations : <>(obs[o].state \in {"decided", "suppressed"})
=============================================================================
