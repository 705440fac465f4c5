---------------------------- MODULE DecisionProofs ----------------------------
(***************************************************************************)
(* DecisionInv and RecordedReplyIsGiven for any number of observations,    *)
(* deciders and faults, when no decider outlives its lease (~Stalls).      *)
(*                                                                         *)
(* Why an observation has one output: every output follows the decision on *)
(* record, which never changes, and a revision 2 is only recorded for an   *)
(* observation that revision 1 left without an output.  So the record says *)
(* which output an observation may have (ObsOK), and the deciders act by   *)
(* it (DeciderOK).                                                         *)
(***************************************************************************)
EXTENDS Decision, FiniteSetTheorems, TLAPS

Obs == [state : {"pending", "processing", "decided", "suppressed"},
        holder : Deciders \cup {None}, live : BOOLEAN,
        produced : BOOLEAN, reserved : BOOLEAN]
Place == {"idle", "scope", "admit", "record", "route", "reserve", "enqueue", "release",
          "finalize", "complete", "list", "next"}
Questions == SUBSET (Observations \ Incidents)
Decider == [pc : Place, obs : Observations \cup {None}, rev : Revisions,
            decision : Outcome, recorded : Outcome, slot : BOOLEAN, late : Questions]
Decisions == [Revisions -> Outcome \cup {"none"}]

\* The places of a decider that has an observation, and those after its record.
Acting == {"scope", "admit", "record", "route", "reserve", "enqueue", "release",
           "finalize", "complete"}
Bound == {"route", "reserve", "enqueue", "release", "finalize"}

\* The decider x named d, against its observation y, the decisions r on record for
\* it, the replies and the dropped observations.
DeciderOK(d, x, y, r, rp, dr) ==
  /\ x.pc \in Acting => x.obs # None
  /\ x.rev = 2 => x.pc \in Acting \ {"complete"}
  /\ (x.pc \in Acting /\ x.rev = 1) =>
       y.state = "processing" /\ y.holder = d /\ y.live = TRUE
  /\ x.pc \in Bound \cup {"admit", "record"} => x.obs \notin Quiet
  /\ x.pc = "record" => (x.decision = "job" => x.slot = TRUE)
  /\ x.pc \in Bound => x.recorded = r[x.rev]
  /\ x.pc = "route" => x.recorded # "reply"
  /\ x.pc \in {"route", "reserve", "enqueue"} => (x.recorded # "reply" => x.slot = TRUE)
  /\ x.pc \in {"enqueue", "release", "finalize"} => y.produced = TRUE
  /\ x.pc = "release" => x.recorded = "reply"
  /\ x.pc \in {"release", "finalize"} => (x.recorded = "reply" => x.obs \in rp)
  /\ x.pc = "complete" => x.slot = FALSE
  /\ x.pc = "complete" => (r[1] = "reply" => x.obs \in rp \cup dr)

\* Somebody may still decide o as revision 2.
Late(o) == \E d \in Deciders : \/ o \in dec[d].late
                               \/ dec[d].obs = o /\ dec[d].rev = 2

\* The observation o as document y, with the decisions r on record.
ObsOK(o, y, r, late, jb, rp, dr) ==
  /\ late \/ r[2] # "none" => y.state = "decided"
  /\ o \in jb \cup rp => y.produced = TRUE
  /\ o \in rp => (r[1] = "reply" /\ r[2] = "none") \/ r[2] = "reply"
  /\ o \in jb => (r[1] \in {"silent", "job"} /\ r[2] = "none") \/ r[2] \in {"silent", "job"}
  /\ y.produced = TRUE => r[1] # "none" \/ r[2] # "none"
  /\ (y.produced = TRUE /\ r[2] = "none") => ~late
  /\ (y.produced = TRUE /\ y.reserved = FALSE /\ r[1] = "reply" /\ r[2] = "none") => o \in rp
  /\ o \in Quiet => r[1] \in {"none", "silent"}
  /\ (y.state = "decided" /\ r[1] = "reply") => o \in rp \cup dr

Types == /\ obs \in [Observations -> Obs]
         /\ rec \in [Observations -> Decisions]
         /\ job \subseteq Observations
         /\ reply \subseteq Observations
         /\ dec \in [Deciders -> Decider]
         /\ faults \in 0 .. MaxFaults
         /\ dropped \subseteq Observations

DeciderInv == \A d \in Deciders :
  DeciderOK(d, dec[d], obs[dec[d].obs], rec[dec[d].obs], reply, dropped)

ObsInv == \A o \in Observations :
  ObsOK(o, obs[o], rec[o], Late(o), job, reply, dropped)

\* The slots the deciders have, and the bound that is about them.
Holders == {d \in Deciders : dec[d].slot = TRUE}
SlotInv == /\ slots \in Nat
           /\ IsFiniteSet(job)
           /\ IsFiniteSet(Holders)
           /\ Cardinality(job) + Cardinality(Holders) <= slots

IInv == Types /\ DeciderInv /\ ObsInv /\ SlotInv

(***************************************************************************)
(* What one decider's step leaves alone.                                   *)
(***************************************************************************)
\* The observation of a decider that does not move: what is on record stays, its
\* lease stays while it needs it, and so does what "complete" has looked at.
Stands(e) ==
  LET o == dec[e].obs
  IN o \in Observations =>
       /\ obs[o].produced = TRUE => obs'[o].produced = TRUE
       /\ \A r \in Revisions : rec[o][r] # "none" => rec'[o][r] = rec[o][r]
       /\ (dec[e].pc \in Acting /\ dec[e].rev = 1) =>
            /\ obs'[o].state = obs[o].state
            /\ obs'[o].holder = obs[o].holder
            /\ obs'[o].live = obs[o].live
       /\ dec[e].pc = "complete" => rec'[o][1] = rec[o][1]

\* A decider that does not move keeps its part of the invariant.
LEMMA StandsOK ==
  ASSUME IInv, NEW e \in Deciders, Stands(e), reply \subseteq reply', dropped \subseteq dropped'
  PROVE  DeciderOK(e, dec[e], obs'[dec[e].obs], rec'[dec[e].obs], reply', dropped')
<1> DEFINE x == dec[e]
<1>1. x \in Decider /\ DeciderOK(e, x, obs[x.obs], rec[x.obs], reply, dropped)
  BY DEF IInv, Types, DeciderInv
<1>2. CASE x.obs \in Observations
  <2>1. x.pc \in Bound => rec[x.obs][x.rev] # "none" /\ x.rev \in Revisions
    BY <1>1 DEF DeciderOK, Decider, Outcome
  <2>2. QED
    BY <1>1, <1>2, <2>1 DEF DeciderOK, Stands
<1>3. CASE x.obs \notin Observations
  <2>1. x.pc \notin Acting
    BY <1>1, <1>3 DEF Decider, DeciderOK
  <2>2. QED
    BY <1>1, <2>1 DEF DeciderOK, Acting, Bound
<1>4. QED
  BY <1>2, <1>3

\* Nothing is written to the documents: every decider stands.
LEMMA NothingWritten ==
  ASSUME obs' = obs, rec' = rec
  PROVE  \A e \in Deciders : Stands(e)
  BY DEF Stands

\* A lease is one decider's: two that act as revision 1 have two observations.
LEMMA OneDecider ==
  ASSUME IInv, NEW d \in Deciders, NEW e \in Deciders, dec[d].obs = dec[e].obs,
         dec[d].pc \in Acting, dec[d].rev = 1, dec[e].pc \in Acting, dec[e].rev = 1
  PROVE  d = e
  BY DEF IInv, DeciderInv, DeciderOK

\* Decider d becomes x; the rest is the effect on the observations and the slots.
LEMMA DeciderMoves ==
  ASSUME IInv, NEW d \in Deciders, NEW x \in Decider, dec' = [dec EXCEPT ![d] = x],
         obs' \in [Observations -> Obs], rec' \in [Observations -> Decisions],
         job' \subseteq Observations, reply' \subseteq Observations,
         faults' \in 0 .. MaxFaults, dropped' \subseteq Observations,
         \A e \in Deciders \ {d} : Stands(e),
         reply \subseteq reply', dropped \subseteq dropped',
         DeciderOK(d, x, obs'[x.obs], rec'[x.obs], reply', dropped'),
         ObsInv', SlotInv'
  PROVE  IInv'
<1>1. Types'
  BY DEF IInv, Types
<1>2. DeciderInv'
  <2> SUFFICES ASSUME NEW e \in Deciders
               PROVE  DeciderOK(e, dec'[e], obs'[dec'[e].obs], rec'[dec'[e].obs],
                                reply', dropped')
    BY DEF DeciderInv
  <2>1. dec'[e] = IF e = d THEN x ELSE dec[e]
    BY DEF IInv, Types
  <2>2. CASE e = d
    BY <2>1, <2>2
  <2>3. CASE e # d
    BY <2>1, <2>3, StandsOK
  <2>4. QED
    BY <2>2, <2>3
<1>3. QED
  BY <1>1, <1>2 DEF IInv

\* Nobody becomes late but by LateCandidates.
LEMMA NotLater ==
  ASSUME IInv, NEW d \in Deciders, NEW x \in Decider, dec' = [dec EXCEPT ![d] = x],
         x.late \subseteq dec[d].late,
         \/ x.rev = 1
         \/ x.obs \in dec[d].late
         \/ dec[d].rev = 2 /\ x.obs = dec[d].obs
  PROVE  \A o \in Observations : Late(o)' => Late(o)
<1>1. \A e \in Deciders : dec'[e] = IF e = d THEN x ELSE dec[e]
  BY DEF IInv, Types
<1>2. QED
  BY <1>1 DEF Late

\* An observation whose output and record stay, and that is decided only with the
\* reply its record asks for.
LEMMA ObsStays ==
  ASSUME IInv, NEW o \in Observations,
         obs'[o].produced = obs[o].produced, obs'[o].reserved = obs[o].reserved,
         obs[o].state = "decided" => obs'[o].state = "decided",
         \/ obs'[o].state # "decided"
         \/ obs[o].state = "decided"
         \/ rec[o][1] = "reply" => o \in reply \cup dropped,
         Late(o)' => Late(o) \/ (obs[o].state = "decided" /\ obs[o].produced = FALSE),
         rec'[o] = rec[o], job' = job, reply' = reply, dropped \subseteq dropped'
  PROVE  ObsOK(o, obs'[o], rec'[o], Late(o)', job', reply', dropped')
<1>1. ObsOK(o, obs[o], rec[o], Late(o), job, reply, dropped)
  BY DEF IInv, ObsInv
<1> HIDE DEF Late
<1>2. QED
  BY <1>1 DEF ObsOK

(***************************************************************************)
(* The slots.                                                              *)
(***************************************************************************)
\* The holders after decider d became x.
LEMMA HoldersAfter ==
  ASSUME IInv, NEW d \in Deciders, NEW x \in Decider, dec' = [dec EXCEPT ![d] = x]
  PROVE  /\ x.slot = TRUE => Holders' = Holders \cup {d}
         /\ x.slot = FALSE => Holders' = Holders \ {d}
<1>1. \A e \in Deciders : dec'[e] = IF e = d THEN x ELSE dec[e]
  BY DEF IInv, Types
<1>2. QED
  BY <1>1 DEF Holders

\* Fewer holders need no more slots.
LEMMA SlotsKept ==
  ASSUME IInv, NEW d \in Deciders, NEW x \in Decider, dec' = [dec EXCEPT ![d] = x],
         x.slot = FALSE \/ dec[d].slot = TRUE, slots' = slots, job' = job
  PROVE  SlotInv'
<1>1. SlotInv
  BY DEF IInv
<1>2. x.slot \in BOOLEAN /\ (dec[d].slot = TRUE => d \in Holders)
  BY DEF Decider, Holders
<1>3. Holders' \subseteq Holders
  BY <1>2, HoldersAfter
<1>4. IsFiniteSet(Holders') /\ Cardinality(Holders') <= Cardinality(Holders)
  BY <1>1, <1>3, FS_Subset DEF SlotInv
<1>5. Cardinality(Holders) \in Nat /\ Cardinality(Holders') \in Nat /\ Cardinality(job) \in Nat
  BY <1>1, <1>4, FS_CardinalityType DEF SlotInv
<1> HIDE DEF Holders
<1>6. QED
  BY <1>1, <1>4, <1>5 DEF SlotInv

\* A decider gives its slot back.
LEMMA SlotGivenBack ==
  ASSUME IInv, NEW d \in Deciders, NEW x \in Decider, dec' = [dec EXCEPT ![d] = x],
         x.slot = FALSE, slots' = SlotsWithout(d), job' = job
  PROVE  SlotInv'
<1>1. SlotInv /\ dec[d] \in Decider
  BY DEF IInv, Types
<1>2. CASE dec[d].slot = TRUE
  <2>1. d \in Holders /\ Holders' = Holders \ {d} /\ slots' = slots - 1
    BY <1>2, HoldersAfter DEF Holders, SlotsWithout
  <2>2. IsFiniteSet(Holders') /\ Cardinality(Holders') = Cardinality(Holders) - 1
    BY <1>1, <2>1, FS_RemoveElement DEF SlotInv
  <2>3. Cardinality(Holders) \in Nat /\ Cardinality(Holders') \in Nat /\ Cardinality(job) \in Nat
    BY <1>1, <2>2, FS_CardinalityType DEF SlotInv
  <2> HIDE DEF Holders
  <2>4. QED
    BY <1>1, <2>1, <2>2, <2>3 DEF SlotInv
<1>3. CASE dec[d].slot = FALSE
  BY <1>3, SlotsKept DEF SlotsWithout
<1>4. QED
  BY <1>1, <1>2, <1>3 DEF Decider

\* Admission gives a decider a slot.
LEMMA SlotGiven ==
  ASSUME IInv, NEW d \in Deciders, NEW x \in Decider, dec' = [dec EXCEPT ![d] = x],
         x.slot = TRUE, slots' = slots + 1, job' = job
  PROVE  SlotInv'
<1>1. SlotInv /\ Holders' = Holders \cup {d}
  BY HoldersAfter DEF IInv
<1>2. IsFiniteSet(Holders') /\ Cardinality(Holders') <= Cardinality(Holders) + 1
  <2>1. /\ IsFiniteSet(Holders')
        /\ Cardinality(Holders') = Cardinality(Holders) \/ Cardinality(Holders') = Cardinality(Holders) + 1
    BY <1>1, FS_AddElement DEF SlotInv
  <2>2. Cardinality(Holders) \in Nat
    BY <1>1, FS_CardinalityType DEF SlotInv
  <2> HIDE DEF Holders
  <2>3. QED
    BY <2>1, <2>2
<1>3. Cardinality(Holders) \in Nat /\ Cardinality(Holders') \in Nat /\ Cardinality(job) \in Nat
  BY <1>1, <1>2, FS_CardinalityType DEF SlotInv
<1> HIDE DEF Holders
<1>4. QED
  BY <1>1, <1>2, <1>3 DEF SlotInv

\* A job takes over the slot of the decider that enqueues it.
LEMMA SlotTakenOver ==
  ASSUME IInv, NEW d \in Deciders, NEW x \in Decider, dec' = [dec EXCEPT ![d] = x],
         dec[d].slot = TRUE, x.slot = FALSE, slots' = slots, NEW o, job' = job \cup {o}
  PROVE  SlotInv'
<1>1. SlotInv /\ d \in Holders /\ Holders' = Holders \ {d}
  BY HoldersAfter DEF IInv, Holders
<1>2. IsFiniteSet(Holders') /\ Cardinality(Holders') = Cardinality(Holders) - 1
  BY <1>1, FS_RemoveElement DEF SlotInv
<1>3. /\ IsFiniteSet(job')
      /\ Cardinality(job') = Cardinality(job) \/ Cardinality(job') = Cardinality(job) + 1
  BY <1>1, FS_AddElement DEF SlotInv
<1>4. Cardinality(Holders) \in Nat /\ Cardinality(Holders') \in Nat /\ Cardinality(job) \in Nat
  BY <1>1, <1>2, FS_CardinalityType DEF SlotInv
<1> HIDE DEF Holders
<1>5. QED
  BY <1>1, <1>2, <1>3, <1>4 DEF SlotInv

(***************************************************************************)
(* Returns.                                                                *)
(***************************************************************************)
\* The decider has returned from decideObservation: it waits, or goes on to the late
\* questions.
Rests(d, x) ==
  /\ dec' = [dec EXCEPT ![d] = x]
  /\ x \in Decider
  /\ x.pc \in {"idle", "next", "list"}
  /\ x.rev = 1
  /\ x.slot = FALSE
  /\ x.late \subseteq dec[d].late

\* The decider of a new observation is about to complete it.
Completes(d, x) ==
  /\ dec[d].rev = 1
  /\ dec' = [dec EXCEPT ![d] = x]
  /\ x \in Decider
  /\ x.pc = "complete"
  /\ x.obs = dec[d].obs
  /\ x.rev = 1
  /\ x.slot = FALSE
  /\ x.late = {}

\* The decider that waits, field by field.
LEMMA IdleFields ==
  /\ IdleDecider \in Decider
  /\ IdleDecider.pc = "idle"
  /\ IdleDecider.obs = None
  /\ IdleDecider.rev = 1
  /\ IdleDecider.slot = FALSE
  /\ IdleDecider.late = {}
<1>1. 1 \in Revisions /\ {} \in Questions /\ "silent" \in Outcome /\ "idle" \in Place
  BY DEF Revisions, Questions, Outcome, Place
<1>2. QED
  BY <1>1 DEF IdleDecider, Decider

\* An error, or a plain return, makes the decider rest.
LEMMA ErrorRests ==
  ASSUME IInv, NEW d \in Deciders, ReturnError(d) \/ Return(d)
  PROVE  \E x : Rests(d, x)
<1> DEFINE y == NextLate(d)
<1>1. /\ y \in Decider /\ y.pc = "next" /\ y.rev = 1 /\ y.slot = FALSE
      /\ y.late = dec[d].late
  <2>1. dec[d].late \in Questions
    BY DEF IInv, Types, Decider
  <2>2. QED
    BY <2>1, IdleFields DEF NextLate, Decider, Place
<1>2. Rests(d, IdleDecider) \/ Rests(d, y)
  <2> HIDE DEF y
  <2>1. dec' = [dec EXCEPT ![d] = IdleDecider] \/ dec' = [dec EXCEPT ![d] = y]
    BY DEF ReturnError, Return, y
  <2>2. QED
    BY <1>1, <2>1, IdleFields DEF Rests
<1>3. QED
  BY <1>2

\* A return without an error completes a new observation.
LEMMA NilReturns ==
  ASSUME IInv, NEW d \in Deciders, ReturnNil(d)
  PROVE  \E x : Rests(d, x) \/ Completes(d, x)
<1>1. CASE dec[d].rev = 1
  <2> DEFINE y == [IdleDecider EXCEPT !.pc = "complete", !.obs = dec[d].obs]
  <2>1. dec' = [dec EXCEPT ![d] = y]
    BY <1>1 DEF ReturnNil
  <2>2. dec[d].obs \in Observations \cup {None}
    BY DEF IInv, Types, Decider
  <2>3. /\ y \in Decider /\ y.pc = "complete" /\ y.obs = dec[d].obs /\ y.rev = 1
        /\ y.slot = FALSE /\ y.late = {}
    BY <2>2, IdleFields DEF Decider, Place
  <2> HIDE DEF y
  <2>4. Completes(d, y)
    BY <1>1, <2>1, <2>3 DEF Completes
  <2>5. QED
    BY <2>4
<1>2. CASE dec[d].rev # 1
  <2>1. ReturnError(d)
    BY <1>2 DEF ReturnNil, ReturnError
  <2>2. QED
    BY <2>1, ErrorRests
<1>3. QED
  BY <1>1, <1>2

\* A decider that rests has nothing to answer for.
LEMMA RestsOK ==
  ASSUME NEW d, NEW x, x.pc \in {"idle", "next", "list"}, x.rev = 1,
         NEW y, NEW r, NEW rp, NEW dr
  PROVE  DeciderOK(d, x, y, r, rp, dr)
  BY DEF DeciderOK, Acting, Bound

\* A decider stops.  It may have ended its lease or given back its slot, and
\* everything else stays.
LEMMA RestStep ==
  ASSUME IInv, NEW d \in Deciders, NEW x, Rests(d, x),
         obs' \in [Observations -> Obs],
         \A e \in Deciders \ {d} : Stands(e),
         \A o \in Observations :
            /\ obs'[o].produced = obs[o].produced
            /\ obs'[o].reserved = obs[o].reserved
            /\ obs[o].state = "decided" => obs'[o].state = "decided"
            /\ \/ obs'[o].state # "decided"
               \/ obs[o].state = "decided"
               \/ rec[o][1] = "reply" => o \in reply \cup dropped,
         rec' = rec, job' = job, reply' = reply, dropped' = dropped,
         faults' \in 0 .. MaxFaults,
         slots' = slots \/ slots' = SlotsWithout(d)
  PROVE  IInv'
<1>1. /\ x \in Decider /\ dec' = [dec EXCEPT ![d] = x] /\ x.slot = FALSE
      /\ x.pc \in {"idle", "next", "list"} /\ x.rev = 1 /\ x.late \subseteq dec[d].late
  BY DEF Rests
<1>2. SlotInv'
  BY <1>1, SlotsKept, SlotGivenBack
<1>3. \A o \in Observations : Late(o)' => Late(o)
  BY <1>1, NotLater
<1>4. ObsInv'
  <2> SUFFICES ASSUME NEW o \in Observations
               PROVE  ObsOK(o, obs'[o], rec'[o], Late(o)', job', reply', dropped')
    BY DEF ObsInv
  <2>1. QED
    BY <1>3, ObsStays
<1>5. DeciderOK(d, x, obs'[x.obs], rec'[x.obs], reply', dropped')
  BY <1>1, RestsOK
<1>6. /\ rec' \in [Observations -> Decisions] /\ job' \subseteq Observations
      /\ reply' \subseteq Observations /\ dropped' \subseteq Observations
  BY DEF IInv, Types
<1>7. QED
  BY <1>1, <1>2, <1>4, <1>5, <1>6, DeciderMoves

\* Only the decider moves: its lease is as it was, the slots may change.
LEMMA InnerStep ==
  ASSUME IInv, NEW d \in Deciders, NEW x \in Decider, dec' = [dec EXCEPT ![d] = x],
         obs' = obs, rec' = rec, job' = job, reply' = reply, dropped' = dropped,
         faults' = faults,
         \A o \in Observations : Late(o)' => \/ Late(o)
                                             \/ obs[o].state = "decided" /\ obs[o].produced = FALSE,
         DeciderOK(d, x, obs[x.obs], rec[x.obs], reply, dropped),
         SlotInv'
  PROVE  IInv'
<1>1. \A e \in Deciders \ {d} : Stands(e)
  BY NothingWritten
<1>2. ObsInv'
  <2> SUFFICES ASSUME NEW o \in Observations
               PROVE  ObsOK(o, obs'[o], rec'[o], Late(o)', job', reply', dropped')
    BY DEF ObsInv
  <2>1. QED
    BY ObsStays
<1>3. /\ obs' \in [Observations -> Obs] /\ rec' \in [Observations -> Decisions]
      /\ job' \subseteq Observations /\ reply' \subseteq Observations
      /\ dropped' \subseteq Observations /\ faults' \in 0 .. MaxFaults
  BY DEF IInv, Types
<1>4. QED
  BY <1>1, <1>2, <1>3, DeciderMoves

\* ReturnNil makes nobody late.
LEMMA NilNotLater ==
  ASSUME IInv, NEW d \in Deciders, ReturnNil(d)
  PROVE  \A o \in Observations : Late(o)' => Late(o)
<1>1. PICK x : Rests(d, x) \/ Completes(d, x)
  BY NilReturns
<1>2. /\ x \in Decider /\ dec' = [dec EXCEPT ![d] = x] /\ x.late \subseteq dec[d].late
      /\ x.rev = 1
  BY <1>1 DEF Rests, Completes
<1>3. QED
  BY <1>2, NotLater

\* decideObservation returns without an error, after its last write.
LEMMA NilStep ==
  ASSUME IInv, NEW d \in Deciders, ReturnNil(d), dec[d].pc \in Acting,
         obs' \in [Observations -> Obs], rec' \in [Observations -> Decisions],
         job' = job, reply' = reply, dropped \subseteq dropped',
         dropped' \subseteq Observations, faults' = faults,
         \A e \in Deciders \ {d} : Stands(e),
         /\ obs'[dec[d].obs].state = obs[dec[d].obs].state
         /\ obs'[dec[d].obs].holder = obs[dec[d].obs].holder
         /\ obs'[dec[d].obs].live = obs[dec[d].obs].live,
         (dec[d].rev = 1 /\ rec'[dec[d].obs][1] = "reply") => dec[d].obs \in reply \cup dropped',
         ObsInv',
         slots' = slots \/ slots' = SlotsWithout(d)
  PROVE  IInv'
<1>1. PICK x : Rests(d, x) \/ Completes(d, x)
  BY NilReturns
<1>2. x \in Decider /\ dec' = [dec EXCEPT ![d] = x] /\ x.slot = FALSE
  BY <1>1 DEF Rests, Completes
<1>3. SlotInv'
  BY <1>2, SlotsKept, SlotGivenBack
<1>4. DeciderOK(d, x, obs'[x.obs], rec'[x.obs], reply', dropped')
  <2>1. CASE Rests(d, x)
    BY <2>1, RestsOK DEF Rests
  <2>2. CASE Completes(d, x)
    <3>1. DeciderOK(d, dec[d], obs[dec[d].obs], rec[dec[d].obs], reply, dropped)
      BY DEF IInv, DeciderInv
    <3>2. x.pc = "complete" /\ x.obs = dec[d].obs /\ x.rev = 1 /\ x.slot = FALSE
          /\ dec[d].rev = 1
      BY <2>2 DEF Completes
    <3>3. QED
      BY <3>1, <3>2 DEF DeciderOK, Acting, Bound
  <2>3. QED
    BY <1>1, <2>1, <2>2
<1>5. /\ job' \subseteq Observations /\ reply' \subseteq Observations
      /\ faults' \in 0 .. MaxFaults
  BY DEF IInv, Types
<1>6. QED
  BY <1>2, <1>3, <1>4, <1>5, DeciderMoves

(***************************************************************************)
(* The actions.                                                            *)
(***************************************************************************)
\* What a decider that acts knows of its observation.
LEMMA ActingFacts ==
  ASSUME IInv, NEW d \in Deciders, dec[d].pc \in Acting
  PROVE  /\ dec[d] \in Decider
         /\ dec[d].obs \in Observations
         /\ obs[dec[d].obs] \in Obs
         /\ rec[dec[d].obs] \in Decisions
         /\ dec[d].rev \in {1, 2}
         /\ DeciderOK(d, dec[d], obs[dec[d].obs], rec[dec[d].obs], reply, dropped)
         /\ ObsOK(dec[d].obs, obs[dec[d].obs], rec[dec[d].obs], Late(dec[d].obs),
                  job, reply, dropped)
         /\ dec[d].rev = 1 => /\ obs[dec[d].obs].state = "processing"
                              /\ rec[dec[d].obs][2] = "none"
                              /\ ~Late(dec[d].obs)
         /\ dec[d].rev = 2 => Late(dec[d].obs)
<1>1. dec[d] \in Decider
      /\ DeciderOK(d, dec[d], obs[dec[d].obs], rec[dec[d].obs], reply, dropped)
  BY DEF IInv, Types, DeciderInv
<1>2. dec[d].obs \in Observations
  BY <1>1 DEF DeciderOK, Decider
<1>3. dec[d].rev \in {1, 2}
  BY <1>1 DEF Decider, Revisions
<1>4. ObsOK(dec[d].obs, obs[dec[d].obs], rec[dec[d].obs], Late(dec[d].obs),
            job, reply, dropped)
  BY <1>2 DEF IInv, ObsInv
<1>5. obs[dec[d].obs] \in Obs /\ rec[dec[d].obs] \in Decisions
  BY <1>2 DEF IInv, Types
<1>6. dec[d].rev = 2 => Late(dec[d].obs)
  BY DEF Late
<1>7. dec[d].rev = 1 => obs[dec[d].obs].state = "processing"
  BY <1>1 DEF DeciderOK
<1> HIDE DEF Late
<1>8. dec[d].rev = 1 => rec[dec[d].obs][2] = "none" /\ ~Late(dec[d].obs)
  BY <1>4, <1>7 DEF ObsOK
<1>9. QED
  BY <1>1, <1>2, <1>3, <1>4, <1>5, <1>6, <1>7, <1>8

\* The lease of a new observation.
LEMMA ClaimAction ==
  ASSUME IInv, NEW d \in Deciders, ClaimPending(d)
  PROVE  IInv'
<1>1. PICK o \in Observations :
        /\ Claimable(o)
        /\ obs' = [obs EXCEPT ![o].state = "processing", ![o].holder = d, ![o].live = TRUE]
        /\ dec' = [dec EXCEPT ![d] = [IdleDecider EXCEPT !.pc = "scope", !.obs = o]]
  BY DEF ClaimPending
<1>2. rec' = rec /\ job' = job /\ reply' = reply /\ slots' = slots
      /\ faults' = faults /\ dropped' = dropped
  BY DEF ClaimPending, outputs, counts
<1> DEFINE x == [IdleDecider EXCEPT !.pc = "scope", !.obs = o]
<1>3. /\ x \in Decider /\ x.pc = "scope" /\ x.obs = o /\ x.rev = 1 /\ x.slot = FALSE
      /\ x.late = {}
  BY IdleFields DEF Decider, Place
<1>4. dec' = [dec EXCEPT ![d] = x]
  BY <1>1
<1> HIDE DEF x
<1>5. obs \in [Observations -> Obs] /\ obs[o] \in Obs
  BY DEF IInv, Types
<1> DEFINE y == [obs[o] EXCEPT !.state = "processing", !.holder = d, !.live = TRUE]
<1>6. obs' = [obs EXCEPT ![o] = y]
  BY <1>1, <1>5
<1>7. /\ y \in Obs /\ y.state = "processing" /\ y.holder = d /\ y.live = TRUE
      /\ y.produced = obs[o].produced /\ y.reserved = obs[o].reserved
  BY <1>5 DEF Obs
<1> HIDE DEF y
<1>8. \A e \in Deciders \ {d} : Stands(e)
  <2> SUFFICES ASSUME NEW e \in Deciders \ {d} PROVE Stands(e)
    OBVIOUS
  <2>1. (dec[e].obs = o /\ dec[e].pc \in Acting) => dec[e].rev # 1
    BY <1>1, <1>5 DEF Claimable, IInv, DeciderInv, DeciderOK, Obs
  <2>2. QED
    BY <1>2, <1>5, <1>6, <1>7, <2>1 DEF Stands
<1>9. \A q \in Observations : Late(q)' => Late(q)
  BY <1>3, <1>4, NotLater
<1>10. ObsInv'
  <2> SUFFICES ASSUME NEW q \in Observations
               PROVE  ObsOK(q, obs'[q], rec'[q], Late(q)', job', reply', dropped')
    BY DEF ObsInv
  <2>1. obs'[q] = IF q = o THEN y ELSE obs[q]
    BY <1>5, <1>6
  <2>2. obs[o].state # "decided"
    BY <1>1 DEF Claimable
  <2>3. QED
    BY <1>2, <1>7, <1>9, <2>1, <2>2, ObsStays
<1>11. SlotInv'
  BY <1>2, <1>3, <1>4, SlotsKept
<1>12. DeciderOK(d, x, obs'[x.obs], rec'[x.obs], reply', dropped')
  BY <1>3, <1>5, <1>6, <1>7, NamesAssumption DEF DeciderOK, Acting, Bound
<1>13. /\ obs' \in [Observations -> Obs] /\ rec' \in [Observations -> Decisions]
      /\ job' \subseteq Observations /\ reply' \subseteq Observations
      /\ dropped' \subseteq Observations /\ faults' \in 0 .. MaxFaults
  BY <1>2, <1>5, <1>6, <1>7 DEF IInv, Types
<1>14. QED
  BY <1>2, <1>3, <1>4, <1>8, <1>10, <1>11, <1>12, <1>13, DeciderMoves

\* The end of a lease by its holder: a denial, or the completed decision.
LEMMA EndedObs ==
  ASSUME IInv, NEW d \in Deciders, dec[d].pc \in Acting, dec[d].rev = 1,
         NEW state \in {"decided", "suppressed"},
         obs' = Ended(dec[d].obs, state), rec' = rec,
         state = "decided" => (rec[dec[d].obs][1] = "reply" => dec[d].obs \in reply \cup dropped)
  PROVE  /\ obs' \in [Observations -> Obs]
         /\ \A e \in Deciders \ {d} : Stands(e)
         /\ \A o \in Observations :
              /\ obs'[o].produced = obs[o].produced
              /\ obs'[o].reserved = obs[o].reserved
              /\ obs[o].state = "decided" => obs'[o].state = "decided"
              /\ \/ obs'[o].state # "decided"
                 \/ obs[o].state = "decided"
                 \/ rec[o][1] = "reply" => o \in reply \cup dropped
<1> DEFINE q == dec[d].obs
           y == [obs[q] EXCEPT !.state = state, !.holder = None, !.live = FALSE]
<1>1. q \in Observations /\ obs[q] \in Obs /\ obs[q].state = "processing"
  BY ActingFacts
<1>2. obs' = [obs EXCEPT ![q] = y]
  BY DEF Ended
<1>3. /\ y \in Obs /\ y.state = state
      /\ y.produced = obs[q].produced /\ y.reserved = obs[q].reserved
  BY <1>1 DEF Obs
<1> HIDE DEF y
<1>4. \A o \in Observations : obs'[o] = IF o = q THEN y ELSE obs[o]
  BY <1>1, <1>2 DEF IInv, Types
<1>5. \A e \in Deciders \ {d} : Stands(e)
  <2> SUFFICES ASSUME NEW e \in Deciders \ {d} PROVE Stands(e)
    OBVIOUS
  <2>1. (dec[e].obs = q /\ dec[e].pc \in Acting) => dec[e].rev # 1
    BY OneDecider
  <2> HIDE DEF q
  <2>2. QED
    BY <1>3, <1>4, <2>1 DEF Stands
<1>6. obs' \in [Observations -> Obs]
  BY <1>1, <1>2, <1>3 DEF IInv, Types
<1>7. QED
  BY <1>1, <1>3, <1>4, <1>5, <1>6

\* The policy denies the observation.
LEMMA DenyAction ==
  ASSUME IInv, NEW d \in Deciders, Deny(d)
  PROVE  IInv'
<1>1. /\ dec[d].pc = "scope" /\ dec[d].pc \in Acting /\ ReturnError(d)
      /\ rec' = rec /\ job' = job /\ reply' = reply /\ slots' = slots
      /\ faults' = faults /\ dropped' = dropped
      /\ \/ dec[d].rev = 1 /\ obs' = Ended(dec[d].obs, "suppressed")
         \/ obs' = obs
  BY DEF Deny, outputs, counts, Acting
<1>2. PICK x : Rests(d, x)
  BY <1>1, ErrorRests
<1>3. obs \in [Observations -> Obs] /\ faults' \in 0 .. MaxFaults
  BY <1>1 DEF IInv, Types
<1>4. CASE dec[d].rev = 1 /\ obs' = Ended(dec[d].obs, "suppressed")
  BY <1>1, <1>2, <1>3, <1>4, EndedObs, RestStep
<1>5. CASE obs' = obs
  BY <1>1, <1>2, <1>3, <1>5, NothingWritten, RestStep
<1>6. QED
  BY <1>1, <1>4, <1>5

\* The observation is decided, and an incident leads on to the late questions.
LEMMA CompleteAction ==
  ASSUME IInv, NEW d \in Deciders, CompleteDecision(d)
  PROVE  IInv'
<1> DEFINE o == dec[d].obs
<1>1. /\ dec[d].pc = "complete" /\ dec[d].pc \in Acting
      /\ rec' = rec /\ job' = job /\ reply' = reply /\ slots' = slots
      /\ faults' = faults /\ dropped' = dropped
      /\ GoTo(d, "list") \/ Return(d)
      /\ obs' = IF Owns(d, o) THEN Ended(o, "decided") ELSE obs
  BY DEF CompleteDecision, outputs, counts, Acting
<1>2. /\ dec[d] \in Decider /\ dec[d].rev = 1 /\ Owns(d, o) /\ dec[d].slot = FALSE
      /\ rec[o][1] = "reply" => o \in reply \cup dropped
  <2>1. DeciderOK(d, dec[d], obs[o], rec[o], reply, dropped) /\ dec[d].rev \in {1, 2}
        /\ dec[d] \in Decider
    BY <1>1, ActingFacts
  <2>2. dec[d].rev = 1
    BY <1>1, <2>1 DEF DeciderOK
  <2>3. QED
    BY <1>1, <2>1, <2>2 DEF DeciderOK, Owns
<1>3. \E x : Rests(d, x)
  <2>1. CASE GoTo(d, "list")
    <3> DEFINE x == [dec[d] EXCEPT !.pc = "list"]
    <3>1. dec' = [dec EXCEPT ![d] = x]
      BY <2>1 DEF GoTo, IInv, Types
    <3>2. /\ x \in Decider /\ x.pc = "list" /\ x.rev = 1 /\ x.slot = FALSE
          /\ x.late = dec[d].late
      BY <1>2 DEF Decider, Place
    <3> HIDE DEF x
    <3>3. Rests(d, x)
      BY <3>1, <3>2 DEF Rests
    <3>4. QED
      BY <3>3
  <2>2. CASE Return(d)
    BY <2>2, ErrorRests
  <2>3. QED
    BY <1>1, <2>1, <2>2
<1>4. PICK x : Rests(d, x)
  BY <1>3
<1>5. obs' = Ended(o, "decided") /\ faults' \in 0 .. MaxFaults
  BY <1>1, <1>2 DEF IInv, Types
<1>6. QED
  BY <1>1, <1>2, <1>4, <1>5, EndedObs, RestStep

\* The steps that write nothing: the classification, the admission, the route, the
\* release of a slot, and the loop over the late questions.
LEMMA InnerActions ==
  ASSUME IInv, NEW d \in Deciders,
         \/ Classify(d) \/ Admit(d) \/ Route(d) \/ ReleaseSlot(d)
         \/ LateCandidates(d) \/ Reconsider(d)
  PROVE  IInv'
<1> DEFINE o == dec[d].obs
<1>1. obs' = obs /\ rec' = rec /\ job' = job /\ reply' = reply /\ dropped' = dropped
      /\ faults' = faults
  BY DEF Classify, Admit, Route, ReleaseSlot, LateCandidates, Reconsider, outputs, counts
<1>2. dec \in [Deciders -> Decider] /\ dec[d] \in Decider
  BY DEF IInv, Types
\* Steps that stay with the observation.
<1>3. ASSUME NEW x \in Decider, dec' = [dec EXCEPT ![d] = x],
             x.obs = o, x.rev = dec[d].rev, x.late = dec[d].late, dec[d].pc \in Acting,
             DeciderOK(d, x, obs[o], rec[o], reply, dropped), SlotInv'
      PROVE  IInv'
  <2>1. \A q \in Observations : Late(q)' => Late(q)
    BY <1>3, ActingFacts, NotLater
  <2>2. QED
    BY <1>1, <1>3, <2>1, InnerStep
<1>4. CASE Classify(d)
  <2>1. PICK c \in Outcome :
          dec' = [dec EXCEPT ![d].pc = IF c = "silent" THEN "record" ELSE "admit",
                             ![d].decision = c]
    BY <1>4 DEF Classify
  <2>2. dec[d].pc = "scope" /\ o \notin Quiet /\ slots' = slots /\ dec[d].pc \in Acting
    BY <1>4 DEF Classify, Acting
  <2> DEFINE to == IF c = "silent" THEN "record" ELSE "admit"
             x == [dec[d] EXCEPT !.pc = to, !.decision = c]
  <2>3. to \in {"record", "admit"} /\ (to = "record" => c = "silent")
    OBVIOUS
  <2>4. dec' = [dec EXCEPT ![d] = x]
    BY <2>1
  <2> HIDE DEF to
  <2>5. /\ x \in Decider /\ x.pc = to /\ x.decision = c /\ x.obs = o
        /\ x.rev = dec[d].rev /\ x.slot = dec[d].slot /\ x.late = dec[d].late
    BY <1>2, <2>3 DEF Decider, Place
  <2> HIDE DEF x
  <2>6. DeciderOK(d, x, obs[o], rec[o], reply, dropped)
    <3>1. DeciderOK(d, dec[d], obs[o], rec[o], reply, dropped)
      BY <2>2, ActingFacts
    <3> HIDE DEF o
    <3>2. o = dec[d].obs
      BY DEF o
    <3>3. QED
      BY <2>2, <2>3, <2>5, <3>1, <3>2 DEF DeciderOK, Acting, Bound
  <2>7. SlotInv'
    BY <1>1, <1>2, <2>2, <2>4, <2>5, SlotsKept DEF Decider
  <2>8. QED
    BY <1>3, <2>2, <2>4, <2>5, <2>6, <2>7
<1>5. CASE Admit(d)
  <2>0. dec[d].pc = "admit" /\ dec[d].pc \in Acting
    BY <1>5 DEF Admit, Acting
  <2>1. DeciderOK(d, dec[d], obs[o], rec[o], reply, dropped)
    BY <2>0, ActingFacts
  <2>2. CASE slots' = slots + 1
             /\ dec' = [dec EXCEPT ![d].pc = "record", ![d].slot = TRUE]
    <3> DEFINE x == [dec[d] EXCEPT !.pc = "record", !.slot = TRUE]
    <3>1. dec' = [dec EXCEPT ![d] = x]
      BY <2>2
    <3>2. /\ x \in Decider /\ x.pc = "record" /\ x.obs = o
          /\ x.rev = dec[d].rev /\ x.slot = TRUE /\ x.late = dec[d].late
      BY <1>2 DEF Decider, Place
    <3> HIDE DEF x
    <3>3. DeciderOK(d, x, obs[o], rec[o], reply, dropped)
      BY <2>0, <2>1, <3>2 DEF DeciderOK, Acting, Bound
    <3>4. SlotInv'
      BY <1>1, <2>2, <3>1, <3>2, SlotGiven
    <3>5. QED
      BY <1>3, <2>0, <3>1, <3>2, <3>3, <3>4
  <2>3. CASE slots' = slots
             /\ dec' = [dec EXCEPT ![d].pc = "record", ![d].decision = "silent"]
    <3> DEFINE x == [dec[d] EXCEPT !.pc = "record", !.decision = "silent"]
    <3>1. dec' = [dec EXCEPT ![d] = x]
      BY <2>3
    <3>2. /\ x \in Decider /\ x.pc = "record" /\ x.obs = o /\ x.decision = "silent"
          /\ x.rev = dec[d].rev /\ x.slot = dec[d].slot /\ x.late = dec[d].late
      BY <1>2 DEF Decider, Place, Outcome
    <3> HIDE DEF x
    <3>3. DeciderOK(d, x, obs[o], rec[o], reply, dropped)
      BY <2>0, <2>1, <3>2 DEF DeciderOK, Acting, Bound
    <3>4. SlotInv'
      BY <1>1, <1>2, <2>3, <3>1, <3>2, SlotsKept DEF Decider
    <3>5. QED
      BY <1>3, <2>0, <3>1, <3>2, <3>3, <3>4
  <2>4. QED
    BY <1>5, <2>2, <2>3 DEF Admit
<1>6. CASE Route(d)
  <2>0. dec[d].pc = "route" /\ dec[d].pc \in Acting /\ slots' = slots
    BY <1>6 DEF Route, Acting
  <2>1. DeciderOK(d, dec[d], obs[o], rec[o], reply, dropped)
    BY <2>0, ActingFacts
  <2> DEFINE x == [dec[d] EXCEPT !.pc = "reserve"]
  <2>2. dec' = [dec EXCEPT ![d] = x]
    BY <1>6 DEF Route, GoTo
  <2>3. /\ x \in Decider /\ x.pc = "reserve" /\ x.obs = o /\ x.recorded = dec[d].recorded
        /\ x.rev = dec[d].rev /\ x.slot = dec[d].slot /\ x.late = dec[d].late
    BY <1>2 DEF Decider, Place
  <2> HIDE DEF x
  <2>4. DeciderOK(d, x, obs[o], rec[o], reply, dropped)
    BY <2>0, <2>1, <2>3 DEF DeciderOK, Acting, Bound
  <2>5. SlotInv'
    BY <1>1, <1>2, <2>0, <2>2, <2>3, SlotsKept DEF Decider
  <2>6. QED
    BY <1>3, <2>0, <2>2, <2>3, <2>4, <2>5
<1>7. CASE ReleaseSlot(d)
  <2>0. dec[d].pc = "release" /\ dec[d].pc \in Acting /\ slots' = SlotsWithout(d)
    BY <1>7 DEF ReleaseSlot, Acting
  <2>1. DeciderOK(d, dec[d], obs[o], rec[o], reply, dropped)
    BY <2>0, ActingFacts
  <2> DEFINE x == [dec[d] EXCEPT !.pc = "finalize", !.slot = FALSE]
  <2>2. dec' = [dec EXCEPT ![d] = x]
    BY <1>7 DEF ReleaseSlot
  <2>3. /\ x \in Decider /\ x.pc = "finalize" /\ x.obs = o /\ x.recorded = dec[d].recorded
        /\ x.rev = dec[d].rev /\ x.slot = FALSE /\ x.late = dec[d].late
    BY <1>2 DEF Decider, Place
  <2> HIDE DEF x
  <2>4. DeciderOK(d, x, obs[o], rec[o], reply, dropped)
    BY <2>0, <2>1, <2>3 DEF DeciderOK, Acting, Bound
  <2>5. SlotInv'
    BY <1>1, <2>0, <2>2, <2>3, SlotGivenBack
  <2>6. QED
    BY <1>3, <2>0, <2>2, <2>3, <2>4, <2>5
<1>8. CASE LateCandidates(d)
  <2>1. PICK late \in SUBSET {q \in Observations \ Incidents :
                                obs[q].state = "decided" /\ ~obs[q].produced} :
          dec' = [dec EXCEPT ![d] = [IdleDecider EXCEPT !.pc = "next", !.late = late]]
    BY <1>8 DEF LateCandidates
  <2> DEFINE x == [IdleDecider EXCEPT !.pc = "next", !.late = late]
  <2>2. late \in Questions
    BY DEF Questions
  <2>3. /\ x \in Decider /\ x.pc = "next" /\ x.late = late /\ x.rev = 1
        /\ x.slot = FALSE
    BY <2>2, IdleFields DEF Decider, Place
  <2>4. dec' = [dec EXCEPT ![d] = x] /\ slots' = slots
    BY <1>8, <2>1 DEF LateCandidates
  <2> HIDE DEF x
  <2>5. \A q \in Observations : Late(q)' => \/ Late(q)
                                            \/ obs[q].state = "decided" /\ obs[q].produced = FALSE
    <3>1. \A e \in Deciders : dec'[e] = IF e = d THEN x ELSE dec[e]
      BY <1>2, <2>4
    <3>2. \A q \in Observations : obs[q].produced \in BOOLEAN
      BY DEF IInv, Types, Obs
    <3>3. QED
      BY <2>3, <3>1, <3>2 DEF Late
  <2>6. SlotInv'
    BY <1>1, <2>3, <2>4, SlotsKept
  <2>7. DeciderOK(d, x, obs[x.obs], rec[x.obs], reply, dropped)
    BY <2>3, RestsOK
  <2>8. QED
    BY <1>1, <2>3, <2>4, <2>5, <2>6, <2>7, InnerStep
<1>9. CASE Reconsider(d)
  <2>1. CASE Return(d)
    <3>1. slots' = slots
      BY <1>9 DEF Reconsider
    <3>2. PICK x : Rests(d, x)
      BY <2>1, ErrorRests
    <3>3. obs' \in [Observations -> Obs] /\ faults' \in 0 .. MaxFaults
      BY <1>1 DEF IInv, Types
    <3>4. QED
      BY <1>1, <3>1, <3>2, <3>3, NothingWritten, RestStep
  <2>2. ASSUME NEW q \in dec[d].late,
               dec' = [dec EXCEPT ![d] = [IdleDecider EXCEPT !.pc = "scope", !.obs = q,
                                            !.rev = 2, !.late = dec[d].late \ {q}]]
        PROVE  IInv'
    <3> DEFINE l == dec[d].late \ {q}
               x == [IdleDecider EXCEPT !.pc = "scope", !.obs = q, !.rev = 2, !.late = l]
    <3>1. /\ q \in Observations /\ l \in Questions /\ l \subseteq dec[d].late
          /\ 2 \in Revisions /\ "scope" \in Place
      BY <1>2 DEF Decider, Questions, Revisions, Place
    <3>3. dec' = [dec EXCEPT ![d] = x] /\ slots' = slots
      BY <1>9, <2>2 DEF Reconsider
    <3> HIDE DEF l
    <3>2. /\ x \in Decider /\ x.pc = "scope" /\ x.late = l /\ x.rev = 2
          /\ x.slot = FALSE /\ x.obs = q
      BY <3>1, IdleFields DEF Decider
    <3> HIDE DEF x
    <3>4. \A p \in Observations : Late(p)' => Late(p)
      BY <3>1, <3>2, <3>3, NotLater
    <3>5. SlotInv'
      BY <1>1, <3>2, <3>3, SlotsKept
    <3>6. DeciderOK(d, x, obs[x.obs], rec[x.obs], reply, dropped)
      BY <3>1, <3>2, NamesAssumption DEF DeciderOK, Acting, Bound
    <3>7. QED
      BY <1>1, <3>2, <3>3, <3>4, <3>5, <3>6, InnerStep
  <2>3. QED
    BY <1>9, <2>1, <2>2 DEF Reconsider
<1>10. QED
  BY <1>4, <1>5, <1>6, <1>7, <1>8, <1>9

\* Decisions.Record, whoever calls it: the first decision of a revision stays, and
\* the one written first is written for an observation without an output.
LEMMA RecordWrites ==
  ASSUME IInv, NEW d \in Deciders, dec[d].pc \in Acting \ {"complete"}, NEW c \in Outcome,
         dec[d].obs \in Quiet => c = "silent",
         rec' = [rec EXCEPT ![dec[d].obs][dec[d].rev] = Recorded(dec[d].obs, dec[d].rev, c)],
         obs' = obs, job' = job, reply' = reply, dropped \subseteq dropped',
         \A o \in Observations : Late(o)' => Late(o)
  PROVE  /\ rec' \in [Observations -> Decisions]
         /\ rec'[dec[d].obs][dec[d].rev] = Recorded(dec[d].obs, dec[d].rev, c)
         /\ Recorded(dec[d].obs, dec[d].rev, c) \in Outcome
         /\ \A e \in Deciders \ {d} : Stands(e)
         /\ ObsInv'
<1> DEFINE q == dec[d].obs
           k == dec[d].rev
           v == Recorded(q, k, c)
<1>1. /\ q \in Observations /\ k \in {1, 2} /\ rec[q] \in Decisions
      /\ ObsOK(q, obs[q], rec[q], Late(q), job, reply, dropped)
      /\ k = 1 => obs[q].state = "processing" /\ rec[q][2] = "none" /\ ~Late(q)
      /\ k = 2 => Late(q)
  BY ActingFacts
<1> HIDE DEF Late
<1>2. rec[q] \in [{1, 2} -> Outcome \cup {"none"}]
  BY <1>1, {1, 2} = Revisions DEF Decisions, Revisions
<1>3. v \in Outcome /\ (rec[q][k] # "none" => v = rec[q][k])
      /\ (rec[q][k] = "none" => v = c)
  BY <1>1, <1>2 DEF Recorded
<1> DEFINE f == [rec[q] EXCEPT ![k] = v]
<1>4. rec' = [rec EXCEPT ![q] = f]
  OBVIOUS
<1> HIDE DEF v
<1>5. /\ f \in [{1, 2} -> Outcome \cup {"none"}] /\ f[k] = v
      /\ k = 1 => f[2] = rec[q][2]
      /\ k = 2 => f[1] = rec[q][1]
  BY <1>1, <1>2, <1>3
<1> HIDE DEF f
<1>6. f \in Decisions /\ rec \in [Observations -> Decisions]
  BY <1>5 DEF Decisions, Revisions, IInv, Types
<1>7. \A o \in Observations : rec'[o] = IF o = q THEN f ELSE rec[o]
  BY <1>1, <1>4, <1>6
<1>8. \A e \in Deciders \ {d} : Stands(e)
  <2> SUFFICES ASSUME NEW e \in Deciders \ {d} PROVE Stands(e)
    OBVIOUS
  <2>1. \A r \in {1, 2} : rec[q][r] # "none" => f[r] = rec[q][r]
    BY <1>1, <1>3, <1>5
  <2>2. dec[e].pc = "complete" /\ dec[e].obs = q => k # 1
    <3> SUFFICES ASSUME dec[e].pc = "complete", dec[e].obs = q, k = 1 PROVE FALSE
      OBVIOUS
    <3>1. dec[e].pc \in Acting
      BY DEF Acting
    <3>2. dec[e].rev = 1
      BY <3>1, ActingFacts DEF DeciderOK
    <3>3. QED
      BY <3>1, <3>2, OneDecider
  <2>3. {1, 2} = Revisions
    BY DEF Revisions
  <2>4. QED
    BY <1>1, <1>5, <1>7, <2>1, <2>2, <2>3 DEF Stands
<1>9. ObsInv'
  <2> SUFFICES ASSUME NEW o \in Observations
               PROVE  ObsOK(o, obs'[o], rec'[o], Late(o)', job', reply', dropped')
    BY DEF ObsInv
  <2>1. CASE o # q
    BY <1>7, <2>1, ObsStays
  <2>2. CASE o = q
    <3>1. /\ rec'[o] = f /\ rec[o] = rec[q]
          /\ k = 1 => obs[o].state = "processing" /\ rec[o][2] = "none" /\ ~Late(o)'
          /\ k = 2 => Late(o)
      BY <1>1, <1>7, <2>2
    <3>2. ObsOK(o, obs[o], rec[o], Late(o), job, reply, dropped) /\ (Late(o)' => Late(o))
      BY <1>1, <2>2
    <3> HIDE DEF q, k
    <3>3. CASE rec[q][k] # "none"
      <4>1. f[1] = rec[o][1] /\ f[2] = rec[o][2]
        BY <1>1, <1>3, <1>5, <3>1, <3>3
      <4>2. QED
        BY <3>1, <3>2, <4>1 DEF ObsOK
    <3>4. CASE rec[q][k] = "none"
      <4>1. obs[o].produced # TRUE /\ o \notin job \cup reply
        BY <1>1, <3>1, <3>2, <3>4 DEF ObsOK
      <4>2. CASE k = 1
        <5>1. f[1] = c /\ f[2] = "none"
          BY <1>3, <1>5, <3>1, <3>4, <4>2
        <5>2. QED
          BY <2>2, <3>1, <3>2, <4>1, <4>2, <5>1 DEF ObsOK, q
      <4>3. CASE k = 2
        <5>1. f[1] = rec[o][1]
          BY <1>5, <3>1, <4>3
        <5>2. QED
          BY <3>1, <3>2, <4>1, <4>3, <5>1 DEF ObsOK
      <4>4. QED
        BY <1>1, <4>2, <4>3
    <3>5. QED
      BY <3>3, <3>4
  <2>3. QED
    BY <2>1, <2>2
<1>10. rec' \in [Observations -> Decisions]
  BY <1>1, <1>4, <1>6
<1>11. QED
  BY <1>1, <1>3, <1>5, <1>7, <1>8, <1>9, <1>10 DEF v

\* A silent decision is recorded: a quiet turn, or the flood gate.
LEMMA SilenceActions ==
  ASSUME IInv, NEW d \in Deciders, SuppressQuiet(d) \/ FloodDrop(d)
  PROVE  IInv'
<1> DEFINE o == dec[d].obs
           k == dec[d].rev
<1>1. /\ dec[d].pc = "scope" /\ ReturnNil(d) /\ dec[d].pc \in Acting \ {"complete"}
      /\ rec' = [rec EXCEPT ![o][k] = Recorded(o, k, "silent")]
      /\ obs' = obs /\ job' = job /\ reply' = reply /\ slots' = slots /\ faults' = faults
  BY DEF SuppressQuiet, FloodDrop, RecordSilence, outputs, Acting
<1>2. /\ dropped \subseteq dropped'
      /\ dropped' \subseteq Observations
      /\ o \in Quiet \/ o \in dropped'
  BY <1>1, ActingFacts DEF SuppressQuiet, FloodDrop, IInv, Types
<1>3. "silent" \in Outcome
  BY DEF Outcome
<1>4. \A q \in Observations : Late(q)' => Late(q)
  BY <1>1, NilNotLater
<1>5. /\ rec' \in [Observations -> Decisions]
      /\ rec'[o][k] = Recorded(o, k, "silent")
      /\ \A e \in Deciders \ {d} : Stands(e)
      /\ ObsInv'
  BY <1>1, <1>2, <1>3, <1>4, RecordWrites
<1>6. (k = 1 /\ rec'[o][1] = "reply") => o \in reply \cup dropped'
  <2>1. ObsOK(o, obs[o], rec[o], Late(o), job, reply, dropped)
    BY <1>1, ActingFacts
  <2>2. o \in Quiet => rec[o][1] # "reply"
    BY <2>1 DEF ObsOK
  <2>3. QED
    BY <1>2, <1>5, <2>2 DEF Recorded
<1>7. obs' \in [Observations -> Obs]
  BY <1>1 DEF IInv, Types
<1> HIDE DEF o, k
<1>8. o = dec[d].obs /\ k = dec[d].rev
  BY DEF o, k
<1>9. QED
  BY <1>1, <1>2, <1>5, <1>6, <1>7, <1>8, NilStep

\* The decision is recorded, and the decider goes by what is on record.
LEMMA RecordAction ==
  ASSUME IInv, NEW d \in Deciders, Record(d)
  PROVE  IInv'
<1> DEFINE o == dec[d].obs
           k == dec[d].rev
           c == dec[d].decision
           v == Recorded(o, k, c)
<1>1. /\ dec[d].pc = "record" /\ dec[d].pc \in Acting \ {"complete"}
      /\ rec' = [rec EXCEPT ![o][k] = v]
      /\ obs' = obs /\ job' = job /\ reply' = reply /\ slots' = slots /\ faults' = faults
      /\ dropped' = dropped
  BY DEF Record, outputs, counts, Acting
<1>2. /\ dec[d] \in Decider /\ c \in Outcome /\ o \in Observations
      /\ DeciderOK(d, dec[d], obs[o], rec[o], reply, dropped) /\ k \in {1, 2}
  BY <1>1, ActingFacts DEF Decider
<1>3. o \notin Quiet /\ (c = "job" => dec[d].slot = TRUE)
  BY <1>1, <1>2 DEF DeciderOK
<1>4. obs' \in [Observations -> Obs] /\ dropped' \subseteq Observations
  BY <1>1 DEF IInv, Types
<1>5. CASE ReturnNil(d) /\ v # "reply"
  <2>1. \A q \in Observations : Late(q)' => Late(q)
    BY <1>5, NilNotLater
  <2>2. /\ rec' \in [Observations -> Decisions]
        /\ rec'[o][k] = v
        /\ \A e \in Deciders \ {d} : Stands(e)
        /\ ObsInv'
    BY <1>1, <1>2, <1>3, <2>1, RecordWrites
  <2>3. ~(k = 1 /\ rec'[o][1] = "reply")
    BY <1>5, <2>2
  <2> HIDE DEF o, k, v
  <2>4. o = dec[d].obs /\ k = dec[d].rev
    BY DEF o, k
  <2>5. QED
    BY <1>1, <1>4, <1>5, <2>2, <2>3, <2>4, NilStep
<1>6. CASE /\ v = "reply" \/ c = "job"
           /\ dec' = [dec EXCEPT ![d].recorded = v,
                         ![d].pc = IF v = "reply" THEN "reserve" ELSE "route"]
  <2> DEFINE to == IF v = "reply" THEN "reserve" ELSE "route"
             x == [dec[d] EXCEPT !.recorded = v, !.pc = to]
  <2>1. dec' = [dec EXCEPT ![d] = x]
    BY <1>6
  <2>2. (v = "reply" /\ to = "reserve") \/ (v # "reply" /\ to = "route")
    OBVIOUS
  <2>3. v \in Outcome
    <3>1. rec[o][k] \in Outcome \cup {"none"}
      BY <1>1, <1>2, ActingFacts DEF Decisions, Revisions
    <3>2. QED
      BY <1>2, <3>1 DEF Recorded
  <2> HIDE DEF to, v
  <2>4. /\ x \in Decider /\ x.pc = to /\ x.recorded = v /\ x.obs = o /\ x.rev = k
        /\ x.slot = dec[d].slot /\ x.late = dec[d].late
    BY <1>2, <2>2, <2>3 DEF Decider, Place
  <2> HIDE DEF x
  <2>5. \A q \in Observations : Late(q)' => Late(q)
    BY <1>2, <2>1, <2>4, NotLater
  <2>6. /\ rec' \in [Observations -> Decisions]
        /\ rec'[o][k] = v
        /\ \A e \in Deciders \ {d} : Stands(e)
        /\ ObsInv'
    BY <1>1, <1>2, <1>3, <2>5, RecordWrites DEF v
  <2>7. DeciderOK(d, x, obs'[x.obs], rec'[x.obs], reply', dropped')
    <3> HIDE DEF o, k, c
    <3>1. o = dec[d].obs /\ k = dec[d].rev
      BY DEF o, k
    <3>2. QED
      BY <1>1, <1>2, <1>3, <1>6, <2>2, <2>4, <2>6, <3>1 DEF DeciderOK, Acting, Bound
  <2>8. SlotInv'
    BY <1>1, <1>2, <2>1, <2>4, SlotsKept DEF Decider
  <2>9. job' \subseteq Observations /\ reply' \subseteq Observations /\ faults' \in 0 .. MaxFaults
    BY <1>1 DEF IInv, Types
  <2>10. QED
    BY <1>1, <1>4, <2>1, <2>4, <2>6, <2>7, <2>8, <2>9, DeciderMoves
<1>7. QED
  BY <1>5, <1>6 DEF Record

\* A write of the output fields of the decider's own observation.
LEMMA OutputWrites ==
  ASSUME IInv, NEW d \in Deciders, dec[d].pc \in Bound, NEW res \in BOOLEAN,
         obs' = [obs EXCEPT ![dec[d].obs].produced = TRUE, ![dec[d].obs].reserved = res],
         res = FALSE => (dec[d].recorded = "reply" => dec[d].obs \in reply),
         rec' = rec, job' = job, reply' = reply, dropped' = dropped,
         \A o \in Observations : Late(o)' => Late(o)
  PROVE  /\ obs' \in [Observations -> Obs]
         /\ obs'[dec[d].obs].produced = TRUE
         /\ obs'[dec[d].obs].state = obs[dec[d].obs].state
         /\ obs'[dec[d].obs].holder = obs[dec[d].obs].holder
         /\ obs'[dec[d].obs].live = obs[dec[d].obs].live
         /\ \A e \in Deciders \ {d} : Stands(e)
         /\ ObsInv'
<1> DEFINE q == dec[d].obs
           k == dec[d].rev
           y == [obs[q] EXCEPT !.produced = TRUE, !.reserved = res]
<1>1. dec[d].pc \in Acting
  BY DEF Bound, Acting
<1>2. /\ dec[d] \in Decider /\ q \in Observations /\ obs[q] \in Obs /\ k \in {1, 2}
      /\ DeciderOK(d, dec[d], obs[q], rec[q], reply, dropped)
      /\ k = 1 => rec[q][2] = "none" /\ ~Late(q)
  BY <1>1, ActingFacts
<1>3. obs' = [obs EXCEPT ![q] = y]
  OBVIOUS
<1>4. /\ y \in Obs /\ y.produced = TRUE /\ y.reserved = res /\ y.state = obs[q].state
      /\ y.holder = obs[q].holder /\ y.live = obs[q].live
  BY <1>2 DEF Obs
<1> HIDE DEF y, Late
<1>5. \A o \in Observations : obs'[o] = IF o = q THEN y ELSE obs[o]
  BY <1>2, <1>3 DEF IInv, Types
<1>6. \A e \in Deciders \ {d} : Stands(e)
  <2> HIDE DEF q, k
  <2>1. \A o \in Observations : /\ obs[o].produced = TRUE => obs'[o].produced = TRUE
                                /\ obs'[o].state = obs[o].state
                                /\ obs'[o].holder = obs[o].holder
                                /\ obs'[o].live = obs[o].live
    BY <1>4, <1>5
  <2>2. QED
    BY <2>1 DEF Stands
<1>7. ObsInv'
  <2> SUFFICES ASSUME NEW o \in Observations
               PROVE  ObsOK(o, obs'[o], rec'[o], Late(o)', job', reply', dropped')
    BY DEF ObsInv
  <2>1. CASE o # q
    BY <1>5, <2>1, ObsStays
  <2>2. CASE o = q
    <3>1. ObsOK(o, obs[o], rec[o], Late(o), job, reply, dropped) /\ (Late(o)' => Late(o))
      BY DEF IInv, ObsInv
    <3>2. dec[d].recorded = rec[o][k] /\ dec[d].recorded \in Outcome
      BY <1>2, <2>2 DEF DeciderOK, Decider
    <3>3. k = 1 => rec[o][2] = "none" /\ ~Late(o)
      BY <1>2, <2>2
    <3>4. obs'[o] = y /\ y.state = obs[o].state
      BY <1>4, <1>5, <2>2
    <3>5. rec[o][k] # "none" /\ (rec[o][1] # "none" \/ rec[o][2] # "none")
      BY <1>2, <3>2 DEF Outcome
    <3> HIDE DEF q, k
    <3>6. (res = FALSE /\ rec[o][1] = "reply" /\ rec[o][2] = "none") => o \in reply
      BY <1>2, <2>2, <3>2, <3>5 DEF q
    <3>7. rec[o][2] = "none" => ~Late(o)'
      BY <1>2, <3>1, <3>3, <3>5
    <3>8. QED
      BY <1>4, <3>1, <3>4, <3>5, <3>6, <3>7 DEF ObsOK
  <2>3. QED
    BY <2>1, <2>2
<1>8. obs' \in [Observations -> Obs]
  BY <1>2, <1>3, <1>4 DEF IInv, Types
<1>9. QED
  BY <1>2, <1>4, <1>5, <1>6, <1>7, <1>8

\* A reservation of the output, or the news that it is there already.
LEMMA ReserveAction ==
  ASSUME IInv, NEW d \in Deciders, ReserveOutput(d)
  PROVE  IInv'
<1> DEFINE o == dec[d].obs
<1>1. /\ dec[d].pc = "reserve" /\ dec[d].pc \in Bound /\ dec[d].pc \in Acting
      /\ rec' = rec /\ job' = job /\ reply' = reply /\ faults' = faults
      /\ dropped' = dropped
  BY DEF ReserveOutput, outputs, counts, Bound, Acting
<1>2. /\ dec[d] \in Decider /\ o \in Observations /\ obs[o] \in Obs /\ dec[d].rev \in {1, 2}
      /\ DeciderOK(d, dec[d], obs[o], rec[o], reply, dropped)
      /\ ObsOK(o, obs[o], rec[o], Late(o), job, reply, dropped)
      /\ dec[d].rev = 1 => rec[o][2] = "none"
  BY <1>1, ActingFacts
<1>3. /\ rec' \in [Observations -> Decisions] /\ job' \subseteq Observations
      /\ reply' \subseteq Observations /\ dropped' \subseteq Observations
      /\ faults' \in 0 .. MaxFaults
  BY <1>1 DEF IInv, Types
<1>4. CASE /\ obs' = [obs EXCEPT ![o].produced = TRUE, ![o].reserved = TRUE]
           /\ GoTo(d, "enqueue") /\ slots' = slots
  <2> DEFINE x == [dec[d] EXCEPT !.pc = "enqueue"]
  <2>1. dec' = [dec EXCEPT ![d] = x]
    BY <1>4 DEF GoTo
  <2>2. /\ x \in Decider /\ x.pc = "enqueue" /\ x.obs = o /\ x.recorded = dec[d].recorded
        /\ x.rev = dec[d].rev /\ x.slot = dec[d].slot /\ x.late = dec[d].late
    BY <1>2 DEF Decider, Place
  <2> HIDE DEF x
  <2>3. \A q \in Observations : Late(q)' => Late(q)
    BY <1>2, <2>1, <2>2, NotLater
  <2>4. /\ obs' \in [Observations -> Obs]
        /\ obs'[o].produced = TRUE
        /\ obs'[o].state = obs[o].state
        /\ obs'[o].holder = obs[o].holder
        /\ obs'[o].live = obs[o].live
        /\ \A e \in Deciders \ {d} : Stands(e)
        /\ ObsInv'
    BY <1>1, <1>4, <2>3, OutputWrites
  <2>5. DeciderOK(d, x, obs'[x.obs], rec'[x.obs], reply', dropped')
    <3> HIDE DEF o
    <3>1. o = dec[d].obs
      BY DEF o
    <3>2. QED
      BY <1>1, <1>2, <2>2, <2>4, <3>1 DEF DeciderOK, Acting, Bound
  <2>6. SlotInv'
    BY <1>1, <1>2, <1>4, <2>1, <2>2, SlotsKept DEF Decider
  <2>7. QED
    BY <1>1, <1>3, <2>1, <2>2, <2>4, <2>5, <2>6, DeciderMoves
<1>5. CASE /\ obs[o].produced /\ ~obs[o].reserved
           /\ slots' = SlotsWithout(d) /\ ReturnNil(d) /\ obs' = obs
  <2>1. (dec[d].rev = 1 /\ rec'[o][1] = "reply") => o \in reply
    <3>1. obs[o].produced = TRUE /\ obs[o].reserved = FALSE
      BY <1>2, <1>5 DEF Obs
    <3>2. QED
      BY <1>1, <1>2, <3>1 DEF ObsOK
  <2>2. \A q \in Observations : Late(q)' => Late(q)
    BY <1>5, NilNotLater
  <2>3. ObsInv'
    <3> SUFFICES ASSUME NEW q \in Observations
                 PROVE  ObsOK(q, obs'[q], rec'[q], Late(q)', job', reply', dropped')
      BY DEF ObsInv
    <3>1. QED
      BY <1>1, <1>5, <2>2, ObsStays
  <2>4. \A e \in Deciders \ {d} : Stands(e)
    BY <1>1, <1>5, NothingWritten
  <2>5. obs' \in [Observations -> Obs]
    BY <1>5 DEF IInv, Types
  <2>6. QED
    BY <1>1, <1>3, <1>5, <2>1, <2>3, <2>4, <2>5, NilStep
<1>6. QED
  BY <1>4, <1>5 DEF ReserveOutput

\* The output is enqueued: a reply or a job, as the record says.
LEMMA EnqueueActions ==
  ASSUME IInv, NEW d \in Deciders, EnqueueReply(d) \/ EnqueueJob(d)
  PROVE  IInv'
<1> DEFINE q == dec[d].obs
           k == dec[d].rev
<1>1. /\ dec[d].pc = "enqueue" /\ dec[d].pc \in Bound /\ dec[d].pc \in Acting
      /\ obs' = obs /\ rec' = rec /\ slots' = slots /\ faults' = faults
      /\ dropped' = dropped
  BY DEF EnqueueReply, EnqueueJob, counts, Bound, Acting
<1>2. /\ dec[d] \in Decider /\ q \in Observations /\ k \in {1, 2}
      /\ DeciderOK(d, dec[d], obs[q], rec[q], reply, dropped)
      /\ k = 1 => rec[q][2] = "none"
  BY <1>1, ActingFacts
<1>3. /\ dec[d].recorded \in Outcome /\ dec[d].recorded = rec[q][k]
      /\ obs[q].produced = TRUE
      /\ dec[d].recorded # "reply" => dec[d].slot = TRUE
  BY <1>1, <1>2 DEF DeciderOK, Decider
<1>4. /\ obs' \in [Observations -> Obs] /\ rec' \in [Observations -> Decisions]
      /\ job \subseteq Observations /\ reply \subseteq Observations
      /\ dropped' \subseteq Observations /\ faults' \in 0 .. MaxFaults
  BY <1>1 DEF IInv, Types
<1>5. \A e \in Deciders \ {d} : Stands(e)
  BY <1>1, NothingWritten
<1>6. CASE EnqueueReply(d)
  <2> DEFINE x == [dec[d] EXCEPT !.pc = "release"]
  <2>1. dec[d].recorded = "reply" /\ reply' = reply \cup {q} /\ job' = job
        /\ dec' = [dec EXCEPT ![d] = x]
    BY <1>6 DEF EnqueueReply, GoTo
  <2>2. /\ x \in Decider /\ x.pc = "release" /\ x.obs = q /\ x.recorded = "reply"
        /\ x.rev = k /\ x.slot = dec[d].slot /\ x.late = dec[d].late
    BY <1>2, <2>1 DEF Decider, Place
  <2> HIDE DEF x
  <2>3. \A o \in Observations : Late(o)' => Late(o)
    BY <1>2, <2>1, <2>2, NotLater
  <2>4. ObsInv'
    <3> SUFFICES ASSUME NEW o \in Observations
                 PROVE  ObsOK(o, obs'[o], rec'[o], Late(o)', job', reply', dropped')
      BY DEF ObsInv
    <3>1. ObsOK(o, obs[o], rec[o], Late(o), job, reply, dropped) /\ (Late(o)' => Late(o))
      BY <2>3 DEF IInv, ObsInv
    <3> HIDE DEF Late, q, k
    <3>2. o = q => /\ (rec[o][1] = "reply" /\ rec[o][2] = "none") \/ rec[o][2] = "reply"
                   /\ obs[o].produced = TRUE
      BY <1>2, <1>3, <2>1
    <3>3. QED
      BY <1>1, <2>1, <3>1, <3>2 DEF ObsOK
  <2>5. DeciderOK(d, x, obs'[x.obs], rec'[x.obs], reply', dropped')
    <3> HIDE DEF q, k
    <3>1. q = dec[d].obs /\ k = dec[d].rev
      BY DEF q, k
    <3>2. QED
      BY <1>1, <1>2, <1>3, <2>1, <2>2, <3>1 DEF DeciderOK, Acting, Bound
  <2>6. SlotInv'
    BY <1>1, <1>2, <2>1, <2>2, SlotsKept DEF Decider
  <2>7. reply' \subseteq Observations /\ reply \subseteq reply'
    BY <1>2, <1>4, <2>1
  <2>8. QED
    BY <1>1, <1>4, <1>5, <2>1, <2>2, <2>4, <2>5, <2>6, <2>7, DeciderMoves
<1>7. CASE EnqueueJob(d)
  <2> DEFINE x == [dec[d] EXCEPT !.pc = "finalize", !.slot = FALSE]
  <2>1. dec[d].recorded # "reply" /\ job' = job \cup {q} /\ reply' = reply
        /\ dec' = [dec EXCEPT ![d] = x]
    BY <1>7 DEF EnqueueJob
  <2>2. /\ x \in Decider /\ x.pc = "finalize" /\ x.obs = q /\ x.recorded = dec[d].recorded
        /\ x.rev = k /\ x.slot = FALSE /\ x.late = dec[d].late
    BY <1>2 DEF Decider, Place
  <2> HIDE DEF x
  <2>3. \A o \in Observations : Late(o)' => Late(o)
    BY <1>2, <2>1, <2>2, NotLater
  <2>4. ObsInv'
    <3> SUFFICES ASSUME NEW o \in Observations
                 PROVE  ObsOK(o, obs'[o], rec'[o], Late(o)', job', reply', dropped')
      BY DEF ObsInv
    <3>1. ObsOK(o, obs[o], rec[o], Late(o), job, reply, dropped) /\ (Late(o)' => Late(o))
      BY <2>3 DEF IInv, ObsInv
    <3> HIDE DEF Late, q, k
    <3>2. o = q => /\ \/ rec[o][1] \in {"silent", "job"} /\ rec[o][2] = "none"
                      \/ rec[o][2] \in {"silent", "job"}
                   /\ obs[o].produced = TRUE
      BY <1>2, <1>3, <2>1 DEF Outcome
    <3>3. QED
      BY <1>1, <2>1, <3>1, <3>2 DEF ObsOK
  <2>5. DeciderOK(d, x, obs'[x.obs], rec'[x.obs], reply', dropped')
    <3> HIDE DEF q, k
    <3>1. q = dec[d].obs /\ k = dec[d].rev
      BY DEF q, k
    <3>2. QED
      BY <1>1, <1>2, <1>3, <2>1, <2>2, <3>1 DEF DeciderOK, Acting, Bound
  <2>6. SlotInv'
    BY <1>1, <1>3, <2>1, <2>2, SlotTakenOver
  <2>7. job' \subseteq Observations
    BY <1>2, <1>4, <2>1
  <2>8. QED
    BY <1>1, <1>4, <1>5, <2>1, <2>2, <2>4, <2>5, <2>6, <2>7, DeciderMoves
<1>8. QED
  BY <1>6, <1>7

\* The output is final, or somebody else's call made it so.
LEMMA FinalizeAction ==
  ASSUME IInv, NEW d \in Deciders, FinalizeOutput(d)
  PROVE  IInv'
<1> DEFINE o == dec[d].obs
<1>1. /\ dec[d].pc = "finalize" /\ dec[d].pc \in Bound /\ dec[d].pc \in Acting
      /\ rec' = rec /\ job' = job /\ reply' = reply /\ slots' = slots /\ faults' = faults
      /\ dropped' = dropped
  BY DEF FinalizeOutput, outputs, counts, Bound, Acting
<1>2. /\ o \in Observations /\ obs[o] \in Obs
      /\ DeciderOK(d, dec[d], obs[o], rec[o], reply, dropped)
  BY <1>1, ActingFacts
<1>3. /\ obs[o].produced = TRUE
      /\ dec[d].recorded = rec[o][dec[d].rev]
      /\ dec[d].recorded = "reply" => o \in reply
  BY <1>1, <1>2 DEF DeciderOK
<1>4. CASE obs' = [obs EXCEPT ![o].reserved = FALSE] /\ ReturnNil(d)
  <2>1. obs' = [obs EXCEPT ![o].produced = TRUE, ![o].reserved = FALSE]
    <3>1. obs \in [Observations -> Obs]
      BY DEF IInv, Types
    <3>2. [obs[o] EXCEPT !.reserved = FALSE] = [obs[o] EXCEPT !.produced = TRUE, !.reserved = FALSE]
      BY <1>2, <1>3 DEF Obs
    <3>3. obs' = [obs EXCEPT ![o] = [obs[o] EXCEPT !.reserved = FALSE]]
      BY <1>4
    <3>4. obs' = [obs EXCEPT ![o] = [obs[o] EXCEPT !.produced = TRUE, !.reserved = FALSE]]
      BY <3>2, <3>3
    <3>5. QED
      BY <1>2, <3>1, <3>4
  <2>2. \A q \in Observations : Late(q)' => Late(q)
    BY <1>4, NilNotLater
  <2>3. /\ obs' \in [Observations -> Obs]
        /\ obs'[o].state = obs[o].state
        /\ obs'[o].holder = obs[o].holder
        /\ obs'[o].live = obs[o].live
        /\ \A e \in Deciders \ {d} : Stands(e)
        /\ ObsInv'
    BY <1>1, <1>3, <2>1, <2>2, OutputWrites
  <2>4. (dec[d].rev = 1 /\ rec'[o][1] = "reply") => o \in reply \cup dropped'
    BY <1>1, <1>3
  <2>5. rec' \in [Observations -> Decisions] /\ dropped' \subseteq Observations
    BY <1>1 DEF IInv, Types
  <2>6. QED
    BY <1>1, <1>4, <2>3, <2>4, <2>5, NilStep
<1>5. CASE ReturnError(d) /\ obs' = obs
  <2>1. PICK x : Rests(d, x)
    BY <1>5, ErrorRests
  <2>2. obs' \in [Observations -> Obs] /\ faults' \in 0 .. MaxFaults
    BY <1>1, <1>5 DEF IInv, Types
  <2>3. QED
    BY <1>1, <1>5, <2>1, <2>2, NothingWritten, RestStep
<1>6. QED
  BY <1>4, <1>5 DEF FinalizeOutput

\* A failed call, a crash.
LEMMA FaultActions ==
  ASSUME IInv, NEW d \in Deciders, Fail(d) \/ Crash(d)
  PROVE  IInv'
<1>1. /\ obs' = obs /\ rec' = rec /\ job' = job /\ reply' = reply /\ dropped' = dropped
      /\ slots' = slots \/ slots' = SlotsWithout(d)
      /\ ReturnError(d) \/ Return(d)
      /\ faults < MaxFaults /\ faults' = faults + 1
  BY DEF Fail, Crash, outputs
<1>2. faults' \in 0 .. MaxFaults /\ obs' \in [Observations -> Obs]
  BY <1>1, FaultsAssumption DEF IInv, Types
<1>3. PICK x : Rests(d, x)
  BY <1>1, ErrorRests
<1>4. QED
  BY <1>1, <1>2, <1>3, NothingWritten, RestStep

\* A lease runs out: not the one of a decider at work.
LEMMA ExpiryAction ==
  ASSUME ~Stalls, IInv, NEW q \in Observations, LeaseExpires(q)
  PROVE  IInv'
<1>1. /\ rec' = rec /\ job' = job /\ reply' = reply /\ slots' = slots /\ dec' = dec
      /\ faults' = faults /\ dropped' = dropped
      /\ obs' = [obs EXCEPT ![q].live = FALSE]
      /\ dec[obs[q].holder].obs # q \/ dec[obs[q].holder].rev # 1
  BY DEF LeaseExpires, outputs, counts
<1> DEFINE y == [obs[q] EXCEPT !.live = FALSE]
<1>2. obs \in [Observations -> Obs] /\ obs[q] \in Obs
  BY DEF IInv, Types
<1>3. /\ y \in Obs /\ y.state = obs[q].state /\ y.holder = obs[q].holder
      /\ y.produced = obs[q].produced /\ y.reserved = obs[q].reserved
  BY <1>2 DEF Obs
<1>4. obs' = [obs EXCEPT ![q] = y]
  BY <1>1
<1> HIDE DEF y
<1>5. \A o \in Observations : obs'[o] = IF o = q THEN y ELSE obs[o]
  BY <1>2, <1>4
<1>6. \A e \in Deciders : Stands(e)
  <2> SUFFICES ASSUME NEW e \in Deciders PROVE Stands(e)
    OBVIOUS
  <2>1. (dec[e].obs = q /\ dec[e].pc \in Acting) => dec[e].rev # 1
    BY <1>1 DEF IInv, DeciderInv, DeciderOK
  <2>2. QED
    BY <1>1, <1>3, <1>5, <2>1 DEF Stands
<1>7. DeciderInv'
  BY <1>1, <1>6, StandsOK DEF DeciderInv
<1>8. ObsInv'
  <2> SUFFICES ASSUME NEW o \in Observations
               PROVE  ObsOK(o, obs'[o], rec'[o], Late(o)', job', reply', dropped')
    BY DEF ObsInv
  <2>1. Late(o)' => Late(o)
    BY <1>1 DEF Late
  <2>2. QED
    BY <1>1, <1>3, <1>5, <2>1, ObsStays
<1>9. Types' /\ SlotInv'
  BY <1>1, <1>2, <1>3, <1>4 DEF IInv, Types, SlotInv, Holders
<1>10. QED
  BY <1>7, <1>8, <1>9 DEF IInv

(***************************************************************************)
(* The theorems.                                                           *)
(***************************************************************************)
\* Nothing is decided: the invariant holds initially.
LEMMA InitIInv == ASSUME Init PROVE IInv
<1>1. Types
  <2>1. Pending \in Obs /\ 0 \in 0 .. MaxFaults
    BY FaultsAssumption DEF Pending, Obs
  <2>2. [r \in Revisions |-> "none"] \in Decisions
    BY DEF Decisions
  <2>3. QED
    BY <2>1, <2>2, IdleFields DEF Init, Types
<1>2. DeciderInv
  BY IdleFields DEF Init, DeciderInv, DeciderOK, Acting, Bound
<1>3. ObsInv
  <2>1. \A o \in Observations : ~Late(o)
    BY IdleFields DEF Init, Late
  <2>2. \A o \in Observations : rec[o][1] = "none" /\ rec[o][2] = "none"
                                /\ obs[o].state = "pending" /\ obs[o].produced = FALSE
    BY DEF Init, Pending, Revisions
  <2>3. job = {} /\ reply = {}
    BY DEF Init
  <2> HIDE DEF Late
  <2>4. QED
    BY <2>1, <2>2, <2>3 DEF ObsInv, ObsOK
<1>4. SlotInv
  <2>1. Holders = {} /\ job = {} /\ slots = 0
    BY IdleFields DEF Init, Holders
  <2>2. QED
    BY <2>1, FS_EmptySet DEF SlotInv
<1>5. QED
  BY <1>1, <1>2, <1>3, <1>4 DEF IInv

\* Every step preserves the invariant, one lemma for each group of actions.
LEMMA NextIInv == ASSUME ~Stalls, IInv, [Next]_vars PROVE IInv'
<1>1. ASSUME NEW d \in Deciders, Step(d) PROVE IInv'
  BY <1>1, ClaimAction, DenyAction, SilenceActions, InnerActions, RecordAction,
     ReserveAction, EnqueueActions, FinalizeAction, CompleteAction DEF Step
<1>2. ASSUME NEW d \in Deciders, Fail(d) \/ Crash(d) PROVE IInv'
  BY <1>2, FaultActions
<1>3. ASSUME NEW o \in Observations, LeaseExpires(o) PROVE IInv'
  BY <1>3, ExpiryAction
<1>4. ASSUME UNCHANGED vars PROVE IInv'
  BY <1>4 DEF vars, IInv, Types, DeciderInv, ObsInv, Late, SlotInv, Holders
<1>5. QED
  BY <1>1, <1>2, <1>3, <1>4 DEF Next

\* The invariant says what the two properties say.
LEMMA IInvImplies == ASSUME IInv PROVE DecisionInv /\ RecordedReplyIsGiven
<1>1. TypeOK
  <2>1. \A d \in Deciders : /\ dec[d].pc \in Place
                            /\ dec[d].obs \in Observations \cup {None}
                            /\ dec[d].decision \in Outcome
                            /\ dec[d].late \subseteq Observations \ Incidents
    BY DEF IInv, Types, Decider, Questions
  <2>2. \A d \in Deciders : Working(d) \/ dec[d].pc \in {"idle", "release", "complete", "list", "next"}
    BY <2>1 DEF Working, Place
  <2>3. QED
    BY <2>1, <2>2 DEF IInv, Types, SlotInv, TypeOK, Obs, Decisions
<1>2. OneOutput
  BY DEF IInv, Types, ObsInv, ObsOK, OneOutput
<1>3. JobsKeepTheirSlot
  <2>1. {d \in Deciders : dec[d].slot} = Holders
    BY DEF IInv, Types, Decider, Holders
  <2>2. QED
    BY <2>1 DEF IInv, SlotInv, JobsKeepTheirSlot
<1>4. RecordedReplyIsGiven
  BY DEF IInv, ObsInv, ObsOK, RecordedReplyIsGiven
<1>5. QED
  BY <1>1, <1>2, <1>3, <1>4 DEF DecisionInv

\* decideObservation and its retries: however often an observation is decided again,
\* by whom and after which failure, it gets a job or a direct reply and never both,
\* and no slot is given back under a job or a decider that has it.
THEOREM DecisionSafe == ASSUME ~Stalls PROVE Spec => []DecisionInv
<1>1. Init => IInv
  BY InitIInv
<1>2. IInv /\ [Next]_vars => IInv'
  BY NextIInv
<1>3. IInv => DecisionInv
  BY IInvImplies
<1>4. QED
  BY <1>1, <1>2, <1>3, PTL DEF Spec

\* The reply on record is given: an observation is decided only when its reply is in
\* the delivery queue, wherever an earlier decider stopped, or the gate dropped it.
THEOREM ReplyGiven == ASSUME ~Stalls PROVE Spec => []RecordedReplyIsGiven
<1>1. Init => IInv
  BY InitIInv
<1>2. IInv /\ [Next]_vars => IInv'
  BY NextIInv
<1>3. IInv => RecordedReplyIsGiven
  BY IInvImplies
<1>4. QED
  BY <1>1, <1>2, <1>3, PTL DEF Spec
=============================================================================
