------------------------------ MODULE Admission ------------------------------
(***************************************************************************)
(* Channel admission (core/admission, the MongoDB controller): how many    *)
(* jobs of one channel run at a time and how many start in an hour.        *)
(*                                                                         *)
(* The channel has one counter document and one document per reservation,  *)
(* and no transaction spans the two.  A reservation is given back in four  *)
(* writes under a release lease: claim the release, lower the counter and  *)
(* leave a marker, finalize, pull the marker.  Admit repairs what crashed  *)
(* callers left behind before it counts.                                   *)
(*                                                                         *)
(* A caller reads the clock once, when its call starts.  Leases and        *)
(* expiry dates are abstracted to whether they have run out; the hour is   *)
(* kept because the counter document stores it.                            *)
(***************************************************************************)
EXTENDS Integers, FiniteSets

CONSTANTS Callers,               \* concurrent callers of Admit and Complete
          Reservations,          \* reservation ids
          None,                  \* no reservation, no caller
          MaxConcurrentJobs,     \* policy of the channel
          MaxResponsesPerHour,   \* policy of the channel
          MaxHour,               \* bound: the last hour
          MaxCrashes,            \* bound: how often a caller crashes
          Stalls                 \* whether a call may outlive the release lease
                                 \* or the hour it started in

ASSUME PolicyAssumption == /\ MaxConcurrentJobs \in Nat \ {0}
                           /\ MaxResponsesPerHour \in Nat \ {0}
ASSUME BoundsAssumption == MaxHour \in Nat /\ MaxCrashes \in Nat
ASSUME ReservationsAssumption == /\ IsFiniteSet(Reservations)
                                 /\ None \notin Reservations \cup Callers
ASSUME CallersAssumption == IsFiniteSet(Callers)
ASSUME StallsAssumption == Stalls \in BOOLEAN

VARIABLES state,     \* the counter document of the channel
          res,       \* the reservations collection
          call,      \* the call each caller has under way
          clock,     \* the current hour
          crashes,
          leaked,    \* history: charges nobody will ever give back
          admitted   \* history: admissions by the hour they were made in

vars == <<state, res, call, clock, crashes, leaked, admitted>>

(***************************************************************************)
(* Documents.  "open" is a reservation that is not completed; "deleted"    *)
(* one the TTL index on cleanup_at removed.  A caller has one release      *)
(* under way at a time, so its name stands for the token of its claim.     *)
(***************************************************************************)
ReleaseState == {"none", "open", "pending", "releasing", "released", "deleted"}

NoDocument == [state |-> "none", expired |-> FALSE, token |-> None, live |-> FALSE]
IdleCall == [pc |-> "idle", admit |-> FALSE, res |-> None, hour |-> 0,
             late |-> {}, markers |-> {}]

Init == /\ state = [active |-> 0, responses |-> 0, hour |-> 0, markers |-> {}]
        /\ res = [r \in Reservations |-> NoDocument]
        /\ call = [c \in Callers |-> IdleCall]
        /\ clock = 0
        /\ crashes = 0
        /\ leaked = 0
        /\ admitted = [h \in 0 .. MaxHour |-> 0]

GoTo(c, pc) == call' = [call EXCEPT ![c].pc = pc]
Return(c) == call' = [call EXCEPT ![c] = IdleCall]

\* The release leases that have run out when a call starts: it compares them
\* with the time it read then.
LeasesRunOut == {r \in Reservations : res[r].state = "releasing" /\ ~res[r].live}

\* Mutant of Releasable: nobody takes over from a releaser that died.
ReleasableWhenPending(c, r) == res[r].state = "pending"

\* A completed reservation that waits for its release, or whose releaser had run
\* out of time when c's call started.
Releasable(c, r) == \/ res[r].state = "pending"
                    \/ r \in LeasesRunOut \cap call[c].late

unstepped == <<clock, crashes>>
history == <<leaked, admitted>>

(***************************************************************************)
(* Admit: repair, then count, then record.                                 *)
(***************************************************************************)
\* Admit's first write, reconcileExpired: the reservations past their 24 hours
\* are completed.
Admit(c) ==
  /\ call[c].pc = "idle"
  /\ res' = [r \in Reservations |->
               IF res[r].state = "open" /\ res[r].expired
                 THEN [res[r] EXCEPT !.state = "pending"] ELSE res[r]]
  /\ call' = [call EXCEPT ![c] = [IdleCall EXCEPT !.pc = "find", !.admit = TRUE,
                                                  !.hour = clock,
                                                  !.late = LeasesRunOut]]
  /\ UNCHANGED <<state, unstepped, history>>

\* reconcilePendingReleases looks for one reservation after the other.
FindPending(c) ==
  /\ call[c].pc = "find"
  /\ \/ \E r \in Reservations :
          /\ Releasable(c, r)
          /\ call' = [call EXCEPT ![c].pc = "claim", ![c].res = r]
     \/ /\ \A r \in Reservations : ~Releasable(c, r)
        /\ call' = [call EXCEPT ![c].pc = "markers", ![c].res = None]
  /\ UNCHANGED <<state, res, unstepped, history>>

\* cleanupReleaseMarkers reads the markers, ...
ReadMarkers(c) ==
  /\ call[c].pc = "markers"
  /\ call' = [call EXCEPT ![c].pc = IF state.markers = {} THEN "count" ELSE "check",
                          ![c].markers = state.markers]
  /\ UNCHANGED <<state, res, unstepped, history>>

\* Mutant of CheckMarkers: every marker that was read is pulled.
CheckNoMarkers(c) ==
  /\ call[c].pc = "check"
  /\ GoTo(c, "prune")
  /\ UNCHANGED <<state, res, unstepped, history>>

\* ... keeps those whose reservation is there and not released, ...
CheckMarkers(c) ==
  /\ call[c].pc = "check"
  /\ LET removable == {r \in call[c].markers :
                         res[r].state \in {"released", "deleted"}}
     IN call' = [call EXCEPT ![c].pc = IF removable = {} THEN "count" ELSE "prune",
                             ![c].markers = removable]
  /\ UNCHANGED <<state, res, unstepped, history>>

\* ... and pulls the others.
PruneMarkers(c) ==
  /\ call[c].pc = "prune"
  /\ state' = [state EXCEPT !.markers = @ \ call[c].markers]
  /\ call' = [call EXCEPT ![c].pc = "count", ![c].markers = {}]
  /\ UNCHANGED <<res, unstepped, history>>

\* Mutant of WithinLimits: one job too many.
WithinOneMoreJob(hour) ==
  /\ state.active <= MaxConcurrentJobs
  /\ state.hour # hour \/ state.responses < MaxResponsesPerHour

\* The filter of the counter update; the cooldown is in Deny.
WithinLimits(hour) ==
  /\ state.active < MaxConcurrentJobs
  /\ state.hour # hour \/ state.responses < MaxResponsesPerHour

Count(c) ==
  LET hour == call[c].hour
  IN /\ call[c].pc = "count"
     /\ WithinLimits(hour)
     /\ state' = [state EXCEPT !.active = @ + 1, !.hour = hour,
                               !.responses = IF state.hour = hour THEN @ + 1 ELSE 1]
     /\ admitted' = [admitted EXCEPT ![hour] = @ + 1]
     /\ GoTo(c, "insert")
     /\ UNCHANGED <<res, unstepped, leaked>>

\* Denied by a limit, or by the cooldown that follows every admission.
Deny(c) ==
  /\ call[c].pc = "count"
  /\ ~WithinLimits(call[c].hour) \/ state.responses > 0
  /\ Return(c)
  /\ UNCHANGED <<state, res, unstepped, history>>

\* The reservation gets a fresh id.
Insert(c) ==
  /\ call[c].pc = "insert"
  /\ \E r \in Reservations :
       /\ res[r].state = "none"
       /\ res' = [res EXCEPT ![r].state = "open"]
  /\ Return(c)
  /\ UNCHANGED <<state, unstepped, history>>

\* The insertion fails: Admit takes its charge back, the response stays counted.
InsertFails(c) ==
  /\ call[c].pc = "insert"
  /\ GoTo(c, "undo")
  /\ UNCHANGED <<state, res, unstepped, history>>

Undo(c) ==
  /\ call[c].pc = "undo"
  /\ state' = [state EXCEPT !.active = IF @ > 0 THEN @ - 1 ELSE @]
  /\ Return(c)
  /\ UNCHANGED <<res, unstepped, history>>

(***************************************************************************)
(* Complete, and the release it shares with Admit (releaseReservation).    *)
(***************************************************************************)
\* Any job that ends calls Complete, some of them twice.
Complete(c, r) ==
  /\ call[c].pc = "idle"
  /\ res[r].state # "none"
  /\ res' = [res EXCEPT ![r].state = IF @ = "open" THEN "pending" ELSE @]
  /\ call' = [call EXCEPT ![c] = [IdleCall EXCEPT !.pc = "claim", !.res = r,
                                                  !.late = LeasesRunOut]]
  /\ UNCHANGED <<state, unstepped, history>>

\* What follows a release that is over, or that another caller has claimed.
NextRelease(c) ==
  IF call[c].admit THEN GoTo(c, "find") ELSE Return(c)

\* The release lease goes to one caller at a time.
ClaimRelease(c) ==
  LET r == call[c].res
  IN /\ call[c].pc = "claim"
     /\ \/ /\ Releasable(c, r)
           /\ res' = [res EXCEPT ![r] = [@ EXCEPT !.state = "releasing",
                                                  !.token = c, !.live = TRUE]]
           /\ GoTo(c, "discharge")
        \/ ~Releasable(c, r) /\ NextRelease(c) /\ UNCHANGED res
     /\ UNCHANGED <<state, unstepped, history>>

\* Lower the counter and leave the marker in one update, unless the marker says
\* that an earlier claim got this far.
Discharge(c) ==
  LET r == call[c].res
  IN /\ call[c].pc = "discharge"
     /\ state' = IF r \in state.markers
                   THEN state
                   ELSE [state EXCEPT !.active = IF @ > 0 THEN @ - 1 ELSE 0,
                                      !.markers = @ \cup {r}]
     /\ GoTo(c, "finalize")
     /\ UNCHANGED <<res, unstepped, history>>

\* Finalizing is fenced by the release token, not by the lease.
Finalize(c) ==
  LET r == call[c].res
  IN /\ call[c].pc = "finalize"
     /\ \/ /\ res[r].state = "releasing"
           /\ res[r].token = c
           /\ res' = [res EXCEPT ![r] = [@ EXCEPT !.state = "released",
                                                  !.token = None, !.live = FALSE]]
           /\ GoTo(c, "pull")
        \/ /\ ~(res[r].state = "releasing" /\ res[r].token = c)
           /\ NextRelease(c)
           /\ UNCHANGED res
     /\ UNCHANGED <<state, unstepped, history>>

PullMarker(c) ==
  /\ call[c].pc = "pull"
  /\ state' = [state EXCEPT !.markers = @ \ {call[c].res}]
  /\ NextRelease(c)
  /\ UNCHANGED <<res, unstepped, history>>

(***************************************************************************)
(* Crashes and time.                                                       *)
(***************************************************************************)
\* A charge that has no reservation yet is lost with its caller.
Crash(c) ==
  /\ call[c].pc # "idle"
  /\ crashes < MaxCrashes
  /\ crashes' = crashes + 1
  /\ leaked' = leaked + (IF call[c].pc \in {"insert", "undo"} THEN 1 ELSE 0)
  /\ Return(c)
  /\ UNCHANGED <<state, res, clock, admitted>>

\* Somebody is between the claim of r's release and its finalization.
InRelease(r) == \E c \in Callers : /\ call[c].pc \in {"discharge", "finalize"}
                                  /\ call[c].res = r

\* 30 seconds after the claim; a caller that does not stall is done by then.
ReleaseLeaseExpires(r) ==
  /\ res[r].live
  /\ Stalls \/ ~InRelease(r)
  /\ res' = [res EXCEPT ![r].live = FALSE]
  /\ UNCHANGED <<state, call, unstepped, history>>

\* 24 hours after the admission.
ReservationExpires(r) ==
  /\ res[r].state = "open"
  /\ ~res[r].expired
  /\ res' = [res EXCEPT ![r].expired = TRUE]
  /\ UNCHANGED <<state, call, unstepped, history>>

\* The charge of r is still in the counter.
Charged(r) == /\ res[r].state \in {"open", "pending", "releasing"}
              /\ r \notin state.markers

\* 24 hours after the completion, released or not: a channel nobody wrote to in
\* between loses what was not released.
CleanupDeletes(r) ==
  /\ res[r].state \in {"pending", "releasing", "released"}
  /\ Stalls \/ ~InRelease(r)
  /\ res' = [res EXCEPT ![r] = [NoDocument EXCEPT !.state = "deleted"]]
  /\ leaked' = leaked + (IF Charged(r) THEN 1 ELSE 0)
  /\ UNCHANGED <<state, call, unstepped, admitted>>

HourTurns ==
  /\ clock < MaxHour
  /\ Stalls \/ \A c \in Callers : ~call[c].admit
  /\ clock' = clock + 1
  /\ UNCHANGED <<state, res, call, crashes, history>>

(***************************************************************************)
(* The specification.                                                      *)
(***************************************************************************)
\* A call that was made runs to its end.
Step(c) ==
  \/ FindPending(c) \/ ReadMarkers(c) \/ CheckMarkers(c) \/ PruneMarkers(c)
  \/ Count(c) \/ Deny(c) \/ Insert(c) \/ InsertFails(c) \/ Undo(c)
  \/ ClaimRelease(c) \/ Discharge(c) \/ Finalize(c) \/ PullMarker(c)

Next ==
  \/ \E c \in Callers : Admit(c) \/ Step(c) \/ Crash(c)
  \/ \E c \in Callers, r \in Reservations : Complete(c, r)
  \/ \E r \in Reservations :
       ReleaseLeaseExpires(r) \/ ReservationExpires(r) \/ CleanupDeletes(r)
  \/ HourTurns

\* A caller's operations return, time passes, and messages keep arriving in the
\* channel: every one of them calls Admit.
Fairness == /\ \A c \in Callers : WF_vars(Step(c)) /\ SF_vars(Admit(c))
            /\ \A r \in Reservations : /\ WF_vars(ReleaseLeaseExpires(r))
                                       /\ WF_vars(ReservationExpires(r))

Spec == Init /\ [][Next]_vars
FairSpec == Spec /\ Fairness

(***************************************************************************)
(* Properties.                                                             *)
(***************************************************************************)
\* Every variable has its type.
TypeOK ==
  /\ state \in [active : Nat, responses : Nat, hour : 0 .. MaxHour,
                markers : SUBSET Reservations]
  /\ res \in [Reservations -> [state : ReleaseState, expired : BOOLEAN,
                               token : Callers \cup {None}, live : BOOLEAN]]
  /\ \A c \in Callers :
       /\ call[c].pc \in {"idle", "find", "claim", "discharge", "finalize", "pull",
                          "markers", "check", "prune", "count", "insert", "undo"}
       /\ call[c].res \in Reservations \cup {None}
       /\ call[c].markers \cup call[c].late \subseteq Reservations
  /\ clock \in 0 .. MaxHour
  /\ crashes \in 0 .. MaxCrashes
  /\ leaked \in Nat
  /\ admitted \in [0 .. MaxHour -> Nat]

\* The callers that have counted an admission and not recorded it yet.
Recording == {c \in Callers : call[c].pc \in {"insert", "undo"}}

\* active is the number of reservations not given back, plus the admissions not
\* recorded yet, plus what crashes and the cleanup leaked: every reservation is
\* charged once and discharged at most once, whoever completes, expires or
\* repairs it, and wherever its releaser crashed.
ActiveCountsCharges ==
  state.active = Cardinality({r \in Reservations : Charged(r)})
                 + Cardinality(Recording) + leaked

\* At most MaxConcurrentJobs jobs of the channel are admitted at a time.
NeverOverAdmits ==
  Cardinality({r \in Reservations : res[r].state = "open"}) <= MaxConcurrentJobs

\* No more than MaxResponsesPerHour admissions are made in one hour.
BudgetPerHour == \A h \in 0 .. MaxHour : admitted[h] <= MaxResponsesPerHour

\* The documents are well formed, and however many callers admit, complete and repair
\* at once, neither limit of the channel's policy is passed.
AdmissionInv == TypeOK /\ NeverOverAdmits /\ BudgetPerHour

\* A reservation that was completed, or that expired, is given back in the end,
\* wherever the callers that worked on it crashed, unless its document is
\* cleaned up first.
CompletedIsReleased ==
  \A r \in Reservations :
    (res[r].state \in {"pending", "releasing"} \/ res[r].expired) ~>
      res[r].state \in {"released", "deleted"}
=============================================================================
