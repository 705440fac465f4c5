--------------------------- MODULE AdmissionProofs ---------------------------
(***************************************************************************)
(* ActiveCountsCharges and AdmissionInv for any number of callers and      *)
(* reservations, every policy of the channel and any number of crashes,    *)
(* when no call outlives its release lease or its hour (~Stalls).          *)
(*                                                                         *)
(* Why the counter is right: a marker tells whether the charge of a        *)
(* reservation is out of the counter, it is written with the counter and   *)
(* pulled only for a reservation that is final.  Whoever takes a release   *)
(* over therefore sees what was done.  The two limits follow: what is open *)
(* is charged, and the hour of the counter never runs back.                *)
(***************************************************************************)
EXTENDS Admission, FiniteSetTheorems, TLAPS

State == [active : Nat, responses : Nat, hour : 0 .. MaxHour,
          markers : SUBSET Reservations]
Document == [state : ReleaseState, expired : BOOLEAN, token : Callers \cup {None},
             live : BOOLEAN]
Place == {"idle", "find", "claim", "discharge", "finalize", "pull", "markers", "check",
          "prune", "count", "insert", "undo"}
Hours == 0 .. MaxHour
Sets == SUBSET Reservations
Call == [pc : Place, admit : BOOLEAN, res : Reservations \cup {None}, hour : Hours,
         late : Sets, markers : Sets]

\* The states a document does not leave but to be deleted.
Final == {"released", "deleted"}
Releasing == {"discharge", "finalize"}
Admitting == {"find", "markers", "check", "prune", "count", "insert", "undo"}

\* The call x of c, against the reservations rs, the markers mk and the hour h: a
\* releaser has the release lease, its marker is there once it has lowered the
\* counter, and what it pulls is final.
CallOK(c, x, rs, mk, h) ==
  /\ x.pc \in Releasing \cup {"claim", "pull"} => x.res # None
  /\ x.pc \in Admitting => x.admit = TRUE
  /\ x.admit = TRUE => x.hour = h
  /\ x.pc \in Releasing => /\ rs[x.res].state = "releasing"
                           /\ rs[x.res].token = c
                           /\ rs[x.res].live = TRUE
  /\ x.pc = "finalize" => x.res \in mk
  /\ x.pc = "pull" => rs[x.res].state \in Final
  /\ x.pc = "prune" => \A r \in x.markers : rs[r].state \in Final

Types == /\ state \in State
         /\ res \in [Reservations -> Document]
         /\ call \in [Callers -> Call]
         /\ clock \in Hours
         /\ crashes \in 0 .. MaxCrashes
         /\ leaked \in Nat
         /\ admitted \in [Hours -> Nat]

CallInv == \A c \in Callers : CallOK(c, call[c], res, state.markers, clock)

\* A reservation that is not completed has no marker.
MarkerInv == \A r \in Reservations : res[r].state \in {"none", "open"} => r \notin state.markers

Charges == {r \in Reservations : Charged(r)}
CountInv == /\ state.active = Cardinality(Charges) + Cardinality(Recording) + leaked
            /\ state.active <= MaxConcurrentJobs

\* The counter is of the last hour in which somebody was admitted.
HourInv == /\ state.hour <= clock
           /\ admitted[state.hour] = state.responses
           /\ \A h \in Hours : h > state.hour => admitted[h] = 0
           /\ \A h \in Hours : admitted[h] <= MaxResponsesPerHour

IInv == Types /\ CallInv /\ MarkerInv /\ CountInv /\ HourInv

(***************************************************************************)
(* What a step leaves alone.                                               *)
(***************************************************************************)
\* Documents that are final stay so, and only their markers are pulled.
Keeps == /\ \A r \in Reservations : res[r].state \in Final => res'[r].state \in Final
         /\ \A r \in state.markers : r \in state'.markers \/ res[r].state \in Final

\* The release that e has under way is not touched.
Stands(e) == call[e].pc \in Releasing =>
               /\ res'[call[e].res].state = res[call[e].res].state
               /\ res'[call[e].res].token = res[call[e].res].token
               /\ res'[call[e].res].live = res[call[e].res].live

\* A caller that does not move keeps its part of the invariant.
LEMMA StandsOK ==
  ASSUME IInv, Keeps, NEW e \in Callers, Stands(e)
  PROVE  CallOK(e, call[e], res', state'.markers, clock)
<1>1. call[e] \in Call /\ CallOK(e, call[e], res, state.markers, clock)
  BY DEF IInv, Types, CallInv
<1>2. call[e].pc \in Releasing \cup {"pull"} => call[e].res \in Reservations
  BY <1>1 DEF CallOK, Call
<1>3. call[e].markers \subseteq Reservations
  BY <1>1 DEF Call, Sets
<1>4. call[e].pc = "finalize" => call[e].res \in state'.markers
  BY <1>1 DEF CallOK, Keeps, Final, Releasing
<1>5. QED
  BY <1>1, <1>2, <1>3, <1>4 DEF CallOK, Keeps, Stands

\* The caller c becomes x; the rest is the effect on the documents and counts.
LEMMA CallerMoves ==
  ASSUME IInv, NEW c \in Callers, NEW x \in Call, call' = [call EXCEPT ![c] = x],
         state' \in State, res' \in [Reservations -> Document], clock' = clock,
         crashes' \in 0 .. MaxCrashes, leaked' \in Nat, admitted' \in [Hours -> Nat],
         Keeps, \A e \in Callers \ {c} : Stands(e),
         CallOK(c, x, res', state'.markers, clock),
         MarkerInv', CountInv', HourInv'
  PROVE  IInv'
<1>1. Types'
  BY DEF IInv, Types
<1>2. CallInv'
  <2> SUFFICES ASSUME NEW e \in Callers
               PROVE  CallOK(e, call'[e], res', state'.markers, clock)
    BY DEF CallInv
  <2>1. call'[e] = IF e = c THEN x ELSE call[e]
    BY DEF IInv, Types
  <2>2. QED
    BY <2>1, StandsOK
<1>3. QED
  BY <1>1, <1>2 DEF IInv

\* Two callers do not release one reservation.
LEMMA OneReleaser ==
  ASSUME IInv, NEW c \in Callers, NEW e \in Callers, call[c].pc \in Releasing,
         call[e].pc \in Releasing, call[c].res = call[e].res
  PROVE  c = e
  BY DEF IInv, CallInv, CallOK

(***************************************************************************)
(* The count.                                                              *)
(***************************************************************************)
\* What is counted is finite.
LEMMA Finite ==
  /\ IsFiniteSet(Charges) /\ Cardinality(Charges) \in Nat
  /\ IsFiniteSet(Recording) /\ Cardinality(Recording) \in Nat
<1>1. Charges \in SUBSET Reservations /\ Recording \in SUBSET Callers
  BY DEF Charges, Recording
<1>2. IsFiniteSet(Charges) /\ IsFiniteSet(Recording)
  BY <1>1, FS_Subset, ReservationsAssumption, CallersAssumption
<1>3. QED
  BY <1>2, FS_CardinalityType

\* The recording callers after c became x.
LEMMA RecordingAfter ==
  ASSUME IInv, NEW c \in Callers, NEW x \in Call, call' = [call EXCEPT ![c] = x]
  PROVE  /\ x.pc \in {"insert", "undo"} => Recording' = Recording \cup {c}
         /\ x.pc \notin {"insert", "undo"} => Recording' = Recording \ {c}
         /\ c \in Recording <=> call[c].pc \in {"insert", "undo"}
<1>1. \A e \in Callers : call'[e] = IF e = c THEN x ELSE call[e]
  BY DEF IInv, Types
<1>2. QED
  BY <1>1 DEF Recording

\* A caller that neither counts nor records leaves the recording callers as they are.
LEMMA RecordingSame ==
  ASSUME IInv, NEW c \in Callers, NEW x \in Call, call' = [call EXCEPT ![c] = x],
         x.pc \in {"insert", "undo"} <=> call[c].pc \in {"insert", "undo"}
  PROVE  Recording' = Recording
<1>1. CASE x.pc \in {"insert", "undo"}
  <2>1. Recording' = Recording \cup {c} /\ c \in Recording
    BY <1>1, RecordingAfter
  <2>2. QED
    BY <2>1
<1>2. CASE x.pc \notin {"insert", "undo"}
  <2>1. Recording' = Recording \ {c} /\ c \notin Recording
    BY <1>2, RecordingAfter
  <2>2. QED
    BY <2>1
<1>3. QED
  BY <1>1, <1>2

\* Nothing that is counted changes.
LEMMA CountSame ==
  ASSUME IInv, \A r \in Reservations : Charged(r)' <=> Charged(r), Recording' = Recording,
         state'.active = state.active, leaked' = leaked
  PROVE  CountInv'
<1>1. Charges' = Charges
  BY DEF Charges
<1>2. QED
  BY <1>1 DEF IInv, CountInv

\* The hour and its responses stay.
LEMMA HourSame ==
  ASSUME IInv, state'.hour = state.hour, state'.responses = state.responses,
         admitted' = admitted, clock' = clock
  PROVE  HourInv'
  BY DEF IInv, HourInv

\* Only the call of c goes on.
LEMMA InnerStep ==
  ASSUME IInv, NEW c \in Callers, NEW x \in Call, call' = [call EXCEPT ![c] = x],
         UNCHANGED <<state, res, unstepped, history>>,
         x.pc \in {"insert", "undo"} <=> call[c].pc \in {"insert", "undo"},
         CallOK(c, x, res, state.markers, clock)
  PROVE  IInv'
<1>1. state' = state /\ res' = res /\ clock' = clock /\ crashes' = crashes
      /\ leaked' = leaked /\ admitted' = admitted
  BY DEF unstepped, history
<1>2. Keeps /\ \A e \in Callers \ {c} : Stands(e)
  BY <1>1 DEF Keeps, Stands
<1>3. CountInv'
  <2>1. \A r \in Reservations : Charged(r)' <=> Charged(r)
    BY <1>1 DEF Charged
  <2>2. Recording' = Recording
    BY RecordingSame
  <2>3. QED
    BY <1>1, <2>1, <2>2, CountSame
<1>4. MarkerInv' /\ HourInv'
  BY <1>1, HourSame DEF IInv, MarkerInv
<1>5. /\ state' \in State /\ res' \in [Reservations -> Document]
      /\ crashes' \in 0 .. MaxCrashes /\ leaked' \in Nat /\ admitted' \in [Hours -> Nat]
  BY <1>1 DEF IInv, Types
<1>6. QED
  BY <1>1, <1>2, <1>3, <1>4, <1>5, CallerMoves

\* The idle call, field by field.
LEMMA IdleFields ==
  /\ IdleCall \in Call
  /\ IdleCall.pc = "idle"
  /\ IdleCall.admit = FALSE
  /\ IdleCall.res = None
  /\ IdleCall.markers = {}
<1>1. 0 \in Hours /\ {} \in Sets /\ "idle" \in Place
  BY BoundsAssumption DEF Hours, Sets, Place
<1>2. QED
  BY <1>1 DEF IdleCall, Call

\* A call that is over, or an Admit that looks for the next release.
Rests(c, x) == /\ call' = [call EXCEPT ![c] = x]
               /\ x \in Call
               /\ x.pc \in {"idle", "find"}
               /\ \A rs, mk : CallOK(c, x, rs, mk, clock)

\* Returning, and going on after a release, both rest.
LEMMA Returns ==
  ASSUME IInv, NEW c \in Callers, Return(c) \/ NextRelease(c)
  PROVE  \E x : Rests(c, x)
<1> DEFINE y == [call[c] EXCEPT !.pc = "find"]
<1>0. call[c] \in Call /\ CallOK(c, call[c], res, state.markers, clock)
  BY DEF IInv, Types, CallInv
<1>1. CASE call' = [call EXCEPT ![c] = IdleCall]
  <2>1. \A rs, mk : CallOK(c, IdleCall, rs, mk, clock)
    BY IdleFields DEF CallOK, Releasing, Admitting
  <2>2. Rests(c, IdleCall)
    BY <1>1, <2>1, IdleFields DEF Rests
  <2>3. QED
    BY <2>2
<1>2. CASE call[c].admit = TRUE /\ call' = [call EXCEPT ![c] = y]
  <2>1. y \in Call /\ y.pc = "find" /\ y.admit = call[c].admit /\ y.hour = call[c].hour
    BY <1>0 DEF Call, Place
  <2> HIDE DEF y
  <2>2. \A rs, mk : CallOK(c, y, rs, mk, clock)
    BY <1>0, <1>2, <2>1 DEF CallOK, Releasing, Admitting
  <2>3. Rests(c, y)
    BY <1>2, <2>1, <2>2 DEF Rests
  <2>4. QED
    BY <2>3
<1>3. QED
  BY <1>0, <1>1, <1>2 DEF Return, NextRelease, GoTo, Call

\* A call rests and nothing else happens.
LEMMA RestStep ==
  ASSUME IInv, NEW c \in Callers, Return(c) \/ NextRelease(c),
         call[c].pc \notin {"insert", "undo"}, UNCHANGED <<state, res, unstepped, history>>
  PROVE  IInv'
<1>1. PICK x : Rests(c, x)
  BY Returns
<1>2. QED
  BY <1>1, InnerStep DEF Rests

(***************************************************************************)
(* The actions, one lemma each or one for a group of a kind.               *)
(***************************************************************************)
\* Looking for a release to repair.
LEMMA FindPendingIInv ==
  ASSUME IInv, NEW c \in Callers, FindPending(c)
  PROVE  IInv'
<1>0. call[c] \in Call /\ CallOK(c, call[c], res, state.markers, clock)
  BY DEF IInv, Types, CallInv
<1>1. CASE \E r \in Reservations : call' = [call EXCEPT ![c].pc = "claim", ![c].res = r]
  <2>1. PICK r \in Reservations : call' = [call EXCEPT ![c].pc = "claim", ![c].res = r]
    BY <1>1
  <2> DEFINE x == [call[c] EXCEPT !.pc = "claim", !.res = r]
  <2>2. /\ call' = [call EXCEPT ![c] = x] /\ x \in Call /\ x.pc = "claim" /\ x.res = r
        /\ x.admit = call[c].admit /\ x.hour = call[c].hour
    BY <1>0, <2>1 DEF Call, Place
  <2> HIDE DEF x
  <2>3. CallOK(c, x, res, state.markers, clock)
    BY <1>0, <2>2, ReservationsAssumption DEF CallOK, Releasing, Admitting
  <2>4. QED
    BY <2>2, <2>3, InnerStep DEF FindPending
<1>2. CASE call' = [call EXCEPT ![c].pc = "markers", ![c].res = None]
  <2> DEFINE x == [call[c] EXCEPT !.pc = "markers", !.res = None]
  <2>2. /\ call' = [call EXCEPT ![c] = x] /\ x \in Call /\ x.pc = "markers"
        /\ x.admit = call[c].admit /\ x.hour = call[c].hour
    BY <1>0, <1>2 DEF Call, Place
  <2> HIDE DEF x
  <2>3. CallOK(c, x, res, state.markers, clock)
    BY <1>0, <2>2 DEF CallOK, Releasing, Admitting, FindPending
  <2>4. QED
    BY <2>2, <2>3, InnerStep DEF FindPending
<1>3. QED
  BY <1>1, <1>2 DEF FindPending

\* Reading the markers and sorting out the ones to pull.
LEMMA MarkersIInv ==
  ASSUME IInv, NEW c \in Callers, ReadMarkers(c) \/ CheckMarkers(c)
  PROVE  IInv'
<1>0. call[c] \in Call /\ CallOK(c, call[c], res, state.markers, clock)
  BY DEF IInv, Types, CallInv
<1>1. CASE ReadMarkers(c)
  <2> DEFINE p == IF state.markers = {} THEN "count" ELSE "check"
             x == [call[c] EXCEPT !.pc = p, !.markers = state.markers]
  <2>1. p \in {"count", "check"} /\ p \in Place /\ state.markers \in Sets
    BY DEF IInv, Types, State, Sets, Place
  <2>2. call' = [call EXCEPT ![c].pc = p, ![c].markers = state.markers]
    BY <1>1 DEF ReadMarkers
  <2> HIDE DEF p
  <2>3. /\ call' = [call EXCEPT ![c] = x] /\ x \in Call /\ x.pc = p
        /\ x.admit = call[c].admit /\ x.hour = call[c].hour
    BY <1>0, <2>1, <2>2 DEF Call
  <2> HIDE DEF x
  <2>4. CallOK(c, x, res, state.markers, clock)
    BY <1>0, <1>1, <2>1, <2>3 DEF CallOK, Releasing, Admitting, ReadMarkers
  <2>5. QED
    BY <1>1, <2>1, <2>3, <2>4, InnerStep DEF ReadMarkers
<1>2. CASE CheckMarkers(c)
  <2> DEFINE mk == {r \in call[c].markers : res[r].state \in {"released", "deleted"}}
             p == IF mk = {} THEN "count" ELSE "prune"
             x == [call[c] EXCEPT !.pc = p, !.markers = mk]
  <2>1. p \in {"count", "prune"} /\ p \in Place /\ mk \in Sets
    BY <1>0 DEF Call, Sets, Place
  <2>2. call' = [call EXCEPT ![c].pc = p, ![c].markers = mk]
    BY <1>2 DEF CheckMarkers
  <2>3. \A r \in mk : res[r].state \in Final
    BY DEF Final
  <2> HIDE DEF p, mk
  <2>4. /\ call' = [call EXCEPT ![c] = x] /\ x \in Call /\ x.pc = p
        /\ x.admit = call[c].admit /\ x.hour = call[c].hour /\ x.markers = mk
    BY <1>0, <2>1, <2>2 DEF Call
  <2> HIDE DEF x
  <2>5. CallOK(c, x, res, state.markers, clock)
    BY <1>0, <1>2, <2>1, <2>3, <2>4 DEF CallOK, Releasing, Admitting, CheckMarkers
  <2>6. QED
    BY <1>2, <2>1, <2>4, <2>5, InnerStep DEF CheckMarkers
<1>3. QED
  BY <1>1, <1>2

\* The insertion fails.
LEMMA InsertFailsIInv ==
  ASSUME IInv, NEW c \in Callers, InsertFails(c)
  PROVE  IInv'
<1>0. call[c] \in Call /\ CallOK(c, call[c], res, state.markers, clock)
  BY DEF IInv, Types, CallInv
<1> DEFINE x == [call[c] EXCEPT !.pc = "undo"]
<1>1. /\ call' = [call EXCEPT ![c] = x] /\ x \in Call /\ x.pc = "undo"
      /\ x.admit = call[c].admit /\ x.hour = call[c].hour
  BY <1>0 DEF Call, Place, InsertFails, GoTo
<1> HIDE DEF x
<1>2. CallOK(c, x, res, state.markers, clock)
  BY <1>0, <1>1 DEF CallOK, Releasing, Admitting, InsertFails
<1>3. QED
  BY <1>1, <1>2, InnerStep DEF InsertFails

\* An admission denied.
LEMMA DenyIInv ==
  ASSUME IInv, NEW c \in Callers, Deny(c)
  PROVE  IInv'
  BY RestStep DEF Deny

(***************************************************************************)
(* The actions that write a reservation and leave the counter alone.       *)
(***************************************************************************)
\* Documents change under the step of c, and what is charged stays the same.
LEMMA DocumentStep ==
  ASSUME IInv, NEW c \in Callers, NEW x \in Call, call' = [call EXCEPT ![c] = x],
         res' \in [Reservations -> Document], UNCHANGED <<state, unstepped, history>>,
         x.pc \in {"insert", "undo"} <=> call[c].pc \in {"insert", "undo"},
         \A r \in Reservations : Charged(r)' <=> Charged(r),
         \A r \in Reservations :
           res'[r].state \in {"none", "open"} => res[r].state \in {"none", "open"},
         \A r \in Reservations : res[r].state \in Final => res'[r].state \in Final,
         \A e \in Callers \ {c} : Stands(e),
         CallOK(c, x, res', state.markers, clock)
  PROVE  IInv'
<1>1. state' = state /\ clock' = clock /\ crashes' = crashes
      /\ leaked' = leaked /\ admitted' = admitted
  BY DEF unstepped, history
<1>2. Keeps
  BY <1>1 DEF Keeps
<1>3. CountInv'
  BY <1>1, RecordingSame, CountSame
<1>4. MarkerInv' /\ HourInv'
  BY <1>1, HourSame DEF IInv, MarkerInv
<1>5. /\ state' \in State /\ crashes' \in 0 .. MaxCrashes /\ leaked' \in Nat
      /\ admitted' \in [Hours -> Nat]
  BY <1>1 DEF IInv, Types
<1>6. QED
  BY <1>1, <1>2, <1>3, <1>4, <1>5, CallerMoves

\* Admit completes what expired.
LEMMA AdmitIInv ==
  ASSUME IInv, NEW c \in Callers, Admit(c)
  PROVE  IInv'
<1> DEFINE x == [IdleCall EXCEPT !.pc = "find", !.admit = TRUE, !.hour = clock,
                                 !.late = LeasesRunOut]
<1>1. LeasesRunOut \in Sets /\ clock \in Hours
  BY DEF LeasesRunOut, Sets, IInv, Types
<1>2. /\ call' = [call EXCEPT ![c] = x] /\ x \in Call /\ x.pc = "find"
      /\ x.admit = TRUE /\ x.hour = clock
  BY <1>1, IdleFields DEF Call, Place, Admit
<1>3. CallOK(c, x, res', state.markers, clock)
  <2> HIDE DEF x
  <2>1. QED
    BY <1>2 DEF CallOK, Releasing, Admitting
<1>4. \A r \in Reservations :
        /\ res[r] \in Document
        /\ res'[r] = IF res[r].state = "open" /\ res[r].expired
                       THEN [res[r] EXCEPT !.state = "pending"] ELSE res[r]
  BY DEF IInv, Types, Admit
<1>5. \A r \in Reservations :
        /\ res'[r] \in Document
        /\ res'[r].state # res[r].state => res[r].state = "open" /\ res'[r].state = "pending"
        /\ res'[r].token = res[r].token
        /\ res'[r].live = res[r].live
  BY <1>4 DEF Document, ReleaseState
<1>6. res' \in [Reservations -> Document]
  BY <1>5 DEF Admit
<1>7. \A e \in Callers \ {c} : Stands(e)
  BY <1>5 DEF Stands, IInv, CallInv, CallOK, Types, Call, Releasing
<1>8. \A r \in Reservations : Charged(r)' <=> Charged(r)
  BY <1>5 DEF Charged, Admit
<1>9. \A r \in Reservations :
        /\ res'[r].state \in {"none", "open"} => res[r].state \in {"none", "open"}
        /\ res[r].state \in Final => res'[r].state \in Final
  BY <1>5 DEF Final
<1>10. call[c].pc = "idle" /\ UNCHANGED <<state, unstepped, history>>
  BY DEF Admit
<1> HIDE DEF x
<1>11. QED
  BY <1>2, <1>3, <1>6, <1>7, <1>8, <1>9, <1>10, DocumentStep

\* A job ends: its reservation is completed, unless it was.
LEMMA CompleteIInv ==
  ASSUME IInv, NEW c \in Callers, NEW r \in Reservations, Complete(c, r)
  PROVE  IInv'
<1> DEFINE x == [IdleCall EXCEPT !.pc = "claim", !.res = r, !.late = LeasesRunOut]
<1>1. LeasesRunOut \in Sets
  BY DEF LeasesRunOut, Sets
<1>2. /\ call' = [call EXCEPT ![c] = x] /\ x \in Call /\ x.pc = "claim"
      /\ x.admit = FALSE /\ x.res = r
  BY <1>1, IdleFields DEF Call, Place, Complete
<1>3. CallOK(c, x, res', state.markers, clock)
  <2> HIDE DEF x
  <2>1. QED
    BY <1>2, ReservationsAssumption DEF CallOK, Releasing, Admitting
<1>4. res \in [Reservations -> Document]
  BY DEF IInv, Types
<1>5. \A q \in Reservations :
        /\ res'[q] \in Document
        /\ res'[q].state # res[q].state => res[q].state = "open" /\ res'[q].state = "pending"
        /\ res'[q].token = res[q].token
        /\ res'[q].live = res[q].live
  BY <1>4 DEF Document, ReleaseState, Complete
<1>6. res' \in [Reservations -> Document]
  BY <1>4, <1>5 DEF Complete
<1>7. \A e \in Callers \ {c} : Stands(e)
  BY <1>5 DEF Stands, IInv, CallInv, CallOK, Types, Call, Releasing
<1>8. \A q \in Reservations : Charged(q)' <=> Charged(q)
  BY <1>5 DEF Charged, Complete
<1>9. \A q \in Reservations :
        /\ res'[q].state \in {"none", "open"} => res[q].state \in {"none", "open"}
        /\ res[q].state \in Final => res'[q].state \in Final
  BY <1>5 DEF Final
<1>10. call[c].pc = "idle" /\ UNCHANGED <<state, unstepped, history>>
  BY DEF Complete
<1> HIDE DEF x
<1>11. QED
  BY <1>2, <1>3, <1>6, <1>7, <1>8, <1>9, <1>10, DocumentStep

\* The release lease is taken, or is somebody else's.
LEMMA ClaimReleaseIInv ==
  ASSUME IInv, NEW c \in Callers, ClaimRelease(c)
  PROVE  IInv'
<1> DEFINE r == call[c].res
           x == [call[c] EXCEPT !.pc = "discharge"]
<1>0. /\ call[c] \in Call /\ CallOK(c, call[c], res, state.markers, clock)
      /\ res \in [Reservations -> Document]
  BY DEF IInv, Types, CallInv
<1>1. r \in Reservations
  BY <1>0 DEF CallOK, Call, ClaimRelease
<1>2. CASE ~Releasable(c, r)
  BY <1>2, RestStep DEF ClaimRelease
<1>3. CASE Releasable(c, r)
  <2>1. /\ call' = [call EXCEPT ![c] = x] /\ x \in Call /\ x.pc = "discharge"
        /\ x.admit = call[c].admit /\ x.hour = call[c].hour /\ x.res = r
    BY <1>0, <1>3 DEF Call, Place, ClaimRelease, GoTo
  <2>2. res' = [res EXCEPT ![r] = [res[r] EXCEPT !.state = "releasing", !.token = c,
                                                 !.live = TRUE]]
    BY <1>3 DEF ClaimRelease
  <2>3. \A q \in Reservations : q # r => res'[q] = res[q]
    BY <1>0, <1>1, <2>2
  <2>4. /\ res'[r] \in Document /\ res'[r].state = "releasing" /\ res'[r].token = c
        /\ res'[r].live = TRUE
    BY <1>0, <1>1, <2>2 DEF Document, ReleaseState
  <2>5. res' \in [Reservations -> Document]
    BY <1>0, <2>2, <2>3, <2>4
  <2>6. res[r].state = "pending" \/ (res[r].state = "releasing" /\ ~res[r].live)
    BY <1>3 DEF Releasable, LeasesRunOut
  <2> HIDE DEF r, x
  <2>7. CallOK(c, x, res', state.markers, clock)
    BY <1>0, <1>1, <2>1, <2>4, ReservationsAssumption DEF CallOK, Releasing, Admitting
  <2>8. \A e \in Callers \ {c} : Stands(e)
    BY <2>3, <2>6 DEF Stands, IInv, CallInv, CallOK, Types, Call, Releasing
  <2>9. \A q \in Reservations : Charged(q)' <=> Charged(q)
    BY <2>3, <2>4, <2>6 DEF Charged, ClaimRelease
  <2>10. \A q \in Reservations :
           /\ res'[q].state \in {"none", "open"} => res[q].state \in {"none", "open"}
           /\ res[q].state \in Final => res'[q].state \in Final
    BY <2>3, <2>4, <2>6 DEF Final
  <2>11. call[c].pc = "claim" /\ UNCHANGED <<state, unstepped, history>>
    BY DEF ClaimRelease
  <2>12. QED
    BY <2>1, <2>5, <2>7, <2>8, <2>9, <2>10, <2>11, DocumentStep
<1>4. QED
  BY <1>2, <1>3

\* The release is final; its charge was out of the counter before.
LEMMA FinalizeIInv ==
  ASSUME IInv, NEW c \in Callers, Finalize(c)
  PROVE  IInv'
<1> DEFINE r == call[c].res
           x == [call[c] EXCEPT !.pc = "pull"]
<1>0. /\ call[c] \in Call /\ CallOK(c, call[c], res, state.markers, clock)
      /\ res \in [Reservations -> Document] /\ call[c].pc = "finalize"
  BY DEF IInv, Types, CallInv, Finalize
<1>1. r \in Reservations /\ r \in state.markers /\ res[r].state = "releasing"
  BY <1>0 DEF CallOK, Call, Releasing
<1>2. CASE NextRelease(c) /\ UNCHANGED res
  BY <1>0, <1>2, RestStep DEF Finalize
<1>3. CASE ~(NextRelease(c) /\ UNCHANGED res)
  <2>1. /\ call' = [call EXCEPT ![c] = x] /\ x \in Call /\ x.pc = "pull"
        /\ x.admit = call[c].admit /\ x.hour = call[c].hour /\ x.res = r
    BY <1>0, <1>3 DEF Call, Place, Finalize, GoTo
  <2>2. res' = [res EXCEPT ![r] = [res[r] EXCEPT !.state = "released", !.token = None,
                                                 !.live = FALSE]]
    BY <1>3 DEF Finalize
  <2>3. \A q \in Reservations : q # r => res'[q] = res[q]
    BY <1>0, <1>1, <2>2
  <2>4. res'[r] \in Document /\ res'[r].state = "released"
    BY <1>0, <1>1, <2>2 DEF Document, ReleaseState
  <2>5. res' \in [Reservations -> Document]
    BY <1>0, <2>2, <2>3, <2>4
  <2> HIDE DEF r, x
  <2>6. r = call[c].res
    BY DEF r
  <2>7. CallOK(c, x, res', state.markers, clock)
    BY <1>0, <1>1, <2>1, <2>4, ReservationsAssumption DEF CallOK, Releasing, Admitting, Final
  <2>8. ASSUME NEW e \in Callers \ {c} PROVE Stands(e)
    <3>1. call[e].pc \in Releasing => call[e].res # r /\ call[e].res \in Reservations
      BY <1>0, <2>6, OneReleaser DEF IInv, CallInv, CallOK, Types, Call, Releasing
    <3>2. QED
      BY <2>3, <3>1 DEF Stands
  <2>9. \A q \in Reservations : Charged(q)' <=> Charged(q)
    BY <1>1, <2>3, <2>4 DEF Charged, Finalize
  <2>10. \A q \in Reservations :
           /\ res'[q].state \in {"none", "open"} => res[q].state \in {"none", "open"}
           /\ res[q].state \in Final => res'[q].state \in Final
    BY <2>3, <2>4 DEF Final
  <2>11. UNCHANGED <<state, unstepped, history>>
    BY DEF Finalize
  <2>12. QED
    BY <1>0, <2>1, <2>5, <2>7, <2>8, <2>9, <2>10, <2>11, DocumentStep
<1>4. QED
  BY <1>2, <1>3

(***************************************************************************)
(* The actions that write the counter document or what is counted.         *)
(***************************************************************************)
\* Markers of final reservations are pulled: nothing of it was counted.
LEMMA PullStep ==
  ASSUME IInv, NEW c \in Callers, NEW x \in Call, call' = [call EXCEPT ![c] = x],
         NEW M \in Sets, \A r \in M : res[r].state \in Final,
         state' = [state EXCEPT !.markers = @ \ M], UNCHANGED <<res, unstepped, history>>,
         x.pc \notin {"insert", "undo"}, call[c].pc \notin {"insert", "undo"},
         \A mk : CallOK(c, x, res, mk, clock)
  PROVE  IInv'
<1>1. res' = res /\ clock' = clock /\ crashes' = crashes
      /\ leaked' = leaked /\ admitted' = admitted
  BY DEF unstepped, history
<1>2. /\ state' \in State /\ state'.markers = state.markers \ M
      /\ state'.active = state.active /\ state'.hour = state.hour
      /\ state'.responses = state.responses /\ M \subseteq Reservations
  BY DEF IInv, Types, State, Sets
<1>3. Keeps /\ \A e \in Callers \ {c} : Stands(e)
  BY <1>1, <1>2 DEF Keeps, Stands
<1>4. CountInv'
  <2>1. \A r \in Reservations : Charged(r)' <=> Charged(r)
    BY <1>1, <1>2 DEF Charged, Final
  <2>2. QED
    BY <1>1, <1>2, <2>1, RecordingSame, CountSame
<1>5. MarkerInv' /\ HourInv'
  BY <1>1, <1>2, HourSame DEF IInv, MarkerInv
<1>6. /\ res' \in [Reservations -> Document]
      /\ crashes' \in 0 .. MaxCrashes /\ leaked' \in Nat /\ admitted' \in [Hours -> Nat]
  BY <1>1 DEF IInv, Types
<1>7. QED
  BY <1>1, <1>2, <1>3, <1>4, <1>5, <1>6, CallerMoves

\* The markers found removable are pulled.
LEMMA PruneMarkersIInv ==
  ASSUME IInv, NEW c \in Callers, PruneMarkers(c)
  PROVE  IInv'
<1>0. call[c] \in Call /\ CallOK(c, call[c], res, state.markers, clock)
  BY DEF IInv, Types, CallInv
<1> DEFINE x == [call[c] EXCEPT !.pc = "count", !.markers = {}]
<1>1. {} \in Sets
  BY DEF Sets
<1>2. /\ call' = [call EXCEPT ![c] = x] /\ x \in Call /\ x.pc = "count"
      /\ x.admit = call[c].admit /\ x.hour = call[c].hour
  BY <1>0, <1>1 DEF Call, Place, PruneMarkers
<1> HIDE DEF x
<1>3. \A mk : CallOK(c, x, res, mk, clock)
  BY <1>0, <1>2 DEF CallOK, Releasing, Admitting, PruneMarkers
<1>4. call[c].markers \in Sets /\ \A r \in call[c].markers : res[r].state \in Final
  BY <1>0 DEF CallOK, Call, PruneMarkers
<1>5. QED
  BY <1>2, <1>3, <1>4, PullStep DEF PruneMarkers

\* The marker of a release that is over is pulled.
LEMMA PullMarkerIInv ==
  ASSUME IInv, NEW c \in Callers, PullMarker(c)
  PROVE  IInv'
<1>0. call[c] \in Call /\ CallOK(c, call[c], res, state.markers, clock)
  BY DEF IInv, Types, CallInv
<1>1. PICK x : Rests(c, x)
  BY Returns DEF PullMarker
<1>2. {call[c].res} \in Sets /\ \A r \in {call[c].res} : res[r].state \in Final
  BY <1>0 DEF CallOK, Call, PullMarker, Sets
<1>3. QED
  BY <1>1, <1>2, PullStep DEF PullMarker, Rests

\* An admission is counted.
LEMMA CountIInv ==
  ASSUME IInv, NEW c \in Callers, Count(c)
  PROVE  IInv'
<1>0. call[c] \in Call /\ CallOK(c, call[c], res, state.markers, clock)
  BY DEF IInv, Types, CallInv
<1> DEFINE x == [call[c] EXCEPT !.pc = "insert"]
<1>1. /\ call' = [call EXCEPT ![c] = x] /\ x \in Call /\ x.pc = "insert"
      /\ x.admit = call[c].admit /\ x.hour = call[c].hour
  BY <1>0 DEF Call, Place, Count, GoTo
<1> HIDE DEF x
<1>2. call[c].pc = "count" /\ call[c].hour = clock /\ clock \in Hours /\ clock \in Nat
  BY <1>0, BoundsAssumption DEF CallOK, Admitting, Count, IInv, Types, Hours
<1>3. CallOK(c, x, res, state.markers, clock)
  BY <1>0, <1>1, <1>2 DEF CallOK, Releasing, Admitting
<1>4. /\ res' = res /\ clock' = clock /\ crashes' = crashes /\ leaked' = leaked
      /\ admitted' = [admitted EXCEPT ![clock] = @ + 1]
      /\ state.active < MaxConcurrentJobs
      /\ state.hour = clock => state.responses < MaxResponsesPerHour
  BY <1>2 DEF unstepped, Count, WithinLimits
<1>5. /\ state \in State /\ admitted \in [Hours -> Nat]
  BY DEF IInv, Types
<1>6. /\ state' \in State /\ state'.markers = state.markers
      /\ state'.active = state.active + 1 /\ state'.hour = clock
      /\ state'.responses = IF state.hour = clock THEN state.responses + 1 ELSE 1
  <2> DEFINE n == IF state.hour = clock THEN state.responses + 1 ELSE 1
  <2>1. state' = [state EXCEPT !.active = state.active + 1, !.hour = clock, !.responses = n]
    BY <1>2 DEF Count
  <2>2. n \in Nat
    BY <1>5 DEF State
  <2> HIDE DEF n
  <2>3. /\ state' \in State /\ state'.markers = state.markers
        /\ state'.active = state.active + 1 /\ state'.hour = clock /\ state'.responses = n
    <3>1. state.active + 1 \in Nat /\ clock \in 0 .. MaxHour
      BY <1>2, <1>5 DEF State, Hours
    <3>2. QED
      BY <1>5, <2>1, <2>2, <3>1 DEF State
  <2>4. QED
    BY <2>3 DEF n
<1>7. Keeps /\ \A e \in Callers \ {c} : Stands(e)
  BY <1>4, <1>6 DEF Keeps, Stands
<1>8. CountInv'
  <2>1. Charges' = Charges
    BY <1>4, <1>6 DEF Charges, Charged
  <2>2. Recording' = Recording \cup {c} /\ c \notin Recording
    BY <1>1, <1>2, RecordingAfter
  <2>3. Cardinality(Recording') = Cardinality(Recording) + 1
    BY <2>2, Finite, FS_AddElement
  <2>4. leaked \in Nat /\ state.active \in Nat
    BY DEF IInv, Types, State
  <2>5. QED
    BY <1>4, <1>6, <2>1, <2>3, <2>4, Finite, PolicyAssumption DEF IInv, CountInv
<1>9. MarkerInv'
  BY <1>4, <1>6 DEF IInv, MarkerInv
<1>10. HourInv'
  <2>1. /\ state.hour \in Hours /\ state.responses \in Nat /\ state.hour \in Nat
        /\ \A h \in Hours : h \in Nat /\ admitted[h] \in Nat
    BY <1>5, BoundsAssumption DEF State, Hours
  <2>2. \A h \in Hours : admitted'[h] = IF h = clock THEN admitted[clock] + 1 ELSE admitted[h]
    BY <1>2, <1>4, <1>5
  <2>3. admitted[clock] = IF state.hour = clock THEN state.responses ELSE 0
    BY <1>2, <2>1 DEF IInv, HourInv
  <2>4. \A h \in Hours : h > clock => admitted[h] = 0
    BY <1>2, <2>1 DEF IInv, HourInv
  <2>5. \A h \in Hours : admitted[h] <= MaxResponsesPerHour
    BY DEF IInv, HourInv
  <2>6. admitted'[clock] = state'.responses /\ admitted'[clock] <= MaxResponsesPerHour
    BY <1>2, <1>4, <1>6, <2>1, <2>2, <2>3, PolicyAssumption
  <2>7. \A h \in Hours : /\ h > clock => admitted'[h] = 0
                         /\ admitted'[h] <= MaxResponsesPerHour
    <3> SUFFICES ASSUME NEW h \in Hours
                 PROVE  (h > clock => admitted'[h] = 0) /\ admitted'[h] <= MaxResponsesPerHour
      OBVIOUS
    <3>1. CASE h = clock
      BY <1>2, <2>6, <3>1
    <3>2. CASE h # clock
      BY <1>2, <2>2, <2>4, <2>5, <3>2
    <3>3. QED
      BY <3>1, <3>2
  <2>8. /\ state'.hour <= clock'
        /\ admitted'[state'.hour] = state'.responses
        /\ \A h \in Hours : h > state'.hour => admitted'[h] = 0
        /\ \A h \in Hours : admitted'[h] <= MaxResponsesPerHour
    BY <1>2, <1>4, <1>6, <2>6, <2>7
  <2>9. QED
    BY <2>8 DEF HourInv
<1>11. /\ res' \in [Reservations -> Document]
       /\ crashes' \in 0 .. MaxCrashes /\ leaked' \in Nat /\ admitted' \in [Hours -> Nat]
  BY <1>2, <1>4, <1>5 DEF IInv, Types
<1>12. QED
  BY <1>1, <1>3, <1>4, <1>6, <1>7, <1>8, <1>9, <1>10, <1>11, CallerMoves

\* An admission is recorded.
LEMMA InsertIInv ==
  ASSUME IInv, NEW c \in Callers, Insert(c)
  PROVE  IInv'
<1>1. PICK x : Rests(c, x)
  BY Returns DEF Insert
<1>2. PICK r \in Reservations : /\ res[r].state = "none"
                                /\ res' = [res EXCEPT ![r].state = "open"]
  BY DEF Insert
<1>3. state' = state /\ clock' = clock /\ crashes' = crashes
      /\ leaked' = leaked /\ admitted' = admitted /\ call[c].pc = "insert"
  BY DEF unstepped, history, Insert
<1>4. /\ \A q \in Reservations : q # r => res'[q] = res[q]
      /\ res'[r] \in Document /\ res'[r].state = "open"
      /\ res' \in [Reservations -> Document]
  BY <1>2 DEF IInv, Types, Document, ReleaseState
<1>5. Keeps
  BY <1>2, <1>3, <1>4 DEF Keeps, Final
<1>6. \A e \in Callers \ {c} : Stands(e)
  BY <1>2, <1>4 DEF Stands, IInv, CallInv, CallOK, Types, Call, Releasing
<1>7. r \notin state.markers
  BY <1>2 DEF IInv, MarkerInv
<1>8. CountInv'
  <2>1. Charges' = Charges \cup {r} /\ r \notin Charges
    BY <1>2, <1>3, <1>4, <1>7 DEF Charges, Charged
  <2>2. Recording' = Recording \ {c} /\ c \in Recording
    BY <1>1, <1>3, RecordingAfter DEF Rests
  <2>3. /\ Cardinality(Charges') = Cardinality(Charges) + 1
        /\ Cardinality(Recording') = Cardinality(Recording) - 1
    BY <2>1, <2>2, Finite, FS_AddElement, FS_RemoveElement
  <2>4. leaked \in Nat /\ state.active \in Nat
    BY DEF IInv, Types, State
  <2>5. QED
    BY <1>3, <2>3, <2>4, Finite DEF IInv, CountInv
<1>9. MarkerInv' /\ HourInv'
  BY <1>3, <1>4, <1>7, HourSame DEF IInv, MarkerInv
<1>10. /\ state' \in State /\ crashes' \in 0 .. MaxCrashes /\ leaked' \in Nat
       /\ admitted' \in [Hours -> Nat]
  BY <1>3 DEF IInv, Types
<1>11. QED
  BY <1>1, <1>3, <1>4, <1>5, <1>6, <1>8, <1>9, <1>10, CallerMoves DEF Rests

\* A charge whose reservation could not be inserted is taken back.
LEMMA UndoIInv ==
  ASSUME IInv, NEW c \in Callers, Undo(c)
  PROVE  IInv'
<1>1. PICK x : Rests(c, x)
  BY Returns DEF Undo
<1>2. res' = res /\ clock' = clock /\ crashes' = crashes
      /\ leaked' = leaked /\ admitted' = admitted /\ call[c].pc = "undo"
  BY DEF unstepped, history, Undo
<1>3. /\ leaked \in Nat /\ state.active \in Nat /\ state \in State
      /\ state.active = Cardinality(Charges) + Cardinality(Recording) + leaked
      /\ state.active <= MaxConcurrentJobs
  BY DEF IInv, Types, State, CountInv
<1>4. Recording' = Recording \ {c} /\ c \in Recording
  BY <1>1, <1>2, RecordingAfter DEF Rests
<1>5. Cardinality(Recording') = Cardinality(Recording) - 1 /\ Cardinality(Recording') \in Nat
  BY <1>4, Finite, FS_RemoveElement, FS_CardinalityType
<1>6. state.active > 0 /\ state.active - 1 \in Nat
  BY <1>3, <1>5, Finite
<1>7. state' = [state EXCEPT !.active = state.active - 1]
  BY <1>6 DEF Undo
<1>8. /\ state' \in State /\ state'.markers = state.markers
      /\ state'.active = state.active - 1 /\ state'.hour = state.hour
      /\ state'.responses = state.responses
  BY <1>3, <1>6, <1>7 DEF State
<1>9. Keeps /\ \A e \in Callers \ {c} : Stands(e)
  BY <1>2, <1>8 DEF Keeps, Stands
<1>10. CountInv'
  <2>1. Charges' = Charges
    BY <1>2, <1>8 DEF Charges, Charged
  <2>2. QED
    BY <1>2, <1>3, <1>5, <1>8, <2>1, Finite, PolicyAssumption DEF CountInv
<1>11. MarkerInv' /\ HourInv'
  BY <1>2, <1>8, HourSame DEF IInv, MarkerInv
<1>12. /\ res' \in [Reservations -> Document] /\ crashes' \in 0 .. MaxCrashes
       /\ leaked' \in Nat /\ admitted' \in [Hours -> Nat]
  BY <1>2 DEF IInv, Types
<1>13. QED
  BY <1>1, <1>2, <1>8, <1>9, <1>10, <1>11, <1>12, CallerMoves DEF Rests

\* The charge of a reservation is taken out of the counter, once.
LEMMA DischargeIInv ==
  ASSUME IInv, NEW c \in Callers, Discharge(c)
  PROVE  IInv'
<1> DEFINE r == call[c].res
           x == [call[c] EXCEPT !.pc = "finalize"]
<1>0. /\ call[c] \in Call /\ CallOK(c, call[c], res, state.markers, clock)
      /\ call[c].pc = "discharge"
  BY DEF IInv, Types, CallInv, Discharge
<1>1. r \in Reservations /\ res[r].state = "releasing" /\ res[r].token = c /\ res[r].live = TRUE
  BY <1>0 DEF CallOK, Call, Releasing
<1>2. /\ call' = [call EXCEPT ![c] = x] /\ x \in Call /\ x.pc = "finalize"
      /\ x.admit = call[c].admit /\ x.hour = call[c].hour /\ x.res = r
  BY <1>0 DEF Call, Place, Discharge, GoTo
<1>3. res' = res /\ clock' = clock /\ crashes' = crashes
      /\ leaked' = leaked /\ admitted' = admitted
  BY DEF unstepped, history, Discharge
<1>4. state' = IF r \in state.markers
                 THEN state
                 ELSE [state EXCEPT !.active = IF @ > 0 THEN @ - 1 ELSE 0,
                                    !.markers = @ \cup {r}]
  BY DEF Discharge
<1> HIDE DEF r, x
<1>5. ASSUME NEW mk, r \in mk PROVE CallOK(c, x, res, mk, clock)
  BY <1>0, <1>1, <1>2, <1>5, ReservationsAssumption DEF CallOK, Releasing, Admitting
<1>6. CASE r \in state.markers
  BY <1>0, <1>2, <1>4, <1>5, <1>6, InnerStep DEF Discharge
<1>7. CASE r \notin state.markers
  <2>1. /\ leaked \in Nat /\ state.active \in Nat /\ state \in State
        /\ state.active = Cardinality(Charges) + Cardinality(Recording) + leaked
        /\ state.active <= MaxConcurrentJobs
    BY DEF IInv, Types, State, CountInv
  <2>2. r \in Charges
    BY <1>1, <1>7 DEF Charges, Charged
  <2>3. /\ Cardinality(Charges \ {r}) = Cardinality(Charges) - 1
        /\ Cardinality(Charges \ {r}) \in Nat
    BY <2>2, Finite, FS_RemoveElement, FS_CardinalityType
  <2>4. state.active > 0 /\ state.active - 1 \in Nat
    BY <2>1, <2>3, Finite
  <2>5. state' = [state EXCEPT !.active = state.active - 1,
                               !.markers = state.markers \cup {r}]
    BY <1>4, <1>7, <2>4
  <2>6. /\ state' \in State /\ state'.markers = state.markers \cup {r}
        /\ state'.active = state.active - 1 /\ state'.hour = state.hour
        /\ state'.responses = state.responses
    BY <1>1, <2>1, <2>4, <2>5 DEF State
  <2>7. Keeps /\ \A e \in Callers \ {c} : Stands(e)
    BY <1>3, <2>6 DEF Keeps, Stands
  <2>8. CountInv'
    <3>1. Charges' = Charges \ {r}
      BY <1>3, <2>6 DEF Charges, Charged
    <3>2. Recording' = Recording
      BY <1>0, <1>2, RecordingSame
    <3>3. QED
      BY <1>3, <2>1, <2>3, <2>6, <3>1, <3>2, Finite, PolicyAssumption DEF CountInv
  <2>9. MarkerInv' /\ HourInv'
    BY <1>1, <1>3, <2>6, HourSame DEF IInv, MarkerInv
  <2>10. /\ res' \in [Reservations -> Document] /\ crashes' \in 0 .. MaxCrashes
         /\ leaked' \in Nat /\ admitted' \in [Hours -> Nat]
    BY <1>3 DEF IInv, Types
  <2>11. CallOK(c, x, res', state'.markers, clock)
    BY <1>3, <1>5, <2>6
  <2>12. QED
    BY <1>2, <1>3, <2>6, <2>7, <2>8, <2>9, <2>10, <2>11, CallerMoves
<1>8. QED
  BY <1>6, <1>7

\* A caller dies; a charge it had not recorded is leaked.
LEMMA CrashIInv ==
  ASSUME IInv, NEW c \in Callers, Crash(c)
  PROVE  IInv'
<1>1. PICK x : Rests(c, x)
  BY Returns DEF Crash
<1>2. /\ state' = state /\ res' = res /\ clock' = clock /\ admitted' = admitted
      /\ crashes' = crashes + 1 /\ crashes < MaxCrashes
      /\ leaked' = leaked + (IF call[c].pc \in {"insert", "undo"} THEN 1 ELSE 0)
  BY DEF Crash
<1>3. leaked \in Nat /\ crashes \in 0 .. MaxCrashes /\ state.active \in Nat
  BY DEF IInv, Types, State
<1>4. crashes' \in 0 .. MaxCrashes /\ leaked' \in Nat
  BY <1>2, <1>3, BoundsAssumption
<1>5. Keeps /\ \A e \in Callers \ {c} : Stands(e)
  BY <1>2 DEF Keeps, Stands
<1>6. CountInv'
  <2>1. Charges' = Charges
    BY <1>2 DEF Charges, Charged
  <2>2. CASE call[c].pc \in {"insert", "undo"}
    <3>1. Recording' = Recording \ {c} /\ c \in Recording
      BY <1>1, <2>2, RecordingAfter DEF Rests
    <3>2. Cardinality(Recording') = Cardinality(Recording) - 1
      BY <3>1, Finite, FS_RemoveElement
    <3>3. QED
      BY <1>2, <1>3, <2>1, <2>2, <3>2, Finite DEF IInv, CountInv
  <2>3. CASE call[c].pc \notin {"insert", "undo"}
    <3>1. leaked' = leaked
      BY <1>2, <1>3, <2>3
    <3>2. Recording' = Recording
      BY <1>1, <2>3, RecordingSame DEF Rests
    <3>3. QED
      BY <1>2, <2>1, <3>1, <3>2 DEF IInv, CountInv
  <2>4. QED
    BY <2>2, <2>3
<1>7. MarkerInv' /\ HourInv'
  BY <1>2, HourSame DEF IInv, MarkerInv
<1>8. /\ state' \in State /\ res' \in [Reservations -> Document]
      /\ admitted' \in [Hours -> Nat]
  BY <1>2 DEF IInv, Types
<1>9. QED
  BY <1>1, <1>2, <1>4, <1>5, <1>6, <1>7, <1>8, CallerMoves DEF Rests

(***************************************************************************)
(* Time.                                                                   *)
(***************************************************************************)
\* One document changes under nobody's hands.
LEMMA DocumentAges ==
  ASSUME IInv, NEW r \in Reservations, NEW d \in Document, res' = [res EXCEPT ![r] = d],
         UNCHANGED <<state, call, unstepped, admitted>>, leaked' \in Nat,
         \A e \in Callers : call[e].pc \in Releasing /\ call[e].res = r
                              => /\ d.state = res[r].state
                                 /\ d.token = res[r].token /\ d.live = res[r].live,
         d.state \in {"none", "open"} => res[r].state \in {"none", "open"},
         res[r].state \in Final => d.state \in Final,
         CountInv'
  PROVE  IInv'
<1>1. state' = state /\ call' = call /\ clock' = clock /\ crashes' = crashes
      /\ admitted' = admitted
  BY DEF unstepped
<1>2. /\ res' \in [Reservations -> Document] /\ res'[r] = d
      /\ \A q \in Reservations : q # r => res'[q] = res[q]
  BY DEF IInv, Types
<1>3. Keeps
  BY <1>1, <1>2 DEF Keeps
<1>4. \A e \in Callers : call[e].pc \in Releasing => call[e].res \in Reservations
  BY DEF IInv, Types, CallInv, CallOK, Call
<1>5. \A e \in Callers : Stands(e)
  BY <1>2, <1>4 DEF Stands
<1>6. CallInv'
  BY <1>1, <1>3, <1>5, StandsOK DEF CallInv
<1>7. MarkerInv' /\ HourInv'
  BY <1>1, <1>2, HourSame DEF IInv, MarkerInv
<1>8. Types'
  BY <1>1, <1>2 DEF IInv, Types
<1>9. QED
  BY <1>6, <1>7, <1>8 DEF IInv

\* A lease runs out, or a reservation.
LEMMA ExpiryIInv ==
  ASSUME ~Stalls, IInv, NEW r \in Reservations,
         ReleaseLeaseExpires(r) \/ ReservationExpires(r)
  PROVE  IInv'
<1>0. res[r] \in Document /\ res \in [Reservations -> Document] /\ leaked \in Nat
  BY DEF IInv, Types
<1>1. PICK d \in Document : /\ res' = [res EXCEPT ![r] = d] /\ d.state = res[r].state
                            /\ d.token = res[r].token
                            /\ d.live = res[r].live \/ ~InRelease(r)
  <2>1. CASE ReleaseLeaseExpires(r)
    <3> DEFINE y == [res[r] EXCEPT !.live = FALSE]
    <3>1. y \in Document /\ y.state = res[r].state /\ y.token = res[r].token
          /\ res' = [res EXCEPT ![r] = y] /\ ~InRelease(r)
      BY <1>0, <2>1 DEF Document, ReleaseLeaseExpires
    <3>2. QED
      BY <3>1
  <2>2. CASE ReservationExpires(r)
    <3> DEFINE y == [res[r] EXCEPT !.expired = TRUE]
    <3>1. y \in Document /\ y.state = res[r].state /\ y.token = res[r].token
          /\ res' = [res EXCEPT ![r] = y] /\ y.live = res[r].live
      BY <1>0, <2>2 DEF Document, ReservationExpires
    <3>2. QED
      BY <3>1
  <2>3. QED
    BY <2>1, <2>2
<1>2. UNCHANGED <<state, call, unstepped, history>>
  BY DEF ReleaseLeaseExpires, ReservationExpires
<1>3. CountInv'
  <2>1. \A q \in Reservations : res'[q].state = res[q].state
    BY <1>0, <1>1
  <2>2. \A q \in Reservations : Charged(q)' <=> Charged(q)
    BY <1>2, <2>1 DEF Charged
  <2>3. Recording' = Recording
    BY <1>2 DEF Recording
  <2>4. QED
    BY <1>2, <2>2, <2>3, CountSame DEF history
<1>4. QED
  BY <1>0, <1>1, <1>2, <1>3, DocumentAges DEF history, InRelease, Releasing

\* A completed reservation is deleted; a charge it still had is leaked.
LEMMA CleanupIInv ==
  ASSUME ~Stalls, IInv, NEW r \in Reservations, CleanupDeletes(r)
  PROVE  IInv'
<1> DEFINE d == [NoDocument EXCEPT !.state = "deleted"]
<1>1. d \in Document /\ d.state = "deleted" /\ res' = [res EXCEPT ![r] = d]
  BY DEF NoDocument, Document, ReleaseState, CleanupDeletes
<1> HIDE DEF d
<1>2. /\ UNCHANGED <<state, call, unstepped, admitted>> /\ ~InRelease(r)
      /\ leaked' = leaked + (IF Charged(r) THEN 1 ELSE 0)
  BY DEF CleanupDeletes
<1>3. leaked \in Nat /\ state.active \in Nat /\ res \in [Reservations -> Document]
  BY DEF IInv, Types, State
<1>4. CountInv'
  <2>1. \A q \in Reservations : Charged(q)' <=> Charged(q) /\ q # r
    BY <1>1, <1>2, <1>3 DEF Charged
  <2>2. Charges' = Charges \ {r} /\ Recording' = Recording
    BY <1>2, <2>1 DEF Charges, Recording
  <2>3. CASE Charged(r)
    <3>1. r \in Charges
      BY <2>3 DEF Charges
    <3>2. Cardinality(Charges') = Cardinality(Charges) - 1
      BY <2>2, <3>1, Finite, FS_RemoveElement
    <3>3. leaked' = leaked + 1
      BY <1>2, <2>3
    <3>4. QED
      BY <1>2, <1>3, <2>2, <3>2, <3>3, Finite DEF IInv, CountInv
  <2>4. CASE ~Charged(r)
    <3>1. Charges' = Charges
      BY <2>2, <2>4 DEF Charges
    <3>2. leaked' = leaked
      BY <1>2, <1>3, <2>4
    <3>3. QED
      BY <1>2, <2>2, <3>1, <3>2 DEF IInv, CountInv
  <2>5. QED
    BY <2>3, <2>4
<1>5. leaked' \in Nat
  BY <1>2, <1>3
<1>6. QED
  BY <1>1, <1>2, <1>4, <1>5, DocumentAges DEF InRelease, Releasing, Final

\* The hour turns, when nobody is admitting.
LEMMA HourIInv ==
  ASSUME ~Stalls, IInv, HourTurns
  PROVE  IInv'
<1>1. /\ state' = state /\ res' = res /\ call' = call /\ crashes' = crashes
      /\ leaked' = leaked /\ admitted' = admitted /\ clock' = clock + 1 /\ clock < MaxHour
      /\ \A c \in Callers : ~call[c].admit
  BY DEF HourTurns, history
<1>2. clock' \in Hours /\ clock \in Nat /\ state.hour \in Nat
  BY <1>1, BoundsAssumption DEF IInv, Types, Hours, State
<1>3. Types'
  BY <1>1, <1>2 DEF IInv, Types
<1>4. CallInv'
  BY <1>1 DEF IInv, CallInv, CallOK
<1>5. MarkerInv'
  BY <1>1 DEF IInv, MarkerInv
<1>6. HourInv'
  BY <1>1, <1>2 DEF IInv, HourInv
<1>7. CountInv'
  BY <1>1 DEF IInv, CountInv, Charges, Charged, Recording
<1>8. QED
  BY <1>3, <1>4, <1>5, <1>6, <1>7 DEF IInv

(***************************************************************************)
(* The theorems.                                                           *)
(***************************************************************************)
\* The invariant holds at the start.
LEMMA InitIInv == Init => IInv
<1> SUFFICES ASSUME Init PROVE IInv
  OBVIOUS
<1>1. /\ state.active = 0 /\ state.responses = 0 /\ state.hour = 0 /\ state.markers = {}
      /\ state \in State /\ clock = 0 /\ leaked = 0 /\ admitted = [h \in Hours |-> 0]
  BY BoundsAssumption DEF Init, State, Hours
<1>2. /\ \A r \in Reservations : res[r].state = "none"
      /\ res \in [Reservations -> Document]
  BY DEF Init, NoDocument, Document, ReleaseState
<1>3. /\ \A c \in Callers : call[c] = IdleCall
      /\ call \in [Callers -> Call]
  BY IdleFields DEF Init
<1>4. Types
  BY <1>1, <1>2, <1>3, BoundsAssumption DEF Types, Init, Hours
<1>5. CallInv
  BY <1>3, IdleFields DEF CallInv, CallOK, Releasing, Admitting
<1>6. MarkerInv
  BY <1>1 DEF MarkerInv
<1>7. CountInv
  <2>1. Charges = {} /\ Recording = {}
    BY <1>2, <1>3, IdleFields DEF Charges, Charged, Recording
  <2>2. QED
    BY <1>1, <2>1, FS_EmptySet, PolicyAssumption DEF CountInv
<1>8. HourInv
  BY <1>1, <1>4, PolicyAssumption DEF HourInv, Hours, State
<1>9. QED
  BY <1>4, <1>5, <1>6, <1>7, <1>8 DEF IInv

\* Every step keeps it.
LEMMA NextIInv ==
  ASSUME ~Stalls, IInv, [Next]_vars
  PROVE  IInv'
<1>1. CASE \E c \in Callers : Admit(c) \/ Step(c) \/ Crash(c)
  <2>1. PICK c \in Callers : Admit(c) \/ Step(c) \/ Crash(c)
    BY <1>1
  <2>2. CASE Step(c)
    BY <2>2, FindPendingIInv, MarkersIInv, PruneMarkersIInv, CountIInv, DenyIInv, InsertIInv,
       InsertFailsIInv, UndoIInv, ClaimReleaseIInv, DischargeIInv, FinalizeIInv,
       PullMarkerIInv
       DEF Step
  <2>3. QED
    BY <2>1, <2>2, AdmitIInv, CrashIInv
<1>2. CASE \E c \in Callers, r \in Reservations : Complete(c, r)
  BY <1>2, CompleteIInv
<1>3. CASE \E r \in Reservations :
             ReleaseLeaseExpires(r) \/ ReservationExpires(r) \/ CleanupDeletes(r)
  BY <1>3, ExpiryIInv, CleanupIInv
<1>4. CASE HourTurns
  BY <1>4, HourIInv
<1>5. CASE UNCHANGED vars
  <2>1. Types' /\ CallInv' /\ MarkerInv'
    BY <1>5 DEF vars, IInv, Types, CallInv, MarkerInv
  <2>2. CountInv' /\ HourInv'
    BY <1>5 DEF vars, IInv, CountInv, HourInv, Charges, Charged, Recording
  <2>3. QED
    BY <2>1, <2>2 DEF IInv
<1>6. QED
  BY <1>1, <1>2, <1>3, <1>4, <1>5 DEF Next

\* What the invariant says of the channel's policy and of its counter.
LEMMA IInvImplies == IInv => AdmissionInv /\ ActiveCountsCharges
<1> SUFFICES ASSUME IInv PROVE AdmissionInv /\ ActiveCountsCharges
  OBVIOUS
<1>1. TypeOK
  BY DEF IInv, Types, TypeOK, State, Document, Call, Place, Hours, Sets
<1>2. ActiveCountsCharges
  BY DEF IInv, CountInv, Charges, ActiveCountsCharges
<1>3. NeverOverAdmits
  <2> DEFINE open == {r \in Reservations : res[r].state = "open"}
  <2>1. open \in SUBSET Charges
    BY DEF IInv, MarkerInv, Charges, Charged
  <2>2. /\ Cardinality(open) \in Nat
        /\ Cardinality(open) <= Cardinality(Charges)
    BY <2>1, Finite, FS_Subset, FS_CardinalityType
  <2>3. leaked \in Nat /\ state.active \in Nat
    BY DEF IInv, Types, State
  <2> HIDE DEF open
  <2>4. Cardinality(open) <= MaxConcurrentJobs
    BY <2>2, <2>3, Finite, PolicyAssumption DEF IInv, CountInv
  <2>5. QED
    BY <2>4 DEF open, NeverOverAdmits
<1>4. BudgetPerHour
  BY DEF IInv, HourInv, BudgetPerHour, Hours
<1>5. QED
  BY <1>1, <1>2, <1>3, <1>4 DEF AdmissionInv

\* However many callers admit, complete and repair at once and wherever they crash,
\* the channel never runs more jobs than its policy allows and never starts more in
\* an hour, if no call outlives its release lease or its hour.
THEOREM AdmissionSafe ==
  ASSUME ~Stalls
  PROVE  Spec => []AdmissionInv
<1>1. Init => IInv
  BY InitIInv
<1>2. IInv /\ [Next]_vars => IInv'
  BY NextIInv
<1>3. IInv => AdmissionInv
  BY IInvImplies
<1>4. QED
  BY <1>1, <1>2, <1>3, PTL DEF Spec

\* The counter of the channel is exact: reservations not given back, admissions not
\* recorded yet, and what crashes and the cleanup leaked.
THEOREM CounterExact ==
  ASSUME ~Stalls
  PROVE  Spec => []ActiveCountsCharges
<1>1. Init => IInv
  BY InitIInv
<1>2. IInv /\ [Next]_vars => IInv'
  BY NextIInv
<1>3. IInv => ActiveCountsCharges
  BY IInvImplies
<1>4. QED
  BY <1>1, <1>2, <1>3, PTL DEF Spec
=============================================================================
