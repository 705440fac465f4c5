---------------------------- MODULE GuidanceProofs ----------------------------
(***************************************************************************)
(* Proofs about what Tag goes by: that a submitted directive is saved once *)
(* (Directives), that what operators corrected, pinned or forgot stands    *)
(* (Memory), and that a recalled fact is the message as it is now          *)
(* (Situations).                                                           *)
(***************************************************************************)
EXTENDS Directives, Memory, Situations, FiniteSetTheorems, TLAPS

(***************************************************************************)
(* Directives.  The promise is about answers already given; the invariant  *)
(* adds what the handlers still under way have behind them, from the read  *)
(* or the insertion that gave them their revision to their answer.         *)
(***************************************************************************)
Revision == [revision : Nat, source : Submissions \cup {""}]
SaverRec == [pc : {"idle", "find", "number", "insert", "activate", "receipt", "answer"},
             source : Submissions \cup {""}, revision : Nat]

DTypes == /\ directives \in [next : Nat, active : Nat]
          /\ revisions \subseteq Revision
          /\ inbox \subseteq Submissions
          /\ draft \in Nat

\* A handler x: from "activate" on its revision is one of its own submission, and it
\* answers with a receipt.
SaverOK(x, revs, rcpts) ==
  /\ x \in SaverRec
  /\ x.pc # "idle" => x.source \in Submissions
  /\ x.pc \in {"activate", "receipt", "answer"} =>
       \E r \in revs : r.source = x.source /\ r.revision = x.revision
  /\ x.pc = "answer" => x.revision \in rcpts
SaversInv == /\ saver \in [Handlers -> SaverRec]
             /\ \A h \in Handlers : SaverOK(saver[h], revisions, receipts)

\* No submission has two revisions, saved ones have one with a receipt, and the active
\* revision is there.
OnceInv == \A p, q \in revisions :
             p.source \in Submissions /\ p.source = q.source => p = q
SavedInv == \A s \in saved : /\ s \in Submissions
                             /\ \E r \in revisions : r.source = s /\ r.revision \in receipts
ActiveInv == directives.active # 0 =>
               \E r \in revisions : r.revision = directives.active

DInv == DTypes /\ SaversInv /\ OnceInv /\ SavedInv /\ ActiveInv

\* What a handler has behind it stays: revisions and receipts are only added.
LEMMA SaverKept ==
  ASSUME NEW x, NEW R, NEW RR, NEW P, NEW PP, SaverOK(x, R, P), R \subseteq RR, P \subseteq PP
  PROVE  SaverOK(x, RR, PP)
  BY DEF SaverOK

\* Handler h becomes x.
LEMMA SaverMoves ==
  ASSUME SaversInv, NEW h \in Handlers, NEW x, saver' = [saver EXCEPT ![h] = x],
         revisions \subseteq revisions', receipts \subseteq receipts',
         SaverOK(x, revisions', receipts')
  PROVE  SaversInv'
<1>1. saver \in [Handlers -> SaverRec] /\ x \in SaverRec
  BY DEF SaversInv, SaverOK
<1>2. \A k \in Handlers : SaverOK(saver[k], revisions', receipts')
  BY SaverKept DEF SaversInv
<1>3. \A k \in Handlers : SaverOK(saver'[k], revisions', receipts')
  BY <1>1, <1>2
<1>4. saver' \in [Handlers -> SaverRec]
  BY <1>1
<1>5. QED
  BY <1>3, <1>4 DEF SaversInv

\* The handlers stand.
LEMMA SaversStand ==
  ASSUME SaversInv, saver' = saver, revisions \subseteq revisions', receipts \subseteq receipts'
  PROVE  SaversInv'
<1>1. \A k \in Handlers : SaverOK(saver[k], revisions', receipts')
  BY SaverKept DEF SaversInv
<1>2. QED
  BY <1>1 DEF SaversInv

\* So do the answers, and the active revision.
LEMMA AnswersStand ==
  ASSUME SavedInv, saved' = saved, revisions \subseteq revisions', receipts \subseteq receipts'
  PROVE  SavedInv'
  BY DEF SavedInv

\* The active revision stays.
LEMMA ActiveStands ==
  ASSUME ActiveInv, directives'.active = directives.active, revisions \subseteq revisions'
  PROVE  ActiveInv'
  BY DEF ActiveInv

\* A handler with nothing to do.
LEMMA Waiting ==
  ASSUME NEW R, NEW P
  PROVE  SaverOK(IdleSaver, R, P)
  BY DEF SaverOK, SaverRec, IdleSaver

\* A step of handler h that changes nothing but its own place and, perhaps, the inbox.
LEMMA SaverSteps ==
  ASSUME DInv, NEW h \in Handlers, NEW x, saver' = [saver EXCEPT ![h] = x],
         SaverOK(x, revisions, receipts), inbox' \subseteq Submissions,
         UNCHANGED <<directives, revisions, receipts, saved, draft>>
  PROVE  DInv'
<1>1. /\ directives' = directives /\ revisions' = revisions /\ receipts' = receipts
      /\ saved' = saved /\ draft' = draft
  OBVIOUS
<1>2. SaversInv'
  BY <1>1, SaverMoves DEF DInv
<1>3. DTypes' /\ OnceInv' /\ SavedInv' /\ ActiveInv'
  BY <1>1 DEF DInv, DTypes, OnceInv, SavedInv, ActiveInv
<1>4. QED
  BY <1>2, <1>3 DEF DInv

\* A submission is taken up.
LEMMA SubmitKeeps ==
  ASSUME DInv, NEW h \in Handlers, NEW s \in Submissions, Submit(h, s)
  PROVE  DInv'
<1> DEFINE x == [IdleSaver EXCEPT !.pc = "find", !.source = s]
<1>1. x \in SaverRec /\ x.pc = "find" /\ x.source = s
  BY DEF IdleSaver, SaverRec
<1>2. saver' = [saver EXCEPT ![h] = x]
  BY DEF Submit
<1> HIDE DEF x
<1>3. SaverOK(x, revisions, receipts)
  BY <1>1 DEF SaverOK
<1>4. inbox' \subseteq Submissions
  BY DEF Submit, DInv, DTypes
<1>5. QED
  BY <1>2, <1>3, <1>4, SaverSteps DEF Submit

\* The revision a submission has already is found.
LEMMA FindKeeps ==
  ASSUME DInv, NEW h \in Handlers, FindPublished(h)
  PROVE  DInv'
<1> DEFINE old == saver[h]
           r == CHOOSE r \in With(old.source) : TRUE
           x == IF With(old.source) = {} THEN [old EXCEPT !.pc = "number"]
                ELSE [old EXCEPT !.pc = "activate", !.revision = r.revision]
<1>1. /\ saver' = [saver EXCEPT ![h] = x]
      /\ UNCHANGED <<directives, revisions, receipts, saved, draft>> /\ inbox' = inbox
      /\ old.pc = "find"
  BY DEF FindPublished
<1>2. /\ old \in SaverRec /\ old.source \in Submissions
      /\ inbox \subseteq Submissions /\ revisions \subseteq Revision
  BY <1>1 DEF DInv, DTypes, SaversInv, SaverOK
<1>3. SaverOK(x, revisions, receipts)
  <2>1. CASE With(old.source) = {}
    <3>1. x = [old EXCEPT !.pc = "number"]
      BY <2>1
    <3>2. x \in SaverRec /\ x.pc = "number" /\ x.source = old.source
      BY <1>2, <3>1 DEF SaverRec
    <3> HIDE DEF x, old
    <3>3. QED
      BY <1>2, <3>2 DEF SaverOK
  <2>2. CASE With(old.source) # {}
    <3>1. r \in revisions /\ r.source = old.source
      BY <2>2 DEF With
    <3>2. r.revision \in Nat
      BY <1>2, <3>1 DEF Revision
    <3> HIDE DEF r
    <3>3. x = [old EXCEPT !.pc = "activate", !.revision = r.revision]
      BY <2>2
    <3>4. /\ x \in SaverRec /\ x.pc = "activate" /\ x.source = old.source
          /\ x.revision = r.revision
      BY <1>2, <3>2, <3>3 DEF SaverRec
    <3> HIDE DEF x, old
    <3>5. QED
      BY <1>2, <3>1, <3>4 DEF SaverOK
  <2>3. QED
    BY <2>1, <2>2
<1> HIDE DEF x
<1>4. QED
  BY <1>1, <1>2, <1>3, SaverSteps

\* A number is drawn.
LEMMA NumberKeeps ==
  ASSUME DInv, NEW h \in Handlers, NumberRevision(h)
  PROVE  DInv'
<1> DEFINE old == saver[h]
           x == [old EXCEPT !.pc = "insert", !.revision = directives.next + 1]
           dir == [directives EXCEPT !.next = directives.next + 1]
<1>1. /\ old.pc = "number" /\ directives' = dir
      /\ revisions' = revisions /\ receipts' = receipts /\ inbox' = inbox
      /\ saved' = saved /\ draft' = draft
  BY DEF NumberRevision
<1>2. /\ old \in SaverRec /\ old.source \in Submissions
      /\ directives \in [next : Nat, active : Nat] /\ saver \in [Handlers -> SaverRec]
  BY <1>1 DEF DInv, DTypes, SaversInv, SaverOK
<1>3. saver' = [saver EXCEPT ![h] = x]
  BY <1>2 DEF NumberRevision, SaverRec
<1>4. /\ x \in SaverRec /\ x.pc = "insert" /\ x.source = old.source
      /\ dir \in [next : Nat, active : Nat] /\ dir.active = directives.active
  <2>1. directives.next + 1 \in Nat
    BY <1>2
  <2>2. x \in SaverRec /\ x.pc = "insert" /\ x.source = old.source
    BY <1>2, <2>1 DEF SaverRec
  <2>3. dir \in [next : Nat, active : Nat] /\ dir.active = directives.active
    BY <1>2, <2>1
  <2>4. QED
    BY <2>2, <2>3
<1> HIDE DEF x, dir
<1>5. SaverOK(x, revisions', receipts')
  BY <1>2, <1>4 DEF SaverOK
<1>6. SaversInv'
  BY <1>1, <1>3, <1>5, SaverMoves DEF DInv
<1>7. DTypes' /\ OnceInv' /\ SavedInv'
  BY <1>1, <1>4 DEF DInv, DTypes, OnceInv, SavedInv
<1>8. ActiveInv'
  BY <1>1, <1>4, ActiveStands DEF DInv
<1>9. QED
  BY <1>6, <1>7, <1>8 DEF DInv

\* The revision is inserted unless the submission has one.
LEMMA InsertKeeps ==
  ASSUME DInv, NEW h \in Handlers, InsertRevision(h)
  PROVE  DInv'
<1> DEFINE old == saver[h]
           others == With(old.source)
<1>1. /\ old.pc = "insert" /\ directives' = directives /\ receipts' = receipts
      /\ inbox' = inbox /\ saved' = saved /\ draft' = draft
  BY DEF InsertRevision
<1>2. /\ old \in SaverRec /\ old.source \in Submissions /\ saver \in [Handlers -> SaverRec]
      /\ revisions \subseteq Revision /\ old.revision \in Nat
  BY <1>1 DEF DInv, DTypes, SaversInv, SaverOK, SaverRec
<1>3. CASE others = {}
  <2> DEFINE new == [revision |-> old.revision, source |-> old.source]
             x == [old EXCEPT !.pc = "activate"]
  <2>1. revisions' = revisions \cup {new} /\ saver' = [saver EXCEPT ![h] = x]
    BY <1>2, <1>3 DEF InsertRevision, SaverRec
  <2>2. new \in Revision /\ new.revision = old.revision /\ new.source = old.source
    BY <1>2 DEF Revision
  <2>3. /\ x \in SaverRec /\ x.pc = "activate" /\ x.source = old.source
        /\ x.revision = old.revision
    BY <1>2 DEF SaverRec
  <2>4. \A q \in revisions : q.source # old.source
    BY <1>3 DEF With
  <2> HIDE DEF new, x
  <2>5. new \in revisions' /\ revisions \subseteq revisions'
    BY <2>1
  <2>6. SaverOK(x, revisions', receipts')
    BY <1>2, <2>2, <2>3, <2>5 DEF SaverOK
  <2>7. SaversInv'
    BY <1>1, <2>1, <2>5, <2>6, SaverMoves DEF DInv
  <2>8. OnceInv'
    BY <2>1, <2>2, <2>4 DEF DInv, OnceInv
  <2>9. DTypes'
    BY <1>1, <2>1, <2>2 DEF DInv, DTypes
  <2>10. SavedInv' /\ ActiveInv'
    BY <1>1, <2>5, AnswersStand, ActiveStands DEF DInv
  <2>11. QED
    BY <2>7, <2>8, <2>9, <2>10 DEF DInv
<1>4. CASE others # {}
  <2> DEFINE r == CHOOSE r \in others : TRUE
             x == [old EXCEPT !.pc = "activate", !.revision = r.revision]
  <2>1. r \in revisions /\ r.source = old.source
    BY <1>4 DEF With
  <2>2. revisions' = revisions /\ saver' = [saver EXCEPT ![h] = x]
    BY <1>2, <1>4 DEF InsertRevision, SaverRec
  <2>3. r.revision \in Nat
    BY <1>2, <2>1 DEF Revision
  <2> HIDE DEF r
  <2>4. /\ x \in SaverRec /\ x.pc = "activate" /\ x.source = old.source
        /\ x.revision = r.revision
    BY <1>2, <2>3 DEF SaverRec
  <2> HIDE DEF x
  <2>5. SaverOK(x, revisions, receipts)
    BY <1>2, <2>1, <2>4 DEF SaverOK
  <2>6. inbox' \subseteq Submissions
    BY <1>1 DEF DInv, DTypes
  <2>7. QED
    BY <1>1, <2>2, <2>5, <2>6, SaverSteps
<1>5. QED
  BY <1>3, <1>4

\* The revision becomes the active one.
LEMMA ActivateKeeps ==
  ASSUME DInv, NEW h \in Handlers, ActivatePublished(h)
  PROVE  DInv'
<1> DEFINE old == saver[h]
           x == [old EXCEPT !.pc = "receipt"]
           dir == [directives EXCEPT !.active = old.revision]
<1>1. /\ old.pc = "activate" /\ directives' = dir /\ revisions' = revisions
      /\ receipts' = receipts /\ inbox' = inbox /\ saved' = saved /\ draft' = draft
  BY DEF ActivatePublished, Activate
<1>2. /\ SaverOK(old, revisions, receipts) /\ old \in SaverRec
      /\ directives \in [next : Nat, active : Nat] /\ saver \in [Handlers -> SaverRec]
  BY DEF DInv, DTypes, SaversInv, SaverOK
<1>3. saver' = [saver EXCEPT ![h] = x]
  BY <1>2 DEF ActivatePublished, SaverRec
<1>4. old.revision \in Nat
  BY <1>2 DEF SaverRec
<1>5. /\ x \in SaverRec /\ x.pc = "receipt" /\ x.source = old.source
      /\ x.revision = old.revision
  BY <1>2 DEF SaverRec
<1>6. dir \in [next : Nat, active : Nat] /\ dir.active = old.revision
  BY <1>2, <1>4
<1> HIDE DEF x, dir
<1>7. SaverOK(x, revisions', receipts')
  BY <1>1, <1>2, <1>5 DEF SaverOK
<1>8. SaversInv'
  BY <1>1, <1>3, <1>7, SaverMoves DEF DInv
<1>9. ActiveInv'
  BY <1>1, <1>2, <1>6 DEF ActiveInv, SaverOK
<1>10. DTypes' /\ OnceInv' /\ SavedInv'
  BY <1>1, <1>6 DEF DInv, DTypes, OnceInv, SavedInv
<1>11. QED
  BY <1>8, <1>9, <1>10 DEF DInv

\* Its receipt is appended.
LEMMA ReceiptKeeps ==
  ASSUME DInv, NEW h \in Handlers, AppendReceipt(h)
  PROVE  DInv'
<1> DEFINE old == saver[h]
           x == [old EXCEPT !.pc = "answer"]
<1>1. /\ old.pc = "receipt" /\ directives' = directives /\ revisions' = revisions
      /\ receipts' = receipts \cup {old.revision}
      /\ inbox' = inbox /\ saved' = saved /\ draft' = draft
  BY DEF AppendReceipt
<1>2. /\ SaverOK(old, revisions, receipts) /\ old \in SaverRec
      /\ saver \in [Handlers -> SaverRec]
  BY DEF DInv, SaversInv, SaverOK
<1>3. saver' = [saver EXCEPT ![h] = x]
  BY <1>2 DEF AppendReceipt, SaverRec
<1>4. /\ x \in SaverRec /\ x.pc = "answer" /\ x.source = old.source
      /\ x.revision = old.revision
  BY <1>2 DEF SaverRec
<1> HIDE DEF x
<1>5. SaverOK(x, revisions', receipts')
  BY <1>1, <1>2, <1>4 DEF SaverOK
<1>6. SaversInv'
  BY <1>1, <1>3, <1>5, SaverMoves DEF DInv
<1>7. SavedInv' /\ ActiveInv'
  BY <1>1, AnswersStand, ActiveStands DEF DInv
<1>8. DTypes' /\ OnceInv'
  BY <1>1 DEF DInv, DTypes, OnceInv
<1>9. QED
  BY <1>6, <1>7, <1>8 DEF DInv

\* Slack is told.
LEMMA AnswerKeeps ==
  ASSUME DInv, NEW h \in Handlers, Answer(h)
  PROVE  DInv'
<1>1. /\ saver[h].pc = "answer" /\ saver' = [saver EXCEPT ![h] = IdleSaver]
      /\ saved' = saved \cup {saver[h].source}
      /\ directives' = directives /\ revisions' = revisions /\ receipts' = receipts
      /\ inbox' = inbox /\ draft' = draft
  BY DEF Answer
<1>2. SaverOK(saver[h], revisions, receipts)
  BY DEF DInv, SaversInv
<1>3. SavedInv'
  BY <1>1, <1>2 DEF DInv, SavedInv, SaverOK
<1>4. SaversInv'
  BY <1>1, Waiting, SaverMoves DEF DInv
<1>5. DTypes' /\ OnceInv' /\ ActiveInv'
  BY <1>1 DEF DInv, DTypes, OnceInv, ActiveInv
<1>6. QED
  BY <1>3, <1>4, <1>5 DEF DInv

\* A handler is interrupted: what it wrote stays.
LEMMA InterruptedKeeps ==
  ASSUME DInv, NEW h \in Handlers, Interrupted(h)
  PROVE  DInv'
<1>1. inbox' \subseteq Submissions
  BY DEF Interrupted, DInv, DTypes, SaversInv, SaverOK
<1>2. SaverOK(IdleSaver, revisions, receipts)
  BY Waiting
<1>3. QED
  BY <1>1, <1>2, SaverSteps DEF Interrupted

\* The management API's draft is numbered, inserted, and activated.
LEMMA ApiKeeps ==
  ASSUME DInv, NumberDraft \/ InsertDraft \/ \E n \in 1 .. MaxRevisions : ApiActivate(n)
  PROVE  DInv'
<1>1. receipts' = receipts /\ inbox' = inbox /\ saved' = saved /\ saver' = saver
  BY DEF NumberDraft, InsertDraft, ApiActivate
<1>2. directives \in [next : Nat, active : Nat] /\ draft \in Nat
  BY DEF DInv, DTypes
<1>3. CASE NumberDraft
  <2> DEFINE dir == [directives EXCEPT !.next = directives.next + 1]
  <2>1. directives' = dir /\ draft' = directives.next + 1 /\ revisions' = revisions
    BY <1>3 DEF NumberDraft
  <2>2. draft' \in Nat
    BY <1>2, <2>1
  <2>3. dir \in [next : Nat, active : Nat] /\ dir.active = directives.active
    BY <1>2, <2>1, <2>2
  <2> HIDE DEF dir
  <2>4. SaversInv' /\ SavedInv' /\ ActiveInv'
    BY <1>1, <2>1, <2>3, SaversStand, AnswersStand, ActiveStands DEF DInv
  <2>5. DTypes' /\ OnceInv'
    BY <1>1, <2>1, <2>2, <2>3 DEF DInv, DTypes, OnceInv
  <2>6. QED
    BY <2>4, <2>5 DEF DInv
<1>4. CASE InsertDraft
  <2> DEFINE new == [revision |-> draft, source |-> ""]
  <2>1. revisions' = revisions \cup {new} /\ draft' = 0 /\ directives' = directives
    BY <1>4 DEF InsertDraft
  <2>2. new \in Revision /\ new.source \notin Submissions
    BY <1>2, SubmissionsAssumption DEF Revision
  <2> HIDE DEF new
  <2>3. SaversInv' /\ SavedInv' /\ ActiveInv'
    BY <1>1, <2>1, SaversStand, AnswersStand, ActiveStands DEF DInv
  <2>4. DTypes' /\ OnceInv'
    BY <1>1, <2>1, <2>2 DEF DInv, DTypes, OnceInv
  <2>5. QED
    BY <2>3, <2>4 DEF DInv
<1>5. ASSUME NEW n \in 1 .. MaxRevisions, ApiActivate(n)
      PROVE  DInv'
  <2> DEFINE dir == [directives EXCEPT !.active = n]
  <2>1. /\ directives' = dir /\ revisions' = revisions /\ draft' = draft
        /\ Numbered(n) # {}
    BY <1>5 DEF ApiActivate, Activate
  <2>2. \E r \in revisions : r.revision = n
    BY <2>1 DEF Numbered
  <2>3. n \in Nat
    BY DirectiveBounds
  <2>4. dir \in [next : Nat, active : Nat] /\ dir.active = n
    BY <1>2, <2>3
  <2> HIDE DEF dir
  <2>5. SaversInv' /\ SavedInv' /\ ActiveInv'
    BY <1>1, <2>1, <2>2, <2>4, SaversStand, AnswersStand DEF DInv, ActiveInv
  <2>6. DTypes' /\ OnceInv'
    BY <1>1, <2>1, <2>4 DEF DInv, DTypes, OnceInv
  <2>7. QED
    BY <2>5, <2>6 DEF DInv
<1>6. QED
  BY <1>3, <1>4, <1>5

\* A step that touches neither revisions nor handlers.
LEMMA DirectivesStand ==
  ASSUME DInv, inbox' \subseteq Submissions,
         UNCHANGED <<directives, revisions, receipts, saved, saver, draft>>
  PROVE  DInv'
<1>1. SaversInv'
  BY SaversStand DEF DInv
<1>2. DTypes' /\ OnceInv' /\ SavedInv' /\ ActiveInv'
  BY DEF DInv, DTypes, OnceInv, SavedInv, ActiveInv
<1>3. QED
  BY <1>1, <1>2 DEF DInv

\* Every step keeps the invariant.
LEMMA DirectivesStep ==
  ASSUME DInv, [DirectivesNext]_dvars
  PROVE  DInv'
<1>1. inbox \subseteq Submissions
  BY DEF DInv, DTypes
<1>2. ASSUME NEW h \in Handlers, NEW s \in Submissions, Submit(h, s) \/ Refuse(h, s)
      PROVE  DInv'
  <2>1. Refuse(h, s) => inbox' \subseteq Submissions
    BY <1>1 DEF Refuse
  <2>2. QED
    BY <1>2, <2>1, SubmitKeeps, DirectivesStand DEF Refuse
<1>3. ASSUME NEW h \in Handlers,
             \/ FindPublished(h) \/ NumberRevision(h) \/ InsertRevision(h)
             \/ ActivatePublished(h) \/ AppendReceipt(h) \/ Answer(h) \/ Interrupted(h)
      PROVE  DInv'
  BY <1>3, FindKeeps, NumberKeeps, InsertKeeps, ActivateKeeps, ReceiptKeeps, AnswerKeeps,
     InterruptedKeeps
<1>4. ASSUME NEW h \in Handlers, DeliveredAgain(h)
      PROVE  DInv'
  <2>1. inbox' \subseteq Submissions
    BY <1>1, <1>4 DEF DeliveredAgain, DInv, SaversInv, SaverOK
  <2>2. QED
    BY <1>4, <2>1, DirectivesStand DEF DeliveredAgain
<1>5. CASE NumberDraft \/ InsertDraft \/ \E n \in 1 .. MaxRevisions : ApiActivate(n)
  BY <1>5, ApiKeeps
<1>6. ASSUME NEW p \in Writers, NumberNote(p)
      PROVE  DInv'
  BY <1>1, <1>6, DirectivesStand DEF NumberNote
<1>7. CASE InsertNote
  BY <1>1, <1>7, DirectivesStand DEF InsertNote
<1>8. ASSUME NEW n \in DOMAIN notes, NEW p \in Writers, NEW approve \in BOOLEAN,
             ReviewNote(n, p, approve)
      PROVE  DInv'
  BY <1>1, <1>8, DirectivesStand DEF ReviewNote
<1>9. CASE UNCHANGED dvars
  BY <1>1, <1>9, DirectivesStand DEF dvars
<1>10. QED
  BY <1>2, <1>3, <1>4, <1>5, <1>6, <1>7, <1>8, <1>9 DEF DirectivesNext

\* A set without two elements has at most one.
LEMMA AtMostOne ==
  ASSUME NEW S, \A p, q \in S : p = q
  PROVE  Cardinality(S) <= 1
<1>1. CASE S = {}
  BY <1>1, FS_EmptySet
<1>2. CASE S # {}
  <2>1. PICK p \in S : TRUE
    BY <1>2
  <2>2. S = {p}
    BY <2>1
  <2>3. Cardinality({p}) = 1
    BY FS_Singleton, Zenon
  <2>4. QED
    BY <2>2, <2>3
<1>3. QED
  BY <1>1, <1>2

\* A submission that Slack was told is saved is one revision with a receipt, whatever
\* was delivered twice, handled by two processes at once or cut off between two writes
\* of PublishDirective; and the active revision is one the channel has.
THEOREM DirectiveSavedOnce == DirectivesSpec => []SavedOnce
<1>1. DirectivesInit => DInv
  <2>1. ASSUME DirectivesInit
        PROVE  SaversInv
    <3>1. SaverOK(IdleSaver, revisions, receipts) /\ IdleSaver \in SaverRec
      BY Waiting DEF SaverOK
    <3>2. QED
      BY <2>1, <3>1 DEF DirectivesInit, SaversInv
  <2>2. QED
    BY <2>1 DEF DirectivesInit, DInv, DTypes, OnceInv, SavedInv, ActiveInv
<1>2. DInv /\ [DirectivesNext]_dvars => DInv'
  BY DirectivesStep
<1>3. DInv => SavedOnce
  <2>1. ASSUME DInv, NEW s \in Submissions
        PROVE  Cardinality(With(s)) <= 1
    <3>1. \A p, q \in With(s) : p = q
      BY <2>1 DEF With, DInv, OnceInv
    <3>2. QED
      BY <3>1, AtMostOne
  <2>2. ASSUME DInv
        PROVE  /\ \A s \in saved : \E r \in With(s) : r.revision \in receipts
               /\ directives.active # 0 => Numbered(directives.active) # {}
    BY <2>2 DEF DInv, SavedInv, ActiveInv, With, Numbered
  <2>3. QED
    BY <2>1, <2>2 DEF SavedOnce
<1>4. QED
  BY <1>1, <1>2, <1>3, PTL DEF DirectivesSpec

(***************************************************************************)
(* Memory.  A summary replaces the record of the revision it read.  Where  *)
(* one curator runs, a revision identifies a record: between its read and  *)
(* its write nobody else inserts one, operators raise the revision and     *)
(* retention only removes.  So what is replaced is what was read, which    *)
(* was neither an operator's nor about the same messages.                  *)
(***************************************************************************)
\* The functions and records the module keeps.
On(f, S) == f = [x \in S |-> f[x]]
IsRecord(r) == r = [id |-> r.id, hash |-> r.hash, status |-> r.status, origin |-> r.origin,
                    pinned |-> r.pinned, natural |-> r.natural, expires |-> r.expires,
                    revision |-> r.revision]
IsCurator(x) == x = [pc |-> x.pc, batches |-> x.batches, batch |-> x.batch,
                     seen |-> x.seen, tries |-> x.tries]

RecordOK(r) == /\ IsRecord(r)
               /\ r.revision \in Nat
               /\ r.hash # {}
               /\ r.pinned => r.expires = Never
RecordsInv == /\ On(memory, Scopes)
              /\ \A s \in Scopes : memory[s] = None \/ RecordOK(memory[s])

\* What is under way has sources; and the record m now in the place of one that was seen
\* is that one, or a later revision, or none.
BatchOK(b) == b.scope \in Scopes /\ b.hash # {}
SameOrLater(m, seen) == \/ m = None
                        \/ m = seen
                        \/ RecordOK(m) /\ m.revision > seen.revision
CuratorOK(x, mem) ==
  /\ IsCurator(x)
  /\ \A b \in x.batches : BatchOK(b)
  /\ x.pc \in {"ask", "put", "write"} => BatchOK(x.batch)
  /\ x.pc = "write" /\ x.seen # None =>
       /\ RecordOK(x.seen)
       /\ ~skipGeneratedUpdate(x.seen, x.batch.hash)
       /\ SameOrLater(mem[x.batch.scope], x.seen)
CuratorsInv == /\ On(curator, Curators)
               /\ \A c \in Curators : CuratorOK(curator[c], memory)

MInv == RecordsInv /\ CuratorsInv

\* Operators work on the records of the scopes, and their commands are counted.
OperatorInv == /\ operator.id # 0 => operator.scope \in Scopes
               /\ commands \in Nat

\* What was forgotten last is forgotten still: its tombstone has no expiry, and no unpin
\* under way would give it one.
Tombstone(r, hash) == /\ RecordOK(r)
                      /\ r.status = "forgotten" /\ r.origin = "operator"
                      /\ r.hash = hash
                      /\ r.expires = Never /\ r.natural = Never
TombstonesInv ==
  /\ On(forgotten, Scopes)
  /\ \A s \in Scopes : forgotten[s] # Nothing => Tombstone(memory[s], forgotten[s])
UnpinInv == operator.id # 0 /\ forgotten[operator.scope] # Nothing => operator.natural = Never

OneCurator == \A c, d \in Curators : c = d

\* A record is not the absence of one.
LEMMA RecordIsSome ==
  ASSUME NEW r, IsRecord(r)
  PROVE  r # None
<1>1. "id" \in DOMAIN r
  BY DEF IsRecord
<1>2. "id" \notin DOMAIN None
  BY DEF None
<1>3. QED
  BY <1>1, <1>2

\* A curator between two passes.
LEMMA IdleIsOK ==
  ASSUME NEW mem
  PROVE  CuratorOK(IdleCurator, mem) /\ IdleCurator.pc = "idle"
<1>1. /\ IsCurator(IdleCurator) /\ IdleCurator.pc = "idle" /\ IdleCurator.batches = {}
  BY DEF IdleCurator, IsCurator
<1>2. QED
  BY <1>1 DEF CuratorOK

\* A curator with batches to look for.
LEMMA ToFind ==
  ASSUME NEW rest, NEW x, x = [IdleCurator EXCEPT !.pc = "find", !.batches = rest]
  PROVE  IsCurator(x) /\ x.pc = "find" /\ x.batches = rest
  BY DEF IdleCurator, IsCurator

\* The rest of a pass.
LEMMA RestIsOK ==
  ASSUME NEW c \in Curators, NEW b, NEW mem, CuratorOK(curator[c], memory)
  PROVE  CuratorOK(Rest(c, b), mem)
<1> DEFINE rest == curator[c].batches \ {b}
           x == [IdleCurator EXCEPT !.pc = "find", !.batches = rest]
<1>1. CASE rest = {}
  BY <1>1, IdleIsOK DEF Rest
<1>2. CASE rest # {}
  <2>1. Rest(c, b) = x
    BY <1>2 DEF Rest
  <2>2. IsCurator(x) /\ x.pc = "find" /\ x.batches = rest
    BY ToFind
  <2>3. \A k \in rest : BatchOK(k)
    BY DEF CuratorOK
  <2> HIDE DEF x, rest
  <2>4. CuratorOK(x, mem)
    BY <2>2, <2>3 DEF CuratorOK
  <2>5. QED
    BY <2>1, <2>4
<1>3. QED
  BY <1>1, <1>2

\* Curator c becomes x and no record changes.
LEMMA CuratorMoves ==
  ASSUME MInv, NEW c \in Curators, NEW x, curator' = [curator EXCEPT ![c] = x],
         CuratorOK(x, memory), memory' = memory
  PROVE  MInv'
<1>1. On(curator, Curators) /\ \A k \in Curators : CuratorOK(curator[k], memory)
  BY DEF MInv, CuratorsInv
<1>2. /\ On(curator', Curators)
      /\ \A k \in Curators : curator'[k] = IF k = c THEN x ELSE curator[k]
  BY <1>1 DEF On
<1>3. \A k \in Curators : CuratorOK(curator'[k], memory)
  BY <1>1, <1>2
<1>4. CuratorsInv'
  BY <1>2, <1>3 DEF CuratorsInv
<1>5. RecordsInv'
  BY DEF MInv, RecordsInv
<1>6. QED
  BY <1>4, <1>5 DEF MInv

\* The messages of a scope that is a candidate hash to something.
LEMMA SelectedOK ==
  ASSUME NEW batches \in Selected, NEW b \in batches
  PROVE  BatchOK(b)
<1>1. batches \subseteq {Batch(s) : s \in {x \in Scopes : Candidate(x)}}
  BY DEF Selected
<1>2. PICK s \in Scopes : Candidate(s) /\ b = Batch(s)
  BY <1>1
<1>3. b.scope = s /\ b.hash = SourceHash(s)
  BY <1>2 DEF Batch
<1>4. SourceHash(s) # {}
  <2>1. PICK i \in Sources(s) : TRUE
    BY <1>2 DEF Candidate
  <2>2. <<i, messages[i].version>> \in SourceHash(s)
    BY <2>1 DEF SourceHash
  <2>3. QED
    BY <2>2
<1>5. QED
  BY <1>3, <1>4 DEF BatchOK

\* The steps of a pass that only move it on.
LEMMA PassMoves ==
  ASSUME MInv, NEW c \in Curators,
         \/ RunOnce(c) \/ FindScope(c) \/ Summarize(c) \/ SummaryFails(c) \/ PutReads(c)
         \/ PassEnds(c)
  PROVE  MInv'
<1> DEFINE o == curator[c]
<1>1. /\ memory' = memory
      /\ CuratorOK(o, memory) /\ IsCurator(o)
      /\ On(curator, Curators)
      /\ \A s \in Scopes : memory[s] = None \/ RecordOK(memory[s])
  BY DEF MInv, RecordsInv, CuratorsInv, CuratorOK, RunOnce, FindScope, Summarize,
         SummaryFails, PutReads, PassEnds
<1>2. CuratorOK(IdleCurator, memory) /\ \A b : CuratorOK(Rest(c, b), memory)
  BY <1>1, IdleIsOK, RestIsOK
<1>3. PICK x : curator' = [curator EXCEPT ![c] = x] /\ CuratorOK(x, memory)
  <2>1. CASE RunOnce(c)
    <3>1. PICK batches \in Selected :
            curator' = [curator EXCEPT ![c] = [o EXCEPT !.pc = "find", !.batches = batches]]
      BY <2>1 DEF RunOnce
    <3>2. PICK x : x = [o EXCEPT !.pc = "find", !.batches = batches]
      OBVIOUS
    <3>3. IsCurator(x) /\ x.pc = "find" /\ x.batches = batches
      BY <1>1, <3>2 DEF IsCurator
    <3>4. CuratorOK(x, memory)
      BY <3>3, SelectedOK DEF CuratorOK
    <3>5. QED
      BY <3>1, <3>2, <3>4
  <2>2. CASE FindScope(c)
    <3>1. PICK b \in o.batches :
            \/ curator' = [curator EXCEPT ![c] = Rest(c, b)]
            \/ curator' = [curator EXCEPT ![c] = [o EXCEPT !.batch = b, !.pc = "ask"]]
      BY <2>2 DEF FindScope
    <3>2. PICK x : x = [o EXCEPT !.batch = b, !.pc = "ask"]
      OBVIOUS
    <3>3. IsCurator(x) /\ x.pc = "ask" /\ x.batch = b /\ x.batches = o.batches
      BY <1>1, <3>2 DEF IsCurator
    <3>4. CuratorOK(x, memory)
      BY <1>1, <3>1, <3>3 DEF CuratorOK
    <3>5. QED
      BY <1>2, <3>1, <3>2, <3>4
  <2>3. CASE Summarize(c)
    <3>1. PICK x : x = [o EXCEPT !.pc = "put"]
      OBVIOUS
    <3>2. curator' = [curator EXCEPT ![c] = x] /\ o.pc = "ask"
      BY <2>3, <3>1 DEF Summarize
    <3>3. IsCurator(x) /\ x.pc = "put" /\ x.batch = o.batch /\ x.batches = o.batches
      BY <1>1, <3>1 DEF IsCurator
    <3>4. CuratorOK(x, memory)
      BY <1>1, <3>2, <3>3 DEF CuratorOK
    <3>5. QED
      BY <3>2, <3>4
  <2>4. CASE SummaryFails(c)
    BY <1>2, <2>4 DEF SummaryFails
  <2>5. CASE PassEnds(c)
    BY <1>2, <2>5 DEF PassEnds
  <2>6. CASE PutReads(c)
    <3> DEFINE record == memory[o.batch.scope]
    <3>1. o.pc = "put"
      BY <2>6 DEF PutReads
    <3>2. PICK x : x = [o EXCEPT !.pc = "write", !.seen = record, !.tries = o.tries + 1]
      OBVIOUS
    <3>3. \/ curator' = [curator EXCEPT ![c] = IdleCurator]
          \/ curator' = [curator EXCEPT ![c] = Rest(c, o.batch)]
          \/ /\ curator' = [curator EXCEPT ![c] = x]
             /\ record = None \/ ~skipGeneratedUpdate(record, o.batch.hash)
      BY <2>6, <3>2 DEF PutReads
    <3>4. /\ IsCurator(x) /\ x.pc = "write" /\ x.batch = o.batch /\ x.batches = o.batches
          /\ x.seen = record
      BY <1>1, <3>2 DEF IsCurator
    <3>5. BatchOK(o.batch) /\ \A b \in o.batches : BatchOK(b)
      BY <1>1, <3>1 DEF CuratorOK
    <3>6. record # None => RecordOK(record)
      BY <1>1, <3>5 DEF BatchOK
    <3>7. record = None \/ ~skipGeneratedUpdate(record, o.batch.hash) => CuratorOK(x, memory)
      BY <3>4, <3>5, <3>6 DEF CuratorOK, SameOrLater
    <3>8. QED
      BY <1>2, <3>3, <3>7
  <2>7. QED
    BY <2>1, <2>2, <2>3, <2>4, <2>5, <2>6
<1>4. QED
  BY <1>1, <1>3, CuratorMoves

\* What a pass does to its scope, when only one curator runs: it writes nothing, it
\* inserts where there is no record, or it replaces the very record it read, which is
\* neither an operator's nor about the same messages.
Learns(s, b) ==
  /\ BatchOK(b) /\ b.scope = s
  /\ \E r : /\ memory' = [memory EXCEPT ![s] = r]
            /\ RecordOK(r) /\ r.hash = b.hash /\ r.origin = "model" /\ r # None
  /\ \/ memory[s] = None
     \/ memory[s] # None /\ RecordOK(memory[s]) /\ ~skipGeneratedUpdate(memory[s], b.hash)
  /\ forgotten' = [forgotten EXCEPT ![s] = IF @ = b.hash THEN @ ELSE Nothing]

\* A generated record.
LEMMA GeneratedOK ==
  ASSUME NEW b, BatchOK(b), NEW id, NEW n \in Nat
  PROVE  /\ RecordOK(Generated(b, id, n))
         /\ Generated(b, id, n).hash = b.hash
         /\ Generated(b, id, n).origin = "model"
         /\ Generated(b, id, n) # None
<1> DEFINE r == Generated(b, id, n)
<1>1. /\ IsRecord(r) /\ r.hash = b.hash /\ r.origin = "model" /\ r.pinned = FALSE
      /\ r.revision = n
  BY DEF Generated, IsRecord
<1> HIDE DEF r
<1>2. r # None
  BY <1>1, RecordIsSome
<1>3. QED
  BY <1>1, <1>2 DEF RecordOK, BatchOK, r

\* PutGenerated writes.
LEMMA PutWritesLearns ==
  ASSUME OneCurator, MInv, NEW c \in Curators, PutWrites(c)
  PROVE  /\ MInv'
         /\ \/ memory' = memory /\ forgotten' = forgotten
            \/ \E s, b : Learns(s, b)
<1> DEFINE o == curator[c]
           b == o.batch
           s == b.scope
           seen == o.seen
           inserts == seen = None /\ memory[s] = None
           replaces == Unseen(s, seen)
<1>1. /\ o.pc = "write" /\ CuratorOK(o, memory) /\ IsCurator(o) /\ BatchOK(b)
      /\ s \in Scopes /\ On(curator, Curators) /\ On(memory, Scopes)
      /\ \A k \in Scopes : memory[k] = None \/ RecordOK(memory[k])
  BY DEF MInv, RecordsInv, CuratorsInv, CuratorOK, PutWrites, BatchOK
<1>2. CASE inserts \/ replaces
  <2> DEFINE r == IF inserts THEN Generated(b, ids + 1, 1)
                  ELSE Generated(b, seen.id, seen.revision + 1)
  <2>1. /\ memory' = [memory EXCEPT ![s] = r]
        /\ forgotten' = [forgotten EXCEPT ![s] = IF @ = b.hash THEN @ ELSE Nothing]
        /\ curator' = [curator EXCEPT ![c] = Rest(c, b)]
    BY <1>2 DEF PutWrites
  <2>2. replaces => /\ seen # None /\ memory[s] # None
                    /\ memory[s].revision = seen.revision
    BY DEF Unseen
  <2>3. replaces => /\ RecordOK(seen) /\ ~skipGeneratedUpdate(seen, b.hash)
                    /\ SameOrLater(memory[s], seen)
    BY <1>1, <2>2 DEF CuratorOK
  <2>4. replaces => memory[s] = seen
    BY <2>2, <2>3 DEF SameOrLater, RecordOK
  <2>5. \/ memory[s] = None
        \/ memory[s] # None /\ RecordOK(memory[s]) /\ ~skipGeneratedUpdate(memory[s], b.hash)
    BY <1>2, <2>2, <2>3, <2>4
  <2>6. RecordOK(r) /\ r.hash = b.hash /\ r.origin = "model" /\ r # None
    <3>1. CASE inserts
      BY <1>1, <3>1, GeneratedOK
    <3>2. CASE ~inserts
      <4>1. seen.revision + 1 \in Nat
        BY <1>2, <2>3, <3>2 DEF RecordOK
      <4>2. QED
        BY <1>1, <3>2, <4>1, GeneratedOK
    <3>3. QED
      BY <3>1, <3>2
  <2> HIDE DEF r, b, s, seen, inserts, replaces
  <2>7. Learns(s, b)
    BY <1>1, <2>1, <2>5, <2>6 DEF Learns, s
  <2>8. RecordsInv'
    <3>1. /\ On(memory', Scopes)
          /\ \A k \in Scopes : memory'[k] = IF k = s THEN r ELSE memory[k]
      BY <1>1, <2>1 DEF On
    <3>2. \A k \in Scopes : memory'[k] = None \/ RecordOK(memory'[k])
      BY <1>1, <2>6, <3>1
    <3>3. QED
      BY <3>1, <3>2 DEF RecordsInv
  <2>9. CuratorsInv'
    <3>1. /\ On(curator', Curators)
          /\ \A k \in Curators : curator'[k] = IF k = c THEN Rest(c, b) ELSE curator[k]
      BY <1>1, <2>1 DEF On
    <3>2. \A k \in Curators : curator'[k] = Rest(c, b)
      BY <3>1 DEF OneCurator
    <3>3. CuratorOK(Rest(c, b), memory')
      BY <1>1, RestIsOK
    <3>4. \A k \in Curators : CuratorOK(curator'[k], memory')
      BY <3>2, <3>3
    <3>5. QED
      BY <3>1, <3>4 DEF CuratorsInv
  <2>10. QED
    BY <1>1, <2>7, <2>8, <2>9 DEF MInv
<1>3. CASE ~(inserts \/ replaces)
  <2>1. memory' = memory /\ forgotten' = forgotten
    BY <1>3 DEF PutWrites
  <2>2. PICK x : x = [o EXCEPT !.pc = "put"]
    OBVIOUS
  <2>3. curator' = [curator EXCEPT ![c] = x]
    BY <1>3, <2>2 DEF PutWrites
  <2>4. IsCurator(x) /\ x.pc = "put" /\ x.batch = b /\ x.batches = o.batches
    BY <1>1, <2>2 DEF IsCurator
  <2>5. CuratorOK(x, memory)
    BY <1>1, <2>4 DEF CuratorOK
  <2>6. QED
    BY <2>1, <2>3, <2>5, CuratorMoves
<1>4. QED
  BY <1>2, <1>3

\* An operator's write to the record of a scope: its next revision, with the fields of x.
Rewrites(s, x) ==
  /\ s \in Scopes /\ memory[s] # None
  /\ On(memory', Scopes) /\ \A k \in Scopes : k # s => memory'[k] = memory[k]
  /\ LET r == memory'[s]
     IN  /\ RecordOK(r) /\ r # None
         /\ r.hash = x.hash /\ r.status = x.status /\ r.origin = x.origin
         /\ r.natural = x.natural /\ r.expires = x.expires

\* The record of a scope is revised: what a pass has read is an earlier revision.
LEMMA RevisedOK ==
  ASSUME MInv, NEW s \in Scopes, memory[s] # None, NEW x, Revised(s, x), curator' = curator,
         IsRecord(x), x.revision = memory[s].revision, x.hash = memory[s].hash,
         x.pinned => x.expires = Never
  PROVE  MInv' /\ Rewrites(s, x)
<1>1. PICK r : r = [x EXCEPT !.revision = x.revision + 1]
  OBVIOUS
<1>2. /\ IsRecord(r) /\ r.revision = x.revision + 1 /\ r.hash = x.hash
      /\ r.status = x.status /\ r.origin = x.origin /\ r.pinned = x.pinned
      /\ r.natural = x.natural /\ r.expires = x.expires
  BY <1>1 DEF IsRecord
<1>3. RecordOK(memory[s]) /\ On(memory, Scopes)
  BY DEF MInv, RecordsInv
<1>4. r.revision \in Nat /\ r.revision = memory[s].revision + 1
  BY <1>2, <1>3 DEF RecordOK
<1>5. RecordOK(r) /\ r # None
  BY <1>2, <1>3, <1>4, RecordIsSome DEF RecordOK
<1>6. memory' = [memory EXCEPT ![s] = r]
  BY <1>1 DEF Revised
<1>7. On(memory', Scopes) /\ \A k \in Scopes : memory'[k] = IF k = s THEN r ELSE memory[k]
  BY <1>3, <1>6 DEF On
<1>8. Rewrites(s, x)
  BY <1>2, <1>5, <1>7 DEF Rewrites
<1>9. RecordsInv'
  BY <1>5, <1>7 DEF MInv, RecordsInv
<1>10. ASSUME NEW c \in Curators PROVE CuratorOK(curator[c], memory')
  <2> DEFINE o == curator[c]
             k == o.batch.scope
  <2>1. CuratorOK(o, memory)
    BY DEF MInv, CuratorsInv
  <2>2. ASSUME o.pc = "write", o.seen # None PROVE SameOrLater(memory'[k], o.seen)
    <3>1. RecordOK(o.seen) /\ SameOrLater(memory[k], o.seen) /\ k \in Scopes
      BY <2>1, <2>2 DEF CuratorOK, BatchOK
    <3>2. CASE k # s
      BY <1>7, <3>1, <3>2
    <3>3. CASE k = s
      <4>1. memory[s] = o.seen \/ memory[s].revision > o.seen.revision
        BY <3>1, <3>3 DEF SameOrLater
      <4>2. r.revision > o.seen.revision
        BY <1>3, <1>4, <3>1, <4>1 DEF RecordOK
      <4>3. QED
        BY <1>5, <1>7, <3>3, <4>2 DEF SameOrLater
    <3>4. QED
      BY <3>2, <3>3
  <2>3. QED
    BY <2>1, <2>2 DEF CuratorOK
<1>11. CuratorsInv'
  BY <1>10 DEF MInv, CuratorsInv
<1>12. QED
  BY <1>8, <1>9, <1>11 DEF MInv

\* A correction.
LEMMA CorrectWrites ==
  ASSUME MInv, NEW s \in Scopes, Correct(s)
  PROVE  MInv' /\ \E x : Rewrites(s, x)
<1>1. RecordOK(memory[s]) /\ memory[s] # None /\ curator' = curator
  BY DEF MInv, RecordsInv, Correct, OnlyOperators
<1>2. PICK x : x = [memory[s] EXCEPT !.origin = "operator", !.status = "active",
                                     !.pinned = TRUE, !.expires = Never]
  OBVIOUS
<1>3. /\ IsRecord(x) /\ x.revision = memory[s].revision /\ x.hash = memory[s].hash
      /\ x.expires = Never
  BY <1>1, <1>2 DEF RecordOK, IsRecord
<1>4. Revised(s, x)
  BY <1>2 DEF Correct
<1>5. QED
  BY <1>1, <1>3, <1>4, RevisedOK

\* A pin leaves a tombstone one.
LEMMA PinWrites ==
  ASSUME MInv, NEW s \in Scopes, Pin(s)
  PROVE  /\ MInv'
         /\ \E x : /\ Rewrites(s, x)
                   /\ x.hash = memory[s].hash /\ x.status = memory[s].status
                   /\ x.origin = memory[s].origin /\ x.natural = memory[s].natural
                   /\ x.expires = Never
<1>1. RecordOK(memory[s]) /\ memory[s] # None /\ curator' = curator
  BY DEF MInv, RecordsInv, Pin, OnlyOperators
<1>2. PICK x : x = [memory[s] EXCEPT !.pinned = TRUE, !.expires = Never]
  OBVIOUS
<1>3. /\ IsRecord(x) /\ x.revision = memory[s].revision /\ x.hash = memory[s].hash
      /\ x.status = memory[s].status /\ x.origin = memory[s].origin
      /\ x.natural = memory[s].natural /\ x.expires = Never
  BY <1>1, <1>2 DEF RecordOK, IsRecord
<1>4. Revised(s, x)
  BY <1>2 DEF Pin
<1>5. QED
  BY <1>1, <1>3, <1>4, RevisedOK

\* An unpin writes the expiry it read.
LEMMA UnpinWritesOrNot ==
  ASSUME MInv, OperatorInv, UnpinWrites
  PROVE  /\ MInv'
         /\ \/ memory' = memory
            \/ /\ commands' = commands + 1
               /\ \E x : /\ Rewrites(operator.scope, x)
                         /\ x.hash = memory[operator.scope].hash
                         /\ x.status = memory[operator.scope].status
                         /\ x.origin = memory[operator.scope].origin
                         /\ x.natural = memory[operator.scope].natural
                         /\ operator.natural = Never
                              => x.expires = memory[operator.scope].expires
<1> DEFINE s == operator.scope
<1>1. s \in Scopes /\ curator' = curator
  BY DEF OperatorInv, UnpinWrites, OnlyOperators
<1>2. CASE memory[s] # None /\ memory[s].id = operator.id
  <2>1. RecordOK(memory[s])
    BY <1>1, <1>2 DEF MInv, RecordsInv
  <2>2. PICK x : x = [memory[s] EXCEPT !.pinned = FALSE,
                        !.expires = IF operator.natural = Never THEN memory[s].expires
                                    ELSE operator.natural]
    OBVIOUS
  <2>3. /\ IsRecord(x) /\ x.revision = memory[s].revision /\ x.hash = memory[s].hash
        /\ x.status = memory[s].status /\ x.origin = memory[s].origin
        /\ x.natural = memory[s].natural /\ x.pinned = FALSE
        /\ operator.natural = Never => x.expires = memory[s].expires
    BY <2>1, <2>2 DEF RecordOK, IsRecord
  <2>4. Revised(s, x) /\ commands' = commands + 1
    BY <1>2, <2>2 DEF UnpinWrites, Ordered
  <2>5. MInv' /\ Rewrites(s, x)
    BY <1>1, <1>2, <2>3, <2>4, RevisedOK
  <2>6. QED
    BY <2>3, <2>4, <2>5
<1>3. CASE ~(memory[s] # None /\ memory[s].id = operator.id)
  <2>1. memory' = memory
    BY <1>3 DEF UnpinWrites
  <2>2. QED
    BY <1>1, <2>1 DEF MInv, RecordsInv, CuratorsInv
<1>4. QED
  BY <1>2, <1>3

\* Forgetting leaves a tombstone with the hash of what was forgotten.
LEMMA ForgetWrites ==
  ASSUME MInv, NEW s \in Scopes, Forget(s)
  PROVE  /\ MInv'
         /\ \E x : Rewrites(s, x)
         /\ Tombstone(memory'[s], memory[s].hash)
<1>1. RecordOK(memory[s]) /\ memory[s] # None /\ curator' = curator
  BY DEF MInv, RecordsInv, Forget, OnlyOperators
<1>2. PICK x : x = Erased(memory[s])
  OBVIOUS
<1>3. /\ IsRecord(x) /\ x.revision = memory[s].revision /\ x.hash = memory[s].hash
      /\ x.status = "forgotten" /\ x.origin = "operator"
      /\ x.natural = Never /\ x.expires = Never
  BY <1>1, <1>2 DEF RecordOK, IsRecord, Erased
<1>4. Revised(s, x)
  BY <1>2 DEF Forget
<1>5. MInv' /\ Rewrites(s, x)
  BY <1>1, <1>3, <1>4, RevisedOK
<1>6. QED
  BY <1>3, <1>5 DEF Rewrites, Tombstone

\* Retention removes a record.
LEMMA ExpireKeeps ==
  ASSUME MInv, NEW s \in Scopes, Expire(s)
  PROVE  MInv'
<1>1. On(memory, Scopes) /\ memory' = [memory EXCEPT ![s] = None] /\ curator' = curator
  BY DEF MInv, RecordsInv, Expire
<1>2. On(memory', Scopes) /\ \A k \in Scopes : memory'[k] = IF k = s THEN None ELSE memory[k]
  BY <1>1 DEF On
<1>3. RecordsInv'
  BY <1>2 DEF MInv, RecordsInv
<1>4. ASSUME NEW c \in Curators PROVE CuratorOK(curator[c], memory')
  BY <1>2 DEF MInv, CuratorsInv, CuratorOK, BatchOK, SameOrLater
<1>5. QED
  BY <1>1, <1>3, <1>4 DEF MInv, CuratorsInv

\* Every step but those of a command, of PutGenerated's write and of retention leaves the
\* records, what was forgotten and the operator alone.
LEMMA Elsewhere ==
  ASSUME MInv, OperatorInv,
         \/ \E c \in Curators : \/ RunOnce(c) \/ FindScope(c) \/ Summarize(c)
                                \/ PutReads(c) \/ SummaryFails(c) \/ PassEnds(c)
         \/ \E reply \in BOOLEAN : Post(reply)
         \/ \E i \in 1..Len(messages) : Edit(i) \/ DeleteMessage(i)
         \/ SetSessionOnly
         \/ Tick
         \/ UNCHANGED mvars
  PROVE  /\ MInv' /\ OperatorInv'
         /\ memory' = memory /\ forgotten' = forgotten /\ operator' = operator
<1>1. CASE \E c \in Curators : \/ RunOnce(c) \/ FindScope(c) \/ Summarize(c)
                               \/ PutReads(c) \/ SummaryFails(c) \/ PassEnds(c)
  <2>1. PICK c \in Curators : \/ RunOnce(c) \/ FindScope(c) \/ Summarize(c)
                              \/ PutReads(c) \/ SummaryFails(c) \/ PassEnds(c)
    BY <1>1
  <2>2. MInv'
    BY <2>1, PassMoves
  <2>3. /\ memory' = memory /\ forgotten' = forgotten /\ operator' = operator
        /\ commands' = commands
    BY <2>1 DEF RunOnce, FindScope, Summarize, PutReads, SummaryFails, PassEnds, OnlyCurator
  <2>4. QED
    BY <2>2, <2>3 DEF OperatorInv
<1>2. CASE ~\E c \in Curators : \/ RunOnce(c) \/ FindScope(c) \/ Summarize(c)
                                \/ PutReads(c) \/ SummaryFails(c) \/ PassEnds(c)
  <2>1. /\ memory' = memory /\ forgotten' = forgotten /\ operator' = operator
        /\ commands' = commands /\ curator' = curator
    BY <1>2 DEF Post, Edit, DeleteMessage, SetSessionOnly, Tick, OnlySlack, mvars
  <2>2. QED
    BY <2>1 DEF MInv, RecordsInv, CuratorsInv, OperatorInv
<1>3. QED
  BY <1>1, <1>2

\* The steps of the memory, by what they do to it.
LEMMA MemoryCases ==
  ASSUME MInv, OperatorInv, [MemoryNext]_mvars
  PROVE  \/ MInv' /\ OperatorInv' /\ memory' = memory /\ forgotten' = forgotten
                  /\ operator' = operator
         \/ \E c \in Curators : PutWrites(c)
         \/ \E s \in Scopes : Correct(s) \/ Pin(s) \/ UnpinReads(s) \/ Forget(s)
         \/ \E s \in Scopes : Expire(s)
         \/ UnpinWrites
<1>1. ASSUME \/ \E c \in Curators : \/ RunOnce(c) \/ FindScope(c) \/ Summarize(c)
                                    \/ PutReads(c) \/ SummaryFails(c) \/ PassEnds(c)
             \/ \E reply \in BOOLEAN : Post(reply)
             \/ \E i \in 1..Len(messages) : Edit(i) \/ DeleteMessage(i)
             \/ SetSessionOnly
             \/ Tick
             \/ UNCHANGED mvars
      PROVE  /\ MInv' /\ OperatorInv'
             /\ memory' = memory /\ forgotten' = forgotten /\ operator' = operator
  BY <1>1, Elsewhere
<1>2. Commanded \subseteq Scopes
  BY CommandedAssumption
<1>3. QED
  BY <1>1, <1>2, Zenon DEF MemoryNext, Curate

\* The records and the passes are in order after every step.
LEMMA MemoryStep ==
  ASSUME OneCurator, MInv, OperatorInv, [MemoryNext]_mvars
  PROVE  MInv' /\ OperatorInv'
<1>1. ASSUME NEW c \in Curators, PutWrites(c) PROVE MInv' /\ OperatorInv'
  BY <1>1, PutWritesLearns DEF PutWrites, OnlyCurator, OperatorInv
<1>2. ASSUME NEW s \in Scopes, Correct(s) PROVE MInv' /\ OperatorInv'
  <2>1. MInv'
    BY <1>2, CorrectWrites
  <2>2. operator' = operator /\ commands' = commands + 1
    BY <1>2 DEF Correct, Ordered
  <2>3. QED
    BY <2>1, <2>2 DEF OperatorInv
<1>3. ASSUME NEW s \in Scopes, Pin(s) PROVE MInv' /\ OperatorInv'
  <2>1. MInv'
    BY <1>3, PinWrites
  <2>2. operator' = operator /\ commands' = commands + 1
    BY <1>3 DEF Pin, Ordered
  <2>3. QED
    BY <2>1, <2>2 DEF OperatorInv
<1>4. ASSUME NEW s \in Scopes, Forget(s) PROVE MInv' /\ OperatorInv'
  <2>1. MInv'
    BY <1>4, ForgetWrites
  <2>2. operator' = operator /\ commands' = commands + 1
    BY <1>4 DEF Forget, Ordered
  <2>3. QED
    BY <2>1, <2>2 DEF OperatorInv
<1>5. ASSUME NEW s \in Scopes, UnpinReads(s) PROVE MInv' /\ OperatorInv'
  <2>1. /\ memory' = memory /\ curator' = curator /\ commands' = commands
        /\ operator'.scope = s
    BY <1>5 DEF UnpinReads, OnlyOperators
  <2>2. QED
    BY <2>1 DEF MInv, RecordsInv, CuratorsInv, OperatorInv
<1>6. ASSUME NEW s \in Scopes, Expire(s) PROVE MInv' /\ OperatorInv'
  BY <1>6, ExpireKeeps DEF Expire, OperatorInv
<1>7. ASSUME UnpinWrites PROVE MInv' /\ OperatorInv'
  <2>1. MInv'
    BY <1>7, UnpinWritesOrNot
  <2>2. operator'.id = 0 /\ (commands' = commands \/ commands' = commands + 1)
    BY <1>7 DEF UnpinWrites, Ordered, IdleOperator
  <2>3. QED
    BY <2>1, <2>2 DEF OperatorInv
<1>8. QED
  BY <1>1, <1>2, <1>3, <1>4, <1>5, <1>6, <1>7, MemoryCases

\* The memory starts empty.
LEMMA MemoryStarts ==
  ASSUME MemoryInit
  PROVE  MInv /\ OperatorInv /\ TombstonesInv /\ UnpinInv
<1>1. On(memory, Scopes) /\ \A s \in Scopes : memory[s] = None
  BY DEF MemoryInit, On
<1>2. On(curator, Curators) /\ \A c \in Curators : curator[c] = IdleCurator
  BY DEF MemoryInit, On
<1>3. On(forgotten, Scopes) /\ \A s \in Scopes : forgotten[s] = Nothing
  BY DEF MemoryInit, On
<1>4. operator.id = 0 /\ commands = 0
  BY DEF MemoryInit, IdleOperator
<1>5. MInv
  BY <1>1, <1>2, IdleIsOK DEF MInv, RecordsInv, CuratorsInv
<1>6. QED
  BY <1>3, <1>4, <1>5 DEF OperatorInv, TombstonesInv, UnpinInv

\* What an operator corrected or pinned stands (OperatorStands): PutGenerated
\* (core/memory/mongo.go) replaces no record that an operator made his, however the
\* summary, the commands and retention interleave.  For one curator: with two, a record
\* removed and inserted again repeats the revision that another process has read.
THEOREM CorrectionsStand ==
  ASSUME OneCurator
  PROVE  MemorySpec => OperatorStands
<1>1. MemoryInit => MInv /\ OperatorInv
  BY MemoryStarts
<1>2. MInv /\ OperatorInv /\ [MemoryNext]_mvars => (MInv /\ OperatorInv)'
  BY MemoryStep
<1> DEFINE Stands(s) == (memory[s] # None /\ Protected(memory[s]) /\ commands' = commands) =>
                          \/ memory'[s] = memory[s]
                          \/ memory'[s] = None /\ ~memory[s].pinned
<1>3. MInv /\ OperatorInv /\ [MemoryNext]_mvars => [\A s \in Scopes : Stands(s)]_mvars
  <2> SUFFICES ASSUME MInv, OperatorInv, [MemoryNext]_mvars, NEW s \in Scopes,
                      memory[s] # None, Protected(memory[s]), commands' = commands
               PROVE  \/ memory'[s] = memory[s]
                      \/ memory'[s] = None /\ ~memory[s].pinned
    BY Zenon
  <2>1. On(memory, Scopes) /\ RecordOK(memory[s]) /\ commands + 1 # commands
    BY DEF MInv, RecordsInv, OperatorInv
  <2>2. ASSUME NEW c \in Curators, PutWrites(c) PROVE memory'[s] = memory[s]
    <3>1. CASE memory' = memory
      BY <3>1
    <3>2. CASE \E k, b : Learns(k, b)
      <4>1. PICK k, b : Learns(k, b)
        BY <3>2
      <4>2. k # s /\ k \in Scopes
        BY <4>1 DEF Learns, skipGeneratedUpdate, BatchOK
      <4>3. QED
        BY <2>1, <4>1, <4>2 DEF Learns, On
    <3>3. QED
      BY <2>2, <3>1, <3>2, PutWritesLearns
  <2>3. ASSUME NEW k \in Scopes, Expire(k)
        PROVE  memory'[s] = memory[s] \/ (memory'[s] = None /\ ~memory[s].pinned)
    <3>1. memory' = [memory EXCEPT ![k] = None] /\ memory[k].expires # Never
      BY <2>3 DEF Expire
    <3>2. memory'[s] = IF s = k THEN None ELSE memory[s]
      BY <2>1, <3>1 DEF On
    <3>3. QED
      BY <2>1, <3>1, <3>2 DEF RecordOK
  <2>4. ASSUME NEW k \in Scopes, Correct(k) \/ Pin(k) \/ UnpinReads(k) \/ Forget(k)
        PROVE  memory'[s] = memory[s]
    BY <2>1, <2>4 DEF Correct, Pin, UnpinReads, Forget, Ordered
  <2>5. ASSUME UnpinWrites PROVE memory'[s] = memory[s]
    BY <2>1, <2>5, UnpinWritesOrNot
  <2>6. QED
    BY <2>2, <2>3, <2>4, <2>5, MemoryCases
<1>4. QED
  BY <1>1, <1>2, <1>3, PTL DEF MemorySpec, OperatorStands

\* Tombstones after a command that leaves what was forgotten as it is: the record of s
\* has its next revision, and a tombstone is one still.
LEMMA TombstonesRevised ==
  ASSUME MInv, TombstonesInv, NEW s \in Scopes, NEW x, Rewrites(s, x),
         forgotten' = forgotten,
         forgotten[s] # Nothing => /\ x.hash = memory[s].hash /\ x.status = memory[s].status
                                   /\ x.origin = memory[s].origin
                                   /\ x.natural = memory[s].natural /\ x.expires = Never
  PROVE  TombstonesInv'
<1>1. ASSUME NEW k \in Scopes, forgotten[k] # Nothing PROVE Tombstone(memory'[k], forgotten[k])
  <2>1. Tombstone(memory[k], forgotten[k])
    BY <1>1 DEF TombstonesInv
  <2>2. CASE k # s
    BY <2>1, <2>2 DEF Rewrites
  <2>3. CASE k = s
    BY <1>1, <2>1, <2>3 DEF Rewrites, Tombstone
  <2>4. QED
    BY <2>2, <2>3
<1>2. QED
  BY <1>1 DEF TombstonesInv

\* Tombstones after the record of s alone changed, and what was forgotten of it with it.
LEMMA TombstonesMoved ==
  ASSUME TombstonesInv, NEW s \in Scopes, NEW h, forgotten' = [forgotten EXCEPT ![s] = h],
         \A k \in Scopes : k # s => memory'[k] = memory[k],
         h # Nothing => Tombstone(memory'[s], h)
  PROVE  /\ TombstonesInv'
         /\ forgotten'[s] = h /\ \A k \in Scopes : k # s => forgotten'[k] = forgotten[k]
<1>1. /\ On(forgotten', Scopes)
      /\ \A k \in Scopes : forgotten'[k] = IF k = s THEN h ELSE forgotten[k]
  BY DEF TombstonesInv, On
<1>2. ASSUME NEW k \in Scopes, forgotten'[k] # Nothing PROVE Tombstone(memory'[k], forgotten'[k])
  BY <1>1, <1>2 DEF TombstonesInv
<1>3. QED
  BY <1>1, <1>2 DEF TombstonesInv

\* What a curator learns takes the place of no tombstone of the same messages.
LEMMA LearnsElse ==
  ASSUME MInv, TombstonesInv, UnpinInv, OperatorInv, NEW s \in Scopes, NEW b, Learns(s, b),
         operator' = operator
  PROVE  TombstonesInv' /\ UnpinInv'
<1>1. forgotten[s] # Nothing => forgotten[s] # b.hash
  <2>1. ASSUME forgotten[s] # Nothing PROVE forgotten[s] # b.hash
    <3>1. Tombstone(memory[s], forgotten[s])
      BY <2>1 DEF TombstonesInv
    <3>2. memory[s] # None
      BY <3>1, RecordIsSome DEF Tombstone, RecordOK
    <3>3. memory[s].hash # b.hash
      BY <3>2 DEF Learns, skipGeneratedUpdate
    <3>4. QED
      BY <3>1, <3>3 DEF Tombstone
  <2>2. QED
    BY <2>1
<1>2. forgotten' = [forgotten EXCEPT ![s] = Nothing]
  <2>1. (IF forgotten[s] = b.hash THEN forgotten[s] ELSE Nothing) = Nothing
    BY <1>1
  <2>2. forgotten' = [forgotten EXCEPT ![s] = IF forgotten[s] = b.hash THEN forgotten[s]
                                              ELSE Nothing]
    BY DEF Learns
  <2>3. QED
    BY <2>1, <2>2
<1>3. \A k \in Scopes : k # s => memory'[k] = memory[k]
  BY DEF Learns, MInv, RecordsInv, On
<1>4. /\ TombstonesInv'
      /\ forgotten'[s] = Nothing
      /\ \A k \in Scopes : k # s => forgotten'[k] = forgotten[k]
  BY <1>2, <1>3, TombstonesMoved, Zenon
<1>5. QED
  BY <1>4 DEF UnpinInv, OperatorInv

\* Every step keeps what is forgotten forgotten.
LEMMA TombstonesStep ==
  ASSUME OneCurator, ~UnpinsCross, MInv, OperatorInv, TombstonesInv, UnpinInv,
         [MemoryNext]_mvars
  PROVE  TombstonesInv' /\ UnpinInv'
<1>1. ASSUME memory' = memory, forgotten' = forgotten, operator' = operator
      PROVE  TombstonesInv' /\ UnpinInv'
  BY <1>1 DEF TombstonesInv, UnpinInv
<1>2. ASSUME NEW c \in Curators, PutWrites(c) PROVE TombstonesInv' /\ UnpinInv'
  <2>1. operator' = operator
    BY <1>2 DEF PutWrites, OnlyCurator
  <2>2. QED
    <3>1. ASSUME NEW s, NEW b, Learns(s, b) PROVE TombstonesInv' /\ UnpinInv'
      BY <2>1, <3>1, LearnsElse DEF Learns, BatchOK
    <3>2. QED
      BY <1>1, <1>2, <2>1, <3>1, PutWritesLearns
<1>3. ASSUME NEW s \in Scopes, Correct(s) PROVE TombstonesInv' /\ UnpinInv'
  <2>1. \A k \in Scopes : k # s => memory'[k] = memory[k]
    BY <1>3, CorrectWrites DEF Rewrites
  <2>2. forgotten' = [forgotten EXCEPT ![s] = Nothing] /\ operator' = operator
    BY <1>3 DEF Correct
  <2>3. /\ TombstonesInv'
        /\ forgotten'[s] = Nothing
        /\ \A k \in Scopes : k # s => forgotten'[k] = forgotten[k]
    BY <2>1, <2>2, TombstonesMoved, Zenon
  <2>4. QED
    BY <2>2, <2>3 DEF UnpinInv, OperatorInv
<1>4. ASSUME NEW s \in Scopes, Pin(s) PROVE TombstonesInv' /\ UnpinInv'
  <2>1. forgotten' = forgotten /\ operator' = operator
    BY <1>4 DEF Pin
  <2>2. TombstonesInv'
    BY <1>4, <2>1, PinWrites, TombstonesRevised
  <2>3. QED
    BY <2>1, <2>2 DEF UnpinInv
<1>5. ASSUME NEW s \in Scopes, UnpinReads(s) PROVE TombstonesInv' /\ UnpinInv'
  <2>1. /\ memory' = memory /\ forgotten' = forgotten
        /\ operator'.scope = s /\ operator'.natural = memory[s].natural
    BY <1>5 DEF UnpinReads
  <2>2. forgotten[s] # Nothing => memory[s].natural = Never
    BY DEF TombstonesInv, Tombstone
  <2>3. QED
    BY <2>1, <2>2 DEF TombstonesInv, UnpinInv
<1>6. ASSUME NEW s \in Scopes, Forget(s) PROVE TombstonesInv' /\ UnpinInv'
  <2>1. /\ \A k \in Scopes : k # s => memory'[k] = memory[k]
        /\ Tombstone(memory'[s], memory[s].hash)
    BY <1>6, ForgetWrites DEF Rewrites
  <2>2. /\ forgotten' = [forgotten EXCEPT ![s] = memory[s].hash] /\ operator' = operator
        /\ operator.id = 0 \/ operator.scope # s
    BY <1>6 DEF Forget
  <2>3. /\ TombstonesInv'
        /\ forgotten'[s] = memory[s].hash
        /\ \A k \in Scopes : k # s => forgotten'[k] = forgotten[k]
    BY <2>1, <2>2, TombstonesMoved, Zenon
  <2>4. QED
    BY <2>2, <2>3 DEF UnpinInv, OperatorInv
<1>7. ASSUME NEW s \in Scopes, Expire(s) PROVE TombstonesInv' /\ UnpinInv'
  <2>1. /\ memory' = [memory EXCEPT ![s] = None] /\ memory[s].expires # Never
        /\ forgotten' = forgotten /\ operator' = operator
    BY <1>7 DEF Expire
  <2>2. \A k \in Scopes : k # s => memory'[k] = memory[k]
    BY <2>1 DEF MInv, RecordsInv, On
  <2>3. forgotten[s] = Nothing
    BY <2>1 DEF TombstonesInv, Tombstone
  <2>4. QED
    BY <2>1, <2>2, <2>3 DEF TombstonesInv, UnpinInv
<1>8. ASSUME UnpinWrites PROVE TombstonesInv' /\ UnpinInv'
  <2>1. forgotten' = forgotten /\ operator'.id = 0 /\ operator.id # 0 /\ operator.scope \in Scopes
    BY <1>8 DEF UnpinWrites, IdleOperator, OperatorInv
  <2>2. CASE memory' = memory
    BY <2>1, <2>2 DEF TombstonesInv, UnpinInv
  <2>3. CASE memory' # memory
    <3> DEFINE s == operator.scope
    <3>1. PICK x : /\ Rewrites(s, x)
                   /\ x.hash = memory[s].hash /\ x.status = memory[s].status
                   /\ x.origin = memory[s].origin /\ x.natural = memory[s].natural
                   /\ operator.natural = Never => x.expires = memory[s].expires
      BY <1>8, <2>3, UnpinWritesOrNot
    <3>2. forgotten[s] # Nothing => x.expires = Never
      BY <2>1, <3>1 DEF UnpinInv, TombstonesInv, Tombstone
    <3>3. TombstonesInv'
      BY <2>1, <3>1, <3>2, TombstonesRevised
    <3>4. QED
      BY <2>1, <3>3 DEF UnpinInv
  <2>4. QED
    BY <2>2, <2>3
<1>9. QED
  BY <1>1, <1>2, <1>3, <1>4, <1>5, <1>6, <1>7, <1>8, MemoryCases

\* What an operator forgot is not learned again (NotLearnedAgain), although a pass that has
\* read the same messages is under way: skipGeneratedUpdate (core/memory/mongo.go) finds
\* the hash of a tombstone that retention does not remove.  For one curator, and as long as
\* no unpin crosses the forgetting: SetPinned writes the expiry it has read, to a tombstone
\* as well.
THEOREM ForgottenStays ==
  ASSUME OneCurator, ~UnpinsCross
  PROVE  MemorySpec => []NotLearnedAgain
<1> DEFINE Inv == MInv /\ OperatorInv /\ TombstonesInv /\ UnpinInv
<1>1. MemoryInit => Inv
  BY MemoryStarts
<1>2. Inv /\ [MemoryNext]_mvars => Inv'
  BY MemoryStep, TombstonesStep
<1>3. Inv => NotLearnedAgain
  <2> SUFFICES ASSUME Inv, NEW s \in Scopes, memory[s] # None, memory[s].origin = "model"
               PROVE  memory[s].hash # forgotten[s]
    BY DEF NotLearnedAgain
  <2>1. memory[s].hash # Nothing
    BY DEF MInv, RecordsInv, RecordOK, Nothing
  <2>2. forgotten[s] = Nothing
    BY DEF TombstonesInv, Tombstone
  <2>3. QED
    BY <2>1, <2>2
<1>4. QED
  BY <1>1, <1>2, <1>3, PTL DEF MemorySpec

(***************************************************************************)
(* Situations.  A decision that failed comes back after later ones, cleans *)
(* and reads the message anew.  So once the last event has been decided    *)
(* the fact can only be the wanted one or missing; and it is missing only  *)
(* while an observation that will write it again is on its way.            *)
(***************************************************************************)
\* What the fact has to say.
Want == IF Told /\ ~sessionChannel THEN message.text ELSE ""
\* Decisions to make, and to make again.
Unresolved == pending \cup waiting
\* The last event of the message has been decided, or is being decided.
Handled == LastProjected /\ arrived \notin Unresolved
\* An earlier one has still to come back.
Repairing == \E e \in Unresolved : ~Suppressed(e)

\* Every observation is in one place, and the janitor is idle until the message expires.
EventsInv ==
  /\ story \in Stories /\ arrived \in Nat /\ arrived <= Len(story)
  /\ Unresolved \subseteq 1 .. arrived /\ pending \cap waiting = {}
  /\ DOMAIN project = {"pc", "event", "text"}
  /\ project.pc # "idle" => /\ project.event \in 1 .. arrived /\ project.event \notin Unresolved
                            /\ ~Suppressed(project.event)
  /\ DOMAIN sweep = {"pc", "links"} /\ (sweep.pc # "idle" => expired)
\* With the last event decided, the fact is the wanted one or none, and an earlier
\* decision that took it away is still to come back.
FactInv ==
  /\ arrived = 0 => facts.text = ""
  /\ arrived = 1 => facts.text \in {"", Want}
  /\ (Handled \/ arrived = 1) /\ project.pc = "upsert" => project.text = Want
  /\ Handled /\ ~(project.pc = "clean" /\ project.event = arrived) => facts.text \in {"", Want}
  /\ Handled /\ project.pc \in {"link", "advance"} => facts.text = Want
  /\ Handled /\ project.pc = "idle" => facts.text = Want \/ Repairing
\* The inductive invariant.
CurrentInv == EventsInv /\ (~expired /\ ~restricted => FactInv)

\* There is an event only when one has arrived.
LEMMA SomeArrived == \A n \in Nat : \A e \in 1 .. n : n # 0
  OBVIOUS

\* The projector neither changes the message nor what is wanted of it.
LEMMA ProjectorFrame ==
  ASSUME OnlyProjector
  PROVE  /\ Want' = Want /\ (LastProjected' <=> LastProjected)
         /\ \A e : Suppressed(e)' <=> Suppressed(e)
  BY DEF OnlyProjector, Want, Told, isIncident, LastProjected, Suppressed

\* A fact may come only of a message.
LEMMA SituationsInitInv == SituationsInit => CurrentInv
<1> SUFFICES ASSUME SituationsInit PROVE CurrentInv
  OBVIOUS
<1>1. /\ story \in Stories /\ arrived = 0 /\ Unresolved = {} /\ pending \cap waiting = {}
      /\ project.pc = "idle" /\ DOMAIN project = {"pc", "event", "text"}
      /\ sweep.pc = "idle" /\ DOMAIN sweep = {"pc", "links"} /\ facts.text = ""
  BY DEF SituationsInit, Unresolved, Resting, Swept, NoFact
<1>2. 0 \in Nat /\ 0 <= Len(story)
  <2>1. Len(story) \in Nat
    BY <1>1, StoriesAssumption
  <2>2. QED
    BY <2>1
<1>3. EventsInv
  BY <1>1, <1>2 DEF EventsInv
<1>4. ~Handled
  <2>1. arrived = 0 => ~(arrived > 0)
    OBVIOUS
  <2>2. QED
    BY <1>1, <2>1 DEF Handled, LastProjected
<1>5. FactInv
  BY <1>1, <1>4 DEF FactInv
<1>6. QED
  BY <1>3, <1>5 DEF CurrentInv

\* An event arrives: it has still to be decided.
LEMMA ArriveInv == CurrentInv /\ Arrive => CurrentInv'
<1> SUFFICES ASSUME CurrentInv, Arrive PROVE CurrentInv'
  OBVIOUS
<1>1. /\ arrived < Len(story) /\ arrived' = arrived + 1 /\ arrived \in Nat
      /\ pending' = pending \cup {arrived + 1} /\ Len(story) \in Nat
      /\ UNCHANGED <<story, restricted, waiting, project, facts, expired, sweep>>
  BY StoriesAssumption DEF Arrive, CurrentInv, EventsInv
<1>2. arrived + 1 \notin 1 .. arrived /\ 1 .. arrived \subseteq 1 .. arrived + 1
      /\ arrived + 1 \in 1 .. arrived + 1 /\ arrived + 1 <= Len(story)
  BY <1>1
<1>3. EventsInv'
  BY <1>1, <1>2 DEF CurrentInv, EventsInv, Unresolved, Suppressed
<1>4. ASSUME ~expired, ~restricted PROVE FactInv'
  <2>1. ~Handled' /\ arrived' # 0
    BY <1>1 DEF Handled, Unresolved
  <2>2. ASSUME arrived' = 1 PROVE facts'.text = "" /\ project'.pc = "idle"
    <3>1. arrived = 0 /\ 1 .. arrived = {}
      BY <1>1, <2>2
    <3>2. QED
      BY <1>1, <1>4, <3>1 DEF CurrentInv, EventsInv, FactInv
  <2>3. QED
    BY <2>1, <2>2 DEF FactInv
<1>5. QED
  BY <1>1, <1>3, <1>4 DEF CurrentInv

\* Nothing is said of an expired message.
LEMMA AgeInv == CurrentInv /\ Age => CurrentInv'
<1> SUFFICES ASSUME CurrentInv, Age PROVE CurrentInv'
  OBVIOUS
<1>1. expired' /\ EventsInv'
  BY DEF Age, CurrentInv, EventsInv, Unresolved, Suppressed
<1>2. QED
  BY <1>1 DEF CurrentInv

\* An observation is claimed, or recorded without a projection.
LEMMA ClaimInv == CurrentInv /\ Claim => CurrentInv'
<1> SUFFICES ASSUME CurrentInv, Claim PROVE CurrentInv'
  OBVIOUS
<1>1. PICK e \in pending :
        /\ pending' = pending \ {e}
        /\ project' = IF Suppressed(e) THEN Resting ELSE [pc |-> "clean", event |-> e, text |-> ""]
  BY DEF Claim
<1>2. project.pc = "idle" /\ OnlyProjector /\ UNCHANGED <<waiting, facts>>
  BY DEF Claim
<1>3. UNCHANGED <<story, arrived, message, restricted, sessionChannel, expired, sweep>>
  BY <1>2 DEF OnlyProjector
<1>4. /\ Want' = Want /\ (LastProjected' <=> LastProjected)
      /\ \A i : Suppressed(i)' <=> Suppressed(i)
  BY <1>2, ProjectorFrame
<1>5. /\ DOMAIN project' = {"pc", "event", "text"}
      /\ Suppressed(e) => project'.pc = "idle"
      /\ ~Suppressed(e) => project'.pc = "clean" /\ project'.event = e
  BY <1>1 DEF Resting
<1>6. Unresolved' = Unresolved \ {e} /\ e \in 1 .. arrived
  BY <1>1, <1>2 DEF CurrentInv, EventsInv, Unresolved
<1>7. EventsInv'
  <2>1. project'.pc # "idle" => /\ project'.event \in 1 .. arrived' /\ project'.event \notin Unresolved'
                                /\ (~Suppressed(project.event))'
    BY <1>3, <1>5, <1>6 DEF Suppressed
  <2>2. Unresolved' \subseteq 1 .. arrived' /\ pending' \cap waiting' = {}
    BY <1>1, <1>2, <1>3, <1>6 DEF CurrentInv, EventsInv
  <2>3. QED
    BY <1>3, <1>5, <2>1, <2>2 DEF CurrentInv, EventsInv
<1>8. ASSUME ~expired, ~restricted PROVE FactInv'
  <2>1. FactInv
    BY <1>8 DEF CurrentInv
  <2>2. Handled' /\ Suppressed(e) => Handled
    BY <1>3, <1>4, <1>6 DEF Handled, LastProjected
  <2>3. Handled' /\ ~Suppressed(e) /\ e # arrived => Handled
    BY <1>3, <1>4, <1>6 DEF Handled
  <2>4. Suppressed(e) /\ Repairing => Repairing'
    BY <1>4, <1>6 DEF Repairing
  <2>5. CASE Suppressed(e)
    BY <1>2, <1>3, <1>4, <1>5, <2>1, <2>2, <2>4, <2>5 DEF FactInv
  <2>6. CASE ~Suppressed(e)
    BY <1>2, <1>3, <1>4, <1>5, <2>1, <2>3, <2>6 DEF FactInv
  <2>7. QED
    BY <2>5, <2>6
<1>9. QED
  BY <1>3, <1>7, <1>8 DEF CurrentInv

\* An observation comes back.
LEMMA LeaseEndsInv == ASSUME CurrentInv, NEW e, LeaseEnds(e) PROVE CurrentInv'
<1>1. /\ e \in waiting /\ waiting' = waiting \ {e} /\ pending' = pending \cup {e}
      /\ OnlyProjector /\ UNCHANGED <<project, facts>>
  BY DEF LeaseEnds
<1>2. UNCHANGED <<story, arrived, message, restricted, sessionChannel, expired, sweep>>
  BY <1>1 DEF OnlyProjector
<1>3. /\ Want' = Want /\ (LastProjected' <=> LastProjected)
      /\ \A i : Suppressed(i)' <=> Suppressed(i)
  BY <1>1, ProjectorFrame
<1>4. Unresolved' = Unresolved
  BY <1>1 DEF Unresolved
<1>5. EventsInv'
  BY <1>1, <1>2, <1>3, <1>4 DEF CurrentInv, EventsInv
<1>6. (Handled' <=> Handled) /\ (Repairing' <=> Repairing)
  BY <1>2, <1>3, <1>4 DEF Handled, Repairing
<1>7. QED
  BY <1>1, <1>2, <1>3, <1>5, <1>6 DEF CurrentInv, FactInv

\* A decision fails: its observation will come back and repair what was cleaned.
LEMMA ProjectFailsInv == CurrentInv /\ ProjectFails => CurrentInv'
<1> SUFFICES ASSUME CurrentInv, ProjectFails PROVE CurrentInv'
  OBVIOUS
<1>1. /\ project.pc # "idle" /\ waiting' = waiting \cup {project.event} /\ project' = Resting
      /\ OnlyProjector /\ UNCHANGED <<pending, facts>>
  BY DEF ProjectFails
<1>2. UNCHANGED <<story, arrived, message, restricted, sessionChannel, expired, sweep>>
  BY <1>1 DEF OnlyProjector
<1>3. /\ Want' = Want /\ (LastProjected' <=> LastProjected)
      /\ \A i : Suppressed(i)' <=> Suppressed(i)
  BY <1>1, ProjectorFrame
<1>4. Unresolved' = Unresolved \cup {project.event}
  BY <1>1 DEF Unresolved
<1>5. /\ project.event \in 1 .. arrived /\ project.event \notin Unresolved
      /\ ~Suppressed(project.event)
      /\ DOMAIN project' = {"pc", "event", "text"} /\ project'.pc = "idle"
  BY <1>1 DEF CurrentInv, EventsInv, Resting
<1>6. EventsInv'
  <2>1. Unresolved' \subseteq 1 .. arrived' /\ pending' \cap waiting' = {}
    BY <1>1, <1>2, <1>4, <1>5 DEF CurrentInv, EventsInv, Unresolved
  <2>2. QED
    BY <1>2, <1>5, <2>1 DEF CurrentInv, EventsInv
<1>7. ASSUME ~expired, ~restricted PROVE FactInv'
  <2>1. FactInv
    BY <1>7 DEF CurrentInv
  <2>2. Handled' => Handled /\ project.event # arrived
    BY <1>2, <1>3, <1>4 DEF Handled
  <2>3. Repairing'
    BY <1>3, <1>4, <1>5 DEF Repairing
  <2>4. QED
    BY <1>1, <1>2, <1>3, <1>5, <2>1, <2>2, <2>3 DEF FactInv
<1>8. QED
  BY <1>2, <1>6, <1>7 DEF CurrentInv

\* A step of Project that is not its end: its observation stays, and what holds of the
\* fact is left to show.
LEMMA ProjectStep ==
  ASSUME CurrentInv, OnlyProjector, UNCHANGED <<pending, waiting>>, project.pc # "idle",
         DOMAIN project' = {"pc", "event", "text"}, project'.pc # "idle",
         project'.event = project.event,
         ~expired /\ ~restricted /\ FactInv /\ EventsInv =>
           /\ arrived = 1 => facts'.text \in {"", Want}
           /\ (Handled \/ arrived = 1) /\ project'.pc = "upsert" => project'.text = Want
           /\ Handled /\ ~(project'.pc = "clean" /\ project.event = arrived) => facts'.text \in {"", Want}
           /\ Handled /\ project'.pc \in {"link", "advance"} => facts'.text = Want
  PROVE  CurrentInv'
<1>1. UNCHANGED <<story, arrived, message, restricted, sessionChannel, expired, sweep>>
  BY DEF OnlyProjector
<1>2. /\ Want' = Want /\ (LastProjected' <=> LastProjected)
      /\ \A i : Suppressed(i)' <=> Suppressed(i)
  BY ProjectorFrame
<1>3. Unresolved' = Unresolved
  BY DEF Unresolved
<1>4. EventsInv'
  BY <1>1, <1>2, <1>3 DEF CurrentInv, EventsInv
<1>5. Handled' <=> Handled
  BY <1>1, <1>2, <1>3 DEF Handled
<1>6. arrived # 0
  <2>1. project.event \in 1 .. arrived /\ arrived \in Nat
    BY DEF CurrentInv, EventsInv
  <2>2. QED
    BY <2>1, SomeArrived
<1>7. QED
  BY <1>1, <1>2, <1>4, <1>5, <1>6 DEF CurrentInv, FactInv

\* CleanFacts: an edit leaves nothing, and the first event has nothing else to find.
LEMMA CleanFactsInv == CurrentInv /\ CleanFacts => CurrentInv'
<1> SUFFICES ASSUME CurrentInv, CleanFacts PROVE CurrentInv'
  OBVIOUS
<1>1. /\ project.pc = "clean" /\ OnlyProjector /\ UNCHANGED <<pending, waiting>>
      /\ facts' = IF requiresProjectionCleanup(project.event) THEN NoFact ELSE facts
  BY DEF CleanFacts
<1>2. /\ DOMAIN project' = {"pc", "event", "text"} /\ project'.pc = "unlink"
      /\ project'.event = project.event
  BY DEF CleanFacts, CurrentInv, EventsInv
<1>3. facts'.text = "" \/ facts' = facts
  BY <1>1 DEF NoFact
<1>4. project.event = arrived /\ arrived # 1 => facts'.text = ""
  <2>1. /\ project.event \in 1 .. arrived /\ story \in Stories /\ arrived \in Nat /\ Len(story) \in Nat
        /\ arrived <= Len(story) /\ ~Suppressed(project.event)
    BY <1>1, StoriesAssumption DEF CurrentInv, EventsInv
  <2>2. project.event = arrived /\ arrived # 1 => project.event \in 2 .. Len(story)
    BY <2>1
  <2>3. QED
    BY <1>1, <2>1, <2>2, StoriesAssumption DEF requiresProjectionCleanup, NoFact
<1>5. QED
  BY <1>1, <1>2, <1>3, <1>4, ProjectStep DEF FactInv

\* CleanLinks leaves the fact.
LEMMA CleanLinksInv == CurrentInv /\ CleanLinks => CurrentInv'
<1> SUFFICES ASSUME CurrentInv, CleanLinks PROVE CurrentInv'
  OBVIOUS
<1>1. project.pc = "unlink" /\ OnlyProjector /\ UNCHANGED <<pending, waiting, facts>>
  BY DEF CleanLinks
<1>2. /\ DOMAIN project' = {"pc", "event", "text"} /\ project'.pc = "read"
      /\ project'.event = project.event
  BY DEF CleanLinks, CurrentInv, EventsInv
<1>3. QED
  BY <1>1, <1>2, ProjectStep DEF FactInv

\* The text read is the one wanted, and nothing more is done when none is.
LEMMA ReadMessageInv == CurrentInv /\ ReadMessage => CurrentInv'
<1> SUFFICES ASSUME CurrentInv, ReadMessage PROVE CurrentInv'
  OBVIOUS
<1> DEFINE Skipped == sessionChannel \/ message.deleted \/ expired \/ ~isIncident(message.text)
<1>1. project.pc = "read" /\ OnlyProjector /\ UNCHANGED <<pending, waiting, facts>>
  BY DEF ReadMessage
<1>2. /\ DOMAIN project' = {"pc", "event", "text"}
      /\ project'.event = project.event
      /\ Skipped => project'.pc = "advance"
      /\ ~Skipped => project'.pc = "upsert" /\ project'.text = message.text
  BY DEF ReadMessage, CurrentInv, EventsInv
<1>3. ~expired => Want = IF Skipped THEN "" ELSE message.text
  BY DEF Want, Told
<1> HIDE DEF Skipped
<1>4. QED
  BY <1>1, <1>2, <1>3, ProjectStep DEF FactInv

\* The fact is written with the text that was read.
LEMMA UpsertInv == CurrentInv /\ Upsert => CurrentInv'
<1> SUFFICES ASSUME CurrentInv, Upsert PROVE CurrentInv'
  OBVIOUS
<1>1. project.pc = "upsert" /\ OnlyProjector /\ UNCHANGED <<pending, waiting>>
  BY DEF Upsert
<1>2. /\ DOMAIN project' = {"pc", "event", "text"} /\ project'.pc = "link"
      /\ project'.event = project.event
  BY DEF Upsert, CurrentInv, EventsInv
<1>3. ~restricted => facts'.text = project.text
  BY DEF Upsert
<1>4. QED
  BY <1>1, <1>2, <1>3, ProjectStep DEF FactInv

\* The link leaves the fact.
LEMMA LinkInv == CurrentInv /\ Link => CurrentInv'
<1> SUFFICES ASSUME CurrentInv, Link PROVE CurrentInv'
  OBVIOUS
<1>1. project.pc = "link" /\ OnlyProjector /\ UNCHANGED <<pending, waiting, facts>>
  BY DEF Link
<1>2. /\ DOMAIN project' = {"pc", "event", "text"} /\ project'.pc = "advance"
      /\ project'.event = project.event
  BY DEF Link, CurrentInv, EventsInv
<1>3. QED
  BY <1>1, <1>2, ProjectStep DEF FactInv

\* The projection ends with the fact that is wanted.
LEMMA advanceInv == CurrentInv /\ advance => CurrentInv'
<1> SUFFICES ASSUME CurrentInv, advance PROVE CurrentInv'
  OBVIOUS
<1>1. /\ project.pc = "advance" /\ OnlyProjector /\ UNCHANGED <<pending, waiting, facts>>
      /\ DOMAIN project' = {"pc", "event", "text"} /\ project'.pc = "idle"
  BY DEF advance, Resting
<1>2. UNCHANGED <<story, arrived, message, restricted, sessionChannel, expired, sweep>>
  BY <1>1 DEF OnlyProjector
<1>3. /\ Want' = Want /\ (LastProjected' <=> LastProjected)
      /\ \A i : Suppressed(i)' <=> Suppressed(i)
  BY <1>1, ProjectorFrame
<1>4. Unresolved' = Unresolved
  BY <1>1 DEF Unresolved
<1>5. EventsInv'
  BY <1>1, <1>2, <1>4 DEF CurrentInv, EventsInv
<1>6. Handled' <=> Handled
  BY <1>2, <1>3, <1>4 DEF Handled
<1>7. QED
  BY <1>1, <1>2, <1>3, <1>5, <1>6 DEF CurrentInv, FactInv

\* The janitor works on expired messages.
LEMMA JanitorInv == CurrentInv /\ (Sweep \/ SweepFails) => CurrentInv'
<1> SUFFICES ASSUME CurrentInv, Sweep \/ SweepFails PROVE CurrentInv'
  OBVIOUS
<1>1. OnlyJanitor /\ expired /\ DOMAIN sweep' = {"pc", "links"}
  BY DEF Sweep, SweepFails, ReadLinks, DeleteDerived, DeleteLinks, DeleteExpired, Swept,
         CurrentInv, EventsInv
<1>2. expired' /\ EventsInv'
  BY <1>1 DEF OnlyJanitor, CurrentInv, EventsInv, Unresolved, Suppressed
<1>3. QED
  BY <1>2 DEF CurrentInv

\* A message decided to its last event is recalled as it is, for every story of edits and
\* a deletion, whatever fails and comes back between, as long as that event was projected
\* (Project, Recall).
THEOREM FactsAreCurrent == SituationsSpec => []RecalledIsCurrent
<1>1. CurrentInv /\ UNCHANGED svars => CurrentInv'
  <2> SUFFICES ASSUME CurrentInv, UNCHANGED svars PROVE CurrentInv'
    OBVIOUS
  <2>1. /\ OnlyProjector /\ UNCHANGED <<pending, waiting, project, facts>>
    BY DEF svars, OnlyProjector
  <2>2. /\ Unresolved' = Unresolved /\ Want' = Want /\ (LastProjected' <=> LastProjected)
        /\ \A e : Suppressed(e)' <=> Suppressed(e)
    BY <2>1, ProjectorFrame DEF Unresolved
  <2>3. EventsInv' /\ (Handled' <=> Handled) /\ (Repairing' <=> Repairing)
    BY <2>1, <2>2 DEF CurrentInv, EventsInv, Handled, Repairing, OnlyProjector
  <2>4. QED
    BY <2>1, <2>2, <2>3 DEF CurrentInv, FactInv, OnlyProjector
<1>2. CurrentInv /\ [SituationsNext]_svars => CurrentInv'
  BY <1>1, ArriveInv, AgeInv, ClaimInv, LeaseEndsInv, ProjectFailsInv, CleanFactsInv,
     CleanLinksInv, ReadMessageInv, UpsertInv, LinkInv, advanceInv, JanitorInv
     DEF SituationsNext, Derive
<1>3. CurrentInv => RecalledIsCurrent
  <2> SUFFICES ASSUME CurrentInv, Digested, ~expired, ~restricted, LastProjected
               PROVE  facts.text = Want
    BY DEF RecalledIsCurrent, Want
  <2>1. project.pc = "idle" /\ Unresolved = {}
    BY DEF Digested, Resting, Unresolved
  <2>2. QED
    BY <2>1 DEF CurrentInv, FactInv, Handled, Repairing
<1>4. QED
  BY <1>2, <1>3, SituationsInitInv, PTL DEF SituationsSpec

=============================================================================
