------------------------------ MODULE Directives ------------------------------
(***************************************************************************)
(* The directive of one channel and its notes (core/channelconfig).        *)
(*                                                                         *)
(* Revisions are numbered by a counter of the channel and never change;    *)
(* the channel's projection names the active one.  The Slack modal         *)
(* publishes under the id of its view, so that a submission Slack delivers *)
(* again, or to two processes at once, is one revision; the management API *)
(* drafts and activates.  Every step is one operation on the database.     *)
(***************************************************************************)
EXTENDS Integers, FiniteSets

CONSTANTS Handlers,       \* the processes that handle submissions
          Submissions,    \* the view ids of the modals
          Writers,         \* those who write and review notes
          MaxRevisions,   \* bound: revisions of the directive
          MaxNotes,       \* bound: notes
          MaxTrouble      \* bound: deliveries that come again, crashes and failed calls

\* NormalizeDirectiveSubmission asks for the id of the view.
ASSUME SubmissionsAssumption == "" \notin Submissions
ASSUME DirectiveBounds == {MaxRevisions, MaxNotes, MaxTrouble} \subseteq Nat

VARIABLES directives,   \* the projection: [next, active]; active 0: none
          revisions,    \* [revision, source]; source "": drafted with the API
          receipts,     \* the revisions with a receipt of their activation
          inbox,        \* submissions on their way
          saved,        \* submissions Slack was told are saved
          saver,        \* the handlers
          draft,        \* the API's draft between its two writes: its number, or 0
          notes,        \* by number: [state, by, reviewer]
          proposal,     \* the same for a note: [number, by]
          trouble

dvars == <<directives, revisions, receipts, inbox, saved, saver, draft, notes, proposal,
           trouble>>

IdleSaver == [pc |-> "idle", source |-> "", revision |-> 0]
NoProposal == [number |-> 0, by |-> ""]

DirectivesInit ==
  /\ directives = [next |-> 0, active |-> 0]
  /\ revisions = {}
  /\ receipts = {}
  /\ inbox = Submissions
  /\ saved = {}
  /\ saver = [h \in Handlers |-> IdleSaver]
  /\ draft = 0
  /\ notes = <<>>
  /\ proposal = NoProposal
  /\ trouble = 0

Trouble == trouble < MaxTrouble /\ trouble' = trouble + 1
With(source) == {r \in revisions : r.source = source}
Numbered(n) == {r \in revisions : r.revision = n}

------------------------------------------------------------------------------
(* Editor.Save and PublishDirective.                                        *)

\* NormalizeDirectiveSubmission: the submission names its channel, its view and a prompt.
Submit(h, s) ==
  /\ saver[h].pc = "idle" /\ s \in inbox
  /\ inbox' = inbox \ {s}
  /\ saver' = [saver EXCEPT ![h] = [IdleSaver EXCEPT !.pc = "find", !.source = s]]
  /\ UNCHANGED <<directives, revisions, receipts, saved, draft, notes, proposal, trouble>>

\* Editor.authorize: a channel that is not enrolled, or is switched off, has no editor.
Refuse(h, s) ==
  /\ Trouble /\ saver[h].pc = "idle" /\ s \in inbox
  /\ inbox' = inbox \ {s}
  /\ UNCHANGED <<directives, revisions, receipts, saved, saver, draft, notes, proposal>>

\* A revision the same submission has made before is activated again.
FindPublished(h) ==
  /\ saver[h].pc = "find"
  /\ saver' = [saver EXCEPT ![h] =
       IF With(saver[h].source) = {} THEN [@ EXCEPT !.pc = "number"]
       ELSE [@ EXCEPT !.pc = "activate",
                      !.revision = (CHOOSE r \in With(saver[h].source) : TRUE).revision]]
  /\ UNCHANGED <<directives, revisions, receipts, inbox, saved, draft, notes, proposal, trouble>>

\* The counter of the projection gives the next number.
NumberRevision(h) ==
  /\ saver[h].pc = "number" /\ directives.next < MaxRevisions
  /\ directives' = [directives EXCEPT !.next = @ + 1]
  /\ saver' = [saver EXCEPT ![h].pc = "insert", ![h].revision = directives.next + 1]
  /\ UNCHANGED <<revisions, receipts, inbox, saved, draft, notes, proposal, trouble>>

\* Mutant of InsertRevision: no unique index on the source.
InsertAnother(h) ==
  /\ saver[h].pc = "insert"
  /\ revisions' = revisions \cup {[revision |-> saver[h].revision, source |-> saver[h].source]}
  /\ saver' = [saver EXCEPT ![h].pc = "activate"]
  /\ UNCHANGED <<directives, receipts, inbox, saved, draft, notes, proposal, trouble>>
\* The revision is inserted; where the source has one already, that one is used.
InsertRevision(h) ==
  /\ saver[h].pc = "insert"
  /\ LET others == With(saver[h].source) IN
       IF others = {}
       THEN /\ revisions' = revisions \cup
                 {[revision |-> saver[h].revision, source |-> saver[h].source]}
            /\ saver' = [saver EXCEPT ![h].pc = "activate"]
       ELSE /\ UNCHANGED revisions
            /\ saver' = [saver EXCEPT ![h].pc = "activate",
                           ![h].revision = (CHOOSE r \in others : TRUE).revision]
  /\ UNCHANGED <<directives, receipts, inbox, saved, draft, notes, proposal, trouble>>

\* ActivateDirective, of a revision the channel has.
Activate(n) == /\ Numbered(n) # {}
               /\ directives' = [directives EXCEPT !.active = n]

ActivatePublished(h) ==
  /\ saver[h].pc = "activate"
  /\ Activate(saver[h].revision)
  /\ saver' = [saver EXCEPT ![h].pc = "receipt"]
  /\ UNCHANGED <<revisions, receipts, inbox, saved, draft, notes, proposal, trouble>>

\* The receipt, once for a revision.
AppendReceipt(h) ==
  /\ saver[h].pc = "receipt"
  /\ receipts' = receipts \cup {saver[h].revision}
  /\ saver' = [saver EXCEPT ![h].pc = "answer"]
  /\ UNCHANGED <<directives, revisions, inbox, saved, draft, notes, proposal, trouble>>

\* Slack is told, and closes the modal.
Answer(h) ==
  /\ saver[h].pc = "answer"
  /\ saved' = saved \cup {saver[h].source}
  /\ saver' = [saver EXCEPT ![h] = IdleSaver]
  /\ UNCHANGED <<directives, revisions, receipts, inbox, draft, notes, proposal, trouble>>

\* A call fails and the modal shows an error, from where it can be sent again; or the
\* process dies without an answer, and Slack delivers the submission again.
Interrupted(h) ==
  /\ Trouble /\ saver[h].pc # "idle"
  /\ inbox' = inbox \cup {saver[h].source}
  /\ saver' = [saver EXCEPT ![h] = IdleSaver]
  /\ UNCHANGED <<directives, revisions, receipts, saved, draft, notes, proposal>>

\* Slack delivers a submission a second time while the first is still being handled.
DeliveredAgain(h) ==
  /\ Trouble /\ saver[h].pc # "idle" /\ saver[h].source \notin inbox
  /\ inbox' = inbox \cup {saver[h].source}
  /\ UNCHANGED <<directives, revisions, receipts, saved, saver, draft, notes, proposal>>

------------------------------------------------------------------------------
(* The management API.                                                      *)

\* DraftDirective: the number, then the revision, which is not active.
NumberDraft ==
  /\ draft = 0 /\ directives.next < MaxRevisions
  /\ directives' = [directives EXCEPT !.next = @ + 1]
  /\ draft' = directives.next + 1
  /\ UNCHANGED <<revisions, receipts, inbox, saved, saver, notes, proposal, trouble>>

InsertDraft ==
  /\ draft > 0
  /\ revisions' = revisions \cup {[revision |-> draft, source |-> ""]}
  /\ draft' = 0
  /\ UNCHANGED <<directives, receipts, inbox, saved, saver, notes, proposal, trouble>>

\* activateDirective; its receipt precedes it and names no revision of a modal.
ApiActivate(n) ==
  /\ Activate(n) /\ directives.active # n
  /\ UNCHANGED <<revisions, receipts, inbox, saved, saver, draft, notes, proposal, trouble>>

\* ProposeNote: the number, then the note, which awaits its review.
NumberNote(p) ==
  /\ proposal = NoProposal /\ Cardinality(DOMAIN notes) < MaxNotes
  /\ proposal' = [number |-> Cardinality(DOMAIN notes) + 1, by |-> p]
  /\ UNCHANGED <<directives, revisions, receipts, inbox, saved, saver, draft, notes, trouble>>

InsertNote ==
  /\ proposal # NoProposal
  /\ notes' = [n \in DOMAIN notes \cup {proposal.number} |->
                 IF n \in DOMAIN notes THEN notes[n]
                 ELSE [state |-> "pending_review", by |-> proposal.by, reviewer |-> ""]]
  /\ proposal' = NoProposal
  /\ UNCHANGED <<directives, revisions, receipts, inbox, saved, saver, draft, trouble>>

\* ReviewNote, by someone else than its author, once.
ReviewNote(n, p, approve) ==
  /\ notes[n].state = "pending_review" /\ notes[n].by # p
  /\ notes' = [notes EXCEPT ![n].state = IF approve THEN "active" ELSE "rejected",
                            ![n].reviewer = p]
  /\ UNCHANGED <<directives, revisions, receipts, inbox, saved, saver, draft, proposal, trouble>>

DirectivesNext ==
  \/ \E h \in Handlers :
       \/ \E s \in Submissions : Submit(h, s) \/ Refuse(h, s)
       \/ FindPublished(h) \/ NumberRevision(h) \/ InsertRevision(h)
       \/ ActivatePublished(h) \/ AppendReceipt(h) \/ Answer(h) \/ Interrupted(h) \/ DeliveredAgain(h)
  \/ NumberDraft \/ InsertDraft \/ \E n \in 1..MaxRevisions : ApiActivate(n)
  \/ \E p \in Writers : NumberNote(p)
  \/ InsertNote
  \/ \E n \in DOMAIN notes, p \in Writers, approve \in BOOLEAN : ReviewNote(n, p, approve)

DirectivesSpec == DirectivesInit /\ [][DirectivesNext]_dvars

------------------------------------------------------------------------------
(* Properties.                                                              *)

\* A submission that Slack was told is saved is one revision, whatever was delivered
\* twice, handled by two processes or cut off, and its activation has a receipt; the
\* active revision is one the channel has (PublishDirective, Editor.Save).
SavedOnce ==
  /\ \A s \in Submissions : Cardinality(With(s)) <= 1
  /\ \A s \in saved : \E r \in With(s) : r.revision \in receipts
  /\ directives.active # 0 => Numbered(directives.active) # {}
=============================================================================
