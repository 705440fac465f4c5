------------------------------ MODULE MCGuidance -------------------------------
(* What Tag goes by: the policy of a channel; its directives and notes; what the curator *)
(* remembers; the facts the projector derives.  A directive's editor only asks whether   *)
(* the policy lets it (Submit may be refused), memories and facts are derived from       *)
(* messages, and none of the four writes what another reads, so they are explored one    *)
(* beside the other: part says which.                                                    *)
EXTENDS Channels, Directives, Memory, Situations

VARIABLE part

Scene(im, auto, open, public) == [im |-> im, auto |-> auto, open |-> open, public |-> public]
MCScenes == {Scene(FALSE, TRUE, TRUE, TRUE), Scene(FALSE, FALSE, TRUE, TRUE),
             Scene(FALSE, TRUE, FALSE, FALSE), Scene(TRUE, TRUE, TRUE, FALSE)}
MCBodies == {[mode |-> "proactive", kill |-> FALSE, managed |-> FALSE],
             [mode |-> "observe", kill |-> TRUE, managed |-> TRUE]}

Event(kind, text, denied) == [kind |-> kind, text |-> text, denied |-> denied]
Posted(text) == Event("message", text, FALSE)
Edited(text) == Event("edit", text, FALSE)
MCStories == {<<Posted("down"), Edited("outage"), Edited("calm")>>,
              <<Posted("calm"), Edited("down"), Event("edit", "calm", TRUE)>>,
              <<Posted("down"), Edited("outage"), Event("delete", "", FALSE)>>}

\* The parts that do not run keep one of their initial states.
MCInit == /\ Init /\ DirectivesInit /\ MemoryInit /\ SituationsInit
          /\ part \in {"policy", "directives", "memory", "situations"}
          /\ part # "policy" => scene = CHOOSE s \in Scenes : TRUE
          /\ part # "situations" => /\ story = <<Posted("down"), Edited("outage"), Edited("calm")>>
                                    /\ ~restricted /\ ~sessionChannel
MCNext == /\ UNCHANGED part
          /\ \/ part = "policy" /\ Next /\ UNCHANGED <<dvars, mvars, svars>>
             \/ part = "directives" /\ DirectivesNext /\ UNCHANGED <<vars, mvars, svars>>
             \/ part = "memory" /\ MemoryNext /\ UNCHANGED <<vars, dvars, svars>>
             \/ part = "situations" /\ SituationsNext /\ UNCHANGED <<vars, dvars, mvars>>
MCFairness ==
  /\ WF_vars(part = "policy" /\ Sync /\ UNCHANGED <<dvars, mvars, svars, part>>)
  /\ WF_vars(part = "policy" /\ Live /\ UNCHANGED <<dvars, mvars, svars, part>>)
  /\ \A c \in Curators :
       WF_mvars(part = "memory" /\ Curate(c) /\ UNCHANGED <<vars, dvars, svars, part>>)
  /\ WF_svars(part = "situations" /\ Derive /\ UNCHANGED <<vars, dvars, mvars, part>>)
  /\ WF_svars(part = "situations" /\ Sweep /\ UNCHANGED <<vars, dvars, mvars, part>>)
MCSpec == MCInit /\ [][MCNext]_<<vars, dvars, mvars, svars, part>> /\ MCFairness
=============================================================================
