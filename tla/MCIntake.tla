------------------------------- MODULE MCIntake --------------------------------
(* How Slack's messages come to be stored.  Part "events": a message that is edited and  *)
(* deleted within a second; or one of Tag's own and one in a channel that is not         *)
(* enrolled; an administrator's request leaves a receipt without a key.  Part "history": *)
(* the context sync of a conversation with a few messages, some of them in a thread of   *)
(* Tag's.  It stores through the same Accept and Import, whose steps the first part has, *)
(* so the two are explored one beside the other: part says which.                        *)
EXTENDS Ingress, ContextSync

VARIABLE part

Event(i, m, k, t, x, c) ==
  [id |-> i, message |-> m, kind |-> k, at |-> t, text |-> x, class |-> c]
Edited == << Event("p1", "m1", "message", 3, "first", "human"),
             Event("e1", "m1", "edit", 4, "second", "human"),
             Event("d1", "m1", "delete", 5, "", "human") >>
Others == << Event("p1", "m1", "message", 1, "first", "self"),
             Event("e1", "m1", "edit", 2, "second", "self"),
             Event("d1", "m2", "message", 3, "third", "excluded") >>
MCScripts == {Edited, Others}
MCKeyOf == [c \in {"p1", "e1", "d1", "admin"} |-> IF c = "admin" THEN "" ELSE c]

MCInit == /\ Init /\ SyncInit /\ part \in {"events", "history"}
          /\ part = "history" => script = Edited
MCNext == /\ UNCHANGED part
          /\ \/ part = "events" /\ Next /\ UNCHANGED syncVars
             \/ part = "history" /\ SyncNext /\ UNCHANGED vars
MCSpec == MCInit /\ [][MCNext]_<<vars, syncVars, part>>
=============================================================================
