---------------------------- MODULE MCAgentTurn ----------------------------
(* What a turn calls: one approved action twice at a time, an image beside *)
(* a read, an image alone, and a write that has to be approved.            *)
EXTENDS AgentTurn

CallPlans == {<<"resume", "resume">>, <<"image", "read">>, <<"image", "none">>,
              <<"write", "none">>}
=============================================================================
