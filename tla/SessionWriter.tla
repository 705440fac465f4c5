------------------------------ MODULE SessionWriter ------------------------------
(***************************************************************************)
(* What the job queue promises about sessions, with everything else        *)
(* forgotten: a job may become the writer of its session only while no     *)
(* other job of that session is the writer, and the right is given back    *)
(* before anybody else obtains it (it is never handed over in one step).   *)
(***************************************************************************)
CONSTANTS Jobs,      \* job identities
          SessionOf  \* the Slack session (thread generation) of each job

VARIABLE writers     \* the jobs that hold their session's writer right

WInit == writers = {}

Acquire(j) == /\ j \notin writers
              /\ \A k \in writers : SessionOf[k] # SessionOf[j]
              /\ writers' = writers \cup {j}

Release(j) == /\ j \in writers
              /\ writers' = writers \ {j}

WNext == \E j \in Jobs : Acquire(j) \/ Release(j)

WSpec == WInit /\ [][WNext]_writers
=============================================================================
