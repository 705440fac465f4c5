------------------------------- MODULE AuditLog -------------------------------
(***************************************************************************)
(* What an organization's audit trail promises (core/audit, Chain): one    *)
(* list of receipts that only grows, under one lock, with at most one      *)
(* receipt for an idempotency key.  Each receipt carries the hash of the   *)
(* one before it, and its own hash covers that: here a hash is the list of *)
(* the receipts it covers, which only equal lists share.                   *)
(***************************************************************************)
EXTENDS Naturals, Sequences

CONSTANTS Calls,   \* calls of Append, each for one receipt
          KeyOf,   \* the idempotency key of a call
          NoKey    \* the empty key

VARIABLE log       \* the receipts, as the calls that made them

Recorded(k) == k # NoKey /\ \E i \in DOMAIN log : KeyOf[log[i]] = k

\* Chain.Append: the receipt on record for the key, or a new one.
Append1(c) == /\ ~ Recorded(KeyOf[c])
              /\ log' = Append(log, c)

Init == log = << >>
Next == \E c \in Calls : Append1(c)
Spec == Init /\ [][Next]_log
=============================================================================
