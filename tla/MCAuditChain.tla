---------------------------- MODULE MCAuditChain ----------------------------
(* Small instances of AuditChain for TLC. *)
EXTENDS AuditChain, TLC

CONSTANTS o1, o2

\* Two tenants whose UUIDs differ after the first 8 bytes, so that they share
\* one lock key, and two tenants with a key each.
SharedPrefix == [o \in Orgs |-> 1]
OwnPrefix    == [o \in Orgs |-> IF o = o1 THEN 0 ELSE 3]
Sessions == Permutations(Writers) \cup Permutations(Drainers)
=============================================================================
