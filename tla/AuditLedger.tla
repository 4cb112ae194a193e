---------------------------- MODULE AuditLedger ----------------------------
(***************************************************************************)
(* What the audit log of engine/audit.py promises, free of tables, locks   *)
(* and transactions.  An event recorded by a committed operation waits,    *)
(* then is entered in its tenant's ledger exactly once; the ledger only    *)
(* ever grows at its end.  How entries are hash-linked is not part of this *)
(* promise: AuditChain states that on its own.                             *)
(***************************************************************************)
EXTENDS Integers

CONSTANT Orgs       \* tenants

VARIABLES waiting,  \* recorded events not in a ledger yet: {<<org, event>>}
          ledger    \* entries: {[pos, org, event]}

ledgerVars == <<waiting, ledger>>

LedgerInit == waiting = {} /\ ledger = {}

\* The events of a set of ledger entries, tagged with their tenant.
EventsOf(entries) == {<<e.org, e.event>> : e \in entries}

\* An operation commits: its events start waiting, each a new one.
Record ==
    LET new == waiting' \ waiting
    IN  /\ waiting \subseteq waiting'
        /\ new \intersect EventsOf(ledger) = {}
        /\ ledger' = ledger

\* A batch leaves the queue and is appended: every event of the batch was
\* waiting, gets one entry, and stands after every entry of its tenant that
\* was there before.
Chain ==
    LET new == ledger' \ ledger
    IN  /\ ledger \subseteq ledger'
        /\ EventsOf(new) \subseteq waiting
        /\ waiting' = waiting \ EventsOf(new)
        /\ \A e, f \in new :
              (e.org = f.org /\ (e.event = f.event \/ e.pos = f.pos)) => e = f
        /\ \A e \in new, f \in ledger : e.org = f.org => e.pos > f.pos

LedgerNext == Record \/ Chain

LedgerSpec == LedgerInit /\ [][LedgerNext]_ledgerVars
=============================================================================
