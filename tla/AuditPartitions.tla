--------------------------- MODULE AuditPartitions ----------------------------
(***************************************************************************)
(* The monthly partitions of audit_log: those of migration 009, and        *)
(* ensure_audit_partitions of engine/lifecycle.py, which creates them some *)
(* months ahead.                                                           *)
(*                                                                         *)
(* A row whose month has no partition lands in the default one.  There it  *)
(* stays: PostgreSQL refuses a partition that would take rows from the     *)
(* default, and a run creates its partitions in one transaction, the first *)
(* one that is refused ending it.                                          *)
(***************************************************************************)
EXTENDS Naturals

CONSTANTS
    MonthsAhead,        \* months_ahead
    Installed,          \* the database is set up in one of these months
    MaxMonths           \* bound: months that pass

ASSUME PartitionAssumption ==
    {MonthsAhead, MaxMonths} \subseteq Nat /\ Installed \subseteq [year : Nat, month : 1 .. 12]

VARIABLES
    today,              \* the current month: [year, month]
    since,              \* history: months since the installation
    partitions,         \* bounds of the partitions: [from, to]
    overflow,           \* months of the rows in the default partition
    lapse,              \* history: months since a run succeeded, or the set-up
    punctual            \* history: the runs have kept ahead of the months

partitionVars == <<today, since, partitions, overflow, lapse, punctual>>

\* First days are compared as dates: year, then month.
Before(m, n) == m.year < n.year \/ (m.year = n.year /\ m.month < n.month)

Covers(p, m) == ~Before(m, p.from) /\ Before(m, p.to)

\* Faulty variant: months wrap, the year does not.
TargetSameYear(offset) ==
    [year |-> today.year, month |-> ((today.month + offset - 1) % 12) + 1]

\* The month offset months on: months above twelve carry into the year.
Target(offset) ==
    LET month == today.month + offset - 1
    IN  [year |-> today.year + (month \div 12), month |-> (month % 12) + 1]

NextMonth(m) ==
    IF m.month = 12 THEN [year |-> m.year + 1, month |-> 1]
    ELSE [m EXCEPT !.month = m.month + 1]

Bounds(m) == [from |-> m, to |-> NextMonth(m)]

\* Migration 009 creates four partitions, whenever it runs.
Migrated == {Bounds([year |-> 2026, month |-> m]) : m \in 4 .. 7}

PartitionInit ==
    /\ today \in Installed
    /\ partitions = Migrated
    /\ overflow = {} /\ since = 0 /\ lapse = 0
    /\ punctual = (\A k \in 0 .. MonthsAhead : \E p \in partitions : Covers(p, Target(k)))

Wanted == {Bounds(Target(k)) : k \in 0 .. MonthsAhead}

\* One run: the partitions there are not yet are created, all or none.
ensure_audit_partitions ==
    LET missing == Wanted \ partitions
        refused == \E p \in missing : \E m \in overflow : Covers(p, m)
    IN  /\ IF refused THEN UNCHANGED <<partitions, lapse>>
           ELSE partitions' = partitions \cup missing /\ lapse' = 0
        /\ UNCHANGED <<today, since, overflow, punctual>>

\* The drain inserts a row of this month, or of a request that began in the
\* month before.
InsertEntry(m) ==
    /\ \/ m = today
       \/ since > 0 /\ NextMonth(m) = today
    /\ overflow' = IF \E p \in partitions : Covers(p, m) THEN overflow ELSE overflow \cup {m}
    /\ UNCHANGED <<today, since, partitions, lapse, punctual>>

MonthPasses ==
    /\ since < MaxMonths
    /\ since' = since + 1
    /\ today' = NextMonth(today)
    /\ lapse' = lapse + 1
    /\ punctual' = (punctual /\ lapse < MonthsAhead)
    /\ UNCHANGED <<partitions, overflow>>

Months == [year : 2026 .. 2028, month : 1 .. 12]

PartitionNext ==
    \/ ensure_audit_partitions
    \/ \E m \in Months : InsertEntry(m)
    \/ MonthPasses

-----------------------------------------------------------------------------
(* Properties *)

\* As long as a run succeeds at least every months_ahead months, starting from
\* a set-up whose partitions cover as many, no row of the audit log falls into
\* the default partition (lifecycle.py "Should be called periodically ... to
\* ensure partitions always exist ahead of time"), whatever year ends meanwhile.
DefaultStaysEmpty == punctual => overflow = {}
==============================================================================
