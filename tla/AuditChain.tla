----------------------------- MODULE AuditChain -----------------------------
(***************************************************************************)
(* The asynchronous audit chain of engine/audit.py.                        *)
(*                                                                         *)
(* A request (a Writer) runs its operation in one database transaction and *)
(* enqueues its audit events in audit_log_pending with it.  A drain task   *)
(* (a Drainer) opens a transaction for one tenant and runs                 *)
(* flush_audit_chain: under a per-tenant advisory lock it reads pending    *)
(* rows in id order, links each to the hash before it, inserts it in       *)
(* audit_log and deletes it from the queue.  Migration 032's trigger       *)
(* notifies a listener at commit; a periodic poll is the fallback.         *)
(*                                                                         *)
(* Statements run at READ COMMITTED (the engine's connections set no other *)
(* level): a statement sees what is committed when it starts, and its own  *)
(* transaction's changes.  Each statement of the drainer is one action, so *)
(* other sessions interleave between any two of them.                      *)
(***************************************************************************)
EXTENDS Integers, FiniteSets

CONSTANTS
    Orgs,           \* tenants
    Writers,        \* sessions running engine operations
    Drainers,       \* sessions running the drain task
    UuidPrefix,     \* the first 8 bytes of each tenant's UUID, as a number
    HalfRange,      \* 2^63 in the code: half of the 64-bit range
    BatchSize,      \* batch_size
    MaxIterations,  \* max_iterations
    PollLimit,      \* limit of list_orgs_with_pending
    MaxEvents,      \* bound: ids the pending sequence may hand out
    MaxClock,       \* bound: largest timestamp
    MaxFaults       \* bound: drain transactions that may die

ASSUME OrgsAssumption ==
    Orgs # {} /\ UuidPrefix \in [Orgs -> 0 .. 2 * HalfRange - 1]
ASSUME NumbersAssumption ==
    /\ HalfRange \in Nat \ {0}
    /\ BatchSize \in Nat \ {0} /\ MaxIterations \in Nat \ {0}
    /\ PollLimit \in Nat \ {0}
    /\ MaxEvents \in Nat /\ MaxClock \in Nat /\ MaxFaults \in Nat

VARIABLES
    clock,      \* the database's now()
    nextPid,    \* sequence of audit_log_pending.id
    nextLid,    \* sequence of audit_log.id
    pending,    \* committed rows of audit_log_pending
    log,        \* committed rows of audit_log
    acked,      \* history: <<org, id>> of every event whose request committed
    wopen,      \* writer -> is its transaction open?
    worg,       \* writer -> tenant of its transaction
    wbegan,     \* writer -> now() of its transaction
    wrows,      \* writer -> pending rows it has inserted, uncommitted
    pc,         \* drainer -> next statement
    dorg,       \* drainer -> tenant it drains
    holds,      \* drainer -> advisory lock keys its transaction holds
    batch,      \* drainer -> pending rows selected and not chained yet
    drained,    \* drainer -> drained_ids of this batch
    prevHash,   \* drainer -> prev_hash
    mine,       \* drainer -> audit_log rows it has inserted, uncommitted
    gone,       \* drainer -> pending ids it has deleted, uncommitted
    iter,       \* drainer -> iterations of the flush loop
    atStart,    \* history: drainer -> pending ids when its flush started
    tasks,      \* tenants a drain task is queued for
    faults      \* how many drain transactions have died

writerVars  == <<wopen, worg, wbegan, wrows>>
drainerVars == <<pc, dorg, holds, batch, drained, prevHash, mine, gone, iter, atStart>>
tableVars   == <<pending, log, acked>>
wakeVars    == <<tasks, faults>>
vars == <<clock, nextPid, nextLid, tableVars, writerVars, drainerVars, wakeVars>>

-----------------------------------------------------------------------------
(* Helpers *)

NoHash == <<>>

\* SHA-256 over the previous hash and the canonical row, as an injective term.
compute_row_hash(prev, data) == <<prev, data>>

\* The hashed columns.  The queue id is not one of them: two events of one
\* transaction may have equal data.
RowData(p) == [org |-> p.org, created_at |-> p.created_at]

\* The first 8 bytes of the UUID moved into the signed 64-bit range.
advisory_lock_key(o) == UuidPrefix[o] - HalfRange

\* Faulty variant: the ORDER BY is reversed.
FirstByIdReversed(rows, n) == {p \in rows : Cardinality({q \in rows : q.id > p.id}) < n}

\* ORDER BY id LIMIT n
FirstById(rows, n) == {p \in rows : Cardinality({q \in rows : q.id < p.id}) < n}

\* The row of a nonempty set with the least id.
HeadRow(rows) == CHOOSE p \in rows : \A q \in rows : p.id <= q.id

\* Faulty variant: the tie between equal timestamps is broken the wrong way.
NotEarlierWrongTie(r, q) ==
    \/ r.created_at > q.created_at
    \/ r.created_at = q.created_at /\ r.id <= q.id

\* ORDER BY created_at DESC, id DESC LIMIT 1 : r comes before or is q.
NotEarlier(r, q) ==
    \/ r.created_at > q.created_at
    \/ r.created_at = q.created_at /\ r.id >= q.id

get_latest_hash(rows, o) ==
    LET ofOrg == {r \in rows : r.org = o}
    IN  IF ofOrg = {} THEN NoHash
        ELSE (CHOOSE r \in ofOrg : \A q \in ofOrg : NotEarlier(r, q)).row_hash

\* Pending rows of the drainer's tenant that its next statement sees.
Visible(d) == {p \in pending : p.org = dorg[d] /\ p.id \notin gone[d]}

\* Faulty variant: the result of pg_try_advisory_xact_lock is ignored.
LockIgnored(d, k) == TRUE

LockFree(d, k) == \A e \in Drainers \ {d} : k \notin holds[e]

\* A row of audit_log; src and first are history, those of the queued row.
LogRow(id, p, prev) ==
    [id |-> id, org |-> p.org, created_at |-> p.created_at, prev_hash |-> prev,
     row_hash |-> compute_row_hash(prev, RowData(p)), src |-> p.id, first |-> p.first]

OrgsPending == {p.org : p \in pending}

-----------------------------------------------------------------------------
AnyOrg == CHOOSE o \in Orgs : TRUE

Init ==
    /\ clock = 0 /\ nextPid = 1 /\ nextLid = 1
    /\ pending = {} /\ log = {} /\ acked = {}
    /\ wopen = [w \in Writers |-> FALSE]
    /\ worg = [w \in Writers |-> AnyOrg]
    /\ wbegan = [w \in Writers |-> 0]
    /\ wrows = [w \in Writers |-> {}]
    /\ pc = [d \in Drainers |-> "idle"]
    /\ dorg = [d \in Drainers |-> AnyOrg]
    /\ holds = [d \in Drainers |-> {}]
    /\ batch = [d \in Drainers |-> {}]
    /\ drained = [d \in Drainers |-> {}]
    /\ prevHash = [d \in Drainers |-> NoHash]
    /\ mine = [d \in Drainers |-> {}]
    /\ gone = [d \in Drainers |-> {}]
    /\ iter = [d \in Drainers |-> 0]
    /\ atStart = [d \in Drainers |-> {}]
    /\ tasks = {} /\ faults = 0

-----------------------------------------------------------------------------
(* Requests *)

\* A request's transaction starts; now() is fixed for all its rows here.
BeginRequest(w, o) ==
    /\ ~wopen[w]
    /\ nextPid <= MaxEvents
    /\ \E t \in {clock, clock + 1} :
          /\ t <= MaxClock
          /\ clock' = t
          /\ wbegan' = [wbegan EXCEPT ![w] = t]
    /\ wopen' = [wopen EXCEPT ![w] = TRUE]
    /\ worg' = [worg EXCEPT ![w] = o]
    /\ UNCHANGED <<nextPid, nextLid, tableVars, wrows, drainerVars, wakeVars>>

\* The row the next enqueue of w inserts: id from the sequence, created_at
\* DEFAULT now(), which is the start of the transaction.  first is history: the
\* id of the first event of the same request.
PendingRow(w) ==
    [id |-> nextPid, org |-> worg[w], created_at |-> wbegan[w],
     first |-> IF wrows[w] = {} THEN nextPid ELSE HeadRow(wrows[w]).first]

\* One event of the operation.
enqueue_audit_entry(w) ==
    /\ wopen[w]
    /\ nextPid <= MaxEvents
    /\ wrows' = [wrows EXCEPT ![w] = @ \cup {PendingRow(w)}]
    /\ nextPid' = nextPid + 1
    /\ UNCHANGED <<clock, nextLid, tableVars, wopen, worg, wbegan, drainerVars, wakeVars>>

\* Migration 032: NOTIFY reaches the listener when the inserting transaction
\* commits, and its callback queues a drain task; it is lost when the LISTEN
\* connection is down at that moment.
notify_audit_pending(rows) ==
    \/ tasks' = tasks \cup {p.org : p \in rows}
    \/ tasks' = tasks

EndRequest(w) ==
    /\ wopen' = [wopen EXCEPT ![w] = FALSE]
    /\ worg' = [worg EXCEPT ![w] = AnyOrg]
    /\ wbegan' = [wbegan EXCEPT ![w] = 0]
    /\ wrows' = [wrows EXCEPT ![w] = {}]

CommitRequest(w) ==
    /\ wopen[w]
    /\ pending' = pending \cup wrows[w]
    /\ acked' = acked \cup {<<p.org, p.id>> : p \in wrows[w]}
    /\ notify_audit_pending(wrows[w])
    /\ EndRequest(w)
    /\ UNCHANGED <<clock, nextPid, nextLid, log, drainerVars, faults>>

\* The operation raises, or its connection dies: the rows vanish, ids do not
\* come back.
AbortRequest(w) ==
    /\ wopen[w]
    /\ EndRequest(w)
    /\ UNCHANGED <<clock, nextPid, nextLid, tableVars, drainerVars, wakeVars>>

-----------------------------------------------------------------------------
(* The drain task: flush_audit_chain in one transaction *)

BeginFlush(d, o) ==
    /\ pc[d] = "idle"
    /\ o \in tasks
    /\ tasks' = tasks \ {o}
    /\ dorg' = [dorg EXCEPT ![d] = o]
    /\ atStart' = [atStart EXCEPT ![d] = {p.id : p \in {q \in pending : q.org = o}}]
    /\ pc' = [pc EXCEPT ![d] = "lock"]
    /\ UNCHANGED <<clock, nextPid, nextLid, tableVars, writerVars, holds, batch,
                   drained, prevHash, mine, gone, iter, faults>>

\* drain_audit_chain, pg_try_advisory_xact_lock.  The lock is reentrant for
\* its holder; when another holds it the call returns 0 and the loop breaks.
TryLock(d) ==
    /\ pc[d] = "lock"
    /\ LET k == advisory_lock_key(dorg[d])
       IN \/ /\ LockFree(d, k)
             /\ holds' = [holds EXCEPT ![d] = @ \cup {k}]
             /\ pc' = [pc EXCEPT ![d] = "select"]
          \/ /\ ~LockFree(d, k)
             /\ pc' = [pc EXCEPT ![d] = "done"]
             /\ UNCHANGED holds
    /\ UNCHANGED <<clock, nextPid, nextLid, tableVars, writerVars, dorg, batch,
                   drained, prevHash, mine, gone, iter, atStart, wakeVars>>

\* The SELECT of pending rows; none means return 0, which ends the loop.
SelectPending(d) ==
    /\ pc[d] = "select"
    /\ batch' = [batch EXCEPT ![d] = FirstById(Visible(d), BatchSize)]
    /\ pc' = [pc EXCEPT ![d] = IF Visible(d) = {} THEN "done" ELSE "latest"]
    /\ UNCHANGED <<clock, nextPid, nextLid, tableVars, writerVars, dorg, holds,
                   drained, prevHash, mine, gone, iter, atStart, wakeVars>>

ReadLatestFrom(d, rows) ==
    /\ pc[d] = "latest"
    /\ prevHash' = [prevHash EXCEPT ![d] = get_latest_hash(rows, dorg[d])]
    /\ pc' = [pc EXCEPT ![d] = "chain"]
    /\ UNCHANGED <<clock, nextPid, nextLid, tableVars, writerVars, dorg, holds,
                   batch, drained, mine, gone, iter, atStart, wakeVars>>

\* Faulty variant: the latest hash is read outside the drain transaction.
ReadLatestCommitted(d) == ReadLatestFrom(d, log)

\* get_latest_hash also sees the rows this transaction has inserted.
ReadLatest(d) == ReadLatestFrom(d, log \cup mine[d])

\* One turn of the loop over the batch.
ChainRow(d) ==
    /\ pc[d] = "chain"
    /\ batch[d] # {}
    /\ LET p   == HeadRow(batch[d])
           row == LogRow(nextLid, p, prevHash[d])
       IN  /\ mine' = [mine EXCEPT ![d] = @ \cup {row}]
           /\ prevHash' = [prevHash EXCEPT ![d] = row.row_hash]
           /\ drained' = [drained EXCEPT ![d] = @ \cup {p.id}]
           /\ batch' = [batch EXCEPT ![d] = @ \ {p}]
    /\ nextLid' = nextLid + 1
    /\ UNCHANGED <<clock, nextPid, tableVars, writerVars, pc, dorg, holds, gone,
                   iter, atStart, wakeVars>>

\* The batch is chained: delete it, then go on with next.
DeleteDrainedThen(d, next) ==
    /\ pc[d] = "chain"
    /\ batch[d] = {}
    /\ gone' = [gone EXCEPT ![d] = @ \cup drained[d]]
    /\ drained' = [drained EXCEPT ![d] = {}]
    /\ prevHash' = [prevHash EXCEPT ![d] = NoHash]
    /\ iter' = [iter EXCEPT ![d] = @ + 1]
    /\ pc' = [pc EXCEPT ![d] = next]
    /\ UNCHANGED <<clock, nextPid, nextLid, tableVars, writerVars, dorg, holds,
                   batch, mine, atStart, wakeVars>>

\* Faulty variant: it never loops.
DeleteDrainedOnce(d) == DeleteDrainedThen(d, "done")

\* DELETE ... WHERE id = ANY(:ids), then the loop of flush_audit_chain: drain
\* again below max_iterations.
DeleteDrained(d) ==
    DeleteDrainedThen(d, IF iter[d] + 1 < MaxIterations THEN "lock" ELSE "done")

EndFlush(d) ==
    /\ pc' = [pc EXCEPT ![d] = "idle"]
    /\ dorg' = [dorg EXCEPT ![d] = AnyOrg]
    /\ holds' = [holds EXCEPT ![d] = {}]
    /\ batch' = [batch EXCEPT ![d] = {}]
    /\ drained' = [drained EXCEPT ![d] = {}]
    /\ prevHash' = [prevHash EXCEPT ![d] = NoHash]
    /\ mine' = [mine EXCEPT ![d] = {}]
    /\ gone' = [gone EXCEPT ![d] = {}]
    /\ iter' = [iter EXCEPT ![d] = 0]
    /\ atStart' = [atStart EXCEPT ![d] = {}]

\* Faulty variant: the tenant's whole queue is deleted, rows that arrived after
\* the SELECT included.
CommitFlushWholeQueue(d) ==
    /\ pc[d] = "done"
    /\ log' = log \cup mine[d]
    /\ pending' = {p \in pending : p.org # dorg[d] \/ gone[d] = {}}
    /\ EndFlush(d)
    /\ UNCHANGED <<clock, nextPid, nextLid, acked, writerVars, wakeVars>>

\* The caller commits: inserts and deletes become visible, then the
\* transaction-scoped lock is released.
CommitFlush(d) ==
    /\ pc[d] = "done"
    /\ log' = log \cup mine[d]
    /\ pending' = {p \in pending : p.id \notin gone[d]}
    /\ EndFlush(d)
    /\ UNCHANGED <<clock, nextPid, nextLid, acked, writerVars, wakeVars>>

\* The worker dies or its connection drops at any statement: the database
\* rolls the transaction back and frees the lock; the task is not retried.
AbortFlush(d) ==
    /\ pc[d] # "idle"
    /\ faults < MaxFaults
    /\ faults' = faults + 1
    /\ EndFlush(d)
    /\ UNCHANGED <<clock, nextPid, nextLid, tableVars, writerVars, tasks>>

-----------------------------------------------------------------------------
(* Waking the drainer *)

\* Faulty variant: notifications alone wake the drainer.
PollRetired == FALSE /\ UNCHANGED vars

\* The periodic task queues a drain for each tenant list_orgs_with_pending
\* returns: DISTINCT ... LIMIT without an order, so any PollLimit of them.
PeriodicPoll ==
    /\ \E found \in SUBSET OrgsPending :
          /\ \/ Cardinality(found) = PollLimit
             \/ Cardinality(found) < PollLimit /\ found = OrgsPending
          /\ ~(found \subseteq tasks)
          /\ tasks' = tasks \cup found
    /\ UNCHANGED <<clock, nextPid, nextLid, tableVars, writerVars, drainerVars,
                   faults>>

-----------------------------------------------------------------------------
RequestStep(w) ==
    \/ \E o \in Orgs : BeginRequest(w, o)
    \/ enqueue_audit_entry(w)
    \/ CommitRequest(w)
    \/ AbortRequest(w)

FlushStep(d) ==
    \/ \E o \in Orgs : BeginFlush(d, o)
    \/ TryLock(d)
    \/ SelectPending(d)
    \/ ReadLatest(d)
    \/ ChainRow(d)
    \/ DeleteDrained(d)
    \/ CommitFlush(d)

Next ==
    \/ \E w \in Writers : RequestStep(w)
    \/ \E d \in Drainers : FlushStep(d) \/ AbortFlush(d)
    \/ PeriodicPoll

Spec == Init /\ [][Next]_vars

\* The task runner keeps running the tasks it has started and the beat
\* scheduler keeps polling; requests, failures and the listener owe nothing.
FairSpec ==
    /\ Spec
    /\ \A d \in Drainers : WF_vars(FlushStep(d))
    /\ WF_vars(PeriodicPoll)

-----------------------------------------------------------------------------
(* Properties *)

PendingRows == [id : Nat, org : Orgs, created_at : Nat, first : Nat]

\* A log row without its hashes, whose terms have no bounded set.
IsLogRow(r) ==
    /\ r.id \in Nat /\ r.org \in Orgs /\ r.created_at \in Nat
    /\ r.src \in Nat /\ r.first \in Nat

Statements == {"idle", "lock", "select", "latest", "chain", "done"}

\* Types of every variable, and the cap of the flush loop: max_iterations of
\* flush_audit_chain bounds the iterations of one flush.
TypeOK ==
    /\ clock \in Nat /\ nextPid \in Nat \ {0} /\ nextLid \in Nat \ {0}
    /\ pending \subseteq PendingRows
    /\ \A r \in log : IsLogRow(r)
    /\ acked \subseteq Orgs \X Nat
    /\ wopen \in [Writers -> BOOLEAN] /\ worg \in [Writers -> Orgs]
    /\ wbegan \in [Writers -> Nat] /\ wrows \in [Writers -> SUBSET PendingRows]
    /\ pc \in [Drainers -> Statements] /\ dorg \in [Drainers -> Orgs]
    /\ holds \in [Drainers -> SUBSET Int]
    /\ batch \in [Drainers -> SUBSET PendingRows]
    /\ drained \in [Drainers -> SUBSET Nat] /\ gone \in [Drainers -> SUBSET Nat]
    /\ DOMAIN prevHash = Drainers /\ DOMAIN mine = Drainers
    /\ \A d \in Drainers : \A r \in mine[d] : IsLogRow(r)
    /\ iter \in [Drainers -> 0 .. MaxIterations]
    /\ atStart \in [Drainers -> SUBSET Nat]
    /\ tasks \subseteq Orgs /\ faults \in 0 .. MaxFaults

\* Every event whose request committed is in exactly one of the two tables, in
\* one row only, and nothing else is in either: a drain that dies, loses the
\* lock or races another neither loses an event nor chains it twice.
ExactlyOnce ==
    /\ {<<p.org, p.id>> : p \in pending} \cup {<<r.org, r.src>> : r \in log} = acked
    /\ {p.id : p \in pending} \cap {r.src : r \in log} = {}
    /\ \A r, q \in log : r.src = q.src => r = q

\* The events of one request land in the log in the order the operation
\* enqueued them, however the batches and flushes cut them.
RequestOrder ==
    \A r, q \in log : r.first = q.first /\ r.src < q.src => r.id < q.id

\* r stands right before q in its tenant's log, in id order.
Follows(r, q) ==
    /\ r.org = q.org /\ r.id < q.id
    /\ ~\E x \in log : x.org = r.org /\ r.id < x.id /\ x.id < q.id

\* The chain an auditor walks in id order: each row's prev_hash is the row_hash
\* of the row before it, the first row has none.  The integration test of the
\* drain asserts it; see LinearWhenOrdered for when it holds.
LinearChain ==
    \A q \in log :
        q.prev_hash = (IF \E r \in log : Follows(r, q)
                       THEN (CHOOSE r \in log : Follows(r, q)).row_hash ELSE NoHash)

\* Whatever the timestamps, a row links back: to an earlier row of its tenant,
\* or to nothing when it is the tenant's first.  No chain starts twice.
LinksBack ==
    \A q \in log :
        LET earlier == {r \in log : r.org = q.org /\ r.id < q.id}
        IN  IF earlier = {} THEN q.prev_hash = NoHash
            ELSE q.prev_hash \in {r.row_hash : r \in earlier}

\* A tenant's chain is linear in id order as long as its rows were chained in
\* timestamp order: the link misses its predecessor only behind an inversion,
\* which needs overlapping requests.
LinearWhenOrdered ==
    (\A r, q \in log : r.org = q.org /\ r.id < q.id => r.created_at <= q.created_at)
        => LinearChain

\* A flush that got the lock and stopped because it saw no more rows leaves
\* none of the rows that were pending when it started.
FlushCompleteWhenLocked ==
    \A d \in Drainers :
        pc[d] = "done" /\ holds[d] # {} /\ iter[d] < MaxIterations
            => \A p \in Visible(d) : p.id \notin atStart[d]

Ledger == INSTANCE AuditLedger WITH
    waiting <- {<<p.org, p.id>> : p \in pending},
    ledger  <- {[pos |-> r.id, org |-> r.org, event |-> r.src] : r \in log}

\* The two tables, the locks and the transactions together do what AuditLedger
\* promises: events enter once, and each tenant's log grows only at its end.
RefinesLedger == Ledger!LedgerSpec

\* Every event of a committed operation is chained eventually: the poll brings
\* back what a lost notification, a lost lock race or a dead worker left.
EventuallyChained ==
    \A o \in Orgs : \A n \in 1 .. MaxEvents :
        <<o, n>> \in acked ~> \E r \in log : r.org = o /\ r.src = n
=============================================================================
