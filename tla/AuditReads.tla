------------------------------ MODULE AuditReads ------------------------------
(***************************************************************************)
(* Readers of one tenant's audit trail while it is being drained: the      *)
(* pages of engine/audit_query.py and the audit lookup of verify_chain in  *)
(* distill/provenance.py.                                                  *)
(*                                                                         *)
(* The drain is here only as AuditLedger promises it: under the tenant's   *)
(* lock some of the oldest queued entries get ids and, at the commit, move *)
(* from the queue to the log.  A reader's statements each see what is      *)
(* committed when they run, and nothing keeps two of them together.        *)
(***************************************************************************)
EXTENDS Naturals, FiniteSets

CONSTANTS
    Drains,         \* drain transactions that may overlap
    MaxPageSize,    \* page_size and limit: at most this
    MaxEntries,     \* bound: audit entries
    MaxIds,         \* bound: ids given, those of rolled-back drains included
    MaxStart        \* bound: start times of requests

ASSUME ReadAssumption ==
    {MaxEntries, MaxIds, MaxStart} \subseteq Nat /\ MaxPageSize \in Nat \ {0}

VARIABLES
    queued,         \* committed rows of audit_log_pending: [n, created_at]
    logged,         \* committed rows of audit_log: [id, n, created_at]
    last_id,        \* ids given
    drain,          \* drain -> rows it has inserted, uncommitted
    walk,           \* a caller walking through the log, page by page
    check           \* a caller verifying the provenance of one memory

readVars == <<queued, logged, last_id, drain, walk, check>>

NoWalk == [step |-> "start", by |-> "page", size |-> 1, cursor |-> 0, page |-> 1,
           total |-> 0, known |-> {}, seen |-> {}, again |-> FALSE, torn |-> FALSE]

NoCheck == [step |-> "start", n |-> 0]

ReadInit ==
    /\ queued = {} /\ logged = {} /\ last_id = 0
    /\ drain = [d \in Drains |-> {}]
    /\ walk = NoWalk
    /\ check = NoCheck

Entries == queued \cup {[n |-> r.n, created_at |-> r.created_at] : r \in logged}

\* A request that began at t commits its entry, requests in any order.
Record(t) ==
    /\ Cardinality(Entries) < MaxEntries
    /\ queued' = queued \cup {[n |-> Cardinality(Entries) + 1, created_at |-> t]}
    /\ UNCHANGED <<logged, last_id, drain, walk, check>>

DrainLockFree == \A d \in Drains : drain[d] = {}

\* drain_audit_chain: the oldest k entries get their ids.
BeginDrain(d, k) ==
    /\ drain[d] = {} /\ DrainLockFree
    /\ last_id + k <= MaxIds
    /\ LET waiting == {p \in queued : \A e \in Drains : \A r \in drain[e] : r.n # p.n}
           batch   == {p \in waiting : Cardinality({q \in waiting : q.n < p.n}) < k}
           Rank(p) == Cardinality({q \in batch : q.n <= p.n})
       IN  /\ Cardinality(batch) = k
           /\ drain' = [drain EXCEPT ![d] =
                {[id |-> last_id + Rank(p), n |-> p.n, created_at |-> p.created_at] : p \in batch}]
           /\ last_id' = last_id + k
    /\ UNCHANGED <<queued, logged, walk, check>>

\* Faulty variant: the queue is emptied in one transaction and the log written
\* in the next.
CommitDeletesFirst(d) ==
    /\ drain[d] # {}
    /\ IF \E r \in drain[d] : \E p \in queued : p.n = r.n
       THEN /\ queued' = {p \in queued : \A r \in drain[d] : r.n # p.n}
            /\ UNCHANGED <<logged, drain>>
       ELSE /\ logged' = logged \cup drain[d]
            /\ drain' = [drain EXCEPT ![d] = {}]
            /\ UNCHANGED queued
    /\ UNCHANGED <<last_id, walk, check>>

CommitDrain(d) ==
    /\ drain[d] # {}
    /\ logged' = logged \cup drain[d]
    /\ queued' = {p \in queued : \A r \in drain[d] : r.n # p.n}
    /\ drain' = [drain EXCEPT ![d] = {}]
    /\ UNCHANGED <<last_id, walk, check>>

RollBackDrain(d) ==
    /\ drain[d] # {}
    /\ drain' = [drain EXCEPT ![d] = {}]
    /\ UNCHANGED <<queued, logged, last_id, walk, check>>

-----------------------------------------------------------------------------
(* audit() *)

\* ORDER BY created_at DESC, id DESC
NewestStart(r, q) == r.created_at > q.created_at \/ (r.created_at = q.created_at /\ r.id > q.id)

\* ORDER BY created_at DESC, id DESC LIMIT size OFFSET offset.
Page(offset, size) ==
    LET Position(r) == Cardinality({q \in logged : NewestStart(q, r)})
    IN  {r \in logged : offset <= Position(r) /\ Position(r) < offset + size}

\* id < :cursor ORDER BY id DESC LIMIT size
OlderThan(cursor, size) ==
    LET older == {r \in logged : r.id < cursor}
    IN  {r \in older : Cardinality({q \in older : q.id > r.id}) < size}

\* The caller has these entries too; has it had one of them before?
Received(entries) ==
    [walk EXCEPT !.seen = @ \cup entries, !.again = @ \/ walk.seen \cap entries # {}]

\* The caller picks the way of paging: by page number throughout, by cursor
\* after the first page, or by cursor from an id it has from elsewhere.  A
\* behaviour has one reader: readers write nothing another could see.
StartWalk(size) ==
    /\ walk = NoWalk /\ check = NoCheck
    /\ \/ \E way \in {"page", "page then cursor"} :
             walk' = [walk EXCEPT !.step = "count", !.by = way, !.size = size]
       \/ walk' = [walk EXCEPT !.step = "next", !.by = "cursor", !.size = size,
                               !.cursor = last_id + 1, !.known = logged]
    /\ UNCHANGED <<queued, logged, last_id, drain, check>>

\* audit(page): the first of its two statements counts.
CountTotal ==
    /\ walk.step = "count"
    /\ walk' = [walk EXCEPT !.step = "page", !.total = Cardinality(logged),
                            !.known = IF walk.page = 1 THEN logged ELSE @]
    /\ UNCHANGED <<queued, logged, last_id, drain, check>>

\* The second reads the page; has_next comes from the count.
FetchPage ==
    /\ walk.step = "page"
    /\ LET offset   == (walk.page - 1) * walk.size
           entries  == Page(offset, walk.size)
           has_next == offset + walk.size < walk.total
           last     == CHOOSE r \in entries : \A q \in entries \ {r} : NewestStart(q, r)
       IN  walk' = [Received(entries) EXCEPT
               !.page = @ + 1, !.torn = @ \/ walk.total # Cardinality(logged),
               !.cursor = IF entries = {} THEN @ ELSE last.id,
               !.step = IF ~has_next THEN "done"
                        ELSE IF walk.by = "page" THEN "count" ELSE "next"]
    /\ UNCHANGED <<queued, logged, last_id, drain, check>>

\* The caller is given rows, and the id of the last one as the next cursor.
Continue(rows, has_next) ==
    LET last == CHOOSE r \in rows : \A q \in rows : r.id <= q.id
    IN  walk' = [Received(rows) EXCEPT !.cursor = IF rows = {} THEN @ ELSE last.id,
                                      !.step = IF has_next THEN "next" ELSE "done"]

\* Faulty variant: has_next is asked of a page that is cut to the limit already.
FetchBelowCursorShort ==
    /\ walk.step = "next"
    /\ LET rows == OlderThan(walk.cursor, walk.size)
       IN  Continue(rows, Cardinality(rows) > walk.size)
    /\ UNCHANGED <<queued, logged, last_id, drain, check>>

\* audit(cursor): one statement, one row more than asked for tells has_next.
FetchBelowCursor ==
    /\ walk.step = "next"
    /\ Continue(OlderThan(walk.cursor, walk.size),
                Cardinality(OlderThan(walk.cursor, walk.size + 1)) > walk.size)
    /\ UNCHANGED <<queued, logged, last_id, drain, check>>

-----------------------------------------------------------------------------
(* verify_chain, of a memory whose distillation has committed: its column and
   its entity_provenance row are there, the audit entry n is looked for. *)

LookInLog(n) ==
    /\ check = NoCheck /\ walk = NoWalk
    /\ \E e \in Entries : e.n = n
    /\ check' = [step |-> IF \E r \in logged : r.n = n THEN "valid" ELSE "look", n |-> n]
    /\ UNCHANGED <<queued, logged, last_id, drain, walk>>

LookInQueue ==
    /\ check.step = "look"
    /\ check' = [check EXCEPT !.step = IF \E p \in queued : p.n = check.n THEN "valid" ELSE "broken"]
    /\ UNCHANGED <<queued, logged, last_id, drain, walk>>

ReadNext ==
    \/ \E t \in 0 .. MaxStart : Record(t)
    \/ \E d \in Drains : \E k \in 1 .. MaxEntries : BeginDrain(d, k)
    \/ \E d \in Drains : CommitDrain(d) \/ RollBackDrain(d)
    \/ \E size \in 1 .. MaxPageSize : StartWalk(size)
    \/ CountTotal \/ FetchPage \/ FetchBelowCursor
    \/ \E n \in 1 .. MaxEntries : LookInLog(n)
    \/ LookInQueue

-----------------------------------------------------------------------------
(* Properties *)

\* Requests that began earlier were chained earlier.
InStartOrder(rows) == \A r, q \in rows : r.id < q.id => r.created_at <= q.created_at

\* What a walk returns can be relied on.  By cursor all the way it needs no more
\* than the drain's lock.  With page numbers no drain may commit between the
\* count and the page (the stale count ends the walk early), and a cursor taken
\* from a page, as the docstring of audit() has it, also needs the two orders to
\* agree: a page is ordered by created_at, a cursor by id.
Sure == CASE walk.by = "cursor" -> TRUE
          [] walk.by = "page"   -> ~walk.torn
          [] OTHER              -> ~walk.torn /\ InStartOrder(logged)

\* A walk that is over has returned every entry that was logged when it began,
\* and by cursor every entry older than the newest one it returned, once each,
\* whatever the drains have committed, or rolled back, meanwhile.
WalkComplete ==
    LET Passed == {r \in logged : \E q \in walk.seen : r.id <= q.id}
    IN  walk.step = "done" /\ Sure =>
            /\ walk.known \subseteq walk.seen
            /\ walk.by # "page" => Passed \subseteq walk.seen /\ ~walk.again

\* verify_chain calls the provenance of a distilled memory broken only when a
\* drain has just moved its audit entry from the table that is asked second to
\* the one that was asked first: asked again, the entry is found.
VerdictHonest == check.step = "broken" => \E r \in logged : r.n = check.n

-----------------------------------------------------------------------------
(* The trail the readers see, as a ledger *)

\* What is queued waits; what is logged is in the ledger, at its id.
Trail == INSTANCE AuditLedger WITH
    Orgs    <- {"tenant"},
    waiting <- {<<"tenant", p.n>> : p \in queued},
    ledger  <- {[pos |-> r.id, org |-> "tenant", event |-> r.n] : r \in logged}

\* With its entries in two tables and drains that overlap, roll back and leave
\* ids unused, what the readers read is AuditLedger's trail: an entry is in the
\* queue or in the log, moves once, in one step, and only to the end of the log.
TrailIsLedger == Trail!LedgerSpec
==============================================================================
