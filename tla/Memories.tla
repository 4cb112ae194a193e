------------------------------- MODULE Memories -------------------------------
(***************************************************************************)
(* The memories table and the engine calls that change it: store, forget   *)
(* (soft, hard, cascading, signed), the TTL sweep, the retention cap,      *)
(* recall's counter, and the calls that rewrite a row: update, transition  *)
(* and decay.                                                              *)
(*                                                                         *)
(* A session runs one call in one transaction at READ COMMITTED.  A        *)
(* statement that writes rows takes their locks one by one, waits where    *)
(* another transaction holds one, and then evaluates its WHERE again on    *)
(* the newest committed version.  A step of the model is a SELECT, one row *)
(* of an UPDATE or DELETE, or the end of the call; INSERTs that nobody     *)
(* else can see or block (the audit rows) belong to the step before them.  *)
(* The deadlock detector and foreign keys are PostgreSQL's; the trigger,   *)
(* the keys and the ON DELETE rules are those of the migrations.           *)
(*                                                                         *)
(* Memory ids are numbers, ordered as ORDER BY id orders them.  A caller   *)
(* may name any id: one that no row has, one of another tenant, or one     *)
(* that another session is storing.  Locks on rows of memory_relationships *)
(* and the graph mirror are left out.                                      *)
(***************************************************************************)
EXTENDS Integers, FiniteSets

CONSTANTS
    Sessions,       \* connections running engine calls
    Orgs,           \* tenants
    Mems,           \* memory ids
    NoMem,          \* no relationship asked for
    MaxCount,       \* max_count of the retention cap
    CascadeDepth,   \* cascade_depth
    MaxRequests,    \* bound: engine calls
    MaxFaults       \* bound: statements that fail, connections that die

ASSUME MemsAssumption == Mems \subseteq Nat /\ IsFiniteSet(Mems) /\ NoMem \notin Mems
ASSUME LimitsAssumption ==
    MaxCount \in Nat /\ CascadeDepth \in Nat /\ MaxRequests \in Nat /\ MaxFaults \in Nat

VARIABLES
    row,        \* memory -> its committed row: status and recall_count
    org,        \* memory -> the tenant it belongs to, or will when it is stored
    rels,       \* committed memory_relationships
    events,     \* audit events of committed transactions
    versioned,  \* memories with a row in memo_versions
    certs,      \* committed forget_certificates
    call,       \* session -> the engine call it runs
    tx,         \* session -> what its transaction has written
    reported,   \* history: what callers were told has happened
    bumps,      \* history: memory -> committed increments
    errors,     \* history: errors the database raised to a caller
    swallowed,  \* history: has a database error been swallowed?
    requests,   \* calls begun
    faults      \* failures so far

tables  == <<row, org, rels, events, versioned, certs>>
history == <<reported, bumps, errors, swallowed>>
vars == <<tables, call, tx, history, requests, faults>>

Present == {"live", "deleted"}

NoRows == [m \in {} |-> [st |-> "none", n |-> 0]]
NoTx == [rows |-> NoRows, links |-> {}, unlinked |-> {}, events |-> {},
         versions |-> {}, certs |-> {}, aborted |-> FALSE]
Idle == [op |-> "none", org |-> "nobody", step |-> "idle", ids |-> {}, seen |-> {}, todo |-> {},
         hashed |-> {}, excess |-> 0, link |-> NoMem, sign |-> FALSE]

Locks(s) == DOMAIN tx[s].rows

\* The newest version of a row that session s can act on.
Sees(s, m) == IF m \in Locks(s) THEN tx[s].rows[m] ELSE row[m]

With(f, m, v) == [x \in DOMAIN f \cup {m} |-> IF x = m THEN v ELSE f[x]]

Ends(r) == {r[1], r[2]}

\* The relationships of a tenant, stored with the memory they start at.
RelsOf(o) == {r \in rels : org[r[1]] = o}

\* Those of the ids that a statement of tenant o finds a row for, deleted or not.
Visible(o, ids) == {m \in ids : org[m] = o /\ row[m].st \in Present}

LiveMems(o) == {m \in Mems : org[m] = o /\ row[m].st = "live"}

-----------------------------------------------------------------------------
\* A database that has been in use: some memories exist, some are related.
Init ==
    /\ org \in [Mems -> Orgs]
    /\ row \in [Mems -> {[st |-> "none", n |-> 0], [st |-> "live", n |-> 0]}]
    /\ LET live == {m \in Mems : row[m].st = "live"}
       IN  /\ rels \in SUBSET {r \in live \X live : r[1] > r[2]}
           /\ events = {<<"store", m, org[m]>> : m \in live}
           /\ versioned = live
    /\ certs = {}
    /\ call = [s \in Sessions |-> Idle] /\ tx = [s \in Sessions |-> NoTx]
    /\ reported = {} /\ bumps = [m \in Mems |-> 0] /\ errors = {}
    /\ swallowed = FALSE /\ requests = 0 /\ faults = 0

-----------------------------------------------------------------------------
(* Calls begin *)

\* Session s starts a call; c tells where it stands, t what it has written.
Begin(s, c, t) ==
    /\ call[s].step = "idle"
    /\ requests < MaxRequests
    /\ requests' = requests + 1
    /\ call' = [call EXCEPT ![s] = c]
    /\ tx' = [tx EXCEPT ![s] = t]
    /\ UNCHANGED <<tables, history, faults>>

\* Tenant o's statement of kind op is under way on the rows of seen, locking one
\* after the other.
Rows(op, o, seen) == [Idle EXCEPT !.op = op, !.org = o, !.step = "rows",
                                  !.ids = seen, !.seen = seen, !.todo = seen]

\* An id no row has had: uuid4.
Fresh(m) == row[m].st = "none" /\ \A s \in Sessions : m \notin Locks(s)

\* store: the new row is written; t is the memory it is to be related to.  The
\* foreign key asks for a row of that id, of whichever tenant.
store(s, m, t) ==
    /\ Fresh(m) /\ t # m
    /\ t # NoMem => row[t].st # "none"
    /\ Begin(s, [Idle EXCEPT !.op = "store", !.org = org[m], !.ids = {m}, !.link = t,
                             !.step = IF t = NoMem THEN "version" ELSE "link"],
                [NoTx EXCEPT !.rows = With(NoRows, m, [st |-> "live", n |-> 0]),
                             !.events = IF t = NoMem THEN {<<"store", m, org[m]>>} ELSE {}])

\* forget takes the ids as they come.  With cascade it looks for related
\* memories first, with a signing key it hashes what is there.
forget(s, o, ids, hard, cascade, sign) ==
    Begin(s, [Idle EXCEPT !.op = IF hard THEN "gdpr_delete" ELSE "forget",
                          !.org = o, !.ids = ids, !.sign = sign,
                          !.step = IF cascade THEN "cascade" ELSE IF sign THEN "hash" ELSE "delete"],
          NoTx)

\* sweep_expired_memories has selected the expired memories that are not
\* deleted.  The model has no clock: any of them may have expired.
sweep_expired_memories(s, o, ids) == Begin(s, Rows("sweep", o, ids), NoTx)

\* enforce_retention_cap has counted the excess; its second SELECT follows.
enforce_retention_cap(s, o) ==
    /\ Cardinality(LiveMems(o)) > MaxCount
    /\ Begin(s, [Idle EXCEPT !.op = "retention", !.org = o, !.step = "select",
                             !.excess = Cardinality(LiveMems(o)) - MaxCount], NoTx)

\* The write-back of recall, for what its retrieval returned.
recall(s, o, ids) == Begin(s, Rows("recall", o, ids), NoTx)

\* update_memory, transition_memory and decay_importance change content,
\* metadata, importance or type.  The first writes where deleted_at is null;
\* transition has looked the memory up and decay has selected live ones, and
\* both then write by id.
update_memory(s, o, m) == Begin(s, Rows("update", o, Visible(o, {m})), NoTx)
transition_memory(s, o, m) == m \in LiveMems(o) /\ Begin(s, Rows("transition", o, {m}), NoTx)
decay_importance(s, o, ids) == Begin(s, Rows("decay", o, ids), NoTx)

-----------------------------------------------------------------------------
(* Selects inside a call *)

Related(o, S) == S \cup UNION {Ends(r) : r \in {q \in RelsOf(o) : Ends(q) \cap S # {}}}

\* _find_related_memories: breadth first, depth hops.
Reach(o, S) ==
    LET reach[n \in 0 .. CascadeDepth] == IF n = 0 THEN S ELSE Related(o, reach[n - 1])
    IN  reach[CascadeDepth]

find_related_memories(s) ==
    /\ call[s].step = "cascade"
    /\ call' = [call EXCEPT ![s].ids = Reach(call[s].org, @),
                            ![s].step = IF call[s].sign THEN "hash" ELSE "delete"]
    /\ UNCHANGED <<tables, tx, history, requests, faults>>

\* _snapshot_content_hashes: the leaf of an id without a row gets no hash.
snapshot_content_hashes(s) ==
    /\ call[s].step = "hash"
    /\ call' = [call EXCEPT ![s].hashed = Visible(call[s].org, call[s].ids), ![s].step = "delete"]
    /\ UNCHANGED <<tables, tx, history, requests, faults>>

\* _soft_delete and _hard_delete: the rows the statement will lock are those its
\* snapshot has.  A hard delete has deleted the tenant's relationships by then,
\* those of ids it finds no row for included.
DeleteBegins(s) ==
    /\ call[s].step = "delete"
    /\ LET seen == Visible(call[s].org, call[s].ids)
       IN  call' = [call EXCEPT ![s].step = "rows", ![s].seen = seen, ![s].todo = seen]
    /\ tx' = [tx EXCEPT ![s].unlinked =
                IF call[s].op = "gdpr_delete"
                THEN {r \in RelsOf(call[s].org) : Ends(r) \cap call[s].ids # {}} ELSE {}]
    /\ UNCHANGED <<tables, history, requests, faults>>

\* The second SELECT of the retention cap: LIMIT the excess, as counted before,
\* over the memories live now, least important first.  Any of them may come
\* first, and any may be pinned and left out.
SelectExcess(s) ==
    /\ call[s].step = "select"
    /\ \E ids \in SUBSET LiveMems(call[s].org) :
          /\ Cardinality(ids) <= call[s].excess
          /\ call' = [call EXCEPT ![s].ids = ids, ![s].seen = ids, ![s].todo = ids, ![s].step = "rows"]
    /\ UNCHANGED <<tables, tx, history, requests, faults>>

-----------------------------------------------------------------------------
(* The rows of an UPDATE or DELETE *)

\* The WHERE on the newest version of a row.  forget and update_memory write
\* where deleted_at is null; the others write by id.
Matches(s, m) ==
    Sees(s, m).st \in (IF call[s].op \in {"forget", "update"} THEN {"live"} ELSE Present)

\* Faulty variant: recall's subselect has no ORDER BY.
NextRowsUnordered(s) == call[s].todo

\* The rows the statement may lock next: recall locks in id order, the others
\* in the order of the plan.
NextRows(s) ==
    IF call[s].op = "recall"
    THEN {m \in call[s].todo : \A x \in call[s].todo : m <= x}
    ELSE call[s].todo

\* The sessions a row lock waits for.  A DELETE also waits for the key share
\* lock that a new relationship holds on its target.
Blockers(s, m) ==
    {t \in Sessions \ {s} :
        \/ m \in Locks(t)
        \/ call[s].op = "gdpr_delete" /\ \E r \in tx[t].links : m \in Ends(r)}

\* Changes of deleted_at or recall_count alone pass memories_scd_trigger; any
\* other column makes it close the row and insert another with the same id.
memories_scd_trigger(o) == o \notin {"forget", "sweep", "retention", "recall"}

Rewrites(o) == o # "gdpr_delete" /\ memories_scd_trigger(o)

\* Faulty variant: recall writes the row back as its retrieval returned it.
NewRowAsRetrieved(s, m) ==
    CASE call[s].op = "recall"      -> [st |-> "live", n |-> Sees(s, m).n + 1]
      [] call[s].op = "gdpr_delete" -> [Sees(s, m) EXCEPT !.st = "erased"]
      [] OTHER                      -> [Sees(s, m) EXCEPT !.st = "deleted"]

NewRow(s, m) ==
    CASE call[s].op = "recall"      -> [Sees(s, m) EXCEPT !.n = @ + 1]
      [] call[s].op = "gdpr_delete" -> [Sees(s, m) EXCEPT !.st = "erased"]
      [] OTHER                      -> [Sees(s, m) EXCEPT !.st = "deleted"]

\* Relationships removed with a memory: by the DELETE before, and for those
\* committed since by ON DELETE CASCADE.
Touching(m) == {r \in rels : m \in Ends(r)}

RowDone(s, m) == call' = [call EXCEPT ![s].todo = @ \ {m}]

\* Faulty variant: a locked row is skipped.
SkipRowLocked(s, m) ==
    /\ call[s].step = "rows" /\ m \in NextRows(s)
    /\ ~Matches(s, m) \/ Blockers(s, m) # {}
    /\ RowDone(s, m)
    /\ UNCHANGED <<tables, tx, history, requests, faults>>

SkipRow(s, m) ==
    /\ call[s].step = "rows" /\ m \in NextRows(s)
    /\ ~Matches(s, m)
    /\ RowDone(s, m)
    /\ UNCHANGED <<tables, tx, history, requests, faults>>

WriteRow(s, m) ==
    /\ call[s].step = "rows" /\ m \in NextRows(s)
    /\ Matches(s, m) /\ Blockers(s, m) = {}
    /\ ~Rewrites(call[s].op)
    /\ tx' = [tx EXCEPT ![s].rows = With(@, m, NewRow(s, m)),
                        ![s].unlinked = @ \cup (IF call[s].op = "gdpr_delete"
                                                THEN Touching(m) ELSE {})]
    /\ RowDone(s, m)
    /\ UNCHANGED <<tables, history, requests, faults>>

-----------------------------------------------------------------------------
(* Calls end *)

\* The transaction of s is rolled back and its call is over.
Rollback(s) ==
    /\ call' = [call EXCEPT ![s] = Idle]
    /\ tx' = [tx EXCEPT ![s] = NoTx]

\* The database or the engine raises to the caller, who rolls back.
Raise(s, e) ==
    /\ errors' = errors \cup {e}
    /\ Rollback(s)
    /\ UNCHANGED <<tables, reported, bumps, swallowed, requests, faults>>

\* The trigger's INSERT of the same id meets pk_memories, whose key is the id
\* alone: the row it has just closed is still there.
RewriteRow(s, m) ==
    /\ call[s].step = "rows" /\ m \in NextRows(s)
    /\ Matches(s, m) /\ Blockers(s, m) = {}
    /\ Rewrites(call[s].op)
    /\ Raise(s, "unique_violation")

\* Faulty variant: the lifecycle jobs delete without an audit entry.
AuditsForgetOnly(s) ==
    {<<call[s].op, m, call[s].org>> : m \in IF call[s].op \in {"forget", "gdpr_delete"} THEN call[s].ids ELSE {}}

\* The audit entries about deleted memories.  forget audits each target, found
\* or not.
Audits(s) ==
    CASE call[s].op = "gdpr_delete" -> {<<"gdpr_delete", m, call[s].org>> : m \in call[s].ids}
      [] call[s].op \in {"forget", "sweep", "retention"} -> {<<"forget", m, call[s].org>> : m \in call[s].ids}
      [] OTHER -> {}

FinishRows(s) ==
    /\ call[s].step = "rows" /\ call[s].todo = {} /\ call[s].op # "update"
    /\ tx' = [tx EXCEPT ![s].events = Audits(s)]
    /\ call' = [call EXCEPT ![s].step = IF call[s].sign THEN "cert" ELSE "commit"]
    /\ UNCHANGED <<tables, history, requests, faults>>

\* update_memory: the UPDATE returned no row.
NotFound(s) ==
    /\ call[s].step = "rows" /\ call[s].todo = {} /\ call[s].op = "update"
    /\ Raise(s, "not_found")

\* Faulty variant: nothing checks that the target exists.
LinkUnchecked(s) ==
    /\ call[s].step = "link"
    /\ LET m == CHOOSE x \in call[s].ids : TRUE
       IN  tx' = [tx EXCEPT ![s].links = {<<m, call[s].link>>}, ![s].events = {<<"store", m, org[m]>>}]
    /\ call' = [call EXCEPT ![s].step = "version"]
    /\ UNCHANGED <<tables, history, requests, faults>>

\* A DELETE in progress of the memory that store wants to relate to.
LinkBlockers(s) ==
    {t \in Sessions \ {s} : call[t].op = "gdpr_delete" /\ call[s].link \in Locks(t)}

\* The relationship and the audit entry of store.
Link(s) ==
    /\ call[s].step = "link"
    /\ row[call[s].link].st \in Present /\ LinkBlockers(s) = {}
    /\ LET m == CHOOSE x \in call[s].ids : TRUE
       IN  tx' = [tx EXCEPT ![s].links = {<<m, call[s].link>>}, ![s].events = {<<"store", m, org[m]>>}]
    /\ call' = [call EXCEPT ![s].step = "version"]
    /\ UNCHANGED <<tables, history, requests, faults>>

\* The target is gone: the foreign key fails.
LinkFails(s) ==
    /\ call[s].step = "link"
    /\ row[call[s].link].st \notin Present
    /\ Raise(s, "foreign_key_violation")

\* A best-effort step fails and its exception is swallowed.  When the database
\* raised it, the transaction is aborted, for there is no savepoint.
Swallow(s) ==
    /\ faults < MaxFaults
    /\ faults' = faults + 1
    /\ call' = [call EXCEPT ![s].step = "commit"]
    /\ \/ /\ tx' = [tx EXCEPT ![s].aborted = TRUE]
          /\ swallowed' = TRUE
       \/ UNCHANGED <<tx, swallowed>>
    /\ UNCHANGED <<tables, reported, bumps, errors, requests>>

record_memo_version(s) ==
    /\ call[s].step = "version"
    /\ \/ /\ tx' = [tx EXCEPT ![s].versions = call[s].ids]
          /\ call' = [call EXCEPT ![s].step = "commit"]
          /\ UNCHANGED <<tables, history, requests, faults>>
       \/ Swallow(s)

emit_forget_certificate(s) ==
    /\ call[s].step = "cert"
    /\ \/ /\ tx' = [tx EXCEPT ![s].certs = {[ids |-> call[s].ids, hashed |-> call[s].hashed,
                                            hard |-> call[s].op = "gdpr_delete"]}]
          /\ call' = [call EXCEPT ![s].step = "commit"]
          /\ UNCHANGED <<tables, history, requests, faults>>
       \/ Swallow(s)

\* What the result of the call tells the caller.  forget returns every id it was
\* given or found; whether its statement had a row of that id is noted with it,
\* though the caller learns only how many rows were deleted.
Results(s) ==
    CASE call[s].op = "store" -> {<<"stored", m, TRUE>> : m \in call[s].ids}
      [] call[s].op \in {"forget", "gdpr_delete"} ->
            {<<"forgotten", m, m \in call[s].seen>> : m \in call[s].ids}
      [] OTHER -> {}

\* The call has returned and the caller commits.
Commit(s) ==
    /\ call[s].step = "commit" /\ ~tx[s].aborted
    /\ row' = [m \in Mems |-> Sees(s, m)] /\ org' = org
    /\ rels' = (rels \cup tx[s].links) \ tx[s].unlinked
    /\ events' = events \cup tx[s].events
    /\ versioned' = versioned \cup tx[s].versions
    /\ certs' = certs \cup tx[s].certs
    /\ reported' = reported \cup Results(s)
    /\ bumps' = [m \in Mems |->
                    IF call[s].op = "recall" /\ m \in call[s].ids /\ Sees(s, m).st \in Present
                    THEN bumps[m] + 1 ELSE bumps[m]]
    /\ Rollback(s)
    /\ UNCHANGED <<errors, swallowed, requests, faults>>

\* COMMIT of an aborted transaction: the database rolls back without an error.
CommitAborted(s) ==
    /\ call[s].step = "commit" /\ tx[s].aborted
    /\ reported' = reported \cup Results(s)
    /\ Rollback(s)
    /\ UNCHANGED <<tables, bumps, errors, swallowed, requests, faults>>

\* The connection dies.
ConnectionLost(s) ==
    /\ call[s].step # "idle"
    /\ faults < MaxFaults
    /\ faults' = faults + 1
    /\ Rollback(s)
    /\ UNCHANGED <<tables, history, requests>>

\* Session s can go on only when session t ends.
WaitsFor(s, t) ==
    \/ /\ call[s].step = "rows" /\ call[s].todo # {}
       /\ \A m \in NextRows(s) : Matches(s, m) /\ Blockers(s, m) # {}
       /\ \E m \in NextRows(s) : t \in Blockers(s, m)
    \/ call[s].step = "link" /\ row[call[s].link].st \in Present /\ t \in LinkBlockers(s)

Deadlocked(S) == S # {} /\ \A s \in S : \E t \in S : WaitsFor(s, t)

\* Faulty variant: nobody is chosen.
NoVictim(s) == FALSE /\ UNCHANGED vars

\* The deadlock detector picks a session of a cycle.
DeadlockVictim(s) ==
    /\ \E S \in SUBSET Sessions : s \in S /\ Deadlocked(S)
    /\ Raise(s, "deadlock_detected")

-----------------------------------------------------------------------------
BeginCall(s) ==
    \/ \E m \in Mems : \E t \in Mems \cup {NoMem} : store(s, m, t)
    \/ \E o \in Orgs :
          \/ \E ids \in SUBSET Mems \ {{}} : \E hard, cascade, sign \in BOOLEAN :
                forget(s, o, ids, hard, cascade, sign)
          \/ \E ids \in SUBSET LiveMems(o) \ {{}} :
                \/ sweep_expired_memories(s, o, ids)
                \/ recall(s, o, ids)
                \/ decay_importance(s, o, ids)
          \/ enforce_retention_cap(s, o)
          \/ \E m \in Mems : update_memory(s, o, m) \/ transition_memory(s, o, m)

RowStep(s) == \E m \in Mems : SkipRow(s, m) \/ WriteRow(s, m) \/ RewriteRow(s, m)

CallStep(s) ==
    \/ find_related_memories(s)
    \/ snapshot_content_hashes(s)
    \/ DeleteBegins(s)
    \/ SelectExcess(s)
    \/ RowStep(s)
    \/ FinishRows(s)
    \/ NotFound(s)
    \/ Link(s)
    \/ LinkFails(s)
    \/ record_memo_version(s)
    \/ emit_forget_certificate(s)
    \/ Commit(s)
    \/ CommitAborted(s)
    \/ DeadlockVictim(s)

Next == \E s \in Sessions : BeginCall(s) \/ CallStep(s) \/ ConnectionLost(s)

Spec == Init /\ [][Next]_vars

\* A call goes on while it can; the database detects deadlocks.  No new call
\* has to begin.
Fairness == \A s \in Sessions : WF_vars(CallStep(s))

-----------------------------------------------------------------------------
(* Properties *)

\* Every memory that is deleted or erased has an audit event of its tenant that
\* says so, in the same commit, whichever call deleted it; an erased one may have
\* been soft-deleted before, and its erasure has an event of its own.
DeletionsAudited ==
    \A m \in Mems :
        /\ row[m].st = "deleted" => <<"forget", m, org[m]>> \in events
        /\ row[m].st = "erased" => <<"gdpr_delete", m, org[m]>> \in events

\* A deleted memory does not come back, an erased one stays erased, and
\* recall_count does not fall, however the writers of a row interleave.
DeletionIsFinal ==
    [][\A m \in Mems :
          /\ row[m].st = "erased" => row'[m].st = "erased"
          /\ row[m].st = "deleted" => row'[m].st \in {"deleted", "erased"}
          /\ row'[m].n >= row[m].n]_vars

\* A relationship joins memories that exist, also when one of them is erased
\* while another session is relating a new memory to it.
RelationsJoinMemories ==
    \A r \in rels : \A m \in Ends(r) : row[m].st \in Present

\* Recalls that overlap add up: recall_count is the number of recalls that
\* committed.
NoLostBump == \A m \in Mems : row[m].st \in Present => row[m].n = bumps[m]

\* A memory for which a certificate has the hash of a content is not live, and
\* for a hard delete it is erased, from the moment the certificate can be read.
\* The hashes are of an earlier SELECT than the deletion.  Nothing is said of the
\* ids without a hash: forget did not find them.
CertificatesTruthful ==
    \A c \in certs : \A m \in c.hashed :
        IF c.hard THEN row[m].st = "erased" ELSE row[m].st \in {"deleted", "erased"}

\* Recalls of overlapping memories queue instead of deadlocking: that is what
\* recall orders its row locks for.
RecallsDoNotDeadlock ==
    \A S \in SUBSET {s \in Sessions : call[s].op = "recall"} : ~Deadlocked(S)

\* What a caller was told has happened: a memory is stored, and one whose row
\* the statement of forget had is deleted.  forget returns its other targets as
\* well: what has no row, is another tenant's or is not committed yet.
ReportedHolds ==
    \A m \in Mems :
        /\ <<"forgotten", m, TRUE>> \in reported => row[m].st \in {"deleted", "erased"}
        /\ <<"stored", m, TRUE>> \in reported => row[m].st # "none"

\* As long as no best-effort step has swallowed a database error, the database
\* holds what forget and store returned: the deletion of every row that forget's
\* statement had, whatever the other sessions did with them meanwhile.
ReportedHoldsUnlessSwallowed == ~swallowed => ReportedHolds

\* Migration 035: content changes still produce a new version per UPDATE.  No
\* call would then fail on the table's own key.
VersionedUpdatesApply == "unique_violation" \notin errors

\* Every call ends, although calls lock several rows in different orders.
EveryCallEnds == \A s \in Sessions : call[s].step # "idle" ~> call[s].step = "idle"
=============================================================================
