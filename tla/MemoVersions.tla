----------------------------- MODULE MemoVersions -----------------------------
(***************************************************************************)
(* temporal/memo_versioning.py: the versions of one memory in the table    *)
(* memo_versions, its writers and its as-of reads.                         *)
(*                                                                         *)
(* A writer reads the open version, closes whatever is open and inserts    *)
(* the next, all within its caller's transaction; now() is when that       *)
(* transaction began.  The primary key (memo_id, version) is all that      *)
(* keeps two writers apart: there is no constraint that one row is open.   *)
(***************************************************************************)
EXTENDS Naturals, FiniteSets, FiniteSetsExt

CONSTANTS
    Writers,            \* writers
    MaxTime             \* bound: transactions begun

ASSUME VersionAssumption == MaxTime \in Nat

VARIABLES
    memo_versions,      \* committed rows: [version, valid_from, valid_to]
    writer,             \* writer -> its transaction
    now                 \* transactions begun: the time

versionVars == <<memo_versions, writer, now>>

Open == MaxTime + 1     \* valid_to IS NULL

NoTxn == [step |-> "idle", began |-> 0, next |-> 0, found |-> {}, closed |-> {}]

VersionInit ==
    /\ memo_versions = {}
    /\ writer = [w \in Writers |-> NoTxn]
    /\ now = 0

OpenRows == {v \in memo_versions : v.valid_to = Open}

BeginVersion(w) ==
    /\ writer[w] = NoTxn /\ now < MaxTime
    /\ now' = now + 1
    /\ writer' = [writer EXCEPT ![w].step = "read", ![w].began = now + 1]
    /\ UNCHANGED memo_versions

\* SELECT version ... WHERE valid_to IS NULL
ReadOpen(w) ==
    /\ writer[w].step = "read"
    /\ writer' = [writer EXCEPT
          ![w].step = IF OpenRows = {} THEN "insert" ELSE "close",
          ![w].next = IF OpenRows = {} THEN 1 ELSE (CHOOSE v \in OpenRows : TRUE).version + 1]
    /\ UNCHANGED <<memo_versions, now>>

LockedRows == UNION {writer[w].closed : w \in Writers}

\* UPDATE ... WHERE valid_to IS NULL
CloseOpen(w) ==
    /\ writer[w].step = "close"
    /\ LockedRows = {}
    /\ writer' = [writer EXCEPT ![w].step = "insert", ![w].closed = OpenRows]
    /\ UNCHANGED <<memo_versions, now>>

\* It waits with the rows it has found, and closes those that are still open
\* then; those that have come since are not looked at.
CloseWaits(w) ==
    /\ writer[w].step = "close"
    /\ LockedRows # {}
    /\ writer' = [writer EXCEPT ![w].step = "wait", ![w].found = {v.version : v \in OpenRows}]
    /\ UNCHANGED <<memo_versions, now>>

Resume(w) ==
    /\ writer[w].step = "wait"
    /\ LockedRows = {}
    /\ writer' = [writer EXCEPT ![w].step = "insert",
                                ![w].closed = {v \in OpenRows : v.version \in writer[w].found}]
    /\ UNCHANGED <<memo_versions, now>>

\* Faulty variant: the table has no such key.
KeyIgnored(n) == TRUE

\* The primary key: a row of that number is there, or on its way.
KeyFree(n) == \A v \in memo_versions : v.version # n

\* A writer that has inserted the same number and not committed is waited for.
KeySettled(w) ==
    \A v \in Writers \ {w} : writer[v].step = "commit" => writer[v].next # writer[w].next

InsertVersion(w) ==
    /\ writer[w].step = "insert" /\ KeySettled(w)
    /\ writer' = [writer EXCEPT ![w] = IF KeyFree(@.next) THEN [@ EXCEPT !.step = "commit"]
                                       ELSE NoTxn]
    /\ UNCHANGED <<memo_versions, now>>

\* Faulty variant: a row is replaced, not closed.
CommitReplaces(w) ==
    LET r == writer[w]
    IN  /\ r.step = "commit"
        /\ memo_versions' = (memo_versions \ r.closed)
              \cup {[version |-> r.next, valid_from |-> r.began, valid_to |-> Open]}
        /\ writer' = [writer EXCEPT ![w] = NoTxn]
        /\ UNCHANGED now

\* The closed rows end, and the new one begins, when this transaction began:
\* that can be before the closed row began, which then was valid at no time.
CommitVersion(w) ==
    LET r == writer[w]
    IN  /\ r.step = "commit"
        /\ memo_versions' =
              (memo_versions \ r.closed)
                  \cup {[v EXCEPT !.valid_to = r.began] : v \in r.closed}
                  \cup {[version |-> r.next, valid_from |-> r.began, valid_to |-> Open]}
        /\ writer' = [writer EXCEPT ![w] = NoTxn]
        /\ UNCHANGED now

\* The caller rolls back.
AbortVersion(w) ==
    /\ writer[w] # NoTxn
    /\ writer' = [writer EXCEPT ![w] = NoTxn]
    /\ UNCHANGED <<memo_versions, now>>

VersionNext ==
    \E w \in Writers :
        \/ BeginVersion(w) \/ ReadOpen(w) \/ CloseOpen(w) \/ CloseWaits(w) \/ Resume(w)
        \/ InsertVersion(w) \/ CommitVersion(w) \/ AbortVersion(w)

VersionSpec == VersionInit /\ [][VersionNext]_versionVars

\* get_memo_at: ORDER BY version DESC LIMIT 1; 0 if there is none.
get_memo_at(t) ==
    LET valid == {v \in memo_versions : v.valid_from <= t /\ v.valid_to > t}
    IN  IF valid = {} THEN 0 ELSE Max({v.version : v \in valid})

-----------------------------------------------------------------------------
(* Properties *)

\* Versions are numbered without a gap or a double, and only the last is open:
\* of two writers that read the same open row the key stops one.
VersionsContiguous ==
    /\ {v.version : v \in memo_versions} = 1 .. Cardinality(memo_versions)
    /\ \A v \in memo_versions : v.valid_to = Open <=> v.version = Cardinality(memo_versions)

\* The past is settled: the answer for a time when no writer was under way
\* that has still to commit does not change.
PastIsSettled ==
    [][\A t \in 1 .. now :
          (\A w \in Writers : writer[w].step # "idle" => writer[w].began > t) =>
              get_memo_at(t)' = get_memo_at(t)]_versionVars
==============================================================================
