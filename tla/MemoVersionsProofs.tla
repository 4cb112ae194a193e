-------------------------- MODULE MemoVersionsProofs --------------------------
(***************************************************************************)
(* VersionsContiguous and PastIsSettled, for any number of writers.        *)
(*                                                                         *)
(* The number a writer has computed is at most one past the last version   *)
(* there is.  As long as it is, nothing has been committed since the       *)
(* writer read, and what it closes is what is open.  The key lets only     *)
(* such a writer reach its commit, and only one at a time.                 *)
(***************************************************************************)
EXTENDS MemoVersions, FiniteSetTheorems, TLAPS

Version == [version : Nat, valid_from : Nat, valid_to : Nat]

Txn == [step : {"idle", "read", "close", "wait", "insert", "commit"}, began : Nat, next : Nat,
        found : SUBSET Nat, closed : SUBSET Version]

Latest == Cardinality(memo_versions)

TypeOK ==
    /\ memo_versions \subseteq Version /\ IsFiniteSet(memo_versions)
    /\ writer \in [Writers -> Txn]
    /\ now \in 0 .. MaxTime
    /\ \A w \in Writers : writer[w].began <= now

\* Numbers are given once.
Numbered ==
    /\ VersionsContiguous
    /\ \A u, v \in memo_versions : u.version = v.version => u = v

\* The number a writer has computed, and what it will close.
Computed ==
    \A w \in Writers :
        LET r == writer[w]
        IN  /\ r.step \in {"close", "wait", "insert", "commit"} => r.next \in 1 .. Latest + 1
            /\ r.step = "wait" /\ r.next = Latest + 1 => r.found = {v.version : v \in OpenRows}
            /\ r.step \in {"insert", "commit"} /\ r.next = Latest + 1 => r.closed = OpenRows
            /\ r.step = "commit" => r.next = Latest + 1
            /\ r.step \notin {"insert", "commit"} => r.closed = {}

\* One writer at a time has its number in the table.
OneCommits ==
    \A u, w \in Writers : writer[u].step = "commit" /\ writer[w].step = "commit" => u = w

IInv == TypeOK /\ Numbered /\ Computed /\ OneCommits

-----------------------------------------------------------------------------
(* What the table looks like *)

LEMMA LatestNat == ASSUME IInv PROVE Latest \in Nat
  BY FS_CardinalityType DEF IInv, TypeOK, Latest

\* Without versions nothing is open.
LEMMA NothingOpen == ASSUME IInv, Latest = 0 PROVE memo_versions = {} /\ OpenRows = {}
  BY FS_EmptySet DEF IInv, TypeOK, Latest, OpenRows

\* Otherwise the last one is, alone.
LEMMA LastOpen ==
    ASSUME IInv, Latest # 0
    PROVE  \E u \in memo_versions : OpenRows = {u} /\ u.version = Latest
<1>1. Latest \in 1 .. Latest
  BY LatestNat
<1>2. PICK u \in memo_versions : u.version = Latest
  BY <1>1 DEF IInv, Numbered, VersionsContiguous, Latest
<1>3. u \in OpenRows
  BY <1>2 DEF IInv, Numbered, VersionsContiguous, OpenRows, Latest
<1>4. ASSUME NEW v \in OpenRows PROVE v = u
  BY <1>2, <1>4 DEF IInv, Numbered, VersionsContiguous, OpenRows, Latest
<1> QED
  BY <1>2, <1>3, <1>4

LEMMA InitInvariant == VersionInit => IInv
<1> SUFFICES ASSUME VersionInit PROVE IInv
  OBVIOUS
<1>1. memo_versions = {} /\ Cardinality(memo_versions) = 0 /\ IsFiniteSet(memo_versions)
  BY FS_EmptySet DEF VersionInit
<1>2. TypeOK
  BY <1>1, VersionAssumption DEF VersionInit, TypeOK, Txn, NoTxn
<1>3. Numbered
  BY <1>1 DEF Numbered, VersionsContiguous
<1>4. Computed /\ OneCommits
  BY DEF VersionInit, NoTxn, Computed, OneCommits
<1> QED
  BY <1>2, <1>3, <1>4 DEF IInv

-----------------------------------------------------------------------------
(* Steps that leave the table alone *)

\* A writer goes on to r: it is enough to look at r.
LEMMA WriterStep ==
    ASSUME IInv, NEW w \in Writers, NEW r \in Txn,
           writer' = [writer EXCEPT ![w] = r],
           UNCHANGED memo_versions, now' \in now .. MaxTime, r.began <= now',
           r.step \in {"close", "wait", "insert", "commit"} => r.next \in 1 .. Latest + 1,
           r.step = "wait" /\ r.next = Latest + 1 => r.found = {v.version : v \in OpenRows},
           r.step \in {"insert", "commit"} /\ r.next = Latest + 1 => r.closed = OpenRows,
           r.step \notin {"insert", "commit"} => r.closed = {},
           r.step = "commit" => r.next = Latest + 1
                                  /\ \A v \in Writers \ {w} : writer[v].step # "commit"
    PROVE  IInv'
<1>1. TypeOK'
  <2>1. writer' \in [Writers -> Txn]
    BY DEF IInv, TypeOK
  <2>2. \A v \in Writers : writer[v].began \in Nat /\ writer[v].began <= now
    BY DEF IInv, TypeOK, Txn
  <2>3. now \in Nat /\ now' \in 0 .. MaxTime /\ now <= now'
    BY VersionAssumption DEF IInv, TypeOK
  <2>4. ASSUME NEW v \in Writers PROVE writer'[v].began <= now'
    <3>1. CASE v = w
      BY <3>1 DEF IInv, TypeOK
    <3>2. CASE v # w
      BY <2>2, <2>3, <3>2 DEF IInv, TypeOK
    <3> QED
      BY <3>1, <3>2
  <2> QED
    BY <2>1, <2>3, <2>4 DEF IInv, TypeOK
<1>2. Numbered'
  BY DEF IInv, Numbered, VersionsContiguous
<1>3. Latest' = Latest /\ OpenRows' = OpenRows
  BY DEF Latest, OpenRows
<1>4. Computed'
  <2> SUFFICES ASSUME NEW v \in Writers
               PROVE LET q == writer'[v]
                     IN  /\ q.step \in {"close", "wait", "insert", "commit"} => q.next \in 1 .. Latest + 1
                         /\ q.step = "wait" /\ q.next = Latest + 1 => q.found = {u.version : u \in OpenRows}
                         /\ q.step \in {"insert", "commit"} /\ q.next = Latest + 1 => q.closed = OpenRows
                         /\ q.step = "commit" => q.next = Latest + 1
                         /\ q.step \notin {"insert", "commit"} => q.closed = {}
    BY <1>3 DEF Computed
  <2>1. CASE v = w
    <3>1. writer'[v] = r
      BY <2>1 DEF IInv, TypeOK
    <3> QED
      BY <3>1
  <2>2. CASE v # w
    <3>1. writer'[v] = writer[v]
      BY <2>2 DEF IInv, TypeOK
    <3> QED
      BY <3>1 DEF IInv, Computed
  <2> QED
    BY <2>1, <2>2
<1>5. OneCommits'
  <2>1. writer'[w] = r /\ \A v \in Writers \ {w} : writer'[v] = writer[v]
    BY DEF IInv, TypeOK
  <2> SUFFICES ASSUME NEW u \in Writers, NEW v \in Writers, u # v
               PROVE  ~(writer'[u].step = "commit" /\ writer'[v].step = "commit")
    BY DEF OneCommits
  <2>2. CASE u = w
    BY <2>1, <2>2
  <2>3. CASE v = w
    BY <2>1, <2>3
  <2>4. CASE u # w /\ v # w
    BY <2>1, <2>4 DEF IInv, OneCommits
  <2> QED
    BY <2>2, <2>3, <2>4
<1> QED
  BY <1>1, <1>2, <1>4, <1>5 DEF IInv

LEMMA BeginStep == ASSUME IInv, NEW w \in Writers, BeginVersion(w) PROVE IInv'
<1> DEFINE r == [writer[w] EXCEPT !.step = "read", !.began = now + 1]
<1>1. now < MaxTime /\ now \in Nat /\ MaxTime \in Nat
  BY VersionAssumption DEF BeginVersion, IInv, TypeOK
<1>2. r \in Txn /\ r.step = "read" /\ r.began = now + 1 /\ r.closed = {}
  BY <1>1 DEF BeginVersion, NoTxn, IInv, TypeOK, Txn
<1>3. writer' = [writer EXCEPT ![w] = r] /\ UNCHANGED memo_versions /\ now' = now + 1
  BY DEF BeginVersion
<1> HIDE DEF r
<1> QED
  <2>1. now' \in now .. MaxTime /\ r.began <= now'
    BY <1>1, <1>2, <1>3
  <2> QED
    BY <1>2, <1>3, <2>1, WriterStep

LEMMA ReadStep == ASSUME IInv, NEW w \in Writers, ReadOpen(w) PROVE IInv'
<1> DEFINE r == [writer[w] EXCEPT
      !.step = IF OpenRows = {} THEN "insert" ELSE "close",
      !.next = IF OpenRows = {} THEN 1 ELSE (CHOOSE v \in OpenRows : TRUE).version + 1]
<1>1. writer' = [writer EXCEPT ![w] = r] /\ UNCHANGED <<memo_versions, now>>
  BY DEF ReadOpen
<1>2. writer[w] \in Txn /\ writer[w].began <= now /\ now \in 0 .. MaxTime /\ Latest \in Nat
  BY LatestNat DEF IInv, TypeOK
<1>3. r.next \in 1 .. Latest + 1 /\ (OpenRows = {} => Latest = 0)
  <2>1. CASE Latest = 0
    <3>1. OpenRows = {}
      BY <2>1, NothingOpen
    <3>2. r.next = 1
      BY <1>2, <3>1 DEF Txn
    <3> QED
      BY <2>1, <3>1, <3>2
  <2>2. CASE Latest # 0
    <3>1. PICK u \in memo_versions : OpenRows = {u} /\ u.version = Latest
      BY <2>2, LastOpen
    <3>2. r.next = Latest + 1
      BY <1>2, <3>1 DEF Txn
    <3> QED
      BY <1>2, <3>1, <3>2
  <2> QED
    BY <2>1, <2>2
<1>4. writer[w].closed = {}
  BY DEF ReadOpen, IInv, Computed
<1>5. r.next \in Nat
  BY <1>2, <1>3
<1>6. r \in Txn /\ r.began = writer[w].began /\ r.closed = {}
      /\ r.step = IF OpenRows = {} THEN "insert" ELSE "close"
  BY <1>2, <1>4, <1>5 DEF Txn
<1>7. now' \in now .. MaxTime /\ r.began <= now'
  BY <1>1, <1>2, <1>6
<1> HIDE DEF r
<1> QED
  BY <1>1, <1>3, <1>6, <1>7, WriterStep

LEMMA CloseStep == ASSUME IInv, NEW w \in Writers, CloseOpen(w) PROVE IInv'
<1> DEFINE r == [writer[w] EXCEPT !.step = "insert", !.closed = OpenRows]
<1>1. writer' = [writer EXCEPT ![w] = r] /\ UNCHANGED <<memo_versions, now>>
  BY DEF CloseOpen
<1>2. writer[w] \in Txn /\ writer[w].began <= now /\ now \in 0 .. MaxTime /\ OpenRows \subseteq Version
  BY DEF IInv, TypeOK, OpenRows
<1>3. writer[w].next \in 1 .. Latest + 1
  BY DEF CloseOpen, IInv, Computed
<1>4. r \in Txn /\ r.began = writer[w].began /\ r.next = writer[w].next
      /\ r.step = "insert" /\ r.closed = OpenRows
  BY <1>2 DEF Txn
<1>5. now' \in now .. MaxTime /\ r.began <= now'
  BY <1>1, <1>2, <1>4
<1> HIDE DEF r
<1> QED
  BY <1>1, <1>3, <1>4, <1>5, WriterStep

LEMMA WaitStep == ASSUME IInv, NEW w \in Writers, CloseWaits(w) PROVE IInv'
<1> DEFINE r == [writer[w] EXCEPT !.step = "wait", !.found = {v.version : v \in OpenRows}]
<1>1. writer' = [writer EXCEPT ![w] = r] /\ UNCHANGED <<memo_versions, now>>
  BY DEF CloseWaits
<1>2. writer[w] \in Txn /\ writer[w].began <= now /\ now \in 0 .. MaxTime
  BY DEF IInv, TypeOK
<1>3. {v.version : v \in OpenRows} \subseteq Nat
  BY DEF IInv, TypeOK, OpenRows, Version
<1>4. writer[w].next \in 1 .. Latest + 1 /\ writer[w].closed = {}
  BY DEF CloseWaits, IInv, Computed
<1>5. r \in Txn /\ r.began = writer[w].began /\ r.next = writer[w].next
      /\ r.step = "wait" /\ r.closed = {} /\ r.found = {v.version : v \in OpenRows}
  BY <1>2, <1>3, <1>4 DEF Txn
<1>6. now' \in now .. MaxTime /\ r.began <= now'
  BY <1>1, <1>2, <1>5
<1> HIDE DEF r
<1> QED
  BY <1>1, <1>4, <1>5, <1>6, WriterStep

LEMMA ResumeStep == ASSUME IInv, NEW w \in Writers, Resume(w) PROVE IInv'
<1> DEFINE still == {v \in OpenRows : v.version \in writer[w].found}
           r == [writer[w] EXCEPT !.step = "insert", !.closed = still]
<1>1. writer' = [writer EXCEPT ![w] = r] /\ UNCHANGED <<memo_versions, now>>
  BY DEF Resume
<1>2. writer[w] \in Txn /\ writer[w].began <= now /\ now \in 0 .. MaxTime /\ still \subseteq Version
  BY DEF IInv, TypeOK, OpenRows
<1>3. writer[w].next \in 1 .. Latest + 1
      /\ (writer[w].next = Latest + 1 => writer[w].found = {v.version : v \in OpenRows})
  BY DEF Resume, IInv, Computed
<1>4. writer[w].next = Latest + 1 => still = OpenRows
  BY <1>3
<1>5. r \in Txn /\ r.began = writer[w].began /\ r.next = writer[w].next
      /\ r.step = "insert" /\ r.closed = still
  BY <1>2 DEF Txn
<1>6. now' \in now .. MaxTime /\ r.began <= now'
  BY <1>1, <1>2, <1>5
<1> HIDE DEF r, still
<1> QED
  BY <1>1, <1>3, <1>4, <1>5, <1>6, WriterStep

\* A transaction that ends leaves nothing behind.
LEMMA Ended ==
    ASSUME IInv, NEW w \in Writers, writer' = [writer EXCEPT ![w] = NoTxn],
           UNCHANGED <<memo_versions, now>>
    PROVE  IInv'
<1>1. NoTxn \in Txn /\ NoTxn.began = 0 /\ NoTxn.step = "idle" /\ NoTxn.closed = {}
  BY DEF NoTxn, Txn
<1>2. now' \in now .. MaxTime /\ NoTxn.began <= now'
  BY <1>1, VersionAssumption DEF IInv, TypeOK
<1> QED
  BY <1>1, <1>2, WriterStep

LEMMA AbortStep == ASSUME IInv, NEW w \in Writers, AbortVersion(w) PROVE IInv'
  BY Ended DEF AbortVersion

\* The key lets a writer pass that is one past the last version, alone.
LEMMA InsertStep == ASSUME IInv, NEW w \in Writers, InsertVersion(w) PROVE IInv'
<1>1. CASE ~KeyFree(writer[w].next)
  <2>1. writer' = [writer EXCEPT ![w] = NoTxn]
    BY <1>1 DEF InsertVersion
  <2> QED
    BY <2>1, Ended DEF InsertVersion
<1>2. CASE KeyFree(writer[w].next)
  <2> DEFINE r == [writer[w] EXCEPT !.step = "commit"]
  <2>1. writer' = [writer EXCEPT ![w] = r] /\ UNCHANGED <<memo_versions, now>>
    BY <1>2 DEF InsertVersion
  <2>2. writer[w] \in Txn /\ writer[w].began <= now /\ now \in 0 .. MaxTime /\ Latest \in Nat
    BY LatestNat DEF IInv, TypeOK
  <2>3. writer[w].next \in 1 .. Latest + 1
        /\ (writer[w].next = Latest + 1 => writer[w].closed = OpenRows)
    BY DEF InsertVersion, IInv, Computed
  <2>4. writer[w].next = Latest + 1
    <3>1. writer[w].next \notin 1 .. Latest
      BY <1>2 DEF KeyFree, IInv, Numbered, VersionsContiguous, Latest
    <3> QED
      BY <2>2, <2>3, <3>1
  <2>5. \A v \in Writers \ {w} : writer[v].step # "commit"
    <3>1. \A v \in Writers : writer[v].step = "commit" => writer[v].next = Latest + 1
      BY DEF IInv, Computed
    <3> QED
      BY <2>4, <3>1 DEF InsertVersion, KeySettled
  <2>6. r \in Txn /\ r.began = writer[w].began /\ r.next = writer[w].next
        /\ r.step = "commit" /\ r.closed = writer[w].closed
    BY <2>2 DEF Txn
  <2>7. now' \in now .. MaxTime /\ r.began <= now'
    BY <2>1, <2>2, <2>6
  <2> HIDE DEF r
  <2> QED
    BY <2>1, <2>3, <2>4, <2>5, <2>6, <2>7, WriterStep
<1> QED
  BY <1>1, <1>2

-----------------------------------------------------------------------------
(* A commit changes the table *)

\* The rows there were, once those that were open have ended.
Past(time) ==
    (memo_versions \ OpenRows) \cup {[v EXCEPT !.valid_to = time] : v \in OpenRows}

\* Ending what is open keeps the numbers, and leaves nothing open.
LEMMA PastNumbered ==
    ASSUME IInv, NEW time \in Nat, time # Open
    PROVE  /\ Past(time) \subseteq Version /\ IsFiniteSet(Past(time))
           /\ Cardinality(Past(time)) = Latest
           /\ {v.version : v \in Past(time)} = 1 .. Latest
           /\ \A u, v \in Past(time) : u.version = v.version => u = v
           /\ \A v \in Past(time) : v.valid_to # Open
<1>1. CASE Latest = 0
  <2>1. Past(time) = {}
    BY <1>1, NothingOpen DEF Past
  <2>2. memo_versions = {}
    BY <1>1, NothingOpen
  <2> QED
    BY <1>1, <2>1, <2>2 DEF IInv, TypeOK, Latest
<1>2. CASE Latest # 0
  <2>1. PICK u \in memo_versions : OpenRows = {u} /\ u.version = Latest
    BY <1>2, LastOpen
  <2> DEFINE c == [u EXCEPT !.valid_to = time]
             rest == memo_versions \ {u}
  <2>2. u \in Version /\ IsFiniteSet(memo_versions) /\ Latest \in Nat
    BY LatestNat DEF IInv, TypeOK
  <2>3. c \in Version /\ c.version = Latest /\ c.valid_to = time
    BY <2>1, <2>2 DEF Version
  <2>4. Past(time) = rest \cup {c}
    BY <2>1 DEF Past
  <2>5. \A v \in rest : v \in Version /\ v.version # Latest /\ v.valid_to # Open
    BY <2>1 DEF IInv, TypeOK, Numbered, OpenRows
  <2>6. IsFiniteSet(rest) /\ Cardinality(rest) = Latest - 1
    BY <2>2, FS_RemoveElement DEF Latest
  <2> HIDE DEF c
  <2>7. c \notin rest
    BY <2>3, <2>5
  <2>8. IsFiniteSet(Past(time)) /\ Cardinality(Past(time)) = Latest
    <3> HIDE DEF rest
    <3>1. IsFiniteSet(rest \cup {c}) /\ Cardinality(rest \cup {c}) = Cardinality(rest) + 1
      BY <2>6, <2>7, FS_AddElement
    <3> QED
      BY <2>2, <2>4, <2>6, <3>1
  <2>9. {v.version : v \in Past(time)} = {v.version : v \in memo_versions}
    BY <2>1, <2>3, <2>4
  <2>10. \A a, b \in Past(time) : a.version = b.version => a = b
    BY <2>3, <2>4, <2>5 DEF IInv, Numbered
  <2>11. Past(time) \subseteq Version /\ \A v \in Past(time) : v.valid_to # Open
    BY <2>3, <2>4, <2>5
  <2> QED
    BY <2>8, <2>9, <2>10, <2>11 DEF IInv, Numbered, VersionsContiguous, Latest
<1> QED
  BY <1>1, <1>2

LEMMA CommitStep == ASSUME IInv, NEW w \in Writers, CommitVersion(w) PROVE IInv'
<1> DEFINE began == writer[w].began
           new == [version |-> Latest + 1, valid_from |-> began, valid_to |-> Open]
<1>1. writer[w].step = "commit" /\ writer[w].next = Latest + 1 /\ writer[w].closed = OpenRows
  BY DEF CommitVersion, IInv, Computed
<1>2. memo_versions' = Past(began) \cup {new}
      /\ writer' = [writer EXCEPT ![w] = NoTxn] /\ now' = now
  BY <1>1 DEF CommitVersion, Past
<1>3. began \in Nat /\ began # Open /\ Latest \in Nat /\ Open \in Nat
  BY LatestNat, VersionAssumption DEF IInv, TypeOK, Txn, Open
<1>4. new \in Version /\ new.version = Latest + 1 /\ new.valid_to = Open
  BY <1>3 DEF Version
<1> HIDE DEF began, new
<1>5. /\ Past(began) \subseteq Version /\ IsFiniteSet(Past(began))
      /\ Cardinality(Past(began)) = Latest
      /\ {v.version : v \in Past(began)} = 1 .. Latest
      /\ \A u, v \in Past(began) : u.version = v.version => u = v
      /\ \A v \in Past(began) : v.valid_to # Open
  BY <1>3, PastNumbered
<1>6. \A v \in Past(began) : v.version \in 1 .. Latest
  BY <1>5
<1>7. new \notin Past(began)
  BY <1>4, <1>5
<1>8. memo_versions' \subseteq Version /\ IsFiniteSet(memo_versions') /\ Latest' = Latest + 1
  BY <1>2, <1>3, <1>4, <1>5, <1>7, FS_AddElement DEF Latest
<1>9. NoTxn \in Txn /\ NoTxn.began = 0 /\ NoTxn.step = "idle" /\ NoTxn.closed = {}
  BY DEF NoTxn, Txn
<1>10. writer'[w] = NoTxn /\ (\A v \in Writers \ {w} : writer'[v] = writer[v])
       /\ writer' \in [Writers -> Txn]
  BY <1>2, <1>9 DEF IInv, TypeOK
<1>11. TypeOK'
  BY <1>2, <1>8, <1>9, <1>10 DEF IInv, TypeOK
<1>12. Numbered'
  <2>1. {v.version : v \in memo_versions'} = 1 .. Latest + 1
    <3>1. {v.version : v \in memo_versions'} = {v.version : v \in Past(began)} \cup {new.version}
      BY <1>2
    <3> QED
      BY <1>3, <1>4, <1>5, <3>1
  <2>2. \A v \in memo_versions' : v.valid_to = Open <=> v.version = Latest + 1
    BY <1>2, <1>3, <1>4, <1>5, <1>6
  <2>3. \A u, v \in memo_versions' : u.version = v.version => u = v
    BY <1>2, <1>3, <1>4, <1>5, <1>6
  <2> QED
    BY <1>8, <2>1, <2>2, <2>3 DEF Numbered, VersionsContiguous, Latest, Open
\* The others have a number that is taken now, and cannot reach their commit.
<1>13. Computed'
  <2> SUFFICES ASSUME NEW v \in Writers
               PROVE LET q == writer'[v]
                     IN  /\ q.step \in {"close", "wait", "insert", "commit"} =>
                              q.next \in 1 .. Latest + 1 /\ q.step # "commit"
                         /\ q.step \notin {"insert", "commit"} => q.closed = {}
    BY <1>3, <1>8 DEF Computed
  <2>1. CASE v = w
    BY <1>9, <1>10, <2>1
  <2>2. CASE v # w
    <3>1. writer'[v] = writer[v] /\ writer[v].step # "commit"
      BY <1>1, <1>10, <2>2 DEF IInv, OneCommits
    <3> QED
      BY <3>1 DEF IInv, Computed
  <2> QED
    BY <2>1, <2>2
<1>14. OneCommits'
  BY <1>1, <1>9, <1>10 DEF IInv, OneCommits
<1> QED
  BY <1>11, <1>12, <1>13, <1>14 DEF IInv

-----------------------------------------------------------------------------
(* The theorem *)

LEMMA StepInvariant == IInv /\ [VersionNext]_versionVars => IInv'
<1> SUFFICES ASSUME IInv, [VersionNext]_versionVars PROVE IInv'
  OBVIOUS
<1>1. CASE UNCHANGED versionVars
  BY <1>1 DEF versionVars, IInv, TypeOK, Numbered, VersionsContiguous, Computed, OneCommits,
              Latest, OpenRows
<1>2. ASSUME NEW w \in Writers, BeginVersion(w) PROVE IInv'
  BY <1>2, BeginStep
<1>3. ASSUME NEW w \in Writers, ReadOpen(w) PROVE IInv'
  BY <1>3, ReadStep
<1>4. ASSUME NEW w \in Writers, CloseOpen(w) PROVE IInv'
  BY <1>4, CloseStep
<1>5. ASSUME NEW w \in Writers, CloseWaits(w) PROVE IInv'
  BY <1>5, WaitStep
<1>6. ASSUME NEW w \in Writers, Resume(w) PROVE IInv'
  BY <1>6, ResumeStep
<1>7. ASSUME NEW w \in Writers, InsertVersion(w) PROVE IInv'
  BY <1>7, InsertStep
<1>8. ASSUME NEW w \in Writers, CommitVersion(w) PROVE IInv'
  BY <1>8, CommitStep
<1>9. ASSUME NEW w \in Writers, AbortVersion(w) PROVE IInv'
  BY <1>9, AbortStep
<1> QED
  BY <1>1, <1>2, <1>3, <1>4, <1>5, <1>6, <1>7, <1>8, <1>9 DEF VersionNext

\* record_memo_version: whatever writers run beside each other, and whichever
\* of them are rolled back or refused by the key, the versions of a memory are
\* numbered without a gap or a double, and only the last one is open.
THEOREM VersionsAreContiguous == VersionSpec => []VersionsContiguous
<1>1. IInv => VersionsContiguous
  BY DEF IInv, Numbered
<1> QED
  BY InitInvariant, StepInvariant, <1>1, PTL DEF VersionSpec

-----------------------------------------------------------------------------
(* The past *)

\* The versions valid at a time.
ValidAt(t) == {v \in memo_versions : v.valid_from <= t /\ v.valid_to > t}

\* get_memo_at depends on their numbers only.
LEMMA AnswerFromNumbers ==
    ASSUME NEW t \in Nat,
           {v.version : v \in ValidAt(t)'} = {v.version : v \in ValidAt(t)}
    PROVE  get_memo_at(t)' = get_memo_at(t)
<1>1. get_memo_at(t) = IF ValidAt(t) = {} THEN 0 ELSE Max({v.version : v \in ValidAt(t)})
  BY DEF get_memo_at, ValidAt
<1>2. get_memo_at(t)' = IF ValidAt(t)' = {} THEN 0 ELSE Max({v.version : v \in ValidAt(t)'})
  BY DEF get_memo_at, ValidAt
<1>3. ValidAt(t)' = {} <=> ValidAt(t) = {}
  <2> HIDE DEF ValidAt
  <2> QED
    OBVIOUS
<1> HIDE DEF get_memo_at, ValidAt
<1> QED
  BY <1>1, <1>2, <1>3

\* Rows that are closed, and the one that is added, change no answer for a time
\* before the writer's transaction began.
LEMMA CommitKeepsPast ==
    ASSUME IInv, NEW w \in Writers, CommitVersion(w), NEW t \in 1 .. now, writer[w].began > t
    PROVE  get_memo_at(t)' = get_memo_at(t)
<1> DEFINE began == writer[w].began
           new == [version |-> writer[w].next, valid_from |-> began, valid_to |-> Open]
<1>1. writer[w].closed = OpenRows
  BY DEF CommitVersion, IInv, Computed
<1>2. memo_versions' = Past(began) \cup {new}
  BY <1>1 DEF CommitVersion, Past
<1>3. began \in Nat /\ now \in Nat /\ t \in Nat /\ t < Open /\ Open \in Nat /\ began > t
  BY VersionAssumption DEF IInv, TypeOK, Txn, Open
<1>4. new.valid_from = began
  OBVIOUS
<1>5. \A v \in memo_versions : v \in Version
  BY DEF IInv, TypeOK
<1>6. ASSUME NEW v \in OpenRows
      PROVE  LET c == [v EXCEPT !.valid_to = began]
             IN  c.version = v.version /\ c.valid_from = v.valid_from /\ c.valid_to = began
                 /\ v.valid_to = Open
  BY <1>5 DEF OpenRows, Version
<1> HIDE DEF began, new
<1>7. ASSUME NEW v \in ValidAt(t) PROVE \E u \in ValidAt(t)' : u.version = v.version
  <2>1. CASE v \in OpenRows
    BY <1>2, <1>3, <1>6, <2>1 DEF ValidAt, Past
  <2>2. CASE v \notin OpenRows
    BY <1>2, <2>2 DEF ValidAt, Past
  <2> QED
    BY <2>1, <2>2
<1>8. ASSUME NEW u \in ValidAt(t)' PROVE \E v \in ValidAt(t) : v.version = u.version
  <2>1. u \in memo_versions' /\ u.valid_from <= t /\ u.valid_to > t
    BY DEF ValidAt
  <2>2. u # new
    BY <1>3, <1>4, <2>1
  <2>3. CASE u \in memo_versions \ OpenRows
    BY <2>1, <2>3 DEF ValidAt
  <2>4. CASE u \in {[v EXCEPT !.valid_to = began] : v \in OpenRows}
    <3>1. PICK v \in OpenRows : u = [v EXCEPT !.valid_to = began]
      BY <2>4
    <3>2. u.version = v.version /\ u.valid_from = v.valid_from /\ v.valid_to = Open
      BY <1>6, <3>1
    <3>3. v \in ValidAt(t)
      BY <1>3, <2>1, <3>2 DEF ValidAt, OpenRows
    <3> QED
      BY <3>2, <3>3
  <2> QED
    BY <1>2, <2>1, <2>2, <2>3, <2>4 DEF Past
<1>9. {v.version : v \in ValidAt(t)'} = {v.version : v \in ValidAt(t)}
  <2> HIDE DEF ValidAt
  <2> QED
    BY <1>7, <1>8
<1> QED
  BY <1>3, <1>9, AnswerFromNumbers

\* get_memo_at: an answer about a time before every transaction that is still
\* under way began is final.
THEOREM ThePastIsSettled == VersionSpec => PastIsSettled
<1> DEFINE Settled ==
        \A t \in 1 .. now :
            (\A w \in Writers : writer[w].step # "idle" => writer[w].began > t) =>
                get_memo_at(t)' = get_memo_at(t)
<1>1. ASSUME IInv, [VersionNext]_versionVars PROVE [Settled]_versionVars
  <2> SUFFICES ASSUME NEW t \in 1 .. now,
                      \A w \in Writers : writer[w].step # "idle" => writer[w].began > t
               PROVE  get_memo_at(t)' = get_memo_at(t)
    OBVIOUS
  <2>1. ASSUME NEW w \in Writers, CommitVersion(w) PROVE get_memo_at(t)' = get_memo_at(t)
    <3>1. writer[w].began > t
      BY <2>1 DEF CommitVersion
    <3> QED
      BY <1>1, <2>1, <3>1, CommitKeepsPast
  <2>2. CASE UNCHANGED memo_versions
    BY <2>2 DEF get_memo_at
  <2> QED
    BY <1>1, <2>1, <2>2 DEF VersionNext, versionVars, BeginVersion, ReadOpen, CloseOpen, CloseWaits,
                            Resume, InsertVersion, AbortVersion
<1> QED
  BY InitInvariant, StepInvariant, <1>1, PTL DEF VersionSpec, PastIsSettled
================================================================================
