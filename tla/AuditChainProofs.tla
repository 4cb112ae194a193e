-------------------------- MODULE AuditChainProofs --------------------------
(***************************************************************************)
(* Proofs about AuditChain, for any tenants, sessions, batch sizes, loop   *)
(* caps and bounds.  The argument: ids name queue rows; a drainer that has *)
(* chained rows holds its tenant's lock, so no other drainer chains or     *)
(* deletes rows of that tenant; what it has chained is what it will        *)
(* delete.  Commit therefore moves rows from one table to the other.  On   *)
(* that invariant rest three more: what a flush started with, the order of *)
(* a request's events, and the chain of hashes of one tenant.              *)
(***************************************************************************)
EXTENDS AuditChain, TLAPS, WellFoundedInduction, FiniteSetTheorems

-----------------------------------------------------------------------------
(* The inductive invariant *)

\* A flush that has not ended is below the iteration cap.
LoopCap ==
    \A d \in Drainers :
        /\ pc[d] = "idle" => iter[d] = 0
        /\ pc[d] \notin {"idle", "done"} => iter[d] < MaxIterations

\* Queue ids are handed out once.
FreshIds ==
    /\ \A p \in pending : p.id < nextPid
    /\ \A w \in Writers : \A p \in wrows[w] : p.id < nextPid
    /\ \A r \in log : r.src < nextPid

\* An id names one row, in one place.
IdsNameRows ==
    /\ \A p, q \in pending : p.id = q.id => p = q
    /\ \A w \in Writers : \A p, q \in wrows[w] : p.id = q.id => p = q
    /\ \A v, w \in Writers : v # w => \A p \in wrows[v], q \in wrows[w] : p.id # q.id
    /\ \A w \in Writers : \A p \in wrows[w], q \in pending : p.id # q.id
    /\ \A w \in Writers : \A p \in wrows[w], r \in log : p.id # r.src

\* No key is held by two drain transactions.
LocksExclusive == \A d, e \in Drainers : d # e => holds[d] \cap holds[e] = {}

\* A drainer past the lock, or with rows inserted, holds its tenant's key.
HoldsKey(d) == advisory_lock_key(dorg[d]) \in holds[d]

LockHeld(d) ==
    pc[d] \in {"select", "latest", "chain"} \/ mine[d] # {} \/ batch[d] # {} => HoldsKey(d)

\* Rows selected are queued rows of the tenant that are not chained yet.
BatchQueued(d) ==
    \A p \in batch[d] :
        p \in pending /\ p.org = dorg[d] /\ p.id \notin gone[d] \cup drained[d]

\* Rows inserted are those of queued rows of the tenant, one each.
MineQueued(d) ==
    /\ \A r \in mine[d] : r.org = dorg[d] /\ \E p \in pending : p.id = r.src /\ p.org = r.org
    /\ \A r, q \in mine[d] : r.src = q.src => r = q
    /\ gone[d] \cup drained[d] = {r.src : r \in mine[d]}

\* Locals that are empty where the code has not set them.
LocalsEmpty(d) ==
    /\ pc[d] = "idle" => mine[d] = {} /\ gone[d] = {} /\ holds[d] = {}
    /\ pc[d] # "chain" => drained[d] = {}
    /\ pc[d] \notin {"latest", "chain"} => batch[d] = {}

DrainInv ==
    \A d \in Drainers : LockHeld(d) /\ BatchQueued(d) /\ MineQueued(d) /\ LocalsEmpty(d)

\* Log ids are handed out once, and a drainer's are above its tenant's.
LogOrder ==
    /\ \A r \in log : r.id < nextLid
    /\ \A d \in Drainers :
          /\ \A r \in mine[d] : r.id < nextLid
          /\ \A r, q \in mine[d] : r.id = q.id => r = q
          /\ \A r \in mine[d], q \in log : r.org = q.org => q.id < r.id

TInv == TypeOK /\ LoopCap

IInv == TInv /\ FreshIds /\ IdsNameRows /\ LocksExclusive /\ DrainInv /\ LogOrder /\ ExactlyOnce

-----------------------------------------------------------------------------
(* Lemmas about the operators *)

\* advisory_lock_key lands in the signed range pg_try_advisory_xact_lock takes,
\* and two tenants share a key only when they share their UUID's prefix.
THEOREM LockKeyRange ==
    /\ \A o \in Orgs : advisory_lock_key(o) \in -HalfRange .. HalfRange - 1
    /\ \A o, u \in Orgs : advisory_lock_key(o) = advisory_lock_key(u)
                            <=> UuidPrefix[o] = UuidPrefix[u]
BY OrgsAssumption, NumbersAssumption DEF advisory_lock_key

\* A nonempty set of naturals has a least element.
LEMMA NatSetHasMin ==
    ASSUME NEW S \in SUBSET Nat, S # {}
    PROVE  \E x \in S : \A y \in S : x <= y
<1>. DEFINE Less == OpToRel(<, Nat)
<1>1. IsWellFoundedOn(Less, Nat)
  BY NatLessThanWellFounded
<1>2. ASSUME NEW x \in S, NEW y \in S, y < x
      PROVE  <<y, x>> \in Less
  BY <1>2 DEF OpToRel
<1>. HIDE DEF Less
<1>3. PICK x \in S : \A y \in S : ~ (<<y, x>> \in Less)
  BY <1>1, WFMin
<1>4. ASSUME NEW y \in S PROVE x <= y
  <2>1. ~(y < x) BY <1>2, <1>3
  <2>2. x \in Nat /\ y \in Nat OBVIOUS
  <2>. QED BY <2>1, <2>2
<1>. QED BY <1>4

\* HeadRow picks a row of the set, and none has a smaller id.
LEMMA HeadRowInSet ==
    ASSUME NEW rows \in SUBSET PendingRows, rows # {}
    PROVE  HeadRow(rows) \in rows /\ \A q \in rows : HeadRow(rows).id <= q.id
<1>. DEFINE ids == {p.id : p \in rows}
<1>1. ids \in SUBSET Nat /\ ids # {} BY DEF PendingRows
<1>. HIDE DEF ids
<1>2. PICK x \in ids : \A y \in ids : x <= y BY <1>1, NatSetHasMin
<1>. USE DEF ids
<1>3. PICK p \in rows : p.id = x OBVIOUS
<1>4. \A q \in rows : p.id <= q.id BY <1>2, <1>3
<1>. QED BY <1>4 DEF HeadRow

\* The row the next enqueue inserts is well typed.
LEMMA PendingRowType ==
    ASSUME TypeOK, NEW w \in Writers
    PROVE  /\ PendingRow(w) \in PendingRows
           /\ PendingRow(w).id = nextPid /\ PendingRow(w).org = worg[w]
<1>1. wrows[w] # {} => HeadRow(wrows[w]) \in PendingRows
  BY HeadRowInSet DEF TypeOK
<1>2. (IF wrows[w] = {} THEN nextPid ELSE HeadRow(wrows[w]).first) \in Nat
  BY <1>1 DEF TypeOK, PendingRows
<1>. QED BY <1>2 DEF TypeOK, PendingRows, PendingRow

LEMMA AnyOrgIsOrg == AnyOrg \in Orgs
BY OrgsAssumption DEF AnyOrg

LEMMA KeyIsInt == \A o \in Orgs : advisory_lock_key(o) \in Int
BY OrgsAssumption, NumbersAssumption DEF advisory_lock_key

\* A row chained from a queued row.
LEMMA LogRowType ==
    ASSUME NEW n \in Nat, NEW p \in PendingRows, NEW h
    PROVE  /\ IsLogRow(LogRow(n, p, h))
           /\ LogRow(n, p, h).src = p.id /\ LogRow(n, p, h).org = p.org
           /\ LogRow(n, p, h).id = n
BY DEF IsLogRow, LogRow, PendingRows

-----------------------------------------------------------------------------
(* Types *)

LEMMA InitTypeOK == Init => TypeOK
BY AnyOrgIsOrg, NumbersAssumption
   DEF Init, TypeOK, Statements, PendingRows, IsLogRow, NoHash

LEMMA RequestTypeOK ==
    ASSUME TypeOK, NEW w \in Writers, RequestStep(w)
    PROVE  TypeOK'
<1>1. ASSUME NEW o \in Orgs, BeginRequest(w, o) PROVE TypeOK'
  BY <1>1 DEF TypeOK, BeginRequest, tableVars, drainerVars, wakeVars
<1>2. CASE enqueue_audit_entry(w)
  <2>1. wrows' \in [Writers -> SUBSET PendingRows]
    BY <1>2, PendingRowType DEF TypeOK, enqueue_audit_entry
  <2>. QED BY <1>2, <2>1 DEF TypeOK, enqueue_audit_entry, tableVars, drainerVars, wakeVars
<1>3. CASE CommitRequest(w)
  <2>1. /\ pending' \subseteq PendingRows
        /\ acked' \subseteq Orgs \X Nat
        /\ tasks' \subseteq Orgs
    BY <1>3 DEF TypeOK, CommitRequest, notify_audit_pending, PendingRows
  <2>. QED BY <1>3, <2>1, AnyOrgIsOrg DEF TypeOK, CommitRequest, EndRequest, drainerVars
<1>4. CASE AbortRequest(w)
  BY <1>4, AnyOrgIsOrg DEF TypeOK, AbortRequest, EndRequest, tableVars, drainerVars, wakeVars
<1>. QED BY <1>1, <1>2, <1>3, <1>4 DEF RequestStep

LEMMA EndFlushTypeOK ==
    ASSUME TypeOK, NEW d \in Drainers, EndFlush(d),
           pending' \subseteq pending, log' \subseteq log \cup mine[d], acked' = acked,
           tasks' = tasks, faults' \in 0 .. MaxFaults,
           UNCHANGED <<clock, nextPid, nextLid, writerVars>>
    PROVE  TypeOK'
<1>1. UNCHANGED <<wopen, worg, wbegan, wrows>> BY DEF writerVars
<1>2. /\ \A r \in log' : IsLogRow(r)
      /\ \A e \in Drainers : \A r \in mine'[e] : IsLogRow(r)
  BY DEF TypeOK, EndFlush
<1>3. 0 \in 0 .. MaxIterations BY NumbersAssumption
<1>. QED BY <1>1, <1>2, <1>3, AnyOrgIsOrg DEF TypeOK, EndFlush, Statements

LEMMA FlushTypeOK ==
    ASSUME TInv, NEW d \in Drainers, FlushStep(d)
    PROVE  TypeOK'
<1>. USE DEF TInv
<1>1. ASSUME NEW o \in Orgs, BeginFlush(d, o) PROVE TypeOK'
  <2>1. {p.id : p \in {q \in pending : q.org = o}} \subseteq Nat BY DEF TypeOK, PendingRows
  <2>. QED BY <1>1, <2>1 DEF TypeOK, BeginFlush, tableVars, writerVars, Statements
<1>2. CASE TryLock(d)
  <2>. DEFINE k == advisory_lock_key(dorg[d])
  <2>1. k \in Int BY KeyIsInt DEF TypeOK
  <2>2. /\ \/ holds' = [holds EXCEPT ![d] = @ \cup {k}] /\ pc' = [pc EXCEPT ![d] = "select"]
           \/ holds' = holds /\ pc' = [pc EXCEPT ![d] = "done"]
        /\ UNCHANGED <<clock, nextPid, nextLid, tableVars, writerVars, dorg, batch,
                   drained, prevHash, mine, gone, iter, atStart, wakeVars>>
    BY <1>2 DEF TryLock
  <2>. HIDE DEF k
  <2>. QED BY <2>1, <2>2 DEF TypeOK, tableVars, writerVars, wakeVars, Statements
<1>3. CASE SelectPending(d)
  <2>1. FirstById(Visible(d), BatchSize) \subseteq PendingRows
    BY DEF FirstById, Visible, TypeOK
  <2>. QED BY <1>3, <2>1 DEF TypeOK, SelectPending, tableVars, writerVars, wakeVars, Statements
<1>4. CASE ReadLatest(d)
  BY <1>4 DEF TypeOK, ReadLatest, ReadLatestFrom, tableVars, writerVars, wakeVars, Statements
<1>5. CASE ChainRow(d)
  <2>. DEFINE p   == HeadRow(batch[d])
              row == LogRow(nextLid, p, prevHash[d])
  <2>1. p \in batch[d] /\ p \in PendingRows
    BY <1>5, HeadRowInSet DEF TypeOK, ChainRow
  <2>2. IsLogRow(row) BY <2>1, LogRowType DEF TypeOK
  <2>3. /\ mine' = [mine EXCEPT ![d] = @ \cup {row}]
        /\ prevHash' = [prevHash EXCEPT ![d] = row.row_hash]
        /\ drained' = [drained EXCEPT ![d] = @ \cup {p.id}]
        /\ batch' = [batch EXCEPT ![d] = @ \ {p}]
        /\ nextLid' = nextLid + 1
    BY <1>5 DEF ChainRow
  <2>4. p.id \in Nat BY <2>1 DEF PendingRows
  <2>. HIDE DEF p, row
  <2>. QED BY <1>5, <2>2, <2>3, <2>4 DEF TypeOK, ChainRow, tableVars, writerVars, wakeVars
<1>6. CASE DeleteDrained(d)
  <2>1. iter[d] + 1 \in 0 .. MaxIterations
    BY <1>6, NumbersAssumption DEF TypeOK, LoopCap, DeleteDrained, DeleteDrainedThen
  <2>. QED BY <1>6, <2>1 DEF TypeOK, DeleteDrained, DeleteDrainedThen, tableVars, writerVars,
              wakeVars, Statements
<1>7. CASE CommitFlush(d)
  BY <1>7, EndFlushTypeOK DEF CommitFlush, wakeVars, TypeOK
<1>. QED BY <1>1, <1>2, <1>3, <1>4, <1>5, <1>6, <1>7 DEF FlushStep

LEMMA NextTypeOK == TInv /\ [Next]_vars => TypeOK'
<1>. SUFFICES ASSUME TInv, [Next]_vars PROVE TypeOK'
  OBVIOUS
<1>. USE DEF TInv
<1>1. ASSUME NEW d \in Drainers, AbortFlush(d) PROVE TypeOK'
  <2>1. faults' \in 0 .. MaxFaults BY <1>1, NumbersAssumption DEF AbortFlush, TypeOK
  <2>. QED BY <1>1, <2>1, EndFlushTypeOK DEF AbortFlush, tableVars
<1>2. CASE PeriodicPoll
  <2>1. OrgsPending \subseteq Orgs BY DEF OrgsPending, TypeOK, PendingRows
  <2>. QED BY <1>2, <2>1 DEF TypeOK, PeriodicPoll, tableVars, writerVars, drainerVars
<1>3. CASE UNCHANGED vars
  BY <1>3 DEF TypeOK, vars, tableVars, writerVars, drainerVars, wakeVars
<1>. QED BY <1>1, <1>2, <1>3, RequestTypeOK, FlushTypeOK DEF Next

LEMMA NextLoopCap == TInv /\ [Next]_vars => LoopCap'
<1>. SUFFICES ASSUME TInv, [Next]_vars PROVE LoopCap'
  OBVIOUS
<1>. USE DEF TInv
<1>1. ASSUME NEW w \in Writers, RequestStep(w) PROVE UNCHANGED <<pc, iter>>
  BY <1>1 DEF RequestStep, BeginRequest, enqueue_audit_entry, CommitRequest, AbortRequest,
              drainerVars
<1>2. ASSUME NEW d \in Drainers, FlushStep(d) PROVE LoopCap'
  <2>. USE DEF TypeOK, LoopCap
  <2>1. ASSUME NEW o \in Orgs, BeginFlush(d, o) PROVE LoopCap'
    BY <2>1, NumbersAssumption DEF BeginFlush
  <2>2. CASE TryLock(d)
    <3>1. /\ pc' = [pc EXCEPT ![d] = "select"] \/ pc' = [pc EXCEPT ![d] = "done"]
          /\ pc[d] = "lock" /\ iter' = iter
      BY <2>2 DEF TryLock
    <3>. QED BY <3>1
  <2>3. CASE SelectPending(d)
    BY <2>3 DEF SelectPending
  <2>4. CASE ReadLatest(d)
    BY <2>4 DEF ReadLatest, ReadLatestFrom
  <2>5. CASE ChainRow(d)
    <3>1. UNCHANGED <<pc, iter>> BY <2>5 DEF ChainRow
    <3>. QED BY <3>1
  <2>6. CASE DeleteDrained(d)
    BY <2>6, NumbersAssumption DEF DeleteDrained, DeleteDrainedThen
  <2>7. CASE CommitFlush(d)
    BY <2>7 DEF CommitFlush, EndFlush
  <2>. QED BY <1>2, <2>1, <2>2, <2>3, <2>4, <2>5, <2>6, <2>7 DEF FlushStep
<1>3. ASSUME NEW d \in Drainers, AbortFlush(d) PROVE LoopCap'
  BY <1>3 DEF AbortFlush, EndFlush, TypeOK, LoopCap
<1>4. CASE PeriodicPoll
  BY <1>4 DEF PeriodicPoll, drainerVars, LoopCap
<1>5. CASE UNCHANGED vars
  BY <1>5 DEF vars, drainerVars, LoopCap
<1>. QED BY <1>1, <1>2, <1>3, <1>4, <1>5 DEF Next, LoopCap

\* Every reachable state is well typed, and no flush iterates more often than
\* max_iterations allows.
THEOREM TypeCorrect == Spec => []TypeOK
<1>1. Init => TInv
  BY InitTypeOK, NumbersAssumption DEF Init, TInv, LoopCap
<1>2. TInv /\ [Next]_vars => TInv'
  BY NextTypeOK, NextLoopCap DEF TInv
<1>3. TInv => TypeOK
  BY DEF TInv
<1>. QED BY <1>1, <1>2, <1>3, PTL DEF Spec

-----------------------------------------------------------------------------
(* Events are neither lost nor duplicated *)

\* What a request step leaves alone, and what the others do to the writers.
LEMMA RequestFrame ==
    ASSUME NEW w \in Writers, RequestStep(w)
    PROVE  UNCHANGED <<nextLid, log, drainerVars>>
BY DEF RequestStep, BeginRequest, enqueue_audit_entry, CommitRequest, AbortRequest, tableVars

\* The queue only loses rows to a committing drainer; a request only adds rows.
LEMMA RequestInv ==
    ASSUME IInv, TypeOK', LoopCap', NEW w \in Writers, RequestStep(w)
    PROVE  IInv'
<1>. USE DEF IInv, TInv
<1>1. UNCHANGED <<nextLid, log, drainerVars>> BY RequestFrame
<1>2. UNCHANGED <<pc, dorg, holds, batch, drained, mine, gone>>
  BY <1>1 DEF drainerVars
<1>3. pending \subseteq pending'
  BY DEF RequestStep, BeginRequest, enqueue_audit_entry, CommitRequest, AbortRequest, tableVars
<1>4. LocksExclusive' BY <1>2 DEF LocksExclusive
<1>5. DrainInv'
  BY <1>2, <1>3 DEF DrainInv, LockHeld, HoldsKey, BatchQueued, MineQueued, LocalsEmpty
<1>6. LogOrder' BY <1>1, <1>2 DEF LogOrder
<1>7. FreshIds' /\ IdsNameRows' /\ ExactlyOnce'
  <2>1. ASSUME NEW o \in Orgs, BeginRequest(w, o) PROVE FreshIds' /\ IdsNameRows' /\ ExactlyOnce'
    BY <2>1 DEF BeginRequest, tableVars, FreshIds, IdsNameRows, ExactlyOnce
  <2>2. CASE enqueue_audit_entry(w)
    <3>1. PICK row \in PendingRows :
              /\ row.id = nextPid
              /\ wrows' = [wrows EXCEPT ![w] = @ \cup {row}]
              /\ nextPid' = nextPid + 1
              /\ UNCHANGED <<pending, log, acked>>
      BY <2>2, PendingRowType DEF enqueue_audit_entry, tableVars
    <3>2. nextPid \in Nat /\ wrows \in [Writers -> SUBSET PendingRows] BY DEF TypeOK
    <3>3. /\ \A p \in pending : p.id \in Nat /\ p.id < nextPid
          /\ \A v \in Writers : \A p \in wrows[v] : p.id \in Nat /\ p.id < nextPid
          /\ \A r \in log : r.src \in Nat /\ r.src < nextPid
      BY DEF TypeOK, FreshIds, PendingRows, IsLogRow
    <3>4. FreshIds' BY <3>1, <3>2, <3>3 DEF FreshIds
    <3>5. IdsNameRows' BY <3>1, <3>2, <3>3 DEF IdsNameRows
    <3>6. ExactlyOnce' BY <3>1 DEF ExactlyOnce
    <3>. QED BY <3>4, <3>5, <3>6
  <2>3. CASE CommitRequest(w)
    <3>1. /\ pending' = pending \cup wrows[w]
          /\ acked' = acked \cup {<<p.org, p.id>> : p \in wrows[w]}
          /\ wrows' = [wrows EXCEPT ![w] = {}]
          /\ UNCHANGED <<nextPid, log>>
      BY <2>3 DEF CommitRequest, EndRequest
    <3>2. FreshIds' BY <3>1 DEF FreshIds, TypeOK
    <3>3. IdsNameRows' BY <3>1 DEF IdsNameRows, TypeOK
    <3>4. ExactlyOnce'
      <4>1. {p.id : p \in pending'} \cap {r.src : r \in log} = {}
        BY <3>1 DEF IdsNameRows, ExactlyOnce
      <4>2. {<<p.org, p.id>> : p \in pending'} \cup {<<r.org, r.src>> : r \in log} = acked'
        BY <3>1 DEF ExactlyOnce
      <4>. QED BY <3>1, <4>1, <4>2 DEF ExactlyOnce
    <3>. QED BY <3>2, <3>3, <3>4
  <2>4. CASE AbortRequest(w)
    <3>1. wrows' = [wrows EXCEPT ![w] = {}] /\ UNCHANGED <<nextPid, pending, log, acked>>
      BY <2>4 DEF AbortRequest, EndRequest, tableVars
    <3>2. FreshIds' BY <3>1 DEF FreshIds, TypeOK
    <3>3. IdsNameRows' BY <3>1 DEF IdsNameRows, TypeOK
    <3>4. ExactlyOnce' BY <3>1 DEF ExactlyOnce
    <3>. QED BY <3>2, <3>3, <3>4
  <2>. QED BY <2>1, <2>2, <2>3, <2>4 DEF RequestStep
<1>. QED BY <1>4, <1>5, <1>6, <1>7

\* Steps of a drainer before it commits leave the tables and the requests alone.
LEMMA OwnStepInv ==
    ASSUME IInv, TypeOK', LoopCap', NEW d \in Drainers,
           UNCHANGED <<nextPid, pending, log, acked, wrows>>,
           LocksExclusive', DrainInv', LogOrder'
    PROVE  IInv'
BY DEF IInv, TInv, FreshIds, IdsNameRows, ExactlyOnce

\* The rows of a batch and the rows already chained by other drainers are those
\* of other tenants.
LEMMA DrainersApart ==
    ASSUME IInv, NEW d \in Drainers, NEW e \in Drainers, d # e,
           mine[d] # {}, mine[e] # {} \/ batch[e] # {}
    PROVE  dorg[d] # dorg[e]
<1>1. HoldsKey(d) /\ HoldsKey(e) BY DEF IInv, DrainInv, LockHeld
<1>2. holds[d] \cap holds[e] = {} BY DEF IInv, LocksExclusive
<1>. QED BY <1>1, <1>2 DEF HoldsKey

LEMMA CommitFlushInv ==
    ASSUME IInv, TypeOK', LoopCap', NEW d \in Drainers, CommitFlush(d)
    PROVE  IInv'
<1>. USE DEF IInv, TInv
<1>1. /\ log' = log \cup mine[d]
      /\ pending' = {p \in pending : p.id \notin gone[d]}
      /\ pc' = [pc EXCEPT ![d] = "idle"]
      /\ dorg' = [dorg EXCEPT ![d] = AnyOrg]
      /\ holds' = [holds EXCEPT ![d] = {}]
      /\ batch' = [batch EXCEPT ![d] = {}]
      /\ drained' = [drained EXCEPT ![d] = {}]
      /\ mine' = [mine EXCEPT ![d] = {}]
      /\ gone' = [gone EXCEPT ![d] = {}]
      /\ UNCHANGED <<nextPid, nextLid, acked, wrows>>
  BY DEF CommitFlush, EndFlush, writerVars
<1>2. /\ pc \in [Drainers -> Statements] /\ dorg \in [Drainers -> Orgs]
      /\ holds \in [Drainers -> SUBSET Int] /\ batch \in [Drainers -> SUBSET PendingRows]
      /\ drained \in [Drainers -> SUBSET Nat] /\ gone \in [Drainers -> SUBSET Nat]
      /\ DOMAIN mine = Drainers
  BY DEF TypeOK
\* At the end of the transaction, what was deleted is what was chained.
<1>3. gone[d] = {r.src : r \in mine[d]}
  <2>1. drained[d] = {}
    BY DEF CommitFlush, DrainInv, LocalsEmpty
  <2>. QED BY <2>1 DEF DrainInv, MineQueued
<1>4. \A r \in mine[d] : \E p \in pending : p.id = r.src /\ p.org = r.org
  BY DEF DrainInv, MineQueued
<1>5. FreshIds'
  BY <1>1, <1>4 DEF FreshIds
<1>6. IdsNameRows'
  <2>1. \A w \in Writers : \A p \in wrows[w], r \in mine[d] : p.id # r.src
    BY <1>4 DEF IdsNameRows
  <2>. QED BY <1>1, <2>1 DEF IdsNameRows
<1>7. ExactlyOnce'
  <2>1. {p.id : p \in pending'} \cap {r.src : r \in log'} = {}
    <3>1. \A p \in pending, r \in log : p.id # r.src BY DEF ExactlyOnce
    <3>2. \A p \in pending', r \in mine[d] : p.id # r.src BY <1>1, <1>3
    <3>3. \A p \in pending', r \in log' : p.id # r.src BY <1>1, <3>1, <3>2
    <3>. QED BY <3>3
  <2>2. ASSUME NEW r \in log', NEW q \in log', r.src = q.src PROVE r = q
    <3>1. CASE r \in log /\ q \in log BY <2>2, <3>1 DEF ExactlyOnce
    <3>2. CASE r \in mine[d] /\ q \in mine[d] BY <2>2, <3>2 DEF DrainInv, MineQueued
    <3>3. \A x \in log, y \in mine[d] : x.src # y.src BY <1>4 DEF ExactlyOnce
    <3>. QED BY <1>1, <2>2, <3>1, <3>2, <3>3
  <2>3. {<<p.org, p.id>> : p \in pending'} \cup {<<r.org, r.src>> : r \in log'}
          = {<<p.org, p.id>> : p \in pending} \cup {<<r.org, r.src>> : r \in log}
    <3>1. \A p \in pending : p.id \in gone[d] => \E r \in mine[d] : r.src = p.id /\ r.org = p.org
      BY <1>3, <1>4 DEF IdsNameRows
    <3>. QED BY <1>1, <1>4, <3>1
  <2>. QED BY <1>1, <2>1, <2>2, <2>3 DEF ExactlyOnce
<1>8. LocksExclusive' BY <1>1, <1>2 DEF LocksExclusive
\* Rows another drainer relies on stay in the queue: they are of other tenants.
<1>9. ASSUME NEW e \in Drainers, e # d
      PROVE  /\ \A p \in batch[e] : p \in pending'
             /\ \A r \in mine[e] : \E p \in pending' : p.id = r.src /\ p.org = r.org
  <2>1. ASSUME NEW p \in pending, p.org = dorg[e], mine[e] # {} \/ batch[e] # {}
        PROVE  p \in pending'
    <3>1. SUFFICES ASSUME p.id \in gone[d] PROVE FALSE
      BY <1>1
    <3>2. PICK r \in mine[d] : r.src = p.id BY <1>3, <3>1
    <3>3. r.org = p.org /\ r.org = dorg[d]
      BY <1>4, <3>2 DEF DrainInv, MineQueued, IdsNameRows
    <3>. QED BY <1>9, <2>1, <3>2, <3>3, DrainersApart
  <2>. QED BY <2>1 DEF DrainInv, BatchQueued, MineQueued
<1>10. DrainInv'
  <2>1. ASSUME NEW e \in Drainers PROVE (LockHeld(e) /\ LocalsEmpty(e))'
    BY <1>1, <1>2 DEF DrainInv, LockHeld, HoldsKey, LocalsEmpty, Statements
  <2>2. ASSUME NEW e \in Drainers PROVE (BatchQueued(e) /\ MineQueued(e))'
    <3>1. CASE e = d
      BY <1>1, <1>2, <3>1 DEF BatchQueued, MineQueued
    <3>2. CASE e # d
      <4>1. UNCHANGED <<dorg[e], batch[e], drained[e], mine[e], gone[e]>>
        BY <1>1, <1>2, <3>2
      <4>. QED BY <1>9, <3>2, <4>1 DEF DrainInv, BatchQueued, MineQueued
    <3>. QED BY <3>1, <3>2
  <2>. QED BY <2>1, <2>2 DEF DrainInv
<1>11. LogOrder'
  <2>1. \A r \in log' : r.id < nextLid BY <1>1 DEF LogOrder
  <2>2. ASSUME NEW e \in Drainers, e # d, NEW r \in mine[e], NEW q \in log', r.org = q.org
        PROVE  q.id < r.id
    <3>1. CASE q \in log BY <2>2, <3>1 DEF LogOrder
    <3>2. CASE q \in mine[d]
      BY <2>2, <3>2, DrainersApart DEF DrainInv, MineQueued
    <3>. QED BY <1>1, <3>1, <3>2
  <2>. QED BY <1>1, <1>2, <2>1, <2>2 DEF LogOrder
<1>. QED BY <1>5, <1>6, <1>7, <1>8, <1>10, <1>11

\* One lemma for a drainer's other statements: each leaves the tables alone.
LEMMA StatementInv ==
    ASSUME IInv, TypeOK', LoopCap', NEW d \in Drainers,
           \/ \E o \in Orgs : BeginFlush(d, o)
           \/ TryLock(d) \/ SelectPending(d) \/ ReadLatest(d) \/ ChainRow(d) \/ DeleteDrained(d)
           \/ AbortFlush(d)
    PROVE  IInv'
<1>. USE DEF IInv, TInv
<1>t. /\ pc \in [Drainers -> Statements] /\ dorg \in [Drainers -> Orgs]
      /\ holds \in [Drainers -> SUBSET Int] /\ batch \in [Drainers -> SUBSET PendingRows]
      /\ drained \in [Drainers -> SUBSET Nat] /\ gone \in [Drainers -> SUBSET Nat]
      /\ DOMAIN mine = Drainers
  BY DEF TypeOK
<1>1. ASSUME NEW o \in Orgs, BeginFlush(d, o) PROVE IInv'
  <2>1. /\ pc[d] = "idle" /\ pc' = [pc EXCEPT ![d] = "lock"]
        /\ dorg' = [dorg EXCEPT ![d] = o]
        /\ UNCHANGED <<nextPid, nextLid, pending, log, acked, wrows, holds, batch, drained, mine, gone>>
    BY <1>1 DEF BeginFlush, tableVars, writerVars
  <2>2. mine[d] = {} /\ batch[d] = {} BY <2>1 DEF DrainInv, LocalsEmpty
  <2>3. LocksExclusive' BY <2>1 DEF LocksExclusive
  <2>4. LogOrder' BY <2>1 DEF LogOrder
  <2>5. DrainInv'
    BY <1>t, <2>1, <2>2 DEF DrainInv, LockHeld, HoldsKey, BatchQueued, MineQueued, LocalsEmpty
  <2>. QED BY <2>1, <2>3, <2>4, <2>5, OwnStepInv
<1>2. CASE TryLock(d)
  <2>. DEFINE k == advisory_lock_key(dorg[d])
  <2>1. /\ pc[d] = "lock"
        /\ UNCHANGED <<nextPid, nextLid, pending, log, acked, wrows, dorg, batch, drained, mine, gone>>
    BY <1>2 DEF TryLock, tableVars, writerVars
  <2>2. \/ /\ \A e \in Drainers \ {d} : k \notin holds[e]
           /\ holds' = [holds EXCEPT ![d] = @ \cup {k}] /\ pc' = [pc EXCEPT ![d] = "select"]
        \/ holds' = holds /\ pc' = [pc EXCEPT ![d] = "done"]
    BY <1>2 DEF TryLock, LockFree
  <2>3. LocksExclusive' BY <1>t, <2>2 DEF LocksExclusive
  <2>4. LogOrder' BY <2>1 DEF LogOrder
  <2>5. ASSUME NEW e \in Drainers PROVE (LockHeld(e) /\ LocalsEmpty(e))'
    BY <1>t, <2>1, <2>2 DEF DrainInv, LockHeld, HoldsKey, LocalsEmpty
  <2>6. ASSUME NEW e \in Drainers PROVE (BatchQueued(e) /\ MineQueued(e))'
    BY <2>1 DEF DrainInv, BatchQueued, MineQueued
  <2>7. DrainInv' BY <2>5, <2>6 DEF DrainInv
  <2>. QED BY <2>1, <2>3, <2>4, <2>7, OwnStepInv
<1>3. CASE SelectPending(d)
  <2>1. /\ pc[d] = "select"
        /\ batch' = [batch EXCEPT ![d] = FirstById(Visible(d), BatchSize)]
        /\ \/ pc' = [pc EXCEPT ![d] = "latest"]
           \/ pc' = [pc EXCEPT ![d] = "done"] /\ Visible(d) = {}
        /\ UNCHANGED <<nextPid, nextLid, pending, log, acked, wrows, dorg, holds, drained, mine, gone>>
    BY <1>3 DEF SelectPending, tableVars, writerVars
  <2>2. \A p \in batch'[d] : p \in Visible(d) BY <1>t, <2>1 DEF FirstById
  <2>3. drained[d] = {} BY <2>1 DEF DrainInv, LocalsEmpty
  <2>4. LocksExclusive' BY <2>1 DEF LocksExclusive
  <2>5. LogOrder' BY <2>1 DEF LogOrder
  <2>6. ASSUME NEW e \in Drainers PROVE (LockHeld(e) /\ LocalsEmpty(e) /\ BatchQueued(e))'
    BY <1>t, <2>1, <2>2, <2>3
       DEF DrainInv, LockHeld, HoldsKey, LocalsEmpty, BatchQueued, Visible, Statements
  <2>7. ASSUME NEW e \in Drainers PROVE MineQueued(e)'
    BY <2>1 DEF DrainInv, MineQueued
  <2>8. DrainInv' BY <2>6, <2>7 DEF DrainInv
  <2>. QED BY <2>1, <2>4, <2>5, <2>8, OwnStepInv
<1>4. CASE ReadLatest(d)
  <2>1. /\ pc[d] = "latest" /\ pc' = [pc EXCEPT ![d] = "chain"]
        /\ UNCHANGED <<nextPid, nextLid, pending, log, acked, wrows, dorg, holds, batch, drained, mine, gone>>
    BY <1>4 DEF ReadLatest, ReadLatestFrom, tableVars, writerVars
  <2>2. LocksExclusive' BY <2>1 DEF LocksExclusive
  <2>3. LogOrder' BY <2>1 DEF LogOrder
  <2>4. DrainInv'
    BY <1>t, <2>1 DEF DrainInv, LockHeld, HoldsKey, BatchQueued, MineQueued, LocalsEmpty
  <2>. QED BY <2>1, <2>2, <2>3, <2>4, OwnStepInv
<1>5. CASE ChainRow(d)
  <2>. DEFINE p   == HeadRow(batch[d])
              row == LogRow(nextLid, p, prevHash[d])
  <2>1. p \in batch[d] /\ p \in PendingRows
    BY <1>5, HeadRowInSet DEF TypeOK, ChainRow
  <2>2. /\ mine' = [mine EXCEPT ![d] = @ \cup {row}]
        /\ drained' = [drained EXCEPT ![d] = @ \cup {p.id}]
        /\ batch' = [batch EXCEPT ![d] = @ \ {p}]
        /\ nextLid' = nextLid + 1
        /\ pc[d] = "chain"
        /\ UNCHANGED <<nextPid, pending, log, acked, wrows, pc, dorg, holds, gone>>
    BY <1>5 DEF ChainRow, tableVars, writerVars
  <2>3. row.src = p.id /\ row.org = p.org /\ row.id = nextLid
    BY <2>1, LogRowType DEF TypeOK
  <2>4. p \in pending /\ p.org = dorg[d] /\ p.id \notin gone[d] \cup drained[d]
    BY <2>1 DEF DrainInv, BatchQueued
  <2>5. HoldsKey(d) BY <2>2 DEF DrainInv, LockHeld
  <2>6. nextLid \in Nat BY DEF TypeOK
  <2>. HIDE DEF p, row
  <2>7. LocksExclusive' BY <2>2 DEF LocksExclusive
  <2>8. LogOrder'
    <3>1. /\ \A r \in log : r.id \in Nat /\ r.id < nextLid
          /\ \A e \in Drainers : \A r \in mine[e] : r.id \in Nat /\ r.id < nextLid
      BY DEF LogOrder, TypeOK, IsLogRow
    <3>. QED BY <1>t, <2>2, <2>3, <2>6, <3>1 DEF LogOrder
  <2>9. ASSUME NEW e \in Drainers PROVE (LockHeld(e) /\ LocalsEmpty(e))'
    BY <1>t, <2>2, <2>5 DEF DrainInv, LockHeld, HoldsKey, LocalsEmpty
  <2>10. ASSUME NEW e \in Drainers PROVE BatchQueued(e)'
    <3>1. \A q \in batch[d] : q # p => q.id # p.id
      BY <2>4 DEF DrainInv, BatchQueued, IdsNameRows
    <3>. QED BY <1>t, <2>2, <3>1 DEF DrainInv, BatchQueued
  <2>11. ASSUME NEW e \in Drainers PROVE MineQueued(e)'
    <3>1. CASE e # d BY <1>t, <2>2, <3>1 DEF DrainInv, MineQueued
    <3>2. CASE e = d
      <4>1. \A r \in mine[d] : r.src # p.id BY <2>4 DEF DrainInv, MineQueued
      <4>2. mine'[d] = mine[d] \cup {row} /\ drained'[d] = drained[d] \cup {p.id}
        BY <1>t, <2>2
      <4>3. gone'[d] \cup drained'[d] = {r.src : r \in mine'[d]}
        BY <2>2, <2>3, <4>2 DEF DrainInv, MineQueued
      <4>4. \A r, q \in mine'[d] : r.src = q.src => r = q
        BY <2>3, <4>1, <4>2 DEF DrainInv, MineQueued
      <4>5. \A r \in mine'[d] : r.org = dorg'[d] /\ \E q \in pending' : q.id = r.src /\ q.org = r.org
        BY <2>2, <2>3, <2>4, <4>2 DEF DrainInv, MineQueued
      <4>. QED BY <3>2, <4>3, <4>4, <4>5 DEF MineQueued
    <3>. QED BY <3>1, <3>2
  <2>12. DrainInv' BY <2>9, <2>10, <2>11 DEF DrainInv
  <2>. QED BY <2>2, <2>7, <2>8, <2>12, OwnStepInv
<1>6. CASE DeleteDrained(d)
  <2>1. /\ batch[d] = {} /\ pc[d] = "chain"
        /\ gone' = [gone EXCEPT ![d] = @ \cup drained[d]]
        /\ drained' = [drained EXCEPT ![d] = {}]
        /\ pc' = [pc EXCEPT ![d] = "lock"] \/ pc' = [pc EXCEPT ![d] = "done"]
        /\ UNCHANGED <<nextPid, nextLid, pending, log, acked, wrows, dorg, holds, batch, mine>>
    BY <1>6 DEF DeleteDrained, DeleteDrainedThen, tableVars, writerVars
  <2>2. LocksExclusive' BY <2>1 DEF LocksExclusive
  <2>3. LogOrder' BY <2>1 DEF LogOrder
  <2>4. ASSUME NEW e \in Drainers PROVE (LockHeld(e) /\ LocalsEmpty(e) /\ BatchQueued(e))'
    BY <1>t, <2>1 DEF DrainInv, LockHeld, HoldsKey, LocalsEmpty, BatchQueued
  <2>5. ASSUME NEW e \in Drainers PROVE MineQueued(e)'
    <3>1. gone'[e] \cup drained'[e] = gone[e] \cup drained[e] BY <1>t, <2>1
    <3>. QED BY <2>1, <3>1 DEF DrainInv, MineQueued
  <2>6. DrainInv' BY <2>4, <2>5 DEF DrainInv
  <2>. QED BY <2>1, <2>2, <2>3, <2>6, OwnStepInv
<1>7. CASE AbortFlush(d)
  <2>1. /\ pc' = [pc EXCEPT ![d] = "idle"]
        /\ dorg' = [dorg EXCEPT ![d] = AnyOrg]
        /\ holds' = [holds EXCEPT ![d] = {}]
        /\ batch' = [batch EXCEPT ![d] = {}]
        /\ drained' = [drained EXCEPT ![d] = {}]
        /\ mine' = [mine EXCEPT ![d] = {}]
        /\ gone' = [gone EXCEPT ![d] = {}]
        /\ UNCHANGED <<nextPid, nextLid, pending, log, acked, wrows>>
    BY <1>7 DEF AbortFlush, EndFlush, tableVars, writerVars
  <2>2. LocksExclusive' BY <1>t, <2>1 DEF LocksExclusive
  <2>3. LogOrder' BY <1>t, <2>1 DEF LogOrder
  <2>4. ASSUME NEW e \in Drainers PROVE (LockHeld(e) /\ LocalsEmpty(e))'
    BY <1>t, <2>1 DEF DrainInv, LockHeld, HoldsKey, LocalsEmpty
  <2>5. ASSUME NEW e \in Drainers PROVE (BatchQueued(e) /\ MineQueued(e))'
    <3>1. CASE e = d BY <1>t, <2>1, <3>1 DEF BatchQueued, MineQueued
    <3>2. CASE e # d BY <1>t, <2>1, <3>2 DEF DrainInv, BatchQueued, MineQueued
    <3>. QED BY <3>1, <3>2
  <2>6. DrainInv' BY <2>4, <2>5 DEF DrainInv
  <2>. QED BY <2>1, <2>2, <2>3, <2>6, OwnStepInv
<1>. QED BY <1>1, <1>2, <1>3, <1>4, <1>5, <1>6, <1>7

LEMMA InitInv == Init => IInv
<1>. SUFFICES ASSUME Init PROVE IInv
  OBVIOUS
<1>1. TInv BY InitTypeOK, NumbersAssumption DEF Init, TInv, LoopCap
<1>2. FreshIds /\ IdsNameRows /\ LocksExclusive BY DEF Init, FreshIds, IdsNameRows, LocksExclusive
<1>3. DrainInv
  BY DEF Init, DrainInv, LockHeld, BatchQueued, MineQueued, LocalsEmpty
<1>4. LogOrder /\ ExactlyOnce BY DEF Init, LogOrder, ExactlyOnce
<1>. QED BY <1>1, <1>2, <1>3, <1>4 DEF IInv

LEMMA NextInv == IInv /\ [Next]_vars => IInv'
<1>. SUFFICES ASSUME IInv, [Next]_vars PROVE IInv'
  OBVIOUS
<1>1. TypeOK' /\ LoopCap' BY NextTypeOK, NextLoopCap DEF IInv
<1>2. CASE PeriodicPoll
  <2>1. UNCHANGED <<nextPid, nextLid, pending, log, acked, wrows, pc, dorg, holds, batch,
                    drained, mine, gone>>
    BY <1>2 DEF PeriodicPoll, tableVars, writerVars, drainerVars
  <2>. QED BY <1>1, <2>1 DEF IInv, TInv, FreshIds, IdsNameRows, LocksExclusive, DrainInv,
              LockHeld, HoldsKey, BatchQueued, MineQueued, LocalsEmpty, LogOrder, ExactlyOnce
<1>3. CASE UNCHANGED vars
  <2>1. UNCHANGED <<nextPid, nextLid, pending, log, acked, wrows, pc, dorg, holds, batch,
                    drained, mine, gone>>
    BY <1>3 DEF vars, tableVars, writerVars, drainerVars
  <2>. QED BY <1>1, <2>1 DEF IInv, TInv, FreshIds, IdsNameRows, LocksExclusive, DrainInv,
              LockHeld, HoldsKey, BatchQueued, MineQueued, LocalsEmpty, LogOrder, ExactlyOnce
<1>. QED BY <1>1, <1>2, <1>3, RequestInv, StatementInv, CommitFlushInv DEF Next, FlushStep

LEMMA SpecInv == Spec => []IInv
BY InitInv, NextInv, PTL DEF Spec

\* Every event of a committed operation is in exactly one of the two tables,
\* once: for any number of requests, drainers, deaths and batch sizes.
THEOREM AuditExactlyOnce == Spec => []ExactlyOnce
<1>1. IInv => ExactlyOnce BY DEF IInv
<1>. QED BY <1>1, SpecInv, PTL

-----------------------------------------------------------------------------
(* The tables implement the ledger *)

LEMMA CommitRequestRecords ==
    ASSUME IInv, NEW w \in Writers, CommitRequest(w)
    PROVE  Ledger!Record
<1>1. pending' = pending \cup wrows[w] /\ log' = log BY DEF CommitRequest
<1>2. \A p \in wrows[w], r \in log : p.id # r.src BY DEF IInv, IdsNameRows
<1>. QED BY <1>1, <1>2 DEF Ledger!Record, Ledger!EventsOf

LEMMA CommitFlushChains ==
    ASSUME IInv, NEW d \in Drainers, CommitFlush(d)
    PROVE  Ledger!Chain
<1>. DEFINE entry(r) == [pos |-> r.id, org |-> r.org, event |-> r.src]
            waits   == {<<p.org, p.id>> : p \in pending}
            entries == {entry(r) : r \in log}
            new     == entries' \ entries
<1>1. log' = log \cup mine[d] /\ pending' = {p \in pending : p.id \notin gone[d]}
  BY DEF CommitFlush
<1>2. gone[d] = {r.src : r \in mine[d]}
  <2>1. drained[d] = {} BY DEF CommitFlush, IInv, DrainInv, LocalsEmpty
  <2>. QED BY <2>1 DEF IInv, DrainInv, MineQueued
<1>3. \A r \in mine[d] : \E p \in pending : p.id = r.src /\ p.org = r.org
  BY DEF IInv, DrainInv, MineQueued
<1>4. \A r \in mine[d], q \in log : r.src # q.src
  BY <1>3 DEF IInv, ExactlyOnce
<1>5. new = {entry(r) : r \in mine[d]}
  <2>1. entries' = entries \cup {entry(r) : r \in mine[d]} BY <1>1
  <2>2. \A r \in mine[d], q \in log : entry(r) # entry(q)
    <3>. SUFFICES ASSUME NEW r \in mine[d], NEW q \in log PROVE entry(r).event # entry(q).event
      OBVIOUS
    <3>. QED BY <1>4
  <2>. QED BY <2>1, <2>2
<1>6. entries \subseteq entries' BY <1>1
<1>7. \A e, f \in new : (e.org = f.org /\ (e.event = f.event \/ e.pos = f.pos)) => e = f
  <2>1. \A r, q \in mine[d] : r.src = q.src \/ r.id = q.id => r = q
    BY DEF IInv, DrainInv, MineQueued, LogOrder
  <2>. QED BY <1>5, <2>1
<1>8. \A e \in new, f \in entries : e.org = f.org => e.pos > f.pos
  <2>1. \A r \in mine[d], q \in log : r.org = q.org => r.id > q.id
    <3>1. \A r \in mine[d] : r.id \in Nat BY DEF IInv, TInv, TypeOK, IsLogRow
    <3>2. \A q \in log : q.id \in Nat BY DEF IInv, TInv, TypeOK, IsLogRow
    <3>. QED BY <3>1, <3>2 DEF IInv, LogOrder
  <2>. QED BY <1>5, <2>1
<1>9. {<<e.org, e.event>> : e \in new} = {<<r.org, r.src>> : r \in mine[d]}
  <2>1. \A r \in mine[d] : entry(r).org = r.org /\ entry(r).event = r.src
    OBVIOUS
  <2>. HIDE DEF entry, new
  <2>. QED BY <1>5, <2>1
<1>10. {<<r.org, r.src>> : r \in mine[d]} \subseteq waits
  BY <1>3
<1>11. waits' = waits \ {<<r.org, r.src>> : r \in mine[d]}
  <2>1. \A p \in pending : p.id \in gone[d] <=> <<p.org, p.id>> \in {<<r.org, r.src>> : r \in mine[d]}
    BY <1>2, <1>3 DEF IInv, IdsNameRows
  <2>. QED BY <1>1, <2>1
<1>. HIDE DEF entry, new
<1>. QED BY <1>6, <1>7, <1>8, <1>9, <1>10, <1>11 DEF Ledger!Chain, Ledger!EventsOf, new, entry

\* Every other step leaves both tables alone: the ledger stutters.
LEMMA StepImplementsLedger ==
    IInv /\ [Next]_vars => [Ledger!LedgerNext]_Ledger!ledgerVars
<1>. SUFFICES ASSUME IInv, [Next]_vars
              PROVE  Ledger!LedgerNext \/ UNCHANGED Ledger!ledgerVars
  OBVIOUS
<1>1. UNCHANGED <<pending, log>> => UNCHANGED Ledger!ledgerVars
  BY DEF Ledger!ledgerVars
<1>2. ASSUME NEW w \in Writers, RequestStep(w), ~CommitRequest(w) PROVE UNCHANGED <<pending, log>>
  BY <1>2 DEF RequestStep, BeginRequest, enqueue_audit_entry, AbortRequest, tableVars
<1>3. ASSUME NEW d \in Drainers, FlushStep(d) \/ AbortFlush(d), ~CommitFlush(d)
      PROVE  UNCHANGED <<pending, log>>
  BY <1>3 DEF FlushStep, BeginFlush, TryLock, SelectPending, ReadLatest, ReadLatestFrom, ChainRow,
              DeleteDrained, DeleteDrainedThen, AbortFlush, tableVars
<1>4. PeriodicPoll \/ UNCHANGED vars => UNCHANGED <<pending, log>>
  BY DEF PeriodicPoll, vars, tableVars
<1>. QED BY <1>1, <1>2, <1>3, <1>4, CommitRequestRecords, CommitFlushChains
         DEF Next, Ledger!LedgerNext

\* The queue, the locks and the log implement AuditLedger: an event enters its
\* tenant's ledger once, at the end.
THEOREM AuditRefinesLedger == Spec => RefinesLedger
<1>1. Init => Ledger!LedgerInit BY DEF Init, Ledger!LedgerInit
<1>. QED BY <1>1, SpecInv, StepImplementsLedger, PTL DEF Spec, RefinesLedger, Ledger!LedgerSpec

-----------------------------------------------------------------------------
(* Three more inductive invariants, each on top of IInv *)

\* A drain transaction holds no key but its tenant's, and the ids its flush
\* started with are older than any id a request has not committed yet.
FlushInv ==
    /\ \A d \in Drainers :
          /\ holds[d] \subseteq {advisory_lock_key(dorg[d])}
          /\ \A i \in atStart[d] : i < nextPid
          /\ \A w \in Writers : \A p \in wrows[w] : p.id \notin atStart[d]
    /\ FlushCompleteWhenLocked

\* A request's events share first, and nothing else does.
RequestsApart ==
    /\ IsFiniteSet(pending)
    /\ \A w \in Writers :
          /\ IsFiniteSet(wrows[w])
          /\ ~wopen[w] => wrows[w] = {}
          /\ \A p \in wrows[w] : p.org = worg[w] /\ p.first < nextPid
          /\ \A p, q \in wrows[w] : p.first = q.first
          /\ \A p \in wrows[w], q \in pending : p.first # q.first
          /\ \A p \in wrows[w], r \in log : p.first # r.first
    /\ \A v, w \in Writers : v # w => \A p \in wrows[v], q \in wrows[w] : p.first # q.first
    /\ \A p \in pending : p.first < nextPid
    /\ \A r \in log : r.first < nextPid
    /\ \A p, q \in pending : p.first = q.first => p.org = q.org
    /\ \A p \in pending, r \in log : p.first = r.first => p.org = r.org

\* Rows of the drainer's queue it has not chained.
Unchained(d) == {p \in pending : p.id \notin gone[d] \cup drained[d]}

\* Of one request, what is chained is older than what is queued: in the log, in
\* a drainer's rows, and in a batch against the rest of the queue.
OldestFirst ==
    /\ \A r \in log, p \in pending : p.first = r.first => r.src < p.id
    /\ \A d \in Drainers :
          /\ \A r \in mine[d], p \in pending : p.id = r.src => p.first = r.first
          /\ \A r \in mine[d], p \in Unchained(d) : p.first = r.first => r.src < p.id
          /\ \A r, q \in mine[d] : r.first = q.first /\ r.src < q.src => r.id < q.id
          /\ \A b \in batch[d], p \in Unchained(d) \ batch[d] :
                b.first = p.first => b.id < p.id

OrderInv == RequestsApart /\ OldestFirst /\ RequestOrder

\* The rows of one tenant.
OfOrg(rows, o) == {r \in rows : r.org = o}

\* The rows of its tenant a drainer sees.
Seen(d) == OfOrg(log \cup mine[d], dorg[d])

Earlier(q, rows) == {r \in rows : r.id < q.id}

InTimeOrder(rows) == \A r, q \in rows : r.id < q.id => r.created_at <= q.created_at

\* h is what the next row of the chain must carry: the hash of some row, of the
\* last one when the chain is in timestamp order.
Heads(h, rows) ==
    /\ rows = {} => h = NoHash
    /\ rows # {} => h \in {r.row_hash : r \in rows}
    /\ InTimeOrder(rows) =>
          \A r \in rows : (\A x \in rows : x.id <= r.id) => h = r.row_hash

\* One tenant's rows form a chain: each carried what it had to when it came.
Chained(rows) ==
    /\ \A r, q \in rows : r.id = q.id => r = q
    /\ \A q \in rows :
          /\ Earlier(q, rows) = {} => q.prev_hash = NoHash
          /\ Earlier(q, rows) # {} => q.prev_hash \in {r.row_hash : r \in Earlier(q, rows)}
          /\ InTimeOrder(rows) =>
                \A r \in Earlier(q, rows) :
                    (\A x \in Earlier(q, rows) : x.id <= r.id) => q.prev_hash = r.row_hash

\* No row is dated later than the clock.
InThePast ==
    /\ \A w \in Writers : wbegan[w] <= clock /\ \A p \in wrows[w] : p.created_at <= clock
    /\ \A p \in pending : p.created_at <= clock
    /\ \A r \in log : r.created_at <= clock
    /\ \A d \in Drainers : \A r \in mine[d] : r.created_at <= clock

ChainInv ==
    /\ InThePast
    /\ \A o \in Orgs : Chained(OfOrg(log, o))
    /\ \A d \in Drainers :
          /\ Chained(Seen(d))
          /\ pc[d] = "chain" => Heads(prevHash[d], Seen(d))

-----------------------------------------------------------------------------
(* A flush leaves nothing it could have taken *)

LEMMA InitFlushInv == Init => FlushInv
BY DEF Init, FlushInv, FlushCompleteWhenLocked

\* Requests and polls: the queue gains rows no flush started with.
LEMMA RequestFlushInv ==
    ASSUME IInv, FlushInv, NEW w \in Writers, RequestStep(w)
    PROVE  FlushInv'
<1>t. /\ nextPid \in Nat /\ wrows \in [Writers -> SUBSET PendingRows]
      /\ atStart \in [Drainers -> SUBSET Nat]
  BY DEF IInv, TInv, TypeOK
<1>1. UNCHANGED <<pc, dorg, holds, gone, iter, atStart>>
  BY RequestFrame DEF drainerVars
<1>. DEFINE OnlyNewIds ==
        /\ nextPid' \in {nextPid, nextPid + 1}
        /\ \A v \in Writers : \A p \in wrows'[v] : p \in wrows[v] \/ p.id = nextPid
        /\ \A p \in pending' : p \in pending \/ \E v \in Writers : p \in wrows[v]
<1>2. OnlyNewIds
  <2>1. ASSUME NEW o \in Orgs, BeginRequest(w, o) PROVE OnlyNewIds
    BY <2>1 DEF BeginRequest, tableVars
  <2>2. CASE enqueue_audit_entry(w)
    <3>1. PICK row \in PendingRows : row.id = nextPid /\ wrows' = [wrows EXCEPT ![w] = @ \cup {row}]
      BY <2>2, PendingRowType DEF enqueue_audit_entry, IInv, TInv
    <3>. QED BY <1>t, <2>2, <3>1 DEF enqueue_audit_entry, tableVars
  <2>3. CASE CommitRequest(w)
    BY <1>t, <2>3 DEF CommitRequest, EndRequest
  <2>4. CASE AbortRequest(w)
    BY <1>t, <2>4 DEF AbortRequest, EndRequest, tableVars
  <2>. QED BY <2>1, <2>2, <2>3, <2>4 DEF RequestStep
<1>3. ASSUME NEW d \in Drainers
      PROVE  /\ \A i \in atStart[d] : i < nextPid'
             /\ \A v \in Writers : \A p \in wrows'[v] : p.id \notin atStart[d]
  BY <1>t, <1>2 DEF FlushInv
<1>4. FlushCompleteWhenLocked'
  BY <1>1, <1>2 DEF FlushInv, FlushCompleteWhenLocked, Visible
<1>. QED BY <1>1, <1>3, <1>4 DEF FlushInv

LEMMA DrainerFlushInv ==
    ASSUME IInv, FlushInv, NEW d \in Drainers, FlushStep(d) \/ AbortFlush(d)
    PROVE  FlushInv'
<1>t. /\ nextPid \in Nat /\ pc \in [Drainers -> Statements] /\ dorg \in [Drainers -> Orgs]
      /\ holds \in [Drainers -> SUBSET Int] /\ gone \in [Drainers -> SUBSET Nat]
      /\ iter \in [Drainers -> 0 .. MaxIterations] /\ atStart \in [Drainers -> SUBSET Nat]
  BY DEF IInv, TInv, TypeOK
<1>1. UNCHANGED <<nextPid, wrows>> /\ pending' \subseteq pending
  BY DEF FlushStep, BeginFlush, TryLock, SelectPending, ReadLatest, ReadLatestFrom, ChainRow,
         DeleteDrained, DeleteDrainedThen, CommitFlush, AbortFlush, tableVars, writerVars
<1>2. ASSUME NEW o \in Orgs, BeginFlush(d, o) PROVE FlushInv'
  <2>1. /\ pc[d] = "idle" /\ pc' = [pc EXCEPT ![d] = "lock"]
        /\ dorg' = [dorg EXCEPT ![d] = o]
        /\ atStart' = [atStart EXCEPT ![d] = {p.id : p \in {q \in pending : q.org = o}}]
        /\ UNCHANGED <<holds, gone, iter>>
    BY <1>2 DEF BeginFlush
  <2>2. holds[d] = {} BY <2>1 DEF IInv, DrainInv, LocalsEmpty
  <2>3. /\ \A i \in atStart'[d] : i < nextPid
        /\ \A w \in Writers : \A p \in wrows[w] : p.id \notin atStart'[d]
    BY <1>t, <2>1 DEF IInv, FreshIds, IdsNameRows
  <2>4. FlushCompleteWhenLocked'
    BY <1>t, <1>1, <2>1 DEF FlushInv, FlushCompleteWhenLocked, Visible
  <2>. QED BY <1>t, <1>1, <2>1, <2>2, <2>3, <2>4 DEF FlushInv
<1>3. CASE TryLock(d)
  <2>. DEFINE k == advisory_lock_key(dorg[d])
  <2>1. pc[d] = "lock" /\ UNCHANGED <<dorg, gone, iter, atStart>> BY <1>3 DEF TryLock
  <2>2. CASE holds' = [holds EXCEPT ![d] = @ \cup {k}] /\ pc' = [pc EXCEPT ![d] = "select"]
    BY <1>t, <1>1, <2>1, <2>2 DEF FlushInv, FlushCompleteWhenLocked, Visible
\* The lock is someone else's, so this transaction holds none.
  <2>3. CASE ~LockFree(d, k) /\ holds' = holds /\ pc' = [pc EXCEPT ![d] = "done"]
    <3>1. PICK e \in Drainers \ {d} : k \in holds[e] BY <2>3 DEF LockFree
    <3>2. k \notin holds[d] BY <3>1 DEF IInv, LocksExclusive
    <3>3. holds[d] = {} BY <3>2 DEF FlushInv
    <3>. QED BY <1>t, <1>1, <2>1, <2>3, <3>3 DEF FlushInv, FlushCompleteWhenLocked, Visible
  <2>. QED BY <1>3, <2>2, <2>3 DEF TryLock
<1>4. CASE SelectPending(d)
  <2>1. /\ pc' = [pc EXCEPT ![d] = IF Visible(d) = {} THEN "done" ELSE "latest"]
        /\ UNCHANGED <<pending, dorg, holds, gone, iter, atStart>>
    BY <1>4 DEF SelectPending, tableVars
  <2>2. \A e \in Drainers : Visible(e)' = Visible(e) BY <2>1 DEF Visible
  <2>3. FlushCompleteWhenLocked'
    BY <1>t, <2>1, <2>2 DEF FlushInv, FlushCompleteWhenLocked
  <2>. QED BY <1>1, <2>1, <2>3 DEF FlushInv
<1>5. CASE ReadLatest(d) \/ ChainRow(d)
  <2>1. /\ UNCHANGED <<pending, dorg, holds, gone, iter, atStart>>
        /\ pc' = [pc EXCEPT ![d] = "chain"] \/ pc' = pc
    BY <1>5 DEF ReadLatest, ReadLatestFrom, ChainRow, tableVars
  <2>. QED BY <1>t, <1>1, <2>1 DEF FlushInv, FlushCompleteWhenLocked, Visible
\* The loop ends here only at its cap.
<1>6. CASE DeleteDrained(d)
  <2>1. /\ UNCHANGED <<pending, dorg, holds, atStart>>
        /\ iter' = [iter EXCEPT ![d] = @ + 1]
        /\ pc' = [pc EXCEPT ![d] = IF iter[d] + 1 < MaxIterations THEN "lock" ELSE "done"]
        /\ gone' = [gone EXCEPT ![d] = @ \cup drained[d]]
    BY <1>6 DEF DeleteDrained, DeleteDrainedThen, tableVars
  <2>2. FlushCompleteWhenLocked'
    BY <1>t, <2>1 DEF FlushInv, FlushCompleteWhenLocked, Visible
  <2>. QED BY <1>1, <2>1, <2>2 DEF FlushInv
<1>7. CASE EndFlush(d)
  <2>1. /\ pc' = [pc EXCEPT ![d] = "idle"] /\ dorg' = [dorg EXCEPT ![d] = AnyOrg]
        /\ holds' = [holds EXCEPT ![d] = {}] /\ gone' = [gone EXCEPT ![d] = {}]
        /\ iter' = [iter EXCEPT ![d] = 0] /\ atStart' = [atStart EXCEPT ![d] = {}]
    BY <1>7 DEF EndFlush
  <2>2. FlushCompleteWhenLocked'
    BY <1>t, <1>1, <2>1 DEF FlushInv, FlushCompleteWhenLocked, Visible
  <2>. QED BY <1>t, <1>1, <2>1, <2>2 DEF FlushInv
<1>. QED BY <1>2, <1>3, <1>4, <1>5, <1>6, <1>7 DEF FlushStep, CommitFlush, AbortFlush

LEMMA NextFlushInv == IInv /\ FlushInv /\ [Next]_vars => FlushInv'
<1>. SUFFICES ASSUME IInv, FlushInv, [Next]_vars PROVE FlushInv'
  OBVIOUS
<1>1. CASE PeriodicPoll \/ UNCHANGED vars
  BY <1>1 DEF PeriodicPoll, vars, tableVars, writerVars, drainerVars, FlushInv,
              FlushCompleteWhenLocked, Visible
<1>. QED BY <1>1, RequestFlushInv, DrainerFlushInv DEF Next

\* A flush that got its lock and stopped because it saw no more rows leaves
\* none of the rows pending when it started: flush_audit_chain's loop, with any
\* batch size and any drainers and requests around it.
THEOREM FlushesFinish == Spec => []FlushCompleteWhenLocked
<1>1. FlushInv => FlushCompleteWhenLocked BY DEF FlushInv
<1>. QED BY <1>1, SpecInv, InitFlushInv, NextFlushInv, PTL DEF Spec

-----------------------------------------------------------------------------
(* The events of a request are chained in the order they were enqueued *)

\* ORDER BY id LIMIT n cuts the queue at an id.
LEMMA FirstByIdCuts ==
    ASSUME NEW rows \in SUBSET PendingRows, IsFiniteSet(rows), NEW n \in Nat,
           NEW b \in FirstById(rows, n), NEW p \in rows \ FirstById(rows, n)
    PROVE  b.id < p.id
<1>. DEFINE below(x) == {q \in rows : q.id < x.id}
<1>1. \A x \in rows : IsFiniteSet(below(x)) BY FS_Subset
<1>2. \A x \in rows : Cardinality(below(x)) \in Nat BY <1>1, FS_CardinalityType
<1>3. b \in rows /\ Cardinality(below(b)) < n /\ ~(Cardinality(below(p)) < n)
  BY DEF FirstById
<1>4. b.id \in Nat /\ p.id \in Nat /\ \A q \in rows : q.id \in Nat BY <1>3 DEF PendingRows
<1>5. ASSUME ~(b.id < p.id) PROVE FALSE
  <2>1. below(p) \subseteq below(b) BY <1>4, <1>5
  <2>2. Cardinality(below(p)) <= Cardinality(below(b)) BY <1>1, <1>3, <2>1, FS_Subset
  <2>. HIDE DEF below
  <2>. QED BY <1>2, <1>3, <2>2
<1>. QED BY <1>5

LEMMA InitOrderInv == Init => OrderInv
BY FS_EmptySet, AnyOrgIsOrg DEF Init, OrderInv, RequestsApart, OldestFirst, Unchained, RequestOrder

LEMMA EnqueueOrderInv ==
    ASSUME IInv, OrderInv, NEW w \in Writers, enqueue_audit_entry(w)
    PROVE  OrderInv'
<1>t. /\ nextPid \in Nat /\ wrows \in [Writers -> SUBSET PendingRows] /\ pending \subseteq PendingRows
      /\ \A r \in log : r.first \in Nat
  BY DEF IInv, TInv, TypeOK, IsLogRow
<1>. DEFINE row == PendingRow(w)
<1>1. /\ row \in PendingRows /\ row.id = nextPid /\ row.org = worg[w]
      /\ wrows[w] = {} => row.first = nextPid
      /\ \A p \in wrows[w] : row.first = p.first
  <2>1. row \in PendingRows /\ row.id = nextPid /\ row.org = worg[w]
    BY PendingRowType DEF IInv, TInv
  <2>2. row.first = IF wrows[w] = {} THEN nextPid ELSE HeadRow(wrows[w]).first
    BY DEF PendingRow
  <2>3. wrows[w] # {} => HeadRow(wrows[w]) \in wrows[w] BY <1>t, HeadRowInSet
  <2>4. \A p, q \in wrows[w] : p.first = q.first BY DEF OrderInv, RequestsApart
  <2>. HIDE DEF row
  <2>. QED BY <2>1, <2>2, <2>3, <2>4
<1>2. /\ wopen[w] /\ wrows' = [wrows EXCEPT ![w] = @ \cup {row}] /\ nextPid' = nextPid + 1
      /\ UNCHANGED <<pending, log, wopen, worg, batch, drained, mine, gone>>
  BY DEF enqueue_audit_entry, tableVars, drainerVars
<1>. HIDE DEF row
<1>3. OldestFirst' /\ RequestOrder'
  BY <1>2 DEF OrderInv, OldestFirst, Unchained, RequestOrder
\* The row's first is that of the transaction's rows, or an id never used.
<1>4. /\ \A v \in Writers \ {w} : \A p \in wrows[v] : p.first # row.first
      /\ \A p \in pending : p.first # row.first
      /\ \A r \in log : r.first # row.first
      /\ row.first < nextPid + 1
  <2>1. CASE wrows[w] = {}
    <3>1. /\ \A v \in Writers : \A p \in wrows[v] : p.first \in Nat /\ p.first < nextPid
          /\ \A p \in pending : p.first \in Nat /\ p.first < nextPid
          /\ \A r \in log : r.first \in Nat /\ r.first < nextPid
      BY <1>t DEF OrderInv, RequestsApart, PendingRows
    <3>. QED BY <1>t, <1>1, <2>1, <3>1
  <2>2. CASE wrows[w] # {}
    <3>1. PICK x \in wrows[w] : TRUE BY <2>2
    <3>2. row.first = x.first BY <1>1
    <3>3. x.first < nextPid /\ x.first \in Nat BY <1>t DEF OrderInv, RequestsApart, PendingRows
    <3>. QED BY <1>t, <3>2, <3>3 DEF OrderInv, RequestsApart
  <2>. QED BY <2>1, <2>2
<1>5. IsFiniteSet(wrows[w] \cup {row})
  <2>1. IsFiniteSet(wrows[w]) BY DEF OrderInv, RequestsApart
  <2>. QED BY <2>1, FS_AddElement
<1>6. \A i \in Nat : i < nextPid => i < nextPid + 1 BY <1>t
<1>7. ASSUME NEW v \in Writers
      PROVE  /\ IsFiniteSet(wrows'[v])
             /\ ~wopen[v] => wrows'[v] = {}
             /\ \A p \in wrows'[v] : p.org = worg[v] /\ p.first < nextPid'
             /\ \A p, q \in wrows'[v] : p.first = q.first
             /\ \A p \in wrows'[v], q \in pending : p.first # q.first
             /\ \A p \in wrows'[v], r \in log : p.first # r.first
  <2>1. CASE v = w
    BY <1>t, <1>1, <1>2, <1>4, <1>5, <1>6, <2>1 DEF OrderInv, RequestsApart, PendingRows
  <2>2. CASE v # w
    BY <1>t, <1>2, <1>6, <2>2 DEF OrderInv, RequestsApart, PendingRows
  <2>. QED BY <2>1, <2>2
<1>8. /\ \A u, v \in Writers : u # v => \A p \in wrows'[u], q \in wrows'[v] : p.first # q.first
      /\ \A p \in pending : p.first < nextPid'
      /\ \A r \in log : r.first < nextPid'
  BY <1>t, <1>1, <1>2, <1>4, <1>6 DEF OrderInv, RequestsApart, PendingRows
<1>9. RequestsApart'
  BY <1>2, <1>7, <1>8 DEF OrderInv, RequestsApart
<1>. QED BY <1>3, <1>9 DEF OrderInv

\* A transaction ends: its rows are dropped, or join the queue as they are.
LEMMA EndRequestOrderInv ==
    ASSUME IInv, OrderInv, NEW w \in Writers, CommitRequest(w) \/ AbortRequest(w)
    PROVE  OrderInv'
<1>t. /\ wrows \in [Writers -> SUBSET PendingRows] /\ wopen \in [Writers -> BOOLEAN]
      /\ worg \in [Writers -> Orgs]
  BY DEF IInv, TInv, TypeOK
<1>1. /\ wrows' = [wrows EXCEPT ![w] = {}] /\ wopen' = [wopen EXCEPT ![w] = FALSE]
      /\ worg' = [worg EXCEPT ![w] = AnyOrg]
      /\ pending' \in {pending, pending \cup wrows[w]}
      /\ UNCHANGED <<nextPid, log, batch, drained, mine, gone>>
  BY DEF CommitRequest, AbortRequest, EndRequest, tableVars, drainerVars
<1>2. IsFiniteSet(pending')
  <2>1. IsFiniteSet(pending) /\ IsFiniteSet(wrows[w]) BY DEF OrderInv, RequestsApart
  <2>2. IsFiniteSet(pending \cup wrows[w]) BY <2>1, FS_Union
  <2>. QED BY <1>1, <2>1, <2>2
<1>3. ASSUME NEW v \in Writers
      PROVE  /\ IsFiniteSet(wrows'[v])
             /\ ~wopen'[v] => wrows'[v] = {}
             /\ \A p \in wrows'[v] : p.org = worg'[v] /\ p.first < nextPid
             /\ \A p, q \in wrows'[v] : p.first = q.first
             /\ \A p \in wrows'[v], q \in pending' : p.first # q.first
             /\ \A p \in wrows'[v], r \in log : p.first # r.first
  <2>1. CASE v = w BY <1>t, <1>1, <2>1, FS_EmptySet
  <2>2. CASE v # w
    <3>1. wrows'[v] = wrows[v] /\ worg'[v] = worg[v] /\ wopen'[v] = wopen[v] BY <1>t, <1>1, <2>2
    <3>. QED BY <1>1, <2>2, <3>1 DEF OrderInv, RequestsApart
  <2>. QED BY <2>1, <2>2
<1>4. RequestsApart'
  <2>1. \A u, v \in Writers : u # v => \A p \in wrows'[u], q \in wrows'[v] : p.first # q.first
    BY <1>t, <1>1 DEF OrderInv, RequestsApart
  <2>2. /\ \A p \in pending' : p.first < nextPid
        /\ \A p, q \in pending' : p.first = q.first => p.org = q.org
        /\ \A p \in pending', r \in log : p.first = r.first => p.org = r.org
    BY <1>1 DEF OrderInv, RequestsApart
  <2>3. \A r \in log : r.first < nextPid BY DEF OrderInv, RequestsApart
  <2>. QED BY <1>1, <1>2, <1>3, <2>1, <2>2, <2>3 DEF RequestsApart
\* The new rows are of no request that has rows anywhere else.
<1>5. \A p \in wrows[w], q \in pending : p.first # q.first /\ p.id # q.id
  BY DEF OrderInv, RequestsApart, IInv, IdsNameRows
<1>6. ASSUME NEW d \in Drainers
      PROVE  /\ \A r \in mine'[d], p \in pending' : p.id = r.src => p.first = r.first
             /\ \A r \in mine'[d], p \in Unchained(d)' : p.first = r.first => r.src < p.id
             /\ \A r, q \in mine'[d] : r.first = q.first /\ r.src < q.src => r.id < q.id
             /\ \A b \in batch'[d], p \in Unchained(d)' \ batch'[d] :
                    b.first = p.first => b.id < p.id
  <2>1. \A r \in mine[d] : \E q \in pending : q.id = r.src /\ q.first = r.first
    BY DEF IInv, DrainInv, MineQueued, OrderInv, OldestFirst
  <2>2. batch[d] \subseteq pending BY DEF IInv, DrainInv, BatchQueued
  <2>3. \A p \in Unchained(d)' : p \in Unchained(d) \/ p \in wrows[w]
    BY <1>1 DEF Unchained
  <2>4. \A p \in pending' : p \in pending \/ p \in wrows[w] BY <1>1
  <2>. QED BY <1>1, <1>5, <2>1, <2>2, <2>3, <2>4 DEF OrderInv, OldestFirst
<1>7. \A r \in log', p \in pending' : p.first = r.first => r.src < p.id
  BY <1>1 DEF OrderInv, RequestsApart, OldestFirst
<1>. QED BY <1>1, <1>4, <1>6, <1>7 DEF OrderInv, OldestFirst, RequestOrder

\* A drainer's statements before it commits.
LEMMA DrainerOrderInv ==
    ASSUME IInv, OrderInv, NEW d \in Drainers, FlushStep(d) \/ AbortFlush(d), ~CommitFlush(d)
    PROVE  OrderInv'
<1>t. /\ nextLid \in Nat /\ pending \subseteq PendingRows
      /\ batch \in [Drainers -> SUBSET PendingRows]
      /\ drained \in [Drainers -> SUBSET Nat] /\ gone \in [Drainers -> SUBSET Nat]
      /\ DOMAIN mine = Drainers
      /\ \A e \in Drainers : \A r \in mine[e] : r.id \in Nat /\ r.src \in Nat
  BY DEF IInv, TInv, TypeOK, IsLogRow
<1>1. UNCHANGED <<nextPid, pending, log, wopen, worg, wrows>>
  BY DEF FlushStep, BeginFlush, TryLock, SelectPending, ReadLatest, ReadLatestFrom, ChainRow,
         DeleteDrained, DeleteDrainedThen, AbortFlush, tableVars, writerVars
<1>2. RequestsApart' /\ RequestOrder' BY <1>1 DEF OrderInv, RequestsApart, RequestOrder
<1>. DEFINE Mine(e) ==
         /\ \A r \in mine[e], p \in pending : p.id = r.src => p.first = r.first
         /\ \A r \in mine[e], p \in Unchained(e) : p.first = r.first => r.src < p.id
         /\ \A r, q \in mine[e] : r.first = q.first /\ r.src < q.src => r.id < q.id
            Batch(e) ==
         \A b \in batch[e], p \in Unchained(e) \ batch[e] : b.first = p.first => b.id < p.id
<1>3. \A e \in Drainers : Mine(e) /\ Batch(e) BY DEF OrderInv, OldestFirst
<1>4. SUFFICES \A e \in Drainers : Mine(e)' /\ Batch(e)'
  BY <1>1, <1>2 DEF OrderInv, OldestFirst
<1>5. ASSUME UNCHANGED <<batch, drained, mine, gone>> PROVE \A e \in Drainers : Mine(e)' /\ Batch(e)'
  BY <1>1, <1>3, <1>5 DEF Unchained
<1>6. CASE (\E o \in Orgs : BeginFlush(d, o)) \/ TryLock(d) \/ ReadLatest(d)
  BY <1>5, <1>6 DEF BeginFlush, TryLock, ReadLatest, ReadLatestFrom
<1>7. CASE SelectPending(d)
  <2>1. /\ batch' = [batch EXCEPT ![d] = FirstById(Visible(d), BatchSize)]
        /\ UNCHANGED <<drained, mine, gone>> /\ pc[d] = "select"
    BY <1>7 DEF SelectPending
  <2>2. ASSUME NEW e \in Drainers PROVE Mine(e)'
    BY <1>1, <1>3, <2>1 DEF Unchained
  <2>3. Batch(d)'
    <3>1. Visible(d) \in SUBSET PendingRows /\ IsFiniteSet(Visible(d))
      <4>1. IsFiniteSet(pending) /\ Visible(d) \subseteq pending
        BY DEF OrderInv, RequestsApart, Visible
      <4>. QED BY <1>t, <4>1, FS_Subset
    <3>2. ASSUME NEW p \in Unchained(d)', p.org = dorg[d] PROVE p \in Visible(d)
      BY <1>1, <2>1, <3>2 DEF Unchained, Visible
    <3>3. ASSUME NEW b \in batch'[d], NEW p \in Unchained(d)' \ batch'[d], b.first = p.first
          PROVE  b.id < p.id
      <4>1. batch'[d] = FirstById(Visible(d), BatchSize) BY <1>t, <2>1
      <4>2. b \in pending /\ b.org = dorg[d] BY <4>1 DEF FirstById, Visible
      <4>3. p \in pending BY <1>1 DEF Unchained
      <4>4. p.org = dorg[d] BY <3>3, <4>2, <4>3 DEF OrderInv, RequestsApart
      <4>5. p \in Visible(d) \ FirstById(Visible(d), BatchSize) BY <3>2, <4>1, <4>4
      <4>. QED BY <3>1, <4>1, <4>5, FirstByIdCuts, NumbersAssumption
    <3>. QED BY <3>3
  <2>4. ASSUME NEW e \in Drainers, e # d PROVE Batch(e)'
    BY <1>1, <1>3, <2>1, <2>4 DEF Unchained
  <2>. QED BY <2>2, <2>3, <2>4
<1>8. CASE ChainRow(d)
  <2>. DEFINE p   == HeadRow(batch[d])
              row == LogRow(nextLid, p, prevHash[d])
  <2>1. p \in batch[d] /\ p \in PendingRows /\ \A q \in batch[d] : p.id <= q.id
    BY <1>t, <1>8, HeadRowInSet DEF ChainRow
  <2>2. /\ mine' = [mine EXCEPT ![d] = @ \cup {row}]
        /\ drained' = [drained EXCEPT ![d] = @ \cup {p.id}]
        /\ batch' = [batch EXCEPT ![d] = @ \ {p}]
        /\ gone' = gone
    BY <1>8 DEF ChainRow
  <2>3. row.src = p.id /\ row.id = nextLid /\ row.first = p.first
    BY <2>1 DEF LogRow
  <2>4. p \in pending /\ p \in Unchained(d)
    BY <2>1 DEF IInv, DrainInv, BatchQueued, Unchained
  <2>. HIDE DEF p, row
  <2>5. ASSUME NEW e \in Drainers, e # d PROVE Mine(e)' /\ Batch(e)'
    BY <1>t, <1>1, <1>3, <2>2, <2>5 DEF Unchained
  <2>6. Unchained(d)' = {q \in Unchained(d) : q.id # p.id}
    BY <1>t, <1>1, <2>2 DEF Unchained
  <2>7. mine'[d] = mine[d] \cup {row} /\ batch'[d] = batch[d] \ {p}
    BY <1>t, <2>2
  <2>8. \A q \in pending : q.id = p.id => q = p BY <2>4 DEF IInv, IdsNameRows
  <2>9. Batch(d)' BY <1>3, <2>6, <2>7, <2>8
\* The head of the batch is older than the rest of it, and than the queue.
  <2>10. ASSUME NEW q \in Unchained(d)', q.first = p.first PROVE p.id < q.id
    <3>1. q \in Unchained(d) /\ q.id # p.id /\ q \in PendingRows BY <1>t, <2>6 DEF Unchained
    <3>2. CASE q \in batch[d] BY <2>1, <3>1, <3>2 DEF PendingRows
    <3>3. CASE q \notin batch[d] BY <1>3, <2>1, <2>10, <3>1, <3>3
    <3>. QED BY <3>2, <3>3
  <2>11. Mine(d)'
    <3>1. \A r \in mine'[d], q \in pending : q.id = r.src => q.first = r.first
      BY <1>3, <2>3, <2>7, <2>8
    <3>2. \A r \in mine'[d], q \in Unchained(d)' : q.first = r.first => r.src < q.id
      BY <1>3, <2>3, <2>6, <2>7, <2>10
    <3>3. \A r \in mine[d] : r.first = row.first => r.src < row.src /\ r.id < row.id
      BY <1>3, <2>3, <2>4 DEF IInv, LogOrder
    <3>4. ASSUME NEW r \in mine'[d], NEW q \in mine'[d], r.first = q.first, r.src < q.src
          PROVE  r.id < q.id
      <4>1. CASE r \in mine[d] /\ q \in mine[d] BY <1>3, <3>4, <4>1
      <4>2. CASE r \in mine[d] /\ q = row BY <3>3, <3>4, <4>2
      <4>3. CASE r = row /\ q \in mine[d]
        <5>1. q.src < row.src /\ q.src \in Nat /\ row.src \in Nat
          BY <1>t, <2>1, <2>3, <3>3, <3>4, <4>3 DEF PendingRows
        <5>. QED BY <3>4, <4>3, <5>1
      <4>4. CASE r = row /\ q = row BY <2>1, <2>3, <3>4, <4>4 DEF PendingRows
      <4>. QED BY <2>7, <4>1, <4>2, <4>3, <4>4
    <3>. QED BY <1>1, <3>1, <3>2, <3>4
  <2>. QED BY <2>5, <2>9, <2>11
<1>9. CASE DeleteDrained(d)
  <2>1. /\ batch' = batch /\ mine' = mine
        /\ gone' = [gone EXCEPT ![d] = @ \cup drained[d]]
        /\ drained' = [drained EXCEPT ![d] = {}]
    BY <1>9 DEF DeleteDrained, DeleteDrainedThen
  <2>2. \A e \in Drainers : Unchained(e)' = Unchained(e) BY <1>t, <1>1, <2>1 DEF Unchained
  <2>. HIDE DEF Unchained
  <2>. QED BY <1>1, <1>3, <2>1, <2>2
<1>10. CASE AbortFlush(d)
  <2>1. /\ batch' = [batch EXCEPT ![d] = {}] /\ mine' = [mine EXCEPT ![d] = {}]
        /\ gone' = [gone EXCEPT ![d] = {}] /\ drained' = [drained EXCEPT ![d] = {}]
    BY <1>10 DEF AbortFlush, EndFlush
  <2>2. Mine(d)' /\ Batch(d)' BY <1>t, <2>1
  <2>3. ASSUME NEW e \in Drainers, e # d PROVE Mine(e)' /\ Batch(e)'
    BY <1>t, <1>1, <1>3, <2>1, <2>3 DEF Unchained
  <2>. QED BY <2>2, <2>3
<1>. QED BY <1>6, <1>7, <1>8, <1>9, <1>10 DEF FlushStep

\* The commit appends what the drainer chained; what stays queued is newer.
LEMMA CommitFlushOrderInv ==
    ASSUME IInv, OrderInv, NEW d \in Drainers, CommitFlush(d)
    PROVE  OrderInv'
<1>t. /\ DOMAIN mine = Drainers /\ batch \in [Drainers -> SUBSET PendingRows]
      /\ drained \in [Drainers -> SUBSET Nat] /\ gone \in [Drainers -> SUBSET Nat]
      /\ \A r \in log : r.id \in Nat /\ r.src \in Nat
      /\ \A r \in mine[d] : r.id \in Nat /\ r.src \in Nat
  BY DEF IInv, TInv, TypeOK, IsLogRow
<1>1. /\ log' = log \cup mine[d]
      /\ pending' = {p \in pending : p.id \notin gone[d]}
      /\ mine' = [mine EXCEPT ![d] = {}] /\ batch' = [batch EXCEPT ![d] = {}]
      /\ gone' = [gone EXCEPT ![d] = {}] /\ drained' = [drained EXCEPT ![d] = {}]
      /\ drained[d] = {}
      /\ UNCHANGED <<nextPid, wopen, worg, wrows>>
  BY DEF CommitFlush, EndFlush, writerVars, IInv, DrainInv, LocalsEmpty
<1>2. \A r \in mine[d] : \E p \in pending : p.id = r.src /\ p.org = r.org /\ p.first = r.first
  BY DEF IInv, DrainInv, MineQueued, OrderInv, OldestFirst
<1>3. pending' \subseteq pending /\ pending' \subseteq Unchained(d) BY <1>1 DEF Unchained
<1>4. RequestsApart'
  <2>1. IsFiniteSet(pending') BY <1>3, FS_Subset DEF OrderInv, RequestsApart
  <2>2. \A w \in Writers : \A p \in wrows[w], r \in log' : p.first # r.first
    BY <1>1, <1>2 DEF OrderInv, RequestsApart
  <2>3. /\ \A r \in log' : r.first < nextPid
        /\ \A p \in pending', r \in log' : p.first = r.first => p.org = r.org
    <3>1. \A r \in mine[d] : r.first < nextPid BY <1>2 DEF OrderInv, RequestsApart
    <3>2. \A p \in pending', r \in mine[d] : p.first = r.first => p.org = r.org
      BY <1>2, <1>3 DEF OrderInv, RequestsApart
    <3>. QED BY <1>1, <1>3, <3>1, <3>2 DEF OrderInv, RequestsApart
  <2>. QED BY <1>1, <1>3, <2>1, <2>2, <2>3 DEF OrderInv, RequestsApart
<1>5. \A r \in log', p \in pending' : p.first = r.first => r.src < p.id
  BY <1>1, <1>3 DEF OrderInv, OldestFirst
<1>6. ASSUME NEW e \in Drainers
      PROVE  /\ \A r \in mine'[e], p \in pending' : p.id = r.src => p.first = r.first
             /\ \A r \in mine'[e], p \in Unchained(e)' : p.first = r.first => r.src < p.id
             /\ \A r, q \in mine'[e] : r.first = q.first /\ r.src < q.src => r.id < q.id
             /\ \A b \in batch'[e], p \in Unchained(e)' \ batch'[e] :
                    b.first = p.first => b.id < p.id
  <2>1. CASE e = d BY <1>t, <1>1, <2>1
  <2>2. CASE e # d
    <3>1. mine'[e] = mine[e] /\ batch'[e] = batch[e] BY <1>t, <1>1, <2>2
    <3>2. Unchained(e)' \subseteq Unchained(e) BY <1>t, <1>1, <2>2 DEF Unchained
    <3>. HIDE DEF Unchained
    <3>. QED BY <1>3, <3>1, <3>2 DEF OrderInv, OldestFirst
  <2>. QED BY <2>1, <2>2
<1>7. ASSUME NEW r \in log', NEW q \in log', r.first = q.first, r.src < q.src PROVE r.id < q.id
  <2>1. \A x \in log, y \in mine[d] : x.first = y.first => x.src < y.src /\ x.id < y.id
    <3>. SUFFICES ASSUME NEW x \in log, NEW y \in mine[d], x.first = y.first
                  PROVE  x.src < y.src /\ x.id < y.id
      OBVIOUS
    <3>1. PICK p \in pending : p.id = y.src /\ p.org = y.org /\ p.first = y.first BY <1>2
    <3>2. x.src < p.id /\ x.org = p.org BY <3>1 DEF OrderInv, OldestFirst, RequestsApart
    <3>. QED BY <3>1, <3>2 DEF IInv, LogOrder
  <2>2. CASE r \in log /\ q \in log BY <1>7, <2>2 DEF OrderInv, RequestOrder
  <2>3. CASE r \in log /\ q \in mine[d] BY <1>7, <2>1, <2>3
  <2>4. CASE r \in mine[d] /\ q \in log
    <3>1. q.src < r.src /\ q.src \in Nat /\ r.src \in Nat BY <1>t, <1>7, <2>1, <2>4
    <3>. QED BY <1>7, <3>1
  <2>5. CASE r \in mine[d] /\ q \in mine[d] BY <1>7, <2>5 DEF OrderInv, OldestFirst
  <2>. QED BY <1>1, <2>2, <2>3, <2>4, <2>5
<1>. QED BY <1>4, <1>5, <1>6, <1>7 DEF OrderInv, OldestFirst, RequestOrder

LEMMA NextOrderInv == IInv /\ OrderInv /\ [Next]_vars => OrderInv'
<1>. SUFFICES ASSUME IInv, OrderInv, [Next]_vars PROVE OrderInv'
  OBVIOUS
<1>. USE DEF OrderInv, RequestsApart, OldestFirst, Unchained, RequestOrder
<1>1. CASE PeriodicPoll \/ UNCHANGED vars
  BY <1>1 DEF PeriodicPoll, vars, tableVars, writerVars, drainerVars
<1>2. ASSUME NEW w \in Writers, NEW o \in Orgs, BeginRequest(w, o) PROVE OrderInv'
  <2>1. /\ ~wopen[w] /\ wopen' = [wopen EXCEPT ![w] = TRUE] /\ worg' = [worg EXCEPT ![w] = o]
        /\ UNCHANGED <<nextPid, pending, log, wrows, batch, drained, mine, gone>>
    BY <1>2 DEF BeginRequest, tableVars, drainerVars
  <2>2. wopen \in [Writers -> BOOLEAN] /\ worg \in [Writers -> Orgs]
    BY DEF IInv, TInv, TypeOK
  <2>3. wrows[w] = {} BY <2>1
  <2>4. \A v \in Writers : \A p \in wrows[v] : p.org = worg'[v] BY <2>1, <2>2, <2>3
  <2>5. \A v \in Writers : ~wopen'[v] => wrows[v] = {} BY <2>1, <2>2
  <2>6. RequestsApart' BY <2>1, <2>4, <2>5
  <2>. QED BY <2>1, <2>6
<1>. HIDE DEF OrderInv, RequestsApart, OldestFirst, Unchained, RequestOrder
<1>. QED BY <1>1, <1>2, EnqueueOrderInv, EndRequestOrderInv, DrainerOrderInv, CommitFlushOrderInv
         DEF Next, RequestStep, FlushStep

\* The events of one request stand in the log in the order its operation
\* enqueued them, however batches, flushes and drainers cut them.
THEOREM RequestsStayInOrder == Spec => []RequestOrder
<1>1. OrderInv => RequestOrder BY DEF OrderInv
<1>. QED BY <1>1, SpecInv, InitOrderInv, NextOrderInv, PTL DEF Spec

-----------------------------------------------------------------------------
(* The hash chain of one tenant *)

\* A nonempty set of naturals below a bound has a greatest element.
LEMMA NatSetHasMax ==
    ASSUME NEW S \in SUBSET Nat, S # {}, NEW n \in Nat, \A x \in S : x <= n
    PROVE  \E x \in S : \A y \in S : y <= x
<1>. DEFINE T == {n - x : x \in S}
<1>1. T \in SUBSET Nat /\ T # {}
  <2>1. \A x \in S : n - x \in Nat OBVIOUS
  <2>. QED BY <2>1
<1>. HIDE DEF T
<1>2. PICK t \in T : \A u \in T : t <= u BY <1>1, NatSetHasMin
<1>. USE DEF T
<1>3. PICK x \in S : t = n - x OBVIOUS
<1>4. \A y \in S : n - x <= n - y BY <1>2, <1>3
<1>5. \A y \in S : y <= x
  <2>. SUFFICES ASSUME NEW y \in S PROVE y <= x
    OBVIOUS
  <2>1. n - x <= n - y BY <1>4
  <2>2. x \in Nat /\ y \in Nat OBVIOUS
  <2>. HIDE DEF T
  <2>. QED BY <2>1, <2>2
<1>. QED BY <1>5

IdsBelow(rows, n) == \A r \in rows : r.id \in Nat /\ r.id < n
DatedBy(rows, c) == \A r \in rows : r.created_at \in Nat /\ r.created_at <= c

\* A nonempty set of rows has one with the greatest id.
LEMMA LastRow ==
    ASSUME NEW rows, rows # {}, NEW n \in Nat, IdsBelow(rows, n)
    PROVE  \E r \in rows : \A x \in rows : x.id <= r.id
<1>. DEFINE ids == {r.id : r \in rows}
<1>1. ids \in SUBSET Nat /\ ids # {} /\ \A i \in ids : i <= n BY DEF IdsBelow
<1>. HIDE DEF ids
<1>2. PICK i \in ids : \A j \in ids : j <= i BY <1>1, NatSetHasMax
<1>. USE DEF ids
<1>3. PICK r \in rows : r.id = i OBVIOUS
<1>4. \A x \in rows : x.id <= r.id BY <1>2, <1>3
<1>. QED BY <1>4

\* ORDER BY created_at DESC, id DESC LIMIT 1 finds a row.
LEMMA LatestRow ==
    ASSUME NEW rows, rows # {}, NEW n \in Nat, IdsBelow(rows, n),
           NEW c \in Nat, DatedBy(rows, c)
    PROVE  \E r \in rows : \A q \in rows : NotEarlier(r, q)
<1>. DEFINE times == {r.created_at : r \in rows}
<1>1. times \in SUBSET Nat /\ times # {} /\ \A t \in times : t <= c BY DEF DatedBy
<1>. HIDE DEF times
<1>2. PICK t \in times : \A u \in times : u <= t BY <1>1, NatSetHasMax
<1>. USE DEF times
<1>. DEFINE latest == {r \in rows : r.created_at = t}
<1>3. latest # {} /\ IdsBelow(latest, n) BY DEF IdsBelow
<1>. HIDE DEF latest
<1>4. PICK r \in latest : \A x \in latest : x.id <= r.id BY <1>3, LastRow
<1>. USE DEF latest
<1>5. ASSUME NEW q \in rows PROVE NotEarlier(r, q)
  <2>1. r.created_at = t /\ q.created_at <= t BY <1>2
  <2>2. r.id \in Nat /\ q.id \in Nat /\ t \in Nat /\ q.created_at \in Nat BY DEF IdsBelow, DatedBy
  <2>3. q.created_at = t => q.id <= r.id BY <1>4
  <2>. HIDE DEF times, latest
  <2>. QED BY <2>1, <2>2, <2>3 DEF NotEarlier
<1>. QED BY <1>5

\* get_latest_hash hands the next row what it must carry.
LEMMA LatestHashHeads ==
    ASSUME NEW rows, NEW o, Chained(OfOrg(rows, o)),
           NEW n \in Nat, IdsBelow(rows, n), NEW c \in Nat, DatedBy(rows, c)
    PROVE  Heads(get_latest_hash(rows, o), OfOrg(rows, o))
<1>. DEFINE S == OfOrg(rows, o)
            latest == CHOOSE r \in S : \A q \in S : NotEarlier(r, q)
<1>1. S = {r \in rows : r.org = o} BY DEF OfOrg
<1>2. get_latest_hash(rows, o) = IF S = {} THEN NoHash ELSE latest.row_hash
  BY <1>1 DEF get_latest_hash
<1>3. IdsBelow(S, n) /\ DatedBy(S, c) BY <1>1 DEF IdsBelow, DatedBy
<1>. HIDE DEF S
<1>4. S # {} => \E r \in S : \A q \in S : NotEarlier(r, q)
  BY <1>3, LatestRow
<1>5. CASE S = {} BY <1>2, <1>5 DEF Heads, S
<1>6. CASE S # {}
  <2>1. latest \in S /\ \A q \in S : NotEarlier(latest, q) BY <1>4, <1>6
  <2>2. ASSUME InTimeOrder(S), NEW r \in S, \A x \in S : x.id <= r.id
        PROVE  latest = r
    <3>1. /\ latest.id \in Nat /\ r.id \in Nat /\ latest.created_at \in Nat
          /\ r.created_at \in Nat
      BY <1>3, <2>1 DEF IdsBelow, DatedBy
    <3>2. latest.id <= r.id /\ NotEarlier(latest, r) BY <2>1, <2>2
    <3>3. latest.id < r.id => latest.created_at <= r.created_at BY <2>1, <2>2 DEF InTimeOrder
    <3>4. latest.id = r.id BY <3>1, <3>2, <3>3 DEF NotEarlier
    <3>. QED BY <2>1, <3>4 DEF Chained, S
  <2>. HIDE DEF latest
  <2>. QED BY <1>2, <1>6, <2>1, <2>2 DEF Heads, S
<1>. QED BY <1>5, <1>6

\* A row that carries the head of the chain and has the highest id extends it,
\* and its hash is the new head.
LEMMA ChainGrows ==
    ASSUME NEW rows, NEW h, NEW row, NEW n \in Nat,
           Chained(rows), Heads(h, rows), IdsBelow(rows, n),
           row.id = n, row.prev_hash = h
    PROVE  Chained(rows \cup {row}) /\ Heads(row.row_hash, rows \cup {row})
<1>. DEFINE all == rows \cup {row}
<1>1. \A r \in rows : r.id \in Nat /\ r.id < n BY DEF IdsBelow
<1>2. \A q \in rows : Earlier(q, all) = Earlier(q, rows) BY <1>1 DEF Earlier
<1>3. Earlier(row, all) = rows BY <1>1 DEF Earlier
<1>4. InTimeOrder(all) => InTimeOrder(rows) BY DEF InTimeOrder
<1>5. \A r, q \in all : r.id = q.id => r = q BY <1>1 DEF Chained
<1>6. ASSUME NEW q \in all
      PROVE  /\ Earlier(q, all) = {} => q.prev_hash = NoHash
             /\ Earlier(q, all) # {} => q.prev_hash \in {r.row_hash : r \in Earlier(q, all)}
             /\ InTimeOrder(all) =>
                   \A r \in Earlier(q, all) :
                       (\A x \in Earlier(q, all) : x.id <= r.id) => q.prev_hash = r.row_hash
  <2>1. CASE q \in rows
    <3>1. Earlier(q, all) = Earlier(q, rows) BY <1>2, <2>1
    <3>. HIDE DEF all
    <3>. QED BY <1>4, <2>1, <3>1 DEF Chained
  <2>2. CASE q = row
    <3>1. Earlier(q, all) = rows BY <1>3, <2>2
    <3>. HIDE DEF all
    <3>. QED BY <1>4, <2>2, <3>1 DEF Heads
  <2>. QED BY <2>1, <2>2
<1>7. Chained(all)
  <2>. HIDE DEF all
  <2>. QED BY <1>5, <1>6 DEF Chained
<1>8. ASSUME NEW r \in all, \A x \in all : x.id <= r.id PROVE row.row_hash = r.row_hash
  BY <1>1, <1>8
<1>9. Heads(row.row_hash, all) BY <1>8 DEF Heads
<1>. QED BY <1>7, <1>9

LEMMA RowsInThePast ==
    ASSUME IInv, InThePast
    PROVE  /\ clock \in Nat /\ nextLid \in Nat
           /\ \A o \in Orgs : IdsBelow(OfOrg(log, o), nextLid)
           /\ \A d \in Drainers : /\ IdsBelow(log \cup mine[d], nextLid)
                                  /\ DatedBy(log \cup mine[d], clock)
                                  /\ IdsBelow(Seen(d), nextLid)
BY DEF IInv, TInv, TypeOK, IsLogRow, LogOrder, InThePast, IdsBelow, DatedBy, Seen, OfOrg

LEMMA InitChainInv == Init => ChainInv
BY NumbersAssumption
   DEF Init, ChainInv, InThePast, Seen, OfOrg, Chained, Earlier, InTimeOrder, Heads

LEMMA RequestChainInv ==
    ASSUME IInv, ChainInv, NEW w \in Writers, RequestStep(w)
    PROVE  ChainInv'
<1>t. /\ clock \in Nat /\ wbegan \in [Writers -> Nat] /\ wrows \in [Writers -> SUBSET PendingRows]
      /\ pending \subseteq PendingRows
      /\ \A r \in log : r.created_at \in Nat
      /\ \A d \in Drainers : \A r \in mine[d] : r.created_at \in Nat
  BY DEF IInv, TInv, TypeOK, IsLogRow
<1>1. UNCHANGED <<log, pc, dorg, prevHash, mine>> BY RequestFrame DEF drainerVars
<1>2. InThePast'
  <2>1. ASSUME NEW o \in Orgs, BeginRequest(w, o) PROVE InThePast'
    <3>1. PICK t \in {clock, clock + 1} : clock' = t /\ wbegan' = [wbegan EXCEPT ![w] = t]
      BY <2>1 DEF BeginRequest
    <3>2. UNCHANGED <<wrows, pending>> BY <2>1 DEF BeginRequest, tableVars
    <3>3. \A i \in Nat : i <= clock => i <= t BY <1>t, <3>1
    <3>4. /\ \A v \in Writers : wbegan[v] <= clock /\ \A p \in wrows[v] : p.created_at <= clock
          /\ \A v \in Writers : \A p \in wrows[v] : p.created_at \in Nat
          /\ \A p \in pending : p.created_at <= clock /\ p.created_at \in Nat
          /\ \A r \in log : r.created_at <= clock
          /\ \A d \in Drainers : \A r \in mine[d] : r.created_at <= clock
      BY <1>t DEF ChainInv, InThePast, PendingRows
    <3>5. \A v \in Writers : wbegan'[v] <= t BY <1>t, <3>1, <3>3, <3>4
    <3>. QED BY <1>t, <1>1, <3>1, <3>2, <3>3, <3>4, <3>5 DEF InThePast
  <2>2. CASE enqueue_audit_entry(w)
    <3>1. PendingRow(w).created_at = wbegan[w] BY DEF PendingRow
    <3>2. /\ wrows' = [wrows EXCEPT ![w] = @ \cup {PendingRow(w)}]
          /\ UNCHANGED <<clock, wbegan, pending>>
      BY <2>2 DEF enqueue_audit_entry, tableVars
    <3>. QED BY <1>t, <1>1, <3>1, <3>2 DEF ChainInv, InThePast
  <2>3. CASE CommitRequest(w) \/ AbortRequest(w)
    <3>1. /\ wrows' = [wrows EXCEPT ![w] = {}] /\ wbegan' = [wbegan EXCEPT ![w] = 0]
          /\ clock' = clock /\ pending' \in {pending, pending \cup wrows[w]}
      BY <2>3 DEF CommitRequest, AbortRequest, EndRequest, tableVars
    <3>2. \A p \in pending' : p.created_at <= clock BY <3>1 DEF ChainInv, InThePast
    <3>3. \A v \in Writers : wbegan'[v] <= clock BY <1>t, <3>1 DEF ChainInv, InThePast
    <3>4. \A v \in Writers : \A p \in wrows'[v] : p.created_at <= clock
      BY <1>t, <3>1 DEF ChainInv, InThePast
    <3>. QED BY <1>1, <3>1, <3>2, <3>3, <3>4 DEF ChainInv, InThePast
  <2>. QED BY <2>1, <2>2, <2>3 DEF RequestStep
<1>. QED BY <1>1, <1>2 DEF ChainInv, Seen

\* A drainer's statements before it commits.
LEMMA DrainerChainInv ==
    ASSUME IInv, ChainInv, NEW d \in Drainers, FlushStep(d) \/ AbortFlush(d), ~CommitFlush(d)
    PROVE  ChainInv'
<1>t. /\ pc \in [Drainers -> Statements] /\ dorg \in [Drainers -> Orgs]
      /\ DOMAIN mine = Drainers /\ DOMAIN prevHash = Drainers
      /\ batch \in [Drainers -> SUBSET PendingRows]
  BY DEF IInv, TInv, TypeOK
<1>1. UNCHANGED <<clock, pending, log, wbegan, wrows>>
  BY DEF FlushStep, BeginFlush, TryLock, SelectPending, ReadLatest, ReadLatestFrom, ChainRow,
         DeleteDrained, DeleteDrainedThen, AbortFlush, tableVars, writerVars
<1>2. /\ InThePast /\ \A o \in Orgs : Chained(OfOrg(log, o))
      /\ \A e \in Drainers : Chained(Seen(e)) /\ (pc[e] = "chain" => Heads(prevHash[e], Seen(e)))
  BY DEF ChainInv
\* Only the drainer's own rows matter; the others see what they saw.
<1>3. ASSUME \A e \in Drainers \ {d} :
                  /\ pc'[e] = pc[e] /\ dorg'[e] = dorg[e]
                  /\ prevHash'[e] = prevHash[e] /\ mine'[e] = mine[e],
             \A r \in mine'[d] : r.created_at <= clock,
             Chained(Seen(d))', pc'[d] = "chain" => Heads(prevHash[d], Seen(d))'
      PROVE  ChainInv'
  <2>1. ASSUME NEW e \in Drainers \ {d} PROVE Seen(e)' = Seen(e)
    BY <1>1, <1>3 DEF Seen
  <2>2. InThePast' BY <1>1, <1>2, <1>3 DEF InThePast
  <2>. QED BY <1>1, <1>2, <1>3, <2>1, <2>2 DEF ChainInv
<1>4. ASSUME NEW o \in Orgs, BeginFlush(d, o) PROVE ChainInv'
  <2>1. /\ pc[d] = "idle" /\ pc' = [pc EXCEPT ![d] = "lock"]
        /\ dorg' = [dorg EXCEPT ![d] = o]
        /\ UNCHANGED <<prevHash, mine>>
    BY <1>4 DEF BeginFlush
  <2>2. mine[d] = {} BY <2>1 DEF IInv, DrainInv, LocalsEmpty
  <2>3. Seen(d)' = OfOrg(log, o) BY <1>t, <1>1, <2>1, <2>2 DEF Seen
  <2>. QED BY <1>t, <1>2, <1>3, <2>1, <2>2, <2>3
<1>5. CASE TryLock(d) \/ SelectPending(d) \/ DeleteDrained(d)
  <2>1. /\ UNCHANGED <<dorg, mine>>
        /\ \/ pc' = [pc EXCEPT ![d] = "select"] \/ pc' = [pc EXCEPT ![d] = "done"]
           \/ pc' = [pc EXCEPT ![d] = "latest"] \/ pc' = [pc EXCEPT ![d] = "lock"]
        /\ prevHash' = prevHash \/ prevHash' = [prevHash EXCEPT ![d] = NoHash]
    BY <1>5 DEF TryLock, SelectPending, DeleteDrained, DeleteDrainedThen
  <2>2. Seen(d)' = Seen(d) BY <1>1, <2>1 DEF Seen
  <2>3. \A r \in mine'[d] : r.created_at <= clock BY <1>2, <2>1 DEF InThePast
  <2>. QED BY <1>t, <1>2, <1>3, <2>1, <2>2, <2>3
<1>6. CASE ReadLatest(d)
  <2>. DEFINE h == get_latest_hash(log \cup mine[d], dorg[d])
  <2>1. /\ pc' = [pc EXCEPT ![d] = "chain"] /\ prevHash' = [prevHash EXCEPT ![d] = h]
        /\ UNCHANGED <<dorg, mine>>
    BY <1>6 DEF ReadLatest, ReadLatestFrom
  <2>2. Seen(d)' = Seen(d) BY <1>1, <2>1 DEF Seen
  <2>3. Heads(h, Seen(d))
    <3>1. Chained(OfOrg(log \cup mine[d], dorg[d])) BY <1>2 DEF Seen
    <3>. QED BY <1>2, <3>1, LatestHashHeads, RowsInThePast DEF Seen
  <2>4. \A r \in mine'[d] : r.created_at <= clock BY <1>2, <2>1 DEF InThePast
  <2>. HIDE DEF h
  <2>5. prevHash'[d] = h BY <1>t, <2>1
  <2>6. Heads(prevHash[d], Seen(d))' BY <2>2, <2>3, <2>5 DEF Heads, InTimeOrder
  <2>. QED BY <1>t, <1>2, <1>3, <2>1, <2>2, <2>4, <2>6
<1>7. CASE ChainRow(d)
  <2>. DEFINE p   == HeadRow(batch[d])
              row == LogRow(nextLid, p, prevHash[d])
  <2>1. p \in batch[d] /\ p \in PendingRows
    BY <1>t, <1>7, HeadRowInSet DEF ChainRow
  <2>2. /\ pc[d] = "chain"
        /\ mine' = [mine EXCEPT ![d] = @ \cup {row}]
        /\ prevHash' = [prevHash EXCEPT ![d] = row.row_hash]
        /\ UNCHANGED <<pc, dorg>>
    BY <1>7 DEF ChainRow
  <2>3. p \in pending /\ p.org = dorg[d] BY <2>1 DEF IInv, DrainInv, BatchQueued
  <2>4. /\ row.org = dorg[d] /\ row.created_at <= clock
        /\ row.id = nextLid /\ row.prev_hash = prevHash[d]
    BY <1>2, <2>3 DEF LogRow, InThePast
  <2>. HIDE DEF p, row
  <2>5. mine'[d] = mine[d] \cup {row} /\ prevHash'[d] = row.row_hash BY <1>t, <2>2
  <2>6. Seen(d)' = Seen(d) \cup {row} BY <1>1, <2>2, <2>4, <2>5 DEF Seen, OfOrg
  <2>7. Chained(Seen(d) \cup {row}) /\ Heads(row.row_hash, Seen(d) \cup {row})
    <3>1. Chained(Seen(d)) /\ Heads(prevHash[d], Seen(d)) BY <1>2, <2>2
    <3>2. nextLid \in Nat /\ IdsBelow(Seen(d), nextLid) BY <1>2, RowsInThePast
    <3>. QED BY <2>4, <3>1, <3>2, ChainGrows
  <2>8. \A r \in mine'[d] : r.created_at <= clock BY <1>2, <2>4, <2>5 DEF InThePast
  <2>9. Chained(Seen(d))' /\ Heads(prevHash[d], Seen(d))'
    BY <2>5, <2>6, <2>7 DEF Chained, Heads, Earlier, InTimeOrder
  <2>10. \A e \in Drainers \ {d} : mine'[e] = mine[e] /\ prevHash'[e] = prevHash[e]
    BY <1>t, <2>2
  <2>. QED BY <1>3, <2>2, <2>8, <2>9, <2>10
<1>8. CASE AbortFlush(d)
  <2>1. /\ pc' = [pc EXCEPT ![d] = "idle"] /\ dorg' = [dorg EXCEPT ![d] = AnyOrg]
        /\ prevHash' = [prevHash EXCEPT ![d] = NoHash] /\ mine' = [mine EXCEPT ![d] = {}]
    BY <1>8 DEF AbortFlush, EndFlush
  <2>2. Seen(d)' = OfOrg(log, AnyOrg) /\ mine'[d] = {} BY <1>t, <1>1, <2>1 DEF Seen
  <2>. QED BY <1>t, <1>2, <1>3, <2>1, <2>2, AnyOrgIsOrg
<1>. QED BY <1>4, <1>5, <1>6, <1>7, <1>8 DEF FlushStep

\* The commit makes what the drainer sees of its tenant the tenant's chain.
LEMMA CommitFlushChainInv ==
    ASSUME IInv, ChainInv, NEW d \in Drainers, CommitFlush(d)
    PROVE  ChainInv'
<1>t. /\ pc \in [Drainers -> Statements] /\ dorg \in [Drainers -> Orgs]
      /\ DOMAIN mine = Drainers /\ DOMAIN prevHash = Drainers
  BY DEF IInv, TInv, TypeOK
<1>1. /\ log' = log \cup mine[d] /\ pending' \subseteq pending
      /\ pc' = [pc EXCEPT ![d] = "idle"] /\ dorg' = [dorg EXCEPT ![d] = AnyOrg]
      /\ prevHash' = [prevHash EXCEPT ![d] = NoHash] /\ mine' = [mine EXCEPT ![d] = {}]
      /\ UNCHANGED <<clock, wbegan, wrows>>
  BY DEF CommitFlush, EndFlush, writerVars
<1>2. /\ InThePast /\ \A o \in Orgs : Chained(OfOrg(log, o))
      /\ \A e \in Drainers : Chained(Seen(e)) /\ (pc[e] = "chain" => Heads(prevHash[e], Seen(e)))
  BY DEF ChainInv
<1>3. \A r \in mine[d] : r.org = dorg[d] BY DEF IInv, DrainInv, MineQueued
<1>4. ASSUME NEW o \in Orgs PROVE Chained(OfOrg(log', o))
  <2>1. CASE o = dorg[d]
    <3>1. OfOrg(log', o) = Seen(d) BY <1>1, <2>1 DEF Seen
    <3>. QED BY <1>2, <3>1
  <2>2. CASE o # dorg[d]
    <3>1. OfOrg(log', o) = OfOrg(log, o) BY <1>1, <1>3, <2>2 DEF OfOrg
    <3>. QED BY <1>2, <3>1
  <2>. QED BY <2>1, <2>2
<1>5. InThePast'
  <2>1. \A r \in log' : r.created_at <= clock BY <1>1, <1>2 DEF InThePast
  <2>. QED BY <1>t, <1>1, <1>2, <2>1 DEF InThePast
<1>6. ASSUME NEW e \in Drainers
      PROVE  Chained(Seen(e)') /\ (pc'[e] = "chain" => Heads(prevHash'[e], Seen(e)'))
  <2>1. CASE e = d
    <3>1. Seen(e)' = OfOrg(log', AnyOrg) /\ pc'[e] = "idle"
      BY <1>t, <1>1, <2>1 DEF Seen
    <3>. QED BY <1>4, <3>1, AnyOrgIsOrg
  <2>2. CASE e # d
    <3>1. UNCHANGED <<pc[e], dorg[e], prevHash[e], mine[e]>> BY <1>t, <1>1, <2>2
\* Another drainer with rows or a head hash holds its tenant's lock.
    <3>2. CASE mine[e] # {} \/ pc[e] = "chain"
      <4>1. mine[d] # {} => dorg[d] # dorg[e]
        <5>1. HoldsKey(e) BY <3>2 DEF IInv, DrainInv, LockHeld
        <5>2. mine[d] # {} => HoldsKey(d) BY DEF IInv, DrainInv, LockHeld
        <5>3. holds[d] \cap holds[e] = {} BY <2>2 DEF IInv, LocksExclusive
        <5>. QED BY <5>1, <5>2, <5>3 DEF HoldsKey
      <4>2. Seen(e)' = Seen(e) BY <1>1, <1>3, <3>1, <4>1 DEF Seen, OfOrg
      <4>. QED BY <1>2, <3>1, <4>2
    <3>3. CASE mine[e] = {} /\ pc[e] # "chain"
      <4>1. Seen(e)' = OfOrg(log', dorg[e]) BY <3>1, <3>3 DEF Seen
      <4>. QED BY <1>t, <1>4, <3>1, <3>3, <4>1
    <3>. QED BY <3>2, <3>3
  <2>. QED BY <2>1, <2>2
<1>. QED BY <1>4, <1>5, <1>6 DEF ChainInv

LEMMA NextChainInv == IInv /\ ChainInv /\ [Next]_vars => ChainInv'
<1>. SUFFICES ASSUME IInv, ChainInv, [Next]_vars PROVE ChainInv'
  OBVIOUS
<1>1. CASE PeriodicPoll \/ UNCHANGED vars
  BY <1>1 DEF PeriodicPoll, vars, tableVars, writerVars, drainerVars, ChainInv, InThePast, Seen
<1>. QED BY <1>1, RequestChainInv, DrainerChainInv, CommitFlushChainInv DEF Next, FlushStep

LEMMA SpecChainInv == Spec => []ChainInv
BY SpecInv, InitChainInv, NextChainInv, PTL DEF Spec

\* Whatever the clocks and however drainers interleave, no chain starts twice
\* and every row links to the hash of an earlier row of its tenant.
THEOREM RowsLinkBack == Spec => []LinksBack
<1>1. IInv /\ ChainInv => LinksBack
  <2>. SUFFICES ASSUME IInv, ChainInv, NEW q \in log
                PROVE  LET earlier == {r \in log : r.org = q.org /\ r.id < q.id}
                       IN  IF earlier = {} THEN q.prev_hash = NoHash
                           ELSE q.prev_hash \in {r.row_hash : r \in earlier}
    BY DEF LinksBack
  <2>. DEFINE S == OfOrg(log, q.org)
  <2>1. q.org \in Orgs BY DEF IInv, TInv, TypeOK, IsLogRow
  <2>2. Chained(S) /\ q \in S BY <2>1 DEF ChainInv, OfOrg
  <2>3. {r \in log : r.org = q.org /\ r.id < q.id} = Earlier(q, S) BY DEF OfOrg, Earlier
  <2>. HIDE DEF S
  <2>. QED BY <2>2, <2>3 DEF Chained
<1>. QED BY <1>1, SpecInv, SpecChainInv, PTL

\* While a log is in timestamp order, its id order is its hash chain: each row
\* carries the hash of the row before it.
THEOREM OrderedLogIsLinear == Spec => []LinearWhenOrdered
<1>1. IInv /\ ChainInv => LinearWhenOrdered
  <2>. SUFFICES ASSUME IInv, ChainInv,
                       \A r, q \in log : r.org = q.org /\ r.id < q.id => r.created_at <= q.created_at,
                       NEW q \in log
                PROVE  q.prev_hash = (IF \E r \in log : Follows(r, q)
                                      THEN (CHOOSE r \in log : Follows(r, q)).row_hash ELSE NoHash)
    BY DEF LinearWhenOrdered, LinearChain
  <2>. DEFINE S == OfOrg(log, q.org)
              E == Earlier(q, S)
  <2>1. q.org \in Orgs /\ nextLid \in Nat /\ \A r \in log : r.id \in Nat
    BY DEF IInv, TInv, TypeOK, IsLogRow
  <2>2. Chained(S) /\ q \in S BY <2>1 DEF ChainInv, OfOrg
  <2>3. InTimeOrder(S) BY DEF InTimeOrder, OfOrg
  <2>4. IdsBelow(E, nextLid) BY <2>1 DEF IdsBelow, Earlier, OfOrg, IInv, LogOrder
  <2>5. \A r \in E : r \in log /\ r.org = q.org /\ r.id < q.id BY DEF Earlier, OfOrg
  <2>6. \A r \in log : r.org = q.org /\ r.id < q.id => r \in E BY DEF Earlier, OfOrg
  <2>. HIDE DEF S, E
  <2>7. ASSUME NEW r \in log, Follows(r, q) PROVE q.prev_hash = r.row_hash
    <3>1. r \in E BY <2>6, <2>7 DEF Follows
    <3>2. ASSUME NEW x \in E PROVE x.id <= r.id
      <4>1. x \in log /\ x.org = q.org /\ x.id < q.id /\ r.org = q.org BY <2>5, <2>7 DEF Follows
      <4>2. ~(r.id < x.id) BY <2>7, <4>1 DEF Follows
      <4>3. x.id \in Nat /\ r.id \in Nat BY <2>1, <4>1
      <4>. QED BY <4>2, <4>3
    <3>. QED BY <2>2, <2>3, <3>1, <3>2 DEF Chained, E
  <2>8. CASE \E r \in log : Follows(r, q) BY <2>7, <2>8
  <2>9. CASE ~\E r \in log : Follows(r, q)
    <3>1. ASSUME E # {} PROVE FALSE
      <4>1. PICK r \in E : \A x \in E : x.id <= r.id BY <2>1, <2>4, <3>1, LastRow
      <4>2. r \in log /\ r.org = q.org /\ r.id < q.id BY <2>5
      <4>3. ASSUME NEW x \in log, x.org = r.org, r.id < x.id, x.id < q.id PROVE FALSE
        <5>1. x.id <= r.id BY <2>6, <4>1, <4>2, <4>3
        <5>. QED BY <2>1, <4>2, <4>3, <5>1
      <4>. QED BY <2>9, <4>2, <4>3 DEF Follows
    <3>. QED BY <2>2, <2>9, <3>1 DEF Chained, E
  <2>. QED BY <2>8, <2>9
<1>. QED BY <1>1, SpecInv, SpecChainInv, PTL
=============================================================================
