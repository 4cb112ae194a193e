-------------------------- MODULE RecallBatchProofs --------------------------
(***************************************************************************)
(* Proofs about RecallBatch, for any tenants, memories and bounds.  Each   *)
(* step moves increments of a key from one place to another, so their sum  *)
(* stands still.  What shutdown_batcher owes is, when it is called, in the *)
(* column, in a snapshot or queued; the queue goes into the hook's own     *)
(* snapshot at once; and both snapshots are empty when the hook returns.   *)
(***************************************************************************)
EXTENDS RecallBatch, TLAPS

\* A snapshot is empty once its tenants are settled.
SnapshotsSettled ==
    \A f \in Flushers : \A k \in Keys : snapshot[f][k] > 0 => k[1] \in orgs[f]

\* The hook's place in shutdown_batcher and the drain task's in its loop.
Places ==
    /\ orgs["drain"] # {} => drain = "flushing"
    /\ orgs["hook"] # {} => hook = "flush"
    /\ hook \in {"close", "down"} => closed
    /\ hook = "down" => drain = "done"

\* Without a failure nothing is dropped that has a row, and what the hook owes is
\* held by a flusher or written.
OwedHeld ==
    /\ faults = 0 => \A k \in Keys \ erased : dropped[k] = 0
    /\ hook # "idle" =>
          \A k \in Keys : owed[k] <= recall_count[k] + dropped[k]
                                     + snapshot["drain"][k] + snapshot["hook"][k]

IInv == TypeOK /\ EachBumpOnce /\ SnapshotsSettled /\ Places /\ OwedHeld

-----------------------------------------------------------------------------
LEMMA KeyParts == ASSUME NEW k \in Keys PROVE k[1] \in Orgs
    BY DEF Keys

\* What a flusher holds of one tenant, and the sum of two counts, are counts.
LEMMA ShareType ==
    ASSUME TypeOK, NEW f \in Flushers, NEW o \in Orgs
    PROVE  Share(f, o) \in Counts
    BY DEF TypeOK, Counts, Share

LEMMA PlusType ==
    ASSUME NEW g \in Counts, NEW h \in Counts
    PROVE  Plus(g, h) \in Counts
    BY DEF Counts, Plus

\* The two flushers, by name.
LEMMA FlusherNames == "drain" \in Flushers /\ "hook" \in Flushers
    BY DEF Flushers

\* The initial state.
LEMMA InitIInv == Init => IInv
<1> SUFFICES ASSUME Init PROVE IInv
    OBVIOUS
<1>1. TypeOK
    <2>1. Zero \in Counts
        BY DEF Counts, Zero
    <2>2. 0 \in 0 .. MaxFaults
        BY BoundsAssumption
    <2> QED
        BY <2>1, <2>2 DEF Init, TypeOK
<1>2. EachBumpOnce /\ SnapshotsSettled /\ OwedHeld
    BY FlusherNames DEF Init, EachBumpOnce, SnapshotsSettled, OwedHeld, Zero
<1>3. Places
    BY FlusherNames DEF Init, Places
<1> QED
    BY <1>1, <1>2, <1>3 DEF IInv

-----------------------------------------------------------------------------
(* One lemma per action *)

\* bump adds to the queue and to the history alike.
LEMMA BumpIInv ==
    ASSUME IInv, NEW o \in Orgs, NEW ids \in SUBSET Mems, bump(o, ids)
    PROVE  IInv'
<1> USE FlusherNames DEF IInv
<1>1. TypeOK'
    BY DEF TypeOK, Counts, bump, StartDrain
<1>2. EachBumpOnce'
    BY DEF TypeOK, Counts, bump, EachBumpOnce
<1>3. SnapshotsSettled' /\ OwedHeld'
    BY DEF bump, SnapshotsSettled, OwedHeld
<1>4. Places'
    BY DEF TypeOK, bump, Places, StartDrain
<1> QED
    BY <1>1, <1>2, <1>3, <1>4

\* An UPDATE moves a tenant's share from a snapshot to the column, or to what is
\* dropped where there is no row.
LEMMA UpdateOrgIInv ==
    ASSUME IInv, NEW f \in Flushers, NEW o \in Orgs, UpdateOrg(f, o)
    PROVE  IInv'
<1> DEFINE found == [k \in Keys |-> IF k \in erased THEN 0 ELSE Share(f, o)[k]]
           missed == [k \in Keys |-> IF k \in erased THEN Share(f, o)[k] ELSE 0]
<1> USE FlusherNames DEF IInv
<1>1. found \in Counts /\ missed \in Counts
    BY ShareType DEF Counts
<1>2. /\ recall_count' = Plus(recall_count, found) /\ dropped' = Plus(dropped, missed)
      /\ SettleOrg(f, o) /\ UNCHANGED <<pending, drain, closed, hook, erased, accepted, owed, faults>>
    BY DEF UpdateOrg
<1>3. ASSUME NEW k \in Keys
      PROVE  /\ recall_count'[k] = recall_count[k] + found[k]
             /\ dropped'[k] = dropped[k] + missed[k]
             /\ found[k] + missed[k] = Share(f, o)[k]
             /\ k \notin erased => missed[k] = 0
             /\ snapshot'[f][k] = snapshot[f][k] - Share(f, o)[k]
             /\ \A g \in Flushers \ {f} : snapshot'[g] = snapshot[g]
    <2>1. /\ snapshot'[f][k] = snapshot[f][k] - Share(f, o)[k]
          /\ \A g \in Flushers \ {f} : snapshot'[g] = snapshot[g]
        BY <1>2 DEF TypeOK, Counts, SettleOrg, Share
    <2>2. Share(f, o)[k] \in Nat
        BY ShareType DEF Counts
    <2>3. /\ found[k] + missed[k] = Share(f, o)[k]
          /\ k \notin erased => missed[k] = 0
        BY <2>2
    <2> HIDE DEF found, missed
    <2> QED
        BY <1>2, <2>1, <2>3 DEF Plus
<1> HIDE DEF found, missed
<1>4. TypeOK'
    <2>1. recall_count' \in Counts /\ dropped' \in Counts
        BY <1>1, <1>2, PlusType DEF TypeOK
    <2> QED
        BY <1>2, <2>1 DEF TypeOK, Counts, SettleOrg
<1>5. EachBumpOnce'
    BY <1>1, <1>2, <1>3, ShareType DEF TypeOK, Counts, EachBumpOnce, Flushers
<1>6. SnapshotsSettled'
    BY <1>2, <1>3 DEF TypeOK, Counts, SettleOrg, SnapshotsSettled
<1>7. Places'
    BY <1>2 DEF TypeOK, SettleOrg, Places
<1>8. OwedHeld'
    BY <1>1, <1>2, <1>3, ShareType DEF TypeOK, Counts, OwedHeld, Flushers
<1> QED
    BY <1>4, <1>5, <1>6, <1>7, <1>8

\* A failed UPDATE moves it to what is dropped.
LEMMA UpdateFailsIInv ==
    ASSUME IInv, NEW f \in Flushers, NEW o \in Orgs, UpdateFails(f, o)
    PROVE  IInv'
<1> USE FlusherNames DEF IInv
<1>1. TypeOK'
    <2>1. Plus(dropped, Share(f, o)) \in Counts
        BY ShareType, PlusType DEF TypeOK
    <2>2. faults' \in 0 .. MaxFaults
        BY BoundsAssumption DEF TypeOK, UpdateFails
    <2> QED
        BY <2>1, <2>2 DEF TypeOK, Counts, UpdateFails, SettleOrg
<1>2. ASSUME NEW k \in Keys
      PROVE  /\ dropped'[k] = dropped[k] + Share(f, o)[k]
             /\ snapshot'[f][k] = snapshot[f][k] - Share(f, o)[k]
             /\ \A g \in Flushers \ {f} : snapshot'[g] = snapshot[g]
    BY DEF TypeOK, Counts, UpdateFails, SettleOrg, Share, Plus
<1>3. EachBumpOnce'
    BY <1>2, ShareType DEF TypeOK, Counts, UpdateFails, EachBumpOnce, Flushers
<1>4. SnapshotsSettled'
    BY <1>2 DEF TypeOK, Counts, UpdateFails, SettleOrg, SnapshotsSettled
<1>5. Places'
    BY DEF TypeOK, UpdateFails, SettleOrg, Places
<1>6. OwedHeld'
    <2>1. faults' # 0
        BY DEF TypeOK, UpdateFails
    <2> QED
        BY <2>1, <1>2, ShareType DEF TypeOK, Counts, UpdateFails, OwedHeld, Flushers
<1> QED
    BY <1>1, <1>3, <1>4, <1>5, <1>6

\* A flusher that holds nothing takes the whole queue.
LEMMA TakeQueueMoves ==
    ASSUME IInv, NEW f \in Flushers, orgs[f] = {}, TakeQueue(f)
    PROVE  /\ snapshot' \in [Flushers -> Counts] /\ pending' \in Counts
           /\ orgs' \in [Flushers -> SUBSET Orgs]
           /\ \A k \in Keys : /\ snapshot[f][k] = 0 /\ pending'[k] = 0
                              /\ snapshot'[f][k] = pending[k]
                              /\ snapshot'[f][k] > 0 => k[1] \in orgs'[f]
           /\ \A g \in Flushers \ {f} : snapshot'[g] = snapshot[g] /\ orgs'[g] = orgs[g]
<1> USE DEF IInv
<1>1. snapshot' \in [Flushers -> Counts] /\ pending' \in Counts
    BY DEF TypeOK, Counts, TakeQueue, Zero
<1>2. {k[1] : k \in Queued} \in SUBSET Orgs
    BY KeyParts DEF Queued
<1>3. orgs' \in [Flushers -> SUBSET Orgs]
    BY <1>2 DEF TypeOK, TakeQueue
<1>4. ASSUME NEW k \in Keys
      PROVE  /\ snapshot[f][k] = 0 /\ pending'[k] = 0
             /\ snapshot'[f][k] = pending[k]
             /\ snapshot'[f][k] > 0 => k[1] \in orgs'[f]
    BY DEF TypeOK, Counts, TakeQueue, Zero, Queued, SnapshotsSettled
<1>5. \A g \in Flushers \ {f} : snapshot'[g] = snapshot[g] /\ orgs'[g] = orgs[g]
    BY DEF TypeOK, TakeQueue
<1> QED
    BY <1>1, <1>3, <1>4, <1>5

\* The drain task's own steps.
LEMMA DrainStepIInv ==
    ASSUME IInv, DrainStep
    PROVE  IInv'
<1> USE FlusherNames DEF IInv
<1>1. CASE DrainWake /\ TakeQueue("drain") /\ drain' = "flushing"
    <2>1. orgs["drain"] = {}
        BY <1>1 DEF Places, DrainWake
    <2>2. /\ snapshot' \in [Flushers -> Counts] /\ pending' \in Counts
          /\ orgs' \in [Flushers -> SUBSET Orgs]
          /\ \A k \in Keys : /\ snapshot["drain"][k] = 0 /\ pending'[k] = 0
                             /\ snapshot'["drain"][k] = pending[k]
                             /\ snapshot'["drain"][k] > 0 => k[1] \in orgs'["drain"]
          /\ snapshot'["hook"] = snapshot["hook"] /\ orgs'["hook"] = orgs["hook"]
        BY <1>1, <2>1, TakeQueueMoves
    <2>3. TypeOK'
        BY <1>1, <2>2 DEF TypeOK, DrainWake, histVars
    <2>4. EachBumpOnce'
        BY <1>1, <2>2 DEF TypeOK, Counts, DrainWake, EachBumpOnce, histVars
    <2>5. SnapshotsSettled'
        BY <2>2 DEF SnapshotsSettled, Flushers
    <2>6. Places'
        BY <1>1, <2>2 DEF DrainWake, Places
    <2>7. OwedHeld'
        BY <1>1, <2>2 DEF TypeOK, Counts, DrainWake, OwedHeld, histVars
    <2> QED
        BY <2>3, <2>4, <2>5, <2>6, <2>7
<1>2. CASE UNCHANGED <<queueVars, closed, hook, recall_count, erased, histVars, faults>>
           /\ drain' \in {"waiting", "done"} /\ orgs["drain"] = {}
           /\ (closed => drain' = "done")
    <2>1. TypeOK'
        BY <1>2 DEF TypeOK, queueVars, histVars
    <2>2. EachBumpOnce' /\ SnapshotsSettled' /\ OwedHeld'
        BY <1>2 DEF EachBumpOnce, SnapshotsSettled, OwedHeld, queueVars, histVars
    <2>3. Places'
        BY <1>2 DEF Places, queueVars
    <2> QED
        BY <2>1, <2>2, <2>3
<1> QED
    BY <1>1, <1>2 DEF DrainStep, DrainWake, DrainFlushed, AfterRound, Places

\* shutdown_batcher is called: what it owes is where EachBumpOnce says.
LEMMA ShutdownBeginsIInv ==
    ASSUME IInv, ShutdownBegins
    PROVE  IInv'
<1> USE FlusherNames DEF IInv
<1>1. orgs["hook"] = {}
    BY DEF ShutdownBegins, Places
<1>2. CASE TakeQueue("hook") /\ hook' = "flush" /\ UNCHANGED closed
    <2>1. /\ snapshot' \in [Flushers -> Counts] /\ pending' \in Counts
          /\ orgs' \in [Flushers -> SUBSET Orgs]
          /\ \A k \in Keys : /\ snapshot["hook"][k] = 0 /\ pending'[k] = 0
                             /\ snapshot'["hook"][k] = pending[k]
                             /\ snapshot'["hook"][k] > 0 => k[1] \in orgs'["hook"]
          /\ snapshot'["drain"] = snapshot["drain"] /\ orgs'["drain"] = orgs["drain"]
        BY <1>1, <1>2, TakeQueueMoves
    <2>2. TypeOK'
        BY <1>2, <2>1 DEF TypeOK, ShutdownBegins
    <2>3. EachBumpOnce'
        BY <1>2, <2>1 DEF TypeOK, Counts, ShutdownBegins, EachBumpOnce
    <2>4. SnapshotsSettled'
        BY <2>1 DEF SnapshotsSettled, Flushers
    <2>5. Places'
        BY <1>2, <2>1 DEF ShutdownBegins, Places
    <2>6. OwedHeld'
        BY <2>1 DEF TypeOK, Counts, ShutdownBegins, OwedHeld, EachBumpOnce
    <2> QED
        BY <2>2, <2>3, <2>4, <2>5, <2>6
<1>3. CASE Queued = {} /\ hook' = "close" /\ closed' = TRUE /\ UNCHANGED queueVars
    <2>1. \A k \in Keys : pending[k] = 0
        BY <1>3 DEF Queued, TypeOK, Counts
    <2>2. TypeOK'
        BY <1>3 DEF TypeOK, ShutdownBegins, queueVars
    <2>3. EachBumpOnce' /\ SnapshotsSettled'
        BY <1>3 DEF ShutdownBegins, EachBumpOnce, SnapshotsSettled, queueVars
    <2>4. Places'
        BY <1>1, <1>3 DEF ShutdownBegins, Places, queueVars
    <2>5. OwedHeld'
        BY <1>3, <2>1 DEF TypeOK, Counts, ShutdownBegins, OwedHeld, EachBumpOnce, queueVars
    <2> QED
        BY <2>2, <2>3, <2>4, <2>5
<1> QED
    BY <1>2, <1>3 DEF ShutdownBegins

\* The hook moves on.
LEMMA HookStepIInv ==
    ASSUME IInv, HookStep
    PROVE  IInv'
<1> USE FlusherNames DEF IInv
<1>1. /\ UNCHANGED <<queueVars, drain, recall_count, erased, histVars, faults>>
      /\ hook # "idle" /\ orgs["hook"] = {} /\ closed' = TRUE
      /\ hook' = "close" \/ (hook' = "down" /\ drain = "done")
    <2>1. CASE FlushPendingReturns
        BY <2>1 DEF FlushPendingReturns
    <2>2. CASE AcloseReturns
        <3>1. closed = TRUE
            BY <2>2 DEF AcloseReturns, Places, TypeOK
        <3> QED
            BY <2>2, <3>1 DEF AcloseReturns, Places
    <2> QED
        BY <2>1, <2>2 DEF HookStep
<1>2. TypeOK'
    BY <1>1 DEF TypeOK, queueVars, histVars
<1>3. EachBumpOnce' /\ SnapshotsSettled' /\ OwedHeld'
    BY <1>1 DEF EachBumpOnce, SnapshotsSettled, OwedHeld, queueVars, histVars
<1>4. Places'
    BY <1>1 DEF Places, queueVars
<1> QED
    BY <1>2, <1>3, <1>4

\* The close gives up on the task: what the task holds is dropped.
LEMMA AcloseTimesOutIInv ==
    ASSUME IInv, AcloseTimesOut
    PROVE  IInv'
<1> USE FlusherNames DEF IInv
<1>1. faults' \in 0 .. MaxFaults /\ faults' # 0
    BY BoundsAssumption DEF TypeOK, AcloseTimesOut
<1>2. Plus(dropped, snapshot["drain"]) \in Counts
    BY PlusType DEF TypeOK
<1>3. TypeOK'
    BY <1>1, <1>2 DEF TypeOK, Counts, AcloseTimesOut, Zero
<1>4. /\ \A k \in Keys : /\ dropped'[k] = dropped[k] + snapshot["drain"][k]
                         /\ snapshot'["drain"][k] = 0
      /\ snapshot'["hook"] = snapshot["hook"] /\ orgs'["hook"] = orgs["hook"]
      /\ orgs'["drain"] = {}
    BY DEF TypeOK, Counts, AcloseTimesOut, Zero, Plus, Flushers
<1>5. EachBumpOnce'
    BY <1>4 DEF TypeOK, Counts, AcloseTimesOut, EachBumpOnce
<1>6. SnapshotsSettled'
    BY <1>4 DEF SnapshotsSettled, Flushers
<1>7. Places'
    BY <1>4 DEF AcloseTimesOut, Places
<1>8. OwedHeld'
    BY <1>1, <1>4 DEF TypeOK, Counts, AcloseTimesOut, OwedHeld
<1> QED
    BY <1>3, <1>5, <1>6, <1>7, <1>8

\* A memory goes: less is owed to the column.
LEMMA HardDeleteIInv == ASSUME IInv, HardDelete PROVE IInv'
<1> USE DEF IInv
<1>1. TypeOK'
    BY DEF TypeOK, HardDelete, queueVars, histVars
<1>2. EachBumpOnce' /\ SnapshotsSettled' /\ Places'
    BY DEF HardDelete, EachBumpOnce, SnapshotsSettled, Places, queueVars, histVars
<1>3. OwedHeld'
    BY DEF HardDelete, OwedHeld, queueVars, histVars
<1> QED
    BY <1>1, <1>2, <1>3

-----------------------------------------------------------------------------
(* The theorems *)

LEMMA StutterIInv == IInv /\ UNCHANGED vars => IInv'
    BY DEF IInv, TypeOK, EachBumpOnce, SnapshotsSettled, Places, OwedHeld, vars,
           queueVars, histVars

LEMMA NextIInv == IInv /\ [Next]_vars => IInv'
<1> SUFFICES ASSUME IInv, Next PROVE IInv'
    BY StutterIInv
<1>1. CASE Recall
    BY <1>1, BumpIInv DEF Recall
<1>2. CASE Write
    BY <1>2, UpdateOrgIInv, UpdateFailsIInv DEF Write
<1> QED
    BY <1>1, <1>2, DrainStepIInv, ShutdownBeginsIInv, HookStepIInv, AcloseTimesOutIInv,
       HardDeleteIInv
    DEF Next

LEMMA SpecIInv == Spec => []IInv
    BY InitIInv, NextIInv, PTL DEF Spec

\* The variables keep their types.
THEOREM BatchTypeCorrect == Spec => []TypeOK
<1>1. IInv => TypeOK
    BY DEF IInv
<1> QED
    BY <1>1, SpecIInv, PTL

\* No increment bump() took is lost from sight or counted twice.
THEOREM BatchEachBumpOnce == Spec => []EachBumpOnce
<1>1. IInv => EachBumpOnce
    BY DEF IInv
<1> QED
    BY <1>1, SpecIInv, PTL

\* Nothing is left in a snapshot nobody is writing.
THEOREM BatchNothingStranded == Spec => []NothingStranded
<1>1. IInv => NothingStranded
    BY DEF IInv, SnapshotsSettled, Places, NothingStranded
<1> QED
    BY <1>1, SpecIInv, PTL

\* A shutdown without failures writes everything taken before it was called, of
\* memories there still are.
THEOREM BatchShutdownKeepsEarlier == Spec => []ShutdownKeepsEarlier
<1>1. IInv => ShutdownKeepsEarlier
    <2> SUFFICES ASSUME IInv, hook = "down", faults = 0, NEW k \in Keys \ erased
                 PROVE  recall_count[k] >= owed[k]
        BY DEF ShutdownKeepsEarlier
    <2>1. orgs["drain"] = {} /\ orgs["hook"] = {}
        BY DEF IInv, Places
    <2>2. snapshot["drain"][k] = 0 /\ snapshot["hook"][k] = 0
        BY <2>1, FlusherNames DEF IInv, TypeOK, Counts, SnapshotsSettled
    <2>3. dropped[k] = 0
        BY DEF IInv, OwedHeld
    <2>4. recall_count[k] \in Nat /\ owed[k] \in Nat
        BY DEF IInv, TypeOK, Counts
    <2> QED
        BY <2>2, <2>3, <2>4 DEF IInv, OwedHeld
<1> QED
    BY <1>1, SpecIInv, PTL
=============================================================================
