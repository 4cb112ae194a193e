----------------------------- MODULE RecallBatch -----------------------------
(***************************************************************************)
(* RecallCountBatcher of engine/recall_batch.py: one process coalesces     *)
(* recall_count increments in memory and writes them in batches.           *)
(*                                                                         *)
(* Everything runs on one event loop, so code between two awaits is one    *)
(* step.  Two coroutines flush: the drain task that the first bump starts, *)
(* and the shutdown hook.  Each swaps the queue for an empty one and then  *)
(* awaits one UPDATE per tenant; bumps arrive during those awaits.         *)
(*                                                                         *)
(* The drain task waits for _wake or for its window to pass.  The model    *)
(* has no clock: the window may pass at any moment, so _wake, which only   *)
(* ends the wait sooner, and the force-flush at max_queue, which only sets *)
(* _wake, leave no trace in the state.                                     *)
(***************************************************************************)
EXTENDS Integers

CONSTANTS
    Orgs,       \* tenants
    Mems,       \* memories of a tenant
    MaxBumps,   \* bound: increments a key may receive
    MaxFaults   \* bound: UPDATEs that fail, plus closes that time out

ASSUME BoundsAssumption == MaxBumps \in Nat /\ MaxFaults \in Nat

Keys == Orgs \X Mems
Flushers == {"drain", "hook"}

VARIABLES
    pending,        \* _pending: key -> queued increments (0: no entry)
    snapshot,       \* flusher -> increments it took and has not written yet
    orgs,           \* flusher -> tenants of its snapshot still to write
    drain,          \* _drain_task
    closed,         \* _closed
    hook,           \* shutdown_batcher's progress
    recall_count,   \* the column in the database
    erased,         \* keys whose row has been hard-deleted
    accepted,       \* history: increments bump() took
    dropped,        \* history: increments lost to a failed or cancelled UPDATE, or
                    \* to one that found no row
    owed,           \* history: accepted when shutdown_batcher was called
    faults          \* failures so far

queueVars == <<pending, snapshot, orgs>>
histVars  == <<accepted, dropped, owed>>
vars == <<queueVars, drain, closed, hook, recall_count, erased, histVars, faults>>

Zero == [k \in Keys |-> 0]
Queued == {k \in Keys : pending[k] > 0}

Init ==
    /\ pending = Zero
    /\ snapshot = [f \in Flushers |-> Zero]
    /\ orgs = [f \in Flushers |-> {}]
    /\ drain = "none" /\ closed = FALSE /\ hook = "idle"
    /\ recall_count = Zero /\ erased = {}
    /\ accepted = Zero /\ dropped = Zero /\ owed = Zero
    /\ faults = 0

-----------------------------------------------------------------------------
\* Faulty variant: the lazy start is forgotten.
StartDrainForgotten == drain

\* _drain_task after a bump: started lazily, and again when it has ended.
StartDrain == IF drain \in {"none", "done"} THEN "waiting" ELSE drain

\* bump(org, ids); once closed it returns at once and changes nothing.
bump(o, ids) ==
    /\ ~closed /\ hook # "down"
    /\ \A m \in ids : accepted[<<o, m>>] < MaxBumps
    /\ LET hit == {o} \X ids
       IN  /\ pending' = [k \in Keys |-> IF k \in hit THEN pending[k] + 1 ELSE pending[k]]
           /\ accepted' = [k \in Keys |-> IF k \in hit THEN accepted[k] + 1 ELSE accepted[k]]
    /\ drain' = StartDrain
    /\ UNCHANGED <<snapshot, orgs, closed, hook, recall_count, erased, dropped, owed, faults>>

\* Faulty variant: the grouping by tenant keeps one tenant only.
TakeQueueOneOrg(f) ==
    /\ snapshot' = [snapshot EXCEPT ![f] = pending]
    /\ orgs' = [orgs EXCEPT ![f] = {CHOOSE o \in Orgs : \E k \in Queued : k[1] = o}]
    /\ pending' = Zero

\* The swap at the head of _flush_once, no await inside.
TakeQueue(f) ==
    /\ snapshot' = [snapshot EXCEPT ![f] = pending]
    /\ orgs' = [orgs EXCEPT ![f] = {k[1] : k \in Queued}]
    /\ pending' = Zero

\* The increments of tenant o that flusher f holds.
Share(f, o) == [k \in Keys |-> IF k[1] = o THEN snapshot[f][k] ELSE 0]

Plus(g, h) == [k \in Keys |-> g[k] + h[k]]

\* Flusher f is done with tenant o: one transaction of _flush_once has ended.
SettleOrg(f, o) ==
    /\ snapshot' = [snapshot EXCEPT ![f] = [k \in Keys |-> IF k[1] = o THEN 0 ELSE @[k]]]
    /\ orgs' = [orgs EXCEPT ![f] = @ \ {o}]

\* The UPDATE commits; it finds no row of a memory that has been hard-deleted.
\* An exception after the commit ends the same way: the entries are not queued
\* again.
UpdateOrg(f, o) ==
    /\ o \in orgs[f]
    /\ recall_count' = Plus(recall_count, [k \in Keys |-> IF k \in erased THEN 0 ELSE Share(f, o)[k]])
    /\ dropped' = Plus(dropped, [k \in Keys |-> IF k \in erased THEN Share(f, o)[k] ELSE 0])
    /\ SettleOrg(f, o)
    /\ UNCHANGED <<pending, drain, closed, hook, erased, accepted, owed, faults>>

\* Faulty variant: the failed entries go back into the queue although they were
\* written, because the exception came after the commit.
UpdateFailsRequeued(f, o) ==
    /\ o \in orgs[f]
    /\ faults < MaxFaults
    /\ faults' = faults + 1
    /\ recall_count' = Plus(recall_count, Share(f, o))
    /\ pending' = Plus(pending, Share(f, o))
    /\ SettleOrg(f, o)
    /\ UNCHANGED <<drain, closed, hook, erased, histVars>>

\* Connecting or the UPDATE raises: logged and dropped.
UpdateFails(f, o) ==
    /\ o \in orgs[f]
    /\ faults < MaxFaults
    /\ faults' = faults + 1
    /\ dropped' = Plus(dropped, Share(f, o))
    /\ SettleOrg(f, o)
    /\ UNCHANGED <<pending, drain, closed, hook, recall_count, erased, accepted, owed>>

-----------------------------------------------------------------------------
(* The drain task *)

AfterRound == IF closed THEN "done" ELSE "waiting"

\* The wait ends.  The queue is looked at once more even when the batcher has
\* been closed in the meantime.
DrainWake ==
    /\ drain = "waiting"
    /\ \/ /\ Queued # {}
          /\ TakeQueue("drain")
          /\ drain' = "flushing"
       \/ /\ Queued = {}
          /\ closed
          /\ drain' = "done"
          /\ UNCHANGED queueVars
    /\ UNCHANGED <<closed, hook, recall_count, erased, histVars, faults>>

DrainFlushed ==
    /\ drain = "flushing" /\ orgs["drain"] = {}
    /\ drain' = AfterRound
    /\ UNCHANGED <<queueVars, closed, hook, recall_count, erased, histVars, faults>>

-----------------------------------------------------------------------------
(* shutdown_batcher: flush_pending, then aclose *)

\* flush_pending starts; with nothing queued it returns without an await and
\* aclose closes the batcher in the same step.
ShutdownBegins ==
    /\ hook = "idle" /\ drain # "none"
    /\ owed' = accepted
    /\ \/ /\ Queued # {}
          /\ TakeQueue("hook")
          /\ hook' = "flush"
          /\ UNCHANGED closed
       \/ /\ Queued = {}
          /\ hook' = "close"
          /\ closed' = TRUE
          /\ UNCHANGED queueVars
    /\ UNCHANGED <<drain, recall_count, erased, accepted, dropped, faults>>

\* flush_pending returns and aclose sets _closed, without an await between.
FlushPendingReturns ==
    /\ hook = "flush" /\ orgs["hook"] = {}
    /\ hook' = "close"
    /\ closed' = TRUE
    /\ UNCHANGED <<queueVars, drain, recall_count, erased, histVars, faults>>

\* Faulty variant: aclose does not wait for the task.
AcloseReturnsAtOnce ==
    /\ hook = "close"
    /\ hook' = "down"
    /\ UNCHANGED <<queueVars, drain, closed, recall_count, erased, histVars, faults>>

\* aclose has nothing (more) to wait for.
AcloseReturns ==
    /\ hook = "close" /\ drain = "done"
    /\ hook' = "down"
    /\ UNCHANGED <<queueVars, drain, closed, recall_count, erased, histVars, faults>>

\* The task outlives the 2 s of aclose and is cancelled at its await: what it
\* holds is neither written nor queued again.
AcloseTimesOut ==
    /\ hook = "close" /\ drain \in {"waiting", "flushing"}
    /\ faults < MaxFaults
    /\ faults' = faults + 1
    /\ dropped' = Plus(dropped, snapshot["drain"])
    /\ snapshot' = [snapshot EXCEPT !["drain"] = Zero]
    /\ orgs' = [orgs EXCEPT !["drain"] = {}]
    /\ drain' = "done"
    /\ hook' = "down"
    /\ UNCHANGED <<pending, closed, recall_count, erased, accepted, owed>>

-----------------------------------------------------------------------------
\* A forget or a sweep hard-deletes a memory at any moment, recalled or not.
HardDelete ==
    \E k \in Keys \ erased :
        /\ erased' = erased \cup {k}
        /\ UNCHANGED <<queueVars, drain, closed, hook, recall_count, histVars, faults>>

Recall == \E o \in Orgs : \E ids \in SUBSET Mems \ {{}} : bump(o, ids)

Write == \E f \in Flushers : \E o \in Orgs : UpdateOrg(f, o) \/ UpdateFails(f, o)
DrainStep == DrainWake \/ DrainFlushed
HookStep == FlushPendingReturns \/ AcloseReturns

Next ==
    \/ Recall
    \/ Write
    \/ DrainStep
    \/ ShutdownBegins
    \/ HookStep
    \/ AcloseTimesOut
    \/ HardDelete

Spec == Init /\ [][Next]_vars

\* The event loop runs every ready coroutine, and a database call ends, one way
\* or the other.  Recalls and the shutdown signal owe nothing.
FairSpec ==
    /\ Spec
    /\ WF_vars(DrainStep) /\ WF_vars(HookStep)
    /\ \A f \in Flushers : WF_vars(\E o \in Orgs : UpdateOrg(f, o) \/ UpdateFails(f, o))

-----------------------------------------------------------------------------
(* Properties *)

Counts == [Keys -> Nat]

\* Types of every variable.
TypeOK ==
    /\ pending \in Counts /\ snapshot \in [Flushers -> Counts]
    /\ orgs \in [Flushers -> SUBSET Orgs]
    /\ drain \in {"none", "waiting", "flushing", "done"}
    /\ closed \in BOOLEAN /\ hook \in {"idle", "flush", "close", "down"}
    /\ recall_count \in Counts /\ erased \subseteq Keys
    /\ accepted \in Counts /\ dropped \in Counts /\ owed \in Counts
    /\ faults \in 0 .. MaxFaults

\* Every increment bump() took is in one place: queued, in the hands of one
\* flusher, in the column, or dropped with a failed write or for want of a row.  A
\* bump that comes while a snapshot is being written is neither lost nor counted
\* twice.
EachBumpOnce ==
    \A k \in Keys :
        accepted[k] = pending[k] + snapshot["drain"][k] + snapshot["hook"][k]
                      + recall_count[k] + dropped[k]

\* A flusher holds increments of no tenant it has finished with, and the drain
\* task holds none outside a flush: nothing can be stranded in a snapshot.
NothingStranded ==
    /\ \A f \in Flushers : \A k \in Keys : snapshot[f][k] > 0 => k[1] \in orgs[f]
    /\ orgs["drain"] # {} => drain = "flushing"
    /\ orgs["hook"] # {} => hook = "flush"

\* When no write fails and the close does not time out, shutdown_batcher leaves
\* every increment taken before it was called in the column, whichever of the
\* two flushers held it, but for memories that have been hard-deleted.
ShutdownKeepsEarlier ==
    hook = "down" /\ faults = 0 => \A k \in Keys \ erased : recall_count[k] >= owed[k]

\* The module's docstring: the shutdown hook drains the queue before SIGTERM lets
\* pending bumps die.  When no write fails and the close does not time out, the
\* queue would be empty when shutdown_batcher returns.
NothingQueuedAtExit == hook = "down" /\ faults = 0 => Queued = {}

\* An increment does not stay queued: it is written or dropped, unless the
\* process goes down first.
EventuallyWritten ==
    \A k \in Keys : \A n \in 1 .. MaxBumps :
        accepted[k] >= n ~> recall_count[k] + dropped[k] >= n \/ hook = "down"
=============================================================================
