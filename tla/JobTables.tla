------------------------------ MODULE JobTables ------------------------------
(***************************************************************************)
(* What the ingest pipeline and the Forge share: the memories table, the   *)
(* workers that run their tasks, and the ways a task can go wrong.         *)
(*                                                                         *)
(* A task queue delivers each job to a worker at least once: a delivery    *)
(* may be repeated, also while an earlier run of the same job is still     *)
(* going on.  A worker may die at any moment and leaves behind what its    *)
(* committed transactions wrote.  A transaction is one step; the steps of  *)
(* two workers interleave freely.  A statement or a call that fails, and a *)
(* worker that dies, count against MaxTrouble.                             *)
(***************************************************************************)
EXTENDS Naturals, Sequences, FiniteSets

CONSTANTS
    Workers,            \* task workers, numbered
    NoJob,              \* no job
    MaxTrouble          \* bound: failures, crashes, repeated deliveries and
                        \* memories deleted meanwhile, taken together

ASSUME BoundsAssumption ==
    Workers \subseteq Nat /\ IsFiniteSet(Workers) /\ MaxTrouble \in Nat

VARIABLES
    memo,           \* source memories of the memories table: ids are positions
    run,            \* worker -> the run it executes
    delivered,      \* job -> times its task was handed to a worker
    overlapped,     \* history: what two runs worked on at the same time
    trouble         \* troubles so far

sharedVars == <<memo, run, delivered, overlapped, trouble>>

MemoIds == 1 .. Len(memo)

\* job: whose run stored it.  saved: its transaction committed; an id that was
\* given out for a row rolled back at its COMMIT is one of a deleted memory.
Memo(kind, job, saved) == [kind |-> kind, job |-> job, live |-> saved, saved |-> saved]

Idle == [task |-> "none", job |-> NoJob, on |-> NoJob, step |-> "idle", ids |-> <<>>,
         dup |-> FALSE, distill |-> NoJob, count |-> 0, cost |-> 0]

At(w, task, step) == run[w].task = task /\ run[w].step = step

\* Worker w goes on with r.
Goes(w, r) == run' = [run EXCEPT ![w] = r]
GoesTo(w, step) == Goes(w, [run[w] EXCEPT !.step = step])
Returns(w) == Goes(w, Idle)

\* Something goes wrong, or comes in between, in this step.
Trouble == trouble < MaxTrouble /\ trouble' = trouble + 1

Begun(task, j, x, step, ids) ==
    [Idle EXCEPT !.task = task, !.job = j, !.on = x, !.step = step, !.ids = ids]

\* An idle worker is handed the task of job j, whose work is on x, and goes on
\* with r.  Workers are anonymous: of those that are idle the first one takes it.
Deliver(w, j, x, r) ==
    /\ run[w] = Idle /\ \A v \in Workers : v < w => run[v] # Idle
    /\ IF delivered[j] = 0 THEN UNCHANGED trouble ELSE Trouble
    /\ delivered' = [delivered EXCEPT ![j] = @ + 1]
    /\ overlapped' = overlapped \cup {y \in {x} : \E v \in Workers : run[v].on = y}
    /\ Goes(w, r)
    /\ UNCHANGED memo

\* forget_memory: a user deletes a memory meanwhile.
ForgetMemory(m) ==
    /\ memo[m].live
    /\ Trouble
    /\ memo' = [memo EXCEPT ![m].live = FALSE]
    /\ UNCHANGED <<run, delivered, overlapped>>

\* The worker process dies.
Dies(w) ==
    /\ run[w] # Idle
    /\ Trouble
    /\ Returns(w)
    /\ UNCHANGED <<memo, delivered, overlapped>>
==============================================================================
