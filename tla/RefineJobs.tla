------------------------------ MODULE RefineJobs ------------------------------
(***************************************************************************)
(* RefinePipeline.run of refine/pipeline.py with its stages (dedupe, infer,*)
(* summarize, reweight, prune), dispatched by RefineScheduler or asked for *)
(* over the API.                                                           *)
(*                                                                         *)
(* A run works in the one transaction of its caller, who commits when it   *)
(* returns and rolls back when it raises.  Until then a run keeps what it  *)
(* has written to itself, but the edges it has reweighted stay locked.     *)
(*                                                                         *)
(* Modelled are the rows of one tenant, the Watched one; those of others   *)
(* do not meet them.  It has edges on which there is feedback, each of     *)
(* which ties one more memory to a cluster that is summarized, and a pair  *)
(* of memories without an edge, one of which is in the cluster.  An edge   *)
(* has a direction: each memory of the pair may get one to the other.      *)
(* Weights are in sixteenths and the decay is one half.  Budgets are       *)
(* exhausted by what other jobs use: a choice here.  A task is delivered   *)
(* once.                                                                   *)
(***************************************************************************)
EXTENDS RefineScheduler, Sequences, Integers

CONSTANTS
    Watched,        \* the tenant whose rows are modelled
    Workers,        \* task workers
    Edges,          \* edges with feedback
    Pair,           \* the two memories without an edge
    signal,         \* edge -> mean signal of its feedback: -1, 0 or 1
    ClusterStrategy,\* RefineOptions.cluster_strategy
    Threshold       \* prune_threshold, in sixteenths

Full == 16

ASSUME RefineAssumption ==
    /\ Watched \in Tenants
    /\ signal \in [Edges -> {-1, 0, 1}] /\ Threshold \in 1 .. Full \div 2
    /\ ClusterStrategy \in {"memo_type", "connected_components"}

VARIABLES
    refine_jobs,    \* the committed rows, by job, in the order the jobs came
    queue,          \* jobs whose task waits for a worker
    duplicates,     \* two live memories share a dedupe key
    weight,         \* edge -> weight; a pruned edge is not in its domain
    inferred,       \* edges inferred for the pair: [from: source, by: job, weight]
    summaries,      \* SUMMARY memories of the cluster: [by: job, hash]
    refining,       \* worker -> its run
    overlapped      \* history: two runs were open at a time

pipelineVars == <<refine_jobs, queue, duplicates, weight, inferred, summaries, refining, overlapped>>
vars == <<schedulerVars, pipelineVars>>

\* focals: the memories run_infer has yet to come to; focal: the one at hand.
NoRun == [step |-> "idle", job |-> 0, focals |-> {}, focal |-> {}, inferred |-> {},
          summaries |-> {}, weight |-> <<>>]

Init ==
    /\ SchedulerInit
    /\ refine_jobs = <<>> /\ queue = {}
    /\ duplicates = FALSE
    /\ weight = [e \in Edges |-> Full \div 2]
    /\ inferred = {} /\ summaries = {}
    /\ refining = [w \in Workers |-> NoRun] /\ overlapped = FALSE

Jobs == Len(refine_jobs)

\* A job comes with a row that is queued (API), or without one (beat).
Enqueue(row) ==
    /\ refine_jobs' = Append(refine_jobs, row)
    /\ queue' = queue \cup {Jobs + 1}
    /\ UNCHANGED <<duplicates, weight, inferred, summaries, refining, overlapped>>

Dispatch(d, t) ==
    /\ Send(d, t)
    /\ IF t = Watched /\ Jobs < plan.beat THEN Enqueue("none") ELSE UNCHANGED pipelineVars

insert_refine_job ==
    /\ Jobs < plan.api
    /\ Enqueue("queued")
    /\ UNCHANGED schedulerVars

\* Users store a memory that is there already, and forget it.
StoreDuplicate ==
    /\ ~duplicates /\ Trouble /\ duplicates' = TRUE
    /\ UNCHANGED <<plan, refine_enabled, refine_last_run_at, tick, clock, ahead, overlaps, refine_jobs,
                   queue, weight, inferred, summaries, refining, overlapped>>

ForgetDuplicate ==
    /\ duplicates /\ duplicates' = FALSE
    /\ UNCHANGED <<schedulerVars, refine_jobs, queue, weight, inferred, summaries, refining, overlapped>>

At(w, step) == refining[w].step = step
Goes(w, r) == refining' = [refining EXCEPT ![w] = r]
GoesTo(w, step) == Goes(w, [refining[w] EXCEPT !.step = step])

Uncommitted == UNCHANGED <<refine_jobs, queue, duplicates, weight, inferred, summaries, overlapped>>

\* The budget is exhausted: the job is rejected and its row left alone.
\* Otherwise the row is inserted, or set to running.
BeginRun(w, j) ==
    /\ refining[w] = NoRun /\ j \in queue
    /\ queue' = queue \ {j}
    /\ \/ UNCHANGED <<refining, overlapped>>
       \/ /\ Goes(w, [NoRun EXCEPT !.step = "dedupe", !.job = j, !.focals = Pair])
          /\ overlapped' = (overlapped \/ \E v \in Workers : refining[v] # NoRun)
    /\ UNCHANGED <<refine_jobs, duplicates, weight, inferred, summaries>>

\* run_dedupe: to stamp the memory that is kept is an update of its metadata,
\* which the trigger on memories refuses: a group of duplicates fails the run.
run_dedupe(w) ==
    /\ At(w, "dedupe")
    /\ IF duplicates THEN Goes(w, NoRun) ELSE GoesTo(w, "infer")
    /\ Uncommitted

\* run_infer: candidate after candidate, in no order, the targets of the edges
\* that leave it are read.  What it has an edge to is not proposed again.
ExistingTargets(w) ==
    /\ At(w, "infer") /\ refining[w].focal = {}
    /\ \E m \in refining[w].focals :
          LET known == \E i \in inferred \cup refining[w].inferred : i.from = m
          IN  Goes(w, [refining[w] EXCEPT !.focals = @ \ {m},
                                          !.focal = IF known THEN {} ELSE {m}])
    /\ Uncommitted

\* Then the model proposes nothing, an edge with some confidence, or one the
\* table refuses: the error is skipped, but the transaction is aborted.
Propose(w) ==
    /\ At(w, "infer")
    /\ \E m \in refining[w].focal :
          \/ Goes(w, [refining[w] EXCEPT !.focal = {}])
          \/ \E c \in {1, Full} :
                Goes(w, [refining[w] EXCEPT !.focal = {},
                            !.inferred = @ \cup {[from |-> m, by |-> refining[w].job, weight |-> c]}])
          \/ Goes(w, NoRun)
    /\ Uncommitted

EndInfer(w) ==
    /\ At(w, "infer") /\ refining[w].focal = {} /\ refining[w].focals = {}
    /\ GoesTo(w, "summarize")
    /\ Uncommitted

\* Faulty variant: the hash is not looked up.
SummaryNotCached(w) == At(w, "summarize") /\ GoesTo(w, "write") /\ Uncommitted

\* The cluster's hash tells its members: the memories of one type, or those that
\* edges hold together, the edges this run has inferred among them.
cluster_hash(w) ==
    IF ClusterStrategy = "memo_type" THEN {}
    ELSE DOMAIN weight \cup (IF inferred \cup refining[w].inferred = {} THEN {} ELSE {"pair"})

\* run_summarize: is there a summary of this very cluster?
ExistingSummaryHash(w) ==
    /\ At(w, "summarize")
    /\ GoesTo(w, IF \E s \in summaries : s.hash = cluster_hash(w) THEN "reweight" ELSE "write")
    /\ Uncommitted

\* The model fails or returns nothing; the memory is written; or the write
\* fails, which is a warning, but the transaction is aborted.
WriteSummaryMemo(w) ==
    /\ At(w, "write")
    /\ \/ GoesTo(w, "reweight")
       \/ Goes(w, [refining[w] EXCEPT !.step = "reweight",
                       !.summaries = {[by |-> refining[w].job, hash |-> cluster_hash(w)]}])
       \/ Goes(w, NoRun)
    /\ Uncommitted

compute_new_weight(old, mean) == (old + ((mean + 1) * Full) \div 2) \div 2

LockedEdges(w) == DOMAIN refining[w].weight
Left(w) == DOMAIN weight \ LockedEdges(w)

\* The weights of a run with one more, computed from what is committed.
Reweighted(w, e) ==
    [x \in LockedEdges(w) \cup {e} |->
        IF x = e THEN compute_new_weight(weight[e], signal[e]) ELSE refining[w].weight[x]]

\* Faulty variant: the new weight is computed before the row is locked.
ReweightStale(w, e) ==
    /\ At(w, "reweight")
    /\ e \in Left(w)
    /\ Goes(w, [refining[w] EXCEPT !.weight = Reweighted(w, e)])
    /\ Uncommitted

\* run_reweight: all feedback there is, edge by edge, in whatever order the
\* grouping yields.  An UPDATE waits for the run that has the row locked, and
\* then starts from what that run has committed.
Reweight(w, e) ==
    /\ At(w, "reweight")
    /\ e \in Left(w) /\ \A v \in Workers : e \notin LockedEdges(v)
    /\ Goes(w, [refining[w] EXCEPT !.weight = Reweighted(w, e)])
    /\ Uncommitted

EndReweight(w) ==
    /\ At(w, "reweight") /\ Left(w) = {}
    /\ GoesTo(w, "prune")
    /\ Uncommitted

\* Each waits for the other: the database fails one of them.
Waits(w, v) ==
    /\ At(w, "reweight") /\ w # v
    /\ Left(w) # {} /\ Left(w) \subseteq LockedEdges(v)

DeadlockAborts(w) ==
    /\ \E v \in Workers : Waits(w, v) /\ Waits(v, w)
    /\ Goes(w, NoRun)
    /\ Uncommitted

Strong(w, S) == {e \in S : refining[w].weight[e] >= Threshold}

\* What the caller commits: the edges kept have their new weights.
Commit(w, kept, new) ==
    LET r == refining[w]
    IN  /\ weight' = [e \in kept |-> r.weight[e]]
        /\ inferred' = inferred \cup new
        /\ summaries' = summaries \cup r.summaries
        /\ refine_jobs' = [refine_jobs EXCEPT ![r.job] = "completed"]
        /\ Goes(w, NoRun)
        /\ UNCHANGED <<queue, duplicates, overlapped>>

\* run_prune, the row is set to completed, and the caller commits.
run_prune(w) ==
    /\ At(w, "prune")
    /\ Commit(w, Strong(w, DOMAIN weight), {i \in refining[w].inferred : i.weight >= Threshold})

\* A statement fails, or the worker dies: with the transaction goes the status
\* "failed" the run has tried to write.
RunFails(w) ==
    /\ refining[w] # NoRun
    /\ Trouble
    /\ Goes(w, NoRun)
    /\ UNCHANGED <<plan, refine_enabled, refine_last_run_at, tick, clock, ahead, overlaps>>
    /\ Uncommitted

RunStep(w) ==
    \/ \E j \in queue : BeginRun(w, j)
    \/ run_dedupe(w) \/ ExistingTargets(w) \/ Propose(w) \/ EndInfer(w)
    \/ ExistingSummaryHash(w) \/ WriteSummaryMemo(w)
    \/ (\E e \in Edges : Reweight(w, e)) \/ EndReweight(w) \/ DeadlockAborts(w) \/ run_prune(w)

Next ==
    \/ insert_refine_job \/ StoreDuplicate \/ ForgetDuplicate
    \/ \E t \in Tenants : OptOut(t) /\ UNCHANGED pipelineVars
    \/ \E d \in Dispatchers :
          \/ SchedulerStep(d) /\ UNCHANGED pipelineVars
          \/ \E t \in Tenants : Dispatch(d, t)
    \/ \E w \in Workers : (RunStep(w) /\ UNCHANGED schedulerVars) \/ RunFails(w)

Spec == Init /\ [][Next]_vars

-----------------------------------------------------------------------------
(* Properties *)

Completed == {j \in 1 .. Jobs : refine_jobs[j] = "completed"}

\* The weight after n runs of an edge whose feedback has this mean.
After[r \in {-1, 0, 1} \X Nat] ==
    IF r[2] = 0 THEN Full \div 2
    ELSE compute_new_weight(After[<<r[1], r[2] - 1>>], r[1])

\* Each run whose row says completed has moved the weight of every edge once,
\* and no other run has: no move is lost when runs overlap, and none is left
\* behind by a run that failed.  An edge is gone only if that took its weight
\* below the threshold (refine/reweight.py "recompute from scratch").
FeedbackCountsPerRun ==
    \A e \in Edges :
        LET expected == After[<<signal[e], Cardinality(Completed)>>]
        IN  IF e \in DOMAIN weight THEN weight[e] = expected /\ weight[e] >= Threshold
            ELSE expected < Threshold

\* A cluster is summarized once as long as its members are the same
\* (refine/summarize.py "we don't re-emit"), and a memory gets one edge to
\* another, unless runs overlap: both look before they write.  The other may
\* get one back, in the same run even: only edges that leave are looked at.
SummarizedOnce ==
    overlapped \/ /\ \A x, y \in inferred : x.from = y.from => x = y
                  /\ \A s, t \in summaries : s.hash = t.hash => s = t
==============================================================================
