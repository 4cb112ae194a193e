--------------------------- MODULE DistillPipeline ---------------------------
(***************************************************************************)
(* Ingest and Forge together.  The hook at the end of an ingest files a    *)
(* distill job for the new memory; both tasks run on the same workers and  *)
(* work on the same memories, which users delete meanwhile.                *)
(***************************************************************************)
EXTENDS IngestJobs, ForgeJobs

CONSTANT Workloads  \* what is asked for: [ingest: job -> kind, distill: jobs,
                    \* notes: memories that users have stored]

JobIds == IngestIds \cup ForgeIds

ASSUME WorkloadsAssumption ==
    /\ IngestIds \cap ForgeIds = {} /\ {NoJob, ThePage} \cap JobIds = {} /\ NoJob # ThePage
    /\ \A x \in Workloads :
          /\ DOMAIN x.ingest \subseteq IngestIds /\ \A j \in DOMAIN x.ingest : x.ingest[j] \in Kinds
          /\ x.distill \subseteq ForgeIds /\ x.notes \in Nat

vars == <<sharedVars, ingestVars, forgeVars>>

Init ==
    /\ run = [w \in Workers |-> Idle]
    /\ delivered = [j \in JobIds |-> 0]
    /\ overlapped = {} /\ trouble = 0
    /\ IngestInit /\ ForgeInit
    /\ \E x \in Workloads :
          /\ input = x.ingest /\ distillable = x.distill
          /\ memo = [i \in 1 .. x.notes |-> Memo("note", NoJob, TRUE)]

\* Faulty variant: a hook that fails has the row marked as failed.
PostIngestMarks(w) ==
    LET j == run[w].job
    IN  /\ At(w, "ingest", "hook")
        /\ GoesTo(w, "complete")
        /\ \/ UNCHANGED <<distill_jobs, trouble, ingest_jobs>>
           \/ \E f \in distillable : distill_jobs[f].st = "none"
                 /\ distill_jobs' = WithJob(f, run[w].ids) /\ UNCHANGED <<trouble, ingest_jobs>>
           \/ /\ Trouble
              /\ ingest_jobs' = [ingest_jobs EXCEPT ![j].st = "failed", ![j].err = "run"]
              /\ UNCHANGED distill_jobs
        /\ UNCHANGED <<memo, delivered, overlapped, input, codegraphs, watchdog,
                       distillable, distilled, provenance, distillEvents, usage, lost, swallowed>>

\* post_ingest: no auto_distill, a distill job for the memory, or a failure
\* that is only logged.
PostIngest(w) ==
    /\ At(w, "ingest", "hook")
    /\ \/ GoesTo(w, "complete") /\ UNCHANGED <<distill_jobs, trouble>>
       \/ GoesTo(w, "complete") /\ Trouble /\ UNCHANGED distill_jobs
       \/ \E f \in distillable :
             /\ distill_jobs[f].st = "none"
             /\ distill_jobs' = WithJob(f, run[w].ids)
             /\ Goes(w, [run[w] EXCEPT !.step = "complete", !.distill = f])
             /\ UNCHANGED trouble
    /\ UNCHANGED <<memo, delivered, overlapped, ingestVars, distillable, distilled,
                   provenance, distillEvents, usage, lost, swallowed>>

\* The API files a job for all the memories users have been told of.
RequestDistill(f) ==
    /\ Len(memo) \in 1 .. MaxSources
    /\ insert_distill_job(f, [i \in 1 .. Len(memo) |-> i])
    /\ UNCHANGED ingestVars

WorkerDies(w) ==
    /\ Dies(w)
    /\ lost' = IF run[w].task = "forge" THEN lost \cup {run[w].job} ELSE lost
    /\ UNCHANGED <<ingestVars, distill_jobs, distillable, distilled, provenance,
                   distillEvents, usage, swallowed>>

IngestStep(w) ==
    /\ \/ BootstrapIngest(w) \/ Dedupe(w)
       \/ Store(w) \/ Codegraph(w) \/ MarkIngestFailed(w) \/ MarkCompleted(w)
    /\ UNCHANGED forgeVars

ForgeStep(w) ==
    /\ Preflight(w) \/ BootstrapForge(w) \/ ProcessMemory(w) \/ Retain(w) \/ EndForge(w)
    /\ UNCHANGED ingestVars

Failure(w) ==
    \/ (IngestFails(w) \/ FinalUpdateFails(w)) /\ UNCHANGED forgeVars
    \/ (AuditEntryFails(w) \/ ForgeFails(w) \/ ForgeEndFails(w)) /\ UNCHANGED ingestVars
    \/ WorkerDies(w)

Watch ==
    /\ mark_stale_running_jobs_failed \/ \E S \in SUBSET IngestIds : SelectStale(S)
    /\ UNCHANGED forgeVars

Request ==
    \/ \E j \in IngestIds : insert_ingest_job(j) /\ UNCHANGED forgeVars
    \/ \E f \in ForgeIds : RequestDistill(f)
    \/ \E m \in MemoIds : ForgetMemory(m) /\ UNCHANGED <<ingestVars, forgeVars>>

Work(w) == IngestStep(w) \/ PostIngest(w) \/ ForgeStep(w)

Take(w) ==
    \/ \E j \in IngestIds : StartIngest(w, j) /\ UNCHANGED forgeVars
    \/ \E f \in ForgeIds : StartForge(w, f) /\ UNCHANGED ingestVars

Next ==
    \/ Request \/ Watch
    \/ \E w \in Workers : Take(w) \/ Work(w) \/ Failure(w)

Spec == Init /\ [][Next]_vars

\* While a worker has work to go on with, or the watchdog a row to give up,
\* somebody goes on: workers live and the watchdog keeps coming round.
Progress == Watch \/ \E w \in Workers : Work(w)

FairSpec == Spec /\ WF_vars(Progress)

-----------------------------------------------------------------------------
(* Properties *)

\* Re-ingesting a URL does not duplicate it (ingest/pipeline.py "never
\* duplicate"), whatever fails or is repeated, so long as no two ingests of it
\* run at the same time: the lookup and the store are two transactions.
UrlStoredOnce == ThePage \notin overlapped => Cardinality(PageMemos) <= 1

\* What a row tells is what happened.  A completed job names one memory, of its
\* own or of the same page, that is or was in the table, unless the version
\* write of its own store was swallowed and COMMIT rolled the memory back: a
\* memory it did not store itself was found in the table.  A job that one run
\* has failed by itself has stored nothing; and a completed row shows an error
\* only if the watchdog gave the run up too early or the job ran before.
RowsAreTruthful ==
    \A j \in IngestIds :
        LET row == ingest_jobs[j]
        IN  /\ row.st = "completed" =>
                  /\ Len(row.ids) = 1
                  /\ LET m == memo[row.ids[1]]
                     IN  m.job = j \/ (input[j] = "url" /\ m.kind = "url" /\ m.saved)
            /\ row.st = "failed" /\ row.err = "run" /\ delivered[j] = 1 =>
                  \A m \in MemoIds : memo[m].job # j
            /\ row.st = "completed" /\ row.err # "none" =>
                  row.err = "watchdog" \/ delivered[j] > 1

\* A job over a memory is distilled once (forge/pipeline.py "a re-run is a
\* no-op"), whatever fails or is repeated, unless two runs of it overlap.
DistilledOnce ==
    \A f \in ForgeIds \ overlapped, m \in MemoIds : Cardinality(Passes(f, m)) <= 1

\* memos_written never counts a memory that is not there, though a crash may
\* leave some uncounted; unless an audit entry failed and was shrugged off,
\* which rolls the memories back behind the run's back.
CountersAreReal ==
    \A f \in ForgeIds \ swallowed :
        distill_jobs[f].memos <= Cardinality({d \in distilled : d[1] = f})

\* Whether or not provenance is required, no distilled memory is without its
\* provenance row and no entity without its audit event.
DistillationIsTraced ==
    /\ provenance = distilled
    /\ distillEvents = {d \in distilled : d[4] = "entity"}

\* The budget is checked before a job and charged after it, so a cap can be
\* overdrawn; but what is recorded stays below it and what every worker running
\* one job at a time may use.  The calls of a job that dies before it is charged
\* are in no counter.
OverspendBounded ==
    DailyCap > 0 =>
        usage[<<Today, "llm_calls">>] <= DailyCap - 1 + Cardinality(Workers) * MaxSources

\* A completed job stays completed, also when the watchdog has it in its list,
\* until another run of the same job sets it to running or fails.
CompletedStands ==
    [][\A j \in IngestIds :
          ingest_jobs[j].st = "completed" /\ ingest_jobs'[j].st # "completed" =>
              \E w \in Workers : run[w].job = j]_vars

StillRunning(j) ==
    \/ j \in IngestIds /\ ingest_jobs[j].st = "running"
    \/ j \in ForgeIds /\ distill_jobs[j].st = "running" /\ j \notin lost

\* A row does not stay running: an ingest is completed, failed, or given up by
\* the watchdog; a distillation too, unless its run died or could not write
\* its end, for distill_jobs has no watchdog.
RunningEnds == []<>~(\E j \in JobIds : StillRunning(j))
==============================================================================
