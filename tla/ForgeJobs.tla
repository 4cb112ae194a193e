------------------------------ MODULE ForgeJobs -------------------------------
(***************************************************************************)
(* ForgePipeline.run of forge/pipeline.py and the writer of                *)
(* distill/graph_writer.py: a job distils a list of memories, each in a    *)
(* transaction of its own, into entity memories and a summary, with a row  *)
(* of entity_provenance for each and a 'distill' audit event for entities. *)
(*                                                                         *)
(* What the language model returns is a choice, its failures included.     *)
(* The transaction stays open while the model works.                       *)
(* Usage is recorded by the server when a run is over; one day and one     *)
(* kind of usage are enough here.  No ontology resolver is configured.     *)
(* Relationships and the graph mirror, written in savepoints, are left out.*)
(***************************************************************************)
EXTENDS JobTables

CONSTANTS
    ForgeIds,           \* distill jobs
    DailyCap,           \* budget: extractions a day (0: no cap)
    ProvenanceRequired, \* ForgeOptions.provenance_required
    IncludeSummary,     \* the jobs that have ForgeOptions.include_summary
    MaxSources          \* bound: memories of a job

ASSUME ForgeAssumption ==
    /\ DailyCap \in Nat /\ ProvenanceRequired \in BOOLEAN /\ IncludeSummary \subseteq ForgeIds
    /\ MaxSources \in Nat \ {0}

U == INSTANCE UsageCounters

VARIABLES
    distill_jobs,       \* job -> its row
    distillable,        \* the jobs that may be asked for
    distilled,          \* memories distilled: <<job, source, pass, kind>>
    provenance,         \* entity_provenance: the same, by memory
    distillEvents,      \* memories with a 'distill' audit event
    usage,              \* usage_counters
    lost,               \* history: jobs a run of which never wrote its end
    swallowed           \* history: jobs that went on after a failed audit entry

forgeVars == <<distill_jobs, distillable, distilled, provenance, distillEvents, usage, lost, swallowed>>

NoDistillRow == [st |-> "none", ids |-> <<>>, memos |-> 0, err |-> FALSE]

Today == [m |-> 1, d |-> 1]
Days == {Today}
Caps == [x \in {<<"daily", "llm_calls">>} |-> DailyCap]
NoOverride == [x \in DOMAIN Caps |-> 0]

ForgeInit ==
    /\ distill_jobs = [f \in ForgeIds |-> NoDistillRow]
    /\ distilled = {} /\ provenance = {} /\ distillEvents = {}
    /\ usage = [x \in {<<Today, "llm_calls">>} |-> 0]
    /\ lost = {} /\ swallowed = {}

\* insert_distill_job, by the API or by the hook of an ingest.
WithJob(f, ids) == [distill_jobs EXCEPT ![f] = [NoDistillRow EXCEPT !.st = "queued", !.ids = ids]]

insert_distill_job(f, ids) ==
    /\ f \in distillable
    /\ distill_jobs[f].st = "none" /\ delivered[f] = 0
    /\ distill_jobs' = WithJob(f, ids)
    /\ UNCHANGED <<sharedVars, distillable, distilled, provenance, distillEvents, usage, lost, swallowed>>

\* The task carries the row's memory ids.
StartForge(w, f) ==
    /\ distill_jobs[f].st # "none"
    /\ Deliver(w, f, f, Begun("forge", f, f, "budget", distill_jobs[f].ids))
    /\ UNCHANGED forgeVars

StillForge == UNCHANGED <<memo, delivered, overlapped, distillable,
                          distilled, provenance, distillEvents>>

\* Faulty variant: no budget is checked.
PreflightForgotten(w) ==
    /\ At(w, "forge", "budget")
    /\ GoesTo(w, "bootstrap")
    /\ StillForge /\ UNCHANGED <<trouble, distill_jobs, usage, lost, swallowed>>

\* check_budget: a rejected run leaves the row as it was.
Preflight(w) ==
    /\ At(w, "forge", "budget")
    /\ IF U!Rejected(usage, Days, NoOverride, Caps, Today)
       THEN Returns(w)
       ELSE GoesTo(w, "bootstrap")
    /\ StillForge /\ UNCHANGED <<trouble, distill_jobs, usage, lost, swallowed>>

PatchDistill(f, r) == distill_jobs' = [distill_jobs EXCEPT ![f] = r]

BootstrapForge(w) ==
    LET f == run[w].job
    IN  /\ At(w, "forge", "bootstrap")
        /\ PatchDistill(f, [distill_jobs[f] EXCEPT !.st = "running"])
        /\ GoesTo(w, "loop")
        /\ StillForge /\ UNCHANGED <<trouble, usage, lost, swallowed>>

\* Faulty variant: only a job that is over is not repeated.
DistilledIfCompleted(f, m) == distill_jobs[f].st = "completed"

already_distilled(f, m) == \E p \in provenance : p[1] = f /\ p[2] = m

\* The next memory is skipped, or its content goes to the model.
ProcessMemory(w) ==
    LET ids == run[w].ids
        m == Head(ids)
    IN  /\ At(w, "forge", "loop") /\ ids # <<>>
        /\ IF already_distilled(run[w].job, m) \/ ~memo[m].live
           THEN Goes(w, [run[w] EXCEPT !.ids = Tail(ids)])
           ELSE GoesTo(w, "extract")
        /\ StillForge /\ UNCHANGED <<trouble, distill_jobs, usage, lost, swallowed>>

\* What the run counts once a memory is done.
Counted(w, n) ==
    [run[w] EXCEPT !.step = "loop", !.ids = Tail(@), !.count = @ + n, !.cost = @ + 1]

\* The chunks' extractions, merged: a chunk whose call fails adds nothing.
extract_from_chunks == SUBSET {"entity", "summary"}

\* A summary, or none: it failed, which is logged only, or the reply was blank.
rolling_summarize == {{}, {"summary"}}

\* What one pass of job f makes of a memory: a summary is made if there is none.
Distillates(f) ==
    IF f \in IncludeSummary
    THEN {found \cup made : found \in extract_from_chunks, made \in rolling_summarize}
    ELSE {found \ {"summary"} : found \in extract_from_chunks}

\* Passes over source m that job f has committed, the empty ones aside.
Passes(f, m) == {d[3] : d \in {d \in distilled : d[1] = f /\ d[2] = m}}

\* _write_entity and _write_summary: one memory of each kind.
Written(f, m, kinds) == {<<f, m, Cardinality(Passes(f, m)) + 1, k>> : k \in kinds}

insert_provenance(new) == provenance' = provenance \cup new

\* A summary has no audit event.
enqueue_distill_audit(new) ==
    distillEvents' = distillEvents \cup {d \in new : d[4] = "entity"}

\* kinds are those of the memories distilled from the next of w's list.
write_distill_result(w, kinds) ==
    LET new == Written(run[w].job, Head(run[w].ids), kinds)
    IN  /\ At(w, "forge", "extract")
        /\ distilled' = distilled \cup new
        /\ insert_provenance(new) /\ enqueue_distill_audit(new)
        /\ Goes(w, Counted(w, Cardinality(kinds)))
        /\ UNCHANGED <<memo, delivered, overlapped, trouble, distillable,
                       distill_jobs, usage, lost, swallowed>>

\* retain: the memory is distilled, and its transaction commits.
Retain(w) == \E kinds \in Distillates(run[w].job) : write_distill_result(w, kinds)

\* Faulty variant: the audit entry has a savepoint of its own.
AuditEntrySkipped(w) ==
    LET new == {<<run[w].job, Head(run[w].ids), 1, "entity">>}
    IN  /\ At(w, "forge", "extract")
        /\ Trouble
        /\ distilled' = distilled \cup new /\ provenance' = provenance \cup new
        /\ Goes(w, Counted(w, 1))
        /\ UNCHANGED <<memo, delivered, overlapped, distillable, distillEvents,
                       distill_jobs, usage, lost, swallowed>>

\* _enqueue_distill_audit: the database refuses the audit entry of the entity.
\* Logged only, unless provenance is required; but the transaction is aborted:
\* the mirror of the entity fails unnoticed, a statement that follows (the
\* summary's) fails, and without one the COMMIT is a rollback that nobody notices.
AuditEntryFails(w) ==
    /\ At(w, "forge", "extract")
    /\ Trouble
    /\ \/ GoesTo(w, "failed") /\ UNCHANGED swallowed
       \/ /\ ~ProvenanceRequired
          /\ Goes(w, Counted(w, 1))
          /\ swallowed' = swallowed \cup {run[w].job}
    /\ StillForge /\ UNCHANGED <<distill_jobs, usage, lost>>

\* Faulty variant: what was to be written is counted before the commit.
ForgeFailsCounted(w) ==
    /\ At(w, "forge", "extract")
    /\ Goes(w, [Counted(w, 2) EXCEPT !.step = "failed"])
    /\ Trouble
    /\ StillForge /\ UNCHANGED <<distill_jobs, usage, lost, swallowed>>

\* A database error, or anything else that is not absorbed, in a step.
ForgeFails(w) ==
    /\ \/ At(w, "forge", "budget") /\ Returns(w)
       \/ At(w, "forge", "bootstrap") /\ GoesTo(w, "bootstrap failed")
       \/ At(w, "forge", "extract") /\ GoesTo(w, "failed")
    /\ Trouble
    /\ StillForge /\ UNCHANGED <<distill_jobs, usage, lost, swallowed>>

\* The server records what the run has used.
RecordUsage(w) == usage' = U!record_usage(usage, Today, "llm_calls", run[w].cost)

\* The final update: the counters of this run replace those of the row.
EndForge(w) ==
    LET row == distill_jobs[run[w].job]
    IN  /\ \/ At(w, "forge", "loop") /\ run[w].ids = <<>>
              /\ PatchDistill(run[w].job, [row EXCEPT !.st = "completed", !.memos = run[w].count])
           \/ At(w, "forge", "failed")
              /\ PatchDistill(run[w].job, [row EXCEPT !.st = "failed", !.err = TRUE,
                                                      !.memos = run[w].count])
           \/ At(w, "forge", "bootstrap failed")
              /\ PatchDistill(run[w].job, [row EXCEPT !.st = "failed", !.err = TRUE])
        /\ Returns(w) /\ RecordUsage(w)
        /\ StillForge /\ UNCHANGED <<trouble, lost, swallowed>>

\* It fails: logged, and nobody looks after the row any more.
ForgeEndFails(w) ==
    /\ run[w].task = "forge"
    /\ run[w].step \in {"failed", "bootstrap failed"} \/ (run[w].step = "loop" /\ run[w].ids = <<>>)
    /\ Trouble
    /\ lost' = lost \cup {run[w].job}
    /\ Returns(w) /\ RecordUsage(w)
    /\ StillForge /\ UNCHANGED <<distill_jobs, swallowed>>
==============================================================================
