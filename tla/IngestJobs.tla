----------------------------- MODULE IngestJobs ------------------------------
(***************************************************************************)
(* IngestPipeline.run of ingest/pipeline.py, the ingest_jobs rows it keeps *)
(* through ingest/state.py, and the watchdog that fails stale rows.        *)
(*                                                                         *)
(* A run is a chain of transactions: bootstrap, the lookup of an earlier   *)
(* memory of the same URL, the store, the call graph, the final update.    *)
(* There is one URL and one dataset, so two url jobs are two ingests of    *)
(* the same page.  "text" and "file" behave like "s3_uri" with a row in    *)
(* place: no lookup, one memory.  "bad" is an input _validate_input        *)
(* refuses.  The file, its loader and its text are data.                   *)
(***************************************************************************)
EXTENDS JobTables

CONSTANTS
    IngestIds,      \* ingest jobs
    Kinds,          \* input kinds
    ThePage,        \* the URL of the url jobs
    StaleLimit      \* limit: rows the watchdog takes at a time

ASSUME IngestAssumption ==
    Kinds \subseteq {"text", "url", "file", "s3_uri", "bad"} /\ StaleLimit \in Nat \ {0}

VARIABLES
    input,          \* job -> kind of its input, for the jobs that are asked for
    ingest_jobs,    \* job -> its row
    codegraphs,     \* jobs whose call graph is stored
    watchdog        \* stale rows the watchdog has selected

ingestVars == <<input, ingest_jobs, codegraphs, watchdog>>

NoRow == [st |-> "none", ids |-> <<>>, distill |-> NoJob, err |-> "none"]

IngestInit ==
    /\ ingest_jobs = [j \in IngestIds |-> NoRow]
    /\ codegraphs = {} /\ watchdog = {}

\* UPDATE ingest_jobs SET ... WHERE id: no row, nothing happens.
Patch(j, r) ==
    IF ingest_jobs[j].st = "none" THEN UNCHANGED ingest_jobs
    ELSE ingest_jobs' = [ingest_jobs EXCEPT ![j] = r]

\* The enum ingest_job_kind has no 's3_uri'.
RowKinds == {"text", "url", "file"}

\* The API files the row before it sends the task: an upload as "file".
insert_ingest_job(j) ==
    /\ j \in DOMAIN input
    /\ ingest_jobs[j].st = "none" /\ delivered[j] = 0
    /\ ingest_jobs' = [ingest_jobs EXCEPT ![j].st = "queued"]
    /\ UNCHANGED <<sharedVars, input, codegraphs, watchdog>>

\* Two url jobs ingest the same page.
Subject(j) == IF input[j] = "url" THEN ThePage ELSE j

\* The kind's own field is there.
validate_input(j) == input[j] # "bad"

\* Validation raises before anything is written: the worker is free again.
StartIngest(w, j) ==
    /\ j \in DOMAIN input
    /\ Deliver(w, j, Subject(j), IF ~validate_input(j) THEN Idle
                                 ELSE Begun("ingest", j, Subject(j), "bootstrap", <<>>))
    /\ UNCHANGED ingestVars

Quiet == UNCHANGED <<memo, delivered, overlapped>>

\* Where the run goes on with the bytes it has been given, has fetched, or has
\* read from or put into the artifact store, none of which changes a table:
\* only a URL is the same source when it is ingested again.
materialize(j) == IF input[j] = "url" THEN "dedupe" ELSE "store"

\* The row is there, or is inserted, and is set to running.
BootstrapIngest(w) ==
    LET j == run[w].job
    IN  /\ At(w, "ingest", "bootstrap")
        /\ IF ingest_jobs[j].st = "none" /\ input[j] \notin RowKinds
           THEN GoesTo(w, "bootstrap failed") /\ UNCHANGED ingest_jobs
           ELSE /\ ingest_jobs' = [ingest_jobs EXCEPT ![j].st = "running"]
                /\ GoesTo(w, materialize(j))
        /\ Quiet /\ UNCHANGED <<trouble, input, codegraphs, watchdog>>

PageMemos == {m \in MemoIds : memo[m].kind = "url" /\ memo[m].live}

NewestOf(S) == CHOOSE m \in S : \A n \in S : n <= m

\* Faulty variant: the URL is not looked up.
DedupeForgotten(w) ==
    /\ At(w, "ingest", "dedupe") /\ GoesTo(w, "store")
    /\ Quiet /\ UNCHANGED <<trouble, ingestVars>>

Dedupe(w) ==
    /\ At(w, "ingest", "dedupe")
    /\ IF PageMemos = {}
       THEN GoesTo(w, "store")
       ELSE Goes(w, [run[w] EXCEPT !.step = "complete", !.dup = TRUE,
                                   !.ids = <<NewestOf(PageMemos)>>])
    /\ Quiet /\ UNCHANGED <<trouble, ingestVars>>

\* The loader's text is stored as one memory.  store() ends with the write of
\* its first version, whose error it swallows: COMMIT then rolls the memory
\* back, and the run, which is not told, goes on with its id.
Store(w) ==
    LET j == run[w].job
    IN  /\ At(w, "ingest", "store")
        /\ \E saved \in BOOLEAN :
              /\ IF saved THEN UNCHANGED trouble ELSE Trouble
              /\ memo' = Append(memo, Memo(input[j], j, saved))
        /\ \E next \in {"hook", "codegraph"} :
              Goes(w, [run[w] EXCEPT !.step = next, !.ids = <<Len(memo) + 1>>])
        /\ UNCHANGED <<delivered, overlapped, ingestVars>>

\* Code gets its call graph as further memories; a failure is a warning.
Codegraph(w) ==
    /\ At(w, "ingest", "codegraph")
    /\ \/ codegraphs' = codegraphs \cup {run[w].job} /\ UNCHANGED trouble
       \/ Trouble /\ UNCHANGED codegraphs
    /\ GoesTo(w, "hook")
    /\ Quiet /\ UNCHANGED <<input, ingest_jobs, watchdog>>

\* The fetch, the lookup, the loader or the store raises.
IngestFails(w) ==
    /\ \E s \in {"bootstrap", "dedupe", "store"} :
          /\ At(w, "ingest", s)
          /\ GoesTo(w, IF s = "bootstrap" THEN "bootstrap failed" ELSE "failed")
    /\ Trouble
    /\ Quiet /\ UNCHANGED ingestVars

\* _mark_failed: with the summary's fields, unless the bootstrap failed.
MarkIngestFailed(w) ==
    LET j == run[w].job
        r == [ingest_jobs[j] EXCEPT !.st = "failed", !.err = "run"]
    IN  /\ \/ At(w, "ingest", "failed") /\ Patch(j, [r EXCEPT !.ids = run[w].ids])
           \/ At(w, "ingest", "bootstrap failed") /\ Patch(j, r)
        /\ Returns(w)
        /\ Quiet /\ UNCHANGED <<trouble, input, codegraphs, watchdog>>

CompletedRow(w) ==
    LET row == ingest_jobs[run[w].job]
    IN  [row EXCEPT !.st = "completed", !.ids = run[w].ids,
                    !.distill = IF run[w].distill = NoJob THEN @ ELSE run[w].distill]

\* _mark_completed: a column whose value is None stays as it is.
MarkCompleted(w) ==
    /\ At(w, "ingest", "complete")
    /\ Patch(run[w].job, CompletedRow(w))
    /\ Returns(w)
    /\ Quiet /\ UNCHANGED <<trouble, input, codegraphs, watchdog>>

\* _mark_completed raises: inside the try for a duplicate, outside it for a
\* stored memory; and the failure of _mark_failed is only logged.
FinalUpdateFails(w) ==
    /\ Trouble
    /\ \/ At(w, "ingest", "complete") /\ run[w].dup /\ GoesTo(w, "failed")
       \/ At(w, "ingest", "complete") /\ ~run[w].dup /\ Returns(w)
       \/ At(w, "ingest", "failed") /\ Returns(w)
       \/ At(w, "ingest", "bootstrap failed") /\ Returns(w)
    /\ Quiet /\ UNCHANGED ingestVars

-----------------------------------------------------------------------------
(* The watchdog *)

\* Faulty variant: rows that wait are taken for stale.
RunningIsQueued == {j \in IngestIds : ingest_jobs[j].st = "queued"}

Running == {j \in IngestIds : ingest_jobs[j].st = "running"}

Alive(j) == \E w \in Workers : run[w].job = j

\* A row has not been touched for longer than the threshold: its run is gone,
\* or takes that long, which counts as trouble.
SelectStale(S) ==
    /\ watchdog = {} /\ S # {} /\ Cardinality(S) <= StaleLimit
    /\ S \subseteq Running
    /\ IF \E j \in S : Alive(j) THEN Trouble ELSE UNCHANGED trouble
    /\ watchdog' = S
    /\ UNCHANGED <<memo, run, delivered, overlapped, input, codegraphs, ingest_jobs>>

\* Faulty variant: the update trusts the list.
WatchdogUnguarded ==
    /\ watchdog # {}
    /\ ingest_jobs' = [j \in IngestIds |->
          IF j \in watchdog THEN [ingest_jobs[j] EXCEPT !.st = "failed", !.err = "watchdog"]
          ELSE ingest_jobs[j]]
    /\ watchdog' = {}
    /\ UNCHANGED <<sharedVars, input, codegraphs>>

\* UPDATE ... AND status = 'running', error = COALESCE(error, ...).
mark_stale_running_jobs_failed ==
    /\ watchdog # {}
    /\ ingest_jobs' = [j \in IngestIds |->
          IF j \in watchdog \cap Running
          THEN [ingest_jobs[j] EXCEPT !.st = "failed",
                                      !.err = IF @ = "none" THEN "watchdog" ELSE @]
          ELSE ingest_jobs[j]]
    /\ watchdog' = {}
    /\ UNCHANGED <<sharedVars, input, codegraphs>>
==============================================================================
