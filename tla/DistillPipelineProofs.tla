------------------------ MODULE DistillPipelineProofs ------------------------
(***************************************************************************)
(* Proofs about DistillPipeline, for any jobs, workers, memories and       *)
(* bounds.  A run's task keeps its kind, so the invariant is in parts: the *)
(* ingests', the distillations' and the budget's.  A lemma per part says   *)
(* that steps of the other kind leave it alone.                            *)
(***************************************************************************)
EXTENDS DistillPipeline, FiniteSetTheorems, SequenceTheorems, WellFoundedInduction, TLAPS

MemoRow ==
    {m \in [kind : Kinds \cup {"note"}, job : IngestIds \cup {NoJob}, live : BOOLEAN, saved : BOOLEAN] :
        m.live => m.saved}

IngestSteps == {"bootstrap", "bootstrap failed", "dedupe", "store", "codegraph", "hook", "complete", "failed"}

ForgeSteps == {"budget", "bootstrap", "bootstrap failed", "loop", "extract", "failed"}

Steps == {"idle"} \cup IngestSteps \cup ForgeSteps

Run == [task : {"none", "ingest", "forge"}, job : JobIds \cup {NoJob},
        on : JobIds \cup {NoJob, ThePage}, step : Steps, ids : Seq(Nat), dup : BOOLEAN,
        distill : ForgeIds \cup {NoJob}, count : Nat, cost : Nat]

IngestRow == [st : {"none", "queued", "running", "failed", "completed"}, ids : Seq(Nat),
              distill : ForgeIds \cup {NoJob}, err : {"none", "run", "watchdog"}]

DistillRow == [st : {"none", "queued", "running", "failed", "completed"}, ids : Seq(Nat),
               memos : Nat, err : BOOLEAN]

Charge == <<Today, "llm_calls">>

\* What task a run has, where it is in it, and what it works on.
Fits(r) ==
    /\ r.task = "none" => r = Idle
    /\ r.task = "ingest" =>
          /\ r.job \in DOMAIN input /\ input[r.job] # "bad" /\ r.on = Subject(r.job)
          /\ r.step \in IngestSteps
          /\ r.step = "dedupe" => input[r.job] = "url"
    /\ r.task = "forge" =>
          /\ r.job \in ForgeIds /\ r.on = r.job
          /\ r.step \in ForgeSteps
          /\ r.step = "extract" => r.ids # <<>>

TypeInv ==
    /\ memo \in Seq(MemoRow)
    /\ run \in [Workers -> Run] /\ \A w \in Workers : Fits(run[w])
    /\ delivered \in [JobIds -> Nat] /\ trouble \in Nat
    /\ DOMAIN input \subseteq IngestIds /\ \A j \in DOMAIN input : input[j] \in Kinds
    /\ ingest_jobs \in [IngestIds -> IngestRow]
    /\ distill_jobs \in [ForgeIds -> DistillRow] /\ distillable \subseteq ForgeIds
    /\ usage \in [{Charge} -> Nat]

LEMMA IdleFits == Idle \in Run /\ Idle.task = "none" /\ Idle.job = NoJob /\ Idle.on = NoJob /\ Fits(Idle)
<1>1. <<>> \in Seq(Nat)
  BY EmptySeq
<1>2. Idle \in Run /\ Idle.task = "none" /\ Idle.job = NoJob /\ Idle.on = NoJob
  BY <1>1 DEF Idle, Run, Steps
<1> QED
  BY <1>2 DEF Fits

\* Runs of one kind are over jobs of that kind.
LEMMA RunKinds ==
    ASSUME TypeInv, NEW w \in Workers
    PROVE  /\ run[w] \in Run /\ Fits(run[w])
           /\ run[w].job \in IngestIds <=> run[w].task = "ingest"
           /\ run[w].job \in ForgeIds <=> run[w].task = "forge"
           /\ run[w].on \in ForgeIds <=> run[w].task = "forge"
           /\ run[w].on = ThePage => run[w].task = "ingest"
<1>1. run[w] \in Run /\ Fits(run[w]) /\ DOMAIN input \subseteq IngestIds
  BY DEF TypeInv
<1>2. CASE run[w].task = "none"
  <2>1. run[w].job = NoJob /\ run[w].on = NoJob
    BY <1>1, <1>2, IdleFits DEF Fits
  <2> QED
    BY <1>1, <1>2, <2>1, WorkloadsAssumption DEF JobIds
<1>3. CASE run[w].task = "ingest"
  <2>1. run[w].job \in IngestIds /\ (run[w].on = ThePage \/ run[w].on = run[w].job)
    BY <1>1, <1>3 DEF Fits, Subject
  <2> QED
    BY <1>1, <1>3, <2>1, WorkloadsAssumption DEF JobIds
<1>4. CASE run[w].task = "forge"
  <2>1. run[w].job \in ForgeIds /\ run[w].on = run[w].job
    BY <1>1, <1>4 DEF Fits
  <2> QED
    BY <1>1, <1>4, <2>1, WorkloadsAssumption DEF JobIds
<1> QED
  BY <1>1, <1>2, <1>3, <1>4 DEF Run

LEMMA BegunFits ==
    ASSUME NEW task \in {"ingest", "forge"}, NEW j \in JobIds, NEW x \in JobIds \cup {ThePage},
           NEW step \in Steps, NEW ids \in Seq(Nat)
    PROVE  LET r == Begun(task, j, x, step, ids)
           IN  /\ r \in Run /\ r.task = task /\ r.job = j /\ r.on = x /\ r.step = step
               /\ r.ids = ids /\ r.count = 0 /\ r.cost = 0
<1>1. Idle \in Run /\ Idle.count = 0 /\ Idle.cost = 0
  BY IdleFits DEF Idle
<1> QED
  BY <1>1 DEF Begun, Run

LEMMA BegunNoDup == \A task, j, x, step, ids : ~Begun(task, j, x, step, ids).dup
BY DEF Begun, Idle

LEMMA TypesStart == Init => TypeInv
<1> SUFFICES ASSUME Init PROVE TypeInv
  OBVIOUS
<1>1. PICK x \in Workloads : /\ input = x.ingest /\ distillable = x.distill
                             /\ memo = [i \in 1 .. x.notes |-> Memo("note", NoJob, TRUE)]
  BY DEF Init
<1>2. memo \in Seq(MemoRow)
  <2>1. Memo("note", NoJob, TRUE) \in MemoRow
    BY DEF Memo, MemoRow
  <2>2. memo \in [1 .. x.notes -> MemoRow] /\ x.notes \in Nat
    BY <1>1, <2>1, WorkloadsAssumption
  <2> QED
    BY <2>2, SeqDef
<1>3. NoRow \in IngestRow /\ NoDistillRow \in DistillRow
  <2>1. <<>> \in Seq(Nat)
    BY EmptySeq
  <2> QED
    BY <2>1 DEF NoRow, IngestRow, NoDistillRow, DistillRow
<1>4. usage \in [{Charge} -> Nat]
  BY DEF Init, ForgeInit, Charge
<1> QED
  BY <1>1, <1>2, <1>3, <1>4, IdleFits, WorkloadsAssumption, BoundsAssumption
  DEF Init, IngestInit, ForgeInit, TypeInv

\* Worker w goes on with r, the others with what they had.
LEMMA GoesTyped ==
    ASSUME TypeInv, NEW w \in Workers, NEW r \in Run, Fits(r), Goes(w, r), UNCHANGED input
    PROVE  /\ run' \in [Workers -> Run] /\ \A v \in Workers : Fits(run[v])'
           /\ run'[w] = r /\ \A v \in Workers \ {w} : run'[v] = run[v]
<1>1. run' \in [Workers -> Run] /\ run'[w] = r /\ \A v \in Workers \ {w} : run'[v] = run[v]
  BY DEF Goes, TypeInv
<1>2. \A x : Fits(x) => Fits(x)'
  BY DEF Fits, Subject
<1>3. \A v \in Workers : Fits(run[v])'
  BY <1>1, <1>2 DEF TypeInv
<1> QED
  BY <1>1, <1>3

-----------------------------------------------------------------------------
(* The invariant *)

Stored(j) == \E m \in MemoIds : memo[m].job = j

\* What a completed ingest of j may name.
Names(ids, j) ==
    /\ Len(ids) = 1 /\ ids[1] \in MemoIds
    /\ \/ memo[ids[1]].job = j
       \/ input[j] = "url" /\ memo[ids[1]].kind = "url" /\ memo[ids[1]].saved

\* Two runs at work on one thing are told, and so is a job that runs again.
Alone ==
    /\ \A v, w \in Workers :
          run[v].on = run[w].on /\ run[v].on \notin overlapped \cup {NoJob} => v = w
    /\ \A v, w \in Workers :
          run[v].job = run[w].job /\ run[v].job # NoJob /\ delivered[run[v].job] <= 1 => v = w
    /\ \A w \in Workers : run[w].job # NoJob => delivered[run[w].job] # 0

\* A run that is its job's only one has stored nothing before it stores, nor when
\* it fails by itself.
IngestRun(r) ==
    r.task = "ingest" =>
        /\ r.step \in {"codegraph", "hook", "complete"} => Names(r.ids, r.job)
        /\ r.step \in {"bootstrap", "dedupe", "store"} => ~r.dup
        /\ delivered[r.job] <= 1
              /\ (r.step \in {"bootstrap", "bootstrap failed", "dedupe", "store", "failed"} \/ r.dup)
           => ~Stored(r.job)
        /\ ThePage \notin overlapped /\ r.on = ThePage /\ r.step = "store" => PageMemos = {}

IngestOf(j) ==
    LET row == ingest_jobs[j]
    IN  /\ row.st = "completed" => Names(row.ids, j)
        /\ delivered[j] = 0 => ~Stored(j) /\ row.err # "run"
        /\ delivered[j] <= 1 /\ row.err = "run" =>
              row.st = "failed" /\ ~Stored(j) /\ \A w \in Workers : run[w].job # j

IngestInv ==
    /\ \A w \in Workers : IngestRun(run[w])
    /\ \A j \in IngestIds : IngestOf(j)
    /\ ThePage \notin overlapped => \A m, n \in PageMemos : m = n

Of(f) == {d \in distilled : d[1] = f}

\* A run that nobody overlaps has not distilled the memory it works on before.
ForgeRun(r) ==
    r.task = "forge" =>
        /\ r.job \notin overlapped /\ r.step = "extract" => Passes(r.job, Head(r.ids)) = {}
        /\ r.job \notin swallowed => r.count <= Cardinality(Of(r.job))

ForgeInv ==
    /\ distilled \subseteq ForgeIds \X Nat \X Nat \X {"entity", "summary"} /\ IsFiniteSet(distilled)
    /\ DistillationIsTraced
    /\ \A f \in ForgeIds, m \in Nat : \E k \in Nat : Passes(f, m) = 1 .. k
    /\ \A f \in ForgeIds \ overlapped, m \in Nat : Passes(f, m) \subseteq {1}
    /\ \A w \in Workers : ForgeRun(run[w])
    /\ \A f \in ForgeIds \ swallowed : distill_jobs[f].memos <= Cardinality(Of(f))

\* Runs that have passed the check of the budget and are not yet charged.
Admitted == {w \in Workers : run[w].task = "forge" /\ run[w].step # "budget"}

SourcesBounded ==
    /\ \A f \in ForgeIds : Len(distill_jobs[f].ids) <= MaxSources
    /\ \A w \in Workers : run[w].task = "forge" => run[w].cost + Len(run[w].ids) <= MaxSources

BudgetInv ==
    DailyCap > 0 =>
        usage[Charge] <= DailyCap - 1 + (Cardinality(Workers) - Cardinality(Admitted)) * MaxSources

PipelineInv == TypeInv /\ Alone /\ IngestInv /\ ForgeInv /\ SourcesBounded /\ BudgetInv

LEMMA AloneStart == Init => Alone
BY IdleFits DEF Init, Alone

LEMMA IngestStart == Init => IngestInv
<1> SUFFICES ASSUME Init PROVE IngestInv
  OBVIOUS
<1>1. PICK x \in Workloads : memo = [i \in 1 .. x.notes |-> Memo("note", NoJob, TRUE)] /\ x.notes \in Nat
  BY WorkloadsAssumption DEF Init
<1>2. Len(memo) = x.notes /\ MemoIds = 1 .. x.notes
  BY <1>1 DEF MemoIds
<1>3. \A m \in MemoIds : memo[m].kind = "note" /\ memo[m].job = NoJob
  BY <1>1, <1>2 DEF Memo
<1>4. PageMemos = {}
  BY <1>3 DEF PageMemos
<1>5. \A j \in IngestIds : ~Stored(j)
  BY <1>3, WorkloadsAssumption DEF Stored, JobIds
<1>6. \A w \in Workers : run[w].task = "none"
  BY IdleFits DEF Init
<1>7. \A j \in IngestIds : ingest_jobs[j].st = "none" /\ ingest_jobs[j].err = "none"
  BY DEF Init, IngestInit, NoRow
<1> QED
  BY <1>4, <1>5, <1>6, <1>7 DEF IngestInv, IngestRun, IngestOf

LEMMA ForgeStart == Init => ForgeInv
<1> SUFFICES ASSUME Init PROVE ForgeInv
  OBVIOUS
<1>1. distilled = {} /\ \A w \in Workers : run[w].task = "none"
  BY IdleFits DEF Init, ForgeInit
<1>2. \A f, m : Passes(f, m) = {}
  BY <1>1 DEF Passes
<1>3. \A f, m : \E k \in Nat : Passes(f, m) = 1 .. k
  <2>1. 0 \in Nat /\ 1 .. 0 = {}
    OBVIOUS
  <2> QED
    BY <1>2, <2>1
<1>4. \A f \in ForgeIds : distill_jobs[f].memos <= Cardinality(Of(f))
  <2> SUFFICES ASSUME NEW f \in ForgeIds PROVE distill_jobs[f].memos <= Cardinality(Of(f))
    OBVIOUS
  <2>1. Of(f) = {} /\ distill_jobs[f].memos = 0
    BY <1>1 DEF Of, Init, ForgeInit, NoDistillRow
  <2>2. Cardinality(Of(f)) = 0
    BY <2>1, FS_EmptySet
  <2> QED
    BY <2>1, <2>2
<1> QED
  BY <1>1, <1>2, <1>3, <1>4, FS_EmptySet DEF ForgeInv, ForgeRun, Init, ForgeInit, DistillationIsTraced

LEMMA CostStart == Init => SourcesBounded /\ BudgetInv
<1> SUFFICES ASSUME Init PROVE SourcesBounded /\ BudgetInv
  OBVIOUS
<1>1. Admitted = {} /\ \A w \in Workers : run[w].task = "none"
  BY IdleFits DEF Init, Admitted
<1>2. usage[Charge] = 0 /\ \A f \in ForgeIds : Len(distill_jobs[f].ids) = 0
  BY DEF Init, ForgeInit, Charge, NoDistillRow
<1>3. Cardinality(Workers) \in Nat /\ Cardinality(Admitted) = 0 /\ MaxSources \in Nat /\ DailyCap \in Nat
  BY <1>1, FS_EmptySet, FS_CardinalityType, BoundsAssumption, ForgeAssumption
<1>4. (Cardinality(Workers) - Cardinality(Admitted)) * MaxSources \in Nat
  BY <1>3
<1>5. DailyCap > 0 =>
        0 <= DailyCap - 1 + (Cardinality(Workers) - Cardinality(Admitted)) * MaxSources
  BY <1>3, <1>4
<1> QED
  BY <1>1, <1>2, <1>3, <1>5 DEF SourcesBounded, BudgetInv

-----------------------------------------------------------------------------
(* Steps that leave a part alone *)

\* A task is handed over, or a run goes on with what it works on, or ends.
LEMMA AloneDelivered ==
    ASSUME TypeInv, Alone, NEW w \in Workers, NEW j \in JobIds, NEW x \in JobIds \cup {ThePage}, NEW r \in Run,
           Deliver(w, j, x, r), r = Idle \/ (r.job = j /\ r.on = x)
    PROVE  Alone'
<1>1. run'[w] = r /\ \A v \in Workers \ {w} : run'[v] = run[v]
  BY DEF Deliver, Goes, TypeInv
<1>2. /\ delivered'[j] = delivered[j] + 1 /\ \A i \in JobIds \ {j} : delivered'[i] = delivered[i]
      /\ \A i \in JobIds : delivered[i] \in Nat
  BY DEF Deliver, TypeInv
<1>3. overlapped \subseteq overlapped' /\ \A v \in Workers : run[v].on = x => x \in overlapped'
  BY DEF Deliver
<1>4. \A v \in Workers : run[v].job \in JobIds \cup {NoJob}
  BY DEF TypeInv, Run
<1>5. Idle.job = NoJob /\ Idle.on = NoJob /\ x # NoJob /\ j # NoJob
  BY IdleFits, WorkloadsAssumption
<1>6. \A u, v \in Workers :
        run'[u].on = run'[v].on /\ run'[u].on \notin overlapped' \cup {NoJob} => u = v
  BY <1>1, <1>3, <1>5 DEF Alone
<1>7. \A u \in Workers : run'[u].job # NoJob => delivered'[run'[u].job] # 0
  BY <1>1, <1>2, <1>4, <1>5 DEF Alone
<1>8. \A u, v \in Workers :
        run'[u].job = run'[v].job /\ run'[u].job # NoJob /\ delivered'[run'[u].job] <= 1 => u = v
  <2> SUFFICES ASSUME NEW u \in Workers, NEW v \in Workers, run'[u].job = run'[v].job,
                      run'[u].job # NoJob, delivered'[run'[u].job] <= 1, u # v
               PROVE  FALSE
    OBVIOUS
  <2>1. CASE u # w /\ v # w
    BY <1>1, <1>2, <1>4, <2>1 DEF Alone
  <2>2. CASE u = w \/ v = w
    <3>1. run'[u].job = j /\ delivered'[j] <= 1
      BY <1>1, <1>5, <2>2
    <3>2. \E t \in Workers : run[t].job = j
      BY <1>1, <2>2, <3>1
    <3>3. delivered[j] # 0
      BY <1>5, <3>2 DEF Alone
    <3> QED
      BY <1>2, <3>1, <3>3
  <2> QED
    BY <2>1, <2>2
<1> QED
  BY <1>6, <1>7, <1>8 DEF Alone

LEMMA AloneKept ==
    ASSUME Alone, UNCHANGED <<delivered, overlapped>>,
           \A v \in Workers : run'[v] = Idle \/ (run'[v].job = run[v].job /\ run'[v].on = run[v].on)
    PROVE  Alone'
BY IdleFits DEF Alone

\* The memories are what they were, but for those deleted.
MemoStands ==
    /\ Len(memo') = Len(memo)
    /\ \A m \in MemoIds : /\ memo'[m].kind = memo[m].kind /\ memo'[m].job = memo[m].job
                          /\ memo'[m].live => memo[m].live
                          /\ memo'[m].saved = memo[m].saved

\* A run that goes on, that begins, or that is none of the ingests', and a row
\* that says no more than it may.
LEMMA IngestKept ==
    ASSUME TypeInv, TypeInv', IngestInv, MemoStands, UNCHANGED input,
           \A j \in IngestIds : delivered[j] <= delivered'[j],
           overlapped \subseteq overlapped',
           \A v \in Workers :
              \/ run'[v] = run[v]
              \/ run'[v].task # "ingest"
              \/ /\ IngestRun(run[v])'
                 /\ \/ run'[v].job = run[v].job
                    \/ delivered[run'[v].job] < delivered'[run'[v].job],
           \A j \in IngestIds :
              \/ ingest_jobs'[j] = ingest_jobs[j]
              \/ IngestOf(j)'
    PROVE  IngestInv'
<1>1. /\ PageMemos' \subseteq PageMemos /\ \A j : Stored(j)' <=> Stored(j)
      /\ \A ids, j : Names(ids, j) => Names(ids, j)'
  BY DEF PageMemos, Stored, Names, MemoIds, MemoStands
<1>2. \A j \in IngestIds : delivered[j] \in Nat /\ delivered'[j] \in Nat
  BY DEF TypeInv, JobIds
<1>3. ASSUME NEW v \in Workers PROVE IngestRun(run[v])'
  <2>1. CASE run'[v] = run[v]
    <3>1. IngestRun(run[v])
      BY DEF IngestInv
    <3>2. run[v].task = "ingest" => run[v].job \in IngestIds
      BY DEF TypeInv, Fits
    <3>3. ASSUME run[v].task = "ingest"
          PROVE  /\ Names(run[v].ids, run[v].job) => Names(run[v].ids, run[v].job)'
                 /\ Stored(run[v].job)' <=> Stored(run[v].job)
                 /\ delivered'[run[v].job] <= 1 => delivered[run[v].job] <= 1
      <4>1. delivered[run[v].job] <= delivered'[run[v].job]
        BY <3>2, <3>3
      <4>2. delivered[run[v].job] \in Nat /\ delivered'[run[v].job] \in Nat
        BY <1>2, <3>2, <3>3
      <4> QED
        BY <1>1, <2>1, <4>1, <4>2
    <3>4. ThePage \notin overlapped' /\ PageMemos = {} => ThePage \notin overlapped /\ PageMemos' = {}
      BY <1>1
    <3> QED
      BY <2>1, <3>1, <3>3, <3>4 DEF IngestRun
  <2>2. CASE run'[v].task # "ingest"
    BY <2>2 DEF IngestRun
  <2> QED
    BY <2>1, <2>2
<1>4. ASSUME NEW j \in IngestIds, ingest_jobs'[j] = ingest_jobs[j] PROVE IngestOf(j)'
  <2>1. IngestOf(j)
    BY DEF IngestInv
  <2>2. delivered'[j] <= 1 /\ ingest_jobs[j].err = "run" => \A v \in Workers : run'[v].job # j
    <3> SUFFICES ASSUME delivered'[j] <= 1, ingest_jobs[j].err = "run",
                        NEW v \in Workers, run'[v].job = j
                 PROVE  FALSE
      OBVIOUS
    <3>1. delivered[j] = 1 /\ delivered'[j] = 1 /\ run[v].job # j
      BY <1>2, <2>1 DEF IngestOf
    <3>2. run'[v].task = "ingest"
      <4>1. run'[v] \in Run /\ Fits(run[v])'
        BY DEF TypeInv
      <4> QED
        BY <4>1, IdleFits, WorkloadsAssumption DEF Run, Fits, JobIds
    <3> QED
      BY <3>1, <3>2
  <2> QED
    BY <1>1, <1>2, <1>4, <2>1, <2>2 DEF IngestOf
<1>5. ThePage \notin overlapped' => \A m, n \in PageMemos' : m = n
  BY <1>1 DEF IngestInv
<1> QED
  BY <1>3, <1>4, <1>5 DEF IngestInv

LEMMA ForgeKept ==
    ASSUME ForgeInv, UNCHANGED <<distilled, provenance, distillEvents>>,
           swallowed \subseteq swallowed', overlapped \subseteq overlapped',
           \A v \in Workers : \/ run'[v] = run[v]
                              \/ run'[v].task # "forge"
                              \/ ForgeRun(run[v])',
           \A f \in ForgeIds : \/ distill_jobs'[f].memos \in {0, distill_jobs[f].memos}
                               \/ f \notin swallowed' => distill_jobs'[f].memos <= Cardinality(Of(f))
    PROVE  ForgeInv'
<1>1. /\ \A f, m : Passes(f, m)' = Passes(f, m)
      /\ \A f : Of(f)' = Of(f)
  BY DEF Passes, Of
<1>2. \A v \in Workers : ForgeRun(run[v])'
  <2> SUFFICES ASSUME NEW v \in Workers, run'[v] = run[v] \/ run'[v].task # "forge"
               PROVE ForgeRun(run[v])'
    OBVIOUS
  <2>1. ForgeRun(run[v])
    BY DEF ForgeInv
  <2> QED
    BY <1>1, <2>1 DEF ForgeRun
<1>3. \A f \in ForgeIds \ swallowed' : distill_jobs'[f].memos <= Cardinality(Of(f))
  <2> SUFFICES ASSUME NEW f \in ForgeIds \ swallowed'
               PROVE  distill_jobs'[f].memos <= Cardinality(Of(f))
    OBVIOUS
  <2>1. distill_jobs[f].memos <= Cardinality(Of(f))
    BY DEF ForgeInv
  <2>2. Cardinality(Of(f)) \in Nat
    <3>1. Of(f) \subseteq distilled
      BY DEF Of
    <3> QED
      BY <3>1, FS_Subset, FS_CardinalityType DEF ForgeInv
  <2> QED
    BY <2>1, <2>2
<1>4. DistillationIsTraced'
  BY DEF ForgeInv, DistillationIsTraced
<1> QED
  BY <1>1, <1>2, <1>3, <1>4 DEF ForgeInv

-----------------------------------------------------------------------------
(* The budget *)

LEMMA AdmittedFits ==
    /\ IsFiniteSet(Admitted) /\ Cardinality(Admitted) \in Nat
    /\ Cardinality(Workers) \in Nat /\ Cardinality(Admitted) <= Cardinality(Workers)
<1>1. Admitted \subseteq Workers /\ IsFiniteSet(Workers)
  BY BoundsAssumption DEF Admitted
<1> QED
  BY <1>1, FS_Subset, FS_CardinalityType

LEMMA Times == \A a, b, n \in Nat : a <= b => a * n <= b * n /\ a * n \in Nat
OBVIOUS

\* Nothing is charged, and nobody is admitted.
LEMMA BudgetKept ==
    ASSUME TypeInv, BudgetInv, UNCHANGED usage, Admitted' \subseteq Admitted
    PROVE  BudgetInv'
<1> DEFINE a == Cardinality(Admitted)
           b == Cardinality(Admitted')
           c == Cardinality(Workers)
<1>1. a \in Nat /\ b \in Nat /\ c \in Nat /\ a <= c /\ b <= a
  <2>1. IsFiniteSet(Admitted') /\ b <= a
    BY AdmittedFits, FS_Subset
  <2> QED
    BY <2>1, AdmittedFits, FS_CardinalityType
<1>2. usage[Charge] \in Nat /\ DailyCap \in Nat /\ MaxSources \in Nat
  BY ForgeAssumption DEF TypeInv
<1>3. DailyCap > 0 => usage[Charge] <= DailyCap - 1 + (c - a) * MaxSources
  BY DEF BudgetInv
<1> HIDE DEF a, b, c
<1>4. c - a \in Nat /\ c - b \in Nat /\ c - a <= c - b
  BY <1>1
<1>5. (c - a) * MaxSources <= (c - b) * MaxSources
      /\ (c - a) * MaxSources \in Nat /\ (c - b) * MaxSources \in Nat
  BY <1>2, <1>4, Times
<1>6. DailyCap > 0 => usage'[Charge] <= DailyCap - 1 + (c - b) * MaxSources
  BY <1>2, <1>3, <1>5
<1> QED
  BY <1>6 DEF BudgetInv, a, b, c

\* A run is let through while the cap is not reached.
LEMMA BudgetPassed ==
    ASSUME TypeInv', UNCHANGED usage, DailyCap > 0 => usage[Charge] < DailyCap
    PROVE  BudgetInv'
<1> DEFINE b == Cardinality(Admitted')
           c == Cardinality(Workers)
<1>1. b \in Nat /\ c \in Nat /\ b <= c
  <2>1. Admitted' \subseteq Workers /\ IsFiniteSet(Workers)
    BY BoundsAssumption DEF Admitted
  <2> QED
    BY <2>1, FS_Subset, FS_CardinalityType
<1>2. usage'[Charge] \in Nat /\ DailyCap \in Nat /\ MaxSources \in Nat
  BY ForgeAssumption DEF TypeInv
<1> HIDE DEF b, c
<1>3. c - b \in Nat
  BY <1>1
<1>4. (c - b) * MaxSources \in Nat
  BY <1>2, <1>3
<1>5. DailyCap > 0 => usage'[Charge] <= DailyCap - 1 + (c - b) * MaxSources
  BY <1>2, <1>4
<1> QED
  BY <1>5 DEF BudgetInv, b, c

\* A run is charged no more than the memories of its job, and is gone.
LEMMA BudgetCharged ==
    ASSUME TypeInv, BudgetInv, NEW w \in Admitted, NEW n \in Nat, n <= MaxSources,
           usage'[Charge] = usage[Charge] + n, Admitted' = Admitted \ {w}
    PROVE  BudgetInv'
<1> DEFINE a == Cardinality(Admitted)
           b == Cardinality(Admitted')
           c == Cardinality(Workers)
<1>1. a \in Nat /\ b \in Nat /\ c \in Nat /\ a <= c /\ b = a - 1
  <2>1. IsFiniteSet(Admitted') /\ b = a - 1
    BY AdmittedFits, FS_RemoveElement
  <2> QED
    BY <2>1, AdmittedFits, FS_CardinalityType
<1>2. usage[Charge] \in Nat /\ DailyCap \in Nat /\ MaxSources \in Nat
  BY ForgeAssumption DEF TypeInv
<1>3. DailyCap > 0 => usage[Charge] <= DailyCap - 1 + (c - a) * MaxSources
  BY DEF BudgetInv
<1> HIDE DEF a, b, c
<1>4. c - a \in Nat /\ c - b = (c - a) + 1
  BY <1>1
<1>5. \A p, q \in Nat : (p + 1) * q = p * q + q /\ p * q \in Nat
  OBVIOUS
<1>6. (c - b) * MaxSources = (c - a) * MaxSources + MaxSources /\ (c - a) * MaxSources \in Nat
  BY <1>2, <1>4, <1>5
<1>7. DailyCap > 0 => usage'[Charge] <= DailyCap - 1 + (c - b) * MaxSources
  BY <1>2, <1>3, <1>6
<1> QED
  BY <1>7 DEF BudgetInv, a, b, c

\* With one day and one kind, the window of the check is the counter.
LEMMA RejectedAtCap ==
    ASSUME TypeInv
    PROVE  U!Rejected(usage, Days, NoOverride, Caps, Today) <=> DailyCap > 0 /\ usage[Charge] >= DailyCap
<1> DEFINE x == <<"daily", "llm_calls">>
<1>1. usage[Charge] \in Nat /\ DailyCap \in Nat
  BY ForgeAssumption DEF TypeInv
<1>2. DOMAIN Caps = {x} /\ Caps[x] = DailyCap /\ x[1] = "daily" /\ x[2] = "llm_calls"
  BY DEF Caps
<1>3. DOMAIN NoOverride = {x} /\ NoOverride[x] = 0
  BY <1>2 DEF NoOverride
<1>4. U!IsEmpty(Caps) <=> DailyCap = 0
  BY <1>2 DEF U!IsEmpty
<1>5. U!resolve_budgets(NoOverride, Caps) = [y \in {x} |-> DailyCap]
  BY <1>2, <1>3 DEF U!resolve_budgets
<1>6. U!Used(usage, Days, "llm_calls", "daily", Today) = usage[Charge]
  <2> DEFINE window == {d \in Days : U!NotAfter(Today, d) /\ U!NotAfter(d, Today)}
             Sums(f) == f = [s \in SUBSET window |->
                IF s = {} THEN 0
                ELSE f[s \ {CHOOSE d \in s : TRUE}] + usage[<<CHOOSE d \in s : TRUE, "llm_calls">>]]
             sums == CHOOSE f : Sums(f)
             upto == [s \in SUBSET window |-> IF s = {} THEN 0 ELSE usage[Charge]]
  <2>1. U!Used(usage, Days, "llm_calls", "daily", Today) = sums[window]
    BY DEF U!Used, U!get_usage, U!FoldSet, U!MapThenFoldSet
  <2>2. window = {Today} /\ (CHOOSE d \in {Today} : TRUE) = Today /\ {Today} \ {Today} = {}
    BY DEF Days, Today, U!NotAfter
  <2>3. SUBSET window = {{}, {Today}} /\ {Today} # {}
    BY <2>2
  <2>4. Sums(upto)
    <3>1. upto[{}] = 0 /\ upto[{Today}] = usage[<<Today, "llm_calls">>]
      BY <2>3 DEF Charge
    <3>2. \A s \in SUBSET window :
            upto[s] = IF s = {} THEN 0
                      ELSE upto[s \ {CHOOSE d \in s : TRUE}] + usage[<<CHOOSE d \in s : TRUE, "llm_calls">>]
      <4>1. upto[{Today} \ {CHOOSE d \in {Today} : TRUE}] + usage[<<CHOOSE d \in {Today} : TRUE, "llm_calls">>]
              = 0 + usage[<<Today, "llm_calls">>]
        BY <2>2, <3>1
      <4>2. usage[<<Today, "llm_calls">>] \in Nat
        BY <1>1 DEF Charge
      <4> QED
        BY <2>3, <3>1, <4>1, <4>2
    <3> QED
      BY <3>2
  <2>5. Sums(sums)
    BY <2>4
  <2>6. sums[window] = sums[{}] + usage[<<Today, "llm_calls">>] /\ sums[{}] = 0
    <3> HIDE DEF sums
    <3> QED
      BY <2>2, <2>3, <2>5
  <2> QED
    BY <1>1, <2>1, <2>6 DEF Charge
<1> QED
  BY <1>1, <1>2, <1>4, <1>5, <1>6 DEF U!Rejected, U!Exceeded

-----------------------------------------------------------------------------
(* How runs go on *)

LEMMA GoesToTyped ==
    ASSUME TypeInv, NEW w \in Workers, NEW step \in Steps, GoesTo(w, step), UNCHANGED input,
           \/ /\ run[w].task = "ingest" /\ step \in IngestSteps
              /\ step = "dedupe" => input[run[w].job] = "url"
           \/ /\ run[w].task = "forge" /\ step \in ForgeSteps
              /\ step = "extract" => run[w].ids # <<>>
    PROVE  /\ run' \in [Workers -> Run] /\ \A v \in Workers : Fits(run[v])'
           /\ \A v \in Workers \ {w} : run'[v] = run[v]
           /\ run'[w].step = step
           /\ \A field \in {"task", "job", "on", "ids", "dup", "distill", "count", "cost"} :
                 run'[w][field] = run[w][field]
<1> DEFINE r == [run[w] EXCEPT !.step = step]
<1>1. run[w] \in Run /\ Fits(run[w])
  BY DEF TypeInv
<1>2. /\ r \in Run /\ r.step = step /\ r.task = run[w].task /\ r.job = run[w].job /\ r.on = run[w].on
      /\ r.ids = run[w].ids /\ r.dup = run[w].dup /\ r.distill = run[w].distill
      /\ r.count = run[w].count /\ r.cost = run[w].cost
  BY <1>1 DEF Run
<1>3. Goes(w, r)
  BY DEF GoesTo
<1> HIDE DEF r
<1>4. Fits(r)
  BY <1>1, <1>2 DEF Fits
<1> QED
  BY <1>2, <1>3, <1>4, GoesTyped

LEMMA ReturnsTyped ==
    ASSUME TypeInv, NEW w \in Workers, Returns(w), UNCHANGED input
    PROVE  /\ run' \in [Workers -> Run] /\ \A v \in Workers : Fits(run[v])'
           /\ run'[w] = Idle /\ \A v \in Workers \ {w} : run'[v] = run[v]
BY IdleFits, GoesTyped DEF Returns

\* What the runs of the other kind do to the parts of this one: nothing.
LEMMA ForgeAside ==
    ASSUME TypeInv, ForgeInv, SourcesBounded, BudgetInv, overlapped \subseteq overlapped',
           UNCHANGED <<distilled, provenance, distillEvents, usage, swallowed>>,
           \A v \in Workers : run'[v] = run[v] \/ run'[v].task # "forge",
           \A f \in ForgeIds : \/ distill_jobs'[f] = distill_jobs[f]
                               \/ distill_jobs'[f].memos = 0 /\ Len(distill_jobs'[f].ids) <= MaxSources
    PROVE  ForgeInv' /\ SourcesBounded' /\ BudgetInv'
<1>1. ForgeInv'
  BY ForgeKept
<1>2. SourcesBounded'
  BY DEF SourcesBounded
<1>3. Admitted' \subseteq Admitted
  BY DEF Admitted
<1>4. BudgetInv'
  BY <1>3, BudgetKept
<1> QED
  BY <1>1, <1>2, <1>4

LEMMA IngestAside ==
    ASSUME TypeInv, TypeInv', IngestInv, UNCHANGED <<memo, ingestVars>>, overlapped \subseteq overlapped',
           \A j \in IngestIds : delivered[j] <= delivered'[j],
           \A v \in Workers : run'[v] = run[v] \/ run'[v].task # "ingest"
    PROVE  IngestInv'
<1>1. MemoStands /\ UNCHANGED <<input, ingest_jobs>>
  BY DEF MemoStands, ingestVars
<1> QED
  BY <1>1, IngestKept

LEMMA NoneOlder ==
    ASSUME TypeInv, UNCHANGED delivered
    PROVE  \A j \in IngestIds : delivered[j] <= delivered'[j]
BY DEF TypeInv, JobIds

-----------------------------------------------------------------------------
(* Ingest *)

\* A run that takes its next step without a memory of its own to show for it.
LEMMA IngestGoesOn ==
    ASSUME PipelineInv, TypeInv', NEW w \in Workers, run[w].task = "ingest",
           UNCHANGED <<memo, delivered, overlapped, input, distilled, provenance, distillEvents, usage, swallowed>>,
           \A v \in Workers \ {w} : run'[v] = run[v],
           \A field \in {"task", "job", "on", "ids", "dup"} : run'[w][field] = run[w][field],
           run'[w].step \in {"codegraph", "hook", "complete"} =>
              run[w].step \in {"codegraph", "hook", "complete"},
           run'[w].step \in {"bootstrap", "dedupe", "store"} => run[w].step \in {"bootstrap", "dedupe", "store"},
           run'[w].step \in {"bootstrap failed", "failed"} =>
              run[w].step \in {"bootstrap", "dedupe", "store"} \/ run[w].dup,
           run'[w].step = "store" /\ run[w].on = ThePage => PageMemos = {},
           \A j \in IngestIds : \/ ingest_jobs'[j] = ingest_jobs[j]
                                \/ /\ ingest_jobs'[j].st = "running" /\ j = run[w].job
                                   /\ ingest_jobs'[j].err = ingest_jobs[j].err,
           \A f \in ForgeIds : \/ distill_jobs'[f] = distill_jobs[f]
                               \/ distill_jobs'[f].memos = 0 /\ Len(distill_jobs'[f].ids) <= MaxSources
    PROVE  PipelineInv'
<1>1. /\ run'[w].task = run[w].task /\ run'[w].job = run[w].job /\ run'[w].on = run[w].on
      /\ run'[w].ids = run[w].ids /\ run'[w].dup = run[w].dup
  OBVIOUS
<1>2. /\ PageMemos' = PageMemos /\ \A j \in IngestIds : Stored(j)' <=> Stored(j)
      /\ MemoStands /\ \A j \in IngestIds : delivered[j] <= delivered'[j]
  BY NoneOlder DEF PageMemos, Stored, MemoIds, MemoStands, PipelineInv
<1>3. IngestRun(run[w])'
  <2>1. IngestRun(run[w]) /\ run[w].job \in IngestIds
    BY RunKinds DEF PipelineInv, IngestInv
  <2>2. Names(run[w].ids, run[w].job) => Names(run[w].ids, run[w].job)'
    BY <1>1 DEF Names, MemoIds
  <2>3. Stored(run[w].job)' <=> Stored(run[w].job)
    BY <1>1, <1>2, <2>1
  <2> QED
    BY <1>1, <1>2, <2>1, <2>2, <2>3 DEF IngestRun
<1>4. ASSUME NEW j \in IngestIds, ingest_jobs'[j].st = "running", j = run[w].job,
             ingest_jobs'[j].err = ingest_jobs[j].err
      PROVE  IngestOf(j)'
  <2>1. IngestOf(j)
    BY DEF PipelineInv, IngestInv
  <2> QED
    BY <1>2, <1>4, <2>1 DEF IngestOf
<1>5. IngestInv'
  BY <1>1, <1>2, <1>3, <1>4, IngestKept DEF PipelineInv
<1>6. Alone'
  BY <1>1, AloneKept DEF PipelineInv
<1>7. ForgeInv' /\ SourcesBounded' /\ BudgetInv'
  BY <1>1, ForgeAside DEF PipelineInv
<1> QED
  BY <1>5, <1>6, <1>7 DEF PipelineInv

LEMMA BootstrapIngestKeeps ==
    ASSUME PipelineInv, NEW w \in Workers, BootstrapIngest(w), UNCHANGED forgeVars
    PROVE  PipelineInv'
<1> DEFINE j == run[w].job
<1>1. run[w].task = "ingest" /\ run[w].step = "bootstrap" /\ j \in IngestIds /\ TypeInv
  BY RunKinds DEF BootstrapIngest, At, PipelineInv
<1>2. UNCHANGED <<memo, delivered, overlapped, trouble, input, distilled, provenance, distillEvents, usage, swallowed,
                  distill_jobs, distillable>>
  BY DEF BootstrapIngest, Quiet, forgeVars
<1>3. PICK step \in {"bootstrap failed", "dedupe", "store"} :
         /\ GoesTo(w, step) /\ (step = "dedupe" <=> step # "bootstrap failed" /\ input[j] = "url")
         /\ \/ UNCHANGED ingest_jobs
            \/ ingest_jobs' = [ingest_jobs EXCEPT ![j].st = "running"]
  BY DEF BootstrapIngest, materialize
<1>4. step = "store" => run[w].on # ThePage
  <2>1. run[w].on = Subject(j) /\ j # ThePage
    BY <1>1, WorkloadsAssumption DEF TypeInv, Fits, JobIds
  <2> QED
    BY <1>3, <2>1 DEF Subject
<1>5. /\ run' \in [Workers -> Run] /\ \A v \in Workers : Fits(run[v])'
      /\ \A v \in Workers \ {w} : run'[v] = run[v]
      /\ run'[w].step = step
      /\ \A field \in {"task", "job", "on", "ids", "dup", "distill", "count", "cost"} :
            run'[w][field] = run[w][field]
  BY <1>1, <1>2, <1>3, GoesToTyped DEF Steps, IngestSteps
<1>6. /\ ingest_jobs' \in [IngestIds -> IngestRow]
      /\ \A i \in IngestIds : \/ ingest_jobs'[i] = ingest_jobs[i]
                              \/ /\ ingest_jobs'[i].st = "running" /\ i = j
                                 /\ ingest_jobs'[i].err = ingest_jobs[i].err
  <2>1. ingest_jobs \in [IngestIds -> IngestRow]
    BY <1>1 DEF TypeInv
  <2>2. CASE UNCHANGED ingest_jobs
    BY <2>1, <2>2
  <2>3. CASE ingest_jobs' = [ingest_jobs EXCEPT ![j].st = "running"]
    <3>1. ingest_jobs[j] \in IngestRow
      BY <1>1, <2>1
    <3>2. /\ [ingest_jobs[j] EXCEPT !.st = "running"] \in IngestRow
          /\ [ingest_jobs[j] EXCEPT !.st = "running"].st = "running"
          /\ [ingest_jobs[j] EXCEPT !.st = "running"].err = ingest_jobs[j].err
      BY <3>1 DEF IngestRow
    <3>3. ingest_jobs' = [ingest_jobs EXCEPT ![j] = [ingest_jobs[j] EXCEPT !.st = "running"]]
      BY <2>3
    <3> QED
      BY <1>1, <2>1, <3>2, <3>3
  <2> QED
    BY <1>3, <2>2, <2>3
<1>7. TypeInv'
  BY <1>1, <1>2, <1>5, <1>6 DEF TypeInv
<1> QED
  BY <1>1, <1>2, <1>4, <1>5, <1>6, <1>7, IngestGoesOn DEF PipelineInv

\* The steps of an ingest that only move on, or file the job of its memory.
LEMMA IngestMovesOn ==
    ASSUME PipelineInv, NEW w \in Workers, run[w].task = "ingest", NEW step \in IngestSteps \ {"dedupe"},
           GoesTo(w, step), trouble' \in Nat,
           UNCHANGED <<memo, delivered, overlapped, input, ingest_jobs, distilled, provenance, distillEvents,
                       usage, swallowed, distillable, distill_jobs>>,
           step \in {"codegraph", "hook", "complete"} => run[w].step \in {"codegraph", "hook", "complete"},
           step \in {"bootstrap", "store"} => run[w].step \in {"bootstrap", "dedupe", "store"},
           step \in {"bootstrap failed", "failed"} => run[w].step \in {"bootstrap", "dedupe", "store"} \/ run[w].dup,
           step = "store" /\ run[w].on = ThePage => PageMemos = {}
    PROVE  PipelineInv'
<1>1. TypeInv
  BY DEF PipelineInv
<1>2. /\ run' \in [Workers -> Run] /\ \A v \in Workers : Fits(run[v])'
      /\ \A v \in Workers \ {w} : run'[v] = run[v]
      /\ run'[w].step = step
      /\ \A field \in {"task", "job", "on", "ids", "dup", "distill", "count", "cost"} :
            run'[w][field] = run[w][field]
  BY <1>1, GoesToTyped DEF Steps
<1>3. TypeInv'
  BY <1>1, <1>2 DEF TypeInv
<1> QED
  BY <1>2, <1>3, IngestGoesOn

LEMMA CodegraphKeeps ==
    ASSUME PipelineInv, NEW w \in Workers, Codegraph(w), UNCHANGED forgeVars
    PROVE  PipelineInv'
<1>1. run[w].task = "ingest" /\ run[w].step = "codegraph" /\ GoesTo(w, "hook")
  BY DEF Codegraph, At
<1>2. trouble' \in Nat
  BY DEF Codegraph, Trouble, PipelineInv, TypeInv
<1>3. UNCHANGED <<memo, delivered, overlapped, input, ingest_jobs, distilled, provenance, distillEvents,
                  usage, swallowed, distillable, distill_jobs>>
  BY DEF Codegraph, Quiet, forgeVars
<1> QED
  BY <1>1, <1>2, <1>3, IngestMovesOn DEF IngestSteps

LEMMA IngestFailsKeeps ==
    ASSUME PipelineInv, NEW w \in Workers, IngestFails(w), UNCHANGED forgeVars
    PROVE  PipelineInv'
<1>1. trouble' = trouble + 1 /\ trouble \in Nat
  BY DEF IngestFails, Trouble, PipelineInv, TypeInv
<1>2. trouble' \in Nat
  BY <1>1
<1>3. UNCHANGED <<memo, delivered, overlapped, input, ingest_jobs, distilled, provenance, distillEvents,
                  usage, swallowed, distillable, distill_jobs>>
  BY DEF IngestFails, Quiet, ingestVars, forgeVars
<1>4. PICK step \in {"bootstrap failed", "failed"} :
         run[w].task = "ingest" /\ run[w].step \in {"bootstrap", "dedupe", "store"} /\ GoesTo(w, step)
  BY DEF IngestFails, At
<1> QED
  BY <1>2, <1>3, <1>4, IngestMovesOn DEF IngestSteps

LEMMA PostIngestKeeps ==
    ASSUME PipelineInv, NEW w \in Workers, PostIngest(w)
    PROVE  PipelineInv'
<1>1. run[w].task = "ingest" /\ run[w].step = "hook" /\ TypeInv /\ run[w] \in Run
  BY RunKinds DEF PostIngest, At, PipelineInv
<1>2. UNCHANGED <<memo, delivered, overlapped, input, ingest_jobs, distilled, provenance, distillEvents,
                  usage, swallowed, distillable>>
  BY DEF PostIngest, ingestVars
<1>3. CASE GoesTo(w, "complete") /\ UNCHANGED distill_jobs /\ (UNCHANGED trouble \/ Trouble)
  <2>1. trouble' \in Nat
    BY <1>3 DEF Trouble, PipelineInv, TypeInv
  <2> QED
    BY <1>1, <1>2, <1>3, <2>1, IngestMovesOn DEF IngestSteps
<1>4. ASSUME NEW f \in distillable, distill_jobs[f].st = "none", distill_jobs' = WithJob(f, run[w].ids),
             Goes(w, [run[w] EXCEPT !.step = "complete", !.distill = f]), UNCHANGED trouble
      PROVE  PipelineInv'
  <2> DEFINE r == [run[w] EXCEPT !.step = "complete", !.distill = f]
             row == [NoDistillRow EXCEPT !.st = "queued", !.ids = run[w].ids]
  <2>1. f \in ForgeIds /\ Fits(run[w])
    BY <1>1 DEF TypeInv
  <2>2. /\ r \in Run /\ r.task = run[w].task /\ r.job = run[w].job /\ r.on = run[w].on
        /\ r.ids = run[w].ids /\ r.dup = run[w].dup /\ r.step = "complete"
    BY <1>1, <2>1 DEF Run, Steps, IngestSteps
  <2>3. row \in DistillRow /\ row.memos = 0 /\ row.ids = run[w].ids
    <3>1. <<>> \in Seq(Nat)
      BY EmptySeq
    <3>2. NoDistillRow \in DistillRow /\ NoDistillRow.memos = 0
      BY <3>1 DEF NoDistillRow, DistillRow
    <3> QED
      BY <1>1, <3>2 DEF DistillRow, Run
  <2>4. Len(run[w].ids) = 1 /\ 1 <= MaxSources
    <3>1. IngestRun(run[w])
      BY DEF PipelineInv, IngestInv
    <3> QED
      BY <1>1, <3>1, ForgeAssumption DEF IngestRun, Names
  <2>5. Goes(w, r)
    BY <1>4
  <2>6. distill_jobs' = [distill_jobs EXCEPT ![f] = row]
    BY <1>4 DEF WithJob
  <2> HIDE DEF r, row
  <2>7. Fits(r)
    BY <1>1, <2>1, <2>2 DEF Fits, IngestSteps
  <2>8. /\ run' \in [Workers -> Run] /\ \A v \in Workers : Fits(run[v])'
        /\ run'[w] = r /\ \A v \in Workers \ {w} : run'[v] = run[v]
    BY <1>1, <1>2, <2>2, <2>5, <2>7, GoesTyped
  <2>9. /\ distill_jobs' \in [ForgeIds -> DistillRow]
        /\ \A g \in ForgeIds : \/ distill_jobs'[g] = distill_jobs[g]
                               \/ distill_jobs'[g].memos = 0 /\ Len(distill_jobs'[g].ids) <= MaxSources
    BY <1>1, <2>1, <2>3, <2>4, <2>6 DEF TypeInv
  <2>10. TypeInv'
    BY <1>1, <1>2, <1>4, <2>8, <2>9 DEF TypeInv
  <2>11. \A field \in {"task", "job", "on", "ids", "dup"} : run'[w][field] = run[w][field]
    BY <2>2, <2>8
  <2> QED
    BY <1>1, <1>2, <2>2, <2>8, <2>9, <2>10, <2>11, IngestGoesOn
<1> QED
  BY <1>3, <1>4 DEF PostIngest

\* Every set of naturals has a least member.
LEMMA NatSetHasMin ==
    ASSUME NEW S \in SUBSET Nat, S # {}
    PROVE  \E x \in S : \A y \in S : x <= y
<1> DEFINE Less == OpToRel(<, Nat)
<1>1. IsWellFoundedOn(Less, Nat)
  BY NatLessThanWellFounded
<1>2. \A x, y \in S : y < x => <<y, x>> \in Less
  BY DEF OpToRel
<1> HIDE DEF Less
<1>3. PICK x \in S : \A y \in S : ~ (<<y, x>> \in Less)
  BY <1>1, WFMin
<1>4. ASSUME NEW y \in S PROVE x <= y
  <2>1. ~(y < x) /\ x \in Nat /\ y \in Nat
    BY <1>2, <1>3
  <2> QED
    BY <2>1
<1> QED
  BY <1>4

\* The newest of the page's memories is there to be named.
LEMMA NewestIsOne ==
    ASSUME NEW S \in SUBSET MemoIds, S # {}, Len(memo) \in Nat
    PROVE  NewestOf(S) \in S
<1> DEFINE gaps == {n \in Nat : \E m \in S : n = Len(memo) - m}
<1>1. \A m \in S : m \in 1 .. Len(memo)
  BY DEF MemoIds
<1>2. gaps # {}
  <2>1. PICK m \in S : TRUE
    OBVIOUS
  <2>2. Len(memo) - m \in Nat
    BY <1>1, <2>1
  <2> QED
    BY <2>1, <2>2
<1>3. PICK n \in gaps : \A k \in gaps : n <= k
  <2>1. gaps \in SUBSET Nat
    OBVIOUS
  <2> QED
    BY <1>2, <2>1, NatSetHasMin
<1>4. PICK m \in S : n = Len(memo) - m
  BY <1>3
<1>5. \A k \in S : k <= m
  <2> SUFFICES ASSUME NEW k \in S PROVE k <= m
    OBVIOUS
  <2>1. Len(memo) - k \in gaps /\ k \in Int /\ m \in Int
    BY <1>1, <1>4
  <2>2. n <= Len(memo) - k
    BY <1>3, <2>1
  <2> QED
    BY <1>4, <2>1, <2>2
<1> QED
  BY <1>4, <1>5 DEF NewestOf

\* The page is there already, or its text is going to be stored.
LEMMA DedupeKeeps ==
    ASSUME PipelineInv, NEW w \in Workers, Dedupe(w), UNCHANGED forgeVars
    PROVE  PipelineInv'
<1>1. run[w].task = "ingest" /\ run[w].step = "dedupe" /\ TypeInv /\ run[w] \in Run /\ Fits(run[w])
  BY RunKinds DEF Dedupe, At, PipelineInv
<1>2. UNCHANGED <<memo, delivered, overlapped, input, ingest_jobs, distilled, provenance, distillEvents,
                  usage, swallowed, distillable, distill_jobs, trouble>>
  BY DEF Dedupe, Quiet, ingestVars, forgeVars
<1>3. CASE PageMemos = {}
  <2>1. GoesTo(w, "store") /\ trouble' \in Nat
    BY <1>1, <1>2, <1>3 DEF Dedupe, TypeInv
  <2> QED
    BY <1>1, <1>2, <1>3, <2>1, IngestMovesOn DEF IngestSteps
<1>4. CASE PageMemos # {}
  <2> DEFINE m == NewestOf(PageMemos)
             r == [run[w] EXCEPT !.step = "complete", !.dup = TRUE, !.ids = <<m>>]
  <2>1. m \in PageMemos /\ m \in MemoIds /\ m \in Nat
    <3>1. PageMemos \in SUBSET MemoIds /\ Len(memo) \in Nat
      BY <1>1, LenProperties DEF PageMemos, TypeInv
    <3>2. m \in PageMemos
      BY <1>4, <3>1, NewestIsOne
    <3> HIDE DEF m
    <3>3. m \in 1 .. Len(memo)
      BY <3>1, <3>2 DEF MemoIds
    <3> QED
      BY <3>1, <3>2, <3>3 DEF MemoIds
  <2>2. Goes(w, r)
    BY <1>4 DEF Dedupe
  <2> HIDE DEF m
  <2>3. <<m>> \in Seq(Nat) /\ Len(<<m>>) = 1 /\ <<m>>[1] = m
    BY <2>1
  <2>4. /\ r \in Run /\ r.task = "ingest" /\ r.job = run[w].job /\ r.on = run[w].on
        /\ r.ids = <<m>> /\ r.dup /\ r.step = "complete"
    BY <1>1, <2>3 DEF Run, Steps, IngestSteps
  <2> HIDE DEF r
  <2>5. Fits(r)
    BY <1>1, <2>4 DEF Fits, IngestSteps
  <2>6. /\ run' \in [Workers -> Run] /\ \A v \in Workers : Fits(run[v])'
        /\ run'[w] = r /\ \A v \in Workers \ {w} : run'[v] = run[v]
    BY <1>1, <1>2, <2>2, <2>4, <2>5, GoesTyped
  <2>7. TypeInv'
    BY <1>1, <1>2, <2>6 DEF TypeInv
  <2>8. IngestRun(run[w])'
    <3>1. input[run[w].job] = "url" /\ memo[m].kind = "url" /\ memo[m].saved
      <4>1. memo[m] \in MemoRow
        BY <1>1, <2>1, ElementOfSeq DEF TypeInv, MemoIds
      <4> QED
        BY <1>1, <2>1, <4>1 DEF Fits, PageMemos, MemoRow
    <3>2. Names(r.ids, r.job)
      BY <2>1, <2>3, <2>4, <3>1 DEF Names
    <3>3. delivered[run[w].job] <= 1 => ~Stored(run[w].job)
      BY <1>1 DEF PipelineInv, IngestInv, IngestRun
    <3>4. /\ run'[w].job = run[w].job /\ run'[w].ids = r.ids /\ run'[w].job = r.job
          /\ run'[w].step = "complete" /\ run'[w].dup
      BY <2>4, <2>6
    <3>5. Names(run[w].ids, run[w].job)'
      BY <1>2, <3>2, <3>4 DEF Names, MemoIds
    <3>6. Stored(run[w].job)' <=> Stored(run[w].job)
      BY <1>2, <3>4 DEF Stored, MemoIds
    <3> QED
      BY <1>2, <3>3, <3>4, <3>5, <3>6 DEF IngestRun
  <2>9. MemoStands /\ \A j \in IngestIds : delivered[j] <= delivered'[j]
    BY <1>1, <1>2, NoneOlder DEF MemoStands
  <2>10. IngestInv'
    BY <1>1, <1>2, <2>4, <2>6, <2>7, <2>8, <2>9, IngestKept DEF PipelineInv
  <2>11. Alone'
    BY <1>2, <2>4, <2>6, AloneKept DEF PipelineInv
  <2>12. ForgeInv' /\ SourcesBounded' /\ BudgetInv'
    BY <1>2, <2>4, <2>6, ForgeAside DEF PipelineInv
  <2> QED
    BY <2>7, <2>10, <2>11, <2>12 DEF PipelineInv
<1> QED
  BY <1>3, <1>4

\* The text becomes a memory: the job's own, and the page's only one.
LEMMA StoreKeeps ==
    ASSUME PipelineInv, NEW w \in Workers, Store(w), UNCHANGED forgeVars
    PROVE  PipelineInv'
<1> DEFINE j == run[w].job
           n == Len(memo) + 1
<1>1. run[w].task = "ingest" /\ run[w].step = "store" /\ TypeInv /\ run[w] \in Run /\ Fits(run[w])
  BY RunKinds DEF Store, At, PipelineInv
<1>2. UNCHANGED <<delivered, overlapped, input, ingest_jobs, distilled, provenance, distillEvents,
                  usage, swallowed, distillable, distill_jobs>>
  BY DEF Store, ingestVars, forgeVars
<1>3. /\ j \in IngestIds /\ input[j] \in Kinds /\ j # NoJob /\ delivered[j] # 0
      /\ input[j] = "url" => run[w].on = ThePage
  <2>1. j \in IngestIds /\ input[j] \in Kinds
    BY <1>1 DEF TypeInv, Fits
  <2>2. j # NoJob
    BY <2>1, WorkloadsAssumption DEF JobIds
  <2> QED
    BY <1>1, <2>1, <2>2 DEF PipelineInv, Alone, Fits, Subject
<1>5. PICK saved \in BOOLEAN : /\ IF saved THEN UNCHANGED trouble ELSE Trouble
                             /\ memo' = Append(memo, Memo(input[j], j, saved))
  BY DEF Store
<1> DEFINE new == Memo(input[j], j, saved)
<1>4. new \in MemoRow /\ new.kind = input[j] /\ new.job = j /\ trouble' \in Nat
  BY <1>1, <1>3, <1>5 DEF Memo, MemoRow, Trouble, TypeInv
<1>6. PICK next \in {"hook", "codegraph"} : Goes(w, [run[w] EXCEPT !.step = next, !.ids = <<n>>])
  BY DEF Store
<1> DEFINE r == [run[w] EXCEPT !.step = next, !.ids = <<n>>]
<1>7. memo \in Seq(MemoRow) /\ n \in Nat \ {0} /\ MemoIds = 1 .. (n - 1)
  BY <1>1, LenProperties DEF TypeInv, MemoIds
<1>8. <<n>> \in Seq(Nat) /\ Len(<<n>>) = 1 /\ <<n>>[1] = n
  BY <1>7
<1>9. Goes(w, r)
  BY <1>6
<1> HIDE DEF new, n
<1>10. /\ r \in Run /\ r.task = "ingest" /\ r.job = j /\ r.on = run[w].on
       /\ r.ids = <<n>> /\ r.dup = run[w].dup /\ r.step = next
  BY <1>1, <1>8 DEF Run, Steps, IngestSteps
<1> HIDE DEF r
<1>11. Fits(r)
  BY <1>1, <1>10 DEF Fits, IngestSteps
<1>12. /\ run' \in [Workers -> Run] /\ \A v \in Workers : Fits(run[v])'
       /\ run'[w] = r /\ \A v \in Workers \ {w} : run'[v] = run[v]
  BY <1>1, <1>2, <1>9, <1>10, <1>11, GoesTyped
<1>13. /\ memo' \in Seq(MemoRow) /\ Len(memo') = n /\ memo'[n] = new
       /\ \A m \in MemoIds : memo'[m] = memo[m]
  <2>1. n = Len(memo) + 1 /\ Len(memo) \in Nat
    BY <1>7, LenProperties DEF n
  <2>2. /\ memo' \in Seq(MemoRow) /\ Len(memo') = Len(memo) + 1 /\ memo'[Len(memo) + 1] = new
        /\ \A m \in 1 .. Len(memo) : memo'[m] = memo[m]
    <3>1. new \in MemoRow /\ memo' = Append(memo, new) /\ memo \in Seq(MemoRow)
      BY <1>4, <1>5, <1>7 DEF new
    <3> QED
      BY <3>1, AppendProperties
  <2> QED
    BY <2>1, <2>2 DEF MemoIds
<1>14. MemoIds' = MemoIds \cup {n} /\ n \notin MemoIds
  BY <1>7, <1>13 DEF MemoIds
<1>15. TypeInv'
  BY <1>1, <1>2, <1>4, <1>12, <1>13 DEF TypeInv
<1>16. \A i \in IngestIds : Stored(i)' <=> Stored(i) \/ i = j
  BY <1>4, <1>13, <1>14 DEF Stored
<1>17. \A ids, i : Names(ids, i) => Names(ids, i)'
  BY <1>2, <1>13, <1>14 DEF Names
<1>18. /\ PageMemos' \subseteq PageMemos \cup {n}
       /\ input[j] # "url" => PageMemos' \subseteq PageMemos
  BY <1>4, <1>13, <1>14 DEF PageMemos
<1>19. IngestRun(run[w]) /\ ~run[w].dup
  BY <1>1 DEF PipelineInv, IngestInv, IngestRun
<1>20. ASSUME NEW v \in Workers PROVE IngestRun(run[v])'
  <2>1. CASE v = w
    <3>1. run'[w].ids = <<n>> /\ run'[w].job = j /\ run'[w].step = next /\ ~run'[w].dup
      BY <1>10, <1>12, <1>19
    <3>2. memo'[n].job = j /\ n \in MemoIds'
      BY <1>4, <1>13, <1>14
    <3>3. Names(run[w].ids, run[w].job)'
      BY <1>8, <3>1, <3>2 DEF Names
    <3> QED
      BY <2>1, <3>1, <3>3 DEF IngestRun
  <2>2. CASE v # w /\ run[v].task = "ingest"
    <3>1. run'[v] = run[v] /\ IngestRun(run[v]) /\ run[v].job \in IngestIds
      BY <1>1, <1>12, <2>2, RunKinds DEF PipelineInv, IngestInv
    <3>2. delivered[run[v].job] <= 1 => run[v].job # j
      BY <1>3, <2>2 DEF PipelineInv, Alone
    <3>3. delivered[run[v].job] <= 1 => (Stored(run[v].job)' <=> Stored(run[v].job))
      BY <1>16, <3>1, <3>2
    <3>4. ThePage \notin overlapped /\ run[v].on = ThePage => PageMemos' \subseteq PageMemos
      BY <1>3, <1>18, <2>2, WorkloadsAssumption DEF PipelineInv, Alone
    <3>5. Names(run[v].ids, run[v].job) => Names(run[v].ids, run[v].job)'
      BY <1>17, <3>1
    <3> QED
      BY <1>2, <2>2, <3>1, <3>3, <3>4, <3>5 DEF IngestRun
  <2>3. CASE v # w /\ run[v].task # "ingest"
    BY <1>12, <2>3 DEF IngestRun
  <2> QED
    BY <2>1, <2>2, <2>3
<1>21. ASSUME NEW i \in IngestIds PROVE IngestOf(i)'
  <2>1. IngestOf(i)
    BY DEF PipelineInv, IngestInv
  <2>2. \A v \in Workers : run'[v].job = run[v].job
    BY <1>10, <1>12
  <2>3. CASE i = j
    <3>1. ~(delivered[j] <= 1 /\ ingest_jobs[j].err = "run")
      BY <2>1, <2>3 DEF IngestOf
    <3> QED
      BY <1>2, <1>3, <1>17, <2>1, <2>3, <3>1 DEF IngestOf
  <2>4. CASE i # j
    BY <1>2, <1>16, <1>17, <2>1, <2>2, <2>4 DEF IngestOf
  <2> QED
    BY <2>3, <2>4
<1>22. ThePage \notin overlapped' => \A a, b \in PageMemos' : a = b
  <2>1. CASE input[j] = "url"
    <3>1. ThePage \notin overlapped => PageMemos = {}
      BY <1>1, <1>3, <1>19, <2>1 DEF IngestRun
    <3> QED
      BY <1>2, <1>18, <3>1
  <2>2. CASE input[j] # "url"
    BY <1>2, <1>18, <2>2 DEF PipelineInv, IngestInv
  <2> QED
    BY <2>1, <2>2
<1>23. IngestInv'
  BY <1>20, <1>21, <1>22 DEF IngestInv
<1>24. Alone'
  BY <1>2, <1>10, <1>12, AloneKept DEF PipelineInv
<1>25. ForgeInv' /\ SourcesBounded' /\ BudgetInv'
  BY <1>2, <1>10, <1>12, ForgeAside DEF PipelineInv
<1> QED
  BY <1>15, <1>23, <1>24, <1>25 DEF PipelineInv

-----------------------------------------------------------------------------
(* Runs that end, and the rows they leave *)

\* A run that ends uncharged leaves nothing that has not been told.
LEMMA RunEnds ==
    ASSUME PipelineInv, NEW w \in Workers, Returns(w), trouble' \in Nat,
           UNCHANGED <<memo, delivered, overlapped, input, distilled, provenance, distillEvents,
                       usage, swallowed, distillable, distill_jobs>>,
           ingest_jobs' \in [IngestIds -> IngestRow],
           \A j \in IngestIds : ingest_jobs'[j] = ingest_jobs[j] \/ IngestOf(j)'
    PROVE  PipelineInv'
<1>1. TypeInv
  BY DEF PipelineInv
<1>2. /\ run' \in [Workers -> Run] /\ \A v \in Workers : Fits(run[v])'
      /\ run'[w] = Idle /\ \A v \in Workers \ {w} : run'[v] = run[v]
  BY <1>1, ReturnsTyped
<1>3. TypeInv'
  BY <1>1, <1>2 DEF TypeInv
<1>4. MemoStands /\ \A j \in IngestIds : delivered[j] <= delivered'[j]
  BY <1>1, NoneOlder DEF MemoStands
<1>5. Idle.task = "none"
  BY IdleFits
<1>6. IngestInv'
  BY <1>1, <1>2, <1>3, <1>4, <1>5, IngestKept DEF PipelineInv
<1>7. Alone'
  BY <1>2, AloneKept DEF PipelineInv
<1>8. ForgeInv' /\ SourcesBounded' /\ BudgetInv'
  BY <1>2, <1>5, ForgeAside DEF PipelineInv
<1> QED
  BY <1>3, <1>6, <1>7, <1>8 DEF PipelineInv

\* A run writes its row at its end: no more than it has done.
LEMMA RowWritten ==
    ASSUME PipelineInv, NEW w \in Workers, Returns(w), UNCHANGED trouble,
           UNCHANGED <<memo, delivered, overlapped, input, distilled, provenance, distillEvents,
                       usage, swallowed, distillable, distill_jobs>>,
           run[w].task = "ingest", NEW row \in IngestRow, Patch(run[w].job, row),
           \/ /\ run[w].step \in {"failed", "bootstrap failed"} /\ row.st = "failed"
           \/ /\ run[w].step = "complete" /\ row.st = "completed" /\ row.ids = run[w].ids
              /\ row.err = ingest_jobs[run[w].job].err
    PROVE  PipelineInv'
<1> DEFINE j == run[w].job
<1>1. TypeInv /\ j \in IngestIds /\ j # NoJob /\ delivered[j] # 0
  <2>1. TypeInv /\ j \in IngestIds
    BY RunKinds DEF PipelineInv
  <2> QED
    BY <2>1, WorkloadsAssumption DEF PipelineInv, Alone, JobIds
<1>2. \/ UNCHANGED ingest_jobs
      \/ ingest_jobs' = [ingest_jobs EXCEPT ![j] = row]
  BY DEF Patch
<1>3. /\ ingest_jobs' \in [IngestIds -> IngestRow]
      /\ \A i \in IngestIds : ingest_jobs'[i] = ingest_jobs[i] \/ (i = j /\ ingest_jobs'[i] = row)
  BY <1>1, <1>2 DEF TypeInv
<1>4. \A v \in Workers : delivered[j] <= 1 => run'[v].job # j
  <2>1. run'[w] = Idle /\ \A v \in Workers \ {w} : run'[v] = run[v]
    BY <1>1, ReturnsTyped
  <2> QED
    BY <1>1, <2>1, IdleFits DEF PipelineInv, Alone
<1>5. IngestRun(run[w]) /\ IngestOf(j)
  BY <1>1 DEF PipelineInv, IngestInv
<1>6. /\ run[w].step = "complete" => Names(run[w].ids, j)
      /\ delivered[j] <= 1 /\ run[w].step \in {"failed", "bootstrap failed"} => ~Stored(j)
  BY <1>5 DEF IngestRun
<1>7. ASSUME NEW i \in IngestIds, i = j, ingest_jobs'[i] = row PROVE IngestOf(i)'
  <2>1. (Stored(i)' <=> Stored(i)) /\ \A ids : Names(ids, i)' <=> Names(ids, i)
    BY DEF Stored, Names, MemoIds
  <2>2. ~(delivered[j] <= 1 /\ ingest_jobs[j].err = "run")
    BY <1>5 DEF IngestOf
  <2> QED
    BY <1>1, <1>4, <1>6, <1>7, <2>1, <2>2 DEF IngestOf
<1>8. trouble' \in Nat
  BY <1>1 DEF TypeInv
<1> QED
  BY <1>3, <1>7, <1>8, RunEnds

LEMMA MarkIngestFailedKeeps ==
    ASSUME PipelineInv, NEW w \in Workers, MarkIngestFailed(w), UNCHANGED forgeVars
    PROVE  PipelineInv'
<1> DEFINE j == run[w].job
           r == [ingest_jobs[j] EXCEPT !.st = "failed", !.err = "run"]
<1>1. run[w].task = "ingest" /\ run[w].step \in {"failed", "bootstrap failed"} /\ TypeInv /\ run[w] \in Run
  BY RunKinds DEF MarkIngestFailed, At, PipelineInv
<1>2. /\ Returns(w)
      /\ UNCHANGED <<trouble, memo, delivered, overlapped, input, distilled, provenance, distillEvents,
                     usage, swallowed, distillable, distill_jobs>>
  BY DEF MarkIngestFailed, Quiet, forgeVars
<1>3. r \in IngestRow /\ r.st = "failed"
  <2>1. ingest_jobs[j] \in IngestRow
    BY <1>1, RunKinds DEF TypeInv
  <2> QED
    BY <2>1 DEF IngestRow
<1>4. [r EXCEPT !.ids = run[w].ids] \in IngestRow /\ [r EXCEPT !.ids = run[w].ids].st = "failed"
  <2> HIDE DEF r
  <2> QED
    BY <1>1, <1>3 DEF IngestRow, Run
<1>5. \E row \in IngestRow : Patch(j, row) /\ row.st = "failed"
  BY <1>3, <1>4 DEF MarkIngestFailed
<1> QED
  BY <1>1, <1>2, <1>5, RowWritten

LEMMA MarkCompletedKeeps ==
    ASSUME PipelineInv, NEW w \in Workers, MarkCompleted(w), UNCHANGED forgeVars
    PROVE  PipelineInv'
<1> DEFINE j == run[w].job
           row == CompletedRow(w)
<1>1. run[w].task = "ingest" /\ run[w].step = "complete" /\ TypeInv /\ run[w] \in Run
  BY RunKinds DEF MarkCompleted, At, PipelineInv
<1>2. /\ Returns(w) /\ Patch(j, row)
      /\ UNCHANGED <<trouble, memo, delivered, overlapped, input, distilled, provenance, distillEvents,
                     usage, swallowed, distillable, distill_jobs>>
  BY DEF MarkCompleted, Quiet, forgeVars
<1>3. row \in IngestRow /\ row.st = "completed" /\ row.ids = run[w].ids /\ row.err = ingest_jobs[j].err
  <2>1. ingest_jobs[j] \in IngestRow
    BY <1>1, RunKinds DEF TypeInv
  <2> QED
    BY <1>1, <2>1 DEF IngestRow, CompletedRow, Run
<1> HIDE DEF row
<1> QED
  BY <1>1, <1>2, <1>3, RowWritten

LEMMA FinalUpdateFailsKeeps ==
    ASSUME PipelineInv, NEW w \in Workers, FinalUpdateFails(w), UNCHANGED forgeVars
    PROVE  PipelineInv'
<1>1. trouble' = trouble + 1 /\ trouble \in Nat /\ run[w].task = "ingest"
  BY DEF FinalUpdateFails, Trouble, At, PipelineInv, TypeInv
<1>2. trouble' \in Nat
  BY <1>1
<1>3. UNCHANGED <<memo, delivered, overlapped, input, ingest_jobs, distilled, provenance, distillEvents,
                  usage, swallowed, distillable, distill_jobs>>
  BY DEF FinalUpdateFails, Quiet, ingestVars, forgeVars
<1>4. CASE run[w].dup /\ GoesTo(w, "failed")
  BY <1>1, <1>2, <1>3, <1>4, IngestMovesOn DEF IngestSteps
<1>5. CASE Returns(w)
  <2>1. ingest_jobs' \in [IngestIds -> IngestRow]
    BY <1>3 DEF PipelineInv, TypeInv
  <2> QED
    BY <1>2, <1>3, <1>5, <2>1, RunEnds
<1> QED
  BY <1>4, <1>5 DEF FinalUpdateFails

LEMMA WorkerDiesKeeps ==
    ASSUME PipelineInv, NEW w \in Workers, WorkerDies(w)
    PROVE  PipelineInv'
<1>1. trouble' = trouble + 1 /\ trouble \in Nat /\ Returns(w)
  BY DEF WorkerDies, Dies, Trouble, PipelineInv, TypeInv
<1>2. trouble' \in Nat
  BY <1>1
<1>3. UNCHANGED <<memo, delivered, overlapped, input, ingest_jobs, distilled, provenance, distillEvents,
                  usage, swallowed, distillable, distill_jobs>>
  BY DEF WorkerDies, Dies, ingestVars
<1>4. ingest_jobs' \in [IngestIds -> IngestRow]
  BY <1>3 DEF PipelineInv, TypeInv
<1> QED
  BY <1>1, <1>2, <1>3, <1>4, RunEnds

-----------------------------------------------------------------------------
(* Requests, deliveries and the watchdog *)

\* A row is filed, a list is made, or rows are given up: no run has a part in it.
LEMMA RowsFiled ==
    ASSUME PipelineInv, UNCHANGED <<memo, run, delivered, overlapped, input, distilled, provenance,
                                    distillEvents, usage, swallowed, distillable>>,
           trouble' \in Nat,
           ingest_jobs' \in [IngestIds -> IngestRow],
           \A j \in IngestIds : ingest_jobs'[j] = ingest_jobs[j] \/ IngestOf(j)',
           distill_jobs' \in [ForgeIds -> DistillRow],
           \A f \in ForgeIds : \/ distill_jobs'[f] = distill_jobs[f]
                               \/ distill_jobs'[f].memos = 0 /\ Len(distill_jobs'[f].ids) <= MaxSources
    PROVE  PipelineInv'
<1>1. TypeInv
  BY DEF PipelineInv
<1>2. \A v \in Workers : Fits(run[v])'
  BY <1>1 DEF TypeInv, Fits, Subject
<1>3. TypeInv'
  BY <1>1, <1>2 DEF TypeInv
<1>4. MemoStands /\ \A j \in IngestIds : delivered[j] <= delivered'[j]
  BY <1>1, NoneOlder DEF MemoStands
<1>5. IngestInv'
  BY <1>1, <1>3, <1>4, IngestKept DEF PipelineInv
<1>6. Alone'
  BY AloneKept DEF PipelineInv
<1>7. ForgeInv' /\ SourcesBounded' /\ BudgetInv'
  BY ForgeAside DEF PipelineInv
<1> QED
  BY <1>3, <1>5, <1>6, <1>7 DEF PipelineInv

LEMMA InsertIngestJobKeeps ==
    ASSUME PipelineInv, NEW j \in IngestIds, insert_ingest_job(j), UNCHANGED forgeVars
    PROVE  PipelineInv'
<1> DEFINE row == [ingest_jobs[j] EXCEPT !.st = "queued"]
<1>1. /\ UNCHANGED <<memo, run, delivered, overlapped, input, distilled, provenance,
                     distillEvents, usage, swallowed, distillable, distill_jobs, trouble>>
      /\ ingest_jobs' = [ingest_jobs EXCEPT ![j] = row] /\ delivered[j] = 0
  BY DEF insert_ingest_job, sharedVars, forgeVars
<1>2. row \in IngestRow /\ row.st = "queued" /\ row.err = ingest_jobs[j].err
  BY DEF IngestRow, PipelineInv, TypeInv
<1> HIDE DEF row
<1>3. ingest_jobs' \in [IngestIds -> IngestRow] /\ ingest_jobs'[j] = row
      /\ \A i \in IngestIds \ {j} : ingest_jobs'[i] = ingest_jobs[i]
  BY <1>1, <1>2 DEF PipelineInv, TypeInv
<1>4. IngestOf(j)'
  <2>1. IngestOf(j) /\ (Stored(j)' <=> Stored(j))
    BY <1>1 DEF PipelineInv, IngestInv, Stored, MemoIds
  <2> QED
    BY <1>1, <1>2, <1>3, <2>1 DEF IngestOf
<1>5. \A i \in IngestIds : ingest_jobs'[i] = ingest_jobs[i] \/ IngestOf(i)'
  <2> SUFFICES ASSUME NEW i \in IngestIds, i = j PROVE IngestOf(i)'
    BY <1>3
  <2> QED
    BY <1>4
<1>6. trouble' \in Nat /\ distill_jobs' \in [ForgeIds -> DistillRow]
  BY <1>1 DEF PipelineInv, TypeInv
<1> QED
  BY <1>1, <1>3, <1>5, <1>6, RowsFiled

LEMMA SelectStaleKeeps ==
    ASSUME PipelineInv, NEW S \in SUBSET IngestIds, SelectStale(S), UNCHANGED forgeVars
    PROVE  PipelineInv'
<1>1. UNCHANGED <<memo, run, delivered, overlapped, input, ingest_jobs, distilled, provenance,
                  distillEvents, usage, swallowed, distillable, distill_jobs>>
  BY DEF SelectStale, forgeVars
<1>2. trouble' = trouble + 1 \/ trouble' = trouble
  BY DEF SelectStale, Trouble
<1>3. trouble \in Nat
  BY DEF PipelineInv, TypeInv
<1>4. trouble' \in Nat
  BY <1>2, <1>3
<1>5. ingest_jobs' \in [IngestIds -> IngestRow] /\ distill_jobs' \in [ForgeIds -> DistillRow]
  BY <1>1 DEF PipelineInv, TypeInv
<1> QED
  BY <1>1, <1>4, <1>5, RowsFiled

\* A row given up keeps the error that a run has left.
LEMMA WatchdogKeeps ==
    ASSUME PipelineInv, mark_stale_running_jobs_failed, UNCHANGED forgeVars
    PROVE  PipelineInv'
<1>1. UNCHANGED <<memo, run, delivered, overlapped, input, distilled, provenance,
                  distillEvents, usage, swallowed, distillable, distill_jobs, trouble>>
  BY DEF mark_stale_running_jobs_failed, sharedVars, forgeVars
<1>2. ASSUME NEW j \in IngestIds
      PROVE  /\ ingest_jobs'[j] \in IngestRow
             /\ ingest_jobs'[j] = ingest_jobs[j] \/ IngestOf(j)'
  <2>1. ingest_jobs[j] \in IngestRow
    BY DEF PipelineInv, TypeInv
  <2>2. CASE j \in watchdog \cap Running
    <3> DEFINE row == [ingest_jobs[j] EXCEPT !.st = "failed", !.err = IF @ = "none" THEN "watchdog" ELSE @]
    <3>1. ingest_jobs'[j] = row
      BY <2>2 DEF mark_stale_running_jobs_failed
    <3>2. /\ row \in IngestRow /\ row.st = "failed"
          /\ row.err = IF ingest_jobs[j].err = "none" THEN "watchdog" ELSE ingest_jobs[j].err
      BY <2>1 DEF IngestRow
    <3> HIDE DEF row
    <3>3. IngestOf(j) /\ (Stored(j)' <=> Stored(j))
      BY <1>1 DEF PipelineInv, IngestInv, Stored, MemoIds
    <3>4. IngestOf(j)'
      BY <1>1, <3>1, <3>2, <3>3 DEF IngestOf
    <3> QED
      BY <3>1, <3>2, <3>4
  <2>3. CASE j \notin watchdog \cap Running
    BY <2>1, <2>3 DEF mark_stale_running_jobs_failed
  <2> QED
    BY <2>2, <2>3
<1>3. ingest_jobs' \in [IngestIds -> IngestRow]
  BY <1>2 DEF mark_stale_running_jobs_failed
<1>4. trouble' \in Nat /\ distill_jobs' \in [ForgeIds -> DistillRow]
  BY <1>1 DEF PipelineInv, TypeInv
<1> QED
  BY <1>1, <1>2, <1>3, <1>4, RowsFiled

LEMMA RequestDistillKeeps ==
    ASSUME PipelineInv, NEW f \in ForgeIds, RequestDistill(f)
    PROVE  PipelineInv'
<1> DEFINE ids == [i \in 1 .. Len(memo) |-> i]
           row == [NoDistillRow EXCEPT !.st = "queued", !.ids = ids]
<1>1. /\ UNCHANGED <<memo, run, delivered, overlapped, input, ingest_jobs, distilled, provenance,
                     distillEvents, usage, swallowed, distillable, trouble>>
      /\ distill_jobs' = [distill_jobs EXCEPT ![f] = row]
  BY DEF RequestDistill, insert_distill_job, sharedVars, ingestVars, WithJob
<1>2. Len(memo) \in Nat /\ Len(memo) <= MaxSources
  BY LenProperties, ForgeAssumption DEF RequestDistill, PipelineInv, TypeInv
<1>3. ids \in Seq(Nat) /\ Len(ids) = Len(memo)
  <2>1. ids \in [1 .. Len(memo) -> Nat]
    BY <1>2
  <2> QED
    BY <1>2, <2>1, SeqDef, LenProperties
<1> HIDE DEF ids
<1>4. row \in DistillRow /\ row.memos = 0 /\ row.ids = ids
  <2>1. <<>> \in Seq(Nat)
    BY EmptySeq
  <2>2. NoDistillRow \in DistillRow /\ NoDistillRow.memos = 0
    BY <2>1 DEF NoDistillRow, DistillRow
  <2> QED
    BY <1>3, <2>2 DEF DistillRow
<1> HIDE DEF row
<1>5. /\ distill_jobs' \in [ForgeIds -> DistillRow]
      /\ \A g \in ForgeIds : \/ distill_jobs'[g] = distill_jobs[g]
                             \/ distill_jobs'[g].memos = 0 /\ Len(distill_jobs'[g].ids) <= MaxSources
  BY <1>1, <1>2, <1>3, <1>4 DEF PipelineInv, TypeInv
<1>6. trouble' \in Nat /\ ingest_jobs' \in [IngestIds -> IngestRow]
  BY <1>1 DEF PipelineInv, TypeInv
<1> QED
  BY <1>1, <1>5, <1>6, RowsFiled

LEMMA ForgetMemoryKeeps ==
    ASSUME PipelineInv, NEW m \in MemoIds, ForgetMemory(m), UNCHANGED <<ingestVars, forgeVars>>
    PROVE  PipelineInv'
<1> DEFINE gone == [memo[m] EXCEPT !.live = FALSE]
<1>1. /\ UNCHANGED <<run, delivered, overlapped, input, ingest_jobs, distilled, provenance,
                     distillEvents, usage, swallowed, distillable, distill_jobs>>
      /\ memo' = [memo EXCEPT ![m] = gone] /\ trouble' = trouble + 1
  BY DEF ForgetMemory, Trouble, ingestVars, forgeVars
<1>2. TypeInv /\ memo \in Seq(MemoRow) /\ m \in 1 .. Len(memo) /\ trouble' \in Nat
  BY <1>1 DEF PipelineInv, TypeInv, MemoIds
<1>3. /\ gone \in MemoRow /\ gone.kind = memo[m].kind /\ gone.job = memo[m].job /\ ~gone.live
      /\ gone.saved = memo[m].saved
  <2>1. memo[m] \in MemoRow
    BY <1>2, ElementOfSeq
  <2> QED
    BY <2>1 DEF MemoRow
<1> HIDE DEF gone
<1>4. /\ memo' \in Seq(MemoRow) /\ Len(memo') = Len(memo) /\ memo'[m] = gone
      /\ \A n \in 1 .. Len(memo) \ {m} : memo'[n] = memo[n]
  BY <1>1, <1>2, <1>3, ExceptSeq
<1>5. MemoStands
  BY <1>3, <1>4 DEF MemoStands, MemoIds
<1>6. \A v \in Workers : Fits(run[v])'
  BY <1>1, <1>2 DEF TypeInv, Fits, Subject
<1>7. TypeInv'
  BY <1>1, <1>2, <1>4, <1>6 DEF TypeInv
<1>8. \A j \in IngestIds : delivered[j] <= delivered'[j]
  BY <1>1, <1>2, NoneOlder
<1>9. IngestInv'
  BY <1>1, <1>2, <1>5, <1>7, <1>8, IngestKept DEF PipelineInv
<1>10. Alone'
  BY <1>1, AloneKept DEF PipelineInv
<1>11. ForgeInv' /\ SourcesBounded' /\ BudgetInv'
  BY <1>1, ForgeAside DEF PipelineInv
<1> QED
  BY <1>7, <1>9, <1>10, <1>11 DEF PipelineInv

\* What a delivery does whatever the job.
LEMMA Delivered ==
    ASSUME PipelineInv, NEW w \in Workers, NEW j \in JobIds, NEW x \in JobIds \cup {ThePage}, NEW r \in Run,
           Fits(r), Deliver(w, j, x, r), r = Idle \/ (r.job = j /\ r.on = x),
           UNCHANGED <<input, ingest_jobs, distill_jobs, distillable, usage>>
    PROVE  /\ TypeInv' /\ Alone' /\ UNCHANGED memo
           /\ run'[w] = r /\ \A v \in Workers \ {w} : run'[v] = run[v]
           /\ delivered'[j] = delivered[j] + 1 /\ \A i \in JobIds \ {j} : delivered'[i] = delivered[i]
           /\ overlapped \subseteq overlapped' /\ run[w] = Idle
           /\ \A i \in IngestIds : delivered[i] <= delivered'[i]
<1>1. TypeInv
  BY DEF PipelineInv
<1>2. Goes(w, r) /\ UNCHANGED memo /\ run[w] = Idle /\ overlapped \subseteq overlapped'
  BY DEF Deliver
<1>3. delivered' = [delivered EXCEPT ![j] = @ + 1] /\ \A i \in JobIds : delivered[i] \in Nat
  BY <1>1 DEF Deliver, TypeInv
<1>4. /\ delivered' \in [JobIds -> Nat]
      /\ delivered'[j] = delivered[j] + 1 /\ \A i \in JobIds \ {j} : delivered'[i] = delivered[i]
      /\ \A i \in IngestIds : delivered[i] <= delivered'[i]
  BY <1>1, <1>3 DEF TypeInv, JobIds
<1>5. trouble' \in Nat
  <2>1. trouble \in Nat /\ (trouble' = trouble \/ trouble' = trouble + 1)
    BY <1>1 DEF Deliver, Trouble, TypeInv
  <2> QED
    BY <2>1
<1>6. /\ run' \in [Workers -> Run] /\ \A v \in Workers : Fits(run[v])'
      /\ run'[w] = r /\ \A v \in Workers \ {w} : run'[v] = run[v]
  BY <1>1, <1>2, GoesTyped
<1>7. TypeInv'
  BY <1>1, <1>2, <1>4, <1>5, <1>6 DEF TypeInv
<1>8. Alone'
  BY <1>1, AloneDelivered DEF PipelineInv
<1> QED
  BY <1>2, <1>4, <1>6, <1>7, <1>8

\* A job that runs for the first time has stored nothing.
LEMMA StartIngestKeeps ==
    ASSUME PipelineInv, NEW w \in Workers, NEW j \in IngestIds, StartIngest(w, j), UNCHANGED forgeVars
    PROVE  PipelineInv'
<1> DEFINE x == Subject(j)
           b == Begun("ingest", j, x, "bootstrap", <<>>)
           r == IF ~validate_input(j) THEN Idle ELSE b
<1>1. /\ Deliver(w, j, x, r) /\ j \in DOMAIN input
      /\ UNCHANGED <<input, ingest_jobs, distilled, provenance, distillEvents,
                     usage, swallowed, distillable, distill_jobs>>
  BY DEF StartIngest, ingestVars, forgeVars
<1>2. x \in JobIds \cup {ThePage} /\ j \in JobIds /\ TypeInv
  BY DEF Subject, JobIds, PipelineInv
<1>3. /\ b \in Run /\ b.task = "ingest" /\ b.job = j /\ b.on = x /\ b.step = "bootstrap" /\ ~b.dup
  <2>1. <<>> \in Seq(Nat) /\ "bootstrap" \in Steps
    BY EmptySeq DEF Steps, IngestSteps
  <2>2. ~b.dup
    BY BegunNoDup
  <2>3. b \in Run /\ b.task = "ingest" /\ b.job = j /\ b.on = x /\ b.step = "bootstrap"
    <3> DEFINE none == <<>>
    <3>1. none \in Seq(Nat)
      BY <2>1
    <3> HIDE DEF none, x
    <3>2. /\ Begun("ingest", j, x, "bootstrap", none) \in Run
          /\ Begun("ingest", j, x, "bootstrap", none).task = "ingest"
          /\ Begun("ingest", j, x, "bootstrap", none).job = j
          /\ Begun("ingest", j, x, "bootstrap", none).on = x
          /\ Begun("ingest", j, x, "bootstrap", none).step = "bootstrap"
      BY <1>2, <2>1, <3>1, BegunFits
    <3> QED
      BY <3>2 DEF none
  <2> QED
    BY <2>2, <2>3
<1> HIDE DEF b
<1>4. validate_input(j) => Fits(b)
  BY <1>1, <1>3 DEF Fits, validate_input, x, IngestSteps
<1>5. r \in Run /\ Fits(r) /\ (r = Idle \/ r = b)
  BY <1>3, <1>4, IdleFits
<1> HIDE DEF r, x
<1>6. /\ TypeInv' /\ Alone' /\ UNCHANGED memo
      /\ run'[w] = r /\ \A v \in Workers \ {w} : run'[v] = run[v]
      /\ delivered'[j] = delivered[j] + 1 /\ overlapped \subseteq overlapped'
      /\ \A i \in IngestIds : delivered[i] <= delivered'[i]
  BY <1>1, <1>2, <1>3, <1>5, Delivered
<1>7. delivered[j] \in Nat
  BY <1>2 DEF TypeInv
<1>8. IngestRun(run[w])'
  <2>1. CASE r = Idle
    BY <1>6, <2>1, IdleFits DEF IngestRun
  <2>2. CASE r = b
    <3>1. delivered'[j] <= 1 => ~Stored(j)
      <4>1. delivered[j] = 0 => ~Stored(j)
        BY DEF PipelineInv, IngestInv, IngestOf
      <4> QED
        BY <1>6, <1>7, <4>1
    <3>2. run'[w].job = j /\ run'[w].step = "bootstrap" /\ ~run'[w].dup
      BY <1>3, <1>6, <2>2
    <3>3. Stored(run[w].job)' <=> Stored(j)
      BY <1>6, <3>2 DEF Stored, MemoIds
    <3> QED
      BY <3>1, <3>2, <3>3 DEF IngestRun
  <2> QED
    BY <1>5, <2>1, <2>2
<1>9. MemoStands
  BY <1>6 DEF MemoStands
<1>10. run'[w].task # "ingest" \/ run'[w].job = j
  BY <1>3, <1>5, <1>6, IdleFits
<1>11. delivered[j] < delivered'[j]
  BY <1>6, <1>7
<1>12. \A v \in Workers :
         \/ run'[v] = run[v]
         \/ run'[v].task # "ingest"
         \/ /\ IngestRun(run[v])'
            /\ \/ run'[v].job = run[v].job
               \/ delivered[run'[v].job] < delivered'[run'[v].job]
  <2> SUFFICES ASSUME NEW v \in Workers, v = w, run'[v].task = "ingest"
               PROVE  IngestRun(run[v])' /\ delivered[run'[v].job] < delivered'[run'[v].job]
    BY <1>6
  <2> QED
    BY <1>8, <1>10, <1>11
<1>13. IngestInv'
  BY <1>1, <1>2, <1>6, <1>9, <1>12, IngestKept DEF PipelineInv
<1>14. \A v \in Workers : run'[v] = run[v] \/ run'[v].task # "forge"
  BY <1>3, <1>5, <1>6, IdleFits
<1>15. ForgeInv' /\ SourcesBounded' /\ BudgetInv'
  BY <1>1, <1>2, <1>6, <1>14, ForgeAside DEF PipelineInv
<1> QED
  BY <1>6, <1>13, <1>15 DEF PipelineInv

-----------------------------------------------------------------------------
(* Distillations *)

LEMMA OfFinite == ASSUME ForgeInv, NEW f PROVE IsFiniteSet(Of(f)) /\ Cardinality(Of(f)) \in Nat
<1>1. Of(f) \subseteq distilled /\ IsFiniteSet(distilled)
  BY DEF Of, ForgeInv
<1> QED
  BY <1>1, FS_Subset, FS_CardinalityType

LEMMA StartForgeKeeps ==
    ASSUME PipelineInv, NEW w \in Workers, NEW f \in ForgeIds, StartForge(w, f), UNCHANGED ingestVars
    PROVE  PipelineInv'
<1> DEFINE ids == distill_jobs[f].ids
           r == Begun("forge", f, f, "budget", ids)
<1>1. /\ Deliver(w, f, f, r)
      /\ UNCHANGED <<input, ingest_jobs, distilled, provenance, distillEvents,
                     usage, swallowed, distillable, distill_jobs>>
  BY DEF StartForge, ingestVars, forgeVars
<1>2. f \in JobIds /\ TypeInv /\ f \notin IngestIds /\ f # ThePage
  BY WorkloadsAssumption DEF JobIds, PipelineInv
<1>3. ids \in Seq(Nat) /\ Len(ids) <= MaxSources /\ Len(ids) \in Nat
  BY <1>2, LenProperties DEF TypeInv, DistillRow, PipelineInv, SourcesBounded
<1> HIDE DEF ids
<1>4. /\ r \in Run /\ r.task = "forge" /\ r.job = f /\ r.on = f /\ r.step = "budget"
      /\ r.ids = ids /\ r.count = 0 /\ r.cost = 0
  <2>1. "budget" \in Steps
    BY DEF Steps, ForgeSteps
  <2> QED
    BY <1>2, <1>3, <2>1, BegunFits
<1> HIDE DEF r
<1>5. Fits(r)
  BY <1>4 DEF Fits, ForgeSteps
<1>6. /\ TypeInv' /\ Alone' /\ UNCHANGED memo
      /\ run'[w] = r /\ \A v \in Workers \ {w} : run'[v] = run[v]
      /\ delivered'[f] = delivered[f] + 1 /\ \A i \in JobIds \ {f} : delivered'[i] = delivered[i]
      /\ overlapped \subseteq overlapped'
      /\ \A i \in IngestIds : delivered[i] <= delivered'[i]
  BY <1>1, <1>2, <1>4, <1>5, Delivered
<1>7. IngestInv'
  <2>1. \A v \in Workers : run'[v] = run[v] \/ run'[v].task # "ingest"
    BY <1>4, <1>6
  <2> QED
    BY <1>2, <1>6, <2>1, IngestAside DEF PipelineInv
<1>8. ForgeRun(run[w])'
  <2>1. 0 <= Cardinality(Of(f)) /\ Of(f)' = Of(f)
    <3>1. Cardinality(Of(f)) \in Nat
      BY OfFinite DEF PipelineInv
    <3>2. Of(f)' = Of(f)
      BY <1>1 DEF Of
    <3> QED
      BY <3>1, <3>2
  <2>2. run'[w].count = 0 /\ run'[w].step = "budget" /\ run'[w].job = f
    BY <1>4, <1>6
  <2>3. run'[w].count <= Cardinality(Of(run[w].job)')
    BY <1>1, <2>1, <2>2 DEF Of
  <2> QED
    BY <2>2, <2>3 DEF ForgeRun
<1>9. ForgeInv'
  <2>1. \A v \in Workers : run'[v] = run[v] \/ ForgeRun(run[v])'
    <3> SUFFICES ASSUME NEW v \in Workers, v = w PROVE ForgeRun(run[v])'
      BY <1>6
    <3> QED
      BY <1>8
  <2> QED
    BY <1>1, <1>6, <2>1, ForgeKept DEF PipelineInv
<1>10. SourcesBounded'
  <2>1. run'[w].cost + Len(run'[w].ids) <= MaxSources
    BY <1>3, <1>4, <1>6
  <2> QED
    BY <1>1, <1>6, <2>1 DEF PipelineInv, SourcesBounded
<1>11. BudgetInv'
  <2>1. Admitted' \subseteq Admitted
    BY <1>4, <1>6 DEF Admitted
  <2> QED
    BY <1>1, <1>2, <2>1, BudgetKept DEF PipelineInv
<1> QED
  BY <1>6, <1>7, <1>9, <1>10, <1>11 DEF PipelineInv

\* A run that takes its next step and writes no memory.
LEMMA ForgeGoesOn ==
    ASSUME PipelineInv, TypeInv', NEW w \in Workers, run[w].task = "forge",
           UNCHANGED <<memo, ingestVars, delivered, overlapped, distilled, provenance, distillEvents, usage>>,
           swallowed \subseteq swallowed',
           \A v \in Workers \ {w} : run'[v] = run[v],
           \A field \in {"task", "job", "on"} : run'[w][field] = run[w][field],
           ForgeRun(run[w])', run'[w].cost + Len(run'[w].ids) <= MaxSources,
           run'[w].step # "budget",
           run[w].step = "budget" => (DailyCap > 0 => usage[Charge] < DailyCap),
           \A f \in ForgeIds : /\ distill_jobs'[f].memos = distill_jobs[f].memos
                               /\ distill_jobs'[f].ids = distill_jobs[f].ids
    PROVE  PipelineInv'
<1>1. run'[w].task = "forge" /\ run'[w].job = run[w].job /\ run'[w].on = run[w].on /\ TypeInv
  BY DEF PipelineInv
<1>2. Alone'
  BY <1>1, AloneKept DEF PipelineInv
<1>3. IngestInv'
  <2>1. \A v \in Workers : run'[v] = run[v] \/ run'[v].task # "ingest"
    BY <1>1
  <2> QED
    BY <1>1, <2>1, NoneOlder, IngestAside DEF PipelineInv
<1>4. ForgeInv'
  <2>1. \A v \in Workers : run'[v] = run[v] \/ ForgeRun(run[v])'
    <3> SUFFICES ASSUME NEW v \in Workers, v = w PROVE ForgeRun(run[v])'
      OBVIOUS
    <3> QED
      OBVIOUS
  <2> QED
    BY <2>1, ForgeKept DEF PipelineInv
<1>5. SourcesBounded'
  <2>1. \A v \in Workers : run'[v].task = "forge" => run'[v].cost + Len(run'[v].ids) <= MaxSources
    BY DEF PipelineInv, SourcesBounded
  <2> QED
    BY <2>1 DEF PipelineInv, SourcesBounded
<1>6. BudgetInv'
  <2>1. CASE run[w].step = "budget"
    BY <2>1, BudgetPassed
  <2>2. CASE run[w].step # "budget"
    <3>1. Admitted' \subseteq Admitted
      BY <1>1, <2>2 DEF Admitted
    <3> QED
      BY <1>1, <3>1, BudgetKept DEF PipelineInv
  <2> QED
    BY <2>1, <2>2
<1> QED
  BY <1>2, <1>3, <1>4, <1>5, <1>6 DEF PipelineInv

LEMMA ForgeMovesOn ==
    ASSUME PipelineInv, NEW w \in Workers, run[w].task = "forge", NEW step \in ForgeSteps \ {"budget"},
           GoesTo(w, step), trouble' \in Nat,
           UNCHANGED <<memo, ingestVars, delivered, overlapped, distilled, provenance, distillEvents,
                       usage, swallowed, distillable>>,
           step = "extract" => run[w].ids # <<>> /\ Passes(run[w].job, Head(run[w].ids)) = {},
           run[w].step = "budget" => (DailyCap > 0 => usage[Charge] < DailyCap),
           distill_jobs' \in [ForgeIds -> DistillRow],
           \A f \in ForgeIds : /\ distill_jobs'[f].memos = distill_jobs[f].memos
                               /\ distill_jobs'[f].ids = distill_jobs[f].ids
    PROVE  PipelineInv'
<1>1. TypeInv /\ UNCHANGED <<input, ingest_jobs>>
  BY DEF PipelineInv, ingestVars
<1>2. /\ run' \in [Workers -> Run] /\ \A v \in Workers : Fits(run[v])'
      /\ \A v \in Workers \ {w} : run'[v] = run[v]
      /\ run'[w].step = step
      /\ \A field \in {"task", "job", "on", "ids", "dup", "distill", "count", "cost"} :
            run'[w][field] = run[w][field]
  BY <1>1, GoesToTyped DEF Steps
<1>3. TypeInv'
  BY <1>1, <1>2 DEF TypeInv
<1>4. ForgeRun(run[w])'
  <2>1. ForgeRun(run[w])
    BY DEF PipelineInv, ForgeInv
  <2>2. /\ run'[w].job = run[w].job /\ run'[w].count = run[w].count /\ run'[w].ids = run[w].ids
    BY <1>2
  <2>3. /\ Passes(run[w].job, Head(run[w].ids))' = Passes(run[w].job, Head(run[w].ids))
        /\ Of(run[w].job)' = Of(run[w].job)
    BY <2>2 DEF Passes, Of
  <2> QED
    BY <1>2, <2>1, <2>2, <2>3 DEF ForgeRun
<1>5. run'[w].cost + Len(run'[w].ids) <= MaxSources
  BY <1>2 DEF PipelineInv, SourcesBounded
<1> QED
  BY <1>2, <1>3, <1>4, <1>5, ForgeGoesOn

LEMMA PreflightKeeps ==
    ASSUME PipelineInv, NEW w \in Workers, Preflight(w), UNCHANGED ingestVars
    PROVE  PipelineInv'
<1>1. run[w].task = "forge" /\ run[w].step = "budget" /\ TypeInv
  BY DEF Preflight, At, PipelineInv
<1>2. UNCHANGED <<memo, delivered, overlapped, input, ingest_jobs, distilled, provenance, distillEvents,
                  usage, swallowed, distillable, distill_jobs, trouble>>
  BY DEF Preflight, StillForge, ingestVars
<1>3. /\ trouble' \in Nat /\ ingest_jobs' \in [IngestIds -> IngestRow]
      /\ distill_jobs' \in [ForgeIds -> DistillRow]
  BY <1>1, <1>2 DEF TypeInv
<1>4. CASE U!Rejected(usage, Days, NoOverride, Caps, Today)
  <2>1. Returns(w)
    BY <1>4 DEF Preflight
  <2> QED
    BY <1>2, <1>3, <2>1, RunEnds
<1>5. CASE ~U!Rejected(usage, Days, NoOverride, Caps, Today)
  <2>1. GoesTo(w, "bootstrap")
    BY <1>5 DEF Preflight
  <2>2. DailyCap > 0 => usage[Charge] < DailyCap
    <3>1. ~(DailyCap > 0 /\ usage[Charge] >= DailyCap)
      BY <1>1, <1>5, RejectedAtCap
    <3>2. usage[Charge] \in Nat /\ DailyCap \in Nat
      BY <1>1, ForgeAssumption DEF TypeInv
    <3> QED
      BY <3>1, <3>2
  <2> QED
    BY <1>1, <1>2, <1>3, <2>1, <2>2, ForgeMovesOn DEF ForgeSteps
<1> QED
  BY <1>4, <1>5

LEMMA BootstrapForgeKeeps ==
    ASSUME PipelineInv, NEW w \in Workers, BootstrapForge(w), UNCHANGED ingestVars
    PROVE  PipelineInv'
<1> DEFINE f == run[w].job
           row == [distill_jobs[f] EXCEPT !.st = "running"]
<1>1. run[w].task = "forge" /\ run[w].step = "bootstrap" /\ TypeInv /\ GoesTo(w, "loop") /\ f \in ForgeIds
  BY RunKinds DEF BootstrapForge, At, PipelineInv
<1>2. UNCHANGED <<memo, ingestVars, delivered, overlapped, distilled, provenance, distillEvents,
                  usage, swallowed, distillable, trouble>>
  BY DEF BootstrapForge, StillForge
<1>3. distill_jobs' = [distill_jobs EXCEPT ![f] = row]
  BY DEF BootstrapForge, PatchDistill
<1>4. row \in DistillRow /\ row.memos = distill_jobs[f].memos /\ row.ids = distill_jobs[f].ids
  BY <1>1 DEF TypeInv, DistillRow
<1> HIDE DEF row
<1>5. /\ distill_jobs' \in [ForgeIds -> DistillRow]
      /\ \A g \in ForgeIds : /\ distill_jobs'[g].memos = distill_jobs[g].memos
                             /\ distill_jobs'[g].ids = distill_jobs[g].ids
  BY <1>1, <1>3, <1>4 DEF TypeInv
<1>6. trouble' \in Nat
  BY <1>1, <1>2 DEF TypeInv
<1> QED
  BY <1>1, <1>2, <1>5, <1>6, ForgeMovesOn DEF ForgeSteps

\* The next memory goes to the model only if the job has not distilled it.
LEMMA ProcessMemoryKeeps ==
    ASSUME PipelineInv, NEW w \in Workers, ProcessMemory(w), UNCHANGED ingestVars
    PROVE  PipelineInv'
<1> DEFINE ids == run[w].ids
           f == run[w].job
<1>1. /\ run[w].task = "forge" /\ run[w].step = "loop" /\ TypeInv /\ f \in ForgeIds /\ ids # <<>>
      /\ run[w] \in Run /\ Fits(run[w])
  BY RunKinds DEF ProcessMemory, At, PipelineInv
<1>2. UNCHANGED <<memo, ingestVars, delivered, overlapped, distilled, provenance, distillEvents,
                  usage, swallowed, distillable, trouble, distill_jobs>>
  BY DEF ProcessMemory, StillForge
<1>3. trouble' \in Nat /\ distill_jobs' \in [ForgeIds -> DistillRow]
  BY <1>1, <1>2 DEF TypeInv
<1>4. CASE already_distilled(f, Head(ids)) \/ ~memo[Head(ids)].live
  <2> DEFINE r == [run[w] EXCEPT !.ids = Tail(ids)]
  <2>1. Goes(w, r)
    BY <1>4 DEF ProcessMemory
  <2>2. ids \in Seq(Nat)
    BY <1>1 DEF Run
  <2>3. Tail(ids) \in Seq(Nat) /\ Len(Tail(ids)) = Len(ids) - 1 /\ Len(ids) \in Nat
    BY <1>1, <2>2, HeadTailProperties, LenProperties
  <2>4. /\ r \in Run /\ r.task = "forge" /\ r.job = f /\ r.on = run[w].on /\ r.step = "loop"
        /\ r.ids = Tail(ids) /\ r.count = run[w].count /\ r.cost = run[w].cost
    BY <1>1, <2>3 DEF Run
  <2> HIDE DEF r
  <2>5. Fits(r)
    BY <1>1, <2>4 DEF Fits, ForgeSteps
  <2>6. UNCHANGED <<input, ingest_jobs>>
    BY <1>2 DEF ingestVars
  <2>7. /\ run' \in [Workers -> Run] /\ \A v \in Workers : Fits(run[v])'
        /\ run'[w] = r /\ \A v \in Workers \ {w} : run'[v] = run[v]
    BY <1>1, <2>1, <2>4, <2>5, <2>6, GoesTyped
  <2>8. TypeInv'
    BY <1>1, <1>2, <2>6, <2>7 DEF TypeInv
  <2>9. ForgeRun(run[w])'
    <3>1. ForgeRun(run[w])
      BY DEF PipelineInv, ForgeInv
    <3>2. run'[w].job = f /\ run'[w].step = "loop" /\ run'[w].count = run[w].count
      BY <2>4, <2>7
    <3>3. Of(run[w].job)' = Of(f)
      BY <1>2, <3>2 DEF Of
    <3> QED
      BY <1>1, <1>2, <3>1, <3>2, <3>3 DEF ForgeRun
  <2>10. run'[w].cost + Len(run'[w].ids) <= MaxSources
    <3>1. run[w].cost + Len(ids) <= MaxSources /\ run[w].cost \in Nat /\ MaxSources \in Nat
      BY <1>1, ForgeAssumption DEF PipelineInv, SourcesBounded, Run
    <3>2. run'[w].cost = run[w].cost /\ Len(run'[w].ids) = Len(ids) - 1 /\ Len(ids) \in Nat
      BY <2>3, <2>4, <2>7
    <3> QED
      BY <3>1, <3>2
  <2>11. \A field \in {"task", "job", "on"} : run'[w][field] = run[w][field]
    BY <1>1, <2>4, <2>7
  <2>12. run'[w].step # "budget" /\ run[w].step # "budget"
    BY <1>1, <2>4, <2>7
  <2> QED
    BY <1>1, <1>2, <2>7, <2>8, <2>9, <2>10, <2>11, <2>12, ForgeGoesOn
<1>5. CASE ~(already_distilled(f, Head(ids)) \/ ~memo[Head(ids)].live)
  <2>1. GoesTo(w, "extract")
    BY <1>5 DEF ProcessMemory
  <2>2. Passes(f, Head(ids)) = {}
    BY <1>5 DEF Passes, already_distilled, PipelineInv, ForgeInv, DistillationIsTraced
  <2> QED
    BY <1>1, <1>2, <1>3, <2>1, <2>2, ForgeMovesOn DEF ForgeSteps
<1> QED
  BY <1>4, <1>5

LEMMA ForgeFailsKeeps ==
    ASSUME PipelineInv, NEW w \in Workers, ForgeFails(w), UNCHANGED ingestVars
    PROVE  PipelineInv'
<1>1. trouble' = trouble + 1 /\ trouble \in Nat /\ run[w].task = "forge" /\ TypeInv
  BY DEF ForgeFails, Trouble, At, PipelineInv, TypeInv
<1>2. trouble' \in Nat
  BY <1>1
<1>3. UNCHANGED <<memo, ingestVars, delivered, overlapped, distilled, provenance, distillEvents,
                  usage, swallowed, distillable, distill_jobs>>
  BY DEF ForgeFails, StillForge
<1>4. distill_jobs' \in [ForgeIds -> DistillRow] /\ ingest_jobs' \in [IngestIds -> IngestRow]
  BY <1>1, <1>3 DEF TypeInv, ingestVars
<1>5. CASE Returns(w)
  BY <1>2, <1>3, <1>4, <1>5, RunEnds DEF ingestVars
<1>6. ASSUME NEW step \in {"bootstrap failed", "failed"}, GoesTo(w, step), run[w].step # "budget"
      PROVE  PipelineInv'
  BY <1>1, <1>2, <1>3, <1>4, <1>6, ForgeMovesOn DEF ForgeSteps
<1> QED
  BY <1>5, <1>6 DEF ForgeFails, At

\* What Counted gives: one memory fewer to do, one charge more.
LEMMA CountedFits ==
    ASSUME PipelineInv, NEW w \in Workers, run[w].task = "forge", run[w].step = "extract", NEW n \in Nat
    PROVE  LET r == Counted(w, n)
           IN  /\ r \in Run /\ Fits(r) /\ r.task = "forge" /\ r.job = run[w].job /\ r.on = run[w].on
               /\ r.step = "loop" /\ r.count = run[w].count + n
               /\ r.cost + Len(r.ids) <= MaxSources
<1> DEFINE ids == run[w].ids
           r == Counted(w, n)
<1>1. run[w] \in Run /\ Fits(run[w]) /\ ids # <<>>
  BY RunKinds DEF PipelineInv, Fits
<1>2. ids \in Seq(Nat) /\ run[w].count \in Nat /\ run[w].cost \in Nat
  BY <1>1 DEF Run
<1>3. Tail(ids) \in Seq(Nat) /\ Len(Tail(ids)) = Len(ids) - 1 /\ Len(ids) \in Nat
  BY <1>1, <1>2, HeadTailProperties, LenProperties
<1>4. /\ r \in Run /\ r.task = "forge" /\ r.job = run[w].job /\ r.on = run[w].on /\ r.step = "loop"
      /\ r.ids = Tail(ids) /\ r.count = run[w].count + n /\ r.cost = run[w].cost + 1
  <2> DEFINE left == Tail(ids)
             counted == run[w].count + n
             cost == run[w].cost + 1
  <2>1. left \in Seq(Nat) /\ counted \in Nat /\ cost \in Nat
    BY <1>2, <1>3
  <2>2. r = [run[w] EXCEPT !.step = "loop", !.ids = left, !.count = counted, !.cost = cost]
    BY DEF Counted
  <2> HIDE DEF left, counted, cost
  <2>3. /\ r \in Run /\ r.task = "forge" /\ r.job = run[w].job /\ r.on = run[w].on /\ r.step = "loop"
        /\ r.ids = left /\ r.count = counted /\ r.cost = cost
    BY <1>1, <2>1, <2>2 DEF Run, Steps, ForgeSteps
  <2> QED
    BY <2>3 DEF left, counted, cost
<1> HIDE DEF r
<1>5. Fits(r)
  BY <1>1, <1>4 DEF Fits, ForgeSteps
<1>6. r.cost + Len(r.ids) <= MaxSources
  <2>1. run[w].cost + Len(ids) <= MaxSources /\ MaxSources \in Nat
    BY ForgeAssumption DEF PipelineInv, SourcesBounded
  <2>2. r.cost = run[w].cost + 1 /\ Len(r.ids) = Len(ids) - 1
    BY <1>3, <1>4
  <2> QED
    BY <1>2, <1>3, <2>1, <2>2
<1> QED
  BY <1>4, <1>5, <1>6 DEF r

\* The run counts a memory whose transaction is rolled back: the job is told.
LEMMA AuditEntryFailsKeeps ==
    ASSUME PipelineInv, NEW w \in Workers, AuditEntryFails(w), UNCHANGED ingestVars
    PROVE  PipelineInv'
<1>1. trouble' = trouble + 1 /\ trouble \in Nat /\ run[w].task = "forge" /\ run[w].step = "extract" /\ TypeInv
  BY DEF AuditEntryFails, Trouble, At, PipelineInv, TypeInv
<1>2. trouble' \in Nat
  BY <1>1
<1>3. UNCHANGED <<memo, ingestVars, delivered, overlapped, distilled, provenance, distillEvents,
                  usage, distillable, distill_jobs>>
  BY DEF AuditEntryFails, StillForge
<1>4. CASE GoesTo(w, "failed") /\ UNCHANGED swallowed
  <2>1. distill_jobs' \in [ForgeIds -> DistillRow]
    BY <1>1, <1>3 DEF TypeInv
  <2> QED
    BY <1>1, <1>2, <1>3, <1>4, <2>1, ForgeMovesOn DEF ForgeSteps
<1>5. CASE Goes(w, Counted(w, 1)) /\ swallowed' = swallowed \cup {run[w].job}
  <2> DEFINE r == Counted(w, 1)
  <2>1. /\ r \in Run /\ Fits(r) /\ r.task = "forge" /\ r.job = run[w].job /\ r.on = run[w].on
        /\ r.step = "loop" /\ r.cost + Len(r.ids) <= MaxSources
    BY <1>1, CountedFits
  <2>2. Goes(w, r) /\ UNCHANGED <<input, ingest_jobs>>
    BY <1>3, <1>5 DEF ingestVars
  <2> HIDE DEF r
  <2>3. /\ run' \in [Workers -> Run] /\ \A v \in Workers : Fits(run[v])'
        /\ run'[w] = r /\ \A v \in Workers \ {w} : run'[v] = run[v]
    BY <1>1, <2>1, <2>2, GoesTyped
  <2>4. TypeInv'
    BY <1>1, <1>2, <1>3, <2>2, <2>3 DEF TypeInv
  <2>5. ForgeRun(run[w])'
    <3>1. run'[w].job \in swallowed' /\ run'[w].step = "loop"
      BY <1>5, <2>1, <2>3
    <3> QED
      BY <3>1 DEF ForgeRun
  <2>6. /\ \A field \in {"task", "job", "on"} : run'[w][field] = run[w][field]
        /\ run'[w].step # "budget" /\ run[w].step # "budget"
        /\ run'[w].cost + Len(run'[w].ids) <= MaxSources
    BY <1>1, <2>1, <2>3
  <2> QED
    BY <1>1, <1>3, <1>5, <2>3, <2>4, <2>5, <2>6, ForgeGoesOn
<1> QED
  BY <1>4, <1>5 DEF AuditEntryFails

\* A run that is over writes its counter, is charged and is gone.
LEMMA RunCharged ==
    ASSUME PipelineInv, NEW w \in Admitted, Returns(w), RecordUsage(w), trouble' \in Nat,
           UNCHANGED <<memo, ingestVars, delivered, overlapped, distilled, provenance, distillEvents,
                       swallowed, distillable>>,
           distill_jobs' \in [ForgeIds -> DistillRow],
           \A f \in ForgeIds : /\ distill_jobs'[f].ids = distill_jobs[f].ids
                               /\ \/ distill_jobs'[f].memos = distill_jobs[f].memos
                                  \/ f = run[w].job /\ distill_jobs'[f].memos = run[w].count
    PROVE  PipelineInv'
<1> DEFINE n == run[w].cost
<1>1. /\ TypeInv /\ w \in Workers /\ run[w].task = "forge" /\ run[w].step # "budget"
      /\ run[w] \in Run /\ UNCHANGED <<input, ingest_jobs>>
  BY RunKinds DEF PipelineInv, Admitted, ingestVars
<1>2. n \in Nat /\ n <= MaxSources
  <2>1. n \in Nat /\ Len(run[w].ids) \in Nat /\ MaxSources \in Nat
    BY <1>1, LenProperties, ForgeAssumption DEF Run
  <2>2. n + Len(run[w].ids) <= MaxSources
    BY <1>1 DEF PipelineInv, SourcesBounded
  <2> QED
    BY <2>1, <2>2
<1>3. usage[Charge] \in Nat /\ DOMAIN usage = {Charge}
  BY <1>1 DEF TypeInv
<1>4. usage' \in [{Charge} -> Nat] /\ usage'[Charge] = usage[Charge] + n
  <2>1. usage' = IF n <= 0 THEN usage ELSE [usage EXCEPT ![Charge] = @ + n]
    BY DEF RecordUsage, U!record_usage, Charge
  <2>2. CASE n = 0
    BY <1>1, <1>3, <2>1, <2>2 DEF TypeInv
  <2>3. CASE n > 0
    <3>1. usage' = [usage EXCEPT ![Charge] = usage[Charge] + n]
      BY <1>2, <2>1, <2>3
    <3>2. usage[Charge] + n \in Nat
      BY <1>2, <1>3
    <3> HIDE DEF n
    <3> QED
      BY <1>1, <3>1, <3>2 DEF TypeInv
  <2> QED
    BY <1>2, <2>2, <2>3
<1>5. /\ run' \in [Workers -> Run] /\ \A v \in Workers : Fits(run[v])'
      /\ run'[w] = Idle /\ \A v \in Workers \ {w} : run'[v] = run[v]
  BY <1>1, ReturnsTyped
<1>6. TypeInv'
  BY <1>1, <1>4, <1>5 DEF TypeInv
<1>7. Alone'
  BY <1>5, AloneKept DEF PipelineInv
<1>8. \A v \in Workers : run'[v] = run[v] \/ (run'[v].task # "ingest" /\ run'[v].task # "forge")
  BY <1>5, IdleFits
<1>9. IngestInv'
  BY <1>1, <1>6, <1>8, NoneOlder, IngestAside DEF PipelineInv
<1>10. ForgeInv'
  <2>1. run[w].job \notin swallowed => run[w].count <= Cardinality(Of(run[w].job))
    BY <1>1 DEF PipelineInv, ForgeInv, ForgeRun
  <2>2. \A f \in ForgeIds : \/ distill_jobs'[f].memos \in {0, distill_jobs[f].memos}
                            \/ f \notin swallowed' => distill_jobs'[f].memos <= Cardinality(Of(f))
    BY <2>1
  <2> QED
    BY <1>8, <2>2, ForgeKept DEF PipelineInv
<1>11. SourcesBounded'
  BY <1>8 DEF PipelineInv, SourcesBounded
<1>12. BudgetInv'
  <2>1. Admitted' = Admitted \ {w}
    BY <1>5, IdleFits DEF Admitted
  <2> HIDE DEF n
  <2> QED
    BY <1>1, <1>2, <1>4, <2>1, BudgetCharged DEF PipelineInv
<1> QED
  BY <1>6, <1>7, <1>9, <1>10, <1>11, <1>12 DEF PipelineInv

LEMMA ForgeEndFailsKeeps ==
    ASSUME PipelineInv, NEW w \in Workers, ForgeEndFails(w), UNCHANGED ingestVars
    PROVE  PipelineInv'
<1>1. trouble' = trouble + 1 /\ trouble \in Nat /\ w \in Admitted /\ Returns(w) /\ RecordUsage(w)
  BY DEF ForgeEndFails, Trouble, Admitted, PipelineInv, TypeInv
<1>2. trouble' \in Nat
  BY <1>1
<1>3. UNCHANGED <<memo, ingestVars, delivered, overlapped, distilled, provenance, distillEvents,
                  swallowed, distillable, distill_jobs>>
  BY DEF ForgeEndFails, StillForge
<1>4. distill_jobs' \in [ForgeIds -> DistillRow]
  BY <1>3 DEF PipelineInv, TypeInv
<1> QED
  BY <1>1, <1>2, <1>3, <1>4, RunCharged

LEMMA EndForgeKeeps ==
    ASSUME PipelineInv, NEW w \in Workers, EndForge(w), UNCHANGED ingestVars
    PROVE  PipelineInv'
<1> DEFINE f == run[w].job
<1>1. /\ w \in Admitted /\ run[w].task = "forge" /\ Returns(w) /\ RecordUsage(w) /\ TypeInv
      /\ run[w] \in Run /\ f \in ForgeIds
  BY RunKinds DEF EndForge, At, Admitted, PipelineInv
<1>2. UNCHANGED <<memo, ingestVars, delivered, overlapped, distilled, provenance, distillEvents,
                  swallowed, distillable, trouble>>
  BY DEF EndForge, StillForge
<1>3. trouble' \in Nat
  BY <1>1, <1>2 DEF TypeInv
<1>4. /\ distill_jobs[f] \in DistillRow /\ run[w].count \in Nat
  BY <1>1 DEF TypeInv, Run
<1>5. PICK row \in DistillRow : /\ distill_jobs' = [distill_jobs EXCEPT ![f] = row]
                                /\ row.ids = distill_jobs[f].ids
                                /\ row.memos \in {distill_jobs[f].memos, run[w].count}
  <2> DEFINE old == distill_jobs[f]
             done == [old EXCEPT !.st = "completed", !.memos = run[w].count]
             failed == [old EXCEPT !.st = "failed", !.err = TRUE, !.memos = run[w].count]
             unbegun == [old EXCEPT !.st = "failed", !.err = TRUE]
  <2>1. \E row \in {done, failed, unbegun} : distill_jobs' = [distill_jobs EXCEPT ![f] = row]
    BY DEF EndForge, PatchDistill
  <2> HIDE DEF old
  <2>2. old \in DistillRow
    BY <1>4 DEF old
  <2>3. \A row \in {done, failed, unbegun} :
          row \in DistillRow /\ row.ids = old.ids /\ row.memos \in {old.memos, run[w].count}
    BY <1>4, <2>2 DEF DistillRow
  <2> QED
    BY <2>1, <2>3 DEF old
<1>6. /\ distill_jobs' \in [ForgeIds -> DistillRow]
      /\ \A g \in ForgeIds : /\ distill_jobs'[g].ids = distill_jobs[g].ids
                             /\ \/ distill_jobs'[g].memos = distill_jobs[g].memos
                                \/ g = f /\ distill_jobs'[g].memos = run[w].count
  BY <1>1, <1>5 DEF TypeInv
<1> QED
  BY <1>1, <1>2, <1>3, <1>6, RunCharged

LEMMA OneOrTwoMore ==
    ASSUME NEW A, IsFiniteSet(A), NEW x, NEW y, x \notin A, y \notin A, x # y
    PROVE  /\ IsFiniteSet(A \cup {x}) /\ IsFiniteSet(A \cup {x, y})
           /\ Cardinality(A \cup {x}) = Cardinality(A) + 1
           /\ Cardinality(A \cup {x, y}) = Cardinality(A) + 2
<1> DEFINE B == A \cup {x}
<1>1. IsFiniteSet(B) /\ Cardinality(B) = Cardinality(A) + 1 /\ Cardinality(A) \in Nat
  BY FS_AddElement, FS_CardinalityType
<1>2. y \notin B /\ A \cup {x, y} = B \cup {y}
  OBVIOUS
<1> HIDE DEF B
<1>3. IsFiniteSet(B \cup {y}) /\ Cardinality(B \cup {y}) = Cardinality(B) + 1
  BY <1>1, <1>2, FS_AddElement
<1> QED
  BY <1>1, <1>2, <1>3 DEF B

\* What a pass writes is new, as much as it makes, and of the pass after the last.
WritesNextPass(f, m, kinds, new) ==
    /\ distilled \cup new \subseteq ForgeIds \X Nat \X Nat \X {"entity", "summary"}
    /\ IsFiniteSet(distilled \cup new)
    /\ \A d \in new : d[1] = f /\ d[2] = m
    /\ Cardinality(kinds) \in Nat
    /\ Cardinality(Of(f) \cup new) = Cardinality(Of(f)) + Cardinality(kinds)
    /\ \E k \in Nat : /\ Passes(f, m) = 1 .. k
                      /\ kinds = {} => new = {}
                      /\ kinds # {} => {d[3] : d \in new} = {k + 1}

LEMMA PassWrites ==
    ASSUME ForgeInv, NEW f \in ForgeIds, NEW m \in Nat, NEW kinds \in SUBSET {"entity", "summary"}
    PROVE  WritesNextPass(f, m, kinds, Written(f, m, kinds))
<1> DEFINE new == Written(f, m, kinds)
<1>1. PICK k \in Nat : Passes(f, m) = 1 .. k
  BY DEF ForgeInv
<1>2. Cardinality(Passes(f, m)) = k
  <2>1. 1 \in Int /\ k \in Int
    OBVIOUS
  <2>2. Cardinality(1 .. k) = IF 1 > k THEN 0 ELSE k - 1 + 1
    BY <2>1, FS_Interval
  <2> QED
    BY <1>1, <2>2
<1> DEFINE p == k + 1
           e == <<f, m, p, "entity">>
           s == <<f, m, p, "summary">>
<1>3. new = {<<f, m, p, kind>> : kind \in kinds}
  BY <1>2 DEF Written
<1>4. p \in Nat /\ p \notin 1 .. k
  OBVIOUS
<1>5. e \notin distilled /\ s \notin distilled /\ e # s
  <2>1. \A d \in distilled : d[1] = f /\ d[2] = m => d[3] \in Passes(f, m)
    BY DEF Passes
  <2>2. \A d \in distilled : d[1] = f /\ d[2] = m => d[3] # p
    BY <1>1, <1>4, <2>1
  <2>3. e[1] = f /\ e[2] = m /\ e[3] = p /\ s[1] = f /\ s[2] = m /\ s[3] = p /\ e[4] # s[4]
    OBVIOUS
  <2> HIDE DEF e, s
  <2> QED
    BY <2>2, <2>3
<1>6. {e, s} \subseteq ForgeIds \X Nat \X Nat \X {"entity", "summary"} /\ new \subseteq {e, s}
  BY <1>3, <1>4
<1>7. distilled \cup new \subseteq ForgeIds \X Nat \X Nat \X {"entity", "summary"}
  BY <1>6 DEF ForgeInv
<1>8. \A d \in new : d[1] = f /\ d[2] = m /\ d[3] = p
  BY <1>3
<1>9. kinds # {} => {d[3] : d \in new} = {p}
  <2> SUFFICES ASSUME NEW kind \in kinds PROVE {d[3] : d \in new} = {p}
    OBVIOUS
  <2>1. <<f, m, p, kind>> \in new
    BY <1>3
  <2> QED
    BY <1>8, <2>1
<1>10. \/ kinds = {} /\ new = {}
       \/ kinds = {"entity"} /\ new = {e}
       \/ kinds = {"summary"} /\ new = {s}
       \/ kinds = {"entity", "summary"} /\ new = {e, s}
  <2>1. \/ kinds = {} \/ kinds = {"entity"} \/ kinds = {"summary"} \/ kinds = {"entity", "summary"}
    OBVIOUS
  <2>2. CASE kinds = {}
    BY <1>3, <2>2
  <2>3. CASE kinds = {"entity"}
    BY <1>3, <2>3
  <2>4. CASE kinds = {"summary"}
    BY <1>3, <2>4
  <2>5. CASE kinds = {"entity", "summary"}
    BY <1>3, <2>5
  <2> QED
    BY <2>1, <2>2, <2>3, <2>4, <2>5
<1>11. IsFiniteSet(Of(f)) /\ Cardinality(Of(f)) \in Nat /\ IsFiniteSet(distilled)
  BY OfFinite DEF ForgeInv
<1>12. e \notin Of(f) /\ s \notin Of(f)
  BY <1>5 DEF Of
<1> HIDE DEF new, p, e, s
<1>13. /\ IsFiniteSet(distilled \cup {e}) /\ IsFiniteSet(distilled \cup {s}) /\ IsFiniteSet(distilled \cup {e, s})
  BY <1>5, <1>11, OneOrTwoMore
<1>14. IsFiniteSet(distilled \cup new)
  BY <1>10, <1>11, <1>13
<1>15. /\ Cardinality(Of(f) \cup {e}) = Cardinality(Of(f)) + 1
       /\ Cardinality(Of(f) \cup {s}) = Cardinality(Of(f)) + 1
       /\ Cardinality(Of(f) \cup {e, s}) = Cardinality(Of(f)) + 2
  BY <1>5, <1>11, <1>12, OneOrTwoMore
<1>16. /\ Cardinality({}) = 0 /\ Cardinality({"entity"}) = 1 /\ Cardinality({"summary"}) = 1
       /\ Cardinality({"entity", "summary"}) = 2
  <2>1. IsFiniteSet({}) /\ Cardinality({}) = 0
    BY FS_EmptySet
  <2> DEFINE none == {}
             a == "entity"
             b == "summary"
  <2>2. IsFiniteSet(none) /\ Cardinality(none) = 0 /\ a \notin none /\ b \notin none /\ a # b /\ b # a
    BY <2>1
  <2>3. none \cup {a} = {a} /\ none \cup {b} = {b} /\ none \cup {a, b} = {a, b}
    OBVIOUS
  <2> HIDE DEF none, a, b
  <2>4. Cardinality(none \cup {a}) = 0 + 1 /\ Cardinality(none \cup {a, b}) = 0 + 2
    BY <2>2, OneOrTwoMore
  <2>5. Cardinality(none \cup {b}) = 0 + 1
    BY <2>2, OneOrTwoMore
  <2>6. Cardinality({a}) = 1 /\ Cardinality({b}) = 1 /\ Cardinality({a, b}) = 2
    BY <2>3, <2>4, <2>5
  <2> QED
    BY <2>1, <2>6 DEF a, b
<1>17. Cardinality(Of(f) \cup new) = Cardinality(Of(f)) + Cardinality(kinds) /\ Cardinality(kinds) \in Nat
  <2>1. CASE kinds = {} /\ new = {}
    <3>1. Of(f) \cup new = Of(f)
      BY <2>1
    <3> QED
      BY <1>11, <1>16, <2>1, <3>1
  <2>2. CASE kinds = {"entity"} /\ new = {e}
    BY <1>15, <1>16, <2>2
  <2>3. CASE kinds = {"summary"} /\ new = {s}
    BY <1>15, <1>16, <2>3
  <2>4. CASE kinds = {"entity", "summary"} /\ new = {e, s}
    BY <1>15, <1>16, <2>4
  <2> QED
    BY <1>10, <2>1, <2>2, <2>3, <2>4
<1>18. kinds = {} => new = {}
  BY <1>10
<1> QED
  BY <1>1, <1>7, <1>8, <1>9, <1>14, <1>17, <1>18 DEF new, p, WritesNextPass

\* A memory is distilled: in a pass that its job has not made before.
LEMMA RetainKeeps ==
    ASSUME PipelineInv, NEW w \in Workers, Retain(w), UNCHANGED ingestVars
    PROVE  PipelineInv'
<1>1. /\ run[w].task = "forge" /\ run[w].step = "extract" /\ TypeInv /\ ForgeInv
      /\ run[w].ids # <<>> /\ run[w] \in Run /\ run[w].on = run[w].job /\ run[w].job \in ForgeIds
  BY RunKinds DEF Retain, write_distill_result, At, PipelineInv, Fits
<1>2. PICK f \in ForgeIds : run[w].job = f
  BY <1>1
<1>3. PICK m \in Nat : Head(run[w].ids) = m
  <2>1. run[w].ids \in Seq(Nat)
    BY <1>1 DEF Run
  <2> QED
    BY <1>1, <2>1, HeadTailProperties
<1>4. PICK kinds \in SUBSET {"entity", "summary"} : write_distill_result(w, kinds)
  BY DEF Retain, Distillates, extract_from_chunks, rolling_summarize
<1>5. PICK new : new = Written(f, m, kinds)
  OBVIOUS
<1>6. PICK r : r = Counted(w, Cardinality(kinds))
  OBVIOUS
<1>7. /\ distilled' = distilled \cup new /\ provenance' = provenance \cup new
      /\ distillEvents' = distillEvents \cup {d \in new : d[4] = "entity"}
      /\ Goes(w, r)
      /\ UNCHANGED <<memo, delivered, overlapped, trouble, distillable, distill_jobs, usage, swallowed,
                     input, ingest_jobs>>
  BY <1>2, <1>3, <1>4, <1>5, <1>6
  DEF write_distill_result, insert_provenance, enqueue_distill_audit, ingestVars
<1>8. /\ distilled' \subseteq ForgeIds \X Nat \X Nat \X {"entity", "summary"}
      /\ IsFiniteSet(distilled')
      /\ \A d \in new : d[1] = f /\ d[2] = m
      /\ Cardinality(kinds) \in Nat
      /\ Cardinality(Of(f) \cup new) = Cardinality(Of(f)) + Cardinality(kinds)
      /\ \E k \in Nat : /\ Passes(f, m) = 1 .. k
                        /\ kinds = {} => new = {}
                        /\ kinds # {} => {d[3] : d \in new} = {k + 1}
  <2>1. WritesNextPass(f, m, kinds, Written(f, m, kinds))
    BY <1>1, PassWrites
  <2>2. WritesNextPass(f, m, kinds, new)
    BY <1>5, <2>1
  <2> QED
    BY <1>7, <2>2 DEF WritesNextPass
<1>9. PICK k \in Nat : /\ Passes(f, m) = 1 .. k
                       /\ kinds = {} => new = {}
                       /\ kinds # {} => {d[3] : d \in new} = {k + 1}
  BY <1>8
<1>10. /\ r \in Run /\ Fits(r) /\ r.task = "forge" /\ r.job = f /\ r.on = f
       /\ r.step = "loop" /\ r.count = run[w].count + Cardinality(kinds) /\ r.cost + Len(r.ids) <= MaxSources
  BY <1>1, <1>2, <1>6, <1>8, CountedFits
<1>11. /\ run' \in [Workers -> Run] /\ \A v \in Workers : Fits(run[v])'
       /\ run'[w] = r /\ \A v \in Workers \ {w} : run'[v] = run[v]
  BY <1>1, <1>7, <1>10, GoesTyped
<1>12. TypeInv'
  BY <1>1, <1>7, <1>11 DEF TypeInv
<1>13. Alone'
  <2>1. run'[w].job = run[w].job /\ run'[w].on = run[w].on
    BY <1>1, <1>2, <1>10, <1>11
  <2> QED
    BY <1>7, <1>11, <2>1, AloneKept DEF PipelineInv
<1>14. IngestInv'
  <2>1. \A v \in Workers : run'[v] = run[v] \/ run'[v].task # "ingest"
    BY <1>10, <1>11
  <2> QED
    BY <1>1, <1>7, <1>12, <2>1, NoneOlder, IngestAside DEF PipelineInv
<1>15. /\ Passes(f, m)' = Passes(f, m) \cup {d[3] : d \in new}
       /\ \A g, x : g # f \/ x # m => Passes(g, x)' = Passes(g, x)
       /\ Of(f)' = Of(f) \cup new /\ \A g : g # f => Of(g)' = Of(g)
  BY <1>7, <1>8 DEF Passes, Of
<1>16. \E q \in Nat : Passes(f, m)' = 1 .. q
  <2>1. CASE kinds = {}
    BY <1>9, <1>15, <2>1
  <2>2. CASE kinds # {}
    <3>1. Passes(f, m)' = 1 .. (k + 1) /\ k + 1 \in Nat
      BY <1>9, <1>15, <2>2
    <3> QED
      BY <3>1
  <2> QED
    BY <2>1, <2>2
<1>17. f \notin overlapped => Passes(f, m)' \subseteq {1}
  <2> SUFFICES ASSUME f \notin overlapped PROVE Passes(f, m)' \subseteq {1}
    OBVIOUS
  <2>1. Passes(f, m) = {}
    BY <1>1, <1>2, <1>3 DEF ForgeInv, ForgeRun
  <2>2. k = 0
    BY <1>9, <2>1
  <2> QED
    BY <1>9, <1>15, <2>1, <2>2
<1>18. \A g : /\ Cardinality(Of(g)) \in Nat /\ Cardinality(Of(g)') \in Nat
              /\ Cardinality(Of(g)) <= Cardinality(Of(g)')
  <2> SUFFICES ASSUME NEW g
               PROVE  /\ Cardinality(Of(g)) \in Nat /\ Cardinality(Of(g)') \in Nat
                      /\ Cardinality(Of(g)) <= Cardinality(Of(g)')
    OBVIOUS
  <2>1. Cardinality(Of(g)) \in Nat
    BY <1>1, OfFinite
  <2>2. CASE g = f
    <3>1. Cardinality(Of(f)) \in Nat /\ Cardinality(kinds) \in Nat
      BY <1>8, <2>1, <2>2
    <3>2. Cardinality(Of(f)') = Cardinality(Of(f)) + Cardinality(kinds)
      BY <1>8, <1>15
    <3>3. Of(g)' = Of(f)'
      BY <2>2 DEF Of
    <3> QED
      BY <2>2, <3>1, <3>2, <3>3
  <2>3. CASE g # f
    BY <1>15, <2>1, <2>3
  <2> QED
    BY <2>2, <2>3
<1>19. ASSUME NEW v \in Workers PROVE ForgeRun(run[v])'
  <2>1. ForgeRun(run[v])
    BY <1>1 DEF ForgeInv
  <2>2. CASE v = w
    <3>1. run[w].count <= Cardinality(Of(f)) \/ f \in swallowed
      BY <1>1, <1>2, <2>1, <2>2 DEF ForgeRun
    <3>2. run[w].count \in Nat
      BY <1>1 DEF Run
    <3>3. f \notin swallowed => r.count <= Cardinality(Of(f)')
      BY <1>8, <1>10, <1>15, <1>18, <3>1, <3>2
    <3>4. run'[w].job = f /\ run'[w].step = "loop" /\ run'[w].count = r.count
      BY <1>10, <1>11
    <3>5. Of(run[w].job)' = Of(f)'
      BY <3>4 DEF Of
    <3> QED
      BY <1>7, <2>2, <3>3, <3>4, <3>5 DEF ForgeRun
  <2>3. CASE v # w /\ run[v].task = "forge"
    <3>1. run'[v] = run[v] /\ run[v] \in Run /\ run[v].on = run[v].job /\ run[v].job \in ForgeIds
      BY <1>1, <1>11, <2>3, RunKinds DEF Fits
    <3>2. PICK g \in ForgeIds : run[v].job = g
      BY <3>1
    <3>3. g \notin overlapped => g # f
      <4>1. f # NoJob
        BY WorkloadsAssumption DEF JobIds
      <4> QED
        BY <1>1, <1>2, <2>3, <3>1, <3>2, <4>1 DEF PipelineInv, Alone
    <3>4. run[v].count <= Cardinality(Of(g)) \/ g \in swallowed
      BY <2>1, <2>3, <3>2 DEF ForgeRun
    <3>5. run[v].count \in Nat
      BY <3>1 DEF Run
    <3>6. g \notin swallowed => run[v].count <= Cardinality(Of(g)')
      BY <1>18, <3>4, <3>5
    <3>7. run'[v].job = g /\ Of(run[v].job)' = Of(g)'
      BY <3>1, <3>2 DEF Of
    <3>8. g \notin overlapped /\ run[v].step = "extract" => Passes(g, Head(run[v].ids)) = {}
      BY <2>1, <2>3, <3>2 DEF ForgeRun
    <3>9. g \notin overlapped /\ run'[v].step = "extract" => Passes(run[v].job, Head(run[v].ids))' = {}
      <4> SUFFICES ASSUME g \notin overlapped, run[v].step = "extract"
                   PROVE  Passes(run[v].job, Head(run[v].ids))' = {}
        BY <3>1
      <4>1. PICK x : x = Head(run[v].ids)
        OBVIOUS
      <4>2. Passes(g, x)' = {}
        BY <1>15, <3>3, <3>8, <4>1
      <4>3. run'[v].job = g /\ Head(run'[v].ids) = x
        BY <3>1, <3>7, <4>1
      <4> QED
        BY <4>2, <4>3
    <3> QED
      BY <1>7, <3>1, <3>6, <3>7, <3>9 DEF ForgeRun
  <2>4. CASE v # w /\ run[v].task # "forge"
    BY <1>11, <2>4 DEF ForgeRun
  <2> QED
    BY <2>2, <2>3, <2>4
<1>20. ForgeInv'
  <2>1. DistillationIsTraced'
    BY <1>1, <1>7 DEF ForgeInv, DistillationIsTraced
  <2>2. \A g \in ForgeIds, x \in Nat : \E q \in Nat : Passes(g, x)' = 1 .. q
    <3> SUFFICES ASSUME NEW g \in ForgeIds, NEW x \in Nat PROVE \E q \in Nat : Passes(g, x)' = 1 .. q
      OBVIOUS
    <3>1. CASE g = f /\ x = m
      BY <1>16, <3>1
    <3>2. CASE g # f \/ x # m
      BY <1>1, <1>15, <3>2 DEF ForgeInv
    <3> QED
      BY <3>1, <3>2
  <2>3. \A g \in ForgeIds \ overlapped', x \in Nat : Passes(g, x)' \subseteq {1}
    <3> SUFFICES ASSUME NEW g \in ForgeIds \ overlapped', NEW x \in Nat PROVE Passes(g, x)' \subseteq {1}
      OBVIOUS
    <3>1. CASE g = f /\ x = m
      BY <1>7, <1>17, <3>1
    <3>2. CASE g # f \/ x # m
      <4>1. Passes(g, x)' = Passes(g, x) /\ g \notin overlapped
        BY <1>7, <1>15, <3>2
      <4> QED
        BY <1>1, <4>1 DEF ForgeInv
    <3> QED
      BY <3>1, <3>2
  <2>4. \A g \in ForgeIds \ swallowed' : distill_jobs'[g].memos <= Cardinality(Of(g)')
    <3> SUFFICES ASSUME NEW g \in ForgeIds \ swallowed' PROVE distill_jobs'[g].memos <= Cardinality(Of(g)')
      OBVIOUS
    <3>1. distill_jobs'[g].memos = distill_jobs[g].memos /\ distill_jobs[g].memos <= Cardinality(Of(g))
      BY <1>1, <1>7 DEF ForgeInv
    <3>2. distill_jobs[g].memos \in Nat
      BY <1>1 DEF TypeInv, DistillRow
    <3> QED
      BY <1>18, <3>1, <3>2
  <2> QED
    BY <1>8, <1>19, <2>1, <2>2, <2>3, <2>4 DEF ForgeInv
<1>21. SourcesBounded'
  <2>1. run'[w].cost + Len(run'[w].ids) <= MaxSources
    BY <1>10, <1>11
  <2> QED
    BY <1>7, <1>11, <2>1 DEF PipelineInv, SourcesBounded
<1>22. BudgetInv'
  <2>1. Admitted' \subseteq Admitted
    BY <1>1, <1>10, <1>11 DEF Admitted
  <2> QED
    BY <1>1, <1>7, <2>1, BudgetKept DEF PipelineInv
<1> QED
  BY <1>12, <1>13, <1>14, <1>20, <1>21, <1>22 DEF PipelineInv

-----------------------------------------------------------------------------
(* The invariant holds *)

LEMMA PipelineStart == Init => PipelineInv
BY TypesStart, AloneStart, IngestStart, ForgeStart, CostStart DEF PipelineInv

LEMMA PipelineStep == PipelineInv /\ [Next]_vars => PipelineInv'
<1> SUFFICES ASSUME PipelineInv, [Next]_vars PROVE PipelineInv'
  OBVIOUS
<1>1. CASE Request
  BY <1>1, InsertIngestJobKeeps, RequestDistillKeeps, ForgetMemoryKeeps DEF Request
<1>2. CASE Watch
  BY <1>2, WatchdogKeeps, SelectStaleKeeps DEF Watch
<1>3. ASSUME NEW w \in Workers, Take(w) PROVE PipelineInv'
  BY <1>3, StartIngestKeeps, StartForgeKeeps DEF Take
<1>4. ASSUME NEW w \in Workers, Work(w) PROVE PipelineInv'
  <2>1. CASE IngestStep(w)
    <3>1. UNCHANGED forgeVars
      BY <2>1 DEF IngestStep
    <3> QED
      BY <2>1, <3>1, BootstrapIngestKeeps, DedupeKeeps, StoreKeeps, CodegraphKeeps,
         MarkIngestFailedKeeps, MarkCompletedKeeps DEF IngestStep
  <2>2. CASE PostIngest(w)
    BY <2>2, PostIngestKeeps
  <2>3. CASE ForgeStep(w)
    <3>1. UNCHANGED ingestVars
      BY <2>3 DEF ForgeStep
    <3> QED
      BY <2>3, <3>1, PreflightKeeps, BootstrapForgeKeeps, ProcessMemoryKeeps, RetainKeeps, EndForgeKeeps
      DEF ForgeStep
  <2> QED
    BY <1>4, <2>1, <2>2, <2>3 DEF Work
<1>5. ASSUME NEW w \in Workers, Failure(w) PROVE PipelineInv'
  BY <1>5, IngestFailsKeeps, FinalUpdateFailsKeeps, AuditEntryFailsKeeps, ForgeFailsKeeps,
     ForgeEndFailsKeeps, WorkerDiesKeeps DEF Failure
<1>6. CASE UNCHANGED vars
  <2>1. UNCHANGED <<memo, run, delivered, overlapped, trouble, input, ingest_jobs, distill_jobs, distillable,
                    distilled, provenance, distillEvents, usage, swallowed>>
    BY <1>6 DEF vars, sharedVars, ingestVars, forgeVars
  <2>2. /\ trouble' \in Nat /\ ingest_jobs' \in [IngestIds -> IngestRow]
        /\ distill_jobs' \in [ForgeIds -> DistillRow]
    BY <2>1 DEF PipelineInv, TypeInv
  <2> QED
    BY <2>1, <2>2, RowsFiled
<1> QED
  BY <1>1, <1>2, <1>3, <1>4, <1>5, <1>6 DEF Next

\* Ingest and Forge keep the invariant, whatever jobs, workers and bounds there
\* are, and however runs of them interleave, fail, die and are repeated.
THEOREM PipelineHolds == Spec => []PipelineInv
<1> QED
  BY PipelineStart, PipelineStep, PTL DEF Spec

-----------------------------------------------------------------------------
(* What follows from it *)

LEMMA AtMostOne == ASSUME NEW S, \A a, b \in S : a = b PROVE Cardinality(S) <= 1
<1>1. CASE S = {}
  <2>1. Cardinality(S) = 0
    BY <1>1, FS_EmptySet
  <2> QED
    BY <2>1
<1>2. CASE S # {}
  <2>1. PICK a \in S : S = {a}
    BY <1>2
  <2>2. Cardinality(S) = 1
    BY <2>1, FS_Singleton
  <2> QED
    BY <2>2
<1> QED
  BY <1>1, <1>2

\* However often a page is ingested, with whatever failures and repetitions, it
\* is stored once, so long as no two ingests of it run at the same time: the
\* lookup and the store of IngestPipeline.run are two transactions.
THEOREM PagesAreStoredOnce == Spec => []UrlStoredOnce
<1>1. PipelineInv => UrlStoredOnce
  BY AtMostOne DEF PipelineInv, IngestInv, UrlStoredOnce
<1> QED
  BY <1>1, PipelineHolds, PTL

\* An ingest_jobs row tells what its runs did: a completed row names a memory
\* that its own runs stored (and that is not there only if a swallowed version
\* write rolled it back, or it was deleted since) or one of its page that was in
\* the table; a row that its only run has failed hides no memory; and it is
\* completed over an error only if the watchdog was early or the job ran before.
THEOREM RowsTellTheTruth == Spec => []RowsAreTruthful
<1>1. PipelineInv => RowsAreTruthful
  <2> SUFFICES ASSUME PipelineInv, NEW j \in IngestIds
               PROVE  LET row == ingest_jobs[j]
                      IN  /\ row.st = "completed" =>
                                /\ Len(row.ids) = 1
                                /\ LET m == memo[row.ids[1]]
                                   IN  m.job = j \/ (input[j] = "url" /\ m.kind = "url" /\ m.saved)
                          /\ row.st = "failed" /\ row.err = "run" /\ delivered[j] = 1 =>
                                \A m \in MemoIds : memo[m].job # j
                          /\ row.st = "completed" /\ row.err # "none" =>
                                row.err = "watchdog" \/ delivered[j] > 1
    BY DEF RowsAreTruthful
  <2>1. IngestOf(j)
    BY DEF PipelineInv, IngestInv
  <2>2. ingest_jobs[j].err \in {"none", "run", "watchdog"} /\ delivered[j] \in Nat
    BY DEF PipelineInv, TypeInv, IngestRow, JobIds
  <2> QED
    BY <2>1, <2>2 DEF IngestOf, Names, Stored
<1> QED
  BY <1>1, PipelineHolds, PTL

\* A job whose runs do not overlap distils a memory in one pass at most, whatever
\* fails, dies or is repeated: already_distilled is asked before each.
THEOREM DistilledInOnePass == Spec => []DistilledOnce
<1>1. PipelineInv => DistilledOnce
  <2> SUFFICES ASSUME PipelineInv, NEW f \in ForgeIds \ overlapped, NEW m \in MemoIds
               PROVE  Cardinality(Passes(f, m)) <= 1
    BY DEF DistilledOnce
  <2>1. m \in Nat
    BY DEF MemoIds
  <2>2. Passes(f, m) \subseteq {1}
    BY <2>1 DEF PipelineInv, ForgeInv
  <2>3. \A a, b \in Passes(f, m) : a = b
    BY <2>2
  <2> QED
    BY <2>3, AtMostOne
<1> QED
  BY <1>1, PipelineHolds, PTL

\* memos_written of a distill job never exceeds the memories it has written,
\* unless a failed audit entry was shrugged off in one of its runs.
THEOREM CountersNeverOverstate == Spec => []CountersAreReal
<1>1. PipelineInv => CountersAreReal
  BY DEF PipelineInv, ForgeInv, CountersAreReal, Of
<1> QED
  BY <1>1, PipelineHolds, PTL

\* No distilled memory is without its provenance row, and no entity without its
\* audit event, whether or not provenance is required.
THEOREM DistillationsAreTraced == Spec => []DistillationIsTraced
<1>1. PipelineInv => DistillationIsTraced
  BY DEF PipelineInv, ForgeInv
<1> QED
  BY <1>1, PipelineHolds, PTL

\* The budget is checked before a run and charged after it, so that it can be
\* overdrawn: by less than what all the workers' runs together may use.
THEOREM OverspendHasABound == Spec => []OverspendBounded
<1>1. PipelineInv => OverspendBounded
  <2> SUFFICES ASSUME PipelineInv, DailyCap > 0
               PROVE  usage[Charge] <= DailyCap - 1 + Cardinality(Workers) * MaxSources
    BY DEF OverspendBounded, Charge
  <2> DEFINE a == Cardinality(Admitted)
             c == Cardinality(Workers)
  <2>1. a \in Nat /\ c \in Nat /\ a <= c
    BY AdmittedFits
  <2>2. usage[Charge] \in Nat /\ DailyCap \in Nat /\ MaxSources \in Nat
    BY ForgeAssumption DEF PipelineInv, TypeInv
  <2>3. usage[Charge] <= DailyCap - 1 + (c - a) * MaxSources
    BY DEF PipelineInv, BudgetInv
  <2> HIDE DEF a, c
  <2>4. c - a \in Nat /\ c - a <= c
    BY <2>1
  <2>5. (c - a) * MaxSources <= c * MaxSources /\ (c - a) * MaxSources \in Nat /\ c * MaxSources \in Nat
    BY <2>1, <2>2, <2>4, Times
  <2>6. usage[Charge] <= DailyCap - 1 + c * MaxSources
    BY <2>2, <2>3, <2>5
  <2> QED
    BY <2>6 DEF c
<1> QED
  BY <1>1, PipelineHolds, PTL

\* A completed row changes only at the hands of a run of its job.
LEMMA CompletedStep ==
    ASSUME TypeInv, Next, NEW j \in IngestIds, ingest_jobs[j].st = "completed", ingest_jobs'[j] # ingest_jobs[j]
    PROVE  \E w \in Workers : run[w].job = j
<1>1. DOMAIN ingest_jobs = IngestIds
  BY DEF TypeInv
<1>2. CASE Request
  <2>1. ASSUME NEW i \in IngestIds, insert_ingest_job(i) PROVE FALSE
    <3>1. ingest_jobs[i].st = "none" /\ ingest_jobs' = [ingest_jobs EXCEPT ![i].st = "queued"]
      BY <2>1 DEF insert_ingest_job
    <3>2. i # j
      BY <3>1
    <3> QED
      BY <1>1, <3>1, <3>2
  <2>2. ASSUME NEW f \in ForgeIds, RequestDistill(f) PROVE FALSE
    BY <2>2 DEF RequestDistill, ingestVars
  <2>3. ASSUME UNCHANGED ingestVars PROVE FALSE
    BY <2>3 DEF ingestVars
  <2> QED
    BY <1>2, <2>1, <2>2, <2>3 DEF Request
<1>3. CASE Watch
  <2>1. CASE mark_stale_running_jobs_failed
    <3>1. j \notin Running
      BY DEF Running
    <3> QED
      BY <2>1, <3>1 DEF mark_stale_running_jobs_failed
  <2>2. ASSUME NEW S, SelectStale(S) PROVE FALSE
    BY <2>2 DEF SelectStale
  <2> QED
    BY <1>3, <2>1, <2>2 DEF Watch
<1>4. ASSUME NEW w \in Workers, Take(w) \/ Work(w) \/ Failure(w) PROVE run[w].job = j
  <2>1. \/ UNCHANGED ingest_jobs
        \/ \E row : ingest_jobs' = [ingest_jobs EXCEPT ![run[w].job] = row]
    <3>1. CASE Take(w)
      BY <3>1 DEF Take, StartIngest, ingestVars
    <3>2. CASE Failure(w)
      BY <3>2 DEF Failure, IngestFails, FinalUpdateFails, WorkerDies, ingestVars
    <3>3. CASE BootstrapIngest(w)
      <4>1. CASE UNCHANGED ingest_jobs
        BY <4>1
      <4>2. CASE ingest_jobs' = [ingest_jobs EXCEPT ![run[w].job].st = "running"]
        BY <4>2
      <4> QED
        BY <3>3, <4>1, <4>2 DEF BootstrapIngest
    <3>4. CASE MarkIngestFailed(w)
      BY <3>4 DEF MarkIngestFailed, Patch
    <3>5. CASE MarkCompleted(w)
      BY <3>5 DEF MarkCompleted, Patch
    <3>6. CASE Dedupe(w) \/ Store(w) \/ Codegraph(w) \/ PostIngest(w) \/ ForgeStep(w)
      BY <3>6 DEF Dedupe, Store, Codegraph, PostIngest, ForgeStep, ingestVars
    <3> QED
      BY <1>4, <3>1, <3>2, <3>3, <3>4, <3>5, <3>6 DEF Work, IngestStep
  <2>2. \A row : run[w].job # j => [ingest_jobs EXCEPT ![run[w].job] = row][j] = ingest_jobs[j]
    BY <1>1
  <2> QED
    BY <2>1, <2>2
<1> QED
  BY <1>2, <1>3, <1>4 DEF Next

\* A completed ingest stays completed until it is run again, also when the watchdog
\* has it in its list: mark_stale_running_jobs_failed asks for the status again.
THEOREM CompletedIngestsStand == Spec => CompletedStands
<1>1. PipelineInv /\ [Next]_vars =>
        [\A j \in IngestIds :
            ingest_jobs[j].st = "completed" /\ ingest_jobs'[j].st # "completed" =>
                \E w \in Workers : run[w].job = j]_vars
  <2> SUFFICES ASSUME PipelineInv, Next, NEW j \in IngestIds, ingest_jobs[j].st = "completed",
                      ingest_jobs'[j].st # "completed"
               PROVE  \E w \in Workers : run[w].job = j
    OBVIOUS
  <2> QED
    BY CompletedStep DEF PipelineInv
<1> QED
  BY <1>1, PipelineHolds, PTL DEF Spec, CompletedStands
================================================================================
