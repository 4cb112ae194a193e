-------------------------- MODULE RefineJobsProofs --------------------------
(***************************************************************************)
(* Proofs about RefineScheduler and RefineJobs: the rotation of tenants is *)
(* fair, each completed run moves every weight once, a cluster is          *)
(* summarized once and a memory gets one edge to another.                  *)
(***************************************************************************)
EXTENDS RefineJobs, TLAPS, FiniteSetTheorems

(* Runs *)

Running(w) == refining[w].step # "idle"
Expected(e) == After[<<signal[e], Cardinality(Completed)>>]

Steps == {"idle", "dedupe", "infer", "summarize", "write", "reweight", "prune"}
Weights == UNION {[S -> Nat] : S \in SUBSET Edges}
InferredEdge == [from : Pair, by : Nat, weight : Nat]
Summary == [by : Nat, hash : SUBSET (Edges \cup {"pair"})]
Run == [step : Steps, job : Nat, focals : SUBSET Pair, focal : SUBSET Pair,
        inferred : SUBSET InferredEdge, summaries : SUBSET Summary, weight : Weights]

TypeInv ==
    /\ refine_jobs \in Seq({"none", "queued", "completed"})
    /\ queue \subseteq 1 .. Jobs
    /\ duplicates \in BOOLEAN /\ overlapped \in BOOLEAN
    /\ weight \in Weights
    /\ inferred \subseteq InferredEdge /\ summaries \subseteq Summary
    /\ refining \in [Workers -> Run]
    /\ \A w \in Workers : ~Running(w) => refining[w] = NoRun

\* A job has one run, by one worker, and completes only with it.
JobsInv ==
    /\ queue \cap Completed = {}
    /\ \A w \in Workers : Running(w) => refining[w].job \in (1 .. Jobs) \ (queue \cup Completed)
    /\ \A v, w \in Workers : Running(v) /\ Running(w) /\ refining[v].job = refining[w].job => v = w

\* Locks exclude, so that what a run has computed for an edge starts from the
\* weight that is still committed when the run is.
LocksInv ==
    /\ \A v, w \in Workers : v # w => LockedEdges(v) \cap LockedEdges(w) = {}
    /\ \A w \in Workers :
          /\ LockedEdges(w) \subseteq DOMAIN weight
          /\ refining[w].step \notin {"reweight", "prune"} => LockedEdges(w) = {}
          /\ refining[w].step = "prune" => LockedEdges(w) = DOMAIN weight
          /\ \A e \in LockedEdges(w) :
                refining[w].weight[e] = compute_new_weight(weight[e], signal[e])

\* No weight that feedback does not lower is ever below where it began, which
\* is why an edge once pruned would be pruned again.
WeightsInv ==
    \A e \in Edges :
        /\ Expected(e) \in Nat
        /\ signal[e] >= 0 => Expected(e) >= Full \div 2
        /\ e \in DOMAIN weight => weight[e] = Expected(e) /\ weight[e] >= Threshold
        /\ e \notin DOMAIN weight => Expected(e) < Threshold

\* A run proposes edges from each memory once.
OneByOne(r) ==
    /\ \A x, y \in r.inferred : x.from = y.from => x = y
    /\ r.focal \cap r.focals = {}
    /\ \A x \in r.inferred : x.from \notin r.focal \cup r.focals

\* The edges of a run, and those it may yet propose, are not there.
News(r) ==
    \A y \in inferred : y.from \notin r.focal /\ \A x \in r.inferred : x.from # y.from

\* What runs that did not overlap have found before they write is still so when
\* they do, and when they commit.
OnceInv ==
    /\ \A w \in Workers :
          /\ OneByOne(refining[w])
          /\ \A s, t \in refining[w].summaries : s = t
    /\ \/ overlapped
       \/ /\ \A v, w \in Workers : Running(v) /\ Running(w) => v = w
          /\ \A x, y \in inferred : x.from = y.from => x = y
          /\ \A s, t \in summaries : s.hash = t.hash => s = t
          /\ \A w \in Workers :
                /\ News(refining[w])
                /\ refining[w].step = "write" => \A s \in summaries : s.hash # cluster_hash(w)
                /\ \A s \in refining[w].summaries, t \in summaries : s.hash # t.hash

RefineInv == TypeInv /\ JobsInv /\ LocksInv /\ WeightsInv /\ OnceInv

-----------------------------------------------------------------------------
(* The weights *)

\* After is given by its recursion: a function that satisfies it exists, for the
\* weights of each mean settle after four runs.
LEMMA AfterSteps ==
    \A r \in {-1, 0, 1} \X Nat :
       After[r] = IF r[2] = 0 THEN Full \div 2
                  ELSE compute_new_weight(After[<<r[1], r[2] - 1>>], r[1])
<1> DEFINE D == {-1, 0, 1} \X Nat
           Satisfies(g) == g = [r \in D |-> IF r[2] = 0 THEN Full \div 2
                                  ELSE compute_new_weight(g[<<r[1], r[2] - 1>>], r[1])]
           settled == [r \in D |->
               IF r[1] = 0 \/ r[2] = 0 THEN 8
               ELSE IF r[1] = 1
                    THEN IF r[2] = 1 THEN 12 ELSE IF r[2] = 2 THEN 14 ELSE 15
                    ELSE IF r[2] = 1 THEN 4 ELSE IF r[2] = 2 THEN 2
                         ELSE IF r[2] = 3 THEN 1 ELSE 0]
<1>1. After = CHOOSE g : Satisfies(g)
  BY DEF After
<1>2. ASSUME NEW r \in D
      PROVE  settled[r] = IF r[2] = 0 THEN Full \div 2
                          ELSE compute_new_weight(settled[<<r[1], r[2] - 1>>], r[1])
  <2>1. PICK m \in {-1, 0, 1}, n \in Nat : r = <<m, n>>
    OBVIOUS
  <2> QED
    BY <2>1 DEF compute_new_weight, Full
<1>3. Satisfies(settled)
  BY <1>2
<1>4. Satisfies(After)
  BY <1>1, <1>3
<1> QED
  BY <1>4

LEMMA AfterFirst == \A m \in {-1, 0, 1} : After[<<m, 0>>] = Full \div 2
<1> SUFFICES ASSUME NEW m \in {-1, 0, 1}
             PROVE  After[<<m, 0>>] = Full \div 2
  OBVIOUS
<1>1. <<m, 0>> \in {-1, 0, 1} \X Nat
  OBVIOUS
<1> QED
  BY <1>1, AfterSteps

LEMMA AfterNext ==
    \A m \in {-1, 0, 1}, n \in Nat :
       After[<<m, n + 1>>] = compute_new_weight(After[<<m, n>>], m)
<1> SUFFICES ASSUME NEW m \in {-1, 0, 1}, NEW n \in Nat
             PROVE  After[<<m, n + 1>>] = compute_new_weight(After[<<m, n>>], m)
  OBVIOUS
<1>1. <<m, n + 1>> \in {-1, 0, 1} \X Nat /\ n + 1 # 0 /\ (n + 1) - 1 = n
  OBVIOUS
<1> QED
  BY <1>1, AfterSteps

\* A weight stays a number; feedback that is not bad never takes it below where
\* it began; bad feedback never raises it.
LEMMA NewWeight ==
    \A old \in Nat, m \in {-1, 0, 1} :
       /\ compute_new_weight(old, m) \in Nat
       /\ m >= 0 /\ old >= Full \div 2 => compute_new_weight(old, m) >= Full \div 2
       /\ m < 0 => compute_new_weight(old, m) <= old
  BY DEF compute_new_weight, Full

-----------------------------------------------------------------------------
(* Records *)

LEMMA WeightsFacts ==
    \A f \in Weights : DOMAIN f \subseteq Edges /\ \A e \in DOMAIN f : f[e] \in Nat
  BY DEF Weights

LEMMA WeightsOf ==
    ASSUME NEW f, NEW S \in SUBSET Edges, \A e \in S : f[e] \in Nat
    PROVE  [e \in S |-> f[e]] \in Weights
  BY DEF Weights

LEMMA NoneLocked == <<>> \in Weights /\ DOMAIN <<>> = {}
<1>1. DOMAIN <<>> = {} /\ <<>> \in [{} -> Nat]
  OBVIOUS
<1> QED
  BY <1>1 DEF Weights

LEMMA OneMore ==
    ASSUME TypeInv, NEW w \in Workers, NEW e \in DOMAIN weight
    PROVE  /\ Reweighted(w, e) \in Weights
           /\ DOMAIN Reweighted(w, e) = LockedEdges(w) \cup {e}
           /\ Reweighted(w, e)[e] = compute_new_weight(weight[e], signal[e])
           /\ \A x \in LockedEdges(w) \ {e} : Reweighted(w, e)[x] = refining[w].weight[x]
<1> DEFINE S == LockedEdges(w) \cup {e}
           g == Reweighted(w, e)
<1>1. refining[w].weight \in Weights /\ e \in Edges /\ weight[e] \in Nat
  BY WeightsFacts DEF TypeInv, Run
<1>2. S \subseteq Edges /\ \A x \in S : g[x] \in Nat
  BY <1>1, WeightsFacts, NewWeight, RefineAssumption DEF Reweighted, LockedEdges
<1>3. g \in [S -> Nat]
  BY <1>2 DEF Reweighted
<1> QED
  BY <1>2, <1>3 DEF Weights, Reweighted

LEMMA NoRunTyped ==
    /\ NoRun \in Run
    /\ NoRun.step = "idle" /\ NoRun.job = 0
    /\ NoRun.focals = {} /\ NoRun.focal = {} /\ NoRun.inferred = {} /\ NoRun.summaries = {}
    /\ DOMAIN NoRun.weight = {}
  BY NoneLocked DEF NoRun, Run, Steps

\* The hash of the cluster as a run with these inferred edges sees it.
HashWith(I) ==
    IF ClusterStrategy = "memo_type" THEN {}
    ELSE DOMAIN weight \cup (IF inferred \cup I = {} THEN {} ELSE {"pair"})

LEMMA ClusterHash == \A w : cluster_hash(w) = HashWith(refining[w].inferred)
  BY DEF cluster_hash, HashWith

LEMMA HashTyped == ASSUME TypeInv, NEW I PROVE HashWith(I) \in SUBSET (Edges \cup {"pair"})
  BY WeightsFacts DEF TypeInv, HashWith

-----------------------------------------------------------------------------
(* The steps *)

LEMMA Initially == Init => RefineInv
<1> SUFFICES ASSUME Init PROVE RefineInv
  OBVIOUS
<1>1. /\ refine_jobs = <<>> /\ queue = {} /\ inferred = {} /\ summaries = {}
      /\ duplicates = FALSE /\ overlapped = FALSE
      /\ weight = [e \in Edges |-> Full \div 2]
      /\ refining = [w \in Workers |-> NoRun]
  BY DEF Init
<1>2. Jobs = 0 /\ Completed = {}
  BY <1>1 DEF Jobs, Completed
<1>3. \A w \in Workers : /\ refining[w] = NoRun /\ ~Running(w)
                         /\ refining[w].step = "idle" /\ LockedEdges(w) = {}
  BY <1>1, NoRunTyped DEF Running, LockedEdges
<1>4. TypeInv
  <2>1. weight \in Weights
    BY <1>1 DEF Weights, Full
  <2>2. refining \in [Workers -> Run]
    BY <1>1, NoRunTyped
  <2>3. refine_jobs \in Seq({"none", "queued", "completed"})
    BY <1>1
  <2> QED
    BY <1>1, <1>3, <2>1, <2>2, <2>3 DEF TypeInv
<1>5. JobsInv
  BY <1>1, <1>3 DEF JobsInv
<1>6. LocksInv
  BY <1>3 DEF LocksInv
<1>7. WeightsInv
  <2>1. \A e \in Edges : Expected(e) = Full \div 2
    BY <1>2, AfterFirst, FS_EmptySet, RefineAssumption DEF Expected
  <2>2. DOMAIN weight = Edges /\ \A e \in Edges : weight[e] = Full \div 2
    BY <1>1
  <2> QED
    BY <2>1, <2>2, RefineAssumption DEF WeightsInv, Full
<1>8. OnceInv
  <2>1. \A w \in Workers : refining[w].inferred = {} /\ refining[w].summaries = {}
    BY <1>3, NoRunTyped
  <2>2. \A w \in Workers : OneByOne(refining[w]) /\ News(refining[w])
    BY <1>1, <1>3, NoRunTyped DEF OneByOne, News
  <2> QED
    BY <1>1, <1>3, <2>1, <2>2 DEF OnceInv
<1> QED
  BY <1>4, <1>5, <1>6, <1>7, <1>8 DEF RefineInv

\* What the next state r of a run must satisfy for the invariant to hold on.
Continues(w, r) ==
    /\ r \in Run
    /\ r.step = "idle" => r = NoRun
    /\ r.step # "idle" => Running(w) /\ r.job = refining[w].job
    /\ r.step \notin {"reweight", "prune"} => DOMAIN r.weight = {}
    /\ r.step = "prune" => DOMAIN r.weight = DOMAIN weight
    /\ DOMAIN r.weight \subseteq DOMAIN weight
    /\ \A v \in Workers \ {w} : DOMAIN r.weight \cap LockedEdges(v) = {}
    /\ \A e \in DOMAIN r.weight : r.weight[e] = compute_new_weight(weight[e], signal[e])
    /\ OneByOne(r)
    /\ \A s, t \in r.summaries : s = t
    /\ overlapped \/
          /\ News(r)
          /\ r.step = "write" => \A s \in summaries : s.hash # HashWith(r.inferred)
          /\ \A s \in r.summaries, t \in summaries : s.hash # t.hash

\* A step of a run that stays in its transaction.
LEMMA RunsKept ==
    ASSUME RefineInv, NEW w \in Workers, NEW r, Goes(w, r), Continues(w, r), Uncommitted
    PROVE  RefineInv'
<1>1. /\ refining' = [refining EXCEPT ![w] = r]
      /\ refine_jobs' = refine_jobs /\ queue' = queue /\ duplicates' = duplicates
      /\ weight' = weight /\ inferred' = inferred /\ summaries' = summaries
      /\ overlapped' = overlapped
  BY DEF Goes, Uncommitted
<1>2. Jobs' = Jobs /\ Completed' = Completed /\ \A e : Expected(e)' = Expected(e)
  BY <1>1 DEF Jobs, Completed, Expected
<1>3. refining'[w] = r /\ \A v \in Workers \ {w} : refining'[v] = refining[v]
  BY <1>1 DEF RefineInv, TypeInv
<1>4. TypeInv'
  <2>1. refining' \in [Workers -> Run]
    BY <1>1 DEF RefineInv, TypeInv, Continues
  <2>2. \A v \in Workers : ~Running(v)' => refining'[v] = NoRun
    BY <1>3 DEF RefineInv, TypeInv, Continues, Running
  <2> QED
    BY <1>1, <1>2, <2>1, <2>2 DEF RefineInv, TypeInv
<1>5. JobsInv'
  <2>1. \A v \in Workers : Running(v)' => Running(v) /\ refining'[v].job = refining[v].job
    BY <1>3 DEF Continues, Running
  <2> QED
    BY <1>1, <1>2, <2>1 DEF RefineInv, JobsInv
<1>6. LocksInv'
  <2>1. LockedEdges(w)' = DOMAIN r.weight
        /\ \A v \in Workers \ {w} : LockedEdges(v)' = LockedEdges(v)
    BY <1>3 DEF LockedEdges
  <2>2. \A u, v \in Workers : u # v => LockedEdges(u)' \cap LockedEdges(v)' = {}
    BY <2>1 DEF RefineInv, LocksInv, Continues
  <2>3. ASSUME NEW v \in Workers
        PROVE  /\ LockedEdges(v)' \subseteq DOMAIN weight'
               /\ refining'[v].step \notin {"reweight", "prune"} => LockedEdges(v)' = {}
               /\ refining'[v].step = "prune" => LockedEdges(v)' = DOMAIN weight'
               /\ \A e \in LockedEdges(v)' :
                     refining'[v].weight[e] = compute_new_weight(weight'[e], signal[e])
    <3>1. CASE v = w
      BY <3>1, <1>1, <1>3, <2>1 DEF Continues
    <3>2. CASE v # w
      BY <3>2, <1>1, <1>3, <2>1 DEF RefineInv, LocksInv
    <3> QED
      BY <3>1, <3>2
  <2> QED
    BY <2>2, <2>3 DEF LocksInv
<1>7. WeightsInv'
  BY <1>1, <1>2 DEF RefineInv, WeightsInv
<1>8. OnceInv'
  <2>1. \A v \in Workers : /\ OneByOne(refining[v])'
                           /\ \A s, t \in refining'[v].summaries : s = t
    BY <1>3 DEF RefineInv, OnceInv, Continues
  <2>2. ASSUME ~overlapped
        PROVE  /\ \A v, u \in Workers : Running(v)' /\ Running(u)' => v = u
               /\ \A x, y \in inferred' : x.from = y.from => x = y
               /\ \A s, t \in summaries' : s.hash = t.hash => s = t
               /\ \A v \in Workers :
                     /\ News(refining[v])'
                     /\ refining'[v].step = "write" =>
                           \A s \in summaries' : s.hash # cluster_hash(v)'
                     /\ \A s \in refining'[v].summaries, t \in summaries' : s.hash # t.hash
    <3>1. \A v, u \in Workers : Running(v)' /\ Running(u)' => v = u
      <4>1. \A v \in Workers : Running(v)' => Running(v)
        BY <1>3 DEF Continues, Running
      <4> QED
        BY <2>2, <4>1 DEF RefineInv, OnceInv
    <3>2. \A v \in Workers : cluster_hash(v)' = HashWith(refining'[v].inferred)
      BY <1>1 DEF cluster_hash, HashWith
    <3>3. ASSUME NEW v \in Workers
          PROVE  /\ News(refining[v])'
                 /\ refining'[v].step = "write" =>
                       \A s \in summaries' : s.hash # cluster_hash(v)'
                 /\ \A s \in refining'[v].summaries, t \in summaries' : s.hash # t.hash
      <4>1. CASE v = w
        BY <4>1, <2>2, <1>1, <1>3, <3>2 DEF Continues, OneByOne, News
      <4>2. CASE v # w
        BY <4>2, <2>2, <1>1, <1>3, <3>2, ClusterHash DEF RefineInv, OnceInv, OneByOne, News
      <4> QED
        BY <4>1, <4>2
    <3> QED
      BY <2>2, <1>1, <3>1, <3>3 DEF RefineInv, OnceInv
  <2> QED
    BY <1>1, <2>1, <2>2 DEF OnceInv
<1> QED
  BY <1>4, <1>5, <1>6, <1>7, <1>8 DEF RefineInv

\* A run as it stands, and a run that is given up.
LEMMA Stays == ASSUME RefineInv, NEW w \in Workers, Running(w) PROVE Continues(w, refining[w])
<1>1. refining[w] \in Run /\ refining[w].step # "idle"
  BY DEF RefineInv, TypeInv, Running
<1>2. \A v \in Workers \ {w} : LockedEdges(w) \cap LockedEdges(v) = {}
  BY DEF RefineInv, LocksInv
<1>3. overlapped \/
          /\ News(refining[w])
          /\ refining[w].step = "write" =>
                \A s \in summaries : s.hash # HashWith(refining[w].inferred)
          /\ \A s \in refining[w].summaries, t \in summaries : s.hash # t.hash
  BY ClusterHash DEF RefineInv, OnceInv
<1>4. /\ LockedEdges(w) \subseteq DOMAIN weight
      /\ refining[w].step \notin {"reweight", "prune"} => LockedEdges(w) = {}
      /\ refining[w].step = "prune" => LockedEdges(w) = DOMAIN weight
      /\ \A e \in LockedEdges(w) :
            refining[w].weight[e] = compute_new_weight(weight[e], signal[e])
  BY DEF RefineInv, LocksInv
<1>5. /\ OneByOne(refining[w])
      /\ \A s, t \in refining[w].summaries : s = t
  BY DEF RefineInv, OnceInv
<1> QED
  BY <1>1, <1>2, <1>3, <1>4, <1>5 DEF Continues, LockedEdges, Running

LEMMA GivesUp == ASSUME RefineInv, NEW w \in Workers PROVE Continues(w, NoRun)
  BY NoRunTyped DEF Continues, OneByOne, News

LEMMA RunGivenUp ==
    ASSUME RefineInv, NEW w \in Workers, Goes(w, NoRun), Uncommitted
    PROVE  RefineInv'
  BY GivesUp, RunsKept

\* A run that only goes on to its next step.
LEMMA GoesOn ==
    ASSUME RefineInv, NEW w \in Workers, NEW step \in Steps, Running(w),
           GoesTo(w, step), Uncommitted,
           step \in {"infer", "summarize", "write", "reweight", "prune"},
           step = "write" => \A s \in summaries : s.hash # cluster_hash(w),
           step = "prune" => LockedEdges(w) = DOMAIN weight,
           step \notin {"reweight", "prune"} => LockedEdges(w) = {}
    PROVE  RefineInv'
<1> DEFINE r == [refining[w] EXCEPT !.step = step]
<1>1. Continues(w, refining[w]) /\ refining[w] \in Run
  BY Stays DEF Continues
<1>2. /\ r \in Run /\ r.step = step /\ r.job = refining[w].job
      /\ r.focals = refining[w].focals /\ r.focal = refining[w].focal
      /\ r.inferred = refining[w].inferred /\ r.summaries = refining[w].summaries
      /\ r.weight = refining[w].weight
  BY <1>1 DEF Run
<1>3. Continues(w, r)
  <2> HIDE DEF r
  <2>1. r.step # "idle"
    BY <1>2
  <2>2. overlapped \/
          /\ News(r)
          /\ r.step = "write" => \A s \in summaries : s.hash # HashWith(r.inferred)
          /\ \A s \in r.summaries, t \in summaries : s.hash # t.hash
    BY <1>1, <1>2, ClusterHash DEF Continues, OneByOne, News
  <2> QED
    BY <1>1, <1>2, <2>1, <2>2 DEF Continues, LockedEdges, OneByOne, News
<1>4. Goes(w, r)
  BY DEF GoesTo
<1> HIDE DEF r
<1> QED
  BY <1>3, <1>4, RunsKept

\* At a step before the weights nothing is locked.
LEMMA AtStep ==
    ASSUME RefineInv, NEW w \in Workers, NEW step, step # "idle", At(w, step)
    PROVE  /\ Running(w) /\ refining[w] \in Run
           /\ step \notin {"reweight", "prune"} => LockedEdges(w) = {}
  BY DEF At, Running, RefineInv, TypeInv, LocksInv

LEMMA DedupeKeeps == ASSUME RefineInv, NEW w \in Workers, run_dedupe(w) PROVE RefineInv'
<1>1. At(w, "dedupe") /\ Uncommitted
  BY DEF run_dedupe
<1>2. CASE duplicates
  BY <1>1, <1>2, RunGivenUp DEF run_dedupe
<1>3. CASE ~duplicates
  BY <1>1, <1>3, AtStep, GoesOn DEF run_dedupe, Steps
<1> QED
  BY <1>2, <1>3

LEMMA TargetsKeep == ASSUME RefineInv, NEW w \in Workers, ExistingTargets(w) PROVE RefineInv'
<1>1. At(w, "infer") /\ Uncommitted /\ refining[w].focal = {}
  BY DEF ExistingTargets
<1>2. /\ Running(w) /\ refining[w] \in Run /\ LockedEdges(w) = {}
      /\ Continues(w, refining[w])
  BY <1>1, AtStep, Stays
<1>3. PICK m \in refining[w].focals :
         LET known == \E i \in inferred \cup refining[w].inferred : i.from = m
         IN  Goes(w, [refining[w] EXCEPT !.focals = @ \ {m}, !.focal = IF known THEN {} ELSE {m}])
  BY DEF ExistingTargets
<1> DEFINE known == \E i \in inferred \cup refining[w].inferred : i.from = m
           asked == IF known THEN {} ELSE {m}
           r == [refining[w] EXCEPT !.focals = @ \ {m}, !.focal = asked]
<1>4. asked \subseteq {m} /\ asked \subseteq Pair /\ \A y \in inferred : y.from \notin asked
  BY <1>2 DEF Run
<1>5. Goes(w, r)
  BY <1>3
<1> HIDE DEF asked
<1>6. /\ r \in Run /\ r.step = "infer" /\ r.job = refining[w].job
      /\ r.focals = refining[w].focals \ {m} /\ r.focal = asked
      /\ r.inferred = refining[w].inferred /\ r.summaries = refining[w].summaries
      /\ r.weight = refining[w].weight
  BY <1>1, <1>2, <1>4 DEF Run, At
<1> HIDE DEF r
<1>7. OneByOne(r)
  BY <1>2, <1>4, <1>6 DEF Continues, OneByOne
<1>8. overlapped \/ News(r)
  BY <1>2, <1>4, <1>6 DEF Continues, News
<1>9. Continues(w, r)
  BY <1>2, <1>6, <1>7, <1>8 DEF Continues, LockedEdges
<1> QED
  BY <1>1, <1>5, <1>9, RunsKept

LEMMA ProposeKeeps == ASSUME RefineInv, NEW w \in Workers, Propose(w) PROVE RefineInv'
<1>1. At(w, "infer") /\ Uncommitted
  BY DEF Propose
<1>2. /\ Running(w) /\ refining[w] \in Run /\ LockedEdges(w) = {}
      /\ Continues(w, refining[w])
  BY <1>1, AtStep, Stays
<1>3. PICK m \in refining[w].focal :
         \/ Goes(w, [refining[w] EXCEPT !.focal = {}])
         \/ \E c \in {1, Full} :
               Goes(w, [refining[w] EXCEPT !.focal = {},
                           !.inferred = @ \cup {[from |-> m, by |-> refining[w].job, weight |-> c]}])
         \/ Goes(w, NoRun)
  BY DEF Propose
<1>4. CASE Goes(w, [refining[w] EXCEPT !.focal = {}])
  <2> DEFINE r == [refining[w] EXCEPT !.focal = {}]
  <2>1. /\ r \in Run /\ r.step = "infer" /\ r.job = refining[w].job
        /\ r.focals = refining[w].focals /\ r.focal = {}
        /\ r.inferred = refining[w].inferred /\ r.summaries = refining[w].summaries
        /\ r.weight = refining[w].weight
    BY <1>1, <1>2 DEF Run, At
  <2>2. Goes(w, r)
    BY <1>4
  <2> HIDE DEF r
  <2>3. OneByOne(r) /\ (overlapped \/ News(r))
    BY <1>2, <2>1 DEF Continues, OneByOne, News
  <2>4. Continues(w, r)
    BY <1>2, <2>1, <2>3 DEF Continues, LockedEdges
  <2> QED
    BY <1>1, <2>2, <2>4, RunsKept
<1>5. ASSUME NEW c \in {1, Full},
             Goes(w, [refining[w] EXCEPT !.focal = {},
                         !.inferred = @ \cup {[from |-> m, by |-> refining[w].job, weight |-> c]}])
      PROVE  RefineInv'
  <2> DEFINE edge == [from |-> m, by |-> refining[w].job, weight |-> c]
             r == [refining[w] EXCEPT !.focal = {}, !.inferred = @ \cup {edge}]
  <2>1. edge \in InferredEdge /\ edge.from = m
    BY <1>2 DEF InferredEdge, Run, Full
  <2>2. Goes(w, r)
    BY <1>5
  <2> HIDE DEF edge
  <2>3. /\ r \in Run /\ r.step = "infer" /\ r.job = refining[w].job
        /\ r.focals = refining[w].focals /\ r.focal = {}
        /\ r.inferred = refining[w].inferred \cup {edge} /\ r.summaries = refining[w].summaries
        /\ r.weight = refining[w].weight
    BY <1>1, <1>2, <2>1 DEF Run, At
  <2> HIDE DEF r
  <2>4. m \notin refining[w].focals /\ \A x \in refining[w].inferred : x.from # m
    BY <1>2 DEF Continues, OneByOne
  <2>5. OneByOne(r)
    BY <1>2, <2>1, <2>3, <2>4 DEF Continues, OneByOne
  <2>6. overlapped \/ News(r)
    BY <1>2, <2>1, <2>3 DEF Continues, News
  <2>7. Continues(w, r)
    BY <1>2, <2>3, <2>5, <2>6 DEF Continues, LockedEdges
  <2> QED
    BY <1>1, <2>2, <2>7, RunsKept
<1>6. CASE Goes(w, NoRun)
  BY <1>1, <1>6, RunGivenUp
<1> QED
  BY <1>3, <1>4, <1>5, <1>6

LEMMA EndInferKeeps == ASSUME RefineInv, NEW w \in Workers, EndInfer(w) PROVE RefineInv'
<1>1. At(w, "infer") /\ Uncommitted /\ GoesTo(w, "summarize")
  BY DEF EndInfer
<1> QED
  BY <1>1, AtStep, GoesOn DEF Steps

LEMMA HashLookupKeeps == ASSUME RefineInv, NEW w \in Workers, ExistingSummaryHash(w) PROVE RefineInv'
<1>1. At(w, "summarize") /\ Uncommitted
  BY DEF ExistingSummaryHash
<1>2. CASE \E s \in summaries : s.hash = cluster_hash(w)
  BY <1>1, <1>2, AtStep, GoesOn DEF ExistingSummaryHash, Steps
<1>3. CASE ~\E s \in summaries : s.hash = cluster_hash(w)
  BY <1>1, <1>3, AtStep, GoesOn DEF ExistingSummaryHash, Steps
<1> QED
  BY <1>2, <1>3

LEMMA SummaryKeeps == ASSUME RefineInv, NEW w \in Workers, WriteSummaryMemo(w) PROVE RefineInv'
<1>1. At(w, "write") /\ Uncommitted
  BY DEF WriteSummaryMemo
<1>2. /\ Running(w) /\ refining[w] \in Run /\ LockedEdges(w) = {}
      /\ Continues(w, refining[w])
  BY <1>1, AtStep, Stays
<1>3. CASE GoesTo(w, "reweight")
  BY <1>1, <1>2, <1>3, GoesOn DEF Steps
<1>4. CASE Goes(w, NoRun)
  BY <1>1, <1>4, RunGivenUp
<1>5. CASE Goes(w, [refining[w] EXCEPT !.step = "reweight",
                       !.summaries = {[by |-> refining[w].job, hash |-> cluster_hash(w)]}])
  <2> DEFINE summary == [by |-> refining[w].job, hash |-> cluster_hash(w)]
             r == [refining[w] EXCEPT !.step = "reweight", !.summaries = {summary}]
  <2>1. summary \in Summary /\ summary.hash = cluster_hash(w)
    BY <1>2, ClusterHash, HashTyped DEF Summary, Run, RefineInv
  <2> HIDE DEF summary
  <2>2. /\ r \in Run /\ r.step = "reweight" /\ r.job = refining[w].job
        /\ r.focals = refining[w].focals /\ r.focal = refining[w].focal
        /\ r.inferred = refining[w].inferred /\ r.summaries = {summary}
        /\ r.weight = refining[w].weight
    BY <1>2, <2>1 DEF Run, Steps
  <2>3. overlapped \/ \A t \in summaries : summary.hash # t.hash
    BY <1>1, <2>1 DEF RefineInv, OnceInv, At
  <2>4. Goes(w, r)
    BY <1>5 DEF summary
  <2> HIDE DEF r
  <2>5. Continues(w, r)
    BY <1>2, <2>2, <2>3 DEF Continues, LockedEdges, OneByOne, News
  <2> QED
    BY <1>1, <2>4, <2>5, RunsKept
<1> QED
  BY <1>3, <1>4, <1>5 DEF WriteSummaryMemo

LEMMA ReweightKeeps ==
    ASSUME RefineInv, NEW w \in Workers, NEW e \in Edges, Reweight(w, e)
    PROVE  RefineInv'
<1>1. /\ At(w, "reweight") /\ Uncommitted
      /\ e \in Left(w) /\ \A v \in Workers : e \notin LockedEdges(v)
      /\ Goes(w, [refining[w] EXCEPT !.weight = Reweighted(w, e)])
  BY DEF Reweight
<1>2. /\ Running(w) /\ refining[w] \in Run /\ refining[w].step = "reweight"
      /\ Continues(w, refining[w]) /\ e \in DOMAIN weight
  BY <1>1, AtStep, Stays DEF Left, At
<1> DEFINE new == Reweighted(w, e)
           r == [refining[w] EXCEPT !.weight = new]
<1>3. /\ new \in Weights /\ DOMAIN new = LockedEdges(w) \cup {e}
      /\ new[e] = compute_new_weight(weight[e], signal[e])
      /\ \A x \in LockedEdges(w) \ {e} : new[x] = refining[w].weight[x]
  BY <1>2, OneMore DEF RefineInv
<1> HIDE DEF new
<1>4. /\ r \in Run /\ r.step = "reweight" /\ r.job = refining[w].job
      /\ r.focals = refining[w].focals /\ r.focal = refining[w].focal
      /\ r.inferred = refining[w].inferred /\ r.summaries = refining[w].summaries
      /\ r.weight = new
  BY <1>2, <1>3 DEF Run
<1>5. Goes(w, r)
  BY <1>1 DEF new
<1> HIDE DEF r
<1>6. /\ DOMAIN new \subseteq DOMAIN weight
      /\ \A v \in Workers \ {w} : DOMAIN new \cap LockedEdges(v) = {}
      /\ \A x \in DOMAIN new : new[x] = compute_new_weight(weight[x], signal[x])
  BY <1>1, <1>2, <1>3 DEF Continues, LockedEdges
<1>7. Continues(w, r)
  BY <1>2, <1>4, <1>6 DEF Continues, OneByOne, News
<1> QED
  BY <1>1, <1>5, <1>7, RunsKept

LEMMA EndReweightKeeps == ASSUME RefineInv, NEW w \in Workers, EndReweight(w) PROVE RefineInv'
<1>1. At(w, "reweight") /\ Uncommitted /\ Left(w) = {} /\ GoesTo(w, "prune")
  BY DEF EndReweight
<1>2. LockedEdges(w) = DOMAIN weight
  BY <1>1 DEF RefineInv, LocksInv, Left
<1> QED
  BY <1>1, <1>2, AtStep, GoesOn DEF Steps

LEMMA FailuresKeep ==
    ASSUME RefineInv, NEW w \in Workers, DeadlockAborts(w) \/ RunFails(w)
    PROVE  RefineInv'
  BY RunGivenUp DEF DeadlockAborts, RunFails

\* A job begins, or is rejected.
LEMMA BeginKeeps ==
    ASSUME RefineInv, NEW w \in Workers, NEW j \in queue, BeginRun(w, j)
    PROVE  RefineInv'
<1>1. /\ refining[w] = NoRun /\ queue' = queue \ {j}
      /\ refine_jobs' = refine_jobs /\ duplicates' = duplicates /\ weight' = weight
      /\ inferred' = inferred /\ summaries' = summaries
  BY DEF BeginRun
<1>2. Jobs' = Jobs /\ Completed' = Completed /\ \A e : Expected(e)' = Expected(e)
  BY <1>1 DEF Jobs, Completed, Expected
<1>3. WeightsInv'
  BY <1>1, <1>2 DEF RefineInv, WeightsInv
<1>4. CASE refining' = refining /\ overlapped' = overlapped
  <2>1. /\ \A v \in Workers : LockedEdges(v)' = LockedEdges(v) /\ (Running(v)' <=> Running(v))
        /\ \A v \in Workers : cluster_hash(v)' = cluster_hash(v)
    BY <1>1, <1>4 DEF LockedEdges, Running, cluster_hash
  <2>2. TypeInv'
    BY <1>1, <1>2, <1>4, <2>1 DEF RefineInv, TypeInv
  <2>3. JobsInv'
    BY <1>1, <1>2, <1>4, <2>1 DEF RefineInv, JobsInv
  <2>4. LocksInv'
    BY <1>1, <1>4, <2>1 DEF RefineInv, LocksInv
  <2>5. OnceInv'
    BY <1>1, <1>4, <2>1 DEF RefineInv, OnceInv, OneByOne, News
  <2> QED
    BY <1>3, <2>2, <2>3, <2>4, <2>5 DEF RefineInv
<1>5. CASE /\ Goes(w, [NoRun EXCEPT !.step = "dedupe", !.job = j, !.focals = Pair])
           /\ overlapped' = (overlapped \/ \E v \in Workers : refining[v] # NoRun)
  <2> DEFINE r == [NoRun EXCEPT !.step = "dedupe", !.job = j, !.focals = Pair]
  <2>1. j \in 1 .. Jobs /\ j \in Nat /\ j \notin Completed
    BY DEF RefineInv, TypeInv, JobsInv, Jobs
  <2>2. /\ r \in Run /\ r.step = "dedupe" /\ r.job = j /\ r.focal = {} /\ r.inferred = {}
        /\ r.summaries = {} /\ DOMAIN r.weight = {}
    BY <2>1, NoRunTyped DEF Run, Steps
  <2>3. refining' = [refining EXCEPT ![w] = r]
    BY <1>5 DEF Goes
  <2> HIDE DEF r
  <2>4. refining'[w] = r /\ \A v \in Workers \ {w} : refining'[v] = refining[v]
    BY <2>3 DEF RefineInv, TypeInv
  <2>5. ~Running(w) /\ Running(w)' /\ \A v \in Workers \ {w} : Running(v)' <=> Running(v)
    BY <1>1, <2>2, <2>4, NoRunTyped DEF Running
  <2>6. /\ LockedEdges(w)' = {}
        /\ \A v \in Workers \ {w} : LockedEdges(v)' = LockedEdges(v)
        /\ \A v \in Workers \ {w} : cluster_hash(v)' = cluster_hash(v)
    BY <1>1, <2>2, <2>4 DEF LockedEdges, cluster_hash
  <2>7. TypeInv'
    <3>1. refining' \in [Workers -> Run]
      BY <2>2, <2>3 DEF RefineInv, TypeInv
    <3>2. overlapped' \in BOOLEAN
      BY <1>5 DEF RefineInv, TypeInv
    <3>3. \A v \in Workers : ~Running(v)' => refining'[v] = NoRun
      BY <2>4, <2>5 DEF RefineInv, TypeInv
    <3> QED
      BY <1>1, <1>2, <3>1, <3>2, <3>3 DEF RefineInv, TypeInv
  <2>8. JobsInv'
    BY <1>1, <1>2, <2>1, <2>2, <2>4, <2>5 DEF RefineInv, JobsInv
  <2>9. LocksInv'
    BY <1>1, <2>2, <2>4, <2>6 DEF RefineInv, LocksInv
  <2>10. OnceInv'
    <3>1. \A v \in Workers : /\ OneByOne(refining[v])'
                             /\ \A s, t \in refining'[v].summaries : s = t
      BY <2>2, <2>4 DEF RefineInv, OnceInv, OneByOne, News
    <3>2. ASSUME ~overlapped'
          PROVE  ~overlapped /\ \A v \in Workers : v # w => ~Running(v)'
      BY <1>5, <3>2, <2>5, NoRunTyped DEF Running
    <3>3. ASSUME ~overlapped'
          PROVE  /\ \A v, u \in Workers : Running(v)' /\ Running(u)' => v = u
                 /\ \A x, y \in inferred' : x.from = y.from => x = y
                 /\ \A s, t \in summaries' : s.hash = t.hash => s = t
      BY <3>2, <3>3, <1>1 DEF RefineInv, OnceInv
    <3>4. ASSUME ~overlapped', NEW v \in Workers
          PROVE  /\ News(refining[v])'
                 /\ refining'[v].step = "write" =>
                       \A s \in summaries' : s.hash # cluster_hash(v)'
                 /\ \A s \in refining'[v].summaries, t \in summaries' : s.hash # t.hash
      <4>1. CASE v = w
        BY <4>1, <2>2, <2>4 DEF OneByOne, News
      <4>2. CASE v # w
        BY <4>2, <3>4, <3>2, <1>1, <2>4, <2>6 DEF RefineInv, OnceInv, OneByOne, News
      <4> QED
        BY <4>1, <4>2
    <3> QED
      BY <3>1, <3>3, <3>4 DEF OnceInv
  <2> QED
    BY <1>3, <2>7, <2>8, <2>9, <2>10 DEF RefineInv
<1> QED
  BY <1>4, <1>5 DEF BeginRun

\* A job comes.
LEMMA EnqueueKeeps ==
    ASSUME RefineInv, NEW row \in {"none", "queued"}, Enqueue(row)
    PROVE  RefineInv'
<1>1. /\ refine_jobs' = Append(refine_jobs, row) /\ queue' = queue \cup {Jobs + 1}
      /\ refining' = refining /\ duplicates' = duplicates /\ weight' = weight
      /\ inferred' = inferred /\ summaries' = summaries /\ overlapped' = overlapped
  BY DEF Enqueue
<1>2. /\ Jobs \in Nat /\ Jobs' = Jobs + 1
      /\ refine_jobs' \in Seq({"none", "queued", "completed"})
      /\ \A j \in 1 .. Jobs : refine_jobs'[j] = refine_jobs[j]
      /\ refine_jobs'[Jobs + 1] = row
  BY <1>1 DEF RefineInv, TypeInv, Jobs
<1>3. Completed' = Completed
  <2>1. Jobs + 1 \notin Completed'
    BY <1>2 DEF Completed
  <2>2. \A j \in 1 .. Jobs : j \in Completed' <=> j \in Completed
    BY <1>2 DEF Completed
  <2>3. Completed \subseteq 1 .. Jobs /\ Completed' \subseteq 1 .. (Jobs + 1)
    BY <1>2 DEF Completed
  <2>4. \A j \in 1 .. (Jobs + 1) : j \in 1 .. Jobs \/ j = Jobs + 1
    BY <1>2
  <2> QED
    BY <2>1, <2>2, <2>3, <2>4
<1>4. \A e : Expected(e)' = Expected(e)
  BY <1>3 DEF Expected
<1>5. /\ \A v \in Workers : LockedEdges(v)' = LockedEdges(v) /\ (Running(v)' <=> Running(v))
      /\ \A v \in Workers : cluster_hash(v)' = cluster_hash(v)
  BY <1>1 DEF LockedEdges, Running, cluster_hash
<1>6. TypeInv'
  BY <1>1, <1>2, <1>5 DEF RefineInv, TypeInv
<1>7. JobsInv'
  <2>1. 1 .. Jobs \subseteq 1 .. Jobs' /\ Jobs + 1 \notin Completed
    BY <1>2 DEF Completed
  <2>2. queue' \cap Completed' = {}
    BY <1>1, <1>3, <2>1 DEF RefineInv, JobsInv
  <2>3. ASSUME NEW w \in Workers, Running(w)'
        PROVE  refining'[w].job \in (1 .. Jobs') \ (queue' \cup Completed')
    <3>1. refining[w].job \in (1 .. Jobs) \ (queue \cup Completed)
      BY <2>3, <1>5 DEF RefineInv, JobsInv
    <3>2. refining[w].job # Jobs + 1
      BY <3>1, <1>2
    <3> QED
      BY <3>1, <3>2, <1>1, <1>3, <2>1
  <2> QED
    BY <1>1, <1>5, <2>2, <2>3 DEF RefineInv, JobsInv
<1>8. LocksInv'
  BY <1>1, <1>5 DEF RefineInv, LocksInv
<1>9. WeightsInv'
  BY <1>1, <1>4 DEF RefineInv, WeightsInv
<1>10. OnceInv'
  BY <1>1, <1>5 DEF RefineInv, OnceInv, OneByOne, News
<1> QED
  BY <1>6, <1>7, <1>8, <1>9, <1>10 DEF RefineInv

\* Nothing that the invariant speaks of changes but duplicates.
LEMMA OthersKeep ==
    ASSUME RefineInv, duplicates' \in BOOLEAN,
           UNCHANGED <<refine_jobs, queue, weight, inferred, summaries, refining, overlapped>>
    PROVE  RefineInv'
<1>1. Jobs' = Jobs /\ Completed' = Completed /\ \A e : Expected(e)' = Expected(e)
  BY DEF Jobs, Completed, Expected
<1>2. /\ \A v \in Workers : LockedEdges(v)' = LockedEdges(v) /\ (Running(v)' <=> Running(v))
      /\ \A v \in Workers : cluster_hash(v)' = cluster_hash(v)
  BY DEF LockedEdges, Running, cluster_hash
<1>3. TypeInv'
  BY <1>1, <1>2 DEF RefineInv, TypeInv
<1>4. JobsInv'
  BY <1>1, <1>2 DEF RefineInv, JobsInv
<1>5. LocksInv'
  BY <1>2 DEF RefineInv, LocksInv
<1>6. WeightsInv'
  BY <1>1 DEF RefineInv, WeightsInv
<1>7. OnceInv'
  BY <1>2 DEF RefineInv, OnceInv, OneByOne, News
<1> QED
  BY <1>3, <1>4, <1>5, <1>6, <1>7 DEF RefineInv

\* One more job is completed: each weight is expected to have moved once more.
LEMMA OneMoreRun ==
    ASSUME RefineInv, NEW j \in (1 .. Jobs) \ Completed,
           refine_jobs' = [refine_jobs EXCEPT ![j] = "completed"]
    PROVE  /\ Jobs' = Jobs /\ Completed' = Completed \cup {j}
           /\ refine_jobs' \in Seq({"none", "queued", "completed"})
           /\ \A e \in Edges : Expected(e)' = compute_new_weight(Expected(e), signal[e])
<1>1. /\ Jobs \in Nat /\ Jobs' = Jobs
      /\ refine_jobs' \in Seq({"none", "queued", "completed"})
      /\ refine_jobs'[j] = "completed"
      /\ \A i \in (1 .. Jobs) \ {j} : refine_jobs'[i] = refine_jobs[i]
  BY DEF RefineInv, TypeInv, Jobs
<1>2. Completed' = Completed \cup {j}
  <2>1. \A i \in 1 .. Jobs : i \in Completed' <=> i \in Completed \cup {j}
    BY <1>1 DEF Completed
  <2>2. Completed \subseteq 1 .. Jobs /\ Completed' \subseteq 1 .. Jobs
    BY <1>1 DEF Completed
  <2> QED
    BY <2>1, <2>2
<1>3. IsFiniteSet(Completed) /\ Cardinality(Completed) \in Nat
  <2>1. IsFiniteSet(1 .. Jobs)
    BY <1>1, FS_Interval
  <2>2. Completed \subseteq 1 .. Jobs
    BY DEF Completed
  <2> QED
    BY <2>1, <2>2, FS_Subset, FS_CardinalityType
<1>4. Cardinality(Completed') = Cardinality(Completed) + 1
  BY <1>2, <1>3, FS_AddElement
<1>5. ASSUME NEW e \in Edges
      PROVE  Expected(e)' = compute_new_weight(Expected(e), signal[e])
  <2>1. signal[e] \in {-1, 0, 1}
    BY RefineAssumption
  <2> QED
    BY <1>3, <1>4, <2>1, AfterNext DEF Expected
<1> QED
  BY <1>1, <1>2, <1>5

\* The commit of a run: what it has computed, found and written is still right.
LEMMA PruneKeeps == ASSUME RefineInv, NEW w \in Workers, run_prune(w) PROVE RefineInv'
<1> DEFINE r == refining[w]
           kept == Strong(w, DOMAIN weight)
           new == {i \in r.inferred : i.weight >= Threshold}
<1>1. /\ At(w, "prune") /\ weight' = [e \in kept |-> r.weight[e]]
      /\ inferred' = inferred \cup new /\ summaries' = summaries \cup r.summaries
      /\ refine_jobs' = [refine_jobs EXCEPT ![r.job] = "completed"]
      /\ refining' = [refining EXCEPT ![w] = NoRun]
      /\ queue' = queue /\ duplicates' = duplicates /\ overlapped' = overlapped
  BY DEF run_prune, Commit, Goes
<1>2. /\ Running(w) /\ r \in Run /\ r.step = "prune" /\ LockedEdges(w) = DOMAIN weight
      /\ \A e \in DOMAIN weight : r.weight[e] = compute_new_weight(weight[e], signal[e])
  BY <1>1, AtStep DEF At, RefineInv, LocksInv
<1>3. r.job \in (1 .. Jobs) \ (queue \cup Completed)
  BY <1>2 DEF RefineInv, JobsInv
<1>4. /\ Jobs' = Jobs /\ Completed' = Completed \cup {r.job}
      /\ refine_jobs' \in Seq({"none", "queued", "completed"})
      /\ \A e \in Edges : Expected(e)' = compute_new_weight(Expected(e), signal[e])
  BY <1>1, <1>3, OneMoreRun
<1>5. refining'[w] = NoRun /\ \A v \in Workers \ {w} : refining'[v] = refining[v]
  BY <1>1 DEF RefineInv, TypeInv
<1>6. ~Running(w)' /\ \A v \in Workers \ {w} : Running(v)' <=> Running(v)
  BY <1>5, NoRunTyped DEF Running
<1>7. \A v \in Workers : LockedEdges(v)' = {}
  <2>1. LockedEdges(w)' = {}
    BY <1>5, NoRunTyped DEF LockedEdges
  <2>2. ASSUME NEW v \in Workers \ {w} PROVE LockedEdges(v) = {}
    BY <1>2 DEF RefineInv, LocksInv
  <2>3. \A v \in Workers \ {w} : LockedEdges(v)' = LockedEdges(v)
    BY <1>5 DEF LockedEdges
  <2> QED
    BY <2>1, <2>2, <2>3
<1>8. /\ kept \subseteq DOMAIN weight /\ kept \subseteq Edges
      /\ DOMAIN weight' = kept /\ \A e \in kept : weight'[e] = r.weight[e]
  BY <1>1, WeightsFacts DEF Strong, RefineInv, TypeInv
<1>9. TypeInv'
  <2>1. weight' \in Weights
    <3>1. r.weight \in Weights /\ DOMAIN r.weight = DOMAIN weight
      BY <1>2 DEF Run, LockedEdges
    <3>2. \A e \in kept : r.weight[e] \in Nat
      BY <1>8, <3>1, WeightsFacts
    <3> HIDE DEF kept
    <3> QED
      BY <1>1, <1>8, <3>2, WeightsOf
  <2>2. refining' \in [Workers -> Run]
    BY <1>1, NoRunTyped DEF RefineInv, TypeInv
  <2>3. inferred' \subseteq InferredEdge /\ summaries' \subseteq Summary
    BY <1>1, <1>2 DEF RefineInv, TypeInv, Run
  <2>4. \A v \in Workers : ~Running(v)' => refining'[v] = NoRun
    BY <1>5, <1>6 DEF RefineInv, TypeInv
  <2> QED
    BY <1>1, <1>4, <2>1, <2>2, <2>3, <2>4 DEF RefineInv, TypeInv
<1>10. JobsInv'
  <2>1. queue' \cap Completed' = {}
    BY <1>1, <1>3, <1>4 DEF RefineInv, JobsInv
  <2>2. ASSUME NEW v \in Workers, Running(v)'
        PROVE  refining'[v].job \in (1 .. Jobs') \ (queue' \cup Completed')
    <3>1. v # w /\ Running(v) /\ refining'[v] = refining[v]
      BY <2>2, <1>5, <1>6
    <3>2. refining[v].job # r.job /\ refining[v].job \in (1 .. Jobs) \ (queue \cup Completed)
      BY <3>1, <1>2 DEF RefineInv, JobsInv
    <3> QED
      BY <3>1, <3>2, <1>1, <1>4
  <2>3. \A u, v \in Workers :
           Running(u)' /\ Running(v)' /\ refining'[u].job = refining'[v].job => u = v
    BY <1>5, <1>6 DEF RefineInv, JobsInv
  <2> QED
    BY <2>1, <2>2, <2>3 DEF JobsInv
<1>11. LocksInv'
  <2>1. \A v \in Workers : refining'[v].step = "prune" => DOMAIN weight' = {}
    <3>1. ASSUME NEW v \in Workers, refining'[v].step = "prune" PROVE DOMAIN weight = {}
      <4>1. v # w /\ refining[v].step = "prune" /\ LockedEdges(v)' = LockedEdges(v)
        BY <3>1, <1>5, NoRunTyped DEF LockedEdges
      <4> QED
        BY <4>1, <1>7 DEF RefineInv, LocksInv
    <3> QED
      BY <3>1, <1>8
  <2> QED
    BY <1>7, <2>1 DEF LocksInv
<1>12. WeightsInv'
  <2>1. ASSUME NEW e \in Edges
        PROVE  /\ Expected(e)' \in Nat
               /\ signal[e] >= 0 => Expected(e)' >= Full \div 2
               /\ e \in DOMAIN weight' => weight'[e] = Expected(e)' /\ weight'[e] >= Threshold
               /\ e \notin DOMAIN weight' => Expected(e)' < Threshold
    <3>1. /\ signal[e] \in {-1, 0, 1} /\ Threshold \in Nat /\ Threshold <= Full \div 2
          /\ Full \div 2 = 8
      BY RefineAssumption DEF Full
    <3>2. Expected(e)' = compute_new_weight(Expected(e), signal[e]) /\ Expected(e) \in Nat
      BY <1>4 DEF RefineInv, WeightsInv
    <3>3. Expected(e)' \in Nat /\ (signal[e] >= 0 => Expected(e)' >= Full \div 2)
      BY <3>1, <3>2, NewWeight DEF RefineInv, WeightsInv
    <3>4. CASE e \in DOMAIN weight
      <4>1. r.weight[e] = Expected(e)'
        BY <3>4, <3>2, <1>2 DEF RefineInv, WeightsInv
      <4>2. e \in kept <=> r.weight[e] >= Threshold
        BY <3>4 DEF Strong
      <4> HIDE DEF kept
      <4> QED
        BY <3>1, <3>3, <4>1, <4>2, <1>8
    <3>5. CASE e \notin DOMAIN weight
      <4>1. e \notin DOMAIN weight' /\ Expected(e) < Threshold
        BY <3>5, <1>8 DEF RefineInv, WeightsInv
      <4>2. ~(signal[e] >= 0)
        BY <3>1, <3>2, <4>1 DEF RefineInv, WeightsInv
      <4>3. Expected(e)' <= Expected(e)
        BY <3>1, <3>2, <4>2, NewWeight
      <4> QED
        BY <3>1, <3>2, <3>3, <4>1, <4>3
    <3> QED
      BY <3>4, <3>5
  <2> QED
    BY <2>1 DEF WeightsInv
<1>13. OnceInv'
  <2>1. \A v \in Workers : /\ OneByOne(refining[v])'
                           /\ \A s, t \in refining'[v].summaries : s = t
    BY <1>5, NoRunTyped DEF RefineInv, OnceInv, OneByOne, News
  <2>2. ASSUME ~overlapped
        PROVE  /\ \A v, u \in Workers : Running(v)' /\ Running(u)' => v = u
               /\ \A x, y \in inferred' : x.from = y.from => x = y
               /\ \A s, t \in summaries' : s.hash = t.hash => s = t
               /\ \A v \in Workers : refining'[v] = NoRun
    <3>1. \A v \in Workers : ~Running(v)'
      BY <2>2, <1>2, <1>6 DEF RefineInv, OnceInv
    <3>2. \A v \in Workers : refining'[v] = NoRun
      BY <3>1, <1>9 DEF TypeInv
    <3>3. \A x, y \in inferred' : x.from = y.from => x = y
      <4>1. /\ \A x, y \in inferred : x.from = y.from => x = y
            /\ \A x, y \in r.inferred : x.from = y.from => x = y
            /\ \A x \in r.inferred, y \in inferred : x.from # y.from
        BY <2>2 DEF RefineInv, OnceInv, OneByOne, News
      <4>2. new \subseteq r.inferred
        OBVIOUS
      <4> HIDE DEF new, r
      <4> QED
        BY <1>1, <4>1, <4>2
    <3>4. \A s, t \in summaries' : s.hash = t.hash => s = t
      BY <2>2, <1>1 DEF RefineInv, OnceInv
    <3> QED
      BY <3>1, <3>2, <3>3, <3>4
  <2>3. ~overlapped =>
          \A v \in Workers :
             /\ refining'[v].step # "write" /\ News(refining[v])'
             /\ refining'[v].summaries = {}
    BY <2>2, NoRunTyped DEF News
  <2> QED
    BY <1>1, <2>1, <2>2, <2>3 DEF OnceInv
<1> QED
  BY <1>9, <1>10, <1>11, <1>12, <1>13 DEF RefineInv

-----------------------------------------------------------------------------
(* Ticks *)

Open == {d \in Dispatchers : tick[d].step # "idle"}

\* A tick that may still send t while u waits.
MaySend(d, t, u) ==
    \/ tick[d].step = "lock" /\ <<t, u>> \in tick[d].before
    \/ t \in Unsent(d) /\ u \notin Locked

Against(t, u) == {d \in Dispatchers : MaySend(d, t, u)}

\* A tick that has taken t but not u, or that would.
Prefers(d, t, u) ==
    \/ tick[d].step = "lock" /\ <<t, u>> \in tick[d].before
    \/ t \in tick[d].picked /\ u \notin tick[d].picked

\* The times that t is ahead of u, or may come to be when the ticks go on.
Debt(t, u) == ahead[<<t, u>>] + Cardinality(Against(t, u))

Tick == [step : {"idle", "lock", "send"}, began : Nat, before : SUBSET (Tenants \X Tenants),
         picked : SUBSET Tenants, sent : SUBSET Tenants]

SchedulerTypeInv ==
    /\ refine_enabled \subseteq Tenants
    /\ refine_last_run_at \in [Tenants -> Nat]
    /\ tick \in [Dispatchers -> Tick]
    /\ clock \in Nat /\ overlaps \in Nat /\ trouble \in Nat
    /\ ahead \in [Tenants \X Tenants -> Nat]

TicksInv ==
    /\ \A d, e \in Dispatchers : d # e => LockedBy(d) \cap LockedBy(e) = {}
    /\ \A d \in Dispatchers :
          /\ tick[d].step = "idle" => tick[d] = NoTick
          /\ tick[d].step # "send" => tick[d].picked = {} /\ tick[d].sent = {}
          /\ tick[d].sent \subseteq tick[d].picked
          /\ tick[d].began <= clock
          /\ tick[d].step = "lock" =>
                \A t, u, v \in refine_enabled :
                   /\ t # u => <<t, u>> \in tick[d].before \/ <<u, t>> \in tick[d].before
                   /\ <<t, u>> \in tick[d].before /\ <<u, v>> \in tick[d].before =>
                         <<t, v>> \in tick[d].before
    /\ \A t \in Tenants : refine_last_run_at[t] <= clock
    /\ Cardinality(Open) <= overlaps + 1

\* When u has been sent, nobody is ahead of it; and there is one in hand unless
\* some tick prefers t, or t was stamped after u by a tick that is not old.
InTurn(t, u) ==
    /\ \A d \in Dispatchers : u \in tick[d].sent => ahead[<<t, u>>] = 0
    /\ Debt(t, u) <= 1 + trouble + overlaps
    /\ NotLater(t, u) /\ (\A d \in Dispatchers : ~Prefers(d, t, u)) =>
          Debt(t, u) <= trouble + overlaps
    /\ (\E d \in Open : tick[d].began <= refine_last_run_at[u]) =>
          Debt(t, u) <= trouble + overlaps

RotationInv == \A t \in Tenants, u \in refine_enabled : InTurn(t, u)

SchedulerInv == SchedulerTypeInv /\ TicksInv /\ RotationInv

-----------------------------------------------------------------------------
(* Counting *)

LEMMA TicksFinite ==
    /\ IsFiniteSet(Open) /\ Cardinality(Open) \in Nat
    /\ \A t, u : IsFiniteSet(Against(t, u)) /\ Cardinality(Against(t, u)) \in Nat
    /\ IsFiniteSet(Open') /\ Cardinality(Open') \in Nat
    /\ \A t, u : IsFiniteSet(Against(t, u)') /\ Cardinality(Against(t, u)') \in Nat
<1>1. /\ Open \subseteq Dispatchers /\ Open' \subseteq Dispatchers
      /\ \A t, u : Against(t, u) \subseteq Dispatchers /\ Against(t, u)' \subseteq Dispatchers
  BY DEF Open, Against
<1>2. \A S \in SUBSET Dispatchers : IsFiniteSet(S) /\ Cardinality(S) \in Nat
  BY SchedulerAssumption, FS_Subset, FS_CardinalityType
<1> QED
  BY <1>1, <1>2

LEMMA CountFewer ==
    ASSUME NEW S, IsFiniteSet(S), NEW T \in SUBSET S
    PROVE  /\ Cardinality(T) <= Cardinality(S)
           /\ \A x \in S \ T : Cardinality(T) + 1 <= Cardinality(S)
<1>1. IsFiniteSet(T) /\ Cardinality(T) \in Nat /\ Cardinality(S) \in Nat
      /\ Cardinality(T) <= Cardinality(S)
  BY FS_Subset, FS_CardinalityType
<1>2. ASSUME NEW x \in S \ T PROVE Cardinality(T) + 1 <= Cardinality(S)
  <2>1. Cardinality(T) # Cardinality(S)
    BY <1>2, FS_Subset
  <2> QED
    BY <1>1, <2>1
<1> QED
  BY <1>1, <1>2

LEMMA CountMore ==
    ASSUME NEW S, IsFiniteSet(S), NEW x, NEW T \in SUBSET (S \cup {x})
    PROVE  Cardinality(T) <= Cardinality(S) + 1
<1>1. IsFiniteSet(S \cup {x}) /\ Cardinality(S) \in Nat
      /\ Cardinality(S \cup {x}) <= Cardinality(S) + 1
  <2>1. Cardinality(S) \in Nat
    BY FS_CardinalityType
  <2>2. /\ IsFiniteSet(S \cup {x})
        /\ Cardinality(S \cup {x}) = IF x \in S THEN Cardinality(S) ELSE Cardinality(S) + 1
    BY FS_AddElement
  <2> QED
    BY <2>1, <2>2
<1>2. Cardinality(T) <= Cardinality(S \cup {x})
  BY <1>1, CountFewer
<1>3. Cardinality(T) \in Nat /\ Cardinality(S \cup {x}) \in Nat
  BY <1>1, FS_Subset, FS_CardinalityType
<1> QED
  BY <1>1, <1>2, <1>3

\* How the debt moves with the ticks.
LEMMA DebtMoves ==
    ASSUME SchedulerTypeInv, NEW t \in Tenants, NEW u \in Tenants,
           ahead'[<<t, u>>] = ahead[<<t, u>>]
    PROVE  /\ Debt(t, u) \in Nat /\ Debt(t, u)' \in Nat
           /\ Against(t, u)' \subseteq Against(t, u) =>
                 /\ Debt(t, u)' <= Debt(t, u)
                 /\ \A d \in Against(t, u) \ Against(t, u)' : Debt(t, u)' + 1 <= Debt(t, u)
           /\ \A d : Against(t, u)' \subseteq Against(t, u) \cup {d} =>
                 Debt(t, u)' <= Debt(t, u) + 1
<1>1. ahead[<<t, u>>] \in Nat
  BY DEF SchedulerTypeInv
<1>2. /\ IsFiniteSet(Against(t, u)) /\ Cardinality(Against(t, u)) \in Nat
      /\ Cardinality(Against(t, u)') \in Nat
  BY TicksFinite
<1>3. /\ Debt(t, u) = ahead[<<t, u>>] + Cardinality(Against(t, u))
      /\ Debt(t, u)' = ahead[<<t, u>>] + Cardinality(Against(t, u)')
  BY DEF Debt
<1>4. ASSUME Against(t, u)' \subseteq Against(t, u)
      PROVE  /\ Cardinality(Against(t, u)') <= Cardinality(Against(t, u))
             /\ \A d \in Against(t, u) \ Against(t, u)' :
                   Cardinality(Against(t, u)') + 1 <= Cardinality(Against(t, u))
  BY <1>2, <1>4, CountFewer
<1>5. ASSUME NEW d, Against(t, u)' \subseteq Against(t, u) \cup {d}
      PROVE  Cardinality(Against(t, u)') <= Cardinality(Against(t, u)) + 1
  BY <1>2, <1>5, CountMore
<1> HIDE DEF Debt
<1>6. Debt(t, u) \in Nat /\ Debt(t, u)' \in Nat
  BY <1>1, <1>2, <1>3
<1>7. ASSUME Against(t, u)' \subseteq Against(t, u)
      PROVE  /\ Debt(t, u)' <= Debt(t, u)
             /\ \A d \in Against(t, u) \ Against(t, u)' : Debt(t, u)' + 1 <= Debt(t, u)
  <2>1. Debt(t, u)' <= Debt(t, u)
    BY <1>1, <1>2, <1>3, <1>4, <1>7
  <2>2. ASSUME NEW d \in Against(t, u) \ Against(t, u)' PROVE Debt(t, u)' + 1 <= Debt(t, u)
    <3>1. Cardinality(Against(t, u)') + 1 <= Cardinality(Against(t, u))
      BY <1>4, <1>7
    <3> QED
      BY <1>1, <1>2, <1>3, <3>1
  <2> QED
    BY <2>1, <2>2
<1>8. ASSUME NEW d, Against(t, u)' \subseteq Against(t, u) \cup {d}
      PROVE  Debt(t, u)' <= Debt(t, u) + 1
  <2>1. Cardinality(Against(t, u)') <= Cardinality(Against(t, u)) + 1
    BY <1>5, <1>8
  <2> QED
    BY <1>1, <1>2, <1>3, <2>1
<1> QED
  BY <1>6, <1>7, <1>8

\* A tick that may send is open.
LEMMA SendersOpen ==
    ASSUME TicksInv, NEW t, NEW u
    PROVE  Against(t, u) \subseteq Open
  BY DEF TicksInv, Against, MaySend, Open, Unsent

LEMMA NoTickTyped ==
    /\ NoTick \in Tick
    /\ NoTick.step = "idle" /\ NoTick.began = 0 /\ NoTick.picked = {} /\ NoTick.sent = {}
  BY DEF NoTick, Tick

LEMMA OpenTicks ==
    ASSUME TicksInv, NEW d \in Dispatchers
    PROVE  d \in Open <=> tick[d] # NoTick
  BY NoTickTyped DEF TicksInv, Open

\* A step of one tick that leaves the locks, and the count of what is open, right.
LEMMA TicksKept ==
    ASSUME SchedulerTypeInv, TicksInv, NEW d \in Dispatchers, NEW r \in Tick,
           tick' = [tick EXCEPT ![d] = r],
           r.step = "idle" => r = NoTick,
           r.step # "send" => r.picked = {} /\ r.sent = {},
           r.sent \subseteq r.picked,
           \A e \in Dispatchers \ {d} : r.picked \cap LockedBy(e) = {},
           r.step = "lock" =>
              \A t, u, v \in refine_enabled :
                 /\ t # u => <<t, u>> \in r.before \/ <<u, t>> \in r.before
                 /\ <<t, u>> \in r.before /\ <<u, v>> \in r.before => <<t, v>> \in r.before,
           refine_enabled' = refine_enabled,
           clock' \in Nat, clock <= clock', r.began <= clock',
           \A t \in Tenants : refine_last_run_at'[t] <= clock',
           Cardinality(Open') <= overlaps' + 1
    PROVE  TicksInv'
<1>1. tick'[d] = r /\ \A e \in Dispatchers \ {d} : tick'[e] = tick[e]
  BY DEF SchedulerTypeInv
<1>2. \A e, f \in Dispatchers : e # f => LockedBy(e)' \cap LockedBy(f)' = {}
  BY <1>1 DEF TicksInv, LockedBy
<1>3. ASSUME NEW e \in Dispatchers
      PROVE  /\ tick'[e].step = "idle" => tick'[e] = NoTick
             /\ tick'[e].step # "send" => tick'[e].picked = {} /\ tick'[e].sent = {}
             /\ tick'[e].sent \subseteq tick'[e].picked
             /\ tick'[e].began <= clock'
             /\ tick'[e].step = "lock" =>
                  \A t, u, v \in refine_enabled' :
                     /\ t # u => <<t, u>> \in tick'[e].before \/ <<u, t>> \in tick'[e].before
                     /\ <<t, u>> \in tick'[e].before /\ <<u, v>> \in tick'[e].before =>
                           <<t, v>> \in tick'[e].before
  <2>1. CASE e = d
    BY <1>1, <2>1
  <2>2. CASE e # d
    <3>1. tick'[e] = tick[e] /\ tick[e] \in Tick
      BY <1>1, <2>2 DEF SchedulerTypeInv
    <3>2. tick[e].began <= clock /\ tick[e].began \in Nat /\ clock \in Nat
      BY <3>1 DEF TicksInv, SchedulerTypeInv, Tick
    <3>3. tick[e].began <= clock'
      BY <3>2
    <3> QED
      BY <3>1, <3>3 DEF TicksInv
  <2> QED
    BY <2>1, <2>2
<1> QED
  BY <1>2, <1>3 DEF TicksInv

LEMMA OpenCount ==
    ASSUME SchedulerTypeInv, TicksInv, NEW d \in Dispatchers, NEW r,
           tick' = [tick EXCEPT ![d] = r], NEW n \in Nat, overlaps' = n,
           overlaps <= overlaps', d \in Open \/ r.step = "idle"
    PROVE  /\ Cardinality(Open') <= overlaps' + 1
           /\ d \in Open /\ r.step = "idle" => Cardinality(Open') <= overlaps'
<1>1. tick'[d] = r /\ \A e \in Dispatchers \ {d} : tick'[e] = tick[e]
  BY DEF SchedulerTypeInv
<1>2. Open' \subseteq Open /\ (r.step = "idle" => d \notin Open')
  BY <1>1 DEF Open
<1>3. Cardinality(Open) \in Nat /\ Cardinality(Open') \in Nat /\ IsFiniteSet(Open)
  BY TicksFinite
<1>4. Cardinality(Open') <= Cardinality(Open)
  BY <1>2, <1>3, CountFewer
<1>5. CASE d \in Open /\ r.step = "idle"
  <2>1. Cardinality(Open') + 1 <= Cardinality(Open)
    BY <1>2, <1>3, <1>5, CountFewer
  <2> QED
    BY <1>3, <1>4, <2>1 DEF TicksInv, SchedulerTypeInv
<1>6. Cardinality(Open') <= overlaps' + 1
  BY <1>3, <1>4 DEF TicksInv, SchedulerTypeInv
<1> QED
  BY <1>5, <1>6

LEMMA BeginTickKeeps ==
    ASSUME SchedulerInv, NEW d \in Dispatchers, BeginTick(d)
    PROVE  SchedulerInv'
<1>1. PICK before \in Orders :
         tick' = [tick EXCEPT ![d] = [NoTick EXCEPT !.step = "lock", !.began = clock + 1,
                                                    !.before = before]]
  BY DEF BeginTick
<1>2. /\ tick[d] = NoTick /\ clock' = clock + 1
      /\ overlaps' = overlaps + Cardinality({e \in Dispatchers : tick[e] # NoTick})
      /\ refine_enabled' = refine_enabled /\ refine_last_run_at' = refine_last_run_at
      /\ ahead' = ahead /\ trouble' = trouble
  BY DEF BeginTick
<1>3. SchedulerTypeInv /\ TicksInv /\ RotationInv
  BY DEF SchedulerInv
<1>4. /\ before \subseteq Tenants \X Tenants
      /\ \A p \in before : NotLater(p[1], p[2])
      /\ \A t, u, v \in refine_enabled :
            /\ t # u => <<t, u>> \in before \/ <<u, t>> \in before
            /\ <<t, u>> \in before /\ <<u, v>> \in before => <<t, v>> \in before
  BY <1>3 DEF Orders, SchedulerTypeInv
<1> DEFINE r == [NoTick EXCEPT !.step = "lock", !.began = clock + 1, !.before = before]
<1>5. /\ r \in Tick /\ r.step = "lock" /\ r.began = clock + 1 /\ r.before = before
      /\ r.picked = {} /\ r.sent = {}
  <2>1. clock + 1 \in Nat /\ before \in SUBSET (Tenants \X Tenants)
    BY <1>3, <1>4 DEF SchedulerTypeInv
  <2> QED
    BY <2>1, NoTickTyped DEF Tick
<1>6. tick' = [tick EXCEPT ![d] = r]
  BY <1>1
<1> HIDE DEF r
<1>7. tick'[d] = r /\ \A e \in Dispatchers \ {d} : tick'[e] = tick[e]
  BY <1>3, <1>6 DEF SchedulerTypeInv
<1>8. /\ Open = {e \in Dispatchers : tick[e] # NoTick} /\ d \notin Open /\ Open' = Open \cup {d}
  <2>1. Open = {e \in Dispatchers : tick[e] # NoTick}
    BY <1>3, OpenTicks DEF Open
  <2>2. Open' = Open \cup {d}
    BY <1>5, <1>7 DEF Open
  <2> QED
    BY <1>2, <2>1, <2>2
<1>9. /\ Cardinality(Open) \in Nat /\ IsFiniteSet(Open) /\ overlaps' = overlaps + Cardinality(Open)
      /\ overlaps \in Nat /\ trouble \in Nat /\ clock \in Nat
      /\ Cardinality(Open') \in Nat
  BY <1>2, <1>3, <1>8, TicksFinite DEF SchedulerTypeInv
<1>10. SchedulerTypeInv'
  <2>1. tick' \in [Dispatchers -> Tick]
    BY <1>3, <1>5, <1>6 DEF SchedulerTypeInv
  <2> QED
    BY <1>2, <1>3, <1>9, <2>1 DEF SchedulerTypeInv
<1>11. TicksInv'
  <2>1. Cardinality(Open') <= overlaps' + 1
    <3>1. Cardinality(Open') <= Cardinality(Open) + 1
      BY <1>8, <1>9, CountMore
    <3> QED
      BY <1>9, <3>1
  <2>2. \A t \in Tenants : refine_last_run_at'[t] <= clock'
    <3>1. ASSUME NEW t \in Tenants PROVE refine_last_run_at'[t] <= clock'
      <4>1. refine_last_run_at[t] \in Nat /\ refine_last_run_at[t] <= clock
        BY <1>3 DEF SchedulerTypeInv, TicksInv
      <4> QED
        BY <4>1, <1>2, <1>9
    <3> QED
      BY <3>1
  <2>3. clock' \in Nat /\ clock <= clock' /\ r.began <= clock'
    BY <1>2, <1>5, <1>9
  <2>4. r.step # "idle" /\ r.sent \subseteq r.picked
    BY <1>5
  <2> QED
    BY <1>2, <1>3, <1>4, <1>5, <1>6, <2>1, <2>2, <2>3, <2>4, TicksKept
<1>12. ASSUME NEW t \in Tenants, NEW u \in refine_enabled
       PROVE  InTurn(t, u)'
  <2>1. InTurn(t, u) /\ u \in Tenants
    BY <1>3 DEF RotationInv, SchedulerTypeInv
  <2>2. /\ Locked' = Locked /\ \A e \in Dispatchers : Unsent(e)' = Unsent(e)
        /\ \A e \in Dispatchers : tick'[e].picked = tick[e].picked /\ tick'[e].sent = tick[e].sent
    <3>1. \A e \in Dispatchers : tick'[e].picked = tick[e].picked /\ tick'[e].sent = tick[e].sent
      BY <1>2, <1>5, <1>7, NoTickTyped
    <3>2. Locked' = Locked
      BY <3>1 DEF Locked, LockedBy
    <3> QED
      BY <3>1, <3>2 DEF Unsent
  <2>3. ASSUME NEW e \in Dispatchers, e # d
        PROVE  /\ MaySend(e, t, u)' = MaySend(e, t, u)
               /\ Prefers(e, t, u)' = Prefers(e, t, u)
    BY <1>7, <2>2, <2>3 DEF MaySend, Prefers
  <2>4. /\ ~Prefers(d, t, u) /\ ~MaySend(d, t, u)
        /\ MaySend(d, t, u)' <=> <<t, u>> \in before
        /\ Prefers(d, t, u)' <=> <<t, u>> \in before
    BY <1>2, <1>5, <1>7, <2>2, NoTickTyped DEF MaySend, Prefers, Unsent
  <2>5. /\ Against(t, u)' \subseteq Against(t, u) \cup {d}
        /\ <<t, u>> \notin before => Against(t, u)' \subseteq Against(t, u)
    <3>1. ASSUME NEW e \in Against(t, u)', e # d PROVE e \in Against(t, u)
      <4>1. e \in Dispatchers /\ MaySend(e, t, u)'
        BY DEF Against
      <4> QED
        BY <2>3, <3>1, <4>1 DEF Against
    <3>2. d \in Against(t, u)' => <<t, u>> \in before
      BY <2>4 DEF Against
    <3> QED
      BY <3>1, <3>2
  <2>6. /\ Debt(t, u) \in Nat /\ Debt(t, u)' \in Nat /\ Debt(t, u)' <= Debt(t, u) + 1
        /\ <<t, u>> \notin before => Debt(t, u)' <= Debt(t, u)
    BY <1>2, <1>3, <2>1, <2>5, DebtMoves
  <2>7. \A e \in Dispatchers : u \in tick'[e].sent => ahead'[<<t, u>>] = 0
    BY <1>2, <2>1, <2>2 DEF InTurn
  <2>8. Open # {} => Cardinality(Open) >= 1
    BY <1>9, FS_EmptySet
  <2>9. Debt(t, u)' <= 1 + trouble' + overlaps'
    <3>1. Debt(t, u) <= 1 + trouble + overlaps
      BY <2>1 DEF InTurn
    <3>2. CASE <<t, u>> \notin before
      BY <1>2, <1>9, <2>6, <3>1, <3>2
    <3>3. CASE Open # {}
      BY <1>2, <1>9, <2>6, <2>8, <3>1, <3>3
    <3>4. CASE <<t, u>> \in before /\ Open = {}
      <4>1. NotLater(t, u)
        BY <1>4, <3>4
      <4>2. \A e \in Dispatchers : ~Prefers(e, t, u)
        BY <3>4, <1>3 DEF Open, Prefers, TicksInv
      <4>3. Debt(t, u) <= trouble + overlaps
        BY <2>1, <4>1, <4>2 DEF InTurn
      <4> QED
        BY <1>2, <1>9, <2>6, <4>3
    <3> QED
      BY <3>2, <3>3, <3>4
  <2>10. ASSUME NotLater(t, u)', \A e \in Dispatchers : ~Prefers(e, t, u)'
         PROVE  Debt(t, u)' <= trouble' + overlaps'
    <3>1. <<t, u>> \notin before /\ (\A e \in Dispatchers : ~Prefers(e, t, u)) /\ NotLater(t, u)
      BY <1>2, <2>3, <2>4, <2>10 DEF NotLater
    <3>2. Debt(t, u) <= trouble + overlaps
      BY <2>1, <3>1 DEF InTurn
    <3> QED
      BY <1>2, <1>9, <2>6, <3>1, <3>2
  <2>11. ASSUME NEW e \in Open', tick'[e].began <= refine_last_run_at'[u]
         PROVE  Debt(t, u)' <= trouble' + overlaps'
    <3>1. e # d
      <4>1. refine_last_run_at[u] \in Nat /\ refine_last_run_at[u] <= clock
        BY <1>3, <2>1 DEF SchedulerTypeInv, TicksInv
      <4>2. ~(clock + 1 <= refine_last_run_at[u])
        BY <4>1, <1>9
      <4> QED
        BY <4>2, <2>11, <1>2, <1>5, <1>7
    <3>2. e \in Open /\ tick'[e] = tick[e] /\ Cardinality(Open) >= 1
      BY <3>1, <2>8, <2>11, <1>7, <1>8 DEF Open
    <3>3. Debt(t, u) <= trouble + overlaps
      BY <2>1, <2>11, <3>2, <1>2 DEF InTurn
    <3> QED
      BY <1>2, <1>9, <2>6, <3>2, <3>3
  <2> QED
    BY <2>7, <2>9, <2>10, <2>11 DEF InTurn
<1>13. RotationInv'
  BY <1>2, <1>12 DEF RotationInv
<1> QED
  BY <1>10, <1>11, <1>13 DEF SchedulerInv

\* The lock of the rows: a tick takes t and leaves u only if it would have, or
\* while somebody else has u.
LEMMA PickKeeps ==
    ASSUME SchedulerInv, NEW d \in Dispatchers, pick_refine_tenants(d)
    PROVE  SchedulerInv'
<1> DEFINE free == refine_enabled \ Locked
           first(t) == {u \in free : <<u, t>> \in tick[d].before}
           taken == {t \in free : Cardinality(first(t)) < Limit}
           r == IF taken = {} THEN NoTick ELSE [tick[d] EXCEPT !.step = "send", !.picked = taken]
<1>1. /\ tick[d].step = "lock"
      /\ tick' = [tick EXCEPT ![d] = r]
      /\ refine_enabled' = refine_enabled /\ refine_last_run_at' = refine_last_run_at
      /\ clock' = clock /\ ahead' = ahead /\ overlaps' = overlaps /\ trouble' = trouble
  BY DEF pick_refine_tenants
<1>2. SchedulerTypeInv /\ TicksInv /\ RotationInv
  BY DEF SchedulerInv
<1>3. \A t, u \in free : t # u /\ t \in taken /\ u \notin taken => <<t, u>> \in tick[d].before
  <2>1. SUFFICES ASSUME NEW t \in free, NEW u \in free, t # u, t \in taken,
                        <<t, u>> \notin tick[d].before
                 PROVE  u \in taken
    OBVIOUS
  <2>2. <<u, t>> \in tick[d].before
    BY <1>1, <1>2, <2>1 DEF TicksInv
  <2>3. first(u) \subseteq first(t)
    BY <1>1, <1>2, <2>2 DEF TicksInv
  <2>4. IsFiniteSet(first(t)) /\ first(t) \subseteq Tenants
    BY <1>2, SchedulerAssumption, FS_Subset DEF SchedulerTypeInv
  <2>5. Cardinality(first(u)) <= Cardinality(first(t))
    BY <2>3, <2>4, CountFewer
  <2>6. Cardinality(first(u)) \in Nat /\ Cardinality(first(t)) \in Nat /\ Limit \in Nat
    BY <2>3, <2>4, SchedulerAssumption, FS_Subset, FS_CardinalityType
  <2>7. Cardinality(first(t)) < Limit
    BY <2>1
  <2> HIDE DEF first
  <2>8. Cardinality(first(u)) < Limit
    BY <2>5, <2>6, <2>7
  <2> QED
    BY <2>8
<1>4. taken \subseteq refine_enabled /\ taken \subseteq Tenants /\ taken \cap Locked = {}
  BY <1>2 DEF SchedulerTypeInv
<1> HIDE DEF taken
<1>5. tick[d] \in Tick /\ tick[d].picked = {} /\ tick[d].sent = {} /\ d \in Open
  BY <1>1, <1>2 DEF SchedulerTypeInv, TicksInv, Open
<1>6. /\ r \in Tick /\ r.sent = {} /\ r.picked = taken
      /\ taken = {} => r = NoTick /\ r.step = "idle" /\ r.began = 0
      /\ taken # {} => r.step = "send" /\ r.began = tick[d].began
  <2>1. CASE taken = {}
    BY <2>1, NoTickTyped
  <2>2. CASE taken # {}
    BY <2>2, <1>4, <1>5 DEF Tick
  <2> QED
    BY <2>1, <2>2
<1> HIDE DEF r
<1>7. tick'[d] = r /\ \A e \in Dispatchers \ {d} : tick'[e] = tick[e]
  BY <1>1, <1>2 DEF SchedulerTypeInv
<1>8. overlaps \in Nat /\ trouble \in Nat /\ clock \in Nat
  BY <1>2 DEF SchedulerTypeInv
<1>9. SchedulerTypeInv'
  <2>1. tick' \in [Dispatchers -> Tick]
    BY <1>1, <1>2, <1>6 DEF SchedulerTypeInv
  <2> QED
    BY <1>1, <1>2, <2>1 DEF SchedulerTypeInv
<1>10. TicksInv'
  <2>1. Cardinality(Open') <= overlaps' + 1
    <3>1. overlaps' = overlaps /\ overlaps <= overlaps'
      BY <1>1, <1>8
    <3> QED
      BY <1>1, <1>2, <1>5, <1>8, <3>1, OpenCount
  <2>2. clock' \in Nat /\ clock <= clock' /\ r.began <= clock'
    <3>1. tick[d].began <= clock
      BY <1>2 DEF TicksInv
    <3> QED
      BY <1>1, <1>6, <1>8, <3>1
  <2>3. \A t \in Tenants : refine_last_run_at'[t] <= clock'
    BY <1>1, <1>2 DEF TicksInv
  <2>4. \A e \in Dispatchers \ {d} : r.picked \cap LockedBy(e) = {}
    BY <1>4, <1>6 DEF Locked
  <2>5. /\ r.step = "idle" => r = NoTick
        /\ r.step # "send" => r.picked = {} /\ r.sent = {}
        /\ r.sent \subseteq r.picked /\ r.step # "lock"
    BY <1>6
  <2> QED
    BY <1>1, <1>2, <1>6, <2>1, <2>2, <2>3, <2>4, <2>5, TicksKept
<1>11. Locked' = Locked \cup taken
  <2>1. LockedBy(d)' = taken /\ \A e \in Dispatchers \ {d} : LockedBy(e)' = LockedBy(e)
    BY <1>6, <1>7 DEF LockedBy
  <2>2. LockedBy(d) = {}
    BY <1>5 DEF LockedBy
  <2> QED
    BY <2>1, <2>2 DEF Locked
<1>12. ASSUME NEW t \in Tenants, NEW u \in refine_enabled
       PROVE  InTurn(t, u)'
  <2>1. InTurn(t, u) /\ u \in Tenants
    BY <1>2 DEF RotationInv, SchedulerTypeInv
  <2>2. ASSUME NEW e \in Dispatchers, e # d
        PROVE  /\ MaySend(e, t, u)' => MaySend(e, t, u)
               /\ Prefers(e, t, u)' = Prefers(e, t, u)
    BY <1>7, <1>11, <2>2 DEF MaySend, Prefers, Unsent
  <2>3. MaySend(d, t, u)' => MaySend(d, t, u)
    <3>1. SUFFICES ASSUME MaySend(d, t, u)' PROVE MaySend(d, t, u)
      OBVIOUS
    <3>2. t \in taken /\ u \notin Locked'
      BY <3>1, <1>6, <1>7 DEF MaySend, Unsent
    <3>3. t # u /\ t \in free /\ u \in free /\ u \notin taken
      BY <3>2, <1>11 DEF taken
    <3>4. <<t, u>> \in tick[d].before
      BY <3>2, <3>3, <1>3
    <3> QED
      BY <1>1, <3>4 DEF MaySend
  <2>4. Against(t, u)' \subseteq Against(t, u)
    BY <2>2, <2>3 DEF Against
  <2>5. /\ Debt(t, u) \in Nat /\ Debt(t, u)' \in Nat /\ Debt(t, u)' <= Debt(t, u)
        /\ \A e \in Against(t, u) \ Against(t, u)' : Debt(t, u)' + 1 <= Debt(t, u)
    BY <1>1, <1>2, <2>1, <2>4, DebtMoves
  <2>6. \A e \in Dispatchers : u \in tick'[e].sent => ahead'[<<t, u>>] = 0
    BY <1>1, <1>6, <1>7, <2>1 DEF InTurn
  <2>7. Debt(t, u)' <= 1 + trouble' + overlaps'
    <3>1. Debt(t, u) <= 1 + trouble + overlaps
      BY <2>1 DEF InTurn
    <3> QED
      BY <1>1, <1>8, <2>5, <3>1
  <2>8. ASSUME NotLater(t, u)', \A e \in Dispatchers : ~Prefers(e, t, u)'
        PROVE  Debt(t, u)' <= trouble' + overlaps'
    <3>1. \A e \in Dispatchers \ {d} : ~Prefers(e, t, u)
      BY <2>2, <2>8
    <3>2. NotLater(t, u)
      BY <1>1, <2>8 DEF NotLater
    <3>3. CASE ~Prefers(d, t, u)
      <4>1. Debt(t, u) <= trouble + overlaps
        BY <2>1, <3>1, <3>2, <3>3 DEF InTurn
      <4> QED
        BY <1>1, <1>8, <2>5, <4>1
    <3>4. CASE Prefers(d, t, u)
      <4>1. d \in Against(t, u)
        BY <1>5, <3>4 DEF Prefers, Against, MaySend
      <4>2. d \notin Against(t, u)'
        <5>1. SUFFICES ASSUME MaySend(d, t, u)' PROVE FALSE
          BY DEF Against
        <5>2. t \in taken /\ u \notin Locked'
          BY <5>1, <1>6, <1>7 DEF MaySend, Unsent
        <5>3. Prefers(d, t, u)'
          BY <5>2, <1>6, <1>7, <1>11 DEF Prefers
        <5> QED
          BY <5>3, <2>8
      <4>3. Debt(t, u)' + 1 <= Debt(t, u) /\ Debt(t, u) <= 1 + trouble + overlaps
        BY <4>1, <4>2, <2>1, <2>5 DEF InTurn
      <4> QED
        BY <1>1, <1>8, <2>5, <4>3
    <3> QED
      BY <3>3, <3>4
  <2>9. ASSUME NEW e \in Open', tick'[e].began <= refine_last_run_at'[u]
        PROVE  Debt(t, u)' <= trouble' + overlaps'
    <3>1. e \in Open /\ tick'[e].began = tick[e].began
      BY <1>5, <1>6, <1>7, <2>9 DEF Open
    <3>2. Debt(t, u) <= trouble + overlaps
      BY <2>1, <2>9, <3>1, <1>1 DEF InTurn
    <3> QED
      BY <1>1, <1>8, <2>5, <3>2
  <2> QED
    BY <2>6, <2>7, <2>8, <2>9 DEF InTurn
<1>13. RotationInv'
  BY <1>1, <1>12 DEF RotationInv
<1> QED
  BY <1>9, <1>10, <1>13 DEF SchedulerInv

\* A task sent: it counts for t only if the tick was counted for it before; for
\* the tenant sent, everything begins anew, and each other open tick has
\* overlapped with this one.
LEMMA SendKeeps ==
    ASSUME SchedulerInv, NEW d \in Dispatchers, NEW s \in Tenants, Send(d, s)
    PROVE  SchedulerInv'
<1> DEFINE r == [tick[d] EXCEPT !.sent = @ \cup {s}]
<1>1. /\ tick[d].step = "send" /\ s \in Unsent(d)
      /\ tick' = [tick EXCEPT ![d] = r]
      /\ ahead' = [p \in Tenants \X Tenants |->
                    IF p[2] = s THEN 0
                    ELSE IF p[1] = s /\ p[2] \notin Locked THEN ahead[p] + 1 ELSE ahead[p]]
      /\ refine_enabled' = refine_enabled /\ refine_last_run_at' = refine_last_run_at
      /\ clock' = clock /\ overlaps' = overlaps /\ trouble' = trouble
  BY DEF Send
<1>2. SchedulerTypeInv /\ TicksInv /\ RotationInv
  BY DEF SchedulerInv
<1>3. tick[d] \in Tick /\ d \in Open /\ s \in tick[d].picked /\ tick[d].sent \subseteq tick[d].picked
  BY <1>1, <1>2 DEF SchedulerTypeInv, TicksInv, Open, Unsent
<1>4. /\ r \in Tick /\ r.step = "send" /\ r.began = tick[d].began
      /\ r.picked = tick[d].picked /\ r.sent = tick[d].sent \cup {s}
  BY <1>1, <1>3 DEF Tick
<1> HIDE DEF r
<1>5. tick'[d] = r /\ \A e \in Dispatchers \ {d} : tick'[e] = tick[e]
  BY <1>1, <1>2 DEF SchedulerTypeInv
<1>6. overlaps \in Nat /\ trouble \in Nat /\ clock \in Nat
  BY <1>2 DEF SchedulerTypeInv
<1>7. SchedulerTypeInv'
  <2>1. tick' \in [Dispatchers -> Tick]
    BY <1>1, <1>2, <1>4 DEF SchedulerTypeInv
  <2>2. ahead' \in [Tenants \X Tenants -> Nat]
    BY <1>1, <1>2 DEF SchedulerTypeInv
  <2> QED
    BY <1>1, <1>2, <2>1, <2>2 DEF SchedulerTypeInv
<1>8. TicksInv'
  <2>1. Cardinality(Open') <= overlaps' + 1
    <3>1. overlaps' = overlaps /\ overlaps <= overlaps'
      BY <1>1, <1>6
    <3> QED
      BY <1>1, <1>2, <1>3, <1>6, <3>1, OpenCount
  <2>2. clock' \in Nat /\ clock <= clock' /\ r.began <= clock'
    <3>1. tick[d].began <= clock
      BY <1>2 DEF TicksInv
    <3> QED
      BY <1>1, <1>4, <1>6, <3>1
  <2>3. \A t \in Tenants : refine_last_run_at'[t] <= clock'
    BY <1>1, <1>2 DEF TicksInv
  <2>4. \A e \in Dispatchers \ {d} : r.picked \cap LockedBy(e) = {}
    BY <1>2, <1>4 DEF TicksInv, LockedBy
  <2>5. r.step \notin {"idle", "lock"} /\ r.sent \subseteq r.picked
    BY <1>3, <1>4
  <2> QED
    BY <1>1, <1>2, <1>4, <2>1, <2>2, <2>3, <2>4, <2>5, TicksKept
<1>9. /\ \A e \in Dispatchers : tick'[e].picked = tick[e].picked /\ tick'[e].step = tick[e].step
      /\ Locked' = Locked /\ Open' = Open
  <2>1. \A e \in Dispatchers : tick'[e].picked = tick[e].picked /\ tick'[e].step = tick[e].step
    BY <1>1, <1>4, <1>5
  <2> QED
    BY <2>1 DEF Locked, LockedBy, Open
<1>10. \A e \in Dispatchers : Unsent(e)' \subseteq Unsent(e)
  BY <1>4, <1>5 DEF Unsent
<1>11. ASSUME NEW t \in Tenants, NEW u \in refine_enabled
       PROVE  InTurn(t, u)'
  <2>1. InTurn(t, u) /\ u \in Tenants
    BY <1>2 DEF RotationInv, SchedulerTypeInv
  <2>2. \A e \in Dispatchers : Prefers(e, t, u)' = Prefers(e, t, u)
    BY <1>1, <1>4, <1>5 DEF Prefers
  <2>3. Against(t, u)' \subseteq Against(t, u)
    <3>1. ASSUME NEW e \in Dispatchers, MaySend(e, t, u)' PROVE MaySend(e, t, u)
      <4>1. CASE e = d
        BY <4>1, <3>1, <1>4, <1>5, <1>9, <1>10 DEF MaySend
      <4>2. CASE e # d
        BY <4>2, <3>1, <1>5, <1>9, <1>10 DEF MaySend
      <4> QED
        BY <4>1, <4>2
    <3> QED
      BY <3>1 DEF Against
  <2>4. /\ IsFiniteSet(Against(t, u)) /\ Cardinality(Against(t, u)) \in Nat
        /\ Cardinality(Against(t, u)') \in Nat
        /\ IsFiniteSet(Open) /\ Cardinality(Open) \in Nat
    BY TicksFinite
  <2>5. CASE u = s
    <3>1. ahead'[<<t, u>>] = 0
      BY <1>1, <2>1, <2>5
    <3>2. u \in Locked'
      BY <1>3, <1>9, <2>5 DEF Locked, LockedBy
    <3>3. d \notin Against(t, u)'
      BY <1>4, <1>5, <3>2 DEF Against, MaySend
    <3>4. Against(t, u)' \subseteq Open
      BY <1>2, <2>3, SendersOpen
    <3>5. Cardinality(Against(t, u)') + 1 <= Cardinality(Open)
      BY <1>3, <2>4, <3>3, <3>4, CountFewer
    <3>6. Debt(t, u)' <= trouble' + overlaps'
      <4>1. Debt(t, u)' = ahead'[<<t, u>>] + Cardinality(Against(t, u)')
        BY DEF Debt
      <4>2. Cardinality(Open) <= overlaps + 1
        BY <1>2 DEF TicksInv
      <4> QED
        BY <1>1, <1>6, <2>4, <3>1, <3>5, <4>1, <4>2
    <3>7. Debt(t, u)' \in Nat
      <4>1. Debt(t, u)' = ahead'[<<t, u>>] + Cardinality(Against(t, u)')
        BY DEF Debt
      <4> QED
        BY <2>4, <3>1, <4>1
    <3>8. Debt(t, u)' <= 1 + trouble' + overlaps'
      BY <1>1, <1>6, <3>6, <3>7
    <3> QED
      BY <3>1, <3>6, <3>8 DEF InTurn
  <2>6. CASE u # s
    <3>1. \A e \in Dispatchers : u \in tick'[e].sent =>
             u \in tick[e].sent /\ u \in Locked
      <4>1. ASSUME NEW e \in Dispatchers, u \in tick'[e].sent PROVE u \in tick[e].sent
        BY <4>1, <1>4, <1>5, <2>6
      <4> QED
        BY <4>1, <1>2 DEF TicksInv, Locked, LockedBy
    <3>2. \A e \in Dispatchers : u \in tick'[e].sent => ahead'[<<t, u>>] = 0
      BY <1>1, <2>1, <2>6, <3>1 DEF InTurn
    <3>3. Debt(t, u)' \in Nat /\ Debt(t, u) \in Nat /\ Debt(t, u)' <= Debt(t, u)
      <4>1. CASE t = s /\ u \notin Locked
        <5>1. ahead[<<t, u>>] \in Nat /\ ahead'[<<t, u>>] = ahead[<<t, u>>] + 1
          BY <1>1, <1>2, <2>1, <2>6, <4>1 DEF SchedulerTypeInv
        <5>2. d \in Against(t, u)
          BY <1>1, <4>1 DEF Against, MaySend
        <5>3. d \notin Against(t, u)'
          BY <1>4, <1>5, <4>1 DEF Against, MaySend, Unsent
        <5>4. Cardinality(Against(t, u)') + 1 <= Cardinality(Against(t, u))
          BY <2>3, <2>4, <5>2, <5>3, CountFewer
        <5>5. /\ Debt(t, u) = ahead[<<t, u>>] + Cardinality(Against(t, u))
              /\ Debt(t, u)' = ahead'[<<t, u>>] + Cardinality(Against(t, u)')
          BY DEF Debt
        <5> HIDE DEF Debt
        <5> QED
          BY <2>4, <5>1, <5>4, <5>5
      <4>2. CASE ~(t = s /\ u \notin Locked)
        <5>1. ahead'[<<t, u>>] = ahead[<<t, u>>]
          BY <1>1, <2>1, <2>6, <4>2
        <5> QED
          BY <1>2, <2>1, <2>3, <5>1, DebtMoves
      <4> QED
        BY <4>1, <4>2
    <3>4. Debt(t, u)' <= 1 + trouble' + overlaps'
      <4>1. Debt(t, u) <= 1 + trouble + overlaps
        BY <2>1 DEF InTurn
      <4> QED
        BY <1>1, <1>6, <3>3, <4>1
    <3>5. ASSUME NotLater(t, u)', \A e \in Dispatchers : ~Prefers(e, t, u)'
          PROVE  Debt(t, u)' <= trouble' + overlaps'
      <4>1. NotLater(t, u) /\ \A e \in Dispatchers : ~Prefers(e, t, u)
        BY <1>1, <2>2, <3>5 DEF NotLater
      <4>2. Debt(t, u) <= trouble + overlaps
        BY <2>1, <4>1 DEF InTurn
      <4> QED
        BY <1>1, <1>6, <3>3, <4>2
    <3>6. ASSUME NEW e \in Open', tick'[e].began <= refine_last_run_at'[u]
          PROVE  Debt(t, u)' <= trouble' + overlaps'
      <4>1. e \in Open /\ tick[e].began <= refine_last_run_at[u]
        BY <3>6, <1>1, <1>4, <1>5, <1>9 DEF Open
      <4>2. Debt(t, u) <= trouble + overlaps
        BY <2>1, <4>1 DEF InTurn
      <4> QED
        BY <1>1, <1>6, <3>3, <4>2
    <3> QED
      BY <3>2, <3>4, <3>5, <3>6 DEF InTurn
  <2> QED
    BY <2>5, <2>6
<1>12. RotationInv'
  BY <1>1, <1>11 DEF RotationInv
<1> QED
  BY <1>7, <1>8, <1>12 DEF SchedulerInv

\* A tick ends, by its commit or its death.
LEMMA TickEnds ==
    ASSUME SchedulerTypeInv, TicksInv, NEW d \in Dispatchers, tick[d].step # "idle",
           tick' = [tick EXCEPT ![d] = NoTick],
           refine_enabled' = refine_enabled, clock' = clock, overlaps' = overlaps,
           ahead' = ahead, trouble' \in Nat,
           refine_last_run_at' \in [Tenants -> Nat],
           \A t \in Tenants : refine_last_run_at'[t] <= clock
    PROVE  /\ SchedulerTypeInv' /\ TicksInv'
           /\ tick'[d] = NoTick /\ \A e \in Dispatchers \ {d} : tick'[e] = tick[e]
           /\ d \in Open /\ Open' = Open \ {d}
           /\ Cardinality(Open') \in Nat /\ Cardinality(Open') <= overlaps'
<1>1. tick'[d] = NoTick /\ \A e \in Dispatchers \ {d} : tick'[e] = tick[e]
  BY DEF SchedulerTypeInv
<1>2. d \in Open /\ Open' = Open \ {d}
  BY <1>1, NoTickTyped DEF Open
<1>3. overlaps \in Nat /\ clock \in Nat
  BY DEF SchedulerTypeInv
<1>4. SchedulerTypeInv'
  <2>1. tick' \in [Dispatchers -> Tick]
    BY NoTickTyped DEF SchedulerTypeInv
  <2> QED
    BY <2>1 DEF SchedulerTypeInv
<1>5. Cardinality(Open') <= overlaps' + 1 /\ Cardinality(Open') <= overlaps'
  <2>1. overlaps <= overlaps'
    BY <1>3
  <2> QED
    BY <1>2, <1>3, <2>1, NoTickTyped, OpenCount
<1>6. clock' \in Nat /\ clock <= clock' /\ NoTick.began <= clock'
  BY <1>3, NoTickTyped
<1>7. TicksInv'
  <2>1. /\ NoTick.step \notin {"send", "lock"} /\ NoTick.sent \subseteq NoTick.picked
        /\ \A e \in Dispatchers \ {d} : NoTick.picked \cap LockedBy(e) = {}
    BY NoTickTyped
  <2> QED
    BY <1>5, <1>6, <2>1, NoTickTyped, TicksKept
<1>8. Cardinality(Open') \in Nat
  BY TicksFinite
<1> QED
  BY <1>1, <1>2, <1>4, <1>5, <1>7, <1>8

\* The commit of a tick: those it stamped have been sent, and a tenant it leaves
\* in front of one it did not stamp is in front because another tick, which it
\* overlapped, had stamped that one before.
LEMMA MarkKeeps ==
    ASSUME SchedulerInv, NEW d \in Dispatchers, mark_refine_dispatched(d)
    PROVE  SchedulerInv'
<1>1. /\ tick[d].step = "send" /\ Unsent(d) = {}
      /\ refine_last_run_at' = [t \in Tenants |->
            IF t \in LockedBy(d) THEN tick[d].began ELSE refine_last_run_at[t]]
      /\ tick' = [tick EXCEPT ![d] = NoTick]
      /\ refine_enabled' = refine_enabled /\ clock' = clock /\ ahead' = ahead
      /\ overlaps' = overlaps /\ trouble' = trouble
  BY DEF mark_refine_dispatched, AllSent
<1>2. SchedulerTypeInv /\ TicksInv /\ RotationInv
  BY DEF SchedulerInv
<1>3. overlaps \in Nat /\ trouble \in Nat /\ clock \in Nat
      /\ tick[d].began \in Nat /\ tick[d].began <= clock
  BY <1>2 DEF SchedulerTypeInv, TicksInv, Tick
<1>4. /\ refine_last_run_at' \in [Tenants -> Nat]
      /\ \A t \in Tenants : refine_last_run_at'[t] <= clock
  BY <1>1, <1>2, <1>3 DEF SchedulerTypeInv, TicksInv
<1>5. /\ SchedulerTypeInv' /\ TicksInv'
      /\ tick'[d] = NoTick /\ \A e \in Dispatchers \ {d} : tick'[e] = tick[e]
      /\ d \in Open /\ Open' = Open \ {d}
      /\ Cardinality(Open') \in Nat /\ Cardinality(Open') <= overlaps'
  BY <1>1, <1>2, <1>3, <1>4, TickEnds
<1>6. ASSUME NEW t \in Tenants, NEW u \in refine_enabled
      PROVE  InTurn(t, u)'
  <2>1. InTurn(t, u) /\ u \in Tenants
    BY <1>2 DEF RotationInv, SchedulerTypeInv
  <2>2. \A e \in Dispatchers : u \in tick'[e].sent => ahead'[<<t, u>>] = 0
    <3>1. ASSUME NEW e \in Dispatchers, u \in tick'[e].sent PROVE ahead'[<<t, u>>] = 0
      <4>1. e # d
        BY <3>1, <1>5, NoTickTyped
      <4> QED
        BY <3>1, <4>1, <1>1, <1>5, <2>1 DEF InTurn
    <3> QED
      BY <3>1
  <2>3. CASE u \in LockedBy(d)
    <3>1. ahead'[<<t, u>>] = 0
      BY <1>1, <2>1, <2>3 DEF InTurn, LockedBy, Unsent
    <3>2. Against(t, u)' \subseteq Open'
      <4>1. ASSUME NEW e \in Dispatchers, MaySend(e, t, u)' PROVE tick'[e].step # "idle"
        BY <4>1, <1>5 DEF MaySend, TicksInv, Unsent
      <4> QED
        BY <4>1 DEF Against, Open
    <3>3. Cardinality(Against(t, u)') <= Cardinality(Open')
          /\ Cardinality(Against(t, u)') \in Nat
      BY <3>2, TicksFinite, CountFewer
    <3>4. Debt(t, u)' \in Nat /\ Debt(t, u)' <= trouble' + overlaps'
      <4>1. Debt(t, u)' = ahead'[<<t, u>>] + Cardinality(Against(t, u)')
        BY DEF Debt
      <4> QED
        BY <1>1, <1>3, <1>5, <3>1, <3>3, <4>1
    <3>5. Debt(t, u)' <= 1 + trouble' + overlaps'
      BY <1>1, <1>3, <3>4
    <3> QED
      BY <2>2, <3>4, <3>5 DEF InTurn
  <2>4. CASE u \notin LockedBy(d)
    <3>1. refine_last_run_at'[u] = refine_last_run_at[u]
      BY <1>1, <2>1, <2>4
    <3>2. u \in Locked' <=> u \in Locked
      <4>1. LockedBy(d)' = {} /\ \A e \in Dispatchers \ {d} : LockedBy(e)' = LockedBy(e)
        BY <1>5, NoTickTyped DEF LockedBy
      <4> QED
        BY <2>4, <4>1 DEF Locked
    <3>3. Against(t, u)' \subseteq Against(t, u)
      <4>1. ASSUME NEW e \in Dispatchers, MaySend(e, t, u)' PROVE MaySend(e, t, u)
        <5>1. e # d
          BY <4>1, <1>5, NoTickTyped DEF MaySend, Unsent
        <5> QED
          BY <4>1, <5>1, <1>5, <3>2 DEF MaySend, Unsent
      <4> QED
        BY <4>1 DEF Against
    <3>4. Debt(t, u) \in Nat /\ Debt(t, u)' \in Nat /\ Debt(t, u)' <= Debt(t, u)
      BY <1>1, <1>2, <2>1, <3>3, DebtMoves
    <3>5. Debt(t, u)' <= 1 + trouble' + overlaps'
      <4>1. Debt(t, u) <= 1 + trouble + overlaps
        BY <2>1 DEF InTurn
      <4> QED
        BY <1>1, <1>3, <3>4, <4>1
    <3>6. ASSUME NotLater(t, u)', \A e \in Dispatchers : ~Prefers(e, t, u)'
          PROVE  Debt(t, u)' <= trouble' + overlaps'
      <4>1. CASE t \in LockedBy(d)
        <5>1. tick[d].began <= refine_last_run_at[u]
          BY <4>1, <3>1, <3>6, <1>1 DEF NotLater
        <5>2. Debt(t, u) <= trouble + overlaps
          BY <2>1, <5>1, <1>5 DEF InTurn
        <5> QED
          BY <1>1, <1>3, <3>4, <5>2
      <4>2. CASE t \notin LockedBy(d)
        <5>1. NotLater(t, u)
          BY <4>2, <3>1, <3>6, <1>1 DEF NotLater
        <5>2. ASSUME NEW e \in Dispatchers PROVE ~Prefers(e, t, u)
          <6>1. CASE e = d
            BY <6>1, <4>2, <1>1 DEF Prefers, LockedBy
          <6>2. CASE e # d
            BY <6>2, <3>6, <1>5 DEF Prefers
          <6> QED
            BY <6>1, <6>2
        <5>3. Debt(t, u) <= trouble + overlaps
          BY <2>1, <5>1, <5>2 DEF InTurn
        <5> QED
          BY <1>1, <1>3, <3>4, <5>3
      <4> QED
        BY <4>1, <4>2
    <3>7. ASSUME NEW e \in Open', tick'[e].began <= refine_last_run_at'[u]
          PROVE  Debt(t, u)' <= trouble' + overlaps'
      <4>1. e \in Open /\ tick[e].began <= refine_last_run_at[u]
        BY <3>1, <3>7, <1>5 DEF Open
      <4>2. Debt(t, u) <= trouble + overlaps
        BY <2>1, <4>1 DEF InTurn
      <4> QED
        BY <1>1, <1>3, <3>4, <4>2
    <3> QED
      BY <2>2, <3>5, <3>6, <3>7 DEF InTurn
  <2> QED
    BY <2>3, <2>4
<1>7. RotationInv'
  BY <1>1, <1>6 DEF RotationInv
<1> QED
  BY <1>5, <1>7 DEF SchedulerInv

\* A dispatcher dies: a tick that has taken t may now send it against a tenant
\* that was locked, but only one tick has t.
LEMMA DispatcherDiesKeeps ==
    ASSUME SchedulerInv, NEW d \in Dispatchers, DispatcherDies(d)
    PROVE  SchedulerInv'
<1>1. /\ tick[d] # NoTick /\ trouble' = trouble + 1
      /\ tick' = [tick EXCEPT ![d] = NoTick]
      /\ refine_enabled' = refine_enabled /\ refine_last_run_at' = refine_last_run_at
      /\ clock' = clock /\ ahead' = ahead /\ overlaps' = overlaps
  BY DEF DispatcherDies, Trouble
<1>2. SchedulerTypeInv /\ TicksInv /\ RotationInv
  BY DEF SchedulerInv
<1>3. overlaps \in Nat /\ trouble \in Nat /\ clock \in Nat /\ trouble' \in Nat
      /\ tick[d].step # "idle"
  BY <1>1, <1>2 DEF SchedulerTypeInv, TicksInv
<1>4. /\ SchedulerTypeInv' /\ TicksInv'
      /\ tick'[d] = NoTick /\ \A e \in Dispatchers \ {d} : tick'[e] = tick[e]
      /\ d \in Open /\ Open' = Open \ {d}
  <2>1. /\ refine_last_run_at' \in [Tenants -> Nat]
        /\ \A t \in Tenants : refine_last_run_at'[t] <= clock
    BY <1>1, <1>2 DEF SchedulerTypeInv, TicksInv
  <2> QED
    BY <1>1, <1>2, <1>3, <2>1, TickEnds
<1>5. ASSUME NEW t \in Tenants, NEW u \in refine_enabled
      PROVE  InTurn(t, u)'
  <2>1. InTurn(t, u) /\ u \in Tenants
    BY <1>2 DEF RotationInv, SchedulerTypeInv
  <2>2. \A e \in Dispatchers : u \in tick'[e].sent => ahead'[<<t, u>>] = 0
    <3>1. ASSUME NEW e \in Dispatchers, u \in tick'[e].sent PROVE ahead'[<<t, u>>] = 0
      <4>1. e # d
        BY <3>1, <1>4, NoTickTyped
      <4> QED
        BY <3>1, <4>1, <1>1, <1>4, <2>1 DEF InTurn
    <3> QED
      BY <3>1
  <2>3. ASSUME NEW e \in Dispatchers, MaySend(e, t, u)', ~MaySend(e, t, u)
        PROVE  t \in LockedBy(e)
    <3>1. e # d
      BY <2>3, <1>4, NoTickTyped DEF MaySend, Unsent
    <3> QED
      BY <2>3, <3>1, <1>4 DEF MaySend, Unsent, LockedBy
  <2>4. \E x : Against(t, u)' \subseteq Against(t, u) \cup {x}
    <3>1. CASE \A e \in Dispatchers : MaySend(e, t, u)' => MaySend(e, t, u)
      BY <3>1 DEF Against
    <3>2. ASSUME NEW x \in Dispatchers, MaySend(x, t, u)', ~MaySend(x, t, u)
          PROVE  Against(t, u)' \subseteq Against(t, u) \cup {x}
      <4>1. t \in LockedBy(x)
        BY <2>3, <3>2
      <4>2. ASSUME NEW e \in Dispatchers, e # x, MaySend(e, t, u)' PROVE MaySend(e, t, u)
        BY <2>3, <4>1, <4>2, <1>2 DEF TicksInv
      <4> QED
        BY <4>2 DEF Against
    <3> QED
      BY <3>1, <3>2
  <2>5. Debt(t, u) \in Nat /\ Debt(t, u)' \in Nat /\ Debt(t, u)' <= Debt(t, u) + 1
    BY <1>1, <1>2, <2>1, <2>4, DebtMoves
  <2>6. Debt(t, u) <= 1 + trouble + overlaps
    BY <2>1 DEF InTurn
  <2>7. Debt(t, u)' <= 1 + trouble' + overlaps'
    BY <1>1, <1>3, <2>5, <2>6
  <2>8. ASSUME \A e \in Dispatchers : ~Prefers(e, t, u)'
        PROVE  Debt(t, u)' <= trouble' + overlaps'
    <3>1. \A e \in Dispatchers : ~MaySend(e, t, u)'
      BY <2>8 DEF Prefers, MaySend, Unsent, Locked, LockedBy
    <3>2. Against(t, u)' \subseteq Against(t, u) /\ Against(t, u)' = {}
      BY <3>1 DEF Against
    <3>3. Debt(t, u)' <= Debt(t, u)
      BY <1>1, <1>2, <2>1, <3>2, DebtMoves
    <3> QED
      BY <1>1, <1>3, <2>5, <2>6, <3>3
  <2>9. ASSUME NEW e \in Open', tick'[e].began <= refine_last_run_at'[u]
        PROVE  Debt(t, u)' <= trouble' + overlaps'
    <3>1. e \in Open /\ tick[e].began <= refine_last_run_at[u]
      BY <2>9, <1>1, <1>4 DEF Open
    <3>2. Debt(t, u) <= trouble + overlaps
      BY <2>1, <3>1 DEF InTurn
    <3> QED
      BY <1>1, <1>3, <2>5, <3>2
  <2> QED
    BY <2>2, <2>7, <2>8, <2>9 DEF InTurn
<1>6. RotationInv'
  BY <1>1, <1>5 DEF RotationInv
<1> QED
  BY <1>4, <1>6 DEF SchedulerInv

\* Anything else that goes wrong, an opt-out among it.
LEMMA TroubleKeeps ==
    ASSUME SchedulerInv, refine_enabled' \subseteq refine_enabled,
           trouble' = trouble \/ trouble' = trouble + 1,
           UNCHANGED <<refine_last_run_at, tick, clock, ahead, overlaps>>
    PROVE  SchedulerInv'
<1>1. SchedulerTypeInv /\ TicksInv /\ RotationInv
  BY DEF SchedulerInv
<1>2. SchedulerTypeInv'
  BY <1>1 DEF SchedulerTypeInv
<1>3. Open' = Open /\ \A d \in Dispatchers : LockedBy(d)' = LockedBy(d)
  BY DEF Open, LockedBy
<1>4. TicksInv'
  BY <1>1, <1>3 DEF TicksInv
<1>5. ASSUME NEW t \in Tenants, NEW u \in refine_enabled'
      PROVE  InTurn(t, u)'
  <2>1. InTurn(t, u) /\ u \in Tenants
    BY <1>1 DEF RotationInv, SchedulerTypeInv
  <2>2. Debt(t, u)' = Debt(t, u) /\ \A d \in Dispatchers : Prefers(d, t, u)' = Prefers(d, t, u)
    BY DEF Debt, Against, MaySend, Prefers, Unsent, Locked, LockedBy
  <2>3. /\ Debt(t, u) \in Nat /\ trouble \in Nat /\ overlaps \in Nat
        /\ NotLater(t, u)' = NotLater(t, u)
    BY <1>1, <2>1, DebtMoves DEF SchedulerTypeInv, NotLater
  <2>4. trouble <= trouble' /\ trouble' \in Nat
    BY <2>3
  <2>5. /\ \A d \in Dispatchers : u \in tick'[d].sent => ahead'[<<t, u>>] = 0
        /\ Debt(t, u) <= 1 + trouble + overlaps
        /\ NotLater(t, u) /\ (\A d \in Dispatchers : ~Prefers(d, t, u)) =>
              Debt(t, u) <= trouble + overlaps
        /\ (\E d \in Open : tick[d].began <= refine_last_run_at[u]) =>
              Debt(t, u) <= trouble + overlaps
    BY <2>1 DEF InTurn
  <2>6. /\ Debt(t, u)' <= 1 + trouble' + overlaps'
        /\ Debt(t, u) <= trouble + overlaps => Debt(t, u)' <= trouble' + overlaps'
    BY <2>2, <2>3, <2>4, <2>5
  <2> QED
    BY <1>3, <2>2, <2>3, <2>5, <2>6 DEF InTurn
<1>6. RotationInv'
  BY <1>5 DEF RotationInv
<1> QED
  BY <1>2, <1>4, <1>6 DEF SchedulerInv

LEMMA SchedulerInitially == SchedulerInit => SchedulerInv
<1> SUFFICES ASSUME SchedulerInit PROVE SchedulerInv
  OBVIOUS
<1>1. /\ refine_enabled = Tenants /\ refine_last_run_at = [t \in Tenants |-> 0]
      /\ tick = [d \in Dispatchers |-> NoTick]
      /\ clock = 0 /\ overlaps = 0 /\ trouble = 0
      /\ ahead = [p \in Tenants \X Tenants |-> 0]
  BY DEF SchedulerInit
<1>2. SchedulerTypeInv
  BY <1>1, NoTickTyped DEF SchedulerTypeInv
<1>3. \A d \in Dispatchers : tick[d] = NoTick
  BY <1>1
<1>4. Open = {} /\ Cardinality(Open) = 0
  BY <1>3, NoTickTyped, FS_EmptySet DEF Open
<1>5. TicksInv
  BY <1>1, <1>3, <1>4, NoTickTyped DEF TicksInv, LockedBy
<1>6. ASSUME NEW t \in Tenants, NEW u \in Tenants PROVE InTurn(t, u)
  <2>1. Against(t, u) = {}
    BY <1>3, NoTickTyped DEF Against, MaySend, Unsent
  <2>2. Debt(t, u) = 0
    BY <1>1, <2>1, FS_EmptySet DEF Debt
  <2> QED
    BY <1>1, <1>4, <2>2 DEF InTurn
<1>7. RotationInv
  BY <1>1, <1>6 DEF RotationInv
<1> QED
  BY <1>2, <1>5, <1>7 DEF SchedulerInv

-----------------------------------------------------------------------------
(* Theorems *)

LEMMA NextKeeps == ASSUME RefineInv, [Next]_vars PROVE RefineInv'
<1>1. CASE insert_refine_job
  BY <1>1, EnqueueKeeps DEF insert_refine_job
<1>2. CASE StoreDuplicate \/ ForgetDuplicate
  BY <1>2, OthersKeep DEF StoreDuplicate, ForgetDuplicate
<1>3. CASE UNCHANGED pipelineVars
  BY <1>3, OthersKeep DEF pipelineVars, RefineInv, TypeInv
<1>4. ASSUME NEW d \in Dispatchers, NEW t \in Tenants, Dispatch(d, t)
      PROVE  RefineInv'
  BY <1>3, <1>4, EnqueueKeeps DEF Dispatch
<1>5. ASSUME NEW w \in Workers, RunStep(w)
      PROVE  RefineInv'
  BY <1>5, BeginKeeps, DedupeKeeps, TargetsKeep, ProposeKeeps, EndInferKeeps, HashLookupKeeps, SummaryKeeps,
     ReweightKeeps, EndReweightKeeps, FailuresKeep, PruneKeeps DEF RunStep
<1>6. ASSUME NEW w \in Workers, RunFails(w)
      PROVE  RefineInv'
  BY <1>6, FailuresKeep
<1>7. CASE UNCHANGED vars
  BY <1>3, <1>7 DEF vars
<1> QED
  BY <1>1, <1>2, <1>3, <1>4, <1>5, <1>6, <1>7 DEF Next

\* The refine runs of a tenant keep the invariant, whatever runs, jobs, edges
\* and feedback there are, however runs overlap, fail, deadlock and are repeated.
THEOREM RefineHolds == Spec => []RefineInv
<1>1. Init => RefineInv
  BY Initially
<1>2. RefineInv /\ [Next]_vars => RefineInv'
  BY NextKeeps
<1> QED
  BY <1>1, <1>2, PTL DEF Spec

\* Each completed run has moved the weight of every edge by its feedback, once,
\* and no other run has, though runs overlap: an UPDATE waits for the row and
\* computes from what it then finds; and an edge is pruned only by its weight.
THEOREM FeedbackCounts == Spec => []FeedbackCountsPerRun
<1>1. RefineInv => FeedbackCountsPerRun
  BY DEF RefineInv, WeightsInv, FeedbackCountsPerRun, Expected
<1> QED
  BY <1>1, RefineHolds, PTL

\* As long as no two runs of the tenant overlap, a cluster has one summary for
\* one set of members, and a memory gets one edge to another: one in each
\* direction is all a pair of memories can have.
THEOREM ClustersSummarizedOnce == Spec => []SummarizedOnce
<1>1. RefineInv => SummarizedOnce
  BY DEF RefineInv, OnceInv, SummarizedOnce
<1> QED
  BY <1>1, RefineHolds, PTL

\* No tenant is sent twice ahead of one that waits, but for ticks that die or
\* overlap, with any number of tenants, dispatchers and ticks: each tick that
\* may yet do so is paid for by an overlap, a death or the one that is allowed.
THEOREM TenantsRotate == Spec => []Rotation
<1>1. Init => SchedulerInv
  BY SchedulerInitially DEF Init
<1>2. ASSUME SchedulerInv, [Next]_vars PROVE SchedulerInv'
  <2>1. CASE UNCHANGED schedulerVars
    BY <1>2, <2>1, TroubleKeeps DEF schedulerVars
  <2>2. CASE StoreDuplicate
    BY <1>2, <2>2, TroubleKeeps DEF StoreDuplicate, Trouble
  <2>3. ASSUME NEW t \in Tenants, OptOut(t) PROVE SchedulerInv'
    <3>1. refine_enabled' \subseteq refine_enabled /\ trouble' = trouble + 1
          /\ UNCHANGED <<refine_last_run_at, tick, clock, ahead, overlaps>>
      BY <2>3 DEF OptOut, Trouble
    <3> QED
      BY <1>2, <3>1, TroubleKeeps
  <2>4. ASSUME NEW d \in Dispatchers, SchedulerStep(d) PROVE SchedulerInv'
    BY <1>2, <2>4, BeginTickKeeps, PickKeeps, MarkKeeps, DispatcherDiesKeeps DEF SchedulerStep
  <2>5. ASSUME NEW d \in Dispatchers, NEW t \in Tenants, Dispatch(d, t) PROVE SchedulerInv'
    BY <1>2, <2>5, SendKeeps DEF Dispatch
  <2>6. ASSUME NEW w \in Workers, RunFails(w) PROVE SchedulerInv'
    BY <1>2, <2>6, TroubleKeeps DEF RunFails, Trouble
  <2>7. CASE insert_refine_job \/ ForgetDuplicate \/ UNCHANGED vars
    BY <2>1, <2>7 DEF insert_refine_job, ForgetDuplicate, vars
  <2> QED
    BY <1>2, <2>1, <2>2, <2>3, <2>4, <2>5, <2>6, <2>7 DEF Next
<1>3. ASSUME SchedulerInv PROVE Rotation
  <2>1. ASSUME NEW t \in Tenants, NEW u \in refine_enabled
        PROVE  ahead[<<t, u>>] <= 1 + trouble + overlaps
    <3>1. Debt(t, u) <= 1 + trouble + overlaps /\ u \in Tenants
      BY <1>3 DEF SchedulerInv, RotationInv, InTurn, SchedulerTypeInv
    <3>2. /\ ahead[<<t, u>>] \in Nat /\ trouble \in Nat /\ overlaps \in Nat
          /\ Cardinality(Against(t, u)) \in Nat
      BY <1>3, <3>1, TicksFinite DEF SchedulerInv, SchedulerTypeInv
    <3>3. Debt(t, u) = ahead[<<t, u>>] + Cardinality(Against(t, u))
      BY DEF Debt
    <3> QED
      BY <3>1, <3>2, <3>3
  <2> QED
    BY <2>1 DEF Rotation
<1>4. SchedulerInv /\ [Next]_vars => SchedulerInv'
  BY <1>2
<1> QED
  BY <1>1, <1>3, <1>4, PTL DEF Spec
=============================================================================
