---------------------------- MODULE RecordsProofs -----------------------------
(***************************************************************************)
(* Proofs about the parts of Records, for any sessions, drains, recalls,   *)
(* sizes and bounds.  The parts share no state, so each has an invariant   *)
(* of its own.                                                             *)
(***************************************************************************)
EXTENDS Records, FiniteSetTheorems, WellFoundedInduction, TLAPS

-----------------------------------------------------------------------------
(* AUTO's cache *)

Routing == [step : {"idle", "look", "probe", "answer", "delegate"}, strategy : Candidates,
            sampled : Nat, has_corpus : BOOLEAN, age : Nat, waited : Nat]

\* A downgrade on answer q is recent, or no older than its question.
Recent(q) == q.age # 0 => q.age < TtlSeconds \/ q.age <= q.waited

\* A "no" that is cached or on its way was read after the clock was, and the
\* tenant still had no edge when the clock showed that time.
NoWasTrue ==
    /\ \A answer \in cached : ~answer.has_corpus => answer.at <= last_bare
    /\ \A r \in Recalls :
          routing[r].step = "answer" /\ ~routing[r].has_corpus => routing[r].sampled <= last_bare

RouterInv ==
    /\ routing \in [Recalls -> Routing] /\ cached \subseteq [at : Nat, has_corpus : BOOLEAN]
    /\ edges \in BOOLEAN /\ clock \in Nat /\ last_bare \in Nat
    /\ last_bare <= clock /\ (~edges => last_bare = clock)
    /\ \A r \in Recalls : routing[r].step \in {"probe", "answer"} => routing[r].sampled <= clock
    /\ NoWasTrue /\ DowngradeFresh

LEMMA RouterStarts == RouterInit => RouterInv
  BY DEF RouterInit, RouterInv, NoWasTrue, DowngradeFresh, NotRouting, Routing, Candidates

\* Recall r goes on with q.
LEMMA RoutingStep ==
    ASSUME RouterInv, NEW r \in Recalls, NEW q \in Routing, routing' = [routing EXCEPT ![r] = q],
           cached' \subseteq [at : Nat, has_corpus : BOOLEAN],
           \A answer \in cached' : ~answer.has_corpus => answer.at <= last_bare,
           UNCHANGED <<edges, last_bare, clock>>,
           q.step \in {"probe", "answer"} => q.sampled <= clock,
           q.step = "answer" /\ ~q.has_corpus => q.sampled <= last_bare,
           Recent(q)
    PROVE  RouterInv'
  BY DEF RouterInv, NoWasTrue, DowngradeFresh, Recent

LEMMA ClassifyStep == ASSUME RouterInv, NEW r \in Recalls, Classify(r) PROVE RouterInv'
<1>1. PICK chosen \in Candidates :
        routing' = [routing EXCEPT ![r] = [NotRouting EXCEPT
              !.strategy = chosen, !.step = IF chosen \in GraphDependent THEN "look" ELSE "delegate"]]
  BY DEF Classify
<1> DEFINE q == [NotRouting EXCEPT
              !.strategy = chosen, !.step = IF chosen \in GraphDependent THEN "look" ELSE "delegate"]
<1>2. q \in Routing /\ q.step \notin {"probe", "answer"} /\ Recent(q)
  BY DEF NotRouting, Routing, Candidates, Recent
<1> HIDE DEF q
<1> QED
  BY <1>1, <1>2, RoutingStep DEF Classify, RouterInv, NoWasTrue, q

LEMMA LookStep == ASSUME RouterInv, NEW r \in Recalls, LookInCache(r) PROVE RouterInv'
<1>1. routing[r] \in Routing /\ clock \in Nat /\ last_bare \in Nat /\ last_bare <= clock
  BY DEF RouterInv
<1>2. ASSUME NEW answer \in Fresh,
             routing' = [routing EXCEPT ![r].step = "delegate",
                            ![r].strategy = Downgraded(@, answer.has_corpus),
                            ![r].age = Age(answer.has_corpus)]
      PROVE  RouterInv'
  <2> DEFINE age == Age(answer.has_corpus)
             q == [routing[r] EXCEPT !.step = "delegate",
                      !.strategy = Downgraded(@, answer.has_corpus), !.age = age]
  <2>1. answer \in cached /\ clock - answer.at < TtlSeconds /\ answer.at \in Nat
        /\ answer.has_corpus \in BOOLEAN
    BY DEF Fresh, RouterInv
  <2>2. age \in Nat /\ (age # 0 => age < TtlSeconds)
    BY <1>1, <2>1, RouterAssumption DEF RouterInv, NoWasTrue, Age
  <2> HIDE DEF age
  <2>3. Downgraded(routing[r].strategy, answer.has_corpus) \in Candidates
    BY <1>1 DEF Downgraded, Routing, Candidates
  <2>4. q \in Routing /\ q.step = "delegate" /\ q.age = age
    BY <1>1, <2>2, <2>3 DEF Routing
  <2>6. Recent(q)
    BY <2>2, <2>4 DEF Recent
  <2>5. routing' = [routing EXCEPT ![r] = q]
    BY <1>2 DEF RouterInv, age
  <2> HIDE DEF q
  <2> QED
    BY <2>4, <2>5, <2>6, RoutingStep DEF LookInCache, RouterInv, NoWasTrue
<1>3. ASSUME routing' = [routing EXCEPT ![r].step = "probe", ![r].sampled = clock]
      PROVE  RouterInv'
  <2> DEFINE q == [routing[r] EXCEPT !.step = "probe", !.sampled = clock]
  <2>1. q \in Routing /\ q.step = "probe" /\ q.age = routing[r].age /\ q.sampled = clock
        /\ q.waited = routing[r].waited
    BY <1>1 DEF Routing
  <2>2. routing' = [routing EXCEPT ![r] = q]
    BY <1>3 DEF RouterInv
  <2>3. Recent(q)
    BY <2>1 DEF RouterInv, DowngradeFresh, Recent
  <2>4. /\ cached' \subseteq [at : Nat, has_corpus : BOOLEAN]
        /\ \A answer \in cached' : ~answer.has_corpus => answer.at <= last_bare
        /\ UNCHANGED <<edges, last_bare, clock>>
    BY DEF LookInCache, RouterInv, NoWasTrue
  <2>5. q.sampled <= clock
    BY <1>1, <2>1
  <2> HIDE DEF q
  <2> QED
    BY <2>1, <2>2, <2>3, <2>4, <2>5, RoutingStep
<1> QED
  BY <1>2, <1>3 DEF LookInCache

LEMMA ProbeStep == ASSUME RouterInv, NEW r \in Recalls, Probe(r) PROVE RouterInv'
<1>1. /\ routing[r] \in Routing /\ clock \in Nat /\ last_bare \in Nat /\ edges \in BOOLEAN
      /\ routing[r].step = "probe" /\ routing[r].sampled <= clock /\ (~edges => last_bare = clock)
      /\ Recent(routing[r])
  BY DEF RouterInv, Probe, DowngradeFresh, Recent
<1>2. /\ cached' \subseteq [at : Nat, has_corpus : BOOLEAN]
      /\ \A answer \in cached' : ~answer.has_corpus => answer.at <= last_bare
      /\ UNCHANGED <<edges, last_bare, clock>>
  BY DEF Probe, RouterInv, NoWasTrue
<1>3. CASE routing' = [routing EXCEPT ![r].step = "answer", ![r].has_corpus = edges]
  <2> DEFINE q == [routing[r] EXCEPT !.step = "answer", !.has_corpus = edges]
  <2>1. q \in Routing /\ q.step = "answer" /\ q.has_corpus = edges /\ q.age = routing[r].age
        /\ q.sampled = routing[r].sampled /\ routing' = [routing EXCEPT ![r] = q]
    BY <1>1, <1>3 DEF Routing, RouterInv
  <2>3. Recent(q)
    BY <1>1 DEF Recent, Routing
  <2> HIDE DEF q
  <2>2. ~q.has_corpus => q.sampled <= last_bare
    BY <1>1, <2>1
  <2> QED
    BY <1>1, <1>2, <2>1, <2>2, <2>3, RoutingStep
<1>4. CASE routing' = [routing EXCEPT ![r].step = "delegate"]
  <2> DEFINE q == [routing[r] EXCEPT !.step = "delegate"]
  <2>1. q \in Routing /\ q.step = "delegate" /\ q.age = routing[r].age
        /\ routing' = [routing EXCEPT ![r] = q]
    BY <1>1, <1>4 DEF Routing, RouterInv
  <2>2. Recent(q)
    BY <1>1 DEF Recent, Routing
  <2> HIDE DEF q
  <2> QED
    BY <1>1, <1>2, <2>1, <2>2, RoutingStep
<1> QED
  BY <1>3, <1>4 DEF Probe

LEMMA AnswerStep == ASSUME RouterInv, NEW r \in Recalls, Answer(r) PROVE RouterInv'
<1>1. /\ routing[r] \in Routing /\ routing[r].step = "answer" /\ routing[r].sampled <= clock
      /\ ~routing[r].has_corpus => routing[r].sampled <= last_bare
      /\ clock \in Nat /\ last_bare \in Nat /\ last_bare <= clock
  BY DEF RouterInv, Answer, NoWasTrue
<1> DEFINE age == Age(routing[r].has_corpus)
           waited == clock - routing[r].sampled
           q == [routing[r] EXCEPT !.step = "delegate",
                    !.strategy = Downgraded(@, routing[r].has_corpus), !.age = age, !.waited = waited]
<1>2. Downgraded(routing[r].strategy, routing[r].has_corpus) \in Candidates
  BY <1>1 DEF Downgraded, Routing, Candidates
<1>3. age \in Nat /\ waited \in Nat /\ age <= waited
  BY <1>1 DEF Age, Routing
<1>4. routing' = [routing EXCEPT ![r] = q]
  BY DEF Answer, AnswerUsed, RouterInv
<1> HIDE DEF age, waited
<1>5. q \in Routing /\ q.step = "delegate" /\ Recent(q)
  BY <1>1, <1>2, <1>3 DEF Routing, Recent
<1> HIDE DEF q
<1>6. /\ cached' \subseteq [at : Nat, has_corpus : BOOLEAN]
      /\ \A answer \in cached' : ~answer.has_corpus => answer.at <= last_bare
  BY <1>1 DEF Answer, Routing
<1> QED
  BY <1>4, <1>5, <1>6, RoutingStep DEF Answer

LEMMA RouterSteps == RouterInv /\ [RouterNext]_routerVars => RouterInv'
<1> SUFFICES ASSUME RouterInv, [RouterNext]_routerVars PROVE RouterInv'
  OBVIOUS
<1>1. CASE UNCHANGED routerVars
  BY <1>1 DEF routerVars, RouterInv, NoWasTrue, DowngradeFresh
<1>2. ASSUME NEW r \in Recalls, Classify(r) \/ LookInCache(r) \/ Probe(r) \/ Answer(r) PROVE RouterInv'
  BY <1>2, ClassifyStep, LookStep, ProbeStep, AnswerStep
<1>3. CASE EdgesChange
  BY <1>3 DEF EdgesChange, RouterInv, NoWasTrue, DowngradeFresh, Routing
<1>4. CASE Tick
  BY <1>4 DEF Tick, RouterInv, NoWasTrue, DowngradeFresh, Routing
<1> QED
  BY <1>1, <1>2, <1>3, <1>4 DEF RouterNext

-----------------------------------------------------------------------------
(* The verification of provenance *)

Named(n) == (\E p \in queued : p.n = n) \/ (\E r \in logged : r.n = n)

ReadInv ==
    /\ check.step = "look" => Named(check.n)
    /\ VerdictHonest

LEMMA ReadStarts == ReadInit => ReadInv
  BY DEF ReadInit, ReadInv, NoCheck, VerdictHonest

\* Steps that take no entry out of both tables, and leave the check alone.
LEMMA EntriesStay ==
    ASSUME ReadInv, UNCHANGED check, \A n : Named(n) => Named(n)',
           \A r \in logged : r \in logged'
    PROVE  ReadInv'
<1>1. \A n : (\E r \in logged : r.n = n) => (\E r \in logged' : r.n = n)
  OBVIOUS
<1> QED
  BY <1>1 DEF ReadInv, VerdictHonest

LEMMA ReadSteps == ReadInv /\ [ReadNext]_readVars => ReadInv'
<1> SUFFICES ASSUME ReadInv, [ReadNext]_readVars PROVE ReadInv'
  OBVIOUS
<1>1. CASE UNCHANGED <<queued, logged, check>>
  BY <1>1 DEF ReadInv, VerdictHonest, Named
<1>2. ASSUME NEW t \in 0 .. MaxStart, Record(t) PROVE ReadInv'
  BY <1>2, EntriesStay DEF Record, Named
<1>3. ASSUME NEW d \in Drains, CommitDrain(d) PROVE ReadInv'
  <2>1. \A n : Named(n) => Named(n)'
    BY <1>3 DEF CommitDrain, Named
  <2> QED
    BY <1>3, <2>1, EntriesStay DEF CommitDrain
<1>4. ASSUME NEW n \in 1 .. MaxEntries, LookInLog(n) PROVE ReadInv'
  BY <1>4 DEF LookInLog, Entries, ReadInv, VerdictHonest, Named
<1>5. CASE LookInQueue
  BY <1>5 DEF LookInQueue, ReadInv, VerdictHonest, Named
<1>6. ASSUME NEW d \in Drains, NEW k \in 1 .. MaxEntries, BeginDrain(d, k)
      PROVE  UNCHANGED <<queued, logged, check>>
  BY <1>6 DEF BeginDrain
<1>7. ASSUME NEW d \in Drains, RollBackDrain(d) PROVE UNCHANGED <<queued, logged, check>>
  BY <1>7 DEF RollBackDrain
<1>8. ASSUME NEW size \in 1 .. MaxPageSize, StartWalk(size) PROVE UNCHANGED <<queued, logged, check>>
  BY <1>8 DEF StartWalk
<1>9. CASE CountTotal \/ FetchPage \/ FetchBelowCursor
  BY <1>1, <1>9 DEF CountTotal, FetchPage, FetchBelowCursor
<1>10. CASE UNCHANGED readVars
  BY <1>1, <1>10 DEF readVars
<1> QED
  BY <1>1, <1>2, <1>3, <1>4, <1>5, <1>6, <1>7, <1>8, <1>9, <1>10 DEF ReadNext

-----------------------------------------------------------------------------
(* The audit log under its drains *)

Entry == [n : Nat, created_at : Nat]
Row == [id : Nat, n : Nat, created_at : Nat]
EntryOf(r) == [n |-> r.n, created_at |-> r.created_at]

\* The entries are numbered; what is being drained is queued, and is to get ids
\* beyond those in the log.
LedgerInv ==
    /\ queued \subseteq Entry /\ logged \subseteq Row /\ last_id \in Nat
    /\ drain \in [Drains -> SUBSET Row]
    /\ IsFiniteSet(Entries) /\ IsFiniteSet(logged) /\ \A d \in Drains : IsFiniteSet(drain[d])
    /\ \A e \in Entries : e.n <= Cardinality(Entries)
    /\ \A e, f \in Entries : e.n = f.n => e = f
    /\ \A r \in logged : r.id <= last_id
    /\ \A r, q \in logged : r.id = q.id => r = q
    /\ \A d, e \in Drains : drain[d] # {} /\ drain[e] # {} => d = e
    /\ \A d \in Drains : \A r \in drain[d] :
          /\ EntryOf(r) \in queued
          /\ r.id <= last_id
          /\ \A q \in logged : q.id < r.id
          /\ \A q \in drain[d] : r.id = q.id \/ r.n = q.n => r = q

LEMMA LedgerStarts == ReadInit => LedgerInv
<1> SUFFICES ASSUME ReadInit PROVE LedgerInv
  OBVIOUS
<1>1. Entries = {}
  BY DEF ReadInit, Entries
<1> QED
  BY <1>1, FS_EmptySet DEF ReadInit, LedgerInv

LEMMA RecordStep == ASSUME LedgerInv, NEW t \in 0 .. MaxStart, Record(t) PROVE LedgerInv'
<1> DEFINE N == Cardinality(Entries)
           new == [n |-> N + 1, created_at |-> t]
<1>1. N \in Nat
  BY FS_CardinalityType DEF LedgerInv
<1>2. queued' = queued \cup {new} /\ UNCHANGED <<logged, last_id, drain>>
  BY DEF Record
<1>3. new \in Entry /\ new.n = N + 1
  BY <1>1, ReadAssumption DEF Entry
<1>4. \A e \in Entries : e.n \in Nat
  BY DEF LedgerInv, Entries, Entry, Row
<1>5. \A e \in Entries : e.n # N + 1 /\ e.n <= N + 1
  BY <1>1, <1>4 DEF LedgerInv
<1> HIDE DEF new
<1>6. Entries' = Entries \cup {new} /\ new \notin Entries
  BY <1>2, <1>3, <1>5 DEF Entries
<1>7. IsFiniteSet(Entries') /\ Cardinality(Entries') = N + 1
  BY <1>6, FS_AddElement DEF LedgerInv
<1>8. \A e, f \in Entries' : e.n = f.n => e = f
  BY <1>3, <1>5, <1>6 DEF LedgerInv
<1>9. \A e \in Entries' : e.n <= Cardinality(Entries')
  BY <1>1, <1>3, <1>5, <1>6, <1>7
<1> QED
  BY <1>2, <1>3, <1>7, <1>8, <1>9 DEF LedgerInv

\* The entries of a drain get ids of their own, beyond all that were given.
LEMMA BeginStep ==
    ASSUME LedgerInv, NEW d \in Drains, NEW k \in 1 .. MaxEntries, BeginDrain(d, k) PROVE LedgerInv'
<1> DEFINE waiting == {p \in queued : \A e \in Drains : \A r \in drain[e] : r.n # p.n}
           oldest  == {p \in waiting : Cardinality({q \in waiting : q.n < p.n}) < k}
           upto(p) == {q \in oldest : q.n <= p.n}
           RowOf(p) == [id |-> last_id + Cardinality(upto(p)), n |-> p.n, created_at |-> p.created_at]
           rows == {RowOf(p) : p \in oldest}
<1>1. /\ Cardinality(oldest) = k /\ drain' = [drain EXCEPT ![d] = rows] /\ last_id' = last_id + k
      /\ UNCHANGED <<queued, logged>> /\ \A e \in Drains : drain[e] = {}
  BY DEF BeginDrain, DrainLockFree
<1>2. oldest \subseteq queued /\ queued \subseteq Entries /\ queued \subseteq Entry
  BY DEF Entries, LedgerInv
<1>3. IsFiniteSet(oldest) /\ k \in Nat /\ last_id \in Nat
  <2> HIDE DEF oldest
  <2> QED
    BY <1>2, FS_Subset, ReadAssumption DEF LedgerInv
<1> HIDE DEF oldest
<1>4. ASSUME NEW p \in oldest
      PROVE  IsFiniteSet(upto(p)) /\ Cardinality(upto(p)) \in Nat /\ Cardinality(upto(p)) <= k
  <2>1. upto(p) \subseteq oldest
    OBVIOUS
  <2> HIDE DEF upto
  <2> QED
    BY <1>1, <1>3, <2>1, FS_Subset, FS_CardinalityType
<1>5. ASSUME NEW p \in oldest PROVE Cardinality(upto(p)) # 0
  <2>1. p \in upto(p)
    BY <1>2 DEF Entry
  <2> HIDE DEF upto
  <2> QED
    BY <1>4, <2>1, FS_EmptySet
<1>6. ASSUME NEW p \in oldest, NEW q \in oldest, p.n < q.n
      PROVE  Cardinality(upto(p)) # Cardinality(upto(q))
  <2>1. p.n \in Nat /\ q.n \in Nat /\ \A x \in oldest : x.n \in Nat
    BY <1>2 DEF Entry
  <2>2. upto(p) \subseteq upto(q) /\ q \in upto(q) /\ q \notin upto(p)
    BY <1>6, <2>1
  <2> HIDE DEF upto
  <2> QED
    BY <1>4, <2>2, FS_Subset
<1>7. ASSUME NEW p \in oldest, NEW q \in oldest, RowOf(p).id = RowOf(q).id PROVE p = q
  <2>1. Cardinality(upto(p)) = Cardinality(upto(q))
    <3> HIDE DEF upto
    <3> QED
      BY <1>3, <1>4, <1>7
  <2>2. p.n \in Nat /\ q.n \in Nat
    BY <1>2 DEF Entry
  <2>3. p.n = q.n
    BY <1>6, <2>1, <2>2
  <2> QED
    BY <1>2, <2>3 DEF LedgerInv
<1>8. ASSUME NEW p \in oldest
      PROVE  /\ RowOf(p) \in Row /\ EntryOf(RowOf(p)) = p
             /\ RowOf(p).id <= last_id' /\ \A q \in logged : q.id < RowOf(p).id
  <2>1. EntryOf(RowOf(p)) = p
    BY <1>2 DEF EntryOf, Entry
  <2> HIDE DEF upto
  <2>2. RowOf(p) \in Row
    BY <1>2, <1>3, <1>4 DEF Row, Entry
  <2>3. RowOf(p).id <= last_id' /\ \A q \in logged : q.id < RowOf(p).id
    BY <1>1, <1>3, <1>4, <1>5 DEF LedgerInv, Row
  <2> QED
    BY <2>1, <2>2, <2>3
<1> HIDE DEF RowOf
<1>9. IsFiniteSet(rows)
  <2>1. [p \in oldest |-> RowOf(p)] \in Surjection(oldest, rows)
    BY DEF Surjection
  <2> QED
    BY <1>3, <2>1, FS_Surjection
<1>10. \A e \in Drains : drain'[e] = IF e = d THEN rows ELSE {}
  BY <1>1 DEF LedgerInv
<1>11. \A r \in rows : /\ r \in Row /\ EntryOf(r) \in queued' /\ r.id <= last_id'
                       /\ \A q \in logged' : q.id < r.id
                       /\ \A q \in rows : r.id = q.id \/ r.n = q.n => r = q
  <2>1. \A p, q \in oldest : p.n = q.n => p = q
    BY <1>2 DEF LedgerInv
  <2>2. \A p \in oldest : RowOf(p).n = p.n
    BY <1>8 DEF EntryOf
  <2> QED
    BY <1>1, <1>2, <1>7, <1>8, <2>1, <2>2
<1>12. drain' \in [Drains -> SUBSET Row]
  BY <1>1, <1>11 DEF LedgerInv
<1> HIDE DEF rows
<1>13. Entries' = Entries
  BY <1>1 DEF Entries
<1>14. last_id' \in Nat /\ \A r \in logged : r.id <= last_id'
  BY <1>1, <1>3 DEF LedgerInv, Row
<1>15. \A e \in Drains : IsFiniteSet(drain'[e])
  BY <1>9, <1>10, FS_EmptySet
<1> QED
  BY <1>1, <1>10, <1>11, <1>12, <1>13, <1>14, <1>15 DEF LedgerInv

\* A commit moves entries, it makes and loses none.
LEMMA DrainedStep == ASSUME LedgerInv, NEW d \in Drains, CommitDrain(d) PROVE LedgerInv'
<1>1. /\ drain[d] # {} /\ logged' = logged \cup drain[d]
      /\ queued' = {p \in queued : \A r \in drain[d] : r.n # p.n}
      /\ drain' = [drain EXCEPT ![d] = {}] /\ last_id' = last_id
  BY DEF CommitDrain
<1>2. \A r \in drain[d] : EntryOf(r) \in queued /\ EntryOf(r).n = r.n
  BY DEF LedgerInv, EntryOf
<1>3. \A p \in queued, r \in drain[d] : r.n = p.n => p = EntryOf(r)
  BY <1>2 DEF LedgerInv, Entries
<1>4. Entries' = Entries
  <2>1. Entries' \subseteq Entries
    BY <1>1, <1>2 DEF Entries, EntryOf
  <2>2. Entries \subseteq Entries'
    BY <1>1, <1>3 DEF Entries, EntryOf
  <2> QED
    BY <2>1, <2>2
<1>5. \A e \in Drains : drain[e] # {} => e = d
  BY <1>1 DEF LedgerInv
<1>6. \A e \in Drains : drain'[e] = {}
  BY <1>1, <1>5 DEF LedgerInv
<1>7. IsFiniteSet(logged')
  BY <1>1, FS_Union DEF LedgerInv
<1>8. \A r \in logged' : r.id <= last_id'
  BY <1>1 DEF LedgerInv
<1>9. \A r, q \in logged' : r.id = q.id => r = q
  <2>1. \A r \in drain[d], q \in logged : r.id # q.id
    BY DEF LedgerInv, Row
  <2> QED
    BY <1>1, <2>1 DEF LedgerInv
<1>10. drain' \in [Drains -> SUBSET Row] /\ queued' \subseteq Entry /\ logged' \subseteq Row
  BY <1>1 DEF LedgerInv
<1> QED
  BY <1>1, <1>4, <1>6, <1>7, <1>8, <1>9, <1>10, FS_EmptySet DEF LedgerInv

LEMMA GivenUpStep == ASSUME LedgerInv, NEW d \in Drains, RollBackDrain(d) PROVE LedgerInv'
<1>1. drain' = [drain EXCEPT ![d] = {}] /\ UNCHANGED <<queued, logged, last_id>>
  BY DEF RollBackDrain
<1>2. Entries' = Entries
  BY <1>1 DEF Entries
<1> QED
  BY <1>1, <1>2, FS_EmptySet DEF LedgerInv

\* The readers write nothing.
LEMMA LedgerSteps == LedgerInv /\ [ReadNext]_readVars => LedgerInv'
<1> SUFFICES ASSUME LedgerInv, [ReadNext]_readVars PROVE LedgerInv'
  OBVIOUS
<1>1. CASE UNCHANGED <<queued, logged, last_id, drain>>
  <2>1. Entries' = Entries
    BY <1>1 DEF Entries
  <2> QED
    BY <1>1, <2>1 DEF LedgerInv
<1>2. ASSUME NEW size \in 1 .. MaxPageSize, StartWalk(size) PROVE LedgerInv'
  BY <1>1, <1>2 DEF StartWalk
<1>3. CASE CountTotal \/ FetchPage \/ FetchBelowCursor
  BY <1>1, <1>3 DEF CountTotal, FetchPage, FetchBelowCursor
<1>4. ASSUME NEW n \in 1 .. MaxEntries, LookInLog(n) PROVE LedgerInv'
  BY <1>1, <1>4 DEF LookInLog
<1>5. CASE LookInQueue
  BY <1>1, <1>5 DEF LookInQueue
<1>6. CASE UNCHANGED readVars
  BY <1>1, <1>6 DEF readVars
<1> QED
  BY <1>2, <1>3, <1>4, <1>5, <1>6, RecordStep, BeginStep, DrainedStep, GivenUpStep DEF ReadNext

\* A new entry is not in the ledger yet: the ledger's Record.
LEMMA TrailRecords ==
    ASSUME LedgerInv, NEW t \in 0 .. MaxStart, Record(t) PROVE Trail!Record
<1> DEFINE N == Cardinality(Entries)
<1>1. queued \subseteq queued' /\ logged' = logged
      /\ queued' = queued \cup {[n |-> N + 1, created_at |-> t]}
  BY DEF Record
<1>2. \A r \in logged : r.n # N + 1
  <2>1. N \in Nat
    BY FS_CardinalityType DEF LedgerInv
  <2>2. \A r \in logged : EntryOf(r) \in Entries /\ EntryOf(r).n = r.n
    BY DEF Entries, EntryOf
  <2>3. \A e \in Entries : e.n <= N /\ e.n \in Nat
    BY DEF LedgerInv, Entries, Entry, Row
  <2> QED
    BY <2>1, <2>2, <2>3
<1> HIDE DEF N
<1>3. {<<"tenant", p.n>> : p \in queued'} = {<<"tenant", p.n>> : p \in queued} \cup {<<"tenant", N + 1>>}
  <2> DEFINE p == [n |-> N + 1, created_at |-> t]
  <2>1. queued' = queued \cup {p} /\ p.n = N + 1
    BY <1>1
  <2> HIDE DEF p
  <2> QED
    BY <2>1
<1> QED
  BY <1>1, <1>2, <1>3 DEF Trail!Record, Trail!EventsOf

\* A drain's commit is the ledger's Chain: its rows were queued, and go beyond
\* all that is logged.
LEMMA TrailChains ==
    ASSUME LedgerInv, NEW d \in Drains, CommitDrain(d) PROVE Trail!Chain
<1> DEFINE LogAt(r) == [pos |-> r.id, org |-> "tenant", event |-> r.n]
           before == {LogAt(r) : r \in logged}
           after == {LogAt(r) : r \in logged'}
           new == after \ before
<1>1. /\ logged' = logged \cup drain[d]
      /\ queued' = {p \in queued : \A r \in drain[d] : r.n # p.n}
  BY DEF CommitDrain
<1>2. \A r \in drain[d] : /\ r.id \in Nat
                          /\ \E p \in queued : p.n = r.n
                          /\ \A q \in logged : q.id \in Nat /\ q.id < r.id
                          /\ \A q \in drain[d] : r.id = q.id \/ r.n = q.n => r = q
  <2>1. \A r \in drain[d] : EntryOf(r) \in queued /\ EntryOf(r).n = r.n
    BY DEF LedgerInv, EntryOf
  <2>2. \A r \in drain[d] : r.id \in Nat
    BY DEF LedgerInv, Row
  <2>3. \A q \in logged : q.id \in Nat
    BY DEF LedgerInv, Row
  <2> QED
    BY <2>1, <2>2, <2>3 DEF LedgerInv
<1>3. new = {LogAt(r) : r \in drain[d]}
  <2>1. \A r \in drain[d], q \in logged : LogAt(r) # LogAt(q)
    BY <1>2
  <2> QED
    BY <1>1, <2>1
<1>4. before \subseteq after
  BY <1>1
<1>5. Trail!EventsOf(new) = {<<"tenant", r.n>> : r \in drain[d]}
  <2>1. Trail!EventsOf(new) = {<<e.org, e.event>> : e \in new}
    BY DEF Trail!EventsOf
  <2>2. \A r : LogAt(r).org = "tenant" /\ LogAt(r).event = r.n
    OBVIOUS
  <2> HIDE DEF LogAt, new
  <2> QED
    BY <1>3, <2>1, <2>2
<1>6. /\ \A e, f \in new : (e.org = f.org /\ (e.event = f.event \/ e.pos = f.pos)) => e = f
      /\ \A e \in new, f \in before : e.org = f.org => e.pos > f.pos
  BY <1>2, <1>3
<1>7. Trail!EventsOf(new) \subseteq {<<"tenant", p.n>> : p \in queued}
  BY <1>2, <1>5
<1>8. {<<"tenant", p.n>> : p \in queued'} = {<<"tenant", p.n>> : p \in queued} \ Trail!EventsOf(new)
  BY <1>1, <1>5
<1> QED
  BY <1>4, <1>6, <1>7, <1>8 DEF Trail!Chain

\* No other step changes what is queued or logged.
LEMMA TrailSteps ==
    LedgerInv /\ [ReadNext]_readVars => [Trail!LedgerNext]_(Trail!ledgerVars)
<1> SUFFICES ASSUME LedgerInv, [ReadNext]_readVars
             PROVE  Trail!LedgerNext \/ UNCHANGED <<queued, logged>>
  BY DEF Trail!ledgerVars
<1>1. CASE UNCHANGED readVars
  BY <1>1 DEF readVars
<1>2. ASSUME NEW t \in 0 .. MaxStart, Record(t) PROVE Trail!LedgerNext
  BY <1>2, TrailRecords DEF Trail!LedgerNext
<1>3. ASSUME NEW d \in Drains, CommitDrain(d) PROVE Trail!LedgerNext
  BY <1>3, TrailChains DEF Trail!LedgerNext
<1>4. ASSUME NEW d \in Drains, RollBackDrain(d) \/ \E k \in 1 .. MaxEntries : BeginDrain(d, k)
      PROVE  UNCHANGED <<queued, logged>>
  BY <1>4 DEF RollBackDrain, BeginDrain
<1>5. CASE \/ \E size \in 1 .. MaxPageSize : StartWalk(size)
           \/ CountTotal \/ FetchPage \/ FetchBelowCursor
           \/ \E n \in 1 .. MaxEntries : LookInLog(n)
           \/ LookInQueue
  BY <1>5 DEF StartWalk, CountTotal, FetchPage, FetchBelowCursor, LookInLog, LookInQueue
<1> QED
  BY <1>1, <1>2, <1>3, <1>4, <1>5 DEF ReadNext

-----------------------------------------------------------------------------
(* Walks through the log *)

\* A nonempty set of naturals has a least element.
LEMMA NatSetHasMin ==
    ASSUME NEW S \in SUBSET Nat, S # {}
    PROVE  \E x \in S : \A y \in S : x <= y
<1> DEFINE Less == OpToRel(<, Nat)
<1>1. IsWellFoundedOn(Less, Nat)
  BY NatLessThanWellFounded
<1>2. \A x, y \in S : y < x => <<y, x>> \in Less
  BY DEF OpToRel
<1> HIDE DEF Less
<1>3. PICK x \in S : \A y \in S : ~ (<<y, x>> \in Less)
  BY <1>1, WFMin
<1>4. ASSUME NEW y \in S PROVE x <= y
  <2>1. ~(y < x) /\ x \in Nat /\ y \in Nat
    BY <1>2, <1>3
  <2> QED
    BY <2>1
<1> QED
  BY <1>4

\* Rows have a first and, below a cursor, a last one.
LEMMA OldestOf ==
    ASSUME NEW rows \in SUBSET Row, rows # {}
    PROVE  \E r \in rows : \A q \in rows : r.id <= q.id
<1> DEFINE ids == {r.id : r \in rows}
<1>1. ids \in SUBSET Nat /\ ids # {}
  BY DEF Row
<1> HIDE DEF ids
<1>2. PICK x \in ids : \A y \in ids : x <= y
  BY <1>1, NatSetHasMin
<1> QED
  BY <1>2 DEF ids

LEMMA NewestOf ==
    ASSUME NEW rows \in SUBSET Row, rows # {}, NEW cursor \in Nat, \A r \in rows : r.id < cursor
    PROVE  \E r \in rows : \A q \in rows : q.id <= r.id
<1> DEFINE gaps == {cursor - r.id : r \in rows}
<1>1. gaps \in SUBSET Nat /\ gaps # {}
  BY DEF Row
<1> HIDE DEF gaps
<1>2. PICK x \in gaps : \A y \in gaps : x <= y
  BY <1>1, NatSetHasMin
<1>3. PICK r \in rows : x = cursor - r.id
  BY <1>2 DEF gaps
<1>4. ASSUME NEW q \in rows PROVE q.id <= r.id
  <2>1. x <= cursor - q.id
    BY <1>2 DEF gaps
  <2> QED
    BY <1>3, <2>1 DEF Row
<1> QED
  BY <1>4

Older(cursor) == {r \in logged : r.id < cursor}
NewerOf(cursor, r) == {q \in Older(cursor) : q.id > r.id}

LEMMA OlderRows ==
    ASSUME LedgerInv, NEW cursor \in Nat, NEW size \in Nat
    PROVE  /\ OlderThan(cursor, size) =
                {r \in Older(cursor) : Cardinality(NewerOf(cursor, r)) < size}
           /\ OlderThan(cursor, size) \subseteq Older(cursor)
           /\ Older(cursor) \subseteq Row
           /\ IsFiniteSet(Older(cursor)) /\ IsFiniteSet(OlderThan(cursor, size))
           /\ Cardinality(OlderThan(cursor, size)) \in Nat
           /\ \A r : /\ IsFiniteSet(NewerOf(cursor, r)) /\ Cardinality(NewerOf(cursor, r)) \in Nat
                     /\ NewerOf(cursor, r) \subseteq Older(cursor)
<1>1. OlderThan(cursor, size) = {r \in Older(cursor) : Cardinality(NewerOf(cursor, r)) < size}
  BY DEF OlderThan, Older, NewerOf
<1>2. Older(cursor) \subseteq logged /\ Older(cursor) \subseteq Row
  BY DEF Older, LedgerInv
<1>3. IsFiniteSet(Older(cursor))
  BY <1>2, FS_Subset DEF LedgerInv
<1>4. OlderThan(cursor, size) \subseteq Older(cursor)
  BY <1>1
<1>5. \A r : NewerOf(cursor, r) \subseteq Older(cursor)
  BY DEF NewerOf
<1> QED
  BY <1>1, <1>2, <1>3, <1>4, <1>5, FS_Subset, FS_CardinalityType

\* One row more than asked for tells that there are more: when there is none,
\* the page holds all that is older.
LEMMA NoneIsLeft ==
    ASSUME LedgerInv, NEW cursor \in Nat, NEW size \in Nat \ {0},
           Cardinality(OlderThan(cursor, size + 1)) <= size
    PROVE  OlderThan(cursor, size) = Older(cursor)
<1> DEFINE rest == Older(cursor) \ OlderThan(cursor, size)
<1>1. size \in Nat /\ size + 1 \in Nat
  OBVIOUS
<1>2. SUFFICES ASSUME rest # {} PROVE FALSE
  BY <1>1, OlderRows
<1>3. rest \in SUBSET Row /\ \A r \in rest : r.id < cursor
  BY <1>1, OlderRows DEF Older
<1>4. PICK r \in rest : \A q \in rest : q.id <= r.id
  <2> HIDE DEF rest
  <2> QED
    BY <1>2, <1>3, NewestOf
<1> DEFINE newer == NewerOf(cursor, r)
           more == OlderThan(cursor, size + 1)
<1>5. /\ IsFiniteSet(newer) /\ Cardinality(newer) \in Nat /\ IsFiniteSet(more)
      /\ Cardinality(more) \in Nat
  BY <1>1, OlderRows
<1>6. newer \subseteq OlderThan(cursor, size)
  <2>1. \A q \in newer : q \in Older(cursor) /\ q.id > r.id /\ q \in Row /\ r \in Row
    BY <1>1, <1>3, OlderRows DEF NewerOf
  <2>2. \A q \in newer : ~(q.id <= r.id)
    BY <2>1 DEF Row
  <2> QED
    BY <1>4, <2>1, <2>2
<1>7. OlderThan(cursor, size) \subseteq more
  BY <1>1, OlderRows
<1>8. Cardinality(newer) <= size
  <2>1. newer \subseteq more
    BY <1>6, <1>7
  <2> HIDE DEF newer, more
  <2>2. Cardinality(newer) <= Cardinality(more)
    BY <1>5, <2>1, FS_Subset
  <2> QED
    BY <1>5, <2>2 DEF more
<1>9. r \in more /\ r \notin newer
  <2>1. r \in Older(cursor) /\ r.id \in Nat
    BY <1>3 DEF Row
  <2>2. Cardinality(newer) < size + 1
    BY <1>1, <1>5, <1>8
  <2>3. r \in more
    BY <1>1, <2>1, <2>2, OlderRows
  <2> QED
    BY <2>1, <2>3 DEF NewerOf
<1>10. Cardinality(newer) >= size
  BY <1>1, <1>5, OlderRows
<1>11. newer \cup {r} \subseteq more
  BY <1>6, <1>7, <1>9
<1> HIDE DEF newer, more
<1>12. Cardinality(newer \cup {r}) <= Cardinality(more)
  BY <1>5, <1>11, FS_Subset
<1>13. Cardinality(newer \cup {r}) = Cardinality(newer) + 1
  BY <1>5, <1>9, FS_AddElement
<1> QED
  BY <1>5, <1>10, <1>12, <1>13 DEF more

\* What a walk that goes on below a cursor has left out is below the cursor.
Unbroken(seen, known, cursor) ==
    /\ \A r \in logged : r.id >= cursor /\ (\E q \in seen : r.id <= q.id) => r \in seen
    /\ \A q \in seen : q.id >= cursor
    /\ \A r \in known : r.id >= cursor => r \in seen

Last(rows) == CHOOSE r \in rows : \A q \in rows : r.id <= q.id

NextCursor(rows, cursor) == IF rows = {} THEN cursor ELSE Last(rows).id

LEMMA LastIsLast ==
    ASSUME NEW rows \in SUBSET Row, rows # {}
    PROVE  Last(rows) \in rows /\ \A q \in rows : Last(rows).id <= q.id
  BY OldestOf DEF Last

\* A page below the cursor leaves out nothing, and repeats nothing.
LEMMA PageBelow ==
    ASSUME LedgerInv, NEW cursor \in Nat, NEW size \in Nat \ {0},
           NEW seen \in SUBSET logged, NEW known \in SUBSET logged, Unbroken(seen, known, cursor)
    PROVE  LET rows == OlderThan(cursor, size)
           IN  /\ rows \subseteq logged /\ NextCursor(rows, cursor) \in Nat
               /\ Unbroken(seen \cup rows, known, NextCursor(rows, cursor))
               /\ seen \cap rows = {}
               /\ rows = Older(cursor) =>
                     /\ known \subseteq seen \cup rows
                     /\ \A r \in logged : (\E q \in seen \cup rows : r.id <= q.id) => r \in seen \cup rows
<1> DEFINE rows == OlderThan(cursor, size)
           next == NextCursor(rows, cursor)
<1>1. /\ rows = {r \in Older(cursor) : Cardinality(NewerOf(cursor, r)) < size}
      /\ rows \subseteq Older(cursor) /\ Older(cursor) \subseteq logged /\ Older(cursor) \subseteq Row
      /\ \A r \in logged : r.id \in Nat
  BY OlderRows DEF Older, LedgerInv, Row
<1>2. \A r \in rows : r.id < cursor
  BY <1>1 DEF Older
<1>3. seen \cap rows = {}
  BY <1>1, <1>2 DEF Unbroken
<1>4. CASE rows = {}
  <2>1. next = cursor
    BY <1>4 DEF NextCursor
  <2>2. rows = Older(cursor) => \A r \in logged : r.id >= cursor
    BY <1>1, <1>4 DEF Older
  <2> HIDE DEF next, rows
  <2>3. seen \cup rows = seen
    BY <1>4
  <2> QED
    BY <1>3, <1>4, <2>1, <2>2, <2>3 DEF Unbroken, next, rows
<1>5. CASE rows # {}
  <2> DEFINE last == Last(rows)
  <2>1. next = last.id /\ last \in rows /\ (\A q \in rows : next <= q.id) /\ next \in Nat /\ next < cursor
    <3>1. last \in rows /\ \A q \in rows : last.id <= q.id
      BY <1>1, <1>5, LastIsLast
    <3>2. next = last.id
      BY <1>5 DEF NextCursor
    <3> QED
      BY <1>1, <1>2, <3>1, <3>2
  <2>2. ASSUME NEW r \in logged, r.id >= next, r.id < cursor PROVE r \in rows
    <3>1. NewerOf(cursor, r) \subseteq NewerOf(cursor, last)
      <4> SUFFICES ASSUME NEW q \in Older(cursor), q.id > r.id PROVE q.id > last.id
        BY DEF NewerOf
      <4> QED
        BY <1>1, <2>1, <2>2
    <3>2. /\ IsFiniteSet(NewerOf(cursor, last)) /\ Cardinality(NewerOf(cursor, last)) \in Nat
          /\ Cardinality(NewerOf(cursor, r)) \in Nat
      BY OlderRows
    <3>3. Cardinality(NewerOf(cursor, r)) <= Cardinality(NewerOf(cursor, last))
      BY <3>1, <3>2, FS_Subset
    <3>4. Cardinality(NewerOf(cursor, last)) < size
      BY <1>1, <2>1
    <3>5. r \in Older(cursor)
      BY <2>2 DEF Older
    <3> QED
      BY <1>1, <3>2, <3>3, <3>4, <3>5
  <2> HIDE DEF last, next, rows
  <2>3. Unbroken(seen \cup rows, known, next)
    <3>1. ASSUME NEW r \in logged, r.id >= next, NEW q \in seen \cup rows, r.id <= q.id
          PROVE  r \in seen \cup rows
      <4>1. CASE r.id < cursor
        BY <2>2, <3>1, <4>1
      <4>2. CASE r.id >= cursor
        <5>1. q \in seen
          BY <1>1, <1>2, <2>1, <3>1, <4>2
        <5> QED
          BY <3>1, <4>2, <5>1 DEF Unbroken
      <4> QED
        BY <1>1, <4>1, <4>2
    <3>2. \A q \in seen \cup rows : q.id >= next
      BY <1>1, <2>1 DEF Unbroken
    <3>3. ASSUME NEW r \in known, r.id >= next PROVE r \in seen \cup rows
      <4>1. r \in logged /\ r.id \in Nat
        BY <1>1
      <4>2. CASE r.id < cursor
        BY <2>2, <3>3, <4>1, <4>2
      <4>3. CASE r.id >= cursor
        BY <4>3 DEF Unbroken
      <4> QED
        BY <4>1, <4>2, <4>3
    <3> QED
      BY <3>1, <3>2, <3>3 DEF Unbroken
  <2>4. ASSUME rows = Older(cursor), NEW r \in logged, r \notin seen \cup rows
        PROVE  r \notin known /\ \A q \in seen \cup rows : ~(r.id <= q.id)
    <3>1. r.id >= cursor
      BY <1>1, <2>4 DEF Older
    <3>2. \A q \in rows : ~(r.id <= q.id)
      BY <1>1, <1>2, <3>1
    <3> QED
      BY <2>4, <3>1, <3>2 DEF Unbroken
  <2> QED
    BY <1>1, <1>3, <2>1, <2>3, <2>4 DEF rows, next
<1> HIDE DEF next
<1> QED
  BY <1>4, <1>5 DEF next, rows

Position(r) == Cardinality({q \in logged : NewestStart(q, r)})

LEMMA PositionNat == ASSUME LedgerInv, NEW r PROVE Position(r) \in Nat
<1> DEFINE before == {q \in logged : NewestStart(q, r)}
<1>1. before \subseteq logged
  OBVIOUS
<1> HIDE DEF before
<1>2. Cardinality(before) \in Nat
  BY <1>1, FS_Subset, FS_CardinalityType DEF LedgerInv
<1> QED
  BY <1>2 DEF Position, before

\* Every row of the log stands before the log's end.
LEMMA PositionInLog ==
    ASSUME LedgerInv, NEW r \in logged PROVE Position(r) < Cardinality(logged)
<1> DEFINE before == {q \in logged : NewestStart(q, r)}
<1>1. before \subseteq logged /\ r \in logged /\ r \notin before
  BY DEF NewestStart, LedgerInv, Row
<1> HIDE DEF before
<1>2. /\ Cardinality(before) <= Cardinality(logged)
      /\ Cardinality(before) # Cardinality(logged)
      /\ Cardinality(before) \in Nat /\ Cardinality(logged) \in Nat
  BY <1>1, FS_Subset, FS_CardinalityType DEF LedgerInv
<1>3. Cardinality(before) < Cardinality(logged)
  BY <1>2
<1> QED
  BY <1>3 DEF Position, before

\* A row moves towards the end, if at all.
LEMMA PositionGrows ==
    ASSUME LedgerInv, LedgerInv', logged \subseteq logged', NEW r
    PROVE  Position(r) <= Position(r)' /\ Position(r)' \in Nat
<1> DEFINE before == {q \in logged : NewestStart(q, r)}
           later == {q \in logged' : NewestStart(q, r)}
<1>1. before \subseteq later /\ later \subseteq logged'
  OBVIOUS
<1> HIDE DEF before, later
<1>2. IsFiniteSet(later)
  BY <1>1, FS_Subset DEF LedgerInv
<1>3. Cardinality(before) <= Cardinality(later) /\ Cardinality(later) \in Nat
  BY <1>1, <1>2, FS_Subset, FS_CardinalityType
<1> QED
  BY <1>3 DEF Position, before, later, NewestStart

\* Where requests were chained in the order they began, the two orders agree.
LEMMA OrdersAgree ==
    ASSUME LedgerInv, InStartOrder(logged), NEW r \in logged, NEW q \in logged
    PROVE  NewestStart(q, r) <=> q.id > r.id
<1>1. r.id \in Nat /\ q.id \in Nat /\ r.created_at \in Nat /\ q.created_at \in Nat
  BY DEF LedgerInv, Row
<1>2. q.id = r.id => q = r
  BY DEF LedgerInv
<1> QED
  BY <1>1, <1>2 DEF InStartOrder, NewestStart

\* The first page is then a page below a cursor that is above all ids, and so is
\* its last row.
LEMMA FirstPage ==
    ASSUME LedgerInv, InStartOrder(logged), NEW size \in Nat \ {0}
    PROVE  /\ Page(0, size) = OlderThan(last_id + 1, size)
           /\ LET rows == Page(0, size)
              IN  rows # {} => (CHOOSE r \in rows : \A q \in rows \ {r} : NewestStart(q, r)) = Last(rows)
<1>1. last_id + 1 \in Nat /\ \A r \in logged : r.id < last_id + 1
  BY DEF LedgerInv, Row
<1>2. Older(last_id + 1) = logged
  BY <1>1 DEF Older
<1>3. ASSUME NEW r \in logged
      PROVE  Position(r) = Cardinality(NewerOf(last_id + 1, r))
  <2>1. {q \in logged : NewestStart(q, r)} = NewerOf(last_id + 1, r)
    BY <1>2, OrdersAgree DEF NewerOf
  <2> QED
    BY <2>1 DEF Position
<1>4. Page(0, size) = {r \in logged : 0 <= Position(r) /\ Position(r) < 0 + size}
  BY DEF Page, Position
<1>5. Page(0, size) = OlderThan(last_id + 1, size)
  <2>1. \A r \in logged : Position(r) \in Nat
    BY PositionNat
  <2>2. OlderThan(last_id + 1, size) =
          {r \in logged : Cardinality(NewerOf(last_id + 1, r)) < size}
    BY <1>1, <1>2, OlderRows
  <2> QED
    BY <1>3, <1>4, <2>1, <2>2
<1>6. ASSUME Page(0, size) # {}
      PROVE  (CHOOSE r \in Page(0, size) : \A q \in Page(0, size) \ {r} : NewestStart(q, r))
               = Last(Page(0, size))
  <2> DEFINE rows == Page(0, size)
             last == CHOOSE r \in rows : \A q \in rows \ {r} : NewestStart(q, r)
  <2>1. rows \subseteq logged /\ rows \in SUBSET Row
    BY DEF Page, LedgerInv
  <2> HIDE DEF rows
  <2>2. Last(rows) \in rows /\ \A q \in rows : Last(rows).id <= q.id
    BY <1>6, <2>1, LastIsLast DEF rows
  <2>3. \A q \in rows \ {Last(rows)} : NewestStart(q, Last(rows))
    <3> SUFFICES ASSUME NEW q \in rows, q # Last(rows) PROVE NewestStart(q, Last(rows))
      OBVIOUS
    <3>1. q.id # Last(rows).id /\ q.id \in Nat /\ Last(rows).id \in Nat
      BY <2>1, <2>2 DEF LedgerInv, Row
    <3>2. q.id > Last(rows).id
      BY <2>2, <3>1
    <3> QED
      BY <2>1, <2>2, <3>2, OrdersAgree
  <2>4. last \in rows /\ \A q \in rows \ {last} : NewestStart(q, last)
    BY <2>2, <2>3
  <2> HIDE DEF last
  <2>5. last = Last(rows)
    <3> SUFFICES ASSUME last # Last(rows) PROVE FALSE
      OBVIOUS
    <3>1. NewestStart(last, Last(rows)) /\ NewestStart(Last(rows), last)
      BY <2>2, <2>3, <2>4
    <3>2. last \in Row /\ Last(rows) \in Row
      BY <2>1, <2>2, <2>4
    <3> QED
      BY <3>1, <3>2 DEF NewestStart, Row
  <2> QED
    BY <2>5 DEF last, rows
<1> QED
  BY <1>5, <1>6

Walk == [step : {"start", "count", "page", "next", "done"}, by : {"page", "page then cursor", "cursor"},
         size : Nat \ {0}, cursor : Nat, page : Nat \ {0}, total : Nat, known : SUBSET Row,
         seen : SUBSET Row, again : BOOLEAN, torn : BOOLEAN]

\* By page number, what was known and is not yet seen stands on a later page; by
\* cursor, what is left out is below the cursor.
WalkFits ==
    /\ walk \in Walk /\ walk.seen \subseteq logged /\ walk.known \subseteq logged
    /\ walk.by = "page" => walk.step # "next"
    /\ walk.by = "cursor" => walk.step \in {"next", "done"}
    /\ walk.step = "start" => walk.seen = {}
    /\ walk.by = "page then cursor" /\ walk.step \in {"count", "page"} =>
          walk.page = 1 /\ walk.seen = {} /\ ~walk.again
    /\ walk.by = "page" /\ walk.step \in {"count", "page"} /\ ~walk.torn =>
          \A r \in walk.known : r \in walk.seen \/ Position(r) >= (walk.page - 1) * walk.size
    /\ walk.step = "next" /\ Sure => Unbroken(walk.seen, walk.known, walk.cursor) /\ ~walk.again
    /\ WalkComplete

LEMMA NoWalkYet ==
    /\ NoWalk \in Walk /\ NoWalk.page = 1 /\ NoWalk.seen = {} /\ NoWalk.known = {} /\ ~NoWalk.again
    /\ NoWalk.step = "start" /\ NoWalk.by = "page"
  BY DEF NoWalk, Walk

LEMMA WalkStarts == ReadInit => WalkFits
  BY DEF ReadInit, WalkFits, NoWalk, Walk, WalkComplete

\* Whatever the drains do, what they add is beyond what any walk has seen.
LEMMA LogGrows ==
    ASSUME LedgerInv, LedgerInv', WalkFits, UNCHANGED walk, logged \subseteq logged',
           \A r \in logged' \ logged : \A q \in logged : q.id < r.id
    PROVE  WalkFits'
<1>1. /\ walk \in Walk /\ walk.seen \subseteq logged /\ walk.known \subseteq logged
      /\ walk.page - 1 \in Nat /\ walk.size \in Nat
  <2>1. walk \in Walk /\ walk.seen \subseteq logged /\ walk.known \subseteq logged
    BY DEF WalkFits
  <2>2. walk.page \in Nat \ {0} /\ walk.size \in Nat \ {0}
    BY <2>1 DEF Walk
  <2> QED
    BY <2>1, <2>2
<1>2. Sure' => Sure
  BY DEF Sure, InStartOrder
<1>3. \A r \in logged', q \in walk.seen : r.id <= q.id => r \in logged
  BY <1>1 DEF LedgerInv, Row
<1>4. walk.by = "page" /\ walk.step \in {"count", "page"} /\ ~walk.torn =>
          \A r \in walk.known : r \in walk.seen \/ Position(r)' >= (walk.page - 1) * walk.size
  <2> SUFFICES ASSUME walk.by = "page" /\ walk.step \in {"count", "page"} /\ ~walk.torn,
                      NEW r \in walk.known, r \notin walk.seen
               PROVE  Position(r)' >= (walk.page - 1) * walk.size
    OBVIOUS
  <2>1. Position(r) >= (walk.page - 1) * walk.size
    BY DEF WalkFits
  <2>2. Position(r) <= Position(r)' /\ Position(r)' \in Nat
    BY PositionGrows
  <2>4. Position(r) \in Nat
    BY PositionNat
  <2>3. (walk.page - 1) * walk.size \in Nat
    BY <1>1
  <2> QED
    BY <2>1, <2>2, <2>3, <2>4
<1>5. walk.step = "next" /\ Sure' => Unbroken(walk.seen, walk.known, walk.cursor)' /\ ~walk.again
  BY <1>1, <1>2, <1>3 DEF WalkFits, Unbroken
<1>6. WalkComplete'
  BY <1>1, <1>2, <1>3 DEF WalkFits, WalkComplete
<1>7. /\ walk.by = "page" => walk.step # "next"
      /\ walk.by = "cursor" => walk.step \in {"next", "done"}
      /\ walk.step = "start" => walk.seen = {}
      /\ walk.by = "page then cursor" /\ walk.step \in {"count", "page"} =>
            walk.page = 1 /\ walk.seen = {} /\ ~walk.again
  BY DEF WalkFits
<1> QED
  BY <1>1, <1>4, <1>5, <1>6, <1>7 DEF WalkFits

LEMMA StartWalkStep ==
    ASSUME LedgerInv, WalkFits, NEW size \in 1 .. MaxPageSize, StartWalk(size) PROVE WalkFits'
<1>1. walk = NoWalk /\ UNCHANGED <<logged, last_id>> /\ size \in Nat \ {0} /\ last_id + 1 \in Nat
  BY ReadAssumption DEF StartWalk, LedgerInv
<1>2. ASSUME NEW way \in {"page", "page then cursor"},
             walk' = [walk EXCEPT !.step = "count", !.by = way, !.size = size]
      PROVE  WalkFits'
  <2>1. /\ walk' \in Walk /\ walk'.step = "count" /\ walk'.by = way /\ walk'.page = 1
        /\ walk'.seen = {} /\ walk'.known = {} /\ ~walk'.again
    BY <1>1, <1>2, NoWalkYet DEF Walk
  <2> QED
    BY <2>1 DEF WalkFits, WalkComplete
<1>3. ASSUME walk' = [walk EXCEPT !.step = "next", !.by = "cursor", !.size = size,
                                  !.cursor = last_id + 1, !.known = logged]
      PROVE  WalkFits'
  <2>1. /\ walk' \in Walk /\ walk'.step = "next" /\ walk'.by = "cursor" /\ walk'.seen = {}
        /\ walk'.known = logged /\ walk'.cursor = last_id + 1 /\ ~walk'.again
    BY <1>1, <1>3, NoWalkYet DEF Walk, LedgerInv
  <2>2. \A r \in logged : ~(r.id >= last_id + 1)
    BY DEF LedgerInv, Row
  <2> QED
    BY <1>1, <2>1, <2>2 DEF WalkFits, WalkComplete, Unbroken
<1> QED
  BY <1>2, <1>3 DEF StartWalk

LEMMA CountStep == ASSUME LedgerInv, WalkFits, CountTotal PROVE WalkFits'
<1> DEFINE known == IF walk.page = 1 THEN logged ELSE walk.known
<1>1. /\ walk.step = "count" /\ UNCHANGED <<logged, last_id>>
      /\ walk' = [walk EXCEPT !.step = "page", !.total = Cardinality(logged), !.known = known]
  BY DEF CountTotal
<1>2. walk \in Walk /\ walk.seen \subseteq logged /\ known \subseteq logged /\ known \in SUBSET Row
      /\ Cardinality(logged) \in Nat
  BY FS_CardinalityType DEF WalkFits, LedgerInv
<1>3. /\ walk' \in Walk /\ walk'.step = "page" /\ walk'.by = walk.by /\ walk'.page = walk.page
      /\ walk'.size = walk.size /\ walk'.seen = walk.seen /\ walk'.known = known
      /\ walk'.again = walk.again /\ walk'.torn = walk.torn
  BY <1>1, <1>2 DEF Walk
<1>4. walk.page - 1 \in Nat /\ walk.size \in Nat /\ (walk.page = 1 => (walk.page - 1) * walk.size = 0)
  <2>1. walk.page \in Nat \ {0} /\ walk.size \in Nat \ {0}
    BY <1>2 DEF Walk
  <2> QED
    BY <2>1
<1>5. \A r : Position(r)' = Position(r) /\ Position(r) \in Nat
  BY <1>1, PositionNat DEF Position, NewestStart
<1>6. walk.by = "page" /\ ~walk.torn =>
          \A r \in known : r \in walk.seen \/ Position(r)' >= (walk.page - 1) * walk.size
  <2>1. CASE walk.page = 1
    BY <1>4, <1>5, <2>1
  <2>2. CASE walk.page # 1
    BY <1>1, <1>5, <2>2 DEF WalkFits
  <2> QED
    BY <2>1, <2>2
<1> HIDE DEF known
<1> QED
  BY <1>1, <1>2, <1>3, <1>6 DEF WalkFits, WalkComplete

\* A walk goes on with the rows below its cursor: it has left out nothing, and
\* when it ends nothing was left to return.
LEMMA WalkGoesOn ==
    ASSUME LedgerInv, NEW cursor \in Nat, NEW size \in Nat \ {0}, UNCHANGED logged,
           walk' \in Walk, walk'.by # "page", walk'.step \in {"next", "done"},
           NEW seen \in SUBSET logged, walk'.known \subseteq logged,
           NEW rows, walk'.seen = seen \cup rows, rows \subseteq logged,
           Sure' =>
              /\ Unbroken(seen, walk'.known, cursor)
              /\ rows = OlderThan(cursor, size)
              /\ walk'.step = "next" => walk'.cursor = NextCursor(rows, cursor)
              /\ walk'.again => seen \cap rows # {}
              /\ walk'.step = "done" => rows = Older(cursor)
    PROVE  WalkFits'
<1>1. CASE ~Sure'
  BY <1>1 DEF WalkFits, WalkComplete
<1>2. CASE Sure'
  <2>1. /\ walk'.step = "next" => Unbroken(seen \cup rows, walk'.known, walk'.cursor)
        /\ ~walk'.again
        /\ walk'.step = "done" =>
              /\ walk'.known \subseteq walk'.seen
              /\ \A r \in logged : (\E q \in walk'.seen : r.id <= q.id) => r \in walk'.seen
    <3> DEFINE known == walk'.known
    <3>1. /\ Unbroken(seen, known, cursor) /\ known \in SUBSET logged /\ rows = OlderThan(cursor, size)
          /\ walk'.step = "next" => walk'.cursor = NextCursor(rows, cursor)
          /\ walk'.again => seen \cap rows # {}
          /\ walk'.step = "done" => rows = Older(cursor)
      BY <1>2
    <3> HIDE DEF known
    <3>2. /\ Unbroken(seen \cup rows, known, NextCursor(rows, cursor))
          /\ seen \cap rows = {}
          /\ rows = Older(cursor) =>
                /\ known \subseteq seen \cup rows
                /\ \A r \in logged : (\E q \in seen \cup rows : r.id <= q.id) => r \in seen \cup rows
      BY <3>1, PageBelow
    <3> QED
      BY <3>1, <3>2 DEF known
  <2>2. walk'.step = "next" => Unbroken(walk.seen, walk.known, walk.cursor)'
    BY <2>1 DEF Unbroken
  <2>3. WalkComplete'
    BY <2>1 DEF WalkComplete
  <2> QED
    BY <2>1, <2>2, <2>3 DEF WalkFits
<1> QED
  BY <1>1, <1>2

LEMMA BelowStep == ASSUME LedgerInv, WalkFits, FetchBelowCursor PROVE WalkFits'
<1> DEFINE cursor == walk.cursor
           rows == OlderThan(cursor, walk.size)
           has_next == Cardinality(OlderThan(cursor, walk.size + 1)) > walk.size
           step == IF has_next THEN "next" ELSE "done"
           next == NextCursor(rows, cursor)
           again == walk.again \/ walk.seen \cap rows # {}
<1>1. /\ walk.step = "next" /\ UNCHANGED <<logged, last_id>>
      /\ walk' = [Received(rows) EXCEPT !.cursor = IF rows = {} THEN @ ELSE Last(rows).id, !.step = step]
  BY DEF FetchBelowCursor, Continue, Last
<1>2. walk \in Walk /\ walk.seen \subseteq logged /\ walk.known \subseteq logged /\ walk.by # "page"
  BY <1>1 DEF WalkFits
<1>3. cursor \in Nat /\ walk.size \in Nat \ {0} /\ walk.size \in Nat
  BY <1>2 DEF Walk
<1>4. /\ rows \subseteq logged /\ rows \in SUBSET Row /\ next \in Nat
      /\ Cardinality(OlderThan(cursor, walk.size + 1)) \in Nat
  <2>1. rows \subseteq Older(cursor) /\ Older(cursor) \subseteq Row /\ Older(cursor) \subseteq logged
    BY <1>3, OlderRows DEF Older
  <2>2. next \in Nat
    <3>1. CASE rows = {}
      BY <1>3, <3>1 DEF NextCursor
    <3>2. CASE rows # {}
      BY <2>1, <3>2, LastIsLast DEF NextCursor, Row
    <3> QED
      BY <3>1, <3>2
  <2>3. walk.size + 1 \in Nat
    BY <1>3
  <2> QED
    BY <1>3, <2>1, <2>2, <2>3, OlderRows
<1>5. ~has_next => rows = Older(cursor)
  <2>1. ~has_next => Cardinality(OlderThan(cursor, walk.size + 1)) <= walk.size
    BY <1>3, <1>4
  <2> QED
    BY <1>3, <2>1, NoneIsLeft
<1>6. step \in {"next", "done"} /\ (step = "done" => ~has_next) /\ again \in BOOLEAN
  OBVIOUS
<1> HIDE DEF rows, step, has_next, next, again
<1>7. walk' = [walk EXCEPT !.seen = walk.seen \cup rows, !.again = again, !.cursor = next, !.step = step]
  BY <1>1, <1>2 DEF Received, Walk, NextCursor, next, again, cursor
<1>8. /\ walk' \in Walk /\ walk'.by = walk.by /\ walk'.step = step /\ walk'.known = walk.known
      /\ walk'.seen = walk.seen \cup rows /\ walk'.cursor = next /\ walk'.again = again
      /\ walk'.torn = walk.torn
  BY <1>2, <1>4, <1>6, <1>7 DEF Walk
<1>9. Sure' => Sure
  BY <1>1, <1>8 DEF Sure
<1>10. ASSUME Sure'
       PROVE  /\ Unbroken(walk.seen, walk'.known, cursor)
              /\ rows = OlderThan(cursor, walk.size)
              /\ walk'.cursor = NextCursor(rows, cursor)
              /\ walk'.again => walk.seen \cap rows # {}
              /\ walk'.step = "done" => rows = Older(cursor)
  BY <1>1, <1>5, <1>6, <1>8, <1>9, <1>10 DEF WalkFits, rows, next, again
<1> HIDE DEF cursor
<1>11. walk.seen \in SUBSET logged /\ walk'.known \subseteq logged /\ walk'.by # "page"
       /\ walk'.step \in {"next", "done"}
  BY <1>2, <1>6, <1>8
<1>12. Sure' =>
          /\ Unbroken(walk.seen, walk'.known, cursor)
          /\ rows = OlderThan(cursor, walk.size)
          /\ walk'.step = "next" => walk'.cursor = NextCursor(rows, cursor)
          /\ walk'.again => walk.seen \cap rows # {}
          /\ walk'.step = "done" => rows = Older(cursor)
  BY <1>10
<1> QED
  BY <1>1, <1>3, <1>4, <1>8, <1>11, <1>12, WalkGoesOn

\* A page has a last row in its own order too.
LEMMA PageHasLast ==
    ASSUME LedgerInv, NEW rows \in SUBSET logged, rows # {}
    PROVE  \E r \in rows : \A q \in rows \ {r} : NewestStart(q, r)
<1> DEFINE times == {r.created_at : r \in rows}
<1>1. times \in SUBSET Nat /\ times # {}
  BY DEF LedgerInv, Row
<1> HIDE DEF times
<1>2. PICK t \in times : \A u \in times : t <= u
  BY <1>1, NatSetHasMin
<1> DEFINE first == {r \in rows : r.created_at = t}
<1>3. first # {} /\ first \in SUBSET Row /\ \A q \in rows : t <= q.created_at
  BY <1>2 DEF times, LedgerInv
<1>4. PICK r \in first : \A q \in first : r.id <= q.id
  <2> HIDE DEF first
  <2> QED
    BY <1>3, OldestOf
<1>5. ASSUME NEW q \in rows, q # r PROVE NewestStart(q, r)
  <2>1. q \in logged /\ r \in logged /\ q \in Row /\ r \in Row /\ r.created_at = t /\ r.id # q.id
    BY <1>4, <1>5 DEF LedgerInv
  <2>2. q.created_at \in Nat /\ r.created_at \in Nat /\ q.id \in Nat /\ r.id \in Nat
    BY <2>1 DEF Row
  <2>3. CASE q.created_at = t
    BY <1>4, <2>1, <2>2, <2>3 DEF NewestStart
  <2>4. CASE q.created_at # t
    BY <1>3, <2>1, <2>2, <2>4 DEF NewestStart
  <2> QED
    BY <2>3, <2>4
<1> QED
  BY <1>5

LEMMA PageRead == ASSUME LedgerInv, WalkFits, FetchPage PROVE WalkFits'
<1> DEFINE offset == (walk.page - 1) * walk.size
           rows == Page(offset, walk.size)
           has_next == offset + walk.size < walk.total
           last == CHOOSE r \in rows : \A q \in rows \ {r} : NewestStart(q, r)
           step == IF ~has_next THEN "done" ELSE IF walk.by = "page" THEN "count" ELSE "next"
           next == IF rows = {} THEN walk.cursor ELSE last.id
           again == walk.again \/ walk.seen \cap rows # {}
           torn == walk.torn \/ walk.total # Cardinality(logged)
<1>1. /\ walk.step = "page" /\ UNCHANGED <<logged, last_id>>
      /\ walk' = [Received(rows) EXCEPT !.page = @ + 1, !.torn = @ \/ walk.total # Cardinality(logged),
                     !.cursor = IF rows = {} THEN @ ELSE last.id, !.step = step]
  BY DEF FetchPage
<1>2. walk \in Walk /\ walk.seen \subseteq logged /\ walk.known \subseteq logged /\ walk.by # "cursor"
  BY <1>1 DEF WalkFits
<1>3. /\ walk.page \in Nat \ {0} /\ walk.size \in Nat \ {0} /\ walk.cursor \in Nat /\ walk.total \in Nat
      /\ Cardinality(logged) \in Nat
  BY <1>2, FS_CardinalityType DEF Walk, LedgerInv
<1>4. walk.page - 1 \in Nat /\ offset \in Nat /\ offset + walk.size \in Nat /\ walk.page + 1 \in Nat \ {0}
  BY <1>3
<1>5. rows = {r \in logged : offset <= Position(r) /\ Position(r) < offset + walk.size}
  BY DEF Page, Position
<1>6. rows \subseteq logged /\ rows \in SUBSET Row
  BY <1>5 DEF LedgerInv
<1> HIDE DEF rows
<1>7. next \in Nat
  <2>1. CASE rows = {}
    BY <1>3, <2>1
  <2>2. CASE rows # {}
    <3>1. last \in rows
      BY <1>6, <2>2, PageHasLast
    <3> QED
      BY <1>6, <2>2, <3>1 DEF Row
  <2> QED
    BY <2>1, <2>2
<1>8. step \in {"done", "count", "next"} /\ again \in BOOLEAN /\ torn \in BOOLEAN
      /\ (step = "done" <=> ~has_next) /\ (step = "count" => walk.by = "page")
      /\ (step = "next" => walk.by # "page")
  <2>1. walk.torn \in BOOLEAN
    BY <1>2 DEF Walk
  <2> QED
    BY <2>1
<1> HIDE DEF next, again, torn, step, has_next, offset
<1> DEFINE w == Received(rows)
<1>9. /\ w \in Walk /\ w.by = walk.by /\ w.known = walk.known /\ w.seen = walk.seen \cup rows
      /\ w.again = again /\ w.page = walk.page /\ w.size = walk.size /\ w.torn = walk.torn
      /\ w.cursor = walk.cursor
  BY <1>2, <1>6, <1>8 DEF Received, Walk, again
<1>10. /\ walk' \in Walk /\ walk'.by = walk.by /\ walk'.step = step /\ walk'.known = walk.known
       /\ walk'.seen = walk.seen \cup rows /\ walk'.cursor = next /\ walk'.again = again
       /\ walk'.torn = torn /\ walk'.page = walk.page + 1 /\ walk'.size = walk.size
  <2> HIDE DEF w
  <2>1. walk' = [w EXCEPT !.page = walk.page + 1, !.torn = torn, !.cursor = next, !.step = step]
    BY <1>1, <1>9 DEF torn, next, w
  <2> QED
    BY <1>4, <1>7, <1>8, <1>9, <2>1 DEF Walk
<1>11. CASE walk.by = "page"
  <2>1. \A r : Position(r)' = Position(r) /\ Position(r) \in Nat
    BY <1>1, PositionNat DEF Position, NewestStart
  <2>2. walk.page * walk.size = offset + walk.size
    <3>1. \A p, n \in Nat : (p + 1) * n = p * n + n
      OBVIOUS
    <3>2. walk.page = (walk.page - 1) + 1
      BY <1>3
    <3> QED
      BY <1>3, <1>4, <3>1, <3>2 DEF offset
  <2>3. ASSUME ~torn, NEW r \in walk.known
        PROVE  r \in walk.seen \cup rows \/ Position(r) >= offset + walk.size
    <3>1. ~walk.torn
      BY <2>3 DEF torn
    <3>2. r \in walk.seen \/ Position(r) >= offset
      BY <1>1, <1>11, <3>1 DEF WalkFits, offset
    <3>3. r \in logged
      BY <1>2
    <3> QED
      BY <1>3, <1>4, <1>5, <2>1, <3>2, <3>3
  <2>4. ASSUME ~torn, ~has_next, NEW r \in walk.known PROVE r \in walk.seen \cup rows
    <3>1. walk.total = Cardinality(logged) /\ Cardinality(logged) <= offset + walk.size
      BY <1>3, <1>4, <2>4 DEF torn, has_next
    <3>2. Position(r) < Cardinality(logged)
      BY <1>2, PositionInLog
    <3> QED
      BY <1>3, <1>4, <2>1, <2>3, <2>4, <3>1, <3>2
  <2>5. WalkComplete'
    BY <1>8, <1>10, <1>11, <2>4 DEF WalkComplete, Sure
  <2>6. ~walk'.torn => \A r \in walk'.known :
            r \in walk'.seen \/ Position(r)' >= (walk'.page - 1) * walk'.size
    <3>1. (walk'.page - 1) * walk'.size = offset + walk.size
      <4>1. walk'.page - 1 = walk.page
        BY <1>3, <1>10
      <4> QED
        BY <1>10, <2>2, <4>1
    <3> QED
      BY <1>10, <2>1, <2>3, <3>1
  <2> QED
    BY <1>1, <1>2, <1>6, <1>8, <1>10, <1>11, <2>5, <2>6 DEF WalkFits
<1>12. CASE walk.by = "page then cursor"
  <2> DEFINE cursor == last_id + 1
  <2>1. walk.page = 1 /\ walk.seen = {} /\ ~walk.again
    BY <1>1, <1>12 DEF WalkFits
  <2>2. cursor \in Nat /\ \A r \in logged : r.id < cursor /\ r.id \in Nat
    BY DEF LedgerInv, Row
  <2>4. offset = 0
    BY <1>3, <2>1 DEF offset
  <2>3. ASSUME Sure'
        PROVE  /\ Unbroken({}, walk'.known, cursor)
               /\ rows = OlderThan(cursor, walk.size)
               /\ walk'.step = "next" => walk'.cursor = NextCursor(rows, cursor)
               /\ ~walk'.again
               /\ walk'.step = "done" => rows = Older(cursor)
    <3>1. ~torn /\ InStartOrder(logged)
      BY <1>1, <1>10, <1>12, <2>3 DEF Sure, InStartOrder
    <3>2. rows = OlderThan(cursor, walk.size) /\ (rows # {} => last = Last(rows))
      BY <1>3, <2>2, <2>4, <3>1, FirstPage DEF rows
    <3>3. ASSUME ~has_next PROVE rows = Older(cursor)
      <4>1. Cardinality(logged) <= walk.size
        BY <1>3, <2>4, <3>1, <3>3 DEF torn, has_next
      <4>4. Older(cursor) = logged
        BY <2>2 DEF Older
      <4>2. \A r \in logged : Position(r) < Cardinality(logged) /\ Position(r) \in Nat
        BY PositionInLog, PositionNat
      <4>3. \A r \in logged : r \in rows
        BY <1>3, <1>5, <2>4, <4>1, <4>2
      <4> QED
        BY <1>6, <4>3, <4>4
    <3>4. Unbroken({}, walk'.known, cursor)
      <4>1. \A r \in logged : ~(r.id >= cursor)
        BY <2>2
      <4> QED
        BY <1>2, <1>10, <4>1 DEF Unbroken
    <3>5. CASE rows = {}
      <4>1. ~has_next
        <5> SUFFICES ASSUME has_next PROVE FALSE
          OBVIOUS
        <5>1. logged # {}
          BY <1>3, <2>4, <3>1, FS_EmptySet DEF has_next, torn
        <5>2. PICK r \in logged : \A q \in logged : q.id <= r.id
          BY <2>2, <5>1, NewestOf DEF LedgerInv
        <5>3. NewerOf(cursor, r) = {} /\ r \in Older(cursor)
          BY <2>2, <5>2 DEF NewerOf, Older
        <5>4. Cardinality(NewerOf(cursor, r)) = 0
          BY <5>3, FS_EmptySet
        <5> QED
          <6>1. OlderThan(cursor, walk.size) =
                  {q \in Older(cursor) : Cardinality(NewerOf(cursor, q)) < walk.size}
            BY DEF OlderThan, Older, NewerOf
          <6>2. 0 < walk.size
            BY <1>3
          <6> QED
            BY <3>2, <3>5, <5>3, <5>4, <6>1, <6>2
      <4> QED
        BY <1>8, <1>10, <2>1, <3>2, <3>3, <3>4, <3>5, <4>1 DEF again
    <3>6. CASE rows # {}
      BY <1>8, <1>10, <2>1, <3>2, <3>3, <3>4, <3>6 DEF next, again, NextCursor
    <3> QED
      BY <3>5, <3>6
  <2> DEFINE seen == {}
  <2>5. /\ walk'.by # "page" /\ walk'.step \in {"next", "done"} /\ walk'.known \subseteq logged
        /\ seen \in SUBSET logged /\ walk'.seen = seen \cup rows
    BY <1>2, <1>8, <1>10, <1>12, <2>1
  <2>6. Sure' =>
           /\ Unbroken(seen, walk'.known, cursor)
           /\ rows = OlderThan(cursor, walk.size)
           /\ walk'.step = "next" => walk'.cursor = NextCursor(rows, cursor)
           /\ walk'.again => seen \cap rows # {}
           /\ walk'.step = "done" => rows = Older(cursor)
    BY <2>3
  <2> HIDE DEF seen, cursor
  <2> QED
    BY <1>1, <1>3, <1>6, <1>10, <2>2, <2>5, <2>6, WalkGoesOn
<1> QED
  BY <1>2, <1>11, <1>12 DEF Walk

LEMMA WalkSteps == LedgerInv /\ WalkFits /\ [ReadNext]_readVars => WalkFits'
<1> SUFFICES ASSUME LedgerInv, WalkFits, [ReadNext]_readVars PROVE WalkFits'
  OBVIOUS
<1>1. LedgerInv'
  BY LedgerSteps
<1>2. CASE UNCHANGED <<walk, logged>>
  BY <1>1, <1>2, LogGrows
<1>3. ASSUME NEW t \in 0 .. MaxStart, Record(t) PROVE UNCHANGED <<walk, logged>>
  BY <1>3 DEF Record
<1>4. ASSUME NEW d \in Drains, NEW k \in 1 .. MaxEntries, BeginDrain(d, k)
      PROVE  UNCHANGED <<walk, logged>>
  BY <1>4 DEF BeginDrain
<1>5. ASSUME NEW d \in Drains, CommitDrain(d) PROVE WalkFits'
  <2>1. /\ UNCHANGED walk /\ logged \subseteq logged'
        /\ \A r \in logged' \ logged : \A q \in logged : q.id < r.id
    BY <1>5 DEF CommitDrain, LedgerInv
  <2> QED
    BY <1>1, <2>1, LogGrows
<1>6. ASSUME NEW d \in Drains, RollBackDrain(d) PROVE UNCHANGED <<walk, logged>>
  BY <1>6 DEF RollBackDrain
<1>7. ASSUME NEW n \in 1 .. MaxEntries, LookInLog(n) PROVE UNCHANGED <<walk, logged>>
  BY <1>7 DEF LookInLog
<1>8. CASE LookInQueue
  BY <1>2, <1>8 DEF LookInQueue
<1>9. CASE UNCHANGED readVars
  BY <1>2, <1>9 DEF readVars
<1>10. ASSUME NEW size \in 1 .. MaxPageSize, StartWalk(size) PROVE WalkFits'
  BY <1>10, StartWalkStep
<1> QED
  BY <1>2, <1>3, <1>4, <1>5, <1>6, <1>7, <1>8, <1>9, <1>10, CountStep, PageRead, BelowStep
  DEF ReadNext

-----------------------------------------------------------------------------
(* Partitions *)

Month == [year : Nat, month : 1 .. 12]

Covered(m) == \E p \in partitions : Covers(p, m)

\* As long as the runs keep ahead, what can be inserted now, and for as many
\* months on as a run may still be late, has its partition.
KeepsAhead ==
    punctual =>
        /\ overflow = {} /\ lapse <= MonthsAhead
        /\ \A k \in 0 .. MonthsAhead - lapse : Covered(Target(k))
        /\ since > 0 => \A m \in Month : NextMonth(m) = today => Covered(m)

PartitionInv ==
    /\ today \in Month /\ since \in Nat /\ lapse \in Nat /\ punctual \in BOOLEAN
    /\ KeepsAhead

LEMMA ThisMonth == ASSUME today \in Month PROVE Target(0) = today
  BY DEF Target, Month

\* The months ahead are the same months when one has passed, whatever year ends.
LEMMA TargetShifts ==
    ASSUME today \in Month, today' = NextMonth(today), NEW k \in Nat
    PROVE  Target(k)' = Target(k + 1)
<1>1. CASE today.month = 12
  <2>1. today'.month = 1 /\ today'.year = today.year + 1 /\ today.year \in Nat
    BY <1>1 DEF NextMonth, Month
  <2>2. (12 + k) \div 12 = 1 + (k \div 12) /\ (12 + k) % 12 = k % 12
    OBVIOUS
  <2>3. 1 + k - 1 = k /\ 12 + (k + 1) - 1 = 12 + k
    OBVIOUS
  <2>4. k \div 12 \in Nat
    OBVIOUS
  <2> QED
    BY <1>1, <2>1, <2>2, <2>3, <2>4 DEF Target
<1>2. CASE today.month # 12
  <2>1. today'.month = today.month + 1 /\ today'.year = today.year /\ today.month \in Nat
    BY <1>2 DEF NextMonth, Month
  <2>2. today'.month + k - 1 = today.month + (k + 1) - 1
    BY <2>1
  <2> QED
    BY <2>1, <2>2 DEF Target
<1> QED
  BY <1>1, <1>2

LEMMA NextMonthTyped == ASSUME NEW m \in Month PROVE NextMonth(m) \in Month
  BY DEF NextMonth, Month

LEMMA OneMonthBefore ==
    ASSUME NEW m \in Month, NEW n \in Month, NextMonth(m) = NextMonth(n) PROVE m = n
<1>1. NextMonth(m).year = NextMonth(n).year /\ NextMonth(m).month = NextMonth(n).month
  OBVIOUS
<1>2. m.month = n.month /\ m.year = n.year
  BY <1>1 DEF NextMonth, Month
<1> QED
  BY <1>2 DEF Month

\* A partition that is created covers its month.
LEMMA BoundsCover == ASSUME NEW m \in Month PROVE Covers(Bounds(m), m)
  BY DEF Covers, Bounds, Before, NextMonth, Month

LEMMA TargetTyped == ASSUME today \in Month, NEW k \in Nat PROVE Target(k) \in Month
<1>1. today.month + k - 1 \in Nat /\ today.year \in Nat
  BY DEF Month
<1>2. \A x \in Nat : x \div 12 \in Nat /\ (x % 12) + 1 \in 1 .. 12
  OBVIOUS
<1> QED
  BY <1>1, <1>2 DEF Target, Month

LEMMA PartitionsStart == PartitionInit => PartitionInv
  BY PartitionAssumption DEF PartitionInit, PartitionInv, KeepsAhead, Month, Covered

LEMMA RunStep == ASSUME PartitionInv, ensure_audit_partitions PROVE PartitionInv'
<1> DEFINE missing == Wanted \ partitions
           refused == \E p \in missing : \E m \in overflow : Covers(p, m)
<1>1. UNCHANGED <<today, since, overflow, punctual>>
  BY DEF ensure_audit_partitions
<1>2. CASE refused
  <2>1. UNCHANGED <<partitions, lapse>>
    BY <1>2 DEF ensure_audit_partitions
  <2> QED
    BY <1>1, <2>1 DEF PartitionInv, KeepsAhead, Covered, Target
<1>3. CASE ~refused
  <2>1. partitions' = partitions \cup Wanted /\ lapse' = 0
    BY <1>3 DEF ensure_audit_partitions
  <2>2. \A m : Covered(m) => Covered(m)'
    BY <2>1 DEF Covered
  <2>3. \A k \in 0 .. MonthsAhead : Covered(Target(k))'
    <3> SUFFICES ASSUME NEW k \in 0 .. MonthsAhead PROVE Covered(Target(k))'
      OBVIOUS
    <3>1. Target(k)' = Target(k)
      BY <1>1 DEF Target
    <3>2. Covers(Bounds(Target(k)), Target(k))
      BY TargetTyped, BoundsCover DEF PartitionInv
    <3>3. Bounds(Target(k)) \in partitions'
      BY <2>1 DEF Wanted
    <3> QED
      BY <3>1, <3>2, <3>3 DEF Covered
  <2> QED
    BY <1>1, <2>1, <2>2, <2>3, PartitionAssumption DEF PartitionInv, KeepsAhead
<1> QED
  BY <1>2, <1>3

LEMMA InsertStep == ASSUME PartitionInv, NEW m \in Months, InsertEntry(m) PROVE PartitionInv'
<1>1. UNCHANGED <<today, since, partitions, lapse, punctual>>
  BY DEF InsertEntry
<1>2. m \in Month
  BY DEF Months, Month
<1>3. punctual => Covered(m)
  <2> SUFFICES ASSUME punctual PROVE Covered(m)
    OBVIOUS
  <2>1. CASE m = today
    <3>1. 0 \in 0 .. MonthsAhead - lapse
      BY PartitionAssumption DEF PartitionInv, KeepsAhead
    <3> QED
      BY <2>1, <3>1, ThisMonth DEF PartitionInv, KeepsAhead
  <2>2. CASE since > 0 /\ NextMonth(m) = today
    BY <1>2, <2>2 DEF PartitionInv, KeepsAhead
  <2> QED
    BY <2>1, <2>2 DEF InsertEntry
<1>4. punctual => overflow' = overflow
  BY <1>3 DEF InsertEntry, Covered
<1> QED
  BY <1>1, <1>4 DEF PartitionInv, KeepsAhead, Covered, Target

LEMMA MonthStep == ASSUME PartitionInv, MonthPasses PROVE PartitionInv'
<1>1. /\ since' = since + 1 /\ today' = NextMonth(today) /\ lapse' = lapse + 1
      /\ punctual' = (punctual /\ lapse < MonthsAhead) /\ UNCHANGED <<partitions, overflow>>
  BY DEF MonthPasses
<1>2. today' \in Month /\ since' \in Nat /\ lapse' \in Nat /\ punctual' \in BOOLEAN
  BY <1>1, NextMonthTyped DEF PartitionInv
<1>3. ASSUME punctual' PROVE /\ overflow' = {} /\ lapse' <= MonthsAhead
                             /\ \A k \in 0 .. MonthsAhead - lapse' : Covered(Target(k))'
                             /\ \A m \in Month : NextMonth(m) = today' => Covered(m)'
  <2>1. punctual /\ lapse < MonthsAhead /\ MonthsAhead \in Nat /\ lapse \in Nat
    BY <1>1, <1>3, PartitionAssumption DEF PartitionInv
  <2>2. overflow' = {} /\ lapse' <= MonthsAhead
    BY <1>1, <2>1 DEF PartitionInv, KeepsAhead
  <2>3. \A m : Covered(m)' <=> Covered(m)
    BY <1>1 DEF Covered
  <2>4. ASSUME NEW k \in 0 .. MonthsAhead - lapse' PROVE Covered(Target(k))'
    <3>1. k + 1 \in 0 .. MonthsAhead - lapse /\ k \in Nat
      BY <1>1, <2>1
    <3>2. Covered(Target(k + 1))
      BY <2>1, <3>1 DEF PartitionInv, KeepsAhead
    <3>3. Target(k)' = Target(k + 1)
      BY <1>1, <3>1, TargetShifts DEF PartitionInv
    <3> QED
      BY <1>1, <3>2, <3>3 DEF Covered
  <2>5. ASSUME NEW m \in Month, NextMonth(m) = today' PROVE Covered(m)'
    <3>1. m = today
      BY <1>1, <2>5, OneMonthBefore DEF PartitionInv
    <3>2. 0 \in 0 .. MonthsAhead - lapse
      BY <2>1
    <3>3. Covered(today)
      BY <2>1, <3>2, ThisMonth DEF PartitionInv, KeepsAhead
    <3> QED
      BY <2>3, <3>1, <3>3
  <2> QED
    BY <2>2, <2>4, <2>5
<1> QED
  BY <1>2, <1>3 DEF PartitionInv, KeepsAhead

LEMMA PartitionSteps == PartitionInv /\ [PartitionNext]_partitionVars => PartitionInv'
<1> SUFFICES ASSUME PartitionInv, [PartitionNext]_partitionVars PROVE PartitionInv'
  OBVIOUS
<1>1. CASE UNCHANGED partitionVars
  BY <1>1 DEF partitionVars, PartitionInv, KeepsAhead, Covered, Target
<1>2. CASE ensure_audit_partitions
  BY <1>2, RunStep
<1>3. ASSUME NEW m \in Months, InsertEntry(m) PROVE PartitionInv'
  BY <1>3, InsertStep
<1>4. CASE MonthPasses
  BY <1>4, MonthStep
<1> QED
  BY <1>1, <1>2, <1>3, <1>4 DEF PartitionNext

-----------------------------------------------------------------------------
(* Conversations *)

Conv == [count : Nat, mark : Nat, cadence : Nat \ {0}, deleted : BOOLEAN]
Turn == [index : Nat, role : {"user", "summary"}, live : BOOLEAN]
Session == [step : {"idle", "stamp", "summary", "mark"}, role : {"user", "summary"},
            index : Nat, through : Nat]

ConvTypeOK ==
    /\ conv \in Conv /\ turns \subseteq Turn /\ IsFiniteSet(turns)
    /\ session \in [Sessions -> Session]
    /\ reader \in [after : Nat, seen : SUBSET Nat]
    /\ covered \subseteq Nat /\ doubled \in BOOLEAN /\ trouble \in Nat

\* A number names one turn.
Numbered ==
    /\ TurnsDense
    /\ \A t, u \in turns : t.index = u.index => t = u

\* A turn that is being stamped is the next one, and the only one; a summary
\* job covers turns there are, and once it has added its own, that comes after.
SessionFits(r) ==
    /\ r.step = "stamp" => r.index = conv.count + 1 /\ (r.role = "summary" <=> r.through > 0)
    /\ r.step \in {"summary", "mark"} => r.through > 0
    /\ r.step = "idle" => r.through = 0
    /\ r.through <= conv.count
    /\ r.step = "mark" =>
          r.through < conv.count /\ \E t \in turns : t.role = "summary" /\ t.index > r.through

OneStamps == \A r, s \in Sessions : session[r].step = "stamp" /\ session[s].step = "stamp" => r = s

CursorBehind == reader.after <= conv.count /\ CursorPassesNothing

Summaries == Cardinality(Turns("summary"))

\* What a summary job has to show for the turns it covers: two of them before
\* its own turn is there, as many as are covered then.
Paid(r) ==
    /\ r.step \in {"summary", "stamp"} /\ r.through > 0 => 2 * Summaries + 2 <= r.through + trouble
    /\ r.step = "mark" => 2 * Summaries <= r.through + trouble

\* Each summary that is done has moved the mark by two turns or more, unless
\* its job was lost, which is a trouble, or the conversation was deleted, and
\* then no further one begins.
Settled ==
    /\ conv.count > 0 => conv.mark < conv.count /\ 2 * Summaries <= conv.count - 1 + trouble
    /\ (\A s \in Sessions : ~Summarizing(s)) /\ ~conv.deleted =>
          2 * Summaries <= conv.mark + trouble \/ 2 * Summaries + 2 <= conv.count + trouble
    /\ \A s \in Sessions : Paid(session[s])
    /\ \A r, s \in Sessions : Summarizing(r) /\ Summarizing(s) => r = s

ConvInv ==
    /\ ConvTypeOK /\ Numbered /\ OneStamps /\ CursorBehind
    /\ conv.mark <= conv.count
    /\ \A s \in Sessions : SessionFits(session[s])
    /\ conv.cadence > 1 /\ ~doubled => Settled

LEMMA ConversationStarts == ConversationInit => ConvInv
<1> SUFFICES ASSUME ConversationInit PROVE ConvInv
  OBVIOUS
<1>1. /\ conv \in Conv /\ conv.count = 0 /\ conv.mark = 0 /\ turns = {} /\ IsFiniteSet(turns)
      /\ Cardinality(turns) = 0
  <2>1. PICK c \in Cadences : conv = [count |-> 0, mark |-> 0, cadence |-> c, deleted |-> FALSE]
    BY DEF ConversationInit
  <2>2. c \in Nat \ {0}
    BY ConversationAssumption
  <2> QED
    BY <2>1, <2>2, FS_EmptySet DEF ConversationInit, Conv
<1>2. Free \in Session /\ Free.step = "idle" /\ Free.through = 0
  BY DEF Free, Session
<1>3. ConvTypeOK
  BY <1>1, <1>2 DEF ConversationInit, ConvTypeOK
<1>4. Numbered
  BY <1>1 DEF ConversationInit, Numbered, TurnsDense, MarkStands
<1>5. OneStamps /\ (\A s \in Sessions : SessionFits(session[s]))
  BY <1>1, <1>2 DEF ConversationInit, OneStamps, SessionFits
<1>6. CursorBehind
  BY <1>1 DEF ConversationInit, CursorBehind, CursorPassesNothing
<1>7. Turns("summary") = {} /\ Summaries = 0
  BY <1>1, FS_EmptySet DEF Turns, Summaries
<1>8. trouble = 0
  BY DEF ConversationInit
<1>9. Settled
  BY <1>1, <1>2, <1>7, <1>8 DEF ConversationInit, Settled, Paid, Summarizing
<1> QED
  BY <1>1, <1>3, <1>4, <1>5, <1>6, <1>9 DEF ConvInv

LEMMA SummariesNat == ASSUME ConvInv PROVE Summaries \in Nat
<1>1. Turns("summary") \subseteq 1 .. conv.count /\ conv.count \in Nat
  BY DEF ConvInv, ConvTypeOK, Conv, Numbered, TurnsDense, Turns
<1> QED
  <2>1. IsFiniteSet(1 .. conv.count)
    BY <1>1, FS_Interval
  <2>2. IsFiniteSet(Turns("summary"))
    BY <1>1, <2>1, FS_Subset
  <2> QED
    BY <2>2, FS_CardinalityType DEF Summaries

\* The turns of summaries, forgotten or not, are never fewer.
SummariesStay ==
    \A t \in turns : t.role = "summary" => \E u \in turns' : u.role = "summary" /\ u.index = t.index

LEMMA MarkKept ==
    ASSUME ConvInv, SummariesStay, UNCHANGED covered, conv'.mark = conv.mark
    PROVE  MarkStands' /\ covered' \subseteq Nat
<1>1. MarkStands /\ covered \subseteq Nat
  BY DEF ConvInv, ConvTypeOK, Numbered, TurnsDense
<1>2. ASSUME NEW m \in covered PROVE \E u \in turns' : u.role = "summary" /\ u.index > m
  <2>1. PICK t \in turns : t.role = "summary" /\ t.index > m
    BY <1>1 DEF MarkStands
  <2>2. PICK u \in turns' : u.role = "summary" /\ u.index = t.index
    BY <2>1 DEF SummariesStay
  <2> QED
    BY <2>1, <2>2
<1> QED
  BY <1>1, <1>2 DEF MarkStands

LEMMA FitsKept ==
    ASSUME SummariesStay, NEW r, SessionFits(r), r.step # "stamp", r.through \in Nat,
           conv.count \in Nat, conv'.count \in Nat, conv.count <= conv'.count
    PROVE  SessionFits(r)'
<1>1. ASSUME r.step = "mark"
      PROVE  \E u \in turns' : u.role = "summary" /\ u.index > r.through
  <2>1. PICK t \in turns : t.role = "summary" /\ t.index > r.through
    BY <1>1 DEF SessionFits
  <2>2. PICK u \in turns' : u.role = "summary" /\ u.index = t.index
    BY <2>1 DEF SummariesStay
  <2> QED
    BY <2>1, <2>2
<1> QED
  BY <1>1 DEF SessionFits

\* A session goes on to r and the turns stay.
LEMMA SessionGoesOn ==
    ASSUME ConvInv, NEW s \in Sessions, NEW r \in Session, session' = [session EXCEPT ![s] = r],
           UNCHANGED <<turns, reader>>, conv' \in Conv, trouble' \in Nat, trouble' >= trouble,
           conv'.count = conv.count, conv'.mark >= conv.mark, conv'.mark <= conv.count,
           conv'.cadence = conv.cadence, doubled' \in BOOLEAN, doubled => doubled',
           MarkStands', covered' \subseteq Nat, SessionFits(r),
           r.step = "stamp" => \A u \in Sessions : session[u].step # "stamp",
           conv.cadence > 1 /\ ~doubled' =>
              /\ conv.count > 0 => conv'.mark < conv.count
              /\ r.through > 0 => \A u \in Sessions \ {s} : ~Summarizing(u)
              /\ r.step \in {"summary", "stamp"} /\ r.through > 0
                    => 2 * Summaries + 2 <= r.through + trouble'
              /\ r.step = "mark" => 2 * Summaries <= r.through + trouble'
              /\ r.through = 0 /\ (\A u \in Sessions \ {s} : ~Summarizing(u)) /\ ~conv'.deleted =>
                    2 * Summaries <= conv'.mark + trouble' \/ 2 * Summaries + 2 <= conv.count + trouble'
    PROVE  ConvInv'
<1>1. /\ conv \in Conv /\ conv.count \in Nat /\ conv.mark \in Nat /\ trouble \in Nat
      /\ conv'.mark \in Nat /\ conv'.count \in Nat
  BY DEF ConvInv, ConvTypeOK, Conv
<1>2. session'[s] = r /\ \A u \in Sessions \ {s} : session'[u] = session[u]
  BY DEF ConvInv, ConvTypeOK
<1>3. ConvTypeOK'
  BY DEF ConvInv, ConvTypeOK
<1>4. Numbered' /\ CursorBehind' /\ Summaries' = Summaries /\ Summaries \in Nat
  BY <1>1, SummariesNat
     DEF ConvInv, Numbered, TurnsDense, MarkStands, CursorBehind, CursorPassesNothing, Summaries, Turns
<1>5. OneStamps'
  BY <1>2 DEF ConvInv, OneStamps
<1>6. \A u \in Sessions : SessionFits(session[u])'
  BY <1>2 DEF ConvInv, SessionFits
<1>7. ASSUME conv.cadence > 1, ~doubled' PROVE Settled'
  <2>1. Settled /\ r.through \in Nat
    BY <1>7 DEF ConvInv, Session
  <2>2. conv'.count > 0 => conv'.mark < conv'.count
                           /\ 2 * Summaries' <= conv'.count - 1 + trouble'
    BY <1>1, <1>4, <1>7, <2>1 DEF Settled
  <2>3. /\ Summarizing(s)' <=> r.through > 0
        /\ \A u \in Sessions \ {s} : Summarizing(u)' <=> Summarizing(u)
    BY <1>2 DEF Summarizing
  <2>4. (\A u \in Sessions : ~Summarizing(u)') /\ ~conv'.deleted =>
          2 * Summaries' <= conv'.mark + trouble' \/ 2 * Summaries' + 2 <= conv'.count + trouble'
    BY <1>1, <1>4, <1>7, <2>1, <2>3
  <2>5. \A u \in Sessions : Paid(session[u])'
    <3> SUFFICES ASSUME NEW u \in Sessions PROVE Paid(session[u])'
      OBVIOUS
    <3>1. CASE u = s
      BY <1>2, <1>4, <1>7, <3>1 DEF Paid
    <3>2. CASE u # s
      <4>1. Paid(session[u]) /\ session[u] \in Session
        BY <2>1 DEF Settled, ConvInv, ConvTypeOK
      <4> QED
        BY <1>1, <1>2, <1>4, <3>2, <4>1 DEF Paid, Session
    <3> QED
      BY <3>1, <3>2
  <2>6. \A u, v \in Sessions : Summarizing(u)' /\ Summarizing(v)' => u = v
    BY <1>7, <2>1, <2>3 DEF Settled
  <2> QED
    BY <2>2, <2>4, <2>5, <2>6 DEF Settled
<1> QED
  BY <1>1, <1>3, <1>4, <1>5, <1>6, <1>7 DEF ConvInv

LEMMA FreeSession ==
    ASSUME ConvInv
    PROVE  Free \in Session /\ Free.step = "idle" /\ Free.through = 0 /\ SessionFits(Free)
  BY DEF ConvInv, ConvTypeOK, Conv, Free, Session, SessionFits

\* A session is done and the turns stay.
LEMMA SessionEnds ==
    ASSUME ConvInv, NEW s \in Sessions, session' = [session EXCEPT ![s] = Free],
           UNCHANGED <<turns, reader, doubled>>, conv' \in Conv, trouble' \in Nat, trouble' >= trouble,
           conv'.count = conv.count, conv'.mark >= conv.mark, conv'.mark <= conv.count,
           conv'.cadence = conv.cadence, MarkStands', covered' \subseteq Nat,
           conv.cadence > 1 /\ ~doubled =>
              /\ conv.count > 0 => conv'.mark < conv.count
              /\ (\A u \in Sessions \ {s} : ~Summarizing(u)) /\ ~conv'.deleted =>
                    2 * Summaries <= conv'.mark + trouble' \/ 2 * Summaries + 2 <= conv.count + trouble'
    PROVE  ConvInv'
<1> DEFINE r == Free
<1>1. r \in Session /\ r.step = "idle" /\ r.through = 0 /\ SessionFits(r)
  BY FreeSession
<1>2. session' = [session EXCEPT ![s] = r]
  OBVIOUS
<1>3. doubled' \in BOOLEAN /\ (doubled => doubled')
  BY DEF ConvInv, ConvTypeOK
<1>4. conv.cadence > 1 /\ ~doubled' =>
              /\ conv.count > 0 => conv'.mark < conv.count
              /\ r.through > 0 => \A u \in Sessions \ {s} : ~Summarizing(u)
              /\ r.step \in {"summary", "stamp"} /\ r.through > 0
                    => 2 * Summaries + 2 <= r.through + trouble'
              /\ r.step = "mark" => 2 * Summaries <= r.through + trouble'
              /\ r.through = 0 /\ (\A u \in Sessions \ {s} : ~Summarizing(u)) /\ ~conv'.deleted =>
                    2 * Summaries <= conv'.mark + trouble' \/ 2 * Summaries + 2 <= conv.count + trouble'
  BY <1>1
<1> HIDE DEF r
<1>5. r.step # "stamp"
  BY <1>1
<1> QED
  BY <1>1, <1>2, <1>3, <1>4, <1>5, SessionGoesOn

LEMMA BumpStep ==
    ASSUME ConvInv, NEW s \in Sessions, NEW role \in {"user", "summary"}, Bump(s, role),
           IF role = "summary" THEN session[s].step = "summary" ELSE session[s].step = "idle"
    PROVE  ConvInv'
<1>1. /\ LockFree /\ UNCHANGED <<conv, turns, reader, covered, doubled, trouble>>
      /\ session' = [session EXCEPT ![s] =
           IF conv.deleted THEN Free
           ELSE [session[s] EXCEPT !.step = "stamp", !.role = role, !.index = conv.count + 1]]
  BY DEF Bump, Goes
<1>2. session[s] \in Session /\ SessionFits(session[s]) /\ conv \in Conv /\ trouble \in Nat
      /\ doubled \in BOOLEAN
  BY DEF ConvInv, ConvTypeOK
<1>3. conv.count \in Nat /\ conv.mark \in Nat /\ conv.mark <= conv.count
  BY <1>2 DEF ConvInv, Conv
<1>4. conv.cadence > 1 /\ ~doubled => Settled
  BY DEF ConvInv
<1>7. MarkStands' /\ covered' \subseteq Nat
  BY <1>1, MarkKept DEF SummariesStay
<1>5. CASE conv.deleted
  <2>1. session' = [session EXCEPT ![s] = Free]
    BY <1>1, <1>5
  <2>2. conv.count > 0 /\ conv.cadence > 1 /\ ~doubled' => conv'.mark < conv.count
    BY <1>1, <1>4 DEF Settled
  <2>3. conv'.mark >= conv.mark /\ trouble' >= trouble
    BY <1>1, <1>2, <1>3
  <2> QED
    BY <1>1, <1>2, <1>3, <1>5, <1>7, <2>1, <2>2, <2>3, SessionEnds
<1>6. CASE ~conv.deleted
  <2> DEFINE r == [session[s] EXCEPT !.step = "stamp", !.role = role, !.index = conv.count + 1]
  <2>1. session' = [session EXCEPT ![s] = r]
    BY <1>1, <1>6
  <2>2. /\ r \in Session /\ r.step = "stamp" /\ r.role = role /\ r.index = conv.count + 1
        /\ r.through = session[s].through
    <3>1. conv.count + 1 \in Nat
      BY <1>3
    <3> QED
      BY <1>2, <3>1 DEF Session
  <2> HIDE DEF r
  <2>3. SessionFits(r)
    BY <1>2, <1>3, <2>2 DEF SessionFits
  <2>4. \A u \in Sessions : session[u].step # "stamp"
    BY <1>1 DEF LockFree
  <2>5. ASSUME conv.cadence > 1, ~doubled
        PROVE  /\ conv.count > 0 => conv'.mark < conv.count
               /\ r.through > 0 => \A u \in Sessions \ {s} : ~Summarizing(u)
               /\ r.step \in {"summary", "stamp"} /\ r.through > 0
                     => 2 * Summaries + 2 <= r.through + trouble'
               /\ r.through = 0 /\ (\A u \in Sessions \ {s} : ~Summarizing(u)) /\ ~conv'.deleted =>
                     2 * Summaries <= conv'.mark + trouble'
                        \/ 2 * Summaries + 2 <= conv.count + trouble'
    <3>1. Settled /\ Paid(session[s])
      BY <1>4, <2>5 DEF Settled
    <3>2. Summarizing(s) <=> r.through > 0
      BY <2>2 DEF Summarizing
    <3>3. r.through > 0 => session[s].step = "summary"
      BY <1>2, <2>2 DEF SessionFits
    <3>4. r.through > 0 => 2 * Summaries + 2 <= r.through + trouble'
      BY <1>1, <2>2, <3>1, <3>3 DEF Paid
    <3>5. r.through = 0 => ~Summarizing(s)
      BY <3>2
    <3> QED
      BY <1>1, <1>3, <3>1, <3>2, <3>4, <3>5 DEF Settled
  <2>6. conv'.mark >= conv.mark /\ trouble' >= trouble
    BY <1>1, <1>2, <1>3
  <2> QED
    BY <1>1, <1>2, <1>3, <1>7, <2>1, <2>2, <2>3, <2>4, <2>5, <2>6, SessionGoesOn
<1> QED
  BY <1>5, <1>6

LEMMA RollBackStep == ASSUME ConvInv, NEW s \in Sessions, RollBack(s) PROVE ConvInv'
<1>1. /\ session' = [session EXCEPT ![s] = Free] /\ trouble' = trouble + 1
      /\ UNCHANGED <<conv, turns, reader, covered, doubled>>
  BY DEF RollBack, Goes, Trouble
<1>2. /\ session[s] \in Session /\ SessionFits(session[s]) /\ conv \in Conv /\ trouble \in Nat
      /\ doubled \in BOOLEAN
  BY DEF ConvInv, ConvTypeOK
<1>3. conv.count \in Nat /\ conv.mark \in Nat /\ conv.mark <= conv.count /\ Summaries \in Nat
  BY <1>2, SummariesNat DEF ConvInv, Conv
<1>4. ASSUME conv.cadence > 1, ~doubled
      PROVE  /\ conv.count > 0 => conv'.mark < conv.count
             /\ (\A u \in Sessions \ {s} : ~Summarizing(u)) /\ ~conv'.deleted =>
                   2 * Summaries <= conv'.mark + trouble'
                      \/ 2 * Summaries + 2 <= conv.count + trouble'
  <2>1. Settled /\ Paid(session[s])
    BY <1>4 DEF ConvInv, Settled
  <2>2. conv.count > 0 => conv'.mark < conv.count
    BY <1>1, <2>1 DEF Settled
  <2>3. CASE session[s].through = 0
    BY <1>1, <1>3, <1>2, <2>1, <2>2, <2>3 DEF Settled, Summarizing
  <2>4. CASE session[s].through # 0
    <3>1. session[s].through \in Nat /\ session[s].through > 0
      BY <1>2, <2>4 DEF Session
    <3>2. CASE session[s].step = "mark"
      BY <1>1, <1>2, <1>3, <2>1, <2>2, <3>1, <3>2 DEF Paid, SessionFits
    <3>3. CASE session[s].step \in {"summary", "stamp"}
      BY <1>1, <1>2, <1>3, <2>1, <2>2, <3>1, <3>3 DEF Paid, SessionFits
    <3> QED
      BY <1>2, <3>1, <3>2, <3>3 DEF Session, SessionFits
  <2> QED
    BY <2>3, <2>4
<1>5. conv'.mark >= conv.mark /\ trouble' >= trouble /\ trouble' \in Nat
  BY <1>1, <1>2, <1>3
<1>6. MarkStands' /\ covered' \subseteq Nat
  BY <1>1, MarkKept DEF SummariesStay
<1> QED
  BY <1>1, <1>2, <1>3, <1>4, <1>5, <1>6, SessionEnds

LEMMA StartStep == ASSUME ConvInv, NEW s \in Sessions, StartSummary(s) PROVE ConvInv'
<1> DEFINE r == [Free EXCEPT !.step = "summary", !.through = conv.count]
<1>1. /\ session' = [session EXCEPT ![s] = r] /\ UNCHANGED <<conv, turns, reader, covered, trouble>>
      /\ session[s].step = "idle" /\ ~conv.deleted /\ needs_summary
      /\ doubled' = (doubled \/ \E u \in Sessions : Summarizing(u))
  BY DEF StartSummary, Goes
<1>2. /\ session[s] \in Session /\ SessionFits(session[s]) /\ conv \in Conv /\ trouble \in Nat
      /\ doubled \in BOOLEAN
  BY DEF ConvInv, ConvTypeOK
<1>3. /\ conv.count \in Nat /\ conv.mark \in Nat /\ conv.mark <= conv.count /\ Summaries \in Nat
      /\ conv.cadence \in Nat \ {0}
  BY <1>2, SummariesNat DEF ConvInv, Conv
<1>4. r \in Session /\ r.step = "summary" /\ r.through = conv.count
  BY <1>3 DEF Free, Session
<1> HIDE DEF r
<1>5. conv.count > 0 /\ conv.mark + conv.cadence <= conv.count
  BY <1>1, <1>3 DEF needs_summary
<1>6. SessionFits(r)
  BY <1>3, <1>4, <1>5 DEF SessionFits
<1>7. ASSUME conv.cadence > 1, ~doubled'
      PROVE  /\ conv'.mark < conv.count
             /\ \A u \in Sessions \ {s} : ~Summarizing(u)
             /\ 2 * Summaries + 2 <= conv.count + trouble'
  <2>1. Settled /\ \A u \in Sessions : ~Summarizing(u)
    BY <1>1, <1>7 DEF ConvInv
  <2>2. 2 * Summaries <= conv.mark + trouble \/ 2 * Summaries + 2 <= conv.count + trouble
    BY <1>1, <2>1 DEF Settled
  <2> QED
    BY <1>1, <1>2, <1>3, <1>5, <1>7, <2>1, <2>2 DEF Settled
<1>8. conv'.mark >= conv.mark /\ trouble' >= trouble /\ doubled' \in BOOLEAN
  BY <1>1, <1>2, <1>3
<1>9. MarkStands' /\ covered' \subseteq Nat
  BY <1>1, MarkKept DEF SummariesStay
<1> QED
  BY <1>1, <1>2, <1>3, <1>4, <1>5, <1>6, <1>7, <1>8, <1>9, SessionGoesOn

LEMMA MarkStep == ASSUME ConvInv, NEW s \in Sessions, mark_summary_emitted(s) PROVE ConvInv'
<1>1. /\ session' = [session EXCEPT ![s] = Free] /\ UNCHANGED <<turns, reader, doubled, trouble>>
      /\ session[s].step = "mark"
      /\ IF conv.deleted THEN UNCHANGED <<conv, covered>>
         ELSE /\ conv' = [conv EXCEPT !.mark = GREATEST(@, session[s].through)]
              /\ covered' = covered \cup {session[s].through}
  BY DEF mark_summary_emitted, Goes
<1>2. /\ session[s] \in Session /\ SessionFits(session[s]) /\ conv \in Conv /\ trouble \in Nat
      /\ doubled \in BOOLEAN
  BY DEF ConvInv, ConvTypeOK
<1>3. /\ conv.count \in Nat /\ conv.mark \in Nat /\ conv.mark <= conv.count /\ Summaries \in Nat
      /\ session[s].through \in Nat /\ session[s].through < conv.count
  BY <1>1, <1>2, SummariesNat DEF ConvInv, Conv, Session, SessionFits
<1>4. /\ conv' \in Conv /\ conv'.count = conv.count /\ conv'.cadence = conv.cadence
      /\ conv'.deleted = conv.deleted
      /\ conv'.mark = IF conv.deleted \/ session[s].through <= conv.mark THEN conv.mark
                      ELSE session[s].through
  BY <1>1, <1>2, <1>3 DEF Conv, GREATEST
<1>5. conv'.mark >= conv.mark /\ conv'.mark <= conv.count /\ trouble' >= trouble
  BY <1>1, <1>2, <1>3, <1>4
<1>7. MarkStands' /\ covered' \subseteq Nat
  <2>1. MarkStands /\ covered \subseteq Nat
    BY DEF ConvInv, ConvTypeOK, Numbered, TurnsDense
  <2>2. \E t \in turns : t.role = "summary" /\ t.index > session[s].through
    BY <1>1, <1>2 DEF SessionFits
  <2>3. covered' = IF conv.deleted THEN covered ELSE covered \cup {session[s].through}
    BY <1>1
  <2>4. turns' = turns
    BY <1>1
  <2>5. covered' \subseteq Nat /\ \A m \in covered' : \E t \in turns' : t.role = "summary" /\ t.index > m
    BY <1>3, <2>1, <2>2, <2>3, <2>4 DEF MarkStands
  <2>6. conv'.mark \in covered' \cup {0} /\ \A m \in covered' : m <= conv'.mark
    BY <1>3, <1>4, <2>1, <2>3 DEF MarkStands
  <2> QED
    BY <2>5, <2>6 DEF MarkStands
<1>6. ASSUME conv.cadence > 1, ~doubled
      PROVE  /\ conv'.mark < conv.count
             /\ ~conv'.deleted => 2 * Summaries <= conv'.mark + trouble'
  <2>1. Settled /\ Paid(session[s])
    BY <1>6 DEF ConvInv, Settled
  <2>2. 2 * Summaries <= session[s].through + trouble /\ conv.mark < conv.count
    BY <1>1, <1>3, <2>1 DEF Paid, Settled
  <2> QED
    BY <1>1, <1>2, <1>3, <1>4, <2>2
<1> QED
  BY <1>1, <1>2, <1>3, <1>4, <1>5, <1>6, <1>7, SessionEnds

LEMMA DeleteStep == ASSUME ConvInv, delete_conversation PROVE ConvInv'
<1>1. /\ conv' = [conv EXCEPT !.deleted = TRUE]
      /\ UNCHANGED <<turns, session, reader, covered, doubled, trouble>>
  BY DEF delete_conversation
<1>2. conv \in Conv
  BY DEF ConvInv, ConvTypeOK
<1>3. /\ conv' \in Conv /\ conv'.count = conv.count /\ conv'.cadence = conv.cadence
      /\ conv'.mark = conv.mark /\ conv'.deleted
  BY <1>1, <1>2 DEF Conv
<1> QED
  BY <1>1, <1>3 DEF ConvInv, ConvTypeOK, Numbered, TurnsDense, MarkStands, OneStamps, CursorBehind,
                    CursorPassesNothing, SessionFits, Settled, Paid, Summaries, Turns, Summarizing

LEMMA ForgetStep == ASSUME ConvInv, NEW t \in turns, ForgetTurn(t) PROVE ConvInv'
<1> DEFINE u == [t EXCEPT !.live = FALSE]
<1>1. /\ turns' = (turns \ {t}) \cup {u} /\ t.live /\ trouble' = trouble + 1
      /\ UNCHANGED <<conv, session, reader, covered, doubled>>
  BY DEF ForgetTurn, Trouble
<1>2. t \in Turn /\ turns \subseteq Turn /\ IsFiniteSet(turns) /\ trouble \in Nat
  BY DEF ConvInv, ConvTypeOK
<1>3. u \in Turn /\ u.index = t.index /\ u.role = t.role /\ u.live = FALSE
  BY <1>2 DEF Turn
<1>4. u \notin turns
  BY <1>1, <1>3 DEF ConvInv, Numbered
<1> HIDE DEF u
<1>5. IsFiniteSet(turns') /\ Cardinality(turns') = Cardinality(turns)
  <2>1. IsFiniteSet(turns \ {t}) /\ Cardinality(turns \ {t}) = Cardinality(turns) - 1
    BY <1>2, FS_RemoveElement
  <2>2. u \notin turns \ {t} /\ Cardinality(turns) \in Nat
    BY <1>2, <1>4, FS_CardinalityType
  <2>3. /\ IsFiniteSet((turns \ {t}) \cup {u})
        /\ Cardinality((turns \ {t}) \cup {u}) = Cardinality(turns \ {t}) + 1
    BY <2>1, <2>2, FS_AddElement
  <2> QED
    BY <1>1, <2>1, <2>2, <2>3
<1>6. /\ {x.index : x \in turns'} = {x.index : x \in turns}
      /\ \A role : Turns(role)' = Turns(role)
  BY <1>1, <1>3 DEF Turns
<1>7. \A x, y \in turns' : x.index = y.index => x = y
  BY <1>1, <1>3 DEF ConvInv, Numbered
<1>13. SummariesStay
  BY <1>1, <1>3 DEF SummariesStay
<1>8. Numbered'
  <2>1. MarkStands'
    BY <1>1, <1>13, MarkKept
  <2> QED
    BY <1>1, <1>5, <1>6, <1>7, <2>1 DEF ConvInv, Numbered, TurnsDense
<1>9. CursorBehind'
  BY <1>1, <1>3 DEF ConvInv, CursorBehind, CursorPassesNothing
<1>10. ConvTypeOK'
  BY <1>1, <1>2, <1>3, <1>5 DEF ConvInv, ConvTypeOK
<1>11. Summaries' = Summaries /\ Summaries \in Nat /\ conv.count \in Nat /\ conv.mark \in Nat
       /\ \A s \in Sessions : session[s] \in Session
  BY <1>6, SummariesNat DEF Summaries, ConvInv, ConvTypeOK, Conv
<1>12. Settled => Settled'
  <2> SUFFICES ASSUME Settled PROVE Settled'
    OBVIOUS
  <2>1. \A s \in Sessions : Paid(session[s])'
    BY <1>1, <1>2, <1>11 DEF Settled, Paid, Session
  <2> QED
    BY <1>1, <1>2, <1>11, <2>1 DEF Settled, Summarizing
<1>14. ASSUME NEW s \in Sessions PROVE SessionFits(session[s])'
  <2>1. SessionFits(session[s]) /\ session[s] \in Session /\ conv' = conv /\ session' = session
    BY <1>1, <1>11 DEF ConvInv
  <2>2. ASSUME session[s].step = "mark"
        PROVE  \E x \in turns' : x.role = "summary" /\ x.index > session[s].through
    <3>1. PICK x \in turns : x.role = "summary" /\ x.index > session[s].through
      BY <2>1, <2>2 DEF SessionFits
    <3>2. PICK y \in turns' : y.role = "summary" /\ y.index = x.index
      BY <1>13, <3>1 DEF SummariesStay
    <3> QED
      BY <3>1, <3>2
  <2> QED
    BY <2>1, <2>2 DEF SessionFits
<1> QED
  BY <1>1, <1>8, <1>9, <1>10, <1>12, <1>14 DEF ConvInv, OneStamps

\* A page leaves out no turn up to its last one.
LEMMA PageStep == ASSUME ConvInv, ReadPage PROVE ConvInv'
<1> DEFINE after == reader.after
           page == list_turns(after)
<1>1. PICK last \in page : /\ \A i \in page : i <= last
                           /\ reader' = [after |-> last, seen |-> reader.seen \cup page]
                           /\ UNCHANGED <<conv, turns, session, covered, doubled, trouble>>
  BY DEF ReadPage
<1>2. /\ reader \in [after : Nat, seen : SUBSET Nat] /\ turns \subseteq Turn /\ conv.count \in Nat
      /\ {t.index : t \in turns} = 1 .. conv.count
  BY DEF ConvInv, ConvTypeOK, Conv, Numbered, TurnsDense
<1>3. page \subseteq AfterTurn(after) /\ AfterTurn(after) \subseteq 1 .. conv.count
      /\ IsFiniteSet(AfterTurn(after))
  <2>1. page \subseteq AfterTurn(after) /\ AfterTurn(after) \subseteq 1 .. conv.count
    BY <1>2 DEF list_turns, AfterTurn
  <2>2. IsFiniteSet(1 .. conv.count)
    BY <1>2, FS_Interval
  <2> QED
    BY <2>1, <2>2, FS_Subset
<1>4. ASSUME NEW t \in turns, t.live, t.index <= last PROVE t.index \in reader.seen \cup page
  <2>1. t.index \in Nat /\ last \in Nat /\ after \in Nat
    BY <1>1, <1>2, <1>3 DEF Turn
  <2>2. CASE t.index <= after
    BY <1>4, <2>2 DEF ConvInv, CursorBehind, CursorPassesNothing
  <2>3. CASE t.index > after
    <3> DEFINE below(i) == {j \in AfterTurn(after) : j < i}
    <3>1. t.index \in AfterTurn(after)
      BY <1>4, <2>3 DEF AfterTurn
    <3>2. below(t.index) \subseteq below(last)
      <4> SUFFICES ASSUME NEW j \in AfterTurn(after), j < t.index PROVE j < last
        OBVIOUS
      <4>1. j \in Nat
        BY <1>3
      <4> QED
        BY <1>4, <2>1, <4>1
    <3>3. IsFiniteSet(below(last)) /\ below(last) \subseteq AfterTurn(after)
      <4>1. below(last) \subseteq AfterTurn(after)
        OBVIOUS
      <4> HIDE DEF below
      <4> QED
        BY <1>3, <4>1, FS_Subset
    <3>4. Cardinality(below(last)) < PageSize
      BY <1>1 DEF list_turns
    <3> HIDE DEF below
    <3>5. Cardinality(below(t.index)) <= Cardinality(below(last))
      BY <3>2, <3>3, FS_Subset
    <3>6. Cardinality(below(t.index)) \in Nat /\ Cardinality(below(last)) \in Nat
      BY <3>2, <3>3, FS_Subset, FS_CardinalityType
    <3>7. Cardinality(below(t.index)) < PageSize
      BY <3>4, <3>5, <3>6, ConversationAssumption
    <3> QED
      BY <3>1, <3>7 DEF list_turns, below
  <2> QED
    BY <2>1, <2>2, <2>3
<1>5. CursorBehind'
  <2>1. last <= conv.count /\ last \in Nat
    BY <1>1, <1>2, <1>3
  <2> HIDE DEF page
  <2> QED
    BY <1>1, <1>4, <2>1 DEF CursorBehind, CursorPassesNothing
<1>6. reader' \in [after : Nat, seen : SUBSET Nat]
  BY <1>1, <1>2, <1>3
<1> HIDE DEF page
<1> QED
  BY <1>1, <1>5, <1>6 DEF ConvInv, ConvTypeOK, Numbered, TurnsDense, MarkStands, OneStamps, SessionFits,
                          Settled, Paid, Summaries, Turns, Summarizing

\* The turn that is stamped becomes the last one.
LEMMA CommitStep == ASSUME ConvInv, NEW s \in Sessions, CommitTurn(s) PROVE ConvInv'
<1> DEFINE r == session[s]
           q == IF r.role = "summary" THEN [r EXCEPT !.step = "mark"] ELSE Free
           new == [index |-> r.index, role |-> r.role, live |-> TRUE]
           n == conv.count
<1>1. /\ r.step = "stamp" /\ conv' = [conv EXCEPT !.count = r.index] /\ turns' = turns \cup {new}
      /\ session' = [session EXCEPT ![s] = q] /\ UNCHANGED <<reader, covered, doubled, trouble>>
  BY DEF CommitTurn, Goes
<1>2. /\ r \in Session /\ SessionFits(r) /\ conv \in Conv /\ turns \subseteq Turn
      /\ IsFiniteSet(turns) /\ trouble \in Nat /\ doubled \in BOOLEAN
  BY DEF ConvInv, ConvTypeOK
<1>3. /\ n \in Nat /\ conv.mark \in Nat /\ conv.mark <= n /\ r.index = n + 1 /\ r.through \in Nat
      /\ r.through <= n /\ (r.role = "summary" <=> r.through > 0) /\ Summaries \in Nat
  BY <1>1, <1>2, SummariesNat DEF ConvInv, Conv, Session, SessionFits
<1>4. new \in Turn /\ new.index = n + 1 /\ new.role = r.role /\ new \notin turns
  <2>1. new \in Turn /\ new.index = n + 1 /\ new.role = r.role
    BY <1>2, <1>3 DEF Turn, Session
  <2>2. \A t \in turns : t.index \in 1 .. n
    BY DEF ConvInv, Numbered, TurnsDense
  <2>3. n + 1 \notin 1 .. n
    BY <1>3
  <2> HIDE DEF new
  <2> QED
    BY <2>1, <2>2, <2>3
<1>5. /\ conv' \in Conv /\ conv'.count = n + 1 /\ conv'.mark = conv.mark
      /\ conv'.cadence = conv.cadence /\ conv'.deleted = conv.deleted
  <2>1. n + 1 \in Nat
    BY <1>3
  <2> QED
    BY <1>1, <1>2, <1>3, <2>1 DEF Conv
<1>6. q \in Session /\ q.through = r.through /\ q.step = IF r.role = "summary" THEN "mark" ELSE "idle"
  <2>1. CASE r.role = "summary"
    BY <1>2, <2>1 DEF Session
  <2>2. CASE r.role # "summary"
    <3>1. q = Free /\ r.through = 0
      BY <1>3, <2>2
    <3> QED
      BY <2>2, <3>1, FreeSession
  <2> QED
    BY <2>1, <2>2
<1> HIDE DEF q, new
<1>7. session'[s] = q /\ \A u \in Sessions \ {s} : session'[u] = session[u] /\ session[u].step # "stamp"
  BY <1>1 DEF ConvInv, ConvTypeOK, OneStamps
<1>8. /\ IsFiniteSet(turns') /\ Cardinality(turns') = Cardinality(turns) + 1
  BY <1>1, <1>2, <1>4, FS_AddElement
<1>9. {t.index : t \in turns'} = 1 .. n + 1
  <2>1. {t.index : t \in turns'} = {t.index : t \in turns} \cup {n + 1}
    BY <1>1, <1>4
  <2>2. {t.index : t \in turns} = 1 .. n
    BY DEF ConvInv, Numbered, TurnsDense
  <2>3. (1 .. n) \cup {n + 1} = 1 .. n + 1
    BY <1>3
  <2> QED
    BY <2>1, <2>2, <2>3
<1>17. SummariesStay /\ MarkStands'
  <2>1. SummariesStay
    BY <1>1 DEF SummariesStay
  <2> QED
    BY <1>1, <1>5, <2>1, MarkKept
<1>10. Numbered'
  <2>1. Cardinality(turns) = n /\ {t.index : t \in turns} = 1 .. n
    BY DEF ConvInv, Numbered, TurnsDense
  <2>2. \A t \in turns : t.index # n + 1
    BY <1>3, <2>1
  <2>3. \A t, u \in turns' : t.index = u.index => t = u
    BY <1>1, <1>4, <2>2 DEF ConvInv, Numbered
  <2> QED
    BY <1>3, <1>5, <1>8, <1>9, <1>17, <2>1, <2>3 DEF Numbered, TurnsDense
<1>11. OneStamps' /\ \A u \in Sessions : SessionFits(session[u])'
  <2>1. q.step # "stamp"
    BY <1>6
  <2>2. OneStamps'
    BY <1>7, <2>1 DEF OneStamps
  <2>3. SessionFits(session[s])'
    <3>1. q.step \in {"mark", "idle"} /\ q.through <= n + 1
      BY <1>3, <1>6
    <3>2. q.step = "idle" => q.through = 0
      BY <1>3, <1>6
    <3>3. q.step = "mark" => q.through > 0 /\ q.through < n + 1 /\ new.role = "summary"
                             /\ new.index > q.through /\ new \in turns'
      BY <1>1, <1>3, <1>4, <1>6
    <3> QED
      BY <1>5, <1>7, <3>1, <3>2, <3>3 DEF SessionFits
  <2>4. ASSUME NEW u \in Sessions \ {s} PROVE SessionFits(session[u])'
    <3>1. SessionFits(session[u]) /\ session[u] \in Session
      BY DEF ConvInv, ConvTypeOK
    <3>2. session'[u] = session[u] /\ session[u].step # "stamp" /\ session[u].through \in Nat
      BY <1>7, <3>1 DEF Session
    <3>3. ASSUME session[u].step = "mark"
          PROVE  \E x \in turns' : x.role = "summary" /\ x.index > session[u].through
      BY <1>1, <3>1, <3>3 DEF SessionFits
    <3> QED
      BY <1>3, <1>5, <3>1, <3>2, <3>3 DEF SessionFits
  <2> QED
    BY <1>7, <2>2, <2>3, <2>4
<1>12. CursorBehind'
  <2>1. reader.after <= n /\ reader.after \in Nat
    BY DEF ConvInv, CursorBehind, ConvTypeOK
  <2> QED
    BY <1>1, <1>3, <1>4, <1>5, <2>1 DEF ConvInv, CursorBehind, CursorPassesNothing
<1>13. ConvTypeOK'
  BY <1>1, <1>2, <1>4, <1>5, <1>6, <1>8 DEF ConvInv, ConvTypeOK
<1>14. Summaries' = IF r.role = "summary" THEN Summaries + 1 ELSE Summaries
  <2>1. IsFiniteSet(Turns("summary")) /\ n + 1 \notin Turns("summary")
    <3>1. Turns("summary") \subseteq 1 .. n
      BY DEF ConvInv, Numbered, TurnsDense, Turns
    <3>2. IsFiniteSet(1 .. n)
      <4>1. n \in Int /\ 1 \in Int
        BY <1>3
      <4> HIDE DEF n
      <4> QED
        BY <4>1, FS_Interval
    <3>3. n + 1 \notin 1 .. n
      BY <1>3
    <3> QED
      BY <3>1, <3>2, <3>3, FS_Subset
  <2>2. Turns("summary")' = IF r.role = "summary" THEN Turns("summary") \cup {n + 1}
                            ELSE Turns("summary")
    BY <1>1, <1>4 DEF Turns
  <2> QED
    BY <2>1, <2>2, FS_AddElement DEF Summaries
<1>15. ASSUME conv.cadence > 1, ~doubled PROVE Settled'
  <2>1. Settled /\ Paid(r)
    BY <1>15 DEF ConvInv, Settled
  <2>2. /\ Summarizing(s)' <=> r.through > 0
        /\ Summarizing(s) <=> r.through > 0
        /\ \A u \in Sessions \ {s} : Summarizing(u)' <=> Summarizing(u)
    BY <1>6, <1>7 DEF Summarizing
  <2>3. CASE r.role = "summary"
    <3>1. 2 * Summaries + 2 <= r.through + trouble /\ Summaries' = Summaries + 1
      BY <1>1, <1>3, <1>14, <2>1, <2>3 DEF Paid
    <3>2. \A u \in Sessions \ {s} : ~Summarizing(u)
      BY <1>3, <2>1, <2>2, <2>3 DEF Settled
    <3>3. ASSUME NEW u \in Sessions PROVE Paid(session[u])'
      <4>1. CASE u = s
        BY <1>1, <1>3, <1>6, <1>7, <2>3, <3>1, <4>1 DEF Paid
      <4>2. CASE u # s
        <5>1. session'[u] = session[u] /\ session[u].through = 0 /\ session[u].step # "mark"
          BY <1>7, <3>2, <4>2 DEF Summarizing, ConvInv, ConvTypeOK, Session, SessionFits
        <5> QED
          BY <5>1 DEF Paid
      <4> QED
        BY <4>1, <4>2
    <3>4. conv'.mark < conv'.count /\ 2 * Summaries' <= conv'.count - 1 + trouble'
      BY <1>1, <1>2, <1>3, <1>5, <3>1
    <3>5. Summarizing(s)'
      BY <1>3, <2>2, <2>3
    <3> QED
      BY <2>1, <2>2, <3>2, <3>3, <3>4, <3>5 DEF Settled
  <2>4. CASE r.role # "summary"
    <3>1. Summaries' = Summaries /\ r.through = 0
      BY <1>3, <1>14, <2>4
    <3>2. conv'.mark < conv'.count
      BY <1>3, <1>5
    <3>3. 2 * Summaries' <= conv'.count - 1 + trouble'
      <4>1. CASE n > 0
        BY <1>1, <1>2, <1>3, <1>5, <2>1, <3>1, <4>1 DEF Settled
      <4>2. CASE n = 0
        <5>1. Turns("summary") = {}
          BY <4>2 DEF ConvInv, Numbered, TurnsDense, Turns
        <5>2. Summaries = 0
          BY <5>1, FS_EmptySet DEF Summaries
        <5> QED
          BY <1>1, <1>2, <1>3, <1>5, <3>1, <4>2, <5>2
      <4> QED
        BY <1>3, <4>1, <4>2
    <3>4. (\A u \in Sessions : ~Summarizing(u)') /\ ~conv'.deleted =>
            2 * Summaries' <= conv'.mark + trouble' \/ 2 * Summaries' + 2 <= conv'.count + trouble'
      BY <1>1, <1>2, <1>3, <1>5, <2>1, <2>2, <3>1 DEF Settled
    <3>5. \A u \in Sessions : Paid(session[u])'
      BY <1>1, <1>6, <1>7, <2>1, <2>4, <3>1 DEF Settled, Paid
    <3>6. \A u, v \in Sessions : Summarizing(u)' /\ Summarizing(v)' => u = v
      BY <2>1, <2>2 DEF Settled
    <3> QED
      BY <3>2, <3>3, <3>4, <3>5, <3>6 DEF Settled
  <2> QED
    BY <2>3, <2>4
<1>16. conv'.mark <= conv'.count
  BY <1>3, <1>5
<1> QED
  BY <1>1, <1>5, <1>10, <1>11, <1>12, <1>13, <1>15, <1>16 DEF ConvInv

LEMMA ConversationSteps == ConvInv /\ [ConversationNext]_conversationVars => ConvInv'
<1> SUFFICES ASSUME ConvInv, [ConversationNext]_conversationVars PROVE ConvInv'
  OBVIOUS
<1>1. CASE UNCHANGED conversationVars
  BY <1>1 DEF conversationVars, ConvInv, ConvTypeOK, Numbered, TurnsDense, MarkStands, OneStamps, CursorBehind,
              CursorPassesNothing, SessionFits, Settled, Paid, Summaries, Turns, Summarizing
<1>2. ASSUME NEW s \in Sessions, ConversationStep(s) PROVE ConvInv'
  <2>1. ASSUME add_turn(s) PROVE ConvInv'
    BY <2>1, BumpStep DEF add_turn
  <2>2. ASSUME AddSummary(s) PROVE ConvInv'
    BY <2>2, BumpStep DEF AddSummary
  <2> QED
    BY <1>2, <2>1, <2>2, CommitStep, RollBackStep, StartStep, MarkStep DEF ConversationStep
<1>3. ASSUME NEW t \in turns, ForgetTurn(t) PROVE ConvInv'
  BY <1>3, ForgetStep
<1> QED
  BY <1>1, <1>2, <1>3, DeleteStep, PageStep DEF ConversationNext

\* The invariant of the summaries is what SummariesSettle says.
LEMMA SettledMeans == ConvInv => SummariesSettle
<1> SUFFICES ASSUME ConvInv, conv.cadence > 1, ~doubled, turns # {}
             PROVE  Cardinality(Turns("summary")) <= Cardinality(Turns("user")) + trouble - 1
  BY DEF SummariesSettle
<1> DEFINE n == conv.count
           S == Turns("summary")
           U == Turns("user")
<1>1. n \in Nat /\ trouble \in Nat /\ turns \subseteq Turn /\ {t.index : t \in turns} = 1 .. n
  BY DEF ConvInv, ConvTypeOK, Conv, Numbered, TurnsDense
<1>2. n > 0
  BY <1>1
<1>3. S \cup U = 1 .. n /\ S \cap U = {}
  <2>1. S \cup U = {t.index : t \in turns}
    BY <1>1 DEF Turns, Turn
  <2>2. S \cap U = {}
    BY DEF Turns, ConvInv, Numbered
  <2> QED
    BY <1>1, <2>1, <2>2
<1>4. IsFiniteSet(1 .. n) /\ Cardinality(1 .. n) = n
  BY <1>1, FS_Interval
<1> HIDE DEF S, U
<1>5. IsFiniteSet(S) /\ IsFiniteSet(U)
  BY <1>3, <1>4, FS_Subset
<1>6. Cardinality(S \cup U) = Cardinality(S) + Cardinality(U) - Cardinality(S \cap U)
  BY <1>5, FS_Union
<1>7. Cardinality(S) \in Nat /\ Cardinality(U) \in Nat /\ Cardinality(S \cap U) = 0
  BY <1>3, <1>5, FS_CardinalityType, FS_EmptySet
<1>8. Cardinality(S) + Cardinality(U) = n
  <2>1. Cardinality(S \cup U) = n
    BY <1>3, <1>4
  <2> QED
    BY <1>1, <1>6, <1>7, <2>1
<1>9. 2 * Cardinality(S) <= n - 1 + trouble
  BY <1>2 DEF ConvInv, Settled, Summaries, S
<1> QED
  BY <1>1, <1>7, <1>8, <1>9 DEF S, U

-----------------------------------------------------------------------------
(* Records *)

PartsInv == RouterInv /\ ReadInv /\ LedgerInv /\ WalkFits /\ PartitionInv /\ ConvInv

\* The parts share nothing: a step of one leaves the others as they are.
LEMMA PartsHold == Spec => []PartsInv
<1>1. Init => PartsInv
  BY RouterStarts, ReadStarts, LedgerStarts, WalkStarts, PartitionsStart, ConversationStarts
  DEF Init, PartsInv
<1>2. PartsInv /\ [Next]_vars => PartsInv'
  <2> SUFFICES ASSUME PartsInv, [Next]_vars PROVE PartsInv'
    OBVIOUS
  <2>1. /\ [RouterNext]_routerVars /\ [ReadNext]_readVars /\ [PartitionNext]_partitionVars
        /\ [ConversationNext]_conversationVars
    BY DEF Next, vars
  <2> QED
    BY <2>1, RouterSteps, ReadSteps, LedgerSteps, WalkSteps, PartitionSteps, ConversationSteps
    DEF PartsInv
<1> QED
  BY <1>1, <1>2, PTL DEF Spec

\* Turns of a conversation are numbered from one without a gap or a repetition,
\* whoever adds them and whichever of them are forgotten or rolled back
\* (add_turn, add_summary).
THEOREM TurnsStayDense == Spec => []TurnsDense
<1>1. PartsInv => TurnsDense
  BY DEF PartsInv, ConvInv, Numbered
<1> QED
  BY <1>1, PartsHold, PTL

\* A reader of list_turns that goes on after the last turn of each page passes no
\* live turn by, even when turns are added and forgotten between two pages.
THEOREM PagesPassNoTurn == Spec => []CursorPassesNothing
<1>1. PartsInv => CursorPassesNothing
  BY DEF PartsInv, ConvInv, CursorBehind
<1> QED
  BY <1>1, PartsHold, PTL

\* Summaries do not feed on themselves: with a cadence above one there are fewer
\* than turns of the users, but for marks lost in a rollback and for jobs that
\* covered the same turns.
THEOREM SummariesStaySettled == Spec => []SummariesSettle
<1>1. PartsInv => SummariesSettle
  BY SettledMeans DEF PartsInv
<1> QED
  BY <1>1, PartsHold, PTL

\* A walk through the audit log returns every entry that was logged when it
\* began, and by cursor repeats none, whatever drains commit meanwhile: by page
\* number and after a first page under the conditions that Sure names.
THEOREM WalksAreComplete == Spec => []WalkComplete
<1>1. PartsInv => WalkComplete
  BY DEF PartsInv, WalkFits
<1> QED
  BY <1>1, PartsHold, PTL

\* verify_chain calls provenance broken only when a drain has just moved the
\* audit entry into the table that was asked first.
THEOREM BrokenOnlyInPassing == Spec => []VerdictHonest
<1>1. PartsInv => VerdictHonest
  BY DEF PartsInv, ReadInv
<1> QED
  BY <1>1, PartsHold, PTL

\* As long as a run of ensure_audit_partitions succeeds at least every
\* months_ahead months, no audit entry lands in the default partition, from
\* whatever month the set-up dates.
THEOREM DefaultPartitionUnused == Spec => []DefaultStaysEmpty
<1>1. PartsInv => DefaultStaysEmpty
  BY DEF PartsInv, PartitionInv, KeepsAhead, DefaultStaysEmpty
<1> QED
  BY <1>1, PartsHold, PTL

\* AUTO gives up a strategy that needs the graph only on a "no" that was true
\* less than the cache's lifetime ago, or after the recall itself asked.
THEOREM DowngradesAreFresh == Spec => []DowngradeFresh
<1>1. PartsInv => DowngradeFresh
  BY DEF PartsInv, RouterInv
<1> QED
  BY <1>1, PartsHold, PTL

\* What pages and verify_chain read is AuditLedger's trail: an entry is queued or
\* logged, moves once and in one step, and only to the end of the log, for any
\* number of drains that overlap and roll back.
THEOREM ReadersSeeTheLedger == Spec => TrailIsLedger
<1>1. Init => Trail!LedgerInit
  BY DEF Init, ReadInit, Trail!LedgerInit
<1>2. PartsInv /\ [Next]_vars => [Trail!LedgerNext]_(Trail!ledgerVars)
  <2> SUFFICES ASSUME PartsInv, [Next]_vars PROVE [Trail!LedgerNext]_(Trail!ledgerVars)
    OBVIOUS
  <2>1. LedgerInv /\ [ReadNext]_readVars
    BY DEF PartsInv, Next, vars
  <2> QED
    BY <2>1, TrailSteps
<1> QED
  BY <1>1, <1>2, PartsHold, PTL DEF Spec, TrailIsLedger, Trail!LedgerSpec
================================================================================
