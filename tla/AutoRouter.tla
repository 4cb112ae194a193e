------------------------------ MODULE AutoRouter ------------------------------
(***************************************************************************)
(* The choice AUTO makes in retrieval/strategies/auto.py: the classifier,  *)
(* and the process's cache of whether the tenant has a graph corpus, which *)
(* sends a graph query to VECTOR while the tenant has no edge.  Recalls of *)
(* one tenant run in one process, each awaiting its probe while the others *)
(* go on and while edges come and go.                                      *)
(***************************************************************************)
EXTENDS Naturals

CONSTANTS
    Recalls,        \* recalls that overlap at most
    TtlSeconds,     \* _GRAPH_CORPUS_TTL_SECONDS, in ticks
    MaxClock        \* bound: time.monotonic()

ASSUME RouterAssumption == {TtlSeconds, MaxClock} \subseteq Nat

VARIABLES
    routing,    \* recall -> [step, strategy, sampled, has_corpus, age, waited]
    cached,     \* _GRAPH_CORPUS_CACHE of the tenant: [at, has_corpus] or {}
    edges,      \* memory_relationships has a row of the tenant
    last_bare,  \* when it last had none (history)
    clock       \* time.monotonic()

routerVars == <<routing, cached, edges, last_bare, clock>>

\* _AUTO_CANDIDATE_STRATEGIES
Candidates == {"VECTOR", "LEXICAL", "GRAPH", "TRIPLET", "TRACE", "TEMPORAL", "ASK"}

\* _GRAPH_DEPENDENT_STRATEGIES
GraphDependent == {"GRAPH", "TRIPLET", "TRACE", "ASK"}

NotRouting == [step |-> "idle", strategy |-> "VECTOR", sampled |-> 0, has_corpus |-> FALSE,
               age |-> 0, waited |-> 0]

RouterInit ==
    /\ routing = [r \in Recalls |-> NotRouting]
    /\ cached = {} /\ edges \in BOOLEAN /\ clock = 0 /\ last_bare = 0

\* _classify: a candidate the model picked; any failure, an empty query, no
\* gateway or a name outside the set all give VECTOR.
Classify(r) ==
    /\ routing[r].step \in {"idle", "delegate"}
    /\ \E chosen \in Candidates :
          routing' = [routing EXCEPT ![r] = [NotRouting EXCEPT
              !.strategy = chosen, !.step = IF chosen \in GraphDependent THEN "look" ELSE "delegate"]]
    /\ UNCHANGED <<cached, edges, last_bare, clock>>

\* retrieve: the chosen strategy, or VECTOR if the tenant has no corpus.
Downgraded(chosen, has_corpus) == IF has_corpus THEN chosen ELSE "VECTOR"

Fresh == {answer \in cached : clock - answer.at < TtlSeconds}

\* How long ago the answer was last true, if it is a "no" (history).
Age(has_corpus) == IF has_corpus THEN 0 ELSE clock - last_bare

\* _has_graph_corpus reads the clock and uses a fresh cached answer.
LookInCache(r) ==
    /\ routing[r].step = "look"
    /\ \/ \E answer \in Fresh :
             routing' = [routing EXCEPT ![r].step = "delegate",
                            ![r].strategy = Downgraded(@, answer.has_corpus),
                            ![r].age = Age(answer.has_corpus)]
       \/ Fresh = {} /\ routing' = [routing EXCEPT ![r].step = "probe", ![r].sampled = clock]
    /\ UNCHANGED <<cached, edges, last_bare, clock>>

\* The SELECT runs, and its answer is under way; or it fails: TRUE, not cached.
Probe(r) ==
    /\ routing[r].step = "probe"
    /\ routing' \in {[routing EXCEPT ![r].step = "answer", ![r].has_corpus = edges],
                     [routing EXCEPT ![r].step = "delegate"]}
    /\ UNCHANGED <<cached, edges, last_bare, clock>>

\* The recall that asked goes by its own answer, however long that has been under
\* way (waited is history).
AnswerUsed(r) ==
    LET has_corpus == routing[r].has_corpus
    IN  routing' = [routing EXCEPT ![r].step = "delegate",
                       ![r].strategy = Downgraded(@, has_corpus),
                       ![r].age = Age(has_corpus), ![r].waited = clock - routing[r].sampled]

\* Faulty variant: the answer is cached under the time it arrives.
AnswerStampedLate(r) ==
    /\ routing[r].step = "answer"
    /\ cached' = {[at |-> clock, has_corpus |-> routing[r].has_corpus]}
    /\ AnswerUsed(r)
    /\ UNCHANGED <<edges, last_bare, clock>>

\* The answer arrives and is cached under the time read before the SELECT ran.
Answer(r) ==
    /\ routing[r].step = "answer"
    /\ cached' = {[at |-> routing[r].sampled, has_corpus |-> routing[r].has_corpus]}
    /\ AnswerUsed(r)
    /\ UNCHANGED <<edges, last_bare, clock>>

\* A distill, refine or prune commits the tenant's first edge or removes its
\* last one.
EdgesChange ==
    /\ edges' = ~edges
    /\ last_bare' = IF edges THEN clock ELSE last_bare
    /\ UNCHANGED <<routing, cached, clock>>

Tick ==
    /\ clock < MaxClock
    /\ clock' = clock + 1
    /\ last_bare' = IF edges THEN last_bare ELSE clock + 1
    /\ UNCHANGED <<routing, cached, edges>>

RouterNext ==
    \/ \E r \in Recalls : Classify(r) \/ LookInCache(r) \/ Probe(r) \/ Answer(r)
    \/ EdgesChange \/ Tick

\* A graph query is sent to VECTOR only if the tenant really had no edge less than
\* the TTL ago, however slow the probe was whose answer is in the cache and
\* whatever other probes ended in between: the "next 60 s of recalls" that the
\* comment on the cache allows to be behind.  A recall that probed by itself may
\* go by an older "no", but by none from before it asked.
DowngradeFresh ==
    \A r \in Recalls :
        routing[r].age # 0 => routing[r].age < TtlSeconds \/ routing[r].age <= routing[r].waited
==============================================================================
