------------------------------ MODULE RecallPath ------------------------------
(***************************************************************************)
(* One recall() of engine/recall.py, from the strategy that is asked for   *)
(* to the committed audit row: AUTO's delegation and tier fan-out, the     *)
(* nine strategies, re-rank and filters, the three ways of counting, and   *)
(* the one or two connections.  AutoRouter has AUTO's choice itself, and   *)
(* Memories the recalls that overlap.  The recall names a conversation.    *)
(*                                                                         *)
(* A strategy's answer is any set of memories its SELECT may return; the   *)
(* scores, the order and top_k are left out.  A connection is broken once  *)
(* a statement failed in its transaction outside a savepoint: all it runs  *)
(* after that fails too.  An LLM call may fail in any way.                 *)
(***************************************************************************)
EXTENDS Naturals, FiniteSets

CONSTANTS
    Memos,          \* live memories of the tenant
    InConversation, \* those of the conversation the recall names
    Aggregate,      \* the number a graph query returned, dressed as a memory
    AllTiers,       \* memory tiers there are
    MaxLlmTiers     \* _MAX_LLM_TIERS

ASSUME RecallAssumption ==
    /\ InConversation \subseteq Memos /\ Aggregate \notin Memos
    /\ MaxLlmTiers \in 1 .. AllTiers

VARIABLES
    recall,     \* what recall() has in hand
    broken,     \* connections whose transaction is lost
    pending,    \* connection -> its uncommitted writes: [counted, rows]
    batch,      \* the memories it put into the batcher's queue
    task,       \* the memories its background task is to count
    counted,    \* memories whose recall_count has gone up
    audited     \* committed audit rows

recallVars == <<recall, broken, pending, batch, task, counted, audited>>

Connections == {"conn", "write_conn"}

NoWrite == [counted |-> {}, rows |-> {}]

RecallInit ==
    /\ recall = [step |-> "start", requested |-> "none", strategy |-> "none", delegated_to |-> "none",
                 tiers |-> 1, fan_out |-> FALSE, two |-> FALSE, bump |-> "sync", results |-> {}]
    /\ broken = {} /\ pending = [conn \in Connections |-> NoWrite]
    /\ batch = {} /\ task = {} /\ counted = {} /\ audited = {}

At(step) == recall.step = step

\* recall() raises: its caller rolls back what it has open.
Raise ==
    /\ recall' = [recall EXCEPT !.step = "raised"]
    /\ broken' = {} /\ pending' = [conn \in Connections |-> NoWrite]
    /\ UNCHANGED <<batch, task, counted, audited>>

-----------------------------------------------------------------------------
(* Strategies: what a retrieve() over conn may end in *)

\* results, whether it raises, whether it leaves the transaction aborted
Ends(results, raises, aborts) == [results |-> results, raises |-> raises, aborts |-> aborts]

\* No statement is run: a blank query, nothing to embed it with.
Nothing == {Ends({}, FALSE, FALSE)}

\* An embedding or a language model is missing or fails.
Raises == {Ends({}, TRUE, FALSE)}

\* A statement fails outside a savepoint.
StatementFails == {Ends({}, TRUE, TRUE)}

\* A SELECT that chooses from S.
Selects(S) == IF "conn" \in broken THEN {} ELSE {Ends(found, FALSE, FALSE) : found \in SUBSET S}

\* The rows that pass the clause of the standard filters.
build_where_clause == InConversation

Vector == Raises \cup StatementFails \cup Selects(build_where_clause)

Lexical == Nothing \cup StatementFails \cup Selects(build_where_clause)

\* What comes after the SELECT and decorates its results may abort the
\* transaction, but not change them.
Decorated(S, more) == {e \in S : e.raises}
    \cup {[e EXCEPT !.aborts = @ \/ x.aborts] : e \in {e \in S : ~e.raises}, x \in more}

\* One seed's subgraph, in a savepoint: a failure raises, and no more than the
\* savepoint is lost.
FetchSubgraph == Nothing \cup Raises

\* A subgraph that cannot be fetched is an empty one.
ExpandSubgraphs == {[e EXCEPT !.raises = FALSE] : e \in FetchSubgraph}

\* The answer to go with them; the model's failure is swallowed.
SynthesizeAnswer == {[e EXCEPT !.raises = FALSE] : e \in Nothing \cup Raises}

\* Seeds, by similarity, with their subgraphs and an answer.
Graph == Nothing \cup Decorated(Decorated(Vector, ExpandSubgraphs), SynthesizeAnswer)

\* VECTOR, step by step, merged; the refinement of a query may fail silently.
Trace == Nothing \cup Vector

\* get_memo_at is asked about every result; its failure is swallowed without a
\* savepoint.
VersionLabels == Nothing \cup {Ends({}, FALSE, TRUE)}

\* VECTOR as of a time, with the versions of that time.
Temporal == Nothing \cup Vector \cup Decorated({e \in Vector : e.results # {}}, VersionLabels)

\* The match swallows an error of the graph inside its savepoint, whose release
\* then fails: there are no results, and no transaction.
MatchTriplet == Nothing \cup {Ends({}, FALSE, TRUE)}

\* The query is parsed into a triplet by the model (no gateway, or not exactly
\* one unknown slot: it raises); what the graph has matched is fetched by id.
Triplet == Raises \cup MatchTriplet \cup StatementFails \cup Selects(Memos)

\* Cypher in a savepoint: nothing, a number, or ids that are then fetched.
ExecuteCypher ==
    Nothing \cup StatementFails \cup Selects(Memos)
        \cup (IF "conn" \in broken THEN {} ELSE {Ends({Aggregate}, FALSE, FALSE)})

\* The model writes the Cypher; its failures give no results, but without a
\* gateway ASK raises.
Ask == Raises \cup ExecuteCypher

\* The caller's Cypher: not allowed or not valid, it raises.
Cypher == Raises \cup ExecuteCypher

\* The clause chooses the seeds; their neighbours in the call graph come along.
Code == Nothing \cup StatementFails \cup Selects(Memos)

\* What is registered, "AUTO" aside.
Registered == {"VECTOR", "LEXICAL", "GRAPH", "TRACE", "TEMPORAL", "TRIPLET", "ASK", "CYPHER", "CODE"}

get_strategy(name) ==
    CASE name = "VECTOR"   -> Vector
      [] name = "LEXICAL"  -> Lexical
      [] name = "GRAPH"    -> Graph
      [] name = "TRACE"    -> Trace
      [] name = "TEMPORAL" -> Temporal
      [] name = "TRIPLET"  -> Triplet
      [] name = "ASK"      -> Ask
      [] name = "CYPHER"   -> Cypher
      [] name = "CODE"     -> Code

\* What AUTO's choice can be.
AutoChoices == Registered \ {"CYPHER", "CODE"}

\* How many tiers MemoryTierRouter may pick when its patterns hit so many: one
\* hit is decisive; else the model picks; else the hits are taken, or all tiers.
route(hits) == IF hits = 1 THEN {1} ELSE 1 .. MaxLlmTiers \cup {IF hits = 0 THEN AllTiers ELSE hits}

-----------------------------------------------------------------------------
(* recall() *)

\* Scoring weights that miss 1.0 by more than 0.01, or an unknown name.
Refuse == At("start") /\ Raise

\* The strategy asked for, the connections given, the way to count.
StartRecall ==
    /\ At("start")
    /\ \E name \in Registered \cup {"AUTO"}, two \in BOOLEAN, bump \in {"sync", "async", "batched"} :
          recall' = [recall EXCEPT !.step = IF name = "AUTO" THEN "choose" ELSE "retrieve",
                        !.requested = name, !.strategy = name, !.two = two, !.bump = bump]
    /\ UNCHANGED <<broken, pending, batch, task, counted, audited>>

\* AUTO: what AutoRouter ends with is delegated to; the probe for a corpus may
\* have failed, its error swallowed.  With tier_route it is delegated to once for
\* each tier.
Choose ==
    /\ At("choose")
    /\ \E chosen \in AutoChoices, tiers \in {1} \cup UNION {route(hits) : hits \in 0 .. AllTiers} :
          recall' = [recall EXCEPT !.step = "retrieve", !.strategy = chosen, !.delegated_to = chosen,
                                   !.tiers = tiers, !.fan_out = (tiers > 1)]
    /\ broken' \in {{}, {"conn"}}
    /\ UNCHANGED <<pending, batch, task, counted, audited>>

LeavesConn(e) == broken' = IF e.aborts THEN broken \cup {"conn"} ELSE broken

\* A single retrieve(): what it raises leaves recall().
Retrieve ==
    /\ At("retrieve") /\ ~recall.fan_out
    /\ \E e \in get_strategy(recall.strategy) :
          IF e.raises THEN Raise
          ELSE /\ recall' = [recall EXCEPT !.step = "rerank", !.results = e.results]
               /\ LeavesConn(e)
               /\ UNCHANGED <<pending, batch, task, counted, audited>>

\* _fan_out, the next tier: what a tier raises is swallowed and counts as an
\* empty answer.
RetrieveTier ==
    /\ At("retrieve") /\ recall.fan_out
    /\ \E e \in get_strategy(recall.strategy) :
          /\ recall' = [recall EXCEPT !.results = @ \cup e.results, !.tiers = @ - 1,
                                      !.step = IF recall.tiers = 1 THEN "rerank" ELSE "retrieve"]
          /\ LeavesConn(e)
    /\ UNCHANGED <<pending, batch, task, counted, audited>>

\* The cross-encoder orders the results anew and keeps top_k of them; its errors
\* are swallowed, as are those of the filters that follow.
rerank(results) == SUBSET results

\* The fan-out's cut to top_k, the re-ranker and the filters.
Rerank ==
    /\ At("rerank")
    /\ \E kept \in rerank(recall.results) :
          recall' = [recall EXCEPT !.step = "bump", !.results = kept]
    /\ UNCHANGED <<broken, pending, batch, task, counted, audited>>

-----------------------------------------------------------------------------
(* The write-back *)

\* Faulty variant: the write-back stays on the connection that was read from.
ReadTarget == "conn"

\* write_conn or conn
write_target == IF recall.two THEN "write_conn" ELSE "conn"

\* Every result is counted: by the batcher, by a task of its own, or by an
\* UPDATE of the write target, which finds no row for an aggregate.
BumpRecalled ==
    /\ At("bump")
    /\ \/ /\ recall' = [recall EXCEPT !.step = "audit"]
          /\ CASE recall.bump = "batched" -> batch' = recall.results /\ UNCHANGED <<task, pending>>
               [] recall.bump = "async"   -> task' = recall.results /\ UNCHANGED <<batch, pending>>
               [] OTHER ->
                    /\ write_target \notin broken \/ recall.results = {}
                    /\ pending' = [pending EXCEPT ![write_target].counted = recall.results \cap Memos]
                    /\ UNCHANGED <<batch, task>>
          /\ UNCHANGED <<broken, counted, audited>>
       \/ recall.bump = "sync" /\ recall.results # {} /\ Raise

\* _bump_counters_async commits on a connection of its own, or fails silently;
\* drain_and_flush is RecallBatch's.
TaskEnds ==
    /\ task # {}
    /\ counted' \in {counted, counted \cup (task \cap Memos)}
    /\ task' = {}
    /\ UNCHANGED <<recall, broken, pending, batch, audited>>

resolve_actual_strategy ==
    IF recall.requested = "AUTO" THEN recall.delegated_to ELSE recall.requested

\* create_audit_entry on the write target, then recall() returns.
AuditRecall ==
    /\ At("audit")
    /\ \/ /\ write_target \notin broken
          /\ recall' = [recall EXCEPT !.step = "returned"]
          /\ pending' = [pending EXCEPT ![write_target].rows =
                {[strategy_used |-> resolve_actual_strategy, result_count |-> Cardinality(recall.results)]}]
          /\ UNCHANGED <<broken, batch, task, counted, audited>>
       \/ Raise

\* The caller commits the connection to the primary: write_conn if there is one.
CommitRecall ==
    /\ At("returned")
    /\ LET primary == pending[IF recall.two THEN "write_conn" ELSE "conn"]
       IN  counted' = counted \cup primary.counted /\ audited' = primary.rows
    /\ recall' = [recall EXCEPT !.step = "committed"]
    /\ broken' = {} /\ pending' = [conn \in Connections |-> NoWrite]
    /\ UNCHANGED <<batch, task>>

RecallNext ==
    \/ Refuse \/ StartRecall \/ Choose \/ Retrieve \/ RetrieveTier \/ Rerank
    \/ BumpRecalled \/ TaskEnds \/ AuditRecall \/ CommitRecall

RecallSpec == RecallInit /\ [][RecallNext]_recallVars

-----------------------------------------------------------------------------
(* Properties *)

\* A recall that is committed has one audit row, of the strategy whose results
\* it returned and with their number, and all its results have been counted, are
\* queued to be, or were left to the task, which alone may drop them; a recall
\* that raised, at whichever step and over whichever connection, has no audit
\* row and counted nothing in its transaction.  What it had queued with the
\* batcher, or left to the task, by then is still counted.
RecallRecorded ==
    /\ At("committed") =>
          /\ audited = {[strategy_used |-> recall.strategy, result_count |-> Cardinality(recall.results)]}
          /\ recall.bump # "async" => (counted \cup batch) \cap Memos = recall.results \cap Memos
          /\ counted \subseteq recall.results
    /\ At("raised") => audited = {} /\ (recall.bump = "sync" => counted = {})

\* "When set, every strategy filters by memories.conversation_id so recall
\* returns only Memos from this session" (engine/recall.py:146).
ScopedToConversation == At("committed") => recall.results \cap Memos \subseteq InConversation
==============================================================================
