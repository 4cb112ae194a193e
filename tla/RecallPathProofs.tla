--------------------------- MODULE RecallPathProofs ---------------------------
(***************************************************************************)
(* RecallRecorded, for any memories, conversation and tiers.               *)
(*                                                                         *)
(* The property compares what is committed at the end with the results; in *)
(* between, the results wait in a transaction, a queue or a task.  The     *)
(* invariant says, step by step, where: before the write-back nowhere,     *)
(* then in exactly one of the three, and the audit row beside them on the  *)
(* connection that will be committed.  It does not depend on what the      *)
(* strategies return, only on AUTO telling whom it delegated to.           *)
(***************************************************************************)
EXTENDS RecallPath, TLAPS

Early == {"start", "choose", "retrieve", "rerank", "bump"}
Late == {"audit", "returned", "committed"}

\* recall has the fields it is given at the start.
Shape ==
    /\ recall = [step |-> recall.step, requested |-> recall.requested, strategy |-> recall.strategy,
                 delegated_to |-> recall.delegated_to, tiers |-> recall.tiers,
                 fan_out |-> recall.fan_out, two |-> recall.two, bump |-> recall.bump,
                 results |-> recall.results]
    /\ recall.step \in Early \cup Late \cup {"raised"}
    /\ recall.bump \in {"sync", "async", "batched"}

\* The strategy that retrieves is the one the audit row will name.
Routed ==
    /\ At("choose") => recall.requested = "AUTO"
    /\ recall.step \in {"retrieve", "rerank", "bump"} \cup Late =>
          recall.strategy = resolve_actual_strategy

\* The write target holds c and r, the other connection nothing.
Holding(c, r) ==
    pending = [conn \in Connections |->
                  IF conn = write_target THEN [counted |-> c, rows |-> r] ELSE NoWrite]

Row == [strategy_used |-> recall.strategy, result_count |-> Cardinality(recall.results)]

Due == IF recall.bump = "sync" THEN recall.results \cap Memos ELSE {}

\* Nothing is written before the write-back.
NothingYet ==
    recall.step \in Early =>
        /\ pending = [conn \in Connections |-> NoWrite]
        /\ batch = {} /\ task = {} /\ counted = {} /\ audited = {}

\* The transaction holds the counts, then the row too.
InTransaction ==
    /\ At("audit") => Holding(Due, {}) /\ audited = {}
    /\ At("returned") => Holding(Due, {Row}) /\ audited = {}

\* The results are counted in one of the three ways.
OneWay ==
    recall.step \in Late =>
        /\ counted \subseteq recall.results /\ task \subseteq recall.results
        /\ batch = IF recall.bump = "batched" THEN recall.results ELSE {}
        /\ recall.bump # "async" => task = {}
        /\ recall.bump # "async" /\ ~At("committed") => counted = {}

\* What is committed is what was to be.
Settled ==
    /\ At("committed") => audited = {Row} /\ (recall.bump # "async" => counted = Due)
    /\ At("raised") => audited = {} /\ (recall.bump = "sync" => counted = {} /\ task = {})

IInv == Shape /\ Routed /\ NothingYet /\ InTransaction /\ OneWay /\ Settled

-----------------------------------------------------------------------------

LEMMA InitInvariant == RecallInit => IInv
  BY DEF RecallInit, IInv, Shape, Routed, NothingYet, InTransaction, OneWay, Settled,
         At, Early, Late

\* What an action keeps that touches nothing but the step of an early recall.
LEMMA EarlyStep ==
    ASSUME IInv, recall.step \in Early, recall'.step \in Early, Shape', Routed',
           UNCHANGED <<pending, batch, task, counted, audited>>
    PROVE  IInv'
  BY DEF IInv, NothingYet, InTransaction, OneWay, Settled, At, Early, Late

\* recall() may raise at any of its steps before it returns.
LEMMA RaiseStep ==
    ASSUME IInv, recall.step \in Early \cup {"audit"}, Raise
    PROVE  IInv'
<1>1. recall' = [recall EXCEPT !.step = "raised"] /\ UNCHANGED <<batch, task, counted, audited>>
  BY DEF Raise
<1>2. Shape' /\ At("raised")'
  BY <1>1 DEF IInv, Shape, At
<1>3. Routed' /\ NothingYet' /\ InTransaction' /\ OneWay'
  BY <1>2 DEF Routed, NothingYet, InTransaction, OneWay, At, Early, Late
<1>4. Settled'
  <2>1. audited = {} /\ (recall.bump = "sync" => counted = {} /\ task = {})
    BY DEF IInv, NothingYet, InTransaction, OneWay, At, Early, Late
  <2>2. recall'.bump = recall.bump
    BY <1>1 DEF IInv, Shape
  <2> QED
    BY <1>1, <1>2, <2>1, <2>2 DEF Settled, At
<1> QED
  BY <1>2, <1>3, <1>4 DEF IInv

\* An early step that gives recall the fields of r.
LEMMA StartStep == ASSUME IInv, StartRecall PROVE IInv'
<1>1. At("start") /\ UNCHANGED <<pending, batch, task, counted, audited>>
  BY DEF StartRecall
<1>2. PICK name \in Registered \cup {"AUTO"}, two \in BOOLEAN, bump \in {"sync", "async", "batched"} :
        recall' = [recall EXCEPT !.step = IF name = "AUTO" THEN "choose" ELSE "retrieve",
                      !.requested = name, !.strategy = name, !.two = two, !.bump = bump]
  BY DEF StartRecall
<1>3. Shape'
  BY <1>2 DEF IInv, Shape, Early
<1>4. Routed' /\ recall'.step \in Early
  BY <1>2 DEF IInv, Shape, Routed, At, Late, Early, resolve_actual_strategy
<1> QED
  BY <1>1, <1>3, <1>4, EarlyStep DEF At, Early

LEMMA ChooseStep == ASSUME IInv, Choose PROVE IInv'
<1>1. At("choose") /\ UNCHANGED <<pending, batch, task, counted, audited>>
  BY DEF Choose
<1>2. PICK chosen, tiers :
        recall' = [recall EXCEPT !.step = "retrieve", !.strategy = chosen, !.delegated_to = chosen,
                                 !.tiers = tiers, !.fan_out = (tiers > 1)]
  BY DEF Choose
<1>3. Shape' /\ Routed' /\ recall'.step \in Early
  BY <1>1, <1>2 DEF IInv, Shape, Routed, At, Late, Early, resolve_actual_strategy
<1> QED
  BY <1>1, <1>3, EarlyStep DEF At, Early

\* Whatever the strategy, the tiers and the re-ranker come up with.
LEMMA ResultsStep == ASSUME IInv, Retrieve \/ RetrieveTier \/ Rerank PROVE IInv'
<1>1. CASE Retrieve /\ Raise
  BY <1>1, RaiseStep DEF Retrieve, At, Early
<1>2. CASE Retrieve /\ ~Raise
  <2>1. PICK e : recall' = [recall EXCEPT !.step = "rerank", !.results = e.results]
    BY <1>2 DEF Retrieve
  <2>2. Shape' /\ Routed' /\ recall'.step \in Early
    BY <1>2, <2>1 DEF Retrieve, IInv, Shape, Routed, At, Late, Early, resolve_actual_strategy
  <2> QED
    BY <1>2, <2>2, EarlyStep DEF Retrieve, At, Early
<1>3. CASE RetrieveTier
  <2>1. PICK e : recall' = [recall EXCEPT !.results = @ \cup e.results, !.tiers = @ - 1,
                               !.step = IF recall.tiers = 1 THEN "rerank" ELSE "retrieve"]
    BY <1>3 DEF RetrieveTier
  <2>2. Shape' /\ Routed' /\ recall'.step \in Early
    BY <1>3, <2>1 DEF RetrieveTier, IInv, Shape, Routed, At, Late, Early, resolve_actual_strategy
  <2> QED
    BY <1>3, <2>2, EarlyStep DEF RetrieveTier, At, Early
<1>4. CASE Rerank
  <2>1. PICK kept : recall' = [recall EXCEPT !.step = "bump", !.results = kept]
    BY <1>4 DEF Rerank
  <2>2. Shape' /\ Routed' /\ recall'.step \in Early
    BY <1>4, <2>1 DEF Rerank, IInv, Shape, Routed, At, Late, Early, resolve_actual_strategy
  <2> QED
    BY <1>4, <2>2, EarlyStep DEF Rerank, At, Early
<1> QED
  BY <1>1, <1>2, <1>3, <1>4

\* The write-back: the results go to one of three places.
LEMMA BumpStep == ASSUME IInv, BumpRecalled PROVE IInv'
<1>1. CASE Raise
  BY <1>1, RaiseStep DEF BumpRecalled, At, Early
<1>2. CASE ~Raise
  <2>1. /\ At("bump")
        /\ recall' = [recall EXCEPT !.step = "audit"]
        /\ UNCHANGED <<broken, counted, audited>>
    BY <1>2 DEF BumpRecalled
  <2>2. At("audit")' /\ Shape' /\ write_target' = write_target
        /\ recall'.results = recall.results /\ recall'.bump = recall.bump
    BY <2>1 DEF IInv, Shape, At, Late, write_target
  <2>3. pending = [conn \in Connections |-> NoWrite]
        /\ batch = {} /\ task = {} /\ counted = {} /\ audited = {}
    BY <2>1 DEF IInv, NothingYet, At, Early
  <2>4. recall.bump \in {"sync", "async", "batched"}
    BY DEF IInv, Shape
  <2>5. Holding(Due, {})' /\ (batch' = IF recall.bump = "batched" THEN recall.results ELSE {})
        /\ (recall.bump # "async" => task' = {}) /\ task' \subseteq recall.results
    <3>1. CASE recall.bump = "batched"
      BY <1>2, <2>2, <2>3, <3>1 DEF BumpRecalled, Holding, Due, NoWrite
    <3>2. CASE recall.bump = "async"
      BY <1>2, <2>2, <2>3, <3>2 DEF BumpRecalled, Holding, Due, NoWrite
    <3>3. CASE recall.bump = "sync"
      <4>1. pending' = [pending EXCEPT ![write_target].counted = recall.results \cap Memos]
            /\ UNCHANGED <<batch, task>>
        BY <1>2, <3>3 DEF BumpRecalled
      <4>2. write_target \in Connections
        BY DEF write_target, Connections
      <4>3. [NoWrite EXCEPT !.counted = Due] = [counted |-> Due, rows |-> {}]
        BY DEF NoWrite
      <4>4. pending' = [conn \in Connections |->
                  IF conn = write_target THEN [NoWrite EXCEPT !.counted = Due] ELSE NoWrite]
        BY <2>3, <3>3, <4>1, <4>2 DEF Due
      <4>5. Due' = Due
        BY <2>2 DEF Due
      <4>6. Holding(Due, {})'
        BY <2>2, <4>3, <4>4, <4>5 DEF Holding, Connections, NoWrite
      <4> QED
        BY <2>3, <3>3, <4>1, <4>6
    <3> QED
      BY <2>4, <3>1, <3>2, <3>3
  <2>6. Routed'
    BY <2>1 DEF IInv, Shape, Routed, At, Late, Early, resolve_actual_strategy
  <2>7. NothingYet' /\ InTransaction' /\ OneWay' /\ Settled'
    BY <2>1, <2>2, <2>3, <2>5 DEF NothingYet, InTransaction, OneWay, Settled, At, Early, Late
  <2> QED
    BY <2>2, <2>6, <2>7 DEF IInv
<1> QED
  BY <1>1, <1>2

\* The background task may end at any time, also after recall() has raised.
LEMMA TaskStep == ASSUME IInv, TaskEnds PROVE IInv'
<1>1. /\ task # {} /\ task' = {} /\ counted' \in {counted, counted \cup (task \cap Memos)}
      /\ UNCHANGED <<recall, broken, pending, batch, audited>>
  BY DEF TaskEnds
<1>2. recall.step \notin Early /\ ~(recall.step \in Late /\ recall.bump # "async")
      /\ ~(At("raised") /\ recall.bump = "sync")
  BY <1>1 DEF IInv, NothingYet, OneWay, Settled
<1>3. Shape' /\ Routed' /\ InTransaction'
  BY <1>1 DEF IInv, Shape, Routed, InTransaction, At, Holding, Due, Row, write_target,
              resolve_actual_strategy
<1>4. NothingYet' /\ OneWay' /\ Settled'
  BY <1>1, <1>2 DEF IInv, NothingYet, OneWay, Settled, At, Row, Due, Late
<1> QED
  BY <1>3, <1>4 DEF IInv

\* The audit row joins the counts.
LEMMA AuditStep == ASSUME IInv, AuditRecall PROVE IInv'
<1>1. CASE Raise
  BY <1>1, RaiseStep DEF AuditRecall, At
<1>2. CASE ~Raise
  <2>1. /\ At("audit") /\ recall' = [recall EXCEPT !.step = "returned"]
        /\ pending' = [pending EXCEPT ![write_target].rows =
              {[strategy_used |-> resolve_actual_strategy, result_count |-> Cardinality(recall.results)]}]
        /\ UNCHANGED <<broken, batch, task, counted, audited>>
    BY <1>2 DEF AuditRecall
  <2>2. /\ At("returned")' /\ Shape' /\ write_target' = write_target /\ Due' = Due /\ Row' = Row
        /\ recall'.results = recall.results /\ recall'.bump = recall.bump
    BY <2>1 DEF IInv, Shape, At, Late, write_target, Due, Row
  <2>3. Row = [strategy_used |-> resolve_actual_strategy, result_count |-> Cardinality(recall.results)]
    BY <2>1 DEF IInv, Routed, At, Late, Row
  <2>4. Holding(Due, {Row})'
    <3>1. Holding(Due, {})
      BY <2>1 DEF IInv, InTransaction
    <3>2. write_target \in Connections
      BY DEF write_target, Connections
    <3>3. [[counted |-> Due, rows |-> {}] EXCEPT !.rows = {Row}] = [counted |-> Due, rows |-> {Row}]
      OBVIOUS
    <3>4. pending' = [conn \in Connections |->
                IF conn = write_target THEN [[counted |-> Due, rows |-> {}] EXCEPT !.rows = {Row}]
                ELSE NoWrite]
      BY <2>1, <2>3, <3>1, <3>2 DEF Holding
    <3> QED
      BY <2>2, <3>3, <3>4 DEF Holding, Connections, NoWrite
  <2>5. Routed'
    BY <2>1 DEF IInv, Shape, Routed, At, Late, Early, resolve_actual_strategy
  <2>6. NothingYet' /\ InTransaction' /\ OneWay' /\ Settled'
    BY <2>1, <2>2, <2>4 DEF IInv, NothingYet, InTransaction, OneWay, Settled, At, Early, Late
  <2> QED
    BY <2>2, <2>5, <2>6 DEF IInv
<1> QED
  BY <1>1, <1>2

\* The connection that is committed is the one that was written to.
LEMMA CommitStep == ASSUME IInv, CommitRecall PROVE IInv'
<1>1. /\ At("returned") /\ recall' = [recall EXCEPT !.step = "committed"]
      /\ counted' = counted \cup pending[write_target].counted
      /\ audited' = pending[write_target].rows
      /\ UNCHANGED <<batch, task>>
  BY DEF CommitRecall, write_target
<1>2. pending[write_target].counted = Due /\ pending[write_target].rows = {Row}
  <2>1. Holding(Due, {Row})
    BY <1>1 DEF IInv, InTransaction
  <2>2. write_target \in Connections
    BY DEF write_target, Connections
  <2> QED
    BY <2>1, <2>2 DEF Holding
<1>3. /\ At("committed")' /\ Shape' /\ Due' = Due /\ Row' = Row
      /\ recall'.results = recall.results /\ recall'.bump = recall.bump
  BY <1>1 DEF IInv, Shape, At, Late, Due, Row
<1>4. Routed'
  BY <1>1 DEF IInv, Shape, Routed, At, Late, Early, resolve_actual_strategy
<1>5. Due \subseteq recall.results
  BY DEF Due
<1>6. NothingYet' /\ InTransaction' /\ OneWay' /\ Settled'
  BY <1>1, <1>2, <1>3, <1>5 DEF IInv, NothingYet, InTransaction, OneWay, Settled, At, Early, Late
<1> QED
  BY <1>3, <1>4, <1>6 DEF IInv

LEMMA StepInvariant == IInv /\ [RecallNext]_recallVars => IInv'
<1> SUFFICES ASSUME IInv, [RecallNext]_recallVars PROVE IInv'
  OBVIOUS
<1>1. CASE Refuse
  BY <1>1, RaiseStep DEF Refuse, At, Early
<1>2. CASE StartRecall
  BY <1>2, StartStep
<1>3. CASE Choose
  BY <1>3, ChooseStep
<1>4. CASE Retrieve \/ RetrieveTier \/ Rerank
  BY <1>4, ResultsStep
<1>5. CASE BumpRecalled
  BY <1>5, BumpStep
<1>6. CASE TaskEnds
  BY <1>6, TaskStep
<1>7. CASE AuditRecall
  BY <1>7, AuditStep
<1>8. CASE CommitRecall
  BY <1>8, CommitStep
<1>9. CASE UNCHANGED recallVars
  BY <1>9 DEF recallVars, IInv, Shape, Routed, NothingYet, InTransaction, OneWay, Settled, At,
              Holding, Due, Row, write_target, resolve_actual_strategy
<1> QED
  BY <1>1, <1>2, <1>3, <1>4, <1>5, <1>6, <1>7, <1>8, <1>9 DEF RecallNext

LEMMA InvariantRecorded == IInv => RecallRecorded
<1> SUFFICES ASSUME IInv PROVE RecallRecorded
  OBVIOUS
<1>1. ASSUME At("committed")
      PROVE  /\ audited = {Row}
             /\ recall.bump # "async" =>
                   (counted \cup batch) \cap Memos = recall.results \cap Memos
             /\ counted \subseteq recall.results
  BY <1>1 DEF IInv, Shape, OneWay, Settled, Due, At, Late
<1>2. ASSUME At("raised") PROVE audited = {} /\ (recall.bump = "sync" => counted = {})
  BY <1>2 DEF IInv, Settled
<1> QED
  BY <1>1, <1>2 DEF RecallRecorded, Row

\* A committed recall (engine/recall.py) has one audit row, naming the strategy
\* whose results it returned and their number, and each result is counted once,
\* queued, or left to the task; a recall that raised has no audit row and counted
\* nothing in its transaction, though what it queued before stays queued: for any
\* memories and tiers, whatever the strategies return.
THEOREM RecallIsRecorded == RecallSpec => []RecallRecorded
<1>1. RecallInit => IInv
  BY InitInvariant
<1>2. IInv /\ [RecallNext]_recallVars => IInv'
  BY StepInvariant
<1>3. IInv => RecallRecorded
  BY InvariantRecorded
<1> QED
  BY <1>1, <1>2, <1>3, PTL DEF RecallSpec
==============================================================================
