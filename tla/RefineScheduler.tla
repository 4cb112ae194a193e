--------------------------- MODULE RefineScheduler ----------------------------
(***************************************************************************)
(* refine/scheduler.py: which tenants a tick of the beat scheduler refines.*)
(*                                                                         *)
(* A tick is one transaction.  It reads the tenants that opted in, longest *)
(* unrefined first, locks the first of them that nobody else has locked,   *)
(* sends a task for each, stamps it with the time the transaction began,   *)
(* and commits.  The read takes its order from a snapshot; a row that      *)
(* another tick has stamped since is locked and returned all the same.     *)
(* Ticks may overlap, and a dispatcher may die inside one: its locks and   *)
(* stamps are gone, the tasks it sent are not.                             *)
(***************************************************************************)
EXTENDS Naturals, FiniteSets

CONSTANTS
    Tenants,        \* tenants
    Dispatchers,    \* processes that tick
    Limit,          \* tenants a tick may take
    Plans,          \* bounds: [ticks, beat, api], of which a behaviour has
                    \* one: ticks, jobs they start, jobs asked for
    MaxTrouble      \* bound: everything that goes wrong or comes in between

ASSUME SchedulerAssumption ==
    /\ IsFiniteSet(Tenants) /\ IsFiniteSet(Dispatchers)
    /\ {Limit, MaxTrouble} \subseteq Nat /\ Plans \subseteq [ticks : Nat, beat : Nat, api : Nat]

VARIABLES
    plan,                   \* bounds of this behaviour
    refine_enabled,         \* tenants that opted in
    refine_last_run_at,     \* tenant -> when it was last dispatched; 0 is NULL
    tick,                   \* dispatcher -> its transaction
    clock,                  \* ticks begun: the time
    ahead,                  \* history: ahead[<<t, u>>] counts the tasks sent for t
                            \* since one was last sent for u
    overlaps,               \* history: ticks begun while another was open
    trouble

schedulerVars == <<plan, refine_enabled, refine_last_run_at, tick, clock, ahead, overlaps, trouble>>

NoTick == [step |-> "idle", began |-> 0, before |-> {}, picked |-> {}, sent |-> {}]

SchedulerInit ==
    /\ plan \in Plans
    /\ refine_enabled = Tenants
    /\ refine_last_run_at = [t \in Tenants |-> 0]
    /\ tick = [d \in Dispatchers |-> NoTick]
    /\ clock = 0 /\ overlaps = 0 /\ trouble = 0
    /\ ahead = [p \in Tenants \X Tenants |-> 0]

Trouble == trouble < MaxTrouble /\ trouble' = trouble + 1

\* ORDER BY refine_last_run_at NULLS FIRST; ties are broken somehow.
NotLater(t, u) == refine_last_run_at[t] <= refine_last_run_at[u]

Orders ==
    {before \in SUBSET (refine_enabled \X refine_enabled) :
        /\ \A p \in before : p[1] # p[2] /\ NotLater(p[1], p[2])
        /\ \A t, u \in refine_enabled : t # u => <<t, u>> \in before \/ <<u, t>> \in before
        /\ \A t, u, v \in refine_enabled :
              <<t, u>> \in before /\ <<u, v>> \in before => <<t, v>> \in before}

\* The tick begins: its snapshot gives the order.
BeginTick(d) ==
    /\ tick[d] = NoTick /\ clock < plan.ticks
    /\ clock' = clock + 1
    /\ \E before \in Orders :
          tick' = [tick EXCEPT ![d] = [NoTick EXCEPT !.step = "lock", !.began = clock + 1,
                                                     !.before = before]]
    /\ overlaps' = overlaps + Cardinality({e \in Dispatchers : tick[e] # NoTick})
    /\ UNCHANGED <<plan, refine_enabled, refine_last_run_at, ahead, trouble>>

LockedBy(d) == tick[d].picked
Locked == UNION {LockedBy(d) : d \in Dispatchers}

\* FOR UPDATE SKIP LOCKED, LIMIT: rows are checked once more as they are locked.
pick_refine_tenants(d) ==
    LET free == refine_enabled \ Locked
        taken == {t \in free : Cardinality({u \in free : <<u, t>> \in tick[d].before}) < Limit}
    IN  /\ tick[d].step = "lock"
        /\ tick' = [tick EXCEPT ![d] = IF taken = {} THEN NoTick
                                       ELSE [@ EXCEPT !.step = "send", !.picked = taken]]
        /\ UNCHANGED <<plan, refine_enabled, refine_last_run_at, clock, ahead, overlaps, trouble>>

Unsent(d) == tick[d].picked \ tick[d].sent

\* The task of the next tenant is sent; that cannot be undone.
Send(d, t) ==
    /\ tick[d].step = "send"
    /\ t \in Unsent(d) /\ \A u \in Unsent(d) \ {t} : <<t, u>> \in tick[d].before
    /\ tick' = [tick EXCEPT ![d].sent = @ \cup {t}]
    /\ ahead' = [p \in Tenants \X Tenants |->
                    IF p[2] = t THEN 0
                    ELSE IF p[1] = t /\ p[2] \notin Locked THEN ahead[p] + 1 ELSE ahead[p]]
    /\ UNCHANGED <<plan, refine_enabled, refine_last_run_at, clock, overlaps, trouble>>

AllSent(d) == tick[d].step = "send" /\ Unsent(d) = {}

\* Faulty variant: the stamps are forgotten.
MarkForgotten(d) ==
    /\ AllSent(d)
    /\ tick' = [tick EXCEPT ![d] = NoTick]
    /\ UNCHANGED <<plan, refine_enabled, refine_last_run_at, clock, ahead, overlaps, trouble>>

\* Each tenant is stamped COALESCE(at, now()), where now() is when the
\* transaction began; here it commits.
mark_refine_dispatched(d) ==
    /\ AllSent(d)
    /\ refine_last_run_at' = [t \in Tenants |->
          IF t \in LockedBy(d) THEN tick[d].began ELSE refine_last_run_at[t]]
    /\ tick' = [tick EXCEPT ![d] = NoTick]
    /\ UNCHANGED <<plan, refine_enabled, clock, ahead, overlaps, trouble>>

\* The dispatcher dies: the transaction is rolled back.
DispatcherDies(d) ==
    /\ tick[d] # NoTick
    /\ Trouble
    /\ tick' = [tick EXCEPT ![d] = NoTick]
    /\ UNCHANGED <<plan, refine_enabled, refine_last_run_at, clock, ahead, overlaps>>

\* A tenant opts out; its row can be written when nobody has it locked.
OptOut(t) ==
    /\ t \in refine_enabled \ Locked
    /\ Trouble
    /\ refine_enabled' = refine_enabled \ {t}
    /\ UNCHANGED <<plan, refine_last_run_at, tick, clock, ahead, overlaps>>

SchedulerStep(d) ==
    BeginTick(d) \/ pick_refine_tenants(d) \/ mark_refine_dispatched(d) \/ DispatcherDies(d)

-----------------------------------------------------------------------------
\* The rotation is fair (scheduler.py "fair-rotation order"): no tenant is sent
\* twice ahead of one that waits, but for ticks that are rolled back after the
\* task was sent, and for ticks that overlap: one may send what the other has
\* just sent, and its older stamp may put the tenant in front again.
Rotation ==
    \A t \in Tenants, u \in refine_enabled : ahead[<<t, u>>] <= 1 + trouble + overlaps
==============================================================================
