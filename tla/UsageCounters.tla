---------------------------- MODULE UsageCounters ----------------------------
(***************************************************************************)
(* usage/counters.py as operators: what is recorded, how windows are       *)
(* summed, which budget applies and when it is exhausted.                  *)
(*                                                                         *)
(* A usage table is a function from a day and a kind to a count; a day is  *)
(* a record of its month (counted from some January) and its day there.    *)
(* A budget is a function from a window and a kind to a cap.               *)
(***************************************************************************)
EXTENDS Integers, Sequences, FiniteSets, FiniteSetsExt

Windows == {"daily", "monthly"}

NotAfter(a, b) == a.m < b.m \/ (a.m = b.m /\ a.d <= b.d)

\* A count of zero or less is not recorded.
record_usage(usage, day, kind, count) ==
    IF count <= 0 THEN usage
    ELSE [usage EXCEPT ![<<day, kind>>] = @ + count]

\* Sum over [since, until], both included.
get_usage(usage, days, kind, since, until) ==
    LET window == {d \in days : NotAfter(since, d) /\ NotAfter(d, until)}
    IN  FoldSet(LAMBDA d, sum : sum + usage[<<d, kind>>], 0, window)

month_start(day) == [day EXCEPT !.d = 1]

\* A tenant's own cap wins unless it is zero (or missing, which is zero too).
resolve_budgets(override, defaults) ==
    [x \in DOMAIN defaults |-> IF override[x] > 0 THEN override[x] ELSE defaults[x]]

IsEmpty(budgets) == \A x \in DOMAIN budgets : budgets[x] = 0

Used(usage, days, kind, window, today) ==
    get_usage(usage, days, kind, IF window = "daily" THEN today ELSE month_start(today), today)

\* Does check_budget raise?
Exceeded(usage, days, budgets, today) ==
    \E x \in DOMAIN budgets :
        budgets[x] > 0 /\ Used(usage, days, x[2], x[1], today) >= budgets[x]

\* The pre-flight of a pipeline: no check at all while the server has no caps.
Rejected(usage, days, override, defaults, today) ==
    /\ ~IsEmpty(defaults)
    /\ Exceeded(usage, days, resolve_budgets(override, defaults), today)
==============================================================================
