---------------------------- MODULE Conversations -----------------------------
(***************************************************************************)
(* conversations/helpers.py: the counters of one conversation, the turns   *)
(* stamped on memories, and the summaries that are asked for every so many *)
(* turns.                                                                  *)
(*                                                                         *)
(* A caller stores a memory and adds it as a turn in one transaction: the  *)
(* UPDATE of the counter locks the conversation until that transaction     *)
(* ends.  A summary is a job of its own, asked for after a turn: it adds   *)
(* its text as a further turn and then, in another transaction, advances   *)
(* the mark.  A reader pages through the turns meanwhile.                  *)
(***************************************************************************)
EXTENDS Naturals, FiniteSets

CONSTANTS
    Sessions,       \* sessions of callers and summary jobs
    Cadences,       \* summary_cadence: one of these
    PageSize,       \* limit of a page of turns
    MaxTurns,       \* bound: turns
    MaxTrouble      \* bound: turns forgotten, jobs that die, transactions rolled back

ASSUME ConversationAssumption ==
    /\ Cadences \subseteq Nat \ {0} /\ PageSize \in Nat \ {0}
    /\ {MaxTurns, MaxTrouble} \subseteq Nat

VARIABLES
    conv,           \* the row of conversations
    turns,          \* memories stamped with a turn_index: [index, role, live]
    session,        \* session -> what it does
    reader,         \* cursor of the reader and the turns it has been given
    covered,        \* history: the turns through which the finished summaries go
    doubled,        \* history: two summary jobs ran at a time
    trouble         \* troubles so far

conversationVars == <<conv, turns, session, reader, covered, doubled, trouble>>

Free == [step |-> "idle", role |-> "user", index |-> 0, through |-> 0]

\* create_conversation refuses a cadence below one.
ConversationInit ==
    /\ conv \in {[count |-> 0, mark |-> 0, cadence |-> c, deleted |-> FALSE] : c \in Cadences}
    /\ turns = {}
    /\ session = [s \in Sessions |-> Free]
    /\ reader = [after |-> 0, seen |-> {}]
    /\ covered = {} /\ doubled = FALSE /\ trouble = 0

Trouble == trouble < MaxTrouble /\ trouble' = trouble + 1

\* Faulty variant: nobody waits for the lock.
LockIgnored == TRUE

\* The conversation is locked from the update of its counter to the commit.
LockFree == \A s \in Sessions : session[s].step # "stamp"

Goes(s, r) == session' = [session EXCEPT ![s] = r]

\* add_turn: the counter is bumped; a deleted conversation is not found.
Bump(s, role) ==
    /\ LockFree
    /\ conv.count < MaxTurns
    /\ Goes(s, IF conv.deleted THEN Free
               ELSE [session[s] EXCEPT !.step = "stamp", !.role = role, !.index = conv.count + 1])
    /\ UNCHANGED <<conv, turns, reader, covered, doubled, trouble>>

add_turn(s) == session[s].step = "idle" /\ Bump(s, "user")
AddSummary(s) == session[s].step = "summary" /\ Bump(s, "summary")

\* The memory is stamped, and the caller commits both.
CommitTurn(s) ==
    LET r == session[s]
    IN  /\ r.step = "stamp"
        /\ conv' = [conv EXCEPT !.count = r.index]
        /\ turns' = turns \cup {[index |-> r.index, role |-> r.role, live |-> TRUE]}
        /\ Goes(s, IF r.role = "summary" THEN [r EXCEPT !.step = "mark"] ELSE Free)
        /\ UNCHANGED <<reader, covered, doubled, trouble>>

\* The caller rolls back, or dies.
RollBack(s) ==
    /\ session[s].step # "idle"
    /\ Trouble
    /\ Goes(s, Free)
    /\ UNCHANGED <<conv, turns, reader, covered, doubled>>

\* Faulty variant: one turn too few.
needs_summary_early == conv.count + 1 - conv.mark >= conv.cadence

needs_summary == conv.count - conv.mark >= conv.cadence

Summarizing(s) == session[s].through > 0

\* get_conversation, then the check: a job is asked for that covers the turns
\* there are.
StartSummary(s) ==
    /\ session[s].step = "idle"
    /\ ~conv.deleted /\ needs_summary
    /\ Goes(s, [Free EXCEPT !.step = "summary", !.through = conv.count])
    /\ doubled' = (doubled \/ \E r \in Sessions : Summarizing(r))
    /\ UNCHANGED <<conv, turns, reader, covered, trouble>>

\* Faulty variant: without GREATEST.
through_turn(mark, through) == through

GREATEST(mark, through) == IF through <= mark THEN mark ELSE through

\* mark_summary_emitted: no row of a conversation that is deleted.
mark_summary_emitted(s) ==
    LET through == session[s].through
    IN  /\ session[s].step = "mark" /\ LockFree
        /\ IF conv.deleted THEN UNCHANGED <<conv, covered>>
           ELSE /\ conv' = [conv EXCEPT !.mark = GREATEST(@, through)]
                /\ covered' = covered \cup {through}
        /\ Goes(s, Free)
        /\ UNCHANGED <<turns, reader, doubled, trouble>>

\* A second call finds no row.
delete_conversation ==
    /\ LockFree /\ ~conv.deleted
    /\ conv' = [conv EXCEPT !.deleted = TRUE]
    /\ UNCHANGED <<turns, session, reader, covered, doubled, trouble>>

\* A turn's memory is forgotten.
ForgetTurn(t) ==
    /\ t \in turns /\ t.live
    /\ Trouble
    /\ turns' = (turns \ {t}) \cup {[t EXCEPT !.live = FALSE]}
    /\ UNCHANGED <<conv, session, reader, covered, doubled>>

AfterTurn(after) == {t.index : t \in {t \in turns : t.live /\ t.index > after}}

\* Faulty variant: the newest turns first.
list_turns_newest_first(after) ==
    {i \in AfterTurn(after) : Cardinality({j \in AfterTurn(after) : j > i}) < PageSize}

\* list_turns(after_turn, limit), ORDER BY turn_index: also of a conversation
\* that is deleted.
list_turns(after) ==
    {i \in AfterTurn(after) : Cardinality({j \in AfterTurn(after) : j < i}) < PageSize}

\* The reader asks for the page after the last turn it has.
ReadPage ==
    LET page == list_turns(reader.after)
    IN  \E last \in page :
            /\ \A i \in page : i <= last
            /\ reader' = [after |-> last, seen |-> reader.seen \cup page]
            /\ UNCHANGED <<conv, turns, session, covered, doubled, trouble>>

ConversationStep(s) ==
    \/ add_turn(s) \/ AddSummary(s) \/ CommitTurn(s) \/ RollBack(s)
    \/ StartSummary(s) \/ mark_summary_emitted(s)

ConversationNext ==
    \/ \E s \in Sessions : ConversationStep(s)
    \/ \E t \in turns : ForgetTurn(t)
    \/ delete_conversation \/ ReadPage

-----------------------------------------------------------------------------
(* Properties *)

Turns(role) == {t.index : t \in {t \in turns : t.role = role}}

\* The mark is the last turn that a finished summary covers, or nought, and every
\* one that is finished is itself a turn, after those it covers.
MarkStands ==
    /\ conv.mark \in covered \cup {0} /\ \A m \in covered : m <= conv.mark
    /\ \A m \in covered : \E t \in turns : t.role = "summary" /\ t.index > m

\* Turns are numbered one by one, in the order they commit, each number given
\* once, and the mark stands where the furthest summary has put it: rollbacks
\* leave no gap, and summaries that finish out of order do not turn it back.
TurnsDense ==
    /\ {t.index : t \in turns} = 1 .. conv.count
    /\ Cardinality(turns) = conv.count
    /\ MarkStands

\* Paging forward misses no turn (helpers.py "paginate forward"): behind the
\* cursor there is none the reader has not been given, however turns commit.
CursorPassesNothing ==
    \A t \in turns : t.live /\ t.index <= reader.after => t.index \in reader.seen

\* With a cadence above one, summaries do not call for summaries: there are
\* fewer than turns of the users, but for marks lost in a rollback and for
\* jobs that covered the same turns.  With a cadence of one each summary is
\* itself the turn that is due for the next.
SummariesSettle ==
    conv.cadence > 1 /\ ~doubled =>
        Cardinality(Turns("summary")) <= Cardinality(Turns("user")) + trouble - 1
            \/ turns = {}
==============================================================================
