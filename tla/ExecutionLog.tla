---------------------------- MODULE ExecutionLog ----------------------------
(***************************************************************************)
(* What remains of an execution: the event ring (internal/routing/         *)
(* events.go), the token counters of a source and whether its cost is      *)
(* known (output.go; the estimate, a sum of floats, is left out), and the  *)
(* counters that Release keeps (router.go), all under the capacity mutex.  *)
(*                                                                         *)
(* A lease is recorded by its handler, at most twice if the deferred       *)
(* function runs after an explicit record, and released once; a new        *)
(* configuration may replace the router in between and shares the ring.    *)
(***************************************************************************)
EXTENDS Integers, Sequences, FiniteSets

CONSTANTS
    Leases,
    Size,           \* MaxExecutionEvents
    Results,        \* execution results: input, output, total tokens, known, successful, canceled
    Statuses,       \* statuses of a release; -1 is an administrative one
    Priced          \* leases of a model with both prices

\* What the instances satisfy
LogAssumption ==
    /\ IsFiniteSet(Leases) /\ Size \in Nat \ {0} /\ Priced \subseteq Leases
    /\ Results \subseteq [in : Int, out : Int, total : Int, known : BOOLEAN, ok : BOOLEAN,
                          canceled : BOOLEAN, none : {FALSE}]

VARIABLES
    events,     \* the ring
    cursor,     \* eventCursor
    sequence,   \* eventSequence
    counters,   \* tokens, executions, priced executions, costKnown
    tally,      \* state.completed and state.failures
    execution,  \* Lease.execution
    state,      \* a lease is "held", "released" after an execution, or "returned" without one
    first       \* history: the result each lease was first recorded with

vars == <<events, cursor, sequence, counters, tally, execution, state, first>>

NoResult == [in |-> 0, out |-> 0, total |-> 0, known |-> FALSE, ok |-> FALSE, canceled |-> FALSE,
             none |-> TRUE]
Ok(status) == status \in 200..299

-----------------------------------------------------------------------------

NotNegative(n) == IF n < 0 THEN 0 ELSE n

\* The total a result names, or the sum if it names none
TotalOf(r) ==
    IF NotNegative(r.total) = 0 THEN NotNegative(r.in) + NotNegative(r.out) ELSE r.total

\* Faulty variant: every record is counted.
CountAlways(l) == TRUE

CountsNow(l) == execution[l] = NoResult

CostKnown(c) == c.executions > 0 /\ c.priced = c.executions

\* RecordExecution: only the first record of a lease counts, the last one
\* is what its event shows.
Record(l, r) ==
    /\ state[l] = "held"
    /\ LET c == [counters EXCEPT !.in = @ + NotNegative(r.in), !.out = @ + NotNegative(r.out),
                                 !.total = @ + TotalOf(r), !.executions = @ + 1,
                                 !.priced = IF r.known /\ l \in Priced THEN @ + 1 ELSE @]
       IN counters' = IF CountsNow(l) THEN [c EXCEPT !.costKnown = CostKnown(c)] ELSE counters
    /\ execution' = [execution EXCEPT ![l] = r]
    /\ first' = IF first[l] = NoResult THEN [first EXCEPT ![l] = r] ELSE first
    /\ UNCHANGED <<events, cursor, sequence, tally, state>>

Outcome(l, status) ==
    LET r == execution[l]
    IN IF r = NoResult
       THEN IF status = 499 THEN "canceled" ELSE IF Ok(status) THEN "succeeded" ELSE "failed"
       ELSE IF r.canceled \/ (status = 499 /\ r.ok) THEN "canceled"
       ELSE IF ~r.ok \/ ~Ok(status) THEN "failed" ELSE "succeeded"

Event(l, status) == [sequence |-> sequence + 1, lease |-> l, outcome |-> Outcome(l, status)]

\* Faulty variant: the oldest place is not moved when the ring is full.
StayAtOldest == cursor

NextOldest == (cursor + 1) % Size

\* recordEvent
Push(e) ==
    IF Len(events) < Size
    THEN events' = Append(events, e) /\ UNCHANGED cursor
    ELSE /\ events' = [events EXCEPT ![cursor + 1] = e]
         /\ cursor' = NextOldest

\* Release: its once makes it happen a single time.
Release(l, status) ==
    /\ state[l] = "held"
    /\ state' = [state EXCEPT ![l] = IF status = -1 THEN "returned" ELSE "released"]
    /\ IF status # -1
       THEN /\ Push(Event(l, status))
            /\ sequence' = sequence + 1
            /\ tally' = IF Ok(status) THEN [tally EXCEPT !.completed = @ + 1]
                        ELSE IF status = 499 THEN tally
                        ELSE [tally EXCEPT !.failures = @ + 1]
       ELSE UNCHANGED <<events, cursor, sequence, tally>>
    /\ UNCHANGED <<counters, execution, first>>

Init ==
    /\ events = <<>> /\ cursor = 0 /\ sequence = 0
    /\ counters = [in |-> 0, out |-> 0, total |-> 0, executions |-> 0, priced |-> 0,
                   costKnown |-> FALSE]
    /\ tally = [completed |-> 0, failures |-> 0]
    /\ execution = [l \in Leases |-> NoResult] /\ first = execution
    /\ state = [l \in Leases |-> "held"]

Next ==
    \E l \in Leases :
        \/ \E r \in Results : Record(l, r)
        \/ \E status \in Statuses : Release(l, status)

Spec == Init /\ [][Next]_vars

-----------------------------------------------------------------------------
(* Properties                                                              *)

\* ExecutionEvents: from the oldest place once around
ExecutionEvents ==
    [i \in DOMAIN events |-> events[((cursor + i - 1) % Len(events)) + 1]]

\* Every event there could be
AnyEvent == [sequence: 1..Cardinality(Leases), lease: Leases,
             outcome: {"succeeded", "failed", "canceled"}]

Log == INSTANCE EventLog WITH Events <- AnyEvent, recent <- ExecutionEvents

(* Read from its cursor, the ring is always the queue of the latest events *)
(* that EventLog describes: nothing is lost, repeated or out of order when *)
(* it wraps around.                                                        *)
RingIsLog == Log!Spec

Counted == {l \in Leases : first[l] # NoResult}

\* The tokens of the first records, each one named
InputTokens == UNION {{l} \X (1..NotNegative(first[l].in)) : l \in Leases}
OutputTokens == UNION {{l} \X (1..NotNegative(first[l].out)) : l \in Leases}
TotalTokens == UNION {{l} \X (1..TotalOf(first[l])) : l \in Leases}

(* The counters hold what each lease was first recorded with, once, and a  *)
(* cost is only called known if it is known of every execution.            *)
UsageCountedOnce ==
    /\ counters.executions = Cardinality(Counted)
    /\ counters.in = Cardinality(InputTokens)
    /\ counters.out = Cardinality(OutputTokens)
    /\ counters.total = Cardinality(TotalTokens)
    /\ counters.costKnown => \A l \in Counted : first[l].known /\ l \in Priced

(* Each released execution has one event, a lease that was only returned   *)
(* has none, and no event calls a success what its handler saw fail.       *)
EventsAreTrue ==
    /\ \A i, j \in DOMAIN events : events[i].lease = events[j].lease => i = j
    /\ \A i \in DOMAIN events :
         LET l == events[i].lease
         IN /\ state[l] = "released"
            /\ events[i].outcome = "succeeded" /\ execution[l] # NoResult
                 => execution[l].ok /\ ~execution[l].canceled
    /\ tally.completed + tally.failures <= sequence
    /\ sequence = Cardinality({l \in Leases : state[l] = "released"})

(* What RecordExecution and Release leave behind is what happened.         *)
RecordsAreTrue == UsageCountedOnce /\ EventsAreTrue
=============================================================================
