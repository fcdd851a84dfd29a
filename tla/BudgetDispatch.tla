--------------------------- MODULE BudgetDispatch ---------------------------
(***************************************************************************)
(* dispatch_blind_first_passes (topologies.py) over one BudgetLedger       *)
(* (budget.py): the requests of one topology wait for a semaphore, reserve *)
(* a call, go to their provider in a worker thread, and settle the call    *)
(* when an answer, an error or a deadline arrives.  Each request becomes   *)
(* one result, which the receipt lists as a call (engine.py, contracts.py).*)
(*                                                                         *)
(* The event loop runs one coroutine at a time, so what happens between    *)
(* two awaits is one action.  Timers fire late at will and providers       *)
(* answer late, wrongly, too long, or never.  Costs are small naturals;    *)
(* no caller passes estimated_cost_usd, so nothing is reserved but the     *)
(* call itself.                                                            *)
(***************************************************************************)
EXTENDS Naturals, FiniteSets, FiniteSetsExt

CONSTANTS
  Request,              \* numbers of the requests, in dispatch order
  MaxConcurrency,       \* of the semaphore
  MaxCalls,             \* RunBudget.max_calls
  Wallclock,            \* RunBudget.max_wallclock_s, in ticks
  MaxCost,              \* RunBudget.max_cost_usd, or NoLimit
  NoLimit,
  Timeout,              \* timeout_s of each request, in ticks
  Costs,                \* costs a provider may report
  Unknown,              \* a cost the provider does not report
  Late                  \* bound: the clock stops this long after the deadline

ASSUME NumberAssumption == Request \subseteq Nat /\ IsFiniteSet(Request)
ASSUME LimitAssumption ==
  /\ MaxConcurrency \in Nat \ {0} /\ MaxCalls \in Nat /\ Wallclock \in Nat /\ Late \in Nat
  /\ MaxCost \in Nat \/ MaxCost = NoLimit
  /\ Timeout \in [Request -> Nat]
  /\ Costs \subseteq Nat /\ Unknown \notin Costs

VARIABLES
  clock,                \* ticks since the run started
  task,                 \* queued, running or done
  deadline,             \* deadline_monotonic of an admitted request
  result,               \* status of each result
  reported,             \* history: cost the provider reported
  answeredAt,           \* history: when a completed result came in
  callsUsed,            \* BudgetLedger._calls_used
  costUsed,             \* BudgetLedger._cost_used_usd
  reserved,             \* requests that reserved a call
  settled               \* those whose reservation is settled

dispatchVars == <<clock, task, deadline, result, reported, answeredAt, callsUsed, costUsed, reserved, settled>>

NoResult == "none"
Statuses == {"completed", "failed", "timed-out"}

DispatchInit ==
  /\ clock = 0
  /\ task = [r \in Request |-> "queued"]
  /\ deadline = [r \in Request |-> 0]
  /\ result = [r \in Request |-> NoResult]
  /\ reported = [r \in Request |-> Unknown]
  /\ answeredAt = [r \in Request |-> 0]
  /\ callsUsed = 0 /\ costUsed = 0
  /\ reserved = {} /\ settled = {}

Running == {r \in Request : task[r] = "running"}

Exhausted == clock >= Wallclock

OverCost(used) == MaxCost # NoLimit /\ used > MaxCost

Deliver(r, status) ==
  /\ task' = [task EXCEPT ![r] = "done"]
  /\ result' = [result EXCEPT ![r] = status]

\* asyncio.Semaphore wakes its waiters in order.
IsNext(r) ==
  /\ task[r] = "queued"
  /\ \A q \in Request : task[q] = "queued" => r <= q
  /\ Cardinality(Running) < MaxConcurrency

\* Mutant: one call too many.
MayReserveOneMore == ~Exhausted /\ callsUsed <= MaxCalls /\ ~OverCost(costUsed)

\* reserve_call raises BudgetExceeded.
MayReserve == ~Exhausted /\ callsUsed < MaxCalls /\ ~OverCost(costUsed)

Refuse(r) ==
  /\ IsNext(r)
  /\ ~MayReserve
  /\ Deliver(r, IF Exhausted THEN "timed-out" ELSE "failed")
  /\ UNCHANGED <<clock, deadline, reported, answeredAt, callsUsed, costUsed, reserved, settled>>

Admit(r) ==
  /\ IsNext(r)
  /\ MayReserve
  /\ callsUsed' = callsUsed + 1
  /\ reserved' = reserved \cup {r}
  /\ deadline' = [deadline EXCEPT ![r] = Min({Wallclock, clock + Timeout[r]})]
  /\ task' = [task EXCEPT ![r] = "running"]
  /\ UNCHANGED <<clock, result, reported, answeredAt, costUsed, settled>>

\* settle_call; a cost it cannot know counts as nothing.
Settle(r, cost) ==
  /\ settled' = settled \cup {r}
  /\ costUsed' = costUsed + (IF cost = Unknown THEN 0 ELSE cost)

SettleRaises(cost) ==
  \/ cost = Unknown /\ MaxCost # NoLimit
  \/ cost # Unknown /\ OverCost(costUsed + cost)

\* Mutants: the reservation is forgotten, or the result is.
AbandonUnsettled(r, status) ==
  /\ task[r] = "running"
  /\ Deliver(r, status)
  /\ UNCHANGED <<clock, deadline, reported, answeredAt, callsUsed, costUsed, reserved, settled>>

AbandonSilently(r, status) ==
  /\ task[r] = "running"
  /\ Settle(r, Unknown)
  /\ UNCHANGED <<clock, task, deadline, result, reported, answeredAt, callsUsed, reserved>>

\* The dispatch raised, or its answer is of no use: an unknown cost is
\* settled and BudgetExceeded suppressed.
Abandon(r, status) ==
  /\ task[r] = "running"
  /\ Settle(r, Unknown)
  /\ Deliver(r, status)
  /\ UNCHANGED <<clock, deadline, reported, answeredAt, callsUsed, reserved>>

\* A provider may raise TimeoutError early.
ProviderRaises(r) == \E status \in {"failed", "timed-out"} : Abandon(r, status)

\* wait_for gives up at the request's own deadline.
DispatchTimeout(r) == clock >= deadline[r] /\ Abandon(r, "timed-out")

\* An answer after the run's deadline.
AnswerTooLate(r) == Exhausted /\ Abandon(r, "timed-out")

\* Mutant: an answer nobody asked for costs nothing.
MismatchUncharged(r, cost) ==
  /\ task[r] = "running" /\ ~Exhausted
  /\ Settle(r, Unknown)
  /\ Deliver(r, "failed")
  /\ reported' = [reported EXCEPT ![r] = cost]
  /\ UNCHANGED <<clock, deadline, answeredAt, callsUsed, reserved>>

\* An answer with another handle or call id: its cost still counts.
Mismatch(r, cost) ==
  /\ task[r] = "running" /\ ~Exhausted
  /\ Settle(r, cost)
  /\ Deliver(r, "failed")
  /\ reported' = [reported EXCEPT ![r] = cost]
  /\ UNCHANGED <<clock, deadline, answeredAt, callsUsed, reserved>>

\* Mutant: the clock is not read again after the await.
AnswerAnytime(r, status, cost, tooLong) ==
  /\ task[r] = "running"
  /\ Settle(r, cost)
  /\ Deliver(r, IF SettleRaises(cost) \/ tooLong THEN "failed" ELSE status)
  /\ reported' = [reported EXCEPT ![r] = cost]
  /\ answeredAt' = [answeredAt EXCEPT ![r] = clock]
  /\ UNCHANGED <<clock, deadline, callsUsed, reserved>>

\* An answer: the provider's own status, unless settling raises or the text
\* is longer than the request allows.
Answer(r, status, cost, tooLong) ==
  /\ task[r] = "running" /\ ~Exhausted
  /\ Settle(r, cost)
  /\ Deliver(r, IF SettleRaises(cost) \/ tooLong THEN "failed" ELSE status)
  /\ reported' = [reported EXCEPT ![r] = cost]
  /\ answeredAt' = [answeredAt EXCEPT ![r] = clock]
  /\ UNCHANGED <<clock, deadline, callsUsed, reserved>>

\* dispatch_one's wait_for bounds the queue and the call by the run's deadline.
QueueTimeout(r) ==
  /\ Exhausted
  /\ task[r] = "queued"
  /\ Deliver(r, "timed-out")
  /\ UNCHANGED <<clock, deadline, reported, answeredAt, callsUsed, costUsed, reserved, settled>>

Cancel(r) == Exhausted /\ Abandon(r, "timed-out")

Tick ==
  /\ clock < Wallclock + Late
  /\ \E r \in Request : task[r] # "done"
  /\ clock' = clock + 1
  /\ UNCHANGED <<task, deadline, result, reported, answeredAt, callsUsed, costUsed, reserved, settled>>

\* Everything the event loop does without a provider.
Loop(r) == Refuse(r) \/ Admit(r) \/ DispatchTimeout(r) \/ QueueTimeout(r) \/ Cancel(r)

Provider(r) ==
  \/ ProviderRaises(r) \/ AnswerTooLate(r)
  \/ \E cost \in Costs \cup {Unknown} :
       \/ Mismatch(r, cost)
       \/ \E status \in Statuses, tooLong \in BOOLEAN : Answer(r, status, cost, tooLong)

DispatchNext == (\E r \in Request : Loop(r) \/ Provider(r)) \/ Tick

DispatchSpec == DispatchInit /\ [][DispatchNext]_dispatchVars

\* Time passes and the event loop runs; providers owe nothing.
FairDispatchSpec == DispatchSpec /\ WF_dispatchVars(Tick) /\ \A r \in Request : WF_dispatchVars(Loop(r))

-----------------------------------------------------------------------------
(* Properties *)

Completed == {r \in Request : result[r] = "completed"}

\* Requests whose cost a provider reported.
Charged == {r \in Request : reported[r] # Unknown}

Total(cost, requests) == MapThenSumSet(LAMBDA r : cost[r], requests)

AllDone == \A r \in Request : task[r] = "done"

\* Every variable has its type.
DispatchTypeOK ==
  /\ clock \in 0..Wallclock + Late
  /\ task \in [Request -> {"queued", "running", "done"}]
  /\ deadline \in [Request -> 0..Wallclock]
  /\ result \in [Request -> Statuses \cup {NoResult}]
  /\ reported \in [Request -> Costs \cup {Unknown}]
  /\ answeredAt \in [Request -> Nat]
  /\ callsUsed \in 0..MaxCalls /\ costUsed \in Nat
  /\ reserved \subseteq Request /\ settled \subseteq Request

\* Whatever comes first of an answer, an error and a deadline: a reservation
\* is settled once, no call holds one after its result, and none is lost.
ReservationsSettled ==
  /\ callsUsed = Cardinality(reserved)
  /\ reserved \ settled = Running

\* Calls in flight together may overrun the cost limit, but the results that
\* count never do: the costs of the completed ones are known and fit it; and
\* the ledger charges every cost a provider reported in time, also of answers
\* that were rejected.
CostsAddUp ==
  /\ MaxCost # NoLimit =>
       /\ \A r \in Completed : reported[r] # Unknown
       /\ Total(reported, Completed) <= MaxCost
  /\ costUsed = Total(reported, Charged)

\* No result completes after the run's wallclock budget, nor beside more
\* calls than the semaphore lets run.
CompletedInTime ==
  /\ \A r \in Completed : answeredAt[r] < Wallclock
  /\ Cardinality(Running) <= MaxConcurrency

\* A run always gets its results, though no provider ever answers.
DispatchEnds == <>AllDone
=============================================================================
