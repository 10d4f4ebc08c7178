------------------------- MODULE ComputeServiceOps -------------------------
(***************************************************************************)
(* One satellite's compute service as a value, and its operations as       *)
(* operators from a service record to the next one                         *)
(* (task/compute-service.h and .cc).  A handler that calls several of them *)
(* in one simulator event composes the operators; ComputeService runs one  *)
(* service against its callers and TaskCoordinator runs one per node.      *)
(*                                                                         *)
(* Simulator events are fields: `dispatch' and `completion' say that       *)
(* m_dispatchEvent and m_completionEvent are pending, `catchup' is the     *)
(* instant of m_catchupEvent (-1: none).  A completion is always scheduled *)
(* for current.start + current.service.                                    *)
(***************************************************************************)
EXTENDS Integers, FiniteSets

CONSTANTS Task,        \* task ids; positive integers, they break queue ties
          NsPerSecond  \* nanoseconds per second, scaled down for TLC

ASSUME TaskAssumption == Task \subseteq (Nat \ {0}) /\ IsFiniteSet(Task)
ASSUME NsAssumption == NsPerSecond \in Nat \ {0}

NoTask == 0            \* std::nullopt of m_recoveryOwner, and the id of {}
NoTime == -1

Time == Nat
Work == Nat \ {0}

WorkItem == [task : Task, work : Work, enter : Time]
NoRun == [task |-> NoTask, start |-> NoTime, service |-> 0]
Run == [task : Task, start : Time, service : Nat \ {0}] \cup {NoRun}

Service ==
    [running : BOOLEAN,          \* m_isRunning
     available : BOOLEAN,        \* m_computeAvailable
     queue : SUBSET WorkItem,    \* m_queue, ordered by Before
     known : SUBSET Task,        \* m_knownTaskIds
     hasCurrent : BOOLEAN,       \* m_hasCurrentTask
     current : Run,              \* m_currentTask and its start and duration
     dispatch : BOOLEAN,
     completion : BOOLEAN,
     catchup : Time \cup {NoTime},
     owner : Task \cup {NoTask}, \* m_recoveryOwner; the generation is always 1
     runningRecovery : BOOLEAN,  \* m_runningRecovery
     immune : BOOLEAN,           \* m_recoveryImmune
     enqueued : Nat, completed : Nat, cancelled : Nat, removed : Nat,
     busy : Nat]                 \* m_busyTimeNs

NewService ==
    [running |-> FALSE, available |-> TRUE, queue |-> {}, known |-> {},
     hasCurrent |-> FALSE, current |-> NoRun,
     dispatch |-> FALSE, completion |-> FALSE, catchup |-> NoTime,
     owner |-> NoTask, runningRecovery |-> FALSE, immune |-> FALSE,
     enqueued |-> 0, completed |-> 0, cancelled |-> 0, removed |-> 0,
     busy |-> 0]

-----------------------------------------------------------------------------
(* Queries *)

\* ceil(work * 1e9 / rate): a positive amount of work takes at least 1 ns.
ServiceTimeNs(work, rate) == (work * NsPerSecond + rate - 1) \div rate

\* Mutant: the queue is ordered by task id alone.
BeforeById(a, b) == a.task < b.task

Before(a, b) == a.enter < b.enter \/ (a.enter = b.enter /\ a.task < b.task)

QueueFront(q) == CHOOSE a \in q : \A b \in q \ {a} : Before(a, b)

Runs(s, t) == s.hasCurrent /\ s.current.task = t

IsIdle(s) == ~s.hasCurrent /\ s.queue = {} /\ s.owner = NoTask

\* The running attempt ignores compute outages.
ImmuneRun(s) == s.runningRecovery /\ s.immune

CanDispatch(s) ==
    /\ s.running /\ s.available
    /\ s.owner = NoTask
    /\ ~s.hasCurrent
    /\ s.queue # {}

CompletionDue(s, now) == s.hasCurrent /\ now - s.current.start = s.current.service

\* GetBusyTimeNs: charged time and the prefix of the current run.
BusyTimeNs(s, now) ==
    s.busy + (IF s.running /\ s.hasCurrent THEN now - s.current.start ELSE 0)

\* Mutant: a completion is accepted before it is due.
CompletionLegalEarly(s, now) ==
    s.running /\ (s.available \/ ImmuneRun(s)) /\ s.hasCurrent

\* CompleteCurrentTaskImpl aborts the program when this does not hold.
CompletionLegal(s, now) ==
    s.running /\ (s.available \/ ImmuneRun(s)) /\ CompletionDue(s, now)

-----------------------------------------------------------------------------
(* What holds of a service between two simulator events *)

\* No wakeup is lost: when the slot could take queued work, the dispatch
\* event is pending.
DispatchArmed(s) == CanDispatch(s) => s.dispatch

\* While an attempt holds the reservation nothing else runs, and a running
\* attempt is the one that holds it.
SlotOwned(s) ==
    /\ s.owner # NoTask /\ s.hasCurrent => s.runningRecovery
    /\ s.runningRecovery => s.hasCurrent /\ s.current.task = s.owner

\* A completion is pending exactly for the run in the slot of a running
\* service, and is not overdue,
CompletionTimely(s, now) ==
    /\ s.completion <=> s.running /\ s.hasCurrent
    /\ s.completion => now <= s.current.start + s.current.service

\* and the service may still execute that run.
CompletionAllowed(s) == s.completion => s.available \/ ImmuneRun(s)

\* A queued task was admitted, once, and not in the future.
QueueSane(s, now) ==
    /\ IsFiniteSet(s.queue)
    /\ \A i \in s.queue : i.task \in s.known /\ i.enter <= now
    /\ \A i, j \in s.queue : i.task = j.task => i = j

CurrentSane(s, now) ==
    s.hasCurrent =>
        /\ s.current # NoRun
        /\ s.current.start <= now
        /\ s.current.task \in s.known
        /\ \A i \in s.queue : i.task # s.current.task

\* Every admitted execution is waiting, running, completed, cancelled while
\* running or removed from the queue.
Conserved(s) ==
    s.enqueued = s.completed + s.cancelled + s.removed
                 + Cardinality(s.queue) + (IF s.hasCurrent THEN 1 ELSE 0)

\* One server is never busy for longer than time has passed.
BusyBounded(s, now) == BusyTimeNs(s, now) <= now

\* The part that also holds in the middle of a handler.
ServiceCore(s, now) ==
    /\ SlotOwned(s) /\ CompletionTimely(s, now)
    /\ QueueSane(s, now) /\ CurrentSane(s, now)
    /\ Conserved(s) /\ BusyBounded(s, now)

ServiceInv(s, now) ==
    ServiceCore(s, now) /\ DispatchArmed(s) /\ CompletionAllowed(s)

-----------------------------------------------------------------------------
(* Dispatch *)

RequestDispatch(s) == [s EXCEPT !.dispatch = @ \/ CanDispatch(s)]

StartFront(s, now, rate) ==
    LET next == QueueFront(s.queue) IN
    [s EXCEPT !.queue = @ \ {next},
              !.hasCurrent = TRUE,
              !.current = [task |-> next.task, start |-> now,
                           service |-> ServiceTimeNs(next.work, rate)],
              !.completion = TRUE]

DispatchNextTask(s, now, rate) ==
    IF CanDispatch(s) THEN StartFront(s, now, rate) ELSE s

\* The pending dispatch event runs.
FireDispatch(s, now, rate) ==
    DispatchNextTask([s EXCEPT !.dispatch = FALSE], now, rate)

-----------------------------------------------------------------------------
(* Ordinary tasks *)

SubmitTask(s, task, work, now) ==
    RequestDispatch([s EXCEPT !.known = @ \cup {task},
                              !.queue = @ \cup {[task |-> task, work |-> work, enter |-> now]},
                              !.enqueued = @ + 1])

SetComputeAvailable(s, available) ==
    IF s.available = available THEN s
    ELSE IF available THEN RequestDispatch([s EXCEPT !.available = TRUE])
    ELSE [s EXCEPT !.available = FALSE, !.dispatch = FALSE]

\* Mutants: the completion event survives its run; the prefix is charged again
\* after StopApplication charged it.
CancelRunningKeepingEvent(s, task, now) ==
    IF ~s.hasCurrent \/ s.current.task # task THEN s
    ELSE RequestDispatch([s EXCEPT !.busy = BusyTimeNs(s, now),
                                   !.hasCurrent = FALSE,
                                   !.current = NoRun,
                                   !.cancelled = @ + 1])

CancelRunningChargingTwice(s, task, now) ==
    IF ~s.hasCurrent \/ s.current.task # task THEN s
    ELSE RequestDispatch([s EXCEPT !.completion = FALSE,
                                   !.busy = @ + (now - s.current.start),
                                   !.hasCurrent = FALSE,
                                   !.current = NoRun,
                                   !.cancelled = @ + 1])

\* A stopped service has charged the prefix of its run already.
CancelRunningTaskForFailure(s, task, now) ==
    IF ~s.hasCurrent \/ s.current.task # task THEN s
    ELSE RequestDispatch([s EXCEPT !.completion = FALSE,
                                   !.busy = BusyTimeNs(s, now),
                                   !.hasCurrent = FALSE,
                                   !.current = NoRun,
                                   !.cancelled = @ + 1])

RemoveQueuedTaskForFailure(s, task) ==
    IF \A i \in s.queue : i.task # task THEN s
    ELSE [s EXCEPT !.queue = {i \in @ : i.task # task}, !.removed = @ + 1]

\* The slot after a completion, before the next dispatch.
Vacated(s) ==
    [s EXCEPT !.completion = FALSE,
              !.busy = @ + s.current.service,
              !.completed = @ + 1,
              !.hasCurrent = FALSE,
              !.current = NoRun,
              !.owner = IF s.runningRecovery THEN NoTask ELSE @,
              !.catchup = IF s.runningRecovery THEN NoTime ELSE @,
              !.runningRecovery = FALSE]

CompleteCurrentTask(s, now, rate, deferDispatch) ==
    IF deferDispatch THEN RequestDispatch(Vacated(s))
    ELSE DispatchNextTask(Vacated(s), now, rate)

CanCompleteIfDue(s, task, now) == CompletionLegal(s, now) /\ s.current.task = task

CompleteTaskIfDue(s, task, now, rate, deferDispatch) ==
    IF CanCompleteIfDue(s, task, now)
    THEN CompleteCurrentTask(s, now, rate, deferDispatch) ELSE s

-----------------------------------------------------------------------------
(* Reserved attempts: recoveries and replicas *)

CanReserve(s, task) == s.running /\ s.available /\ IsIdle(s) /\ task \notin s.known

ReserveRecovery(s, task) ==
    IF CanReserve(s, task)
    THEN [s EXCEPT !.owner = task, !.immune = FALSE, !.dispatch = FALSE] ELSE s

\* Mutant: a slot that is given back unused does not wake the dispatcher.
ReleaseRecoverySilently(s, task) ==
    IF s.owner # task \/ s.runningRecovery THEN s
    ELSE [s EXCEPT !.owner = NoTask]

ReleaseRecovery(s, task) ==
    IF s.owner # task \/ s.runningRecovery THEN s
    ELSE RequestDispatch([s EXCEPT !.owner = NoTask])

CanStartAttempt(s, task, immune) ==
    /\ s.owner = task /\ s.running /\ ~s.hasCurrent
    /\ immune \/ s.available

\* `hasCatchup' is whether the caller passed a catch-up callback.
StartReservedAttempt(s, task, work, catchupWork, hasCatchup, immune, now, rate) ==
    IF ~CanStartAttempt(s, task, immune) THEN s
    ELSE [s EXCEPT !.known = @ \cup {task},
                   !.enqueued = @ + 1,
                   !.hasCurrent = TRUE,
                   !.current = [task |-> task, start |-> now,
                                service |-> ServiceTimeNs(work, rate)],
                   !.runningRecovery = TRUE,
                   !.immune = immune,
                   !.catchup = IF ~hasCatchup THEN @
                               ELSE IF catchupWork = 0 THEN now
                               ELSE now + ServiceTimeNs(catchupWork, rate),
                   !.completion = TRUE]

StartRecovery(s, task, work, catchupWork, now, rate) ==
    StartReservedAttempt(s, task, work, catchupWork, TRUE, TRUE, now, rate)

StartReplica(s, task, work, now, rate) ==
    StartReservedAttempt(s, task, work, 0, FALSE, s.immune, now, rate)

PromoteReplica(s, task) ==
    IF s.owner = task /\ s.available THEN [s EXCEPT !.immune = TRUE] ELSE s

\* Mutant: the freed slot does not wake the dispatcher.
CancelRecoverySilently(s, task, now) ==
    IF s.owner # task THEN s
    ELSE LET quiet == [s EXCEPT !.catchup = NoTime]
             idle == IF s.runningRecovery
                     THEN [CancelRunningTaskForFailure(quiet, task, now)
                           EXCEPT !.runningRecovery = FALSE]
                     ELSE quiet
         IN [idle EXCEPT !.owner = NoTask]

CancelRecovery(s, task, now) ==
    IF s.owner # task THEN s
    ELSE LET quiet == [s EXCEPT !.catchup = NoTime]
             idle == IF s.runningRecovery
                     THEN [CancelRunningTaskForFailure(quiet, task, now)
                           EXCEPT !.runningRecovery = FALSE]
                     ELSE quiet
         IN RequestDispatch([idle EXCEPT !.owner = NoTask])

-----------------------------------------------------------------------------
(* The application's start and stop events *)

StartApplication(s) == RequestDispatch([s EXCEPT !.running = TRUE])

\* The current run stays: FinalizeSimulation cancels it after the simulation.
StopApplication(s, now) ==
    [s EXCEPT !.catchup = NoTime,
              !.busy = BusyTimeNs(s, now),
              !.running = FALSE,
              !.dispatch = FALSE,
              !.completion = FALSE]

=============================================================================
