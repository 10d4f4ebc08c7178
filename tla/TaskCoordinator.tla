-------------------------- MODULE TaskCoordinator --------------------------
(***************************************************************************)
(* The task coordinator joins, for every task, an input transfer, one turn *)
(* of the compute service of its node and a result transfer, under compute *)
(* deadlines and fault batches (task/task-coordinator.cc and               *)
(* task/compute-task.cc).                                                  *)
(*                                                                         *)
(* Recovery and replication hooks take no task here; `Handlers' says that  *)
(* they are installed all the same, which changes the order of completion  *)
(* and outage in a fault batch and lets FinalizeSimulation run.            *)
(*                                                                         *)
(* An instant has two halves as in ComputeService: events scheduled before *)
(* it, in an order left open, and then the dispatch events scheduled in it *)
(* (`late').  Simulator::Stop is scheduled before the run, so at StopTime  *)
(* nothing happens but the finalization.                                   *)
(***************************************************************************)
EXTENDS ComputeServiceOps, FaultBatches

CONSTANTS SourceNode, HostNode, ResultNode,  \* of each task
          Arrival, WorkOf,
          Budget,    \* computeDeadlineBudgetNs
          Rate,      \* of each server
          Handlers, StopTime,
          MaxFaults  \* bound: faults that start in one behaviour

ASSUME NodeAssumption ==
    /\ Server \subseteq Sat /\ IsFiniteSet(Sat)
    /\ SourceNode \in [Task -> Sat] /\ HostNode \in [Task -> Server]
    /\ ResultNode \in [Task -> Sat]
    /\ \A t \in Task : HostNode[t] \notin {SourceNode[t], ResultNode[t]}
ASSUME LoadAssumption ==
    /\ Arrival \in [Task -> Nat] /\ WorkOf \in [Task -> Work]
    /\ Budget \in [Task -> Nat \ {0}] /\ Rate \in [Server -> Nat \ {0}]
    /\ Handlers \in BOOLEAN /\ MaxFaults \in Nat
    /\ StopTime \in Nat /\ \A t \in Task : Arrival[t] < StopTime

VARIABLES now, late, batched,  \* as in ComputeService
          svc,    \* m_computeServices
          task,   \* m_tasks, with the task's transfers and deadline event
          fault,  \* the active fault of each satellite
          faults, \* number of faults started
          ended   \* FinalizeSimulation has run

vars == <<now, late, batched, svc, task, fault, faults, ended>>

TerminalState == {"COMPLETED", "FAILED"}
State == {"PENDING", "INPUT_TRANSFERRING", "QUEUED", "RUNNING",
          "RESULT_TRANSFERRING"} \cup TerminalState

\* `started' stands for every state of the transfer engine from StartTransferNow
\* to a terminal one: activation pending, waiting, active, paused, sent.
TerminalTransfer == {"completed", "failed", "cancelled"}
Transfer == {"registered", "started"} \cup TerminalTransfer

TaskRuntime ==
    [state : State,
     start : Time \cup {NoTime},     \* computeStartTimeNs
     complete : Time \cup {NoTime},  \* computeCompleteTimeNs
     deadline : Time \cup {NoTime},
     timer : BOOLEAN,                \* the deadline event is pending
     events : Nat,                   \* its records in m_taskEvents
     input : Transfer, result : Transfer]

NewTask ==
    [state |-> "PENDING", start |-> NoTime, complete |-> NoTime,
     deadline |-> NoTime, timer |-> FALSE, events |-> 0,
     input |-> "registered", result |-> "registered"]

\* m_unavailableSatelliteNodes
Dead == {n \in Sat : fault[n] = "satellite"}

Queued(s, t) == \E i \in s.queue : i.task = t

Init ==
    /\ now = 0 /\ late = FALSE /\ batched = FALSE
    /\ svc = [n \in Server |-> [NewService EXCEPT !.running = TRUE]]
    /\ task = [t \in Task |-> NewTask]
    /\ fault = [n \in Sat |-> "none"] /\ faults = 0
    /\ ended = FALSE

-----------------------------------------------------------------------------
(* One task's record *)

Terminal(r) == r.state \in TerminalState

Transition(r, state) == [r EXCEPT !.state = state, !.events = @ + 1]

\* FinalizeTransferIfActive
Finalized(transfer, outcome) ==
    IF transfer \in TerminalTransfer THEN transfer ELSE outcome

\* HandleComputeStart: the absolute deadline is fixed at the first start.
Started(r, t) ==
    IF Terminal(r) THEN r
    ELSE [Transition(r, "RUNNING") EXCEPT !.start = now,
                                          !.deadline = now + Budget[t],
                                          !.timer = TRUE]

\* HandleComputeComplete
Computed(r) ==
    IF Terminal(r) THEN r
    ELSE [Transition(r, "RESULT_TRANSFERRING") EXCEPT !.complete = now,
                                                      !.timer = FALSE,
                                                      !.result = "started"]

\* FailTaskForComputeNode, for the states it is called in.
FailedByCompute(r) ==
    IF Terminal(r) THEN r
    ELSE [Transition(r, "FAILED") EXCEPT !.timer = FALSE,
                                         !.result = Finalized(@, "cancelled")]

\* The satellites a fault of which fails a task in this state.
Needed(t, state) ==
    CASE state \in {"PENDING", "INPUT_TRANSFERRING"} ->
            {SourceNode[t], HostNode[t], ResultNode[t]}
      [] state \in {"QUEUED", "RUNNING", "RESULT_TRANSFERRING"} ->
            {HostNode[t], ResultNode[t]}
      [] state \in TerminalState -> {}

\* Mutant: the input of a failed task is left to arrive.
FailedBySatelliteLeavingInput(r, t, down) ==
    [Transition(r, "FAILED") EXCEPT
       !.timer = FALSE,
       !.result = Finalized(@, IF r.state = "RESULT_TRANSFERRING"
                               THEN "failed" ELSE "cancelled")]

\* FailTaskForSatelliteNode, with the satellites that are down: the source
\* is looked at first, then the host, then the result satellite.
FailedBySatellite(r, t, down) ==
    [Transition(r, "FAILED") EXCEPT
       !.timer = FALSE,
       !.input = IF r.state \notin {"PENDING", "INPUT_TRANSFERRING"} THEN @
                 ELSE Finalized(@, IF /\ r.state = "INPUT_TRANSFERRING"
                                      /\ down \cap {SourceNode[t], HostNode[t]} # {}
                                   THEN "failed" ELSE "cancelled"),
       !.result = Finalized(@, IF r.state = "RESULT_TRANSFERRING"
                               THEN "failed" ELSE "cancelled")]

FailedAtEndRunning(r) ==
    IF r.state # "RUNNING" THEN r
    ELSE [Transition(r, "FAILED") EXCEPT !.timer = FALSE,
                                         !.result = Finalized(@, "cancelled")]

\* FinalizeSimulation
FailedAtEnd(r) ==
    IF Terminal(r) THEN r
    ELSE [Transition(r, "FAILED") EXCEPT !.timer = FALSE,
                                         !.input = Finalized(@, "cancelled"),
                                         !.result = Finalized(@, "cancelled")]

-----------------------------------------------------------------------------
(* One node's service and its tasks *)

\* The task that is new in the slot of node n has started.
WithStart(tasks, n, s) ==
    [t \in Task |-> IF Runs(s, t) /\ ~Runs(svc[n], t)
                    THEN Started(tasks[t], t) ELSE tasks[t]]

RemoveQueuedTasks(s, gone) ==
    [s EXCEPT !.queue = {i \in @ : i.task \notin gone},
              !.removed = @ + Cardinality({i \in s.queue : i.task \in gone})]

\* Mutant: only queued tasks are withdrawn.
WithdrawQueued(s, victims) == RemoveQueuedTasks(s, victims)

\* The victims are failed one by one in the order of their ids.
Withdraw(s, victims) ==
    IF s.hasCurrent /\ s.current.task \in victims
    THEN LET run == s.current.task
             before == {t \in victims : t < run}
             after == {t \in victims : t > run}
         IN RemoveQueuedTasks(
              CancelRunningTaskForFailure(RemoveQueuedTasks(s, before), run, now), after)
    ELSE RemoveQueuedTasks(s, victims)

DueNow(n) == svc[n].completion /\ CompletionDue(svc[n], now)

\* The service of node n completes its run and dispatches its queue.
CompleteRun(n) ==
    LET s == CompleteCurrentTask(svc[n], now, Rate[n], FALSE)
        done == svc[n].current.task
    IN /\ svc' = [svc EXCEPT ![n] = s]
       /\ task' = WithStart([task EXCEPT ![done] = Computed(@)], n, s)

-----------------------------------------------------------------------------
(* Simulator events *)

Early == ~late /\ now < StopTime

\* Mutant: the satellites are not looked at when the task arrives.
ArriveUnchecked(t) ==
    /\ Early /\ now = Arrival[t]
    /\ task[t].state = "PENDING"
    /\ task' = [task EXCEPT ![t] =
                  [Transition(@, "INPUT_TRANSFERRING") EXCEPT !.input = "started"]]
    /\ UNCHANGED <<now, late, batched, svc, fault, faults, ended>>

Arrive(t) ==
    /\ Early /\ now = Arrival[t]
    /\ task[t].state = "PENDING"
    /\ task' = [task EXCEPT ![t] =
                  IF Needed(t, "PENDING") \cap Dead # {}
                  THEN FailedBySatellite(@, t, Dead)
                  ELSE [Transition(@, "INPUT_TRANSFERRING") EXCEPT !.input = "started"]]
    /\ UNCHANGED <<now, late, batched, svc, fault, faults, ended>>

\* The two satellites of a transfer differ: it takes time.
InputArrives(t) ==
    /\ Early /\ now > Arrival[t]
    /\ task[t].input = "started"
    /\ LET r == [task[t] EXCEPT !.input = "completed"] IN
       IF Terminal(r)
       THEN task' = [task EXCEPT ![t] = r] /\ UNCHANGED svc
       ELSE IF HostNode[t] \in Dead
       THEN task' = [task EXCEPT ![t] = FailedBySatellite(r, t, {HostNode[t]})] /\ UNCHANGED svc
       ELSE /\ task' = [task EXCEPT ![t] = Transition(r, "QUEUED")]
            /\ svc' = [svc EXCEPT ![HostNode[t]] = SubmitTask(@, t, WorkOf[t], now)]
    /\ UNCHANGED <<now, late, batched, fault, faults, ended>>

\* No event scheduled before this instant is left in it.
Quiet ==
    /\ \A t \in Task : /\ task[t].state = "PENDING" => now # Arrival[t]
                       /\ task[t].timer => now # task[t].deadline
    /\ \A n \in Server : ~DueNow(n)

Dispatch(n) ==
    /\ now < StopTime /\ Quiet
    /\ svc[n].dispatch
    /\ LET s == FireDispatch(svc[n], now, Rate[n]) IN
       /\ svc' = [svc EXCEPT ![n] = s]
       /\ task' = WithStart(task, n, s)
    /\ late' = TRUE
    /\ UNCHANGED <<now, batched, fault, faults, ended>>

Complete(n) ==
    /\ Early /\ DueNow(n)
    /\ CompleteRun(n)
    /\ UNCHANGED <<now, late, batched, fault, faults, ended>>

\* Mutant: a completion due in the same instant does not count.
DeadlineExclusive(t) ==
    /\ Early /\ task[t].timer /\ now = task[t].deadline
    /\ task' = [task EXCEPT ![t] = FailedByCompute(@)]
    /\ svc' = [svc EXCEPT ![HostNode[t]] = Withdraw(@, {t})]
    /\ UNCHANGED <<now, late, batched, fault, faults, ended>>

\* HandleComputeDeadline
Deadline(t) ==
    /\ Early /\ task[t].timer /\ now = task[t].deadline
    /\ LET n == HostNode[t]
           fired == [task EXCEPT ![t].timer = FALSE]
       IN IF Terminal(task[t]) \/ task[t].complete # NoTime
          THEN task' = fired /\ UNCHANGED svc
          ELSE IF CanCompleteIfDue(svc[n], t, now) THEN CompleteRun(n)
          ELSE /\ task' = [task EXCEPT ![t] = FailedByCompute(@)]
               /\ svc' = [svc EXCEPT ![n] = Withdraw(@, {t})]
    /\ UNCHANGED <<now, late, batched, fault, faults, ended>>

\* Mutant: the completion callback runs before the transfer is finalized, and
\* nothing finalizes it afterwards.
ResultArrivesUnfinalized(t) ==
    /\ Early /\ now > task[t].complete
    /\ task[t].result = "started"
    /\ task' = [task EXCEPT ![t] = IF Terminal(@) THEN @ ELSE Transition(@, "COMPLETED")]
    /\ UNCHANGED <<now, late, batched, svc, fault, faults, ended>>

ResultArrives(t) ==
    /\ Early /\ now > task[t].complete
    /\ task[t].result = "started"
    /\ LET r == [task[t] EXCEPT !.result = "completed"] IN
       task' = [task EXCEPT ![t] = IF Terminal(r) THEN r ELSE Transition(r, "COMPLETED")]
    /\ UNCHANGED <<now, late, batched, svc, fault, faults, ended>>

Tick ==
    /\ now < StopTime /\ Quiet
    /\ \A n \in Server : ~svc[n].dispatch
    /\ now' = now + 1
    /\ late' = FALSE /\ batched' = FALSE
    /\ UNCHANGED <<svc, task, fault, faults, ended>>

-----------------------------------------------------------------------------
(* Fault batches *)

\* The availability of node n changes; with handlers installed, a completion
\* due in this instant comes before the outage and its dispatch after it.
Switched(n, recovered, down) ==
    LET up == IF n \in recovered THEN SetComputeAvailable(svc[n], TRUE) ELSE svc[n]
    IN IF n \notin down THEN up
       ELSE SetComputeAvailable(
              IF Handlers /\ CompletionLegal(up, now)
              THEN CompleteCurrentTask(up, now, Rate[n], TRUE) ELSE up, FALSE)

\* Mutant: a task that reached its result transfer is safe.
SatelliteVictimsComputed(tasks, dead) ==
    {t \in Task : /\ tasks[t].state # "RESULT_TRANSFERRING"
                  /\ tasks[t].state = "PENDING" => Arrival[t] = now
                  /\ Needed(t, tasks[t].state) \cap dead # {}}

SatelliteVictims(tasks, dead) ==
    {t \in Task : /\ tasks[t].state = "PENDING" => Arrival[t] = now
                  /\ Needed(t, tasks[t].state) \cap dead # {}}

\* A compute fault interrupts what runs; what waits or arrives is delayed.
ComputeVictims(tasks, down) ==
    {t \in Task : tasks[t].state = "RUNNING" /\ HostNode[t] \in down}

\* ApplyFaultBatch: `kind' of the faults that start, "none" elsewhere.
ApplyFaultBatch(recovered, kind) ==
    LET dead == {n \in Sat : kind[n] = "satellite"}
        down == {n \in Sat : kind[n] # "none"}
        switched == [n \in Server |-> Switched(n, recovered, down)]
        tasks == [t \in Task |-> IF /\ Runs(svc[HostNode[t]], t)
                                    /\ ~Runs(switched[HostNode[t]], t)
                                 THEN Computed(task[t]) ELSE task[t]]
        lost == SatelliteVictims(tasks, dead)
        interrupted == ComputeVictims(tasks, down) \ lost
    IN /\ svc' = [n \in Server |->
                    Withdraw(switched[n], {t \in lost \cup interrupted : HostNode[t] = n})]
       /\ task' = [t \in Task |->
                     IF t \in lost THEN FailedBySatellite(tasks[t], t, dead)
                     ELSE IF t \in interrupted THEN FailedByCompute(tasks[t])
                     ELSE tasks[t]]
       /\ fault' = AfterBatch(fault, recovered, kind)

\* One batch per instant, and none at the end: a recovery due there is not
\* scheduled.
FaultBatch ==
    /\ Early /\ ~batched
    /\ \E recovered \in SUBSET Sat : \E kind \in [Sat -> FaultKind] :
         LET starts == {n \in Sat : kind[n] # "none"} IN
         /\ recovered \cup starts # {}
         /\ Admissible(fault, recovered, kind)
         /\ faults + Cardinality(starts) <= MaxFaults
         /\ ApplyFaultBatch(recovered, kind)
         /\ faults' = faults + Cardinality(starts)
    /\ batched' = TRUE
    /\ UNCHANGED <<now, late, ended>>

-----------------------------------------------------------------------------

FinalizeSimulation ==
    /\ Handlers /\ now = StopTime /\ ~ended
    /\ task' = [t \in Task |-> FailedAtEnd(task[t])]
    /\ svc' = [n \in Server |-> Withdraw(svc[n], {t \in Task : /\ HostNode[t] = n
                                                               /\ ~Terminal(task[t])})]
    /\ ended' = TRUE
    /\ UNCHANGED <<now, late, batched, fault, faults>>

Next ==
    \/ \E t \in Task : Arrive(t) \/ InputArrives(t) \/ Deadline(t) \/ ResultArrives(t)
    \/ \E n \in Server : Dispatch(n) \/ Complete(n)
    \/ FaultBatch
    \/ Tick
    \/ FinalizeSimulation

Spec == Init /\ [][Next]_vars

\* The simulator executes events as long as one is left, and the program goes
\* on after it.
FairSpec == Spec /\ WF_vars(Next)

-----------------------------------------------------------------------------
(* Properties *)

TypeOK ==
    /\ now \in 0..StopTime /\ late \in BOOLEAN /\ batched \in BOOLEAN
    /\ svc \in [Server -> Service]
    /\ task \in [Task -> TaskRuntime]
    /\ fault \in [Sat -> FaultKind] /\ faults \in 0..MaxFaults
    /\ ended \in BOOLEAN

\* Each service is sound under the coordinator's calls: no lost wakeup, no
\* stale completion event, every execution accounted for.
ServicesSound == \A n \in Server : ServiceInv(svc[n], now)

\* A task is queued or running exactly where its record says: RemoveQueued...
\* and CancelRunningTaskForFailure always find it, no service works for a task
\* that has ended, and none knows a task of another node.
ServicesAgree ==
    \A t \in Task, n \in Server :
        /\ Queued(svc[n], t) <=> HostNode[t] = n /\ task[t].state = "QUEUED"
        /\ Runs(svc[n], t) <=> HostNode[t] = n /\ task[t].state = "RUNNING"
        /\ Runs(svc[n], t) => svc[n].current.start = task[t].start

\* A service is open exactly while its satellite has no fault.
AvailabilityAgrees == \A n \in Server : svc[n].available <=> fault[n] = "none"

\* No task is left alive that needs a dead satellite, however its arrival, its
\* transfers and the faults interleave.
NoneOnDeadSatellite ==
    \A t \in Task : task[t].state = "PENDING" \/ Needed(t, task[t].state) \cap Dead = {}

\* The transfers follow the task: each is in flight in one stage only, and
\* none is left unfinished by a task that has ended.
TransfersFollow ==
    \A t \in Task :
        /\ task[t].input = "started" <=> task[t].state = "INPUT_TRANSFERRING"
        /\ task[t].result = "started" <=> task[t].state = "RESULT_TRANSFERRING"
        /\ Terminal(task[t]) => {task[t].input, task[t].result} \subseteq TerminalTransfer
        /\ task[t].state \in {"QUEUED", "RUNNING", "RESULT_TRANSFERRING"} =>
               task[t].input = "completed"

\* A running task is under its deadline and the deadline event is pending; no
\* computation counts that ends after it.
DeadlineHolds ==
    \A t \in Task :
        /\ task[t].timer <=> task[t].state = "RUNNING"
        /\ task[t].timer => now <= task[t].deadline
        /\ task[t].complete # NoTime =>
               /\ task[t].complete <= task[t].deadline
               /\ task[t].state \in {"RESULT_TRANSFERRING"} \cup TerminalState

\* However a task gets where it is, its transfers and its deadline event are
\* those of that place; a task that has ended leaves nothing behind.
NothingLeftBehind == TransfersFollow /\ DeadlineHolds

\* No reservation is made, the simulation stops before the services do, and a
\* service knows the tasks that were submitted to it.
ServicesPlain ==
    \A n \in Server :
        /\ svc[n].running /\ svc[n].owner = NoTask /\ ~svc[n].runningRecovery
        /\ \A t \in svc[n].known :
             HostNode[t] = n /\ task[t].state \notin {"PENDING", "INPUT_TRANSFERRING"}

\* The inductive invariant: the safety properties above need each other.
IInv ==
    /\ TypeOK /\ ServicesPlain /\ ServicesSound /\ ServicesAgree /\ AvailabilityAgrees
    /\ NoneOnDeadSatellite /\ TransfersFollow /\ DeadlineHolds

\* When IsComplete holds, ValidateCompleted finds what it asserts: both
\* transfers delivered, five transitions a task, idle services that completed
\* whatever was enqueued.
CompletionValid ==
    (\A t \in Task : task[t].state = "COMPLETED") =>
        /\ \A t \in Task : /\ task[t].events = 5
                           /\ task[t].input = "completed" /\ task[t].result = "completed"
        /\ \A n \in Server : IsIdle(svc[n]) /\ svc[n].enqueued = svc[n].completed

\* What it rests on: a task that has not failed has made a transition for every
\* stage it passed, one that completed has both transfers delivered, and no
\* service has let go of an execution unless a task has failed.
Passed(state) ==
    CASE state = "PENDING" -> 0 [] state = "INPUT_TRANSFERRING" -> 1
      [] state = "QUEUED" -> 2  [] state = "RUNNING" -> 3
      [] state = "RESULT_TRANSFERRING" -> 4 [] state \in TerminalState -> 5

Told(r) ==
    /\ r.state # "FAILED" => r.events = Passed(r.state)
    /\ r.state = "COMPLETED" => r.input = "completed" /\ r.result = "completed"

CompletionInv ==
    /\ \A t \in Task : Told(task[t])
    /\ \A n \in Server : svc[n].cancelled > 0 \/ svc[n].removed > 0 =>
                            \E t \in Task : task[t].state = "FAILED"

\* A task that has ended is left alone: no late completion, deadline, fault or
\* finalization changes its record or revives its transfers.
EndedStaysEnded == [][\A t \in Task : Terminal(task[t]) => task'[t] = task[t]]_vars

\* A computation due in the instant of its deadline or of an outage of its node
\* counts, whichever event the simulator executes first (compute-service.h: the
\* completion is inclusive, independent of the UID).
DueCompletionCounts ==
    [][\A t \in Task :
         /\ Handlers /\ ~ended'
         /\ Runs(svc[HostNode[t]], t) /\ DueNow(HostNode[t])
         /\ ~Runs(svc'[HostNode[t]], t)
         /\ ResultNode[t] \notin Dead'
         => task'[t].complete = now]_vars

\* With finalization every task gets an outcome.
AllSettled == <>(ended /\ \A t \in Task : Terminal(task[t]))

Lifecycle == INSTANCE TaskLifecycle
    WITH state <- [t \in Task |-> task[t].state], dead <- Dead

\* The coordinator implements the task lifecycle.
Implements == Lifecycle!Spec
=============================================================================
