--------------------------- MODULE ComputeService ---------------------------
(***************************************************************************)
(* One satellite's compute service under everything its callers and the    *)
(* simulator may do to it: ordinary tasks queue for the slot, recoveries   *)
(* and replicas reserve it, fault batches close it, deadlines and finished *)
(* neighbours cancel its run (task/compute-service.cc and its callers in   *)
(* task/task-coordinator.cc and protection/).                              *)
(*                                                                         *)
(* An instant of the simulation has two halves.  Events scheduled before   *)
(* it (packet arrivals, completions, deadlines, fault batches) run first,  *)
(* in an order the model leaves open; events scheduled in it by            *)
(* Simulator::ScheduleNow have larger UIDs and run after them.  `late'     *)
(* says that the second half has begun.                                    *)
(***************************************************************************)
EXTENDS ComputeServiceOps, Functions

CONSTANTS HomeTask,      \* tasks whose compute node this is
          RecoveryTask,  \* tasks that may be recovered here
          ReplicaTask,   \* tasks that may be replicated here
          WorkOf,        \* work units each of them executes here
          CatchupOf,     \* work of a recovery up to the point of the fault
          Rate,          \* m_computeRateWorkUnitsPerSecond
          Inclusive,     \* a recovery or parallel fault handler is installed
          StopTime       \* the simulation's duration

GuestTask == RecoveryTask \cup ReplicaTask

ASSUME PartitionAssumption ==
    /\ Task = HomeTask \cup GuestTask
    /\ HomeTask \cap GuestTask = {}
    /\ RecoveryTask \cap ReplicaTask = {}
ASSUME WorkAssumption ==
    /\ WorkOf \in [Task -> Work]
    /\ CatchupOf \in [RecoveryTask -> Nat]
    /\ \A t \in RecoveryTask : CatchupOf[t] <= WorkOf[t]
    /\ Rate \in Nat \ {0}
    /\ Inclusive \in BOOLEAN
    /\ StopTime \in Nat \ {0}

VARIABLES now,      \* Simulator::Now()
          late,     \* an event scheduled in this instant has run
          batched,  \* a fault batch has run in this instant
          svc,      \* the service
          life,     \* the instants its callers saw, task by task
          finished, \* tasks whose completion callback ran
          caught    \* recoveries whose catch-up callback ran

vars == <<now, late, batched, svc, life, finished, caught>>

Life == [enter : Time \cup {NoTime},  \* submitted, or the slot reserved for it
         start : Time \cup {NoTime},
         end : Time \cup {NoTime}]    \* completed or cancelled while running

ServiceOf(t) == ServiceTimeNs(WorkOf[t], Rate)

\* HasRunningTask and GetRunningTaskId.
RunningTask == IF svc.hasCurrent THEN {svc.current.task} ELSE {}

\* The completion event is due in this instant.
CompletionPending == svc.completion /\ CompletionDue(svc, now)

\* FinalizeSimulation runs after the last instant, whether the service's own
\* stop event ran in it or Simulator::Stop came first.
AtEnd == now = StopTime

\* The service changes to s; a handler reports the tasks in `over' as
\* completed or cancelled, and the task that is new in the slot as started.
Become(s, over) ==
    /\ svc' = s
    /\ life' = [t \in Task |->
                  [life[t] EXCEPT
                     !.start = IF Runs(s, t) /\ ~Runs(svc, t) THEN now ELSE @,
                     !.end = IF t \in over THEN now ELSE @]]

Enters(s, task) ==
    /\ svc' = s
    /\ life' = [life EXCEPT ![task].enter = now]

Init ==
    /\ now = 0 /\ late = FALSE /\ batched = FALSE
    /\ svc = NewService
    /\ life = [t \in Task |-> [enter |-> NoTime, start |-> NoTime, end |-> NoTime]]
    /\ finished = {} /\ caught = {}

-----------------------------------------------------------------------------
(* Simulator events *)

Start ==
    /\ now = 0 /\ ~svc.running /\ ~late
    /\ Become(StartApplication(svc), {})
    /\ UNCHANGED <<now, late, batched, finished, caught>>

Stop ==
    /\ now = StopTime /\ svc.running
    /\ Become(StopApplication(svc, now), {})
    /\ UNCHANGED <<now, late, batched, finished, caught>>

\* Runs in the second half of the instant, after every due completion.
Dispatch ==
    /\ svc.dispatch
    /\ ~CompletionPending
    /\ Become(FireDispatch(svc, now, Rate), {})
    /\ late' = TRUE
    /\ UNCHANGED <<now, batched, finished, caught>>

\* Mutant: completion cancels a pending catch-up instead of reporting it.
FinishUnreported(s) ==
    /\ Become(s, {svc.current.task})
    /\ finished' = finished \cup {svc.current.task}
    /\ UNCHANGED caught

\* The current run completes and leaves service s; a catch-up still pending
\* is reported first.
Finish(s) ==
    /\ Become(s, {svc.current.task})
    /\ finished' = finished \cup {svc.current.task}
    /\ caught' = IF svc.runningRecovery /\ svc.catchup # NoTime
                 THEN caught \cup {svc.current.task} ELSE caught

Complete ==
    /\ CompletionPending /\ ~late
    /\ Finish(CompleteCurrentTask(svc, now, Rate, FALSE))
    /\ UNCHANGED <<now, late, batched>>

Catchup ==
    /\ svc.catchup = now
    /\ svc' = [svc EXCEPT !.catchup = NoTime]
    /\ caught' = IF svc.runningRecovery /\ svc.owner # NoTask
                 THEN caught \cup {svc.owner} ELSE caught
    /\ UNCHANGED <<now, late, batched, life, finished>>

\* Time advances when no event is left in this instant.
Tick ==
    /\ now < StopTime
    /\ svc.running
    /\ ~svc.dispatch /\ ~CompletionPending /\ svc.catchup # now
    /\ now' = now + 1
    /\ late' = FALSE /\ batched' = FALSE
    /\ UNCHANGED <<svc, life, finished, caught>>

-----------------------------------------------------------------------------
(* Calls of TaskCoordinator *)

\* The last packet of the task's input arrived.
Submit(t) ==
    /\ ~late /\ t \notin svc.known
    /\ Enters(SubmitTask(svc, t, WorkOf[t], now), t)
    /\ UNCHANGED <<now, late, batched, finished, caught>>

\* The task failed while queued: a satellite fault, or the simulation ended.
RemoveQueued(t) ==
    /\ ~late \/ AtEnd
    /\ \E i \in svc.queue : i.task = t
    /\ svc' = RemoveQueuedTaskForFailure(svc, t)
    /\ UNCHANGED <<now, late, batched, life, finished, caught>>

\* The task failed while running: its result satellite failed, or the
\* simulation ended.
CancelRunning(t) ==
    /\ ~late \/ AtEnd
    /\ Runs(svc, t)
    /\ Become(CancelRunningTaskForFailure(svc, t, now), {t})
    /\ UNCHANGED <<now, late, batched, finished, caught>>

\* HandleComputeDeadline: a completion due in the same instant wins.
Deadline(t) ==
    /\ ~late /\ Runs(svc, t)
    /\ \/ /\ CanCompleteIfDue(svc, t, now)
          /\ Finish(CompleteCurrentTask(svc, now, Rate, FALSE))
       \/ /\ ~CanCompleteIfDue(svc, t, now)
          /\ Become(CancelRunningTaskForFailure(svc, t, now), {t})
          /\ UNCHANGED <<finished, caught>>
    /\ UNCHANGED <<now, late, batched>>

\* The availability part of ApplyFaultBatch and the victims of the outage:
\* the ordinary run fails, and so does an attempt that is not immune.
Reopen(s) == SetComputeAvailable(s, TRUE)

Close(s) ==
    LET closed == SetComputeAvailable(s, FALSE) IN
    IF ~closed.hasCurrent \/ ImmuneRun(closed) THEN closed
    ELSE IF closed.runningRecovery THEN CancelRecovery(closed, closed.owner, now)
    ELSE CancelRunningTaskForFailure(closed, closed.current.task, now)

\* The run an outage interrupts.
Victim == IF ImmuneRun(svc) THEN {} ELSE RunningTask

BatchRecovers ==
    /\ ~late /\ ~batched /\ ~svc.available
    /\ Become(Reopen(svc), {})
    /\ batched' = TRUE
    /\ UNCHANGED <<now, late, finished, caught>>

\* With a handler installed, a completion due in this instant counts first.
BatchStarts ==
    /\ ~late /\ ~batched
    /\ batched' = TRUE
    /\ LET open == Reopen(svc) IN
       IF Inclusive /\ CompletionLegal(open, now)
       THEN Finish(Close(CompleteCurrentTask(open, now, Rate, TRUE)))
       ELSE /\ Become(Close(open), Victim)
            /\ UNCHANGED <<finished, caught>>
    /\ UNCHANGED <<now, late>>

-----------------------------------------------------------------------------
(* Calls of the recovery controllers and of the replica manager *)

\* A guest reserves the slot once in its life (its only attempt).
Reserve(t) ==
    /\ life[t].enter = NoTime
    /\ CanReserve(svc, t)
    /\ Enters(ReserveRecovery(svc, t), t)
    /\ UNCHANGED <<now, late, batched, finished, caught>>

Release(t) ==
    /\ svc.owner = t /\ ~svc.runningRecovery
    /\ svc' = ReleaseRecovery(svc, t)
    /\ UNCHANGED <<now, late, batched, life, finished, caught>>

Recover(t) ==
    /\ CanStartAttempt(svc, t, TRUE)
    /\ Become(StartRecovery(svc, t, WorkOf[t], CatchupOf[t], now, Rate), {})
    /\ UNCHANGED <<now, late, batched, finished, caught>>

Replicate(t) ==
    /\ CanStartAttempt(svc, t, svc.immune)
    /\ Become(StartReplica(svc, t, WorkOf[t], now, Rate), {})
    /\ UNCHANGED <<now, late, batched, finished, caught>>

\* Takeover, after a fault batch was arbitrated.
Promote(t) ==
    /\ svc.owner = t /\ svc.available /\ ~svc.immune
    /\ svc' = PromoteReplica(svc, t)
    /\ UNCHANGED <<now, late, batched, life, finished, caught>>

\* The attempt failed or lost: satellite fault, deadline, or another result won.
CancelAttempt(t) ==
    /\ svc.owner = t
    /\ Become(CancelRecovery(svc, t, now), {t} \cap RunningTask)
    /\ UNCHANGED <<now, late, batched, finished, caught>>

-----------------------------------------------------------------------------

Coordinator ==
    \/ \E t \in HomeTask : \/ Submit(t) \/ RemoveQueued(t)
                           \/ CancelRunning(t) \/ Deadline(t)
    \/ BatchRecovers \/ BatchStarts

Protection ==
    \/ \E t \in GuestTask : Reserve(t) \/ Release(t) \/ CancelAttempt(t)
    \/ \E t \in RecoveryTask : Recover(t)
    \/ \E t \in ReplicaTask : Replicate(t) \/ Promote(t)

Next ==
    \/ Start \/ Stop \/ Dispatch \/ Complete \/ Catchup \/ Tick
    \/ Coordinator
    \/ Protection

Spec == Init /\ [][Next]_vars

\* Simulator::Run executes events as long as one is left.
FairSpec == Spec /\ WF_vars(Next)

-----------------------------------------------------------------------------
(* Properties *)

TypeOK ==
    /\ now \in Time /\ late \in BOOLEAN /\ batched \in BOOLEAN
    /\ svc \in Service
    /\ life \in [Task -> Life]
    /\ finished \subseteq Task /\ caught \subseteq Task

Started(t) == life[t].start # NoTime
Ended(t) == life[t].end # NoTime
Queued(t) == \E i \in svc.queue : i.task = t

\* No wakeup is lost: whenever the slot could take queued work, the dispatch
\* event is pending (RequestDispatch is called wherever one of the five
\* conditions of DispatchNextTask may turn true).
NoLostDispatch == DispatchArmed(svc)

\* The slot has one owner: while an attempt holds the reservation nothing
\* else runs, and a running attempt is the one that holds it.
SlotExclusive == SlotOwned(svc)

\* The aborts of CompleteCurrentTaskImpl are unreachable: a pending completion
\* belongs to a run that is still in the slot of a service that may execute
\* it, and its instant has not passed.
CompletionNeverAborts == CompletionTimely(svc, now) /\ CompletionAllowed(svc)

\* Every admitted execution is accounted for exactly once: waiting, running,
\* completed, cancelled while running or removed from the queue.
Conservation == Conserved(svc)

\* How long each task has held the slot.
HeldFor ==
    [t \in Task |-> IF ~Started(t) THEN 0
                    ELSE (IF Ended(t) THEN life[t].end ELSE now) - life[t].start]

\* The utilisation metric charges each run for the time it held the slot:
\* completed, cancelled and cut off by StopApplication, none of it twice.
BusyIsRunTime == BusyTimeNs(svc, now) = SumFunctionOnSet(HeldFor, Task)

\* First come, first served: once b started, no ordinary task that entered
\* the queue at an earlier instant is still waiting or starts later.
NoOvertaking ==
    \A a, b \in HomeTask :
        /\ life[a].enter # NoTime /\ life[a].enter < life[b].enter
        /\ Started(b)
        => ~Queued(a) /\ (Started(a) => life[a].start <= life[b].start)

\* One server: the intervals in which two tasks held the slot do not overlap.
OneAtATime ==
    \A a, b \in Task :
        a # b /\ Started(a) /\ Started(b) =>
            \/ Ended(a) /\ life[a].end <= life[b].start
            \/ Ended(b) /\ life[b].end <= life[a].start

\* Ordinary tasks queue and guests reserve; an idle service has not started.
Placement ==
    /\ svc.owner \in GuestTask \cup {NoTask}
    /\ \A i \in svc.queue : i.task \in HomeTask
    /\ svc.hasCurrent /\ ~svc.running => now = StopTime

\* The instants the callers saw agree with the slot: the started task that
\* has not ended is the one in the slot, and what waits has not started.
LifeSound ==
    \A t \in Task :
        /\ Started(t) /\ ~Ended(t) <=> Runs(svc, t)
        /\ Runs(svc, t) => life[t].start = svc.current.start
        /\ Ended(t) => Started(t) /\ life[t].start <= life[t].end /\ life[t].end <= now
        /\ Started(t) => t \in svc.known /\ ~Queued(t) /\ life[t].start <= now
        /\ svc.owner = t /\ ~svc.runningRecovery => ~Started(t)

\* The inductive invariant: the parts above that are proved need each other.
IInv == TypeOK /\ ServiceInv(svc, now) /\ Placement /\ LifeSound /\ OneAtATime

\* A task that is reported complete held the slot for exactly its service
\* time: no completion event outlives the run it was scheduled for.
FinishedExact ==
    \A t \in finished : Ended(t) /\ life[t].end - life[t].start = ServiceOf(t)

\* A recovery reports its catch-up before it reports completion, also when
\* both are due in the same instant.
CatchupReported == finished \cap RecoveryTask \subseteq caught

\* What a queued item and the run in the slot carry is what its task brought,
\* and no task entered in the future.
CarriesOwn ==
    /\ \A i \in svc.queue : i.work = WorkOf[i.task] /\ i.enter = life[i.task].enter
    /\ svc.hasCurrent => svc.current.service = ServiceOf(svc.current.task)
    /\ \A t \in Task : life[t].enter <= now

\* A recovery in the slot has reported its catch-up or will.
CatchupAhead ==
    \A t \in RecoveryTask : svc.running /\ Runs(svc, t) =>
        svc.runningRecovery /\ (svc.catchup # NoTime \/ t \in caught)

\* The second inductive invariant, relative to the first: what the history of
\* the runs says of order, duration and reports.
HistoryInv ==
    CarriesOwn /\ CatchupAhead /\ NoOvertaking /\ FinishedExact /\ CatchupReported

\* No queued task waits beside a free slot: time does not pass while one could
\* start, whoever freed the slot (RequestDispatch and the event it schedules).
\* And no instant goes on for ever: the simulation comes to its end, where no
\* task is left that could still start.
FreeSlotTaken ==
    /\ [][now' # now => ~CanDispatch(svc)]_vars
    /\ <>[](now = StopTime /\ ~CanDispatch(svc))

\* task/README.md: tasks that enter a node in the same nanosecond are ordered
\* by task id.
SameInstantById ==
    \A a, b \in HomeTask :
        /\ life[a].enter # NoTime /\ life[a].enter = life[b].enter /\ a < b
        /\ Started(a) /\ Started(b)
        => life[a].start <= life[b].start
=============================================================================
