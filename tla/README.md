# A verification project for satcompute

`src/contrib/satcompute` simulates computing tasks on a satellite constellation:
a task's input travels to a compute satellite, is processed there and its result
travels on, while faults take satellites or their compute services down and
protection schemes recover or replicate what was running. It is built on ns-3, a
single-threaded discrete-event simulator. There are no threads, so what can go
wrong is the order of events: two events of the same nanosecond run in the
order of their UIDs, callbacks run synchronously inside the event that causes
them, and pending events have to be cancelled by whoever makes them obsolete.
Events that were scheduled before an instant run before those scheduled in it
(`Simulator::ScheduleNow`). Both kinds are told apart in every module ("early"
and "late" half of an instant).

## Inventory

| component | state | operations | interacts with | hard behaviour | what makes it correct |
|---|---|---|---|---|---|
| ComputeService (`task/compute-service`) | slot, queue, reservation, dispatch, completion and catch-up events, counters, busy time | submit, dispatch, complete, cancel, remove, reserve, release, start recovery or replica, promote, open and close | called by coordinator, recovery controllers, replica manager; calls back on start, completion, catch-up | lost wake-ups, stale completion events, re-entrant dispatch, double charging | the slot has one owner, every wake-up is armed, every execution and busy nanosecond is counted once |
| TaskCoordinator and TaskRuntime (`task/task-coordinator`, `task/compute-task`) | task states, timestamps, deadline events, unavailable satellites, transfer maps, event log | arrival, transfer completions, compute start and completion, deadline, fault batches, finalization, validation, recovery and parallel hooks | owns the services, uses the transfer engine, called by the fault controller | completion against deadline and fault in one instant, partial cleanup of failed tasks | record, service, transfers and faults agree; a terminal task is left alone |
| FaultState, FaultController (`fault/runtime`) | active faults, pending batches, processed instants | batch, submit generated, shorten, recover | coordinator, topology, controllers | merging into a scheduled batch, shortened faults | each fault starts and recovers once, recoveries first |
| FaultModelEngine, prediction (`fault/runtime`, `fault/model`) | time step, active generated faults | step, generate, shorten | fault controller | two generators in one step | one active fault per node |
| NetworkTransferEngine (`traffic`) | transfer states, senders, receivers, admission queue, reservations | register, start, activate, admit, pause, finalize alone or in a batch | coordinator, protection, routing state | re-entrant admission when capacity is released, callbacks that end other transfers, route updates under way | capacity is never exceeded, terminal transfers hold nothing, nobody waits for capacity that is free |
| Routing state and algorithms (`routing`) | flow registry, reservations, loads | register, reserve, release | transfer engine, topology | stale reservations over route updates | reservations equal active transfers |
| Topology (`topology`) | slices, link state, fault overlay | slice update, apply faults | routing | slice update during a fault | a link is up iff its slice says so and no fault covers it |
| RecoveryController (`protection/runtime`) | attempts, dependencies, timers, dispatcher requests | accept, reserve, fetch, relocate, merge, start, fail, clean up | coordinator, checkpoint manager, services, dispatcher | late callbacks of an abandoned attempt, losses while dependencies arrive | one attempt per task, the join is exact, cleaned up completely |
| ReplicaManager (`protection/mechanism/replication`) | both attempts, their transfers, load ledger, immunity | admit, start, fault batch, take over, win, cancel, fail | coordinator, services, dispatcher | both copies finishing or failing in one instant, a takeover during an outage | one attempt completes the task, the loser holds nothing, the last one left takes over |
| CheckpointManager and storage (`protection/mechanism/checkpoint`, `protection/storage`) | progress and its history, records, batch, transfers under way, blocks, pools | start, capture, transfer, merge, commit, clean up, block and retry, freeze, quiesce, release | dispatcher, storage pools, recovery, policy | commits that take effect one nanosecond later, frees that wake other checkpoints, faults in the instant of a commit, late arrivals | pools hold what checkpoints refer to, a snapshot stays restorable, nothing stops without a reason |
| Input staging, transfer dispatcher (`protection/mechanism/input-staging`, `protection/runtime`) | requests, waiting transfers | reserve, send, cancel | transfer engine | cancelled requests that complete | as above |
| Policies and baselines (`protection/policy`, `protection/baseline`) | gates, plans, acknowledgements | decide, acknowledge | controllers | order of acknowledgements | decisions use current evidence |
| Metrics, traces, program entry | output files, configuration | | all | | out of scope |

## Modules

`ComputeServiceOps` has the service as a record and each of its methods as an
operator from a record to the next one. A handler of the code that calls several
methods in one event composes the operators, so no intermediate state becomes
visible that the program never shows.

`ComputeService` runs one service under all its callers. Variables: `svc` (the
members of the C++ class), `now`, `late` and `batched` (the simulator), `life`,
`finished` and `caught` (what the callers were told, kept to state properties).
Each action is one simulator event or one call from outside; `map` in
PROJECT.json names the lines.

`TaskLifecycle` is the abstract promise of the coordinator: stages in order, one
running task per node, nothing left alive that needs a dead satellite. One step
may move many tasks.

`TaskCoordinator` composes one service per node with the task records, their two
transfers, deadline events, fault batches and the finalization. A transfer is
`registered`, `started` or in its terminal state; the transfer engine's inner
states are left to its own module. The faults of a batch are chosen freely, with
one active fault per satellite as `FaultState` enforces. It implements
`TaskLifecycle` with `state <- [t \in Task |-> task[t].state]` and
`dead <- Dead`.

`FaultBatches` is the contract between the fault controller and the coordinator:
which recoveries and starts one batch may hold (`Admissible`) and the faults that
are active after it. One fault is active on a satellite at a time; a lost
satellite stays lost, because `ValidateGeneratedEvent` takes satellite faults
only without a duration. The coordinator chooses any admissible batch, the
controller is shown to hand over no other (`NeverRejected`).

`FaultController` has the controller, its `FaultState` and what it tells the
coordinator and the topology as a record, and submitting, merging, scheduling,
shortening and processing batches as operators. Whatever throws or aborts sets
`failed`. `FaultModelEngine` drives it: the engine's instants, the faults drawn
and the satellites lost, then the batches that come due on their own event, and
a replay of the trace into a second controller.

`Ranks` sorts sets and erases from sequences; both controllers of this section use
it.

`NetworkTransferOps` has the engine, its senders and receivers, the flow
registry, the capacity ledger and the path search as one record, since its
operations call each other: to finalize a transfer runs an observer that may
finalize others, releases capacity and admits those that wait.
`NetworkTransferEngine` adds the callers, the packets in flight and the route
updates: it starts each transfer once, ends any set of them at any time, and
cancels others from inside a callback. A start may share its instant with the
one before or follow it, which is all that admission order depends on. The hash
of highest-random-weight routing is a constant `Rank`, so every outcome of it is
a value of a constant. In the modes without capacity only topologies are chosen
that leave every transfer a route, because the program aborts a sender without.

`RecoveryOps` has the recovery controller with the attempt record, the recovery
operations of the coordinator, the compute services (from `ComputeServiceOps`),
the dispatcher's queue and the storage as one record; a handler that fails half
way, with the clean-up it runs into, is one operator. `RecoveryController` runs
it. A checkpoint is reduced there to what a recovery finds. Estimates and
rankings decide which admissible path and node is taken; any of them may be.
`Cuts` are the pairs without a route in an instant. A registration may be
refused, which the code does when ports run out.

`ReplicaOps` and `ReplicaManager` do the same for 1+1 execution. Attempt 0 is the
primary, attempt 1 the replica; `Picks` is any choice of nodes the policy may
make. `m_inFaultBatch` needs no model: what it would stop cannot happen between
the two halves of a batch, which are in one event.

`CheckpointOps` has the checkpoints of all tasks, their records, batches,
transfers under way, blocks and the storage pools; a pool is the set of its
entries, and its use the sum of their bytes. What a completed commit frees wakes
the checkpoints that wait for space, inside the same operator. `prior` is the
progress at the end of the instant before, which is what `BeforeFault` reads
from the history. `CheckpointManager` adds captures, arrivals in any order,
faults, routes that break and return, the policy's calls, and the recoveries
that take over a frozen snapshot's objects and give them back (how they merge
them is in `RecoveryOps`). `w.abort` names the assertion that ended the program.

`MC_*` modules give the constants values; a constant whose value is a function
or a set of tasks is a definition there.

Operators under a comment that starts with "Mutant" are wrong on purpose: each
is a plausible bug, and the property it is paired with in PROJECT.json fails
when it takes the place of the definition it follows.

## Runs

| run | shows |
|---|---|
| `service_slot` | two ordinary tasks, a recovery and a replica on one service, to the end of the simulation: no wake-up is lost, no stale completion fires, no task overtakes one that entered at an earlier instant, busy time is charged once, no queued task is left beside a free slot while time passes, and no instant goes on for ever |
| `service_tiebreak` | a violation: same-nanosecond arrivals are not always ordered by task id |
| `coordinator` | three tasks, two servers, two faults, handlers installed: agreement of all records, implementation of `TaskLifecycle`, an outcome for every task |
| `coordinator_plain` | protection off and feasible deadlines: what `ValidateCompleted` asserts |
| `fault_model` | generated outages and lost satellites: one recovery for each outage, nothing refused or aborted, all views of the faults equal, and a replay that repeats the run |
| `transfers` | three transfers over two routes, both registry modes, route updates, a lost packet, callers that end transfers from callbacks: no assertion fails, reservations are exact, the queue is exact, nobody waits in vain |
| `transfers_live` | capacity-aware, no losses, one route update: every transfer that starts ends |
| `transfers_paused` | a violation: a sender without a path stays paused and is not waiting for admission |
| `recovery` | two checkpointed tasks, four servers, two faults: task, attempt, service and storage agree, joins are exact, outages spare accepted recoveries, nothing is left behind |
| `replica` | two tasks with replicas, two faults, refused transfers: one attempt completes the task, losers hold nothing, the last attempt takes over, a task fails only with its last attempt |
| `checkpoint` | two checkpoints that share pools, two disturbances: pools hold exactly what is referred to, snapshots stay restorable, the pipelines move, and a retry releases what can go on |
| `checkpoint_refreeze` | a violation: a snapshot is taken at a commit that the storage does not have |

Bounds. `NsPerSecond = 2` scales the clock so that service times are 1 to 3
instants and rounding up matters. The service needs two ordinary tasks for a
queue behind a run, one recovery and one replica for a reservation that is
contended; the tie break needs a third ordinary task, so that two arrive while
one runs. `StopTime` lets every task end and leaves runs that it cuts off. The
coordinator needs two tasks on one server (queue), a third whose result goes to
the first server (a satellite in two roles) and a satellite without service.
`MaxFaults = 2` is enough for a fault, its recovery and a second fault on the
same node, in one batch or in two. One deadline is met exactly and one is missed.
The fault model needs two servers (one recovers while the other fails, one is
lost while the other's outage runs) and a satellite that only loses links.
Outages of 1 to 3 instants on a grid of 2 end on a check instant, between two of
them, and after the end (`Duration = 7`); satellites are lost at every instant,
the ones that end an outage included.

The transfers need two disjoint routes, one with room for two on its first link
only, so that some transfers share a link, some compete for one, and one may go
round; one has two packets, so that a path is lost between them; one starts at
once or not at all; two route updates take a route away and bring it back. The
program gives all links one bandwidth: `transfers_live` keeps to that, and
`transfers` is wider, so that partial sums of reservations differ. With
`MaxLoss = 1` a transfer never completes and its caller has to end it.

The recoveries need two tasks that keep their bases on one server, with room for
two objects there, each other's hosts as local nodes (so that one fault is a
primary loss to one task and a loss of records to the other), and a fourth
server as a target. Budgets leave room for the longest path and for a deadline
that passes while dependencies arrive. Every stored object has size 1 and
deliveries take one instant or more. The replicas need each task's host as a
candidate of the other, a third server, a result satellite that may hold the
replica (local delivery), one deadline met and one missed.

The checkpoints of both tasks share a local and a remote satellite, so that what
one frees lets the other go on. `Capacity = 9` is enough for one of them at a
time in some phases only: space runs out in both pools. The longer task merges
one record or two at a time; batches fall due in the instant the computation
ends; arrivals may be out of order (`MaxDelay = 1`). `MaxUpsets = 2` covers a
broken route and its return, a fault after a lost transfer, and two faults.
Computations start at instant 0 and do one unit of work and produce one byte of
state per instant.

Fairness. `Simulator::Run` executes events as long as one is left, and the
program calls `FinalizeSimulation` after it: weak fairness of `Next` in the
service and the coordinator, no more; no action of its own is fair. In
`transfers_live` the callers do not have to act, so fairness is that of the
engine's events and the deliveries alone: infinitely often none is due, or
infinitely often one runs. That is weak fairness of `\E t : Event(t)` with
`Due` in the place of ENABLED. `CHECK_DEADLOCK FALSE` is right because the
simulation ends.

## Findings

`checkpoint_refreeze`. A commit takes effect in the pools one nanosecond after
its nominal time. If a satellite is lost in the nanosecond of the commit,
`QuiesceForRecovery` drops the merge that is still to come
(`checkpoint-manager.cc:1000`), but the history of the progress keeps the commit.
When it is the local satellite that is lost, the task goes on computing; the next
freeze, for a fault of its primary, reads the commit from that history, does not
find its bytes in the pool, and `Require` at line 950 ends the program.
`docs/protection/recovery.md:110` says that such a fault still finds the old
committed state. The run `checkpoint` ends a behaviour there and checks all others.

`transfers_paused`. `traffic/README.md:58-60` says that a transfer whose path a
route update invalidates enters `ACTIVE` or `WAITING_ADMISSION` in the new
graph. The code leaves it `PAUSED_ROUTE` until it is admitted again; it does
stand in the admission queue, as `QueueExact` shows.

`service_tiebreak`. `task/README.md:72` promises that tasks which enter a node in
the same nanosecond are ordered by task id, and
`tests/unit/compute-service-test.cc:87` explains it with the deferred dispatch. A
completion does not defer (`compute-service.cc:312`): if the running task
completes between two arrivals of one nanosecond, the first to arrive starts,
whatever its id.

## Proofs

Every theorem listed in PROJECT.json is checked by the prover from nothing. What
is said below of "every" fault, delivery or order is for all values of the
constants under the assumptions the modules name.

| module | proves about |
|---|---|
| `FoldTheorems` | the folds of the community modules, over sets and sequences |
| `ComputeServiceOps_proofs` | each operation of a service keeps the parts of `ServiceInv` |
| `ComputeService_proofs` | `ComputeService`: the inductive invariant `IInv`, what the callers were told, busy time |
| `TaskCoordinator_proofs` | `TaskCoordinator`: all safety properties of its runs, the refinement |
| `RecoveryController_proofs` | each handler of a recovery, from a state to the next one; `RecoveryController`: all properties of its run |
| `ReplicaManager_proofs` | each handler of the 1+1 execution; `ReplicaManager`: all properties of its run |
| `FaultModelEngine_proofs` | `FaultController` and `FaultModelEngine`: all but the replay |
| `NetworkTransferEngine_proofs` | `NetworkTransferEngine`: all safety properties of its runs |

**Services.** `ComputeServiceOps_proofs` shows for each operator that it keeps the
conjuncts of `ServiceInv` a service satisfies between two events;
`ComputeService_proofs` uses those lemmas, one step per action, to show that
`IInv` is inductive for all tasks, works, rates and durations. `IInv` adds to the
properties what they need from each other: a queued item was admitted once and
not in the future (`QueueSane`), the run in the slot is nobody's queue entry
(`CurrentSane`), ordinary tasks queue and guests reserve (`Placement`), and what
callers saw agrees with the slot (`LifeSound`). From it follow type correctness,
the absence of lost wake-ups, exclusive ownership of the slot, legality of every
completion event, conservation of executions, and disjointness of runs.

The last part of the module adds a second invariant on top of the first, `HistoryInv`, for the properties that relate a run to what happened before it.
`NoOvertaking` and `FinishedExact` are not inductive: an admission must be the
latest so far, the queue entry of a task must carry the instant the task entered,
a run in the slot must have no later start than what still waits, and a catch-up
must be reported or pending. `BusyIsRunTime` is a sum over all tasks; an event
changes the summand of one task, or, when time passes, that of the run in the
slot, and the lemmas of `FoldTheorems` turn that into the change of the sum.

**Coordinator.** `TaskCoordinator_proofs` builds on the service lemmas. Its first
part says which tasks an operation of a service moves (`Shifts`, `Moves`): the
ones that leave, none that enters, and that a run that is new started now. Its
second part says what each transition makes of one record (`RecordSound`,
`RecordStep`). `Sound` is `IInv` taken apart into one service, one record and one
pair of them at a time; `StepSound` lays the two parts over each other, and every
action is an instance of it. The conjuncts need each other: `SubmitTask` aborts
on a known task unless `ServicesPlain` says that a task in transfer is known
nowhere, a withdrawal finds its task only by `ServicesAgree`, an outage leaves a
service whose run may not complete until exactly the tasks `ServicesAgree` puts
there are withdrawn, and `NoneOnDeadSatellite` needs losses to be permanent. From
the invariant follow the safety properties of the run `coordinator`, that ended
tasks are left alone, and the refinement: a batch that completes a task and
fails it in the same event is still one stage of `TaskLifecycle`.
`CompletionInv` carries `CompletionValid`: transitions are counted with the
stages, and a service lets go of an execution only if some task fails. For
`DueCompletionCounts` each action is shown to take a due run out of the slot only
through its completion, the fault batch because it executes the completions that
are due before it withdraws anything.

**Recoveries.** A handler that fails half way runs into its own clean-up, so what
holds between two events does not hold inside one. `Sound(w, closed, lost)` in
`RecoveryOps` is the invariant of a world `w` in the middle of a batch that has
closed the services of `closed` and lost the satellites of `lost`, and has not
yet told the tasks that run there or need them; `IInv` has `Sound(w, {}, {})`.
It consists of what holds of each service and pool (`NodeOK`), of each task with
its attempt, storage and place in the services (`TaskOK`, with one part for each
stage of an attempt: deciding, waiting, merging, computing, resulting, ended),
and of the satellites a task needs (`Exposed`). The first part of `RecoveryController_proofs` shows that a
handler of one task leaves what the world holds of every other task alone
(`Beside`, `Only`), and that it puts its own task in order again (`Changes`) or
ends it (`Closes`): the second is what the clean-up of a handler that fails half
way does, from whatever state the first half has left. The loops of a batch over
tasks and satellites are folds; `FoldTheorems` gives the induction over them, and
each round takes one satellite or task out of `closed` and `lost`. From `IInv`
follow all state properties of the run `recovery`; `OutageSpares` is shown of
each step, and `FinalizationEndsTasks` of the last one.

**Replicas.** Two attempts of one task share its record, its deadline and the load
ledger, and each may end the other. `IInv` in `ReplicaManager_proofs` has `WorldOK`
(each service is sound, and closed if its satellite is lost) and for each task `Calm`:

- `TaskOK`: the attempts agree with each other, with the state of the task and with
  the transfers under way (`Attempts`, `Agrees`), with the places the task has in the
  services (`Places`: the queue of its host, the reservation of the replica, the slots
  of both) and in the load ledger (`Ledger`). A task that has not started has no
  attempt anywhere.
- `Exposed`: an attempt that may still win needs no lost satellite, and one that runs
  does so on an open service or has taken over.
- `Timed`: the deadline is ahead while something computes.
- `Granted`: a live task has an attempt left; a replica that is alone has taken over
  unless its node is down; one that has its input and has not started waits for its
  node.

The properties need all four. `NeverAborts` uses that a result was computed before its
deadline on a satellite that is still there; that a promoted replica was not promoted
before, which is `Ledger`; and that a service which completes a run runs what the
attempt says, which is `Places`. A handler breaks parts of `Calm` and restores them
in an order of its own: `Sane` is what is left of a task between the cancellation of an
attempt and the end of the handler, `Exposed(u, t, closed, lost)` has the services and
satellites of a batch that the task has not been told of yet, and `Backed` is `Granted`
before the replica is started. A completion that counts in the instant of an outage, or
of the deadline, re-enters the manager, completes this run, and may start another
task, whose replica is admitted in turn: `Only` says that all other tasks keep what they
have. The batch is a composition of loops over the changes and the tasks; as in the
recoveries, each round removes one satellite from `closed` and `lost` for one task.

`FailsWithLast` is about a step, so every lemma of a handler also says what it does to
the tasks that were live: `AllFailLast(w, w')`. For single events this is short: a
handler can fail only its own task (`SparesFail`), and does so when the deadline leaves
no result (`Lapsed`) or a refused transfer ends the last attempt. In a batch the cause
lies several loops before the failure. `Ebbs` says that taking nodes down moves an
attempt at most from its run to its result, `Closes` that every node of the batch is
down afterwards, `Wounds` that a task then loses only attempts a fault has hit,
`Intact` that those who fail for want of a satellite were not live, and `Fated` that a
task fails at the end of the batch only if it is `Doomed`: nothing is left of it, or
its time is over and no result is under way. `DoomEnds` puts these together.

**Faults.** A batch is processed in passes: recoveries, starts, then the views of
coordinator, topology and engine. In `FaultModelEngine_proofs` the part of `IInv`
that is broken between the passes is named at each point: a batch is opened
(`Opening`), recoveries of the same instant are merged into it (`Merged`), its
changes run over the active faults (`Running`), and the views follow (`Moved`,
`Settles`). `IInv` adds to the properties that instants are processed once and
in order (`ClockInv`), that the trace numbers the faults (`TraceInv`), that each
active fault is in the trace, was logged, and is scheduled to recover
(`NodeInv`), that the engine's own record of an outage agrees until its end
(`OutageInv`), and that all that is ahead in a batch are recoveries of active
faults, each once (`BatchInv`). An outage that is cut short is found by its
position in the batch it was scheduled in; `BatchInv` makes that position unique.
Sorting is modelled by ranks (`Ranked`), of which the proofs use that each element
of the set occurs once.

**Transfers.** The engine re-enters itself: to end a transfer releases its path,
runs an observer that may end others, in a batch that postpones admission, and
then admits whoever fits. `Stable` in `NetworkTransferEngine_proofs` is what holds
between two events, and its parts are what is left of it at each point inside one:

- `Sane(e, x)` never breaks. Each transfer is counted (`Counted`: no more packets
  fly and have arrived than were sent), in a stage that its sender, its events and
  its open wait agree with (`StageOK`), and has a flow with an assignment exactly
  while it holds a path (`FlowOK`); the ledger is on each link the sum of the rates
  of the paths over it (`Sums`); who received everything has ended, but for the
  transfer in `x` whose completion is being handled (`Open`).
- `Valid` says that the paths held follow the routes in force and are not
  overbooked; a route update breaks it and the loop over the paths it invalidates
  restores it. `Routed` is the same without admission: every transfer has a route.
- `Queued` says that the queue lists the transfers that wait, each once.
- `Settled` says that no path exists for any of them. An end breaks it and a round
  of admission restores it. A round only takes capacity, so `FindPath` fails for
  whoever it failed for earlier in the round: a reservation never makes a path
  appear. That is the reason why one round is enough, and why the code may leave the
  queue alone until capacity is released.
- `OptionalOK` says that an optional transfer waits only while its application comes
  up.

`FindPath` is a recursive function on satellites. Its recursion ends because a next
hop is closer to the destination (`CandidatesDescend`); by induction over that distance
a path it returns follows routes and is as wide on every hop as its rate
(`FoundIsOffered`), and taking more capacity opens none (`ClosedStaysClosed`). Loops over
transfers are folds, as in the other modules. From `IInv` follow all state
properties of `transfers`: an assertion that could fail would make `ok` false.

**Induction.** The library's induction theorems take an operator as a parameter,
which the provers cannot instantiate. `FoldTheorems` states the induction that is
needed in first-order form instead: a fold over a set is the value at that set of
a function on its subsets, a fold over a sequence the last value of a function on
its prefixes, with the step given as a function.

**Assumptions** are those named in the modules: task ids are positive and finite
in number, satellites are finite in number, works, rates and the coordinator's
budgets are positive, tasks arrive before the end on a server that is neither their source nor their result
satellite, a local record is cut before the end of its task (`WorkAssumption` of
`RecoveryOps`), works and budgets of replicated tasks are numbers, and budgets, costs, capacities and the bounds of a run are
numbers.

Conservation of executions, the single run per service, the exclusive owner of
the slot, that ended tasks are left alone, and that the finalization of
recoveries ends every task are proved for every value of the constants and are
not repeated in the runs.

**Only model-checked:**

- `ReplayAgrees`: it compares the controller with a second one that is computed
  by recursion over the trace.
- The properties of checkpoints (`RequiresHold`, `OwnershipExact`,
  `SnapshotRestorable`, `PipelineMoves`, `RetryReleases`). Nothing in them is out of the prover's
  reach; the proofs would take the form of those about recoveries, with sums
  of bytes in the pools.
- `FreeSlotTaken`, `AllSettled`, `StartedEnds`: liveness under fairness is outside
  the prover's reach.

## Plan

1. `ComputeServiceOps`, `ComputeService` (done, proved).
2. `TaskLifecycle`, `TaskCoordinator` (done, proved, refinement included).
3. `FaultBatches`, `FaultController`, `FaultModelEngine` (done, proved but for the
   replay).
4. `Ranks`, `NetworkTransferOps`, `NetworkTransferEngine` (done, proved).
5. `RecoveryOps`, `RecoveryController` (done, proved); `ReplicaOps`,
   `ReplicaManager` (done, proved).
6. `CheckpointOps`, `CheckpointManager` (done, checked).
7. Topology: links under slices and the fault overlay; the frequency gate; the
   order of acknowledgements in CheckBullet; input staging.

Theorems to come: the pools of the checkpoints (`OwnershipExact`,
`SnapshotRestorable`).

## Not modelled

"components" in PROJECT.json names every part and the reason. In the parts that
are modelled this is left out:

- Transfers: packet sizes and send times, sockets, the path that size-aware
  routing takes for each packet and its load table. The ns-3 sources under
  `src/src` are the general simulator below this code; the modules take from
  them the order of events and the delivery of packets.
- Recoveries: estimates and ranking (any admissible choice), a prefetched input
  that a recovery adopts, the catch-up event, which writes a log row.
- Replicas: the account of the work done; MultiTree, which mixes replicas and
  recoveries of one task set.
- Checkpoints: rates, state sizes, the bytes by which COMPFRR may lower the free
  space, ports that run out other than as a refused flush, recovery disabled
  (commits then take effect at once). When a blocked checkpoint is retried is
  left to the driver: a retry may happen at any time, and the properties hold
  whichever it is. Until that retry, a path that has returned may let a queued
  record through although no next capture is set; `RetryReleases` therefore
  speaks of the state after it.

Floating-point models, JSON input and output, orbital mechanics and metrics
change no state that a property here is about.
