------------------------------ MODULE RecoveryOps ------------------------------
(***************************************************************************)
(* Recovery of a task whose primary execution was interrupted, as          *)
(* operators on one record (protection/runtime/recovery-controller.cc with *)
(* ExecutionAttempt of protection/common/protection-types.cc, the recovery *)
(* operations of task/task-coordinator.cc and the storage pools of         *)
(* protection/storage/backup-storage-pool.cc).  A handler that fails half  *)
(* way, and the observers it runs into, are one operator.                  *)
(*                                                                         *)
(* Estimates and candidate ranking decide which admissible path and node   *)
(* is taken; here any of them may be.  Every delivery takes at least 1 ns, *)
(* the unit of time.  Every stored object has size 1.                      *)
(***************************************************************************)
EXTENDS ComputeServiceOps, FaultBatches, Sequences, FiniteSetsExt, SequencesExt

CONSTANTS SourceNode, HostNode, ResultNode,  \* of each task
          LocalNode, RemoteNode,  \* where its records and its base are kept
          WorkOf, LocalWork, Budget,
          Capacity,    \* of each server's pool
          RemoteCost,  \* remoteCostNs: merging a tail into its base
          StopTime

NoNode == 0
ASSUME NodeAssumption ==
    /\ Server \subseteq Sat /\ NoNode \notin Sat
    /\ \A t \in Task : /\ HostNode[t] \in Server /\ SourceNode[t] \in Sat /\ ResultNode[t] \in Sat
                       /\ LocalNode[t] \in Server /\ RemoteNode[t] \in Server
                       /\ HostNode[t] \notin {SourceNode[t], ResultNode[t], LocalNode[t], RemoteNode[t]}
                       /\ LocalNode[t] # RemoteNode[t]

\* A local record is cut before the end of the task.
ASSUME WorkAssumption ==
    /\ LocalWork \in Nat /\ \A t \in Task : WorkOf[t] \in Work /\ LocalWork < WorkOf[t]
    /\ \A t \in Task : Budget[t] \in Nat
    /\ RemoteCost \in Nat /\ \A n \in Server : Capacity[n] \in Nat

Alive == {"INPUT_TRANSFERRING", "QUEUED", "RUNNING", "RECOVERING",
          "RUNNING_BACKUP", "RESULT_TRANSFERRING"}
TerminalState == {"COMPLETED", "FAILED"}

\* TaskRuntime: `timer' is the pending deadline event.
TaskRuntime ==
    [state : Alive \cup TerminalState, generation : {0, 1},
     deadline : Time \cup {NoTime}, timer : BOOLEAN]

Kind == {"INPUT", "STATE", "TAIL", "RESULT"}
Path == {"REMOTE_REDO", "TAIL", "MIGRATE_REDO", "MIGRATE_TAIL", "RECOMPUTE"}
Migrates(path) == path \in {"MIGRATE_REDO", "MIGRATE_TAIL"}
TakesTail(path) == path \in {"TAIL", "MIGRATE_TAIL"}
Stage == {"RUNNING", "RECOVERING", "RUNNING_BACKUP", "RESULT", "COMPLETED", "FAILED"}

\* A delivery waits for a local timer or for the dispatcher's flush (both at
\* `due'), then flies through the network.
Delivery == [step : {"none", "local", "queued", "flying", "received"},
             due : Time \cup {NoTime}]
Absent == [step |-> "none", due |-> NoTime]

\* State of the controller for one task, with its ExecutionAttempt.
Attempt ==
    [live : BOOLEAN, stage : Stage,
     node : Server \cup {NoNode},      \* summary.recoveryNode
     path : Path \cup {"NONE"},
     base : BOOLEAN, tail : BOOLEAN,   \* the snapshot's objects
     actual : Nat,                     \* work done when the fault hit
     decide : Time \cup {NoTime}, merge : Time \cup {NoTime},
     mergeScheduled : BOOLEAN, committed : BOOLEAN, started : BOOLEAN,
     delivery : [Kind -> Delivery]]
NoAttempt ==
    [live |-> FALSE, stage |-> "RUNNING", node |-> NoNode, path |-> "NONE",
     base |-> FALSE, tail |-> FALSE, actual |-> 0,
     decide |-> NoTime, merge |-> NoTime,
     mergeScheduled |-> FALSE, committed |-> FALSE, started |-> FALSE,
     delivery |-> [k \in Kind |-> Absent]]

\* REMOTE_STATE, REMOTE_BATCH and the local records of a task.
StorageEntry == [node : Server, task : Task, kind : {"STATE", "BATCH", "RECORD"}, reserved : BOOLEAN]

World ==
    [now : Time, ok : BOOLEAN, ended : BOOLEAN,
     deferred : BOOLEAN,           \* the input policy
     svc : [Server -> Service],
     task : [Task -> TaskRuntime],
     attempt : [Task -> Attempt],  \* m_states
     store : SUBSET StorageEntry,  \* all pools
     stopped : SUBSET Task,        \* checkpoints quiesced
     dead : SUBSET Sat]            \* m_unavailableSatelliteNodes

\* A Require of the code.
Must(w, holds) == [w EXCEPT !.ok = @ /\ holds]

Terminal(w, t) == w.task[t].state \in TerminalState
Owns(w, t) == w.attempt[t].stage \in {"RECOVERING", "RUNNING_BACKUP", "RESULT"}
Down(w, n) == n \in w.dead

\* `cut' holds the pairs of satellites the current routes do not connect.
Reaches(w, cut, from, to) == ~Down(w, from) /\ ~Down(w, to) /\ (from = to \/ <<from, to>> \notin cut)

-----------------------------------------------------------------------------
(* Backup storage *)

Held(w, n, t, kind) == {o \in w.store : o.node = n /\ o.task = t /\ o.kind = kind}
Committed(w, n, t, kind) == \E o \in Held(w, n, t, kind) : ~o.reserved
Free(w, n) == Capacity[n] - Cardinality({o \in w.store : o.node = n})

TryReserve(w, n, t, kind) ==
    [w EXCEPT !.store = @ \cup {[node |-> n, task |-> t, kind |-> kind, reserved |-> TRUE]}]

CommitReservation(w, n, t, kind) ==
    [Must(w, \E o \in Held(w, n, t, kind) : o.reserved)
     EXCEPT !.store = (@ \ Held(w, n, t, kind))
                      \cup {[o EXCEPT !.reserved = FALSE] : o \in Held(w, n, t, kind)}]

\* A committed tail becomes part of the committed state.
Merge(w, n, t) ==
    [Must(w, Committed(w, n, t, "STATE") /\ Committed(w, n, t, "BATCH"))
     EXCEPT !.store = @ \ Held(w, n, t, "BATCH")]

ReleaseTask(w, t, nodes) == [w EXCEPT !.store = {o \in @ : o.task # t \/ o.node \notin nodes}]
ReleaseRecoveryState(w, t) == ReleaseTask(w, t, Server)

\* FreezeRecoverySnapshot: what of the checkpoint is physically usable.
HasBase(w, t) == ~Down(w, RemoteNode[t]) /\ Committed(w, RemoteNode[t], t, "STATE")
HasTail(w, t) == HasBase(w, t) /\ ~Down(w, LocalNode[t]) /\ Committed(w, LocalNode[t], t, "RECORD")

\* The checkpoint stops and keeps only what the snapshot holds.
QuiesceForRecovery(w, t) ==
    LET kept == (IF HasBase(w, t) THEN Held(w, RemoteNode[t], t, "STATE") ELSE {})
                \cup (IF HasTail(w, t) THEN Held(w, LocalNode[t], t, "RECORD") ELSE {})
    IN [w EXCEPT !.store = {o \in @ : o.task = t => o \in kept},
                 !.stopped = @ \cup {t}]

-----------------------------------------------------------------------------
(* The end of an attempt *)

\* Timers are cancelled, transfers finalized, the slot and the storage given
\* back.  Requests that wait for a flush stay behind.
Cleanup(w, t) ==
    LET r == w.attempt[t] IN
    IF ~r.live THEN w
    ELSE [ReleaseRecoveryState(w, t) EXCEPT
            !.attempt[t] =
              [r EXCEPT !.live = FALSE, !.decide = NoTime, !.merge = NoTime,
                        !.delivery = [k \in Kind |-> IF @[k].step \in {"local", "flying"}
                                                     THEN Absent ELSE @[k]]],
            !.svc = [n \in Server |-> IF n = r.node THEN CancelRecovery(@[n], t, w.now) ELSE @[n]]]

\* FailRecovery and OnTask.
FailRecovery(w, t) ==
    IF w.task[t].generation # 1 \/ Terminal(w, t) THEN w
    ELSE Cleanup([w EXCEPT !.task[t].state = "FAILED", !.task[t].timer = FALSE,
                           !.attempt[t].stage = "FAILED"], t)

Fail(w, t) == IF w.attempt[t].live THEN FailRecovery(w, t) ELSE w

-----------------------------------------------------------------------------
(* Deliveries *)

From(w, t, k) ==
    CASE k = "INPUT" -> SourceNode[t] [] k = "STATE" -> RemoteNode[t]
      [] k = "TAIL" -> LocalNode[t]   [] k = "RESULT" -> w.attempt[t].node
Into(w, t, k) == IF k = "RESULT" THEN ResultNode[t] ELSE w.attempt[t].node

Deliver(w, t, k, cut) ==
    IF ~Reaches(w, cut, From(w, t, k), Into(w, t, k)) THEN Fail(w, t)
    ELSE [Must(w, k = "INPUT" => w.attempt[t].delivery[k].step = "none")
          EXCEPT !.attempt[t].delivery[k] =
            [step |-> IF From(w, t, k) = Into(w, t, k) THEN "local" ELSE "queued",
             due |-> w.now + 1]]

Received(w, t, k) == w.attempt[t].delivery[k].step = "received"

\* Work that is left on a path.
Redo(w, t) ==
    WorkOf[t] - (IF TakesTail(w.attempt[t].path) THEN LocalWork ELSE 0)
Catchup(w, t) ==
    w.attempt[t].actual - (IF TakesTail(w.attempt[t].path) THEN LocalWork ELSE 0)

\* Mutant: a tail that has arrived counts as merged.
StateReadyUnmerged(w, t) ==
    LET r == w.attempt[t] IN
    \/ r.path \in {"RECOMPUTE", "REMOTE_REDO"}
    \/ r.path = "MIGRATE_REDO" /\ Received(w, t, "STATE")
    \/ TakesTail(r.path) /\ Received(w, t, "TAIL")

StateReady(w, t) ==
    LET r == w.attempt[t] IN
    \/ r.path \in {"RECOMPUTE", "REMOTE_REDO"}
    \/ r.path = "MIGRATE_REDO" /\ Received(w, t, "STATE")
    \/ TakesTail(r.path) /\ r.committed

\* RecoveryCompute: the storage is given back, the reserved slot is taken.
StartBackup(w, t) ==
    LET n == w.attempt[t].node IN
    [Must(ReleaseRecoveryState(w, t), w.task[t].generation = 1 /\ w.task[t].state = "RECOVERING")
     EXCEPT !.svc[n] = StartRecovery(@, t, Redo(w, t), Catchup(w, t), w.now, 1),
            !.task[t].state = "RUNNING_BACKUP",
            !.attempt[t].stage = "RUNNING_BACKUP",
            !.attempt[t].started = TRUE]

\* The join: whoever brings the last dependency starts the computation.
StartCompute(w, t) ==
    LET r == w.attempt[t] IN
    IF \/ ~r.live \/ r.started
       \/ w.deferred /\ ~(StateReady(w, t) /\ Received(w, t, "INPUT"))
    THEN w
    ELSE IF r.stage # "RECOVERING" \/ w.now >= w.task[t].deadline
            \/ ~CanStartAttempt(w.svc[r.node], t, TRUE)
    THEN Fail(w, t)
    ELSE StartBackup(w, t)

\* Mutant: the merge waits for the state alone.
MigrationReadyEarly(w, t) ==
    LET r == w.attempt[t] IN
    IF ~Received(w, t, "STATE") \/ r.mergeScheduled THEN w
    ELSE IF r.path = "MIGRATE_REDO"
    THEN StartCompute([w EXCEPT !.attempt[t].mergeScheduled = TRUE], t)
    ELSE [w EXCEPT !.attempt[t].mergeScheduled = TRUE,
                   !.attempt[t].merge = w.now + RemoteCost]

MigrationReady(w, t) ==
    LET r == w.attempt[t] IN
    IF ~Received(w, t, "STATE") \/ r.mergeScheduled THEN w
    ELSE IF r.path = "MIGRATE_REDO"
    THEN StartCompute([w EXCEPT !.attempt[t].mergeScheduled = TRUE], t)
    ELSE IF ~Received(w, t, "TAIL") THEN w
    ELSE [w EXCEPT !.attempt[t].mergeScheduled = TRUE,
                   !.attempt[t].merge = w.now + RemoteCost]

\* RecoveryResult and the observers of the completed task.
ResultReceived(w, t) ==
    Cleanup([Must(w, /\ w.attempt[t].stage = "RESULT"
                     /\ w.task[t].state = "RESULT_TRANSFERRING"
                     /\ ~Down(w, w.attempt[t].node) /\ ~Down(w, ResultNode[t]))
             EXCEPT !.attempt[t].stage = "COMPLETED", !.task[t].state = "COMPLETED"], t)

Receive(w, t, k) ==
    LET n == w.attempt[t].node
        v == [w EXCEPT !.attempt[t].delivery[k] = [step |-> "received", due |-> NoTime]]
    IN IF ~w.attempt[t].live \/ ~Owns(w, t) THEN w
       ELSE CASE k = "RESULT" -> ResultReceived(v, t)
              [] k = "INPUT" -> StartCompute(v, t)
              [] k = "STATE" -> MigrationReady(CommitReservation(v, n, t, "STATE"), t)
              [] k = "TAIL" ->
                   LET c == CommitReservation(v, n, t, "BATCH") IN
                   IF w.attempt[t].path = "MIGRATE_TAIL" THEN MigrationReady(c, t)
                   ELSE [c EXCEPT !.attempt[t].merge = w.now + RemoteCost]

\* The merge timer: the tail becomes part of the base or the relocated state.
CommitTail(w, t) ==
    StartCompute([Merge(w, w.attempt[t].node, t) EXCEPT !.attempt[t].merge = NoTime,
                                                         !.attempt[t].committed = TRUE], t)

\* Mutant: the request goes out although its attempt has ended.
FlushUnguarded(w, t, k) == [w EXCEPT !.attempt[t].delivery[k] = [step |-> "flying", due |-> NoTime]]

\* The dispatcher registers a request of a live attempt, and drops others.
Flush(w, t, k) ==
    [w EXCEPT !.attempt[t].delivery[k] =
       IF w.attempt[t].live /\ Owns(w, t) THEN [step |-> "flying", due |-> NoTime] ELSE Absent]

-----------------------------------------------------------------------------
(* Deciding *)

Eligible(w, n, t, cut) ==
    /\ n # HostNode[t] /\ ~Down(w, n)
    /\ w.svc[n].available /\ IsIdle(w.svc[n])
    /\ Reaches(w, cut, n, ResultNode[t])

InputReachable(w, n, t, cut) == Reaches(w, cut, SourceNode[t], n)

\* The base the snapshot saw is still there.
BaseUsable(w, t) == w.attempt[t].base /\ Committed(w, RemoteNode[t], t, "STATE")

\* The paths OnComputeFault and the recompute fallback may take to a node.
Paths(w, n, t, cut) ==
    LET r == w.attempt[t]
        far == n # RemoteNode[t]
        needed == IF far THEN 1 ELSE 0  \* storage for the relocated state
    IN IF ~Eligible(w, n, t, cut) THEN {}
       ELSE {p \in Path :
               \/ /\ p = "RECOMPUTE" /\ InputReachable(w, n, t, cut)
               \/ /\ p # "RECOMPUTE" /\ BaseUsable(w, t) /\ (Migrates(p) <=> far)
                  /\ w.deferred => InputReachable(w, n, t, cut)
                  /\ far => ~Down(w, RemoteNode[t]) /\ Reaches(w, cut, RemoteNode[t], n)
                  /\ Free(w, n) >= needed + (IF TakesTail(p) THEN 1 ELSE 0)
                  /\ TakesTail(p) => r.tail /\ Reaches(w, cut, LocalNode[t], n)}

\* What is requested when a path is accepted, in this order.
Send(w, t, k, cut) == IF w.attempt[t].live THEN Deliver(w, t, k, cut) ELSE w

AcceptAndExecute(w, t, n, path, cut) ==
    LET a == [Must(w, CanReserve(w.svc[n], t) /\ w.attempt[t].stage = "RUNNING"
                        /\ w.now < w.task[t].deadline /\ n # HostNode[t])
              EXCEPT !.svc[n] = ReserveRecovery(@, t),
                     !.attempt[t].stage = "RECOVERING",
                     !.attempt[t].node = n, !.attempt[t].path = path]
        i == IF w.deferred THEN Deliver(a, t, "INPUT", cut) ELSE a
    IN IF ~i.attempt[t].live THEN i
       ELSE CASE path = "REMOTE_REDO" -> StartCompute(i, t)
         [] path = "RECOMPUTE" ->
              LET r == ReleaseRecoveryState(i, t) IN
              IF w.deferred THEN r ELSE Deliver(r, t, "INPUT", cut)
         [] path = "TAIL" -> Send(TryReserve(i, n, t, "BATCH"), t, "TAIL", cut)
         [] path = "MIGRATE_REDO" -> Send(TryReserve(i, n, t, "STATE"), t, "STATE", cut)
         [] path = "MIGRATE_TAIL" ->
              Send(Send(TryReserve(TryReserve(i, n, t, "STATE"), n, t, "BATCH"), t, "STATE", cut),
                   t, "TAIL", cut)

-----------------------------------------------------------------------------
(* Computation *)

\* RecoveryComputed: the slot is free again before this runs.
Computed(w, t, cut) ==
    IF ~w.attempt[t].live \/ ~Owns(w, t) THEN w
    ELSE IF w.attempt[t].stage # "RUNNING_BACKUP" \/ w.now > w.task[t].deadline THEN Fail(w, t)
    ELSE Deliver([Must(w, w.task[t].state = "RUNNING_BACKUP")
                  EXCEPT !.attempt[t].stage = "RESULT",
                         !.task[t].state = "RESULT_TRANSFERRING", !.task[t].timer = FALSE],
                 t, "RESULT", cut)

\* The primary's completion: the checkpoint ends with it.
PrimaryComputed(w, t) ==
    ReleaseRecoveryState([w EXCEPT !.task[t].state = "RESULT_TRANSFERRING",
                                   !.task[t].timer = FALSE,
                                   !.stopped = @ \cup {t}], t)

\* HandleComputeStart, for whatever ordinary task the slot has just taken.
Dispatched(w, n) ==
    LET t == w.svc[n].current.task IN
    IF ~w.svc[n].hasCurrent \/ w.task[t].state # "QUEUED" THEN w
    ELSE [w EXCEPT !.task[t] = [@ EXCEPT !.state = "RUNNING", !.timer = TRUE,
                                         !.deadline = w.now + Budget[t]]]

\* A due run completes: its callback, then the next dispatch.
Complete(w, n, defer, cut) ==
    LET s == w.svc[n]
        t == s.current.task
        v == [Must(w, CompletionLegal(s, w.now)) EXCEPT !.svc[n] = CompleteCurrentTask(@, w.now, 1, defer)]
        d == Dispatched(v, n)
    IN IF s.runningRecovery THEN Computed(d, t, cut) ELSE PrimaryComputed(d, t)

\* Mutant: a recovery that only holds its slot misses no deadline.
DeadlineOfRuns(w, t, cut) ==
    LET n == IF w.task[t].generation = 1 THEN w.attempt[t].node ELSE HostNode[t] IN
    IF w.task[t].state = "RECOVERING" THEN w
    ELSE IF CanCompleteIfDue(w.svc[n], t, w.now) THEN Complete(w, n, FALSE, cut)
    ELSE IF w.task[t].generation = 1 THEN FailRecovery(w, t)
    ELSE ReleaseRecoveryState(
           [w EXCEPT !.svc[n] = CancelRunningTaskForFailure(@, t, w.now),
                     !.task[t].state = "FAILED", !.task[t].timer = FALSE,
                     !.stopped = @ \cup {t}], t)

\* HandleComputeDeadline
Deadline(w, t, cut) ==
    LET n == IF w.task[t].generation = 1 THEN w.attempt[t].node ELSE HostNode[t] IN
    IF w.task[t].state \in {"RUNNING", "RUNNING_BACKUP"} /\ CanCompleteIfDue(w.svc[n], t, w.now)
    THEN Complete(w, n, FALSE, cut)
    ELSE IF w.task[t].generation = 1 THEN FailRecovery(w, t)
    ELSE ReleaseRecoveryState(
           [w EXCEPT !.svc[n] = CancelRunningTaskForFailure(@, t, w.now),
                     !.task[t].state = "FAILED", !.task[t].timer = FALSE,
                     !.stopped = @ \cup {t}], t)

-----------------------------------------------------------------------------
(* Faults *)

\* Mutant: the input's source is no dependency.
NeedsInputless(w, t, n) ==
    LET r == w.attempt[t] IN
    \/ n \in {r.node, ResultNode[t]}
    \/ TakesTail(r.path) /\ ~Received(w, t, "TAIL") /\ n = LocalNode[t]
    \/ Migrates(r.path) /\ ~Received(w, t, "STATE") /\ n = RemoteNode[t]

\* The satellites a recovery still depends on.
Needs(w, t, n) ==
    LET r == w.attempt[t] IN
    \/ n \in {r.node, ResultNode[t]}
    \/ (w.deferred \/ r.path = "RECOMPUTE") /\ ~Received(w, t, "INPUT") /\ n = SourceNode[t]
    \/ TakesTail(r.path) /\ ~Received(w, t, "TAIL") /\ n = LocalNode[t]
    \/ Migrates(r.path) /\ ~Received(w, t, "STATE") /\ n = RemoteNode[t]

\* BeginRecovery; Decide follows in the next nanosecond, when the topology
\* has been told of the fault.
Interrupt(w, t) ==
    LET n == HostNode[t]
        q == QuiesceForRecovery(w, t)
    IN [Must(q, Runs(w.svc[n], t)) EXCEPT
          !.svc[n] = CancelRunningTaskForFailure(@, t, w.now),
          !.task[t].state = "RECOVERING", !.task[t].generation = 1,
          !.attempt[t] = [NoAttempt EXCEPT !.live = TRUE, !.decide = w.now + 1,
                                           !.base = HasBase(w, t), !.tail = HasTail(w, t),
                                           !.actual = w.now - w.svc[n].current.start]]

\* Mutant: a compute outage of its node ends a recovery.
FaultMortal(w, t, n, kind) ==
    IF w.task[t].generation = 1
    THEN IF ~w.attempt[t].live THEN w
         ELSE LET v == ReleaseTask(w, t, {n}) IN IF Needs(w, t, n) THEN Fail(v, t) ELSE v
    ELSE IF w.task[t].state # "RUNNING" \/ n # HostNode[t] THEN w
    ELSE Interrupt(w, t)

\* RecoveryController::Fault for one change; an accepted attempt is immune to
\* compute outages.
Fault(w, t, n, kind) ==
    IF w.task[t].generation = 1
    THEN IF ~w.attempt[t].live \/ kind = "compute" THEN w
         ELSE LET v == ReleaseTask(w, t, {n}) IN IF Needs(w, t, n) THEN Fail(v, t) ELSE v
    ELSE IF w.task[t].state # "RUNNING" THEN w
    ELSE IF n = HostNode[t] THEN Interrupt(w, t)
    ELSE IF kind = "satellite" /\ n \in {LocalNode[t], RemoteNode[t]}
            /\ \E o \in w.store : o.task = t
    THEN ReleaseTask(QuiesceForRecovery(w, t), t, {n})
    ELSE w

\* A task no recovery owns fails with the satellites it needs.
FailTaskForSatelliteNode(w, t) ==
    LET n == HostNode[t] IN
    ReleaseRecoveryState(
      [w EXCEPT !.svc[n] = RemoveQueuedTaskForFailure(CancelRunningTaskForFailure(@, t, w.now), t),
                !.task[t].state = "FAILED", !.task[t].timer = FALSE, !.stopped = @ \cup {t}], t)

\* Mutant: tasks in recovery are not left to their controller.
StrandedOwned(w, t, lost) ==
    /\ ~Terminal(w, t)
    /\ \/ HostNode[t] \in lost \/ ResultNode[t] \in lost
       \/ w.task[t].state = "INPUT_TRANSFERRING" /\ SourceNode[t] \in lost

Stranded(w, t, lost) ==
    /\ w.task[t].generation = 0 /\ ~Terminal(w, t)
    /\ \/ HostNode[t] \in lost \/ ResultNode[t] \in lost
       \/ w.task[t].state = "INPUT_TRANSFERRING" /\ SourceNode[t] \in lost

\* One node goes down; what completes in this nanosecond still counts.
TakeDown(w, n, kind, cut) ==
    LET c == IF n \in Server /\ w.svc[n].hasCurrent /\ CanCompleteIfDue(w.svc[n], w.svc[n].current.task, w.now)
             THEN Complete(w, n, TRUE, cut) ELSE w
    IN [c EXCEPT !.dead = IF kind = "satellite" THEN @ \cup {n} ELSE @,
                 !.svc = [m \in Server |-> IF m = n THEN SetComputeAvailable(@[m], FALSE) ELSE @[m]]]

\* ApplyFaultBatch with the recovery handler installed: outages end and begin,
Reopen(w, recovered) ==
    [w EXCEPT !.svc = [n \in Server |-> IF n \in recovered THEN SetComputeAvailable(@[n], TRUE) ELSE @[n]]]

TakeDownAll(w, started, cut) ==
    FoldLeft(LAMBDA v, c : TakeDown(v, c.node, c.kind, cut), w, started)

\* the controller is told of every change, task by task,
FaultAll(w, t, started) ==
    FoldLeft(LAMBDA v, c : IF Terminal(v, t) THEN v ELSE Fault(v, t, c.node, c.kind), w, started)
HandleFaults(w, started) ==
    FoldSet(LAMBDA t, v : FaultAll(v, t, started), w, Task)

\* and the tasks it does not own fail with the lost satellites.
FailStranded(w, lost) ==
    FoldSet(LAMBDA t, v : IF Stranded(v, t, lost) THEN FailTaskForSatelliteNode(v, t) ELSE v, w, Task)

ApplyFaultBatch(w, recovered, started, cut) ==
    LET down == TakeDownAll(Reopen(w, recovered), started, cut)
        lost == {started[i].node : i \in {j \in DOMAIN started : started[j].kind = "satellite"}}
    IN FailStranded(HandleFaults(down, started), lost)

\* Finalize, and FinalizeSimulation for the tasks without an attempt.
FailAll(w) == FoldSet(LAMBDA t, v : Fail(v, t), w, Task)
FailRest(w) ==
    FoldSet(LAMBDA t, v : IF Terminal(v, t) THEN v ELSE FailTaskForSatelliteNode(v, t), w, Task)

Finalize(w) == [FailRest(FailAll(w)) EXCEPT !.ended = TRUE]

-----------------------------------------------------------------------------
(* What holds of a world between two events, of each task *)

Wanted(w, t, k) ==
    LET r == w.attempt[t] IN
    \/ k = "INPUT" /\ (w.deferred \/ r.path = "RECOMPUTE")
    \/ k = "STATE" /\ Migrates(r.path)
    \/ k = "TAIL" /\ TakesTail(r.path)

InputReady(w, t) == Wanted(w, t, "INPUT") => Received(w, t, "INPUT")

\* The tail, and the state it is merged into, are at the recovery node.
TailReady(w, t) ==
    LET r == w.attempt[t] IN
    /\ TakesTail(r.path) /\ Received(w, t, "TAIL")
    /\ Migrates(r.path) => Received(w, t, "STATE")

Stores(w, t) == \E o \in w.store : o.task = t

\* What the compute services hold of a task agrees with its attempt.
Located(w, t) ==
    \A n \in Server :
        LET r == w.attempt[t] s == w.svc[n] IN
        /\ t \in s.known => n = HostNode[t] \/ (r.started /\ r.node = n)
        /\ \A i \in s.queue : i.task = t =>
              n = HostNode[t] /\ w.task[t].generation = 0 /\ w.task[t].state = "QUEUED"
        /\ s.owner = t => r.live /\ r.node = n /\ r.stage \in {"RECOVERING", "RUNNING_BACKUP"}
        /\ Runs(s, t) =>
              \/ s.runningRecovery /\ s.immune /\ r.live /\ r.node = n /\ r.stage = "RUNNING_BACKUP"
              \/ ~s.runningRecovery /\ n = HostNode[t] /\ w.task[t].generation = 0
                 /\ w.task[t].state = "RUNNING"

\* What computes has what its path asks for.
Joined(w, t) ==
    LET r == w.attempt[t] IN
    r.started => /\ InputReady(w, t)
                 /\ Migrates(r.path) => Received(w, t, "STATE")
                 /\ TakesTail(r.path) => Received(w, t, "TAIL") /\ r.committed

\* A deadline is armed exactly while it may be missed, and not overdue.
Timed(w, t) ==
    LET u == w.task[t] IN
    /\ u.timer <=> u.state \in {"RUNNING", "RECOVERING", "RUNNING_BACKUP"}
    /\ u.timer => w.now <= u.deadline

Occupies(w, t, n, recovery) == Runs(w.svc[n], t) /\ w.svc[n].runningRecovery = recovery

Primary(w, t) ==
    LET n == HostNode[t] IN
    /\ w.attempt[t] = NoAttempt
    /\ w.task[t].state \notin {"RECOVERING", "RUNNING_BACKUP"}
    /\ w.task[t].state = "INPUT_TRANSFERRING" => t \notin w.svc[n].known
    /\ w.task[t].state = "RUNNING" => Occupies(w, t, n, FALSE)
    /\ \A o \in w.store : o.task = t =>
          /\ w.task[t].state = "RUNNING"
          /\ o.node = LocalNode[t] /\ o.kind = "RECORD" => w.now - w.svc[n].current.start >= LocalWork

Deciding(w, t) ==
    LET r == w.attempt[t] IN
    /\ r.live /\ r.stage = "RUNNING" /\ w.task[t].state = "RECOVERING"
    /\ r = [NoAttempt EXCEPT !.live = TRUE, !.decide = r.decide, !.base = r.base,
                             !.tail = r.tail, !.actual = r.actual]
    /\ r.tail => r.actual >= LocalWork

\* The storage a waiting attempt counts on.
Stocked(w, t) ==
    LET r == w.attempt[t] IN
    /\ r.delivery["STATE"].step \in {"local", "queued", "flying"} =>
         \E o \in Held(w, r.node, t, "STATE") : o.reserved
    /\ Migrates(r.path) /\ Received(w, t, "STATE") => Committed(w, r.node, t, "STATE")
    /\ r.path = "TAIL" => Committed(w, r.node, t, "STATE")
    /\ r.delivery["TAIL"].step \in {"local", "queued", "flying"} =>
         \E o \in Held(w, r.node, t, "BATCH") : o.reserved
    /\ Received(w, t, "TAIL") /\ ~r.committed => Committed(w, r.node, t, "BATCH")

\* An accepted attempt that does not compute; `left' is still to be requested.
Waiting(w, t, left) ==
    LET r == w.attempt[t] IN
    /\ r.live /\ r.stage = "RECOVERING" /\ w.task[t].state = "RECOVERING"
    /\ r.node \in Server \ {HostNode[t]} /\ r.path \in Path
    /\ w.svc[r.node].owner = t /\ ~w.svc[r.node].runningRecovery
    /\ r.decide = NoTime /\ ~r.started
    /\ TakesTail(r.path) => r.actual >= LocalWork
    /\ \A k \in Kind : r.delivery[k].step # "none" <=> Wanted(w, t, k) /\ k \notin left
    /\ Stocked(w, t)

\* The tail is merged once, when it and its base are there.
Merging(w, t) ==
    LET r == w.attempt[t] IN
    /\ r.mergeScheduled <=> Migrates(r.path) /\ Received(w, t, "STATE")
                            /\ (TakesTail(r.path) => Received(w, t, "TAIL"))
    /\ r.merge # NoTime \/ r.committed <=> TailReady(w, t)
    /\ r.merge = NoTime \/ ~r.committed

Past(w, t) ==
    LET r == w.attempt[t] IN
    /\ r.live /\ r.started /\ r.node \in Server /\ r.path \in Path
    /\ r.decide = NoTime /\ r.merge = NoTime
    /\ \A k \in Kind \ {"RESULT"} : r.delivery[k].step \in {"none", "received"}
    /\ ~Stores(w, t)

Computing(w, t) ==
    /\ w.attempt[t].stage = "RUNNING_BACKUP" /\ w.task[t].state = "RUNNING_BACKUP"
    /\ Past(w, t) /\ w.attempt[t].delivery["RESULT"].step = "none"

Resulting(w, t) ==
    /\ w.attempt[t].stage = "RESULT" /\ w.task[t].state = "RESULT_TRANSFERRING"
    /\ Past(w, t)

Ended(w, t) ==
    LET r == w.attempt[t] IN
    /\ ~r.live /\ Terminal(w, t) /\ r.stage = w.task[t].state
    /\ r.decide = NoTime /\ r.merge = NoTime
    /\ \A k \in Kind : r.delivery[k].step \notin {"local", "flying"}
    /\ ~Stores(w, t)

Recovery(w, t) ==
    \/ Deciding(w, t)
    \/ Waiting(w, t, {}) /\ Merging(w, t) /\ ~(StateReady(w, t) /\ InputReady(w, t))
    \/ Computing(w, t) /\ Occupies(w, t, w.attempt[t].node, TRUE)
    \/ Resulting(w, t)
    \/ Ended(w, t)

TaskOK(w, t) ==
    /\ Located(w, t) /\ Joined(w, t) /\ Timed(w, t)
    /\ w.task[t].generation = 0 => Primary(w, t)
    /\ w.task[t].generation = 1 => Recovery(w, t)

\* The nodes a task runs on or needs are there, except those of this batch it
\* has not been told of: `closed' services and `lost' satellites.
Exposed(w, t, closed, lost) ==
    LET r == w.attempt[t] IN
    /\ w.task[t].generation = 0 /\ w.task[t].state = "RUNNING" =>
         w.svc[HostNode[t]].available \/ HostNode[t] \in closed
    /\ r.live /\ r.node # NoNode =>
         \A n \in w.dead : Needs(w, t, n) => n \in lost

NodeOK(w, n) ==
    /\ w.svc[n].running /\ ServiceCore(w.svc[n], w.now) /\ DispatchArmed(w.svc[n])
    /\ Free(w, n) >= 0

WorldOK(w) == w \in World /\ w.ok /\ IsFiniteSet(w.store) /\ \A n \in Server : NodeOK(w, n)

Sound(w, closed, lost) ==
    WorldOK(w) /\ \A t \in Task : TaskOK(w, t) /\ Exposed(w, t, closed, lost)

=============================================================================
