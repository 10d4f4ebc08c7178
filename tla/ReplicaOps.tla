------------------------------ MODULE ReplicaOps ------------------------------
(***************************************************************************)
(* 1+1 execution: every task runs on its own node and, if the policy finds *)
(* a node, on a second one too, and the first result counts                *)
(* (protection/mechanism/replication/replica-manager.cc with the parallel  *)
(* operations of task/task-coordinator.cc and the ledger of                *)
(* protection/runtime/placement-load-ledger.cc), as operators on one       *)
(* record.                                                                 *)
(*                                                                         *)
(* Attempt 0 is the primary, 1 the replica.  `pick' is the node the policy *)
(* would choose for the replica of each task.  Nothing happens between     *)
(* Strike and BatchComplete that m_inFaultBatch would have to stop:        *)
(* both are in the event of the batch, and a route update only pauses      *)
(* transfers.                                                              *)
(***************************************************************************)
EXTENDS ComputeServiceOps, FaultBatches, Sequences, FiniteSetsExt, SequencesExt

CONSTANTS SourceNode, HostNode, ResultNode,  \* of each task
          WorkOf, Budget, StopTime

NoNode == 0

Generation == {0, 1}
Stage == {"ABSENT", "INPUT", "READY", "RUNNING", "RESULT", "COMPLETED", "FAILED", "CANCELLED"}
TaskState == {"INPUT_TRANSFERRING", "QUEUED", "RUNNING", "RESULT_TRANSFERRING",
              "COMPLETED", "FAILED"}

\* The replica's two deliveries and the original result transfer.
Flow == {"INPUT", "RESULT", "PRIMARY_RESULT"}
FlowsOf(g) == IF g = 0 THEN {"PRIMARY_RESULT"} ELSE {"INPUT", "RESULT"}
Delivery == [step : {"none", "local", "queued", "flying"}, due : Time \cup {NoTime}]
Absent == [step |-> "none", due |-> NoTime]
Flying == [step |-> "flying", due |-> NoTime]

\* ReplicaManager::State
Pair ==
    [live : BOOLEAN, stage : [Generation -> Stage],
     node : Server \cup {NoNode}, immune : BOOLEAN,
     computed : [Generation -> Time \cup {NoTime}],
     flow : [Flow -> Delivery]]
NoPair ==
    [live |-> FALSE, stage |-> [g \in Generation |-> "ABSENT"],
     node |-> NoNode, immune |-> FALSE,
     computed |-> [g \in Generation |-> NoTime],
     flow |-> [k \in Flow |-> Absent]]

TaskRuntime == [state : TaskState, deadline : Time \cup {NoTime}, timer : BOOLEAN]

World ==
    [now : Time, ok : BOOLEAN, ended : BOOLEAN,
     svc : [Server -> Service], dead : SUBSET Sat,
     task : [Task -> TaskRuntime],
     pair : [Task -> Pair],
     assigned : [Task -> Server \cup {NoNode}],    \* m_assignments
     recovering : [Task -> Server \cup {NoNode}]]  \* m_recoveries

\* A Require of the code.
Must(w, holds) == [w EXCEPT !.ok = @ /\ holds]

Terminal(w, t) == w.task[t].state \in {"COMPLETED", "FAILED"}
Valid(w, t, g) == w.pair[t].stage[g] \in {"INPUT", "READY", "RUNNING", "RESULT"}
NodeOf(w, t, g) == IF g = 0 THEN HostNode[t] ELSE w.pair[t].node
Due(s, now) == s.hasCurrent /\ CompletionLegal(s, now)

-----------------------------------------------------------------------------
(* PlacementLoadLedger *)

Assign(w, t, n) == [Must(w, w.assigned[t] = NoNode) EXCEPT !.assigned[t] = n]
TakeOver(w, t, n) == [Must(w, w.recovering[t] = NoNode) EXCEPT !.recovering[t] = n]

\* A release that finds no ownership changes nothing.
Computes(w, t, n) ==
    [Must(w, w.recovering[t] \in {NoNode, n}) EXCEPT !.recovering[t] = NoNode]
Release(w, t, n) ==
    [Must(Computes(w, t, n), w.assigned[t] \in {NoNode, n}) EXCEPT !.assigned[t] = NoNode]

-----------------------------------------------------------------------------
(* The end of an attempt and of a task *)

\* The pair p once its attempt g has ended, with its transfers.
Ended(p, g, end) ==
    [p EXCEPT !.stage[g] = end,
              !.flow = [k \in Flow |-> IF k \in FlowsOf(g) /\ p.flow[k] = Flying
                                       THEN Absent ELSE p.flow[k]]]

\* Mutant: the transfers of a cancelled attempt go on.
CancelKeepingTransfers(w, t, g, failed) ==
    LET n == NodeOf(w, t, g)
        running == w.pair[t].stage[g] = "RUNNING"
        v == [w EXCEPT !.pair[t].stage[g] = IF failed THEN "FAILED" ELSE "CANCELLED"]
    IN IF ~Valid(w, t, g) THEN w
       ELSE IF g = 1
       THEN [Release(v, t, n) EXCEPT !.svc[n] = CancelRecovery(@, t, w.now)]
       ELSE IF running
       THEN [v EXCEPT !.svc[n] = CancelRunningTaskForFailure(@, t, w.now)]
       ELSE v

Cancel(w, t, g, failed) ==
    LET n == NodeOf(w, t, g)
        running == w.pair[t].stage[g] = "RUNNING"
        v == [w EXCEPT !.pair[t] = Ended(@, g, IF failed THEN "FAILED" ELSE "CANCELLED")]
    IN IF ~Valid(w, t, g) THEN w
       ELSE IF g = 1
       THEN [Release(v, t, n) EXCEPT !.svc[n] = CancelRecovery(@, t, w.now)]
       ELSE IF running
       THEN [Must(v, Runs(w.svc[n], t)) EXCEPT !.svc[n] = CancelRunningTaskForFailure(@, t, w.now)]
       ELSE v

\* No timer fires for the pair p any more,
Shut(p) ==
    [p EXCEPT !.live = FALSE,
              !.flow = [k \in Flow |-> IF p.flow[k].step = "local" THEN Absent ELSE p.flow[k]]]

\* and the deadline of its task is off.
Closed(w, t, state) ==
    [w EXCEPT !.pair[t] = Shut(@),
              !.task[t] = [@ EXCEPT !.state = state, !.timer = FALSE]]

\* Mutant: the winner stays in the load ledger.
WinKeepingLoad(w, t, g) ==
    LET p == w.pair[t]
        n == NodeOf(w, t, g)
        v == [Must(w, /\ p.computed[g] # NoTime /\ p.computed[g] <= w.task[t].deadline
                      /\ w.task[t].state = "RESULT_TRANSFERRING"
                      /\ {n, ResultNode[t]} \cap w.dead = {})
              EXCEPT !.pair[t].stage[g] = "COMPLETED"]
    IN Closed(Cancel(v, t, 1 - g, FALSE), t, "COMPLETED")

\* Win, with ParallelResult.
Win(w, t, g) ==
    LET p == w.pair[t]
        n == NodeOf(w, t, g)
        v == [Must(w, /\ p.computed[g] # NoTime /\ p.computed[g] <= w.task[t].deadline
                      /\ w.task[t].state = "RESULT_TRANSFERRING"
                      /\ {n, ResultNode[t]} \cap w.dead = {})
              EXCEPT !.pair[t].stage[g] = "COMPLETED"]
    IN Closed(Cancel(IF g = 1 THEN Release(v, t, n) ELSE v, t, 1 - g, FALSE), t, "COMPLETED")

\* Fail, with FailParallel.
Fail(w, t) ==
    IF ~w.pair[t].live THEN w
    ELSE Closed(Cancel(Cancel(Must(w, ~Terminal(w, t)), t, 0, TRUE), t, 1, TRUE), t, "FAILED")

FailIfNone(w, t) == IF Valid(w, t, 0) \/ Valid(w, t, 1) THEN w ELSE Fail(w, t)

\* What the deadline leaves: attempts whose computation is done.
Lapse(w, t, g) == IF w.pair[t].stage[g] = "RESULT" THEN w ELSE Cancel(w, t, g, TRUE)

Expire(w, t) == FailIfNone(Lapse(Lapse(w, t, 0), t, 1), t)

-----------------------------------------------------------------------------
(* Computation *)

DeliverReplica(w, t, k) ==
    LET n == w.pair[t].node
        ends == IF k = "INPUT" THEN {SourceNode[t], n} ELSE {n, ResultNode[t]}
    IN [w EXCEPT !.pair[t].flow[k] = [step |-> IF Cardinality(ends) = 1 THEN "local" ELSE "queued",
                                      due |-> w.now + 1]]

\* Computed, with ParallelComputed; the slot is free again.
Computed(w, t, g) ==
    LET n == NodeOf(w, t, g)
        c == [Must(w, n \notin w.dead /\ ~Terminal(w, t))
              EXCEPT !.task[t].state = "RESULT_TRANSFERRING",
                     !.pair[t] = [@ EXCEPT !.stage[g] = "RESULT", !.computed[g] = w.now]]
    IN IF ~w.pair[t].live \/ w.pair[t].stage[g] # "RUNNING" THEN w
       ELSE IF w.now > w.task[t].deadline THEN Expire(Cancel(w, t, g, TRUE), t)
       ELSE IF g = 1 THEN DeliverReplica(Computes(c, t, n), t, "RESULT")
       ELSE [c EXCEPT !.pair[t].flow["PRIMARY_RESULT"] = Flying]

\* OnTask and Request: the primary has started; a replica is admitted once.
Request(w, t, n) ==
    LET p == [w EXCEPT !.pair[t] = [NoPair EXCEPT !.live = TRUE, !.stage[0] = "RUNNING"]] IN
    IF \/ n \in {NoNode, HostNode[t]} \cup w.dead
       \/ {SourceNode[t], ResultNode[t]} \cap w.dead # {} \/ ~CanReserve(w.svc[n], t)
    THEN p
    ELSE DeliverReplica(
           [Assign(p, t, n) EXCEPT !.svc[n] = ReserveRecovery(@, t),
                                   !.pair[t] = [@ EXCEPT !.node = n, !.stage[1] = "INPUT"]], t, "INPUT")

\* HandleComputeStart, for the ordinary task the slot has just taken.
Dispatched(w, n, pick) ==
    LET t == w.svc[n].current.task IN
    IF ~w.svc[n].hasCurrent \/ w.task[t].state # "QUEUED" THEN w
    ELSE Request([w EXCEPT !.task[t] = [state |-> "RUNNING", timer |-> TRUE,
                                        deadline |-> w.now + Budget[t]]], t, pick[t])

\* The due run of a service completes: its callback and the next dispatch.
Complete(w, n, defer, pick) ==
    LET s == w.svc[n]
        v == [w EXCEPT !.svc[n] = CompleteCurrentTask(@, w.now, 1, defer)]
    IN Dispatched(Computed(v, s.current.task, IF s.runningRecovery THEN 1 ELSE 0), n, pick)

\* CompleteTaskIfDue for an attempt that runs.
Settle(w, t, g, pick) ==
    LET n == NodeOf(w, t, g) IN
    IF w.pair[t].stage[g] = "RUNNING" /\ CanCompleteIfDue(w.svc[n], t, w.now)
    THEN Complete(w, n, FALSE, pick) ELSE w

\* HandleComputeDeadline and Deadline: what is due counts.
Deadline(w, t, pick) ==
    LET Overdue(v) == IF v.pair[t].live THEN Expire(v, t) ELSE v IN
    IF w.pair[t].live THEN Overdue(Settle(Settle(w, t, 0, pick), t, 1, pick)) ELSE w

\* StartReplica of the manager.
StartIfReady(w, t, pick) ==
    LET p == w.pair[t]
        n == p.node
    IN IF ~p.live \/ p.stage[1] # "READY" THEN w
       ELSE IF w.now >= w.task[t].deadline THEN Deadline(w, t, pick)
       ELSE IF ~w.svc[n].available /\ ~p.immune THEN w
       ELSE [Must(w, CanStartAttempt(w.svc[n], t, w.svc[n].immune))
             EXCEPT !.svc[n] = StartReplica(@, t, WorkOf[t], w.now, 1),
                    !.pair[t].stage[1] = "RUNNING"]

Receive(w, t, k, pick) ==
    LET g == IF k = "PRIMARY_RESULT" THEN 0 ELSE 1
        v == [w EXCEPT !.pair[t].flow[k] = Absent]
    IN IF ~w.pair[t].live \/ ~Valid(w, t, g) THEN v
       ELSE IF k = "INPUT"
       THEN StartIfReady([Must(v, w.pair[t].stage[1] = "INPUT")
                          EXCEPT !.pair[t].stage[1] = "READY"], t, pick)
       ELSE Win(Must(v, w.pair[t].stage[g] = "RESULT"), t, g)

\* A timer or request of the replica is dropped once its stage has passed.
Wanted(w, t, k) == w.pair[t].live /\ w.pair[t].stage[1] = k

\* The dispatcher's flush; the engine may refuse to register (no ports left).
Flush(w, t, k, registers) ==
    LET v == [w EXCEPT !.pair[t].flow[k] = Absent] IN
    IF ~Wanted(w, t, k) THEN v
    ELSE IF registers THEN [w EXCEPT !.pair[t].flow[k] = Flying]
    ELSE FailIfNone(Cancel(v, t, 1, TRUE), t)

-----------------------------------------------------------------------------
(* Faults *)

\* Mutant: a replica that has taken over dies with an outage.
HitMortal(w, t, g, c) ==
    LET n == NodeOf(w, t, g) IN
    /\ Valid(w, t, g)
    /\ IF c.kind = "satellite"
       THEN \/ c.node \in {n, ResultNode[t]}
            \/ g = 1 /\ w.pair[t].stage[1] = "INPUT" /\ c.node = SourceNode[t]
       ELSE c.node = n /\ w.pair[t].stage[g] = "RUNNING"

\* The attempts one fault ends.
Hit(w, t, g, c) ==
    LET n == NodeOf(w, t, g) IN
    /\ Valid(w, t, g)
    /\ IF c.kind = "satellite"
       THEN \/ c.node \in {n, ResultNode[t]}
            \/ g = 1 /\ w.pair[t].stage[1] = "INPUT" /\ c.node = SourceNode[t]
       ELSE c.node = n /\ w.pair[t].stage[g] = "RUNNING" /\ ~(g = 1 /\ w.pair[t].immune)

\* FaultBatch, for one task.
StrikeAttempt(w, t, g, c) == IF Hit(w, t, g, c) THEN Cancel(w, t, g, TRUE) ELSE w

StrikeBoth(w, t, c) == StrikeAttempt(StrikeAttempt(w, t, 0, c), t, 1, c)

Strikes(w, t, started) == FoldLeft(LAMBDA v, c : StrikeBoth(v, t, c), w, started)

Strike(w, t, started) == IF ~w.pair[t].live THEN w ELSE Strikes(w, t, started)

StrikeAll(w, started) == FoldSet(LAMBDA t, v : Strike(v, t, started), w, Task)

\* A replica that is alone takes over: outages cannot stop it any more.
Promote(w, t) ==
    LET p == w.pair[t]
        n == p.node
        ready == p.stage[1] = "RESULT" \/ (w.svc[n].owner = t /\ w.svc[n].available)
    IN IF Valid(w, t, 0) \/ p.immune \/ ~ready THEN w
       ELSE IF p.stage[1] = "RESULT" THEN [w EXCEPT !.pair[t].immune = TRUE]
       ELSE TakeOver([w EXCEPT !.pair[t].immune = TRUE, !.svc[n] = PromoteReplica(@, t)], t, n)

\* Mutant: only a replica that takes over is started.
BatchCompletePromoted(w, t, pick) ==
    IF ~w.pair[t].live THEN w
    ELSE IF ~Valid(w, t, 0) /\ ~Valid(w, t, 1) THEN Fail(w, t)
    ELSE IF Valid(w, t, 0) THEN w
    ELSE StartIfReady(Promote(w, t), t, pick)

BatchComplete(w, t, pick) ==
    IF ~w.pair[t].live THEN w
    ELSE IF ~Valid(w, t, 0) /\ ~Valid(w, t, 1) THEN Fail(w, t)
    ELSE StartIfReady(Promote(w, t), t, pick)

BatchCompleteAll(w, pick) == FoldSet(LAMBDA t, v : BatchComplete(v, t, pick), w, Task)

\* A task that has not started fails with the satellites it needs.
Stranded(w, t, lost) ==
    /\ w.task[t].state \in {"INPUT_TRANSFERRING", "QUEUED"}
    /\ \/ HostNode[t] \in lost \/ ResultNode[t] \in lost
       \/ w.task[t].state = "INPUT_TRANSFERRING" /\ SourceNode[t] \in lost

FailTaskForSatelliteNode(w, t) ==
    [w EXCEPT !.svc[HostNode[t]] = RemoveQueuedTaskForFailure(@, t), !.task[t].state = "FAILED"]

FailIfStranded(w, t, lost) ==
    IF Stranded(w, t, lost) THEN FailTaskForSatelliteNode(w, t) ELSE w

FailStranded(w, lost) == FoldSet(LAMBDA t, v : FailIfStranded(v, t, lost), w, Task)

\* One node goes down; what completes in this nanosecond still counts.
TakeDown(w, c, pick) ==
    LET n == c.node
        v == IF n \in Server /\ Due(w.svc[n], w.now) THEN Complete(w, n, TRUE, pick) ELSE w
    IN [v EXCEPT !.dead = IF c.kind = "satellite" THEN @ \cup {n} ELSE @,
                 !.svc = [m \in Server |-> IF m = n THEN SetComputeAvailable(@[m], FALSE) ELSE @[m]]]

TakeDownAll(w, started, pick) == FoldLeft(LAMBDA v, c : TakeDown(v, c, pick), w, started)

Reopen(w, recovered) ==
    [w EXCEPT !.svc = [n \in Server |-> IF n \in recovered THEN SetComputeAvailable(@[n], TRUE)
                                       ELSE @[n]]]

\* The satellites a batch loses.
Lost(started) ==
    {started[i].node : i \in {j \in DOMAIN started : started[j].kind = "satellite"}}

\* ApplyFaultBatch and CompleteFaultBatch with the parallel hooks installed.
ApplyFaultBatch(w, recovered, started, pick) ==
    LET hit == StrikeAll(TakeDownAll(Reopen(w, recovered), started, pick), started)
    IN BatchCompleteAll(FailStranded(hit, Lost(started)), pick)

\* Finalize, and FinalizeSimulation for the tasks that never started.
FailAll(w) == FoldSet(LAMBDA t, v : Fail(v, t), w, Task)

FailIfOpen(w, t) == IF Terminal(w, t) THEN w ELSE FailTaskForSatelliteNode(w, t)

FailRest(w) == FoldSet(LAMBDA t, v : FailIfOpen(v, t), w, Task)

Finalize(w) ==
    LET g == FailRest(FailAll(w))
    IN [Must(g, \A t \in Task : {g.assigned[t], g.recovering[t]} = {NoNode}) EXCEPT !.ended = TRUE]

=============================================================================
