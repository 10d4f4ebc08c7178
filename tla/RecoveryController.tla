-------------------------- MODULE RecoveryController --------------------------
(***************************************************************************)
(* Tasks, their checkpoints, faults and the recoveries they cause, over    *)
(* the compute services of a few satellites.  Events of one instant are    *)
(* taken in any order; the program's order by event UID is one of them.    *)
(*                                                                         *)
(* A checkpoint is reduced to what a recovery finds: a base at the remote  *)
(* node and records at the local one (CheckpointManager decides when).     *)
(* The catch-up event writes a log row and is no action.                   *)
(***************************************************************************)
EXTENDS RecoveryOps

CONSTANTS Cuts,      \* what the routes may leave unconnected at an instant
          LastInput, \* bound: inputs have arrived by then
          MaxFaults  \* bound: faults that start in one behaviour

ASSUME BoundAssumption == StopTime \in Nat /\ MaxFaults \in Nat

VARIABLES w,       \* the program
          faults,  \* faults started so far
          batched  \* this instant's fault batch has run

vars == <<w, faults, batched>>

Init ==
    /\ \E policy \in BOOLEAN :
         w = [now |-> 0, ok |-> TRUE, ended |-> FALSE, deferred |-> policy,
              svc |-> [n \in Server |-> [NewService EXCEPT !.running = TRUE]],
              task |-> [t \in Task |-> [state |-> "INPUT_TRANSFERRING", generation |-> 0,
                                        deadline |-> NoTime, timer |-> FALSE]],
              attempt |-> [t \in Task |-> NoAttempt],
              store |-> {}, stopped |-> {}, dead |-> {}]
    /\ faults = 0 /\ batched = FALSE

-----------------------------------------------------------------------------

InputArrives(t) ==
    /\ w.task[t].state = "INPUT_TRANSFERRING"
    /\ w' = [w EXCEPT !.svc[HostNode[t]] = SubmitTask(@, t, WorkOf[t], w.now),
                      !.task[t].state = "QUEUED"]

Dispatch(n) ==
    /\ w.svc[n].dispatch
    /\ w' = Dispatched([w EXCEPT !.svc[n] = FireDispatch(@, w.now, 1)], n)

Completes(n) ==
    /\ w.svc[n].completion /\ CompletionDue(w.svc[n], w.now)
    /\ \E cut \in Cuts : w' = Complete(w, n, FALSE, cut)

DeadlinePasses(t) ==
    /\ w.task[t].timer /\ w.now = w.task[t].deadline
    /\ \E cut \in Cuts : w' = Deadline([w EXCEPT !.task[t].timer = FALSE], t, cut)

\* The result of a task that ran on its own node arrives.
ResultArrives(t) ==
    /\ w.task[t].generation = 0 /\ w.task[t].state = "RESULT_TRANSFERRING"
    /\ w' = [w EXCEPT !.task[t].state = "COMPLETED"]

\* The checkpoint of a running task gets its base, and then records.
Checkpoint(t) ==
    /\ w.task[t].state = "RUNNING" /\ t \notin w.stopped
    /\ \E o \in {[node |-> RemoteNode[t], task |-> t, kind |-> "STATE", reserved |-> FALSE],
                 [node |-> LocalNode[t], task |-> t, kind |-> "RECORD", reserved |-> FALSE]} :
         /\ o \notin w.store /\ Free(w, o.node) > 0
         /\ ~Down(w, LocalNode[t]) /\ ~Down(w, RemoteNode[t])
         /\ o.kind = "RECORD" => HasBase(w, t) /\ w.now - w.svc[HostNode[t]].current.start >= LocalWork
         /\ w' = [w EXCEPT !.store = @ \cup {o}]

\* OnComputeFault and the policy: an admissible recovery, or none.
Decide(t) ==
    /\ w.attempt[t].decide = w.now
    /\ \E cut \in Cuts :
         LET v == [w EXCEPT !.attempt[t].decide = NoTime] IN
         \/ w' = Fail(v, t)
         \/ /\ w.now < w.task[t].deadline /\ ~Down(w, ResultNode[t])
            /\ \E n \in Server : \E p \in Paths(w, n, t, cut) : w' = AcceptAndExecute(v, t, n, p, cut)

Due(t, k, step) == w.attempt[t].delivery[k].step = step /\ w.attempt[t].delivery[k].due = w.now

LocalDelivery(t, k) ==
    /\ Due(t, k, "local")
    /\ w' = IF Down(w, From(w, t, k)) THEN [w EXCEPT !.attempt[t].delivery[k] = Absent]
          ELSE Receive(w, t, k)

\* The engine may refuse to register: a satellite has run out of ports.
FlushRequest(t, k) ==
    /\ Due(t, k, "queued")
    /\ \/ w' = Flush(w, t, k)
       \/ /\ w.attempt[t].live /\ Owns(w, t)
          /\ w' = Fail([w EXCEPT !.attempt[t].delivery[k] = Absent], t)

\* A transfer that nobody ends completes, at any time or never.
TransferTerminal(t, k) ==
    /\ w.attempt[t].delivery[k].step = "flying"
    /\ w' = Receive(w, t, k)

TailCommits(t) ==
    /\ w.attempt[t].merge = w.now
    /\ w' = CommitTail(w, t)

Event(t) ==
    \/ InputArrives(t) \/ DeadlinePasses(t) \/ ResultArrives(t) \/ Checkpoint(t)
    \/ Decide(t) \/ TailCommits(t)
    \/ \E k \in Kind : LocalDelivery(t, k) \/ FlushRequest(t, k) \/ TransferTerminal(t, k)

\* Satellites are lost for good; a compute outage ends at any later instant.
FaultBatch ==
    /\ ~batched
    /\ \E recovered \in SUBSET {n \in Server : ~w.svc[n].available /\ ~Down(w, n)} :
       \E size \in 0..(MaxFaults - faults) :
       \E nodes \in {q \in [1..size -> Sat] : IsInjective(q)} :
       \E kinds \in [1..size -> {"compute", "satellite"}] :
       \E cut \in Cuts :
         /\ recovered # {} \/ size > 0
         /\ \A i \in 1..size :
              /\ ~Down(w, nodes[i])
              /\ kinds[i] = "compute" => nodes[i] \in Server
              /\ nodes[i] \in Server => w.svc[nodes[i]].available \/ nodes[i] \in recovered
         /\ w' = ApplyFaultBatch(w, recovered,
                                 [i \in 1..size |-> [node |-> nodes[i], kind |-> kinds[i]]], cut)
         /\ faults' = faults + size
    /\ batched' = TRUE

\* Nothing of this instant is left to do.
Quiet ==
    /\ \A n \in Server : ~w.svc[n].dispatch /\ ~(w.svc[n].completion /\ CompletionDue(w.svc[n], w.now))
    /\ \A t \in Task :
         /\ ~(w.task[t].timer /\ w.task[t].deadline = w.now)
         /\ w.now \notin {w.attempt[t].decide, w.attempt[t].merge}
         /\ \A k \in Kind : w.attempt[t].delivery[k].due # w.now
         /\ w.now >= LastInput => w.task[t].state # "INPUT_TRANSFERRING"

Tick ==
    /\ Quiet /\ w.now < StopTime
    /\ w' = [w EXCEPT !.now = @ + 1]
    /\ batched' = FALSE /\ UNCHANGED faults

\* Simulator::Stop comes first in its instant; the program finalizes then.
FinalizeSimulation ==
    /\ w.now = StopTime
    /\ w' = Finalize(w)
    /\ UNCHANGED <<faults, batched>>

Next ==
    \/ /\ ~w.ended /\ w.now < StopTime
       /\ \/ (\E t \in Task : Event(t)) /\ UNCHANGED <<faults, batched>>
          \/ (\E n \in Server : Dispatch(n) \/ Completes(n)) /\ UNCHANGED <<faults, batched>>
          \/ FaultBatch
          \/ Tick
    \/ ~w.ended /\ FinalizeSimulation

Spec == Init /\ [][Next]_vars

-----------------------------------------------------------------------------

Live(t) == w.attempt[t].live
Accepted(t) == Live(t) /\ w.attempt[t].node # NoNode

TypeOK == w \in World /\ faults \in 0..MaxFaults /\ batched \in BOOLEAN

\* No order of deliveries, faults, deadlines and cancellations trips a check of
\* the controller, the coordinator, the attempt or the storage pools, and no
\* pool holds more than its capacity.
NeverAborts ==
    /\ TypeOK /\ w.ok
    /\ \A n \in Server : Free(w, n) >= 0

\* The task, its attempt and the compute service are changed by different
\* handlers and always tell the same story.
AttemptsAgree ==
    \A t \in Task :
        LET r == w.attempt[t] s == w.task[t].state IN
        w.task[t].generation = 1 =>
            /\ Live(t) <=> s \notin TerminalState
            /\ s = "RECOVERING" <=> Live(t) /\ r.stage \in {"RUNNING", "RECOVERING"}
            /\ s = "RUNNING_BACKUP" <=> r.stage = "RUNNING_BACKUP"
            /\ s = "RESULT_TRANSFERRING" <=> r.stage = "RESULT"
            /\ s = "COMPLETED" <=> r.stage = "COMPLETED"
            /\ r.stage = "RECOVERING" =>
                 w.svc[r.node].owner = t /\ ~w.svc[r.node].runningRecovery
            /\ r.stage = "RUNNING_BACKUP" =>
                 w.svc[r.node].runningRecovery /\ Runs(w.svc[r.node], t)

\* What has ended holds nothing: no slot, no run, no storage, no timer, and
\* no transfer; a slot is reserved only for the attempt that accepted it.
NothingOutlives ==
    /\ \A n \in Server : LET o == w.svc[n].owner IN o # NoTask => Accepted(o) /\ w.attempt[o].node = n
    /\ \A t \in Task :
         /\ Terminal(w, t) => /\ \A n \in Server : ~Runs(w.svc[n], t)
                              /\ \A o \in w.store : o.task # t
                              /\ ~w.task[t].timer
         /\ ~Live(t) => /\ {w.attempt[t].decide, w.attempt[t].merge} = {NoTime}
                        /\ \A k \in Kind : w.attempt[t].delivery[k].step \notin {"local", "flying"}

\* The join is exact.  An accepted recovery that does not compute waits for
\* something that will happen, whichever dependency arrives last; one that
\* computes has the input it fetched, the state it relocated and the tail
\* merged into them.
JoinExact ==
    \A t \in Task :
        LET r == w.attempt[t] IN
        /\ r.stage = "RECOVERING" =>
             \/ r.merge # NoTime
             \/ \E k \in Kind : r.delivery[k].step \in {"local", "queued", "flying"}
        /\ r.started =>
             /\ w.deferred \/ r.path = "RECOMPUTE" => Received(w, t, "INPUT")
             /\ r.path \in {"MIGRATE_REDO", "MIGRATE_TAIL"} => Received(w, t, "STATE")
             /\ r.path \in {"TAIL", "MIGRATE_TAIL"} => r.committed

\* An accepted recovery ends at once with a satellite it still needs: its node
\* and its result's are there, and whatever is on its way has both its ends.
DependenciesAlive ==
    \A t \in Task : Accepted(t) =>
        /\ ~Down(w, w.attempt[t].node) /\ ~Down(w, ResultNode[t])
        /\ \A k \in Kind : w.attempt[t].delivery[k].step \in {"local", "queued", "flying"} =>
                            ~Down(w, From(w, t, k)) /\ ~Down(w, Into(w, t, k))

\* A slot is not kept from the node's own tasks beyond the deadline of the
\* task it is reserved for.
SlotBounded ==
    \A n \in Server : w.svc[n].owner # NoTask => w.now <= w.task[w.svc[n].owner].deadline

\* A batch of compute outages takes nothing from an accepted recovery, not
\* even from one on the node that goes down; only its completion, if due, counts.
OutageSpares ==
    [][\A t \in Task :
          Accepted(t) /\ batched' # batched /\ w.now' = w.now /\ w.dead' = w.dead
            => LET n == w.attempt[t].node IN
               \/ /\ w'.attempt[t] = w.attempt[t]
                  /\ w.svc[n].owner = t => w'.svc[n].owner = t
                  /\ Runs(w.svc[n], t) => w'.svc[n].current = w.svc[n].current /\ w'.svc[n].completion
               \/ CanCompleteIfDue(w.svc[n], t, w.now)]_vars

\* What every event preserves.
IInv == Sound(w, {}, {}) /\ faults \in 0..MaxFaults /\ batched \in BOOLEAN

=============================================================================
