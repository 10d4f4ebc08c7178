---------------------------- MODULE ReplicaManager ----------------------------
(***************************************************************************)
(* 1+1 execution over the compute services of a few satellites: the events *)
(* that reach the replica manager.  Events of one instant are taken in any *)
(* order; the program's order by event UID is one of them.  The policy may *)
(* pick any node for a replica, or none.                                   *)
(***************************************************************************)
EXTENDS ReplicaOps

CONSTANTS LastInput, \* bound: inputs have arrived by then
          MaxFaults  \* bound: faults that start in one behaviour

ASSUME NodeAssumption ==
    /\ Server \subseteq Sat /\ NoNode \notin Sat
    /\ \A t \in Task : /\ HostNode[t] \in Server /\ SourceNode[t] \in Sat /\ ResultNode[t] \in Sat
                       /\ HostNode[t] \notin {SourceNode[t], ResultNode[t]}
ASSUME WorkAssumption == \A t \in Task : WorkOf[t] \in Work /\ Budget[t] \in Time
ASSUME BoundAssumption == StopTime \in Nat /\ MaxFaults \in Nat

VARIABLES w,       \* the program
          faults,  \* faults started so far
          batched  \* this instant's fault batch has run

vars == <<w, faults, batched>>

Init ==
    /\ w = [now |-> 0, ok |-> TRUE, ended |-> FALSE,
            svc |-> [n \in Server |-> [NewService EXCEPT !.running = TRUE]], dead |-> {},
            task |-> [t \in Task |-> [state |-> "INPUT_TRANSFERRING", deadline |-> NoTime,
                                      timer |-> FALSE]],
            pair |-> [t \in Task |-> NoPair],
            assigned |-> [t \in Task |-> NoNode], recovering |-> [t \in Task |-> NoNode]]
    /\ faults = 0 /\ batched = FALSE

-----------------------------------------------------------------------------

\* The policy's answers for the tasks that may start in this event.
Picks ==
    LET queued == {t \in Task : w.task[t].state = "QUEUED"} IN
    {[t \in Task |-> IF t \in queued THEN p[t] ELSE NoNode] : p \in [queued -> Server \cup {NoNode}]}

InputArrives(t) ==
    /\ w.task[t].state = "INPUT_TRANSFERRING"
    /\ w' = [w EXCEPT !.svc[HostNode[t]] = SubmitTask(@, t, WorkOf[t], w.now),
                      !.task[t].state = "QUEUED"]

Dispatch(n) ==
    /\ w.svc[n].dispatch
    /\ \E pick \in Picks : w' = Dispatched([w EXCEPT !.svc[n] = FireDispatch(@, w.now, 1)], n, pick)

Completes(n) ==
    /\ w.svc[n].completion /\ CompletionDue(w.svc[n], w.now)
    /\ \E pick \in Picks : w' = Complete(w, n, FALSE, pick)

DeadlinePasses(t) ==
    /\ w.task[t].timer /\ w.now = w.task[t].deadline
    /\ \E pick \in Picks : w' = Deadline([w EXCEPT !.task[t].timer = FALSE], t, pick)

At(t, k, step) == w.pair[t].flow[k].step = step /\ w.pair[t].flow[k].due = w.now

\* Nothing is delivered within a satellite that has been lost.
LocalDelivery(t, k) ==
    /\ At(t, k, "local")
    /\ \E pick \in Picks :
         w' = IF Wanted(w, t, k) /\ w.pair[t].node \notin w.dead THEN Receive(w, t, k, pick)
              ELSE [w EXCEPT !.pair[t].flow[k] = Absent]

FlushRequest(t, k) ==
    /\ At(t, k, "queued")
    /\ \E registers \in BOOLEAN : w' = Flush(w, t, k, registers)

\* A transfer that nobody ends completes, at any time or never.
TransferTerminal(t, k) ==
    /\ w.pair[t].flow[k].step = "flying"
    /\ \E pick \in Picks : w' = Receive(w, t, k, pick)

Event(t) ==
    \/ InputArrives(t) \/ DeadlinePasses(t)
    \/ \E k \in Flow : LocalDelivery(t, k) \/ FlushRequest(t, k) \/ TransferTerminal(t, k)

\* Satellites are lost for good; a compute outage ends at any later instant.
FaultBatch ==
    /\ ~batched
    /\ \E recovered \in SUBSET {n \in Server : ~w.svc[n].available /\ n \notin w.dead} :
       \E size \in 0..(MaxFaults - faults) :
       \E nodes \in {q \in [1..size -> Sat] : IsInjective(q)} :
       \E kinds \in [1..size -> {"compute", "satellite"}] :
       \E pick \in Picks :
         /\ recovered # {} \/ size > 0
         /\ \A i \in 1..size :
              /\ nodes[i] \notin w.dead
              /\ kinds[i] = "compute" => nodes[i] \in Server
              /\ nodes[i] \in Server => w.svc[nodes[i]].available \/ nodes[i] \in recovered
         /\ w' = ApplyFaultBatch(w, recovered,
                                 [i \in 1..size |-> [node |-> nodes[i], kind |-> kinds[i]]], pick)
         /\ faults' = faults + size
    /\ batched' = TRUE

\* Nothing of this instant is left to do.
Quiet ==
    /\ \A n \in Server : ~w.svc[n].dispatch /\ ~(w.svc[n].completion /\ CompletionDue(w.svc[n], w.now))
    /\ \A t \in Task :
         /\ ~(w.task[t].timer /\ w.task[t].deadline = w.now)
         /\ \A k \in Flow : w.pair[t].flow[k].due # w.now
         /\ w.now >= LastInput => w.task[t].state # "INPUT_TRANSFERRING"

Tick ==
    /\ Quiet /\ w.now < StopTime
    /\ w' = [w EXCEPT !.now = @ + 1]
    /\ batched' = FALSE /\ UNCHANGED faults

\* Simulator::Stop comes first in its instant; the program finalizes then.
FinalizeSimulation ==
    /\ w.now = StopTime
    /\ w' = Finalize(w)
    /\ UNCHANGED <<faults, batched>>

Next ==
    \/ /\ ~w.ended /\ w.now < StopTime
       /\ \/ (\E t \in Task : Event(t)) /\ UNCHANGED <<faults, batched>>
          \/ (\E n \in Server : Dispatch(n) \/ Completes(n)) /\ UNCHANGED <<faults, batched>>
          \/ FaultBatch
          \/ Tick
    \/ ~w.ended /\ FinalizeSimulation

Spec == Init /\ [][Next]_vars

-----------------------------------------------------------------------------

TypeOK == w \in World /\ faults \in 0..MaxFaults /\ batched \in BOOLEAN

\* No order of two results, a deadline, faults and cancellations trips a check
\* of the manager, the coordinator or the load ledger, and the ledger is empty
\* when the simulation ends.
NeverAborts == TypeOK /\ w.ok

\* An attempt that lost, failed or was never admitted holds nothing: no slot,
\* no run, no transfer, no place in the load ledger; the ledger counts exactly
\* the replicas that may still win and those that compute alone; and a task is
\* completed by one attempt.
LosersHoldNothing ==
    \A t \in Task :
        LET p == w.pair[t] IN
        /\ w.assigned[t] = IF Valid(w, t, 1) THEN p.node ELSE NoNode
        /\ w.recovering[t] = IF p.immune /\ p.stage[1] \in {"INPUT", "READY", "RUNNING"}
                             THEN p.node ELSE NoNode
        /\ \A n \in Server : w.svc[n].owner = t => n = p.node /\ Valid(w, t, 1)
        /\ \A g \in Generation : p.stage[g] # "ABSENT" =>
             /\ Runs(w.svc[NodeOf(w, t, g)], t) <=> p.stage[g] = "RUNNING"
             /\ ~Valid(w, t, g) => \A k \in FlowsOf(g) : p.flow[k].step # "flying"
        /\ Terminal(w, t) => ~w.task[t].timer /\ ~p.live
        /\ Cardinality({g \in Generation : p.stage[g] = "COMPLETED"}) =
             IF w.task[t].state = "COMPLETED" THEN 1 ELSE 0

\* After every batch, and after the outages in between, a replica goes on: with
\* its input it has started unless its node is down, and once it is alone on a
\* node that is up no outage can stop it any more.
TakeoverGranted ==
    \A t \in Task :
        LET p == w.pair[t] IN
        p.live /\ p.stage[1] \in {"INPUT", "READY", "RUNNING"} =>
            /\ p.stage[1] = "READY" => ~w.svc[p.node].available /\ ~p.immune
            /\ ~Valid(w, t, 0) /\ w.svc[p.node].available => p.immune
            /\ p.immune => ~Valid(w, t, 0) /\ w.svc[p.node].immune

\* A satellite the attempt needs is lost, the node it runs on goes down, its
\* deadline passes before it has computed, or its transfer is refused.
EndedBy(t, g) ==
    LET p == w.pair[t]
        n == NodeOf(w, t, g)
    IN \/ {n, ResultNode[t]} \cap w'.dead # {}
       \/ g = 1 /\ p.stage[1] = "INPUT" /\ SourceNode[t] \in w'.dead
       \/ p.stage[g] = "RUNNING" /\ w.svc[n].available /\ ~w'.svc[n].available /\ ~(g = 1 /\ p.immune)
       \/ p.stage[g] # "RESULT" /\ w.now >= w.task[t].deadline
       \/ g = 1 /\ \E k \in FlowsOf(1) : k = p.stage[1] /\ At(t, k, "queued")

\* A task with a replica fails before the end of the simulation only when each
\* attempt that could still have won has ended by a cause of its own.
FailsWithLast ==
    [][\A t \in Task :
          w.pair[t].live /\ w'.task[t].state = "FAILED" /\ ~w'.ended
            => \A g \in Generation : Valid(w, t, g) => EndedBy(t, g)]_vars

=============================================================================
