------------------------- MODULE NetworkTransferEngine -------------------------
(***************************************************************************)
(* The transfer engine with its callers, the network and the topology.     *)
(* The callers (coordinator, recovery, replicas, checkpoints) start each   *)
(* transfer once, end any set of them at any time, and from the observer   *)
(* or the completion callback of one transfer cancel others.  The network  *)
(* delivers packets in any order and may lose MaxLoss of them; the         *)
(* topology changes its links at most MaxUpdates times.                    *)
(***************************************************************************)
EXTENDS NetworkTransferOps

VARIABLES
    eng,      \* the engine
    links,    \* active links, with the routes over them
    now,      \* instants of starts, numbered
    lost,     \* packets lost so far
    updates   \* route updates so far

vars == <<eng, links, now, lost, updates>>

Live(t) == eng.state[t] \notin Ended \cup {"UNKNOWN"}
Others(t) == SUBSET {u \in Transfer \ {t} : Live(u)}

Init ==
    /\ \E routing \in Routings : eng = NewEngine(routing)
    /\ links = UNION Topology  \* every link is active
    /\ now = 1 /\ lost = 0 /\ updates = 0

\* A task's transfer starts; a runtime transfer is registered just before.
Start(t) ==
    /\ eng.state[t] \in {"UNKNOWN", "REGISTERED"}
    /\ \E at \in {now, now + 1} :
         /\ now' = at
         /\ eng' = StartTransferNow(IF t \in Runtime THEN RegisterRuntimePlan(eng, t) ELSE eng,
                                    links, t, at)
    /\ UNCHANGED <<links, lost, updates>>

\* Events of the engine; an activation comes after the application is up.
Ready(t) ==
    /\ t \in eng.starting
    /\ eng' = RuntimeApplicationsReady(eng, links, t)
    /\ UNCHANGED <<links, now, lost, updates>>

Activate(t) ==
    /\ t \in eng.activation \ eng.starting
    /\ eng' = ActivateTransfer(eng, links, t)
    /\ UNCHANGED <<links, now, lost, updates>>

Send(t) ==
    /\ t \in eng.sendEvent
    /\ eng' = SendNextPacket(eng, links, t)
    /\ UNCHANGED <<links, now, lost, updates>>

\* HandleRead: packets of an ended transfer are stale.
Deliver(t) ==
    /\ eng.flying[t] > 0
    /\ LET e == [eng EXCEPT !.flying[t] = @ - 1]
           f == [e EXCEPT !.received[t] = @ + 1]
       IN IF e.state[t] \in Ended THEN eng' = e
          ELSE IF f.received[t] < PacketCount[t] THEN eng' = f
          ELSE \E also, after \in Others(t) :
                 eng' = HandleTransferComplete(f, links, t, also, after)
    /\ UNCHANGED <<links, now, lost, updates>>

Lose(t) ==
    /\ eng.flying[t] > 0 /\ lost < MaxLoss
    /\ eng' = [eng EXCEPT !.flying[t] = @ - 1]
    /\ lost' = lost + 1
    /\ UNCHANGED <<links, now, updates>>

\* A caller ends one transfer, whose observer may cancel others, or a batch.
\* The outcome is a label: here a single transfer fails and a batch is cancelled.
End ==
    /\ \/ \E t \in Transfer : \E also \in Others(t) :
            Live(t) /\ eng' = FinalizeTransfer(eng, links, t, "FAILED", also)
       \/ \E ts \in SUBSET {t \in Transfer : Live(t)} :
            ts # {} /\ eng' = FinalizeTransfers(eng, links, ts, "CANCELLED")
    /\ UNCHANGED <<links, now, lost, updates>>

\* The active links change; only a capacity-aware engine is told, and only it
\* survives that a sender has no route at all.
UpdateRoutes ==
    /\ updates < MaxUpdates
    /\ \E g \in Topology \ {links} :
         /\ CapacityAware(eng) \/ \A t \in Transfer : Reachable(g, t)
         /\ links' = g
         /\ eng' = IF CapacityAware(eng) THEN HandleTopologyRouteUpdate(eng, g) ELSE eng
    /\ updates' = updates + 1
    /\ UNCHANGED <<now, lost>>

\* What the simulator and the network do on their own.
Event(t) == Ready(t) \/ Activate(t) \/ Send(t) \/ Deliver(t)

Next ==
    \/ \E t \in Transfer : Start(t) \/ Event(t) \/ Lose(t)
    \/ End
    \/ UpdateRoutes

Spec == Init /\ [][Next]_vars

Due == \E t \in Transfer :
         t \in eng.starting \cup eng.activation \cup eng.sendEvent \/ eng.flying[t] > 0

\* The simulator runs every event, and the network delivers what it does not
\* lose: weak fairness of the events, spelled out because Due says when one is
\* enabled.  Each uses up a packet or an event, so that none is passed over.
Fairness == []<>(~Due) \/ []<><<\E t \in Transfer : Event(t)>>_vars

FairSpec == Spec /\ Fairness

-----------------------------------------------------------------------------

TypeOK == eng \in Engine /\ links \in Topology /\ lost \in 0..MaxLoss /\ updates \in 0..MaxUpdates

\* No sequence of legal calls, callbacks and route updates trips one of the
\* assertions of the engine, its senders, the flow registry or the ledger,
\* and the state they leave is well formed.
NeverAborts == TypeOK /\ eng.ok

\* The ledger holds, link by link, the rates of the active paths and no more
\* than the link has: what is admitted again, paused or ended in the callback
\* of another transfer is counted once.
LedgerExact ==
    \A h \in Hop :
        LET users == {t \in Transfer : h \in eng.path[t].hops} IN
        /\ eng.reserved[h] = SumFunctionOnSet([t \in Transfer |-> eng.path[t].rate], users)
        /\ users # {} => eng.reserved[h] <= Bandwidth[{h[1], h[2]}]

\* A sender sends only on a path that is reserved for it and that the current
\* routes have; whoever ended or waits holds neither capacity, nor a flow, nor
\* an event.
SendersHoldPaths ==
    \A t \in Transfer :
        /\ CapacityAware(eng) /\ t \in eng.sendEvent =>
             eng.state[t] = "ACTIVE" /\ eng.path[t] # NoPath
        /\ eng.path[t] # NoPath =>
             /\ eng.state[t] \in {"ACTIVE", "SENDER_FINISHED"}
             /\ IsActivePathValid(eng, links, t) /\ eng.assigned[t] = eng.path[t].hops
        /\ Waits(eng, t) => eng.path[t] = NoPath /\ eng.assigned[t] = {}
        /\ eng.state[t] \in Ended =>
             t \notin eng.active \cup eng.sendEvent \cup eng.activation \cup eng.paused

\* The queue holds exactly those that wait, each once, although admission runs
\* again inside route updates, callbacks and batches; an optional transfer
\* never waits for its first admission once its application is up.
QueueExact ==
    /\ \A t \in Transfer : Cardinality({i \in DOMAIN eng.pending : eng.pending[i] = t}) =
                             IF Waits(eng, t) THEN 1 ELSE 0
    /\ eng.waiting = {t \in Transfer : Waits(eng, t)}
    /\ \A t \in Optional : eng.state[t] = "WAITING_ADMISSION" => t \in eng.starting

\* Between events nobody waits while the routes offer a path with capacity
\* left: whatever frees capacity or changes routes admits again.
NoneWaitsInVain ==
    \A t \in Transfer : Waits(eng, t) /\ t \notin eng.starting => FindPath(eng, links, t) = NoPath

\* traffic/README.md:58-60: a transfer that has released its old path is in the
\* new route graph either ACTIVE or WAITING_ADMISSION.
ReadmittedOrWaiting ==
    \A t \in Transfer :
        CapacityAware(eng) /\ eng.sent[t] > 0 /\ ~HasFinishedSending(eng, t)
          /\ eng.state[t] \notin Ended => eng.state[t] \in {"ACTIVE", "WAITING_ADMISSION"}

\* Without losses and with routes for everyone, a transfer that started ends.
StartedEnds == \A t \in Transfer : (eng.state[t] \notin {"UNKNOWN", "REGISTERED"}) ~>
                                   (eng.state[t] \in Ended)

=============================================================================
