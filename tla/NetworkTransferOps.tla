-------------------------- MODULE NetworkTransferOps --------------------------
(***************************************************************************)
(* The transfer engine and what it owns: the senders, the receivers, the   *)
(* flow registry and the capacity ledger, with the path policy that admits *)
(* transfers (traffic/network-transfer-engine.cc, -application.cc,         *)
(* -receiver.cc; routing/state and routing/algorithm/capacity-aware-hrw).   *)
(* UDP packets are counted, not told apart, and never sent again.          *)
(*                                                                         *)
(* The engine is one value, because its operations call each other: what   *)
(* finalizes a transfer runs an observer, which may finalize others, and   *)
(* then admits those that wait.  An assertion that fails clears `ok'.      *)
(***************************************************************************)
EXTENDS Integers, FiniteSetsExt, SequencesExt, Ranks

CONSTANTS
    Sat,          \* satellites
    Topology,     \* sets of links (pairs of satellites) that may be active
    Bandwidth,    \* [links -> Nat], the data rate of a link
    Transfer,     \* transfer ids
    Source, Destination,  \* [Transfer -> Sat]
    PacketCount,  \* [Transfer -> Nat]
    Rank,         \* [Transfer -> [Sat -> Nat]], HRW rank of a next hop
    Runtime,      \* transfers registered while the simulation runs
    Optional,     \* runtime transfers that start at once or not at all
    Routings,     \* routing modes the simulation may be configured with
    MaxLoss,      \* bound on packets lost
    MaxUpdates    \* bound on route updates

ASSUME NetworkAssumption ==
    /\ IsFiniteSet(Sat) /\ UNION Topology \in Topology /\ Bandwidth \in [UNION Topology -> Nat]
    /\ IsFiniteSet(Transfer) /\ Transfer \subseteq Nat \ {0}
    /\ Optional \subseteq Runtime /\ Runtime \subseteq Transfer
    /\ Source \in [Transfer -> Sat] /\ Destination \in [Transfer -> Sat]
    /\ \A t \in Transfer : Source[t] # Destination[t]
    /\ PacketCount \in [Transfer -> Nat \ {0}] /\ Rank \in [Transfer -> [Sat -> Nat]]
    /\ Routings \subseteq {"HRW", "SIZE_AWARE", "CAPACITY_AWARE"}
    /\ MaxLoss \in Nat /\ MaxUpdates \in Nat

Hop == Sat \X Sat  \* a directed link: DirectedLinkKey
Ended == {"COMPLETED", "FAILED", "CANCELLED"}
State == {"UNKNOWN", "REGISTERED", "WAITING_ADMISSION", "ACTIVE", "PAUSED_ROUTE",
          "SENDER_FINISHED"} \cup Ended
CapacityAware(e) == e.routing = "CAPACITY_AWARE"
HasRegistry(e) == e.routing # "HRW"  \* m_flowRouteRegistry exists
NoPath == [hops |-> {}, rate |-> 0]

Engine ==
    [routing : Routings,
     state : [Transfer -> State],
     arrival : [Transfer -> Nat],      \* instants, numbered; 0 before the start
     path : [Transfer -> [hops : SUBSET Hop, rate : Nat]], \* m_activePaths
     reserved : [Hop -> Nat],          \* m_reservedRateBps
     pending : Seq(Transfer),          \* m_pendingCapacityTransfers
     waiting : SUBSET Transfer,        \* open m_capacityWaitStartTimesNs
     starting : SUBSET Transfer,       \* m_runtimeStarting
     optional : SUBSET Transfer,       \* m_optionalFirstAdmission
     activation : SUBSET Transfer,     \* pending m_activationEvents
     depth : Nat,                      \* m_finalizationBatchDepth
     sent : [Transfer -> Nat],         \* packets the sender handed over
     sendEvent : SUBSET Transfer,      \* pending m_sendEvent of the sender
     paused : SUBSET Transfer,         \* m_isPausedForRouteUpdate
     flying : [Transfer -> Nat],       \* packets in the network
     received : [Transfer -> Nat],
     active : SUBSET Transfer,         \* flows with senderActive
     assigned : [Transfer -> SUBSET Hop], \* m_assignments of the flow
     notified : SUBSET Transfer,       \* completion callbacks that ran
     ok : BOOLEAN]                     \* no assertion failed

NewEngine(routing) ==
    [routing |-> routing,
     state |-> [t \in Transfer |-> IF t \in Runtime THEN "UNKNOWN" ELSE "REGISTERED"],
     arrival |-> [t \in Transfer |-> 0], path |-> [t \in Transfer |-> NoPath],
     reserved |-> [h \in Hop |-> 0], pending |-> <<>>, waiting |-> {}, starting |-> {},
     optional |-> {}, activation |-> {}, depth |-> 0, sent |-> [t \in Transfer |-> 0],
     sendEvent |-> {}, paused |-> {}, flying |-> [t \in Transfer |-> 0],
     received |-> [t \in Transfer |-> 0], active |-> {},
     assigned |-> [t \in Transfer |-> {}], notified |-> {}, ok |-> TRUE]

Check(e, condition) == [e EXCEPT !.ok = @ /\ condition]
HasFinishedSending(e, t) == e.sent[t] = PacketCount[t]
Waits(e, t) == e.state[t] \in {"WAITING_ADMISSION", "PAUSED_ROUTE"}

-----------------------------------------------------------------------------
(* Routes: the next hops of all shortest paths *)

Adjacent(g, n) == {m \in Sat : {n, m} \in g}

\* Satellites within k links of d.
Within(g, d) ==
    LET within[k \in 0..Cardinality(Sat)] ==
          IF k = 0 THEN {d} ELSE within[k - 1] \cup UNION {Adjacent(g, m) : m \in within[k - 1]}
    IN within

\* A satellite with one link always has its neighbour for a next hop; when the
\* destination cannot be reached, no path comes of it and it is left out here.
Candidates ==
    [g \in Topology |-> [n \in Sat |-> [d \in Sat |->
        LET within == Within(g, d)
            near == {k \in 1..Cardinality(Sat) : n \in within[k] \ within[k - 1]}
        IN IF near = {} THEN {} ELSE Adjacent(g, n) \cap within[Min(near) - 1]]]]

Reachable(g, t) == Candidates[g][Source[t]][Destination[t]] # {}

\* Without admission a packet that has no route ends the program.
ASSUME RoutesAssumption ==
    Routings = {"CAPACITY_AWARE"} \/ \A t \in Transfer : Reachable(UNION Topology, t)

-----------------------------------------------------------------------------
(* Capacity: CapacityReservationState and CapacityAwareHrwPolicy *)

Residual(e, h) == Bandwidth[{h[1], h[2]}] - e.reserved[h]

\* The paths a satellite can extend: the widest, ties by the rank of the hop.
Widest(t, paths) ==
    CHOOSE m \in DOMAIN paths : \A o \in DOMAIN paths :
        \/ paths[m].rate > paths[o].rate
        \/ paths[m].rate = paths[o].rate /\ Rank[t][m] <= Rank[t][o]

Pick(t, paths) == IF DOMAIN paths = {} THEN NoPath ELSE paths[Widest(t, paths)]

\* The path over <<n, m>> and then along p, as wide as its narrowest link.
Extend(e, h, p, last) ==
    [hops |-> {h} \cup p.hops,
     rate |-> IF last THEN Residual(e, h) ELSE Min({Residual(e, h), p.rate})]

Usable(paths) == Restrict(paths, {m \in DOMAIN paths : paths[m].rate > 0})

\* The widest path in what the active paths leave, chosen suffix by suffix;
\* rate 0 when there is none.
FindPath(e, g, t) ==
    LET best[n \in Sat] ==
          IF n = Destination[t] THEN NoPath
          ELSE Pick(t, Usable([m \in Candidates[g][n][Destination[t]] |->
                                 Extend(e, <<n, m>>, best[m], m = Destination[t])]))
    IN best[Source[t]]

Reserve(e, t, p) ==
    [Check(e, /\ e.path[t] = NoPath /\ p.rate > 0
              /\ \A h \in p.hops : Residual(e, h) >= p.rate)
     EXCEPT !.path[t] = p,
            !.reserved = [h \in Hop |-> @[h] + (IF h \in p.hops THEN p.rate ELSE 0)]]

\* Mutant: the rate of the first hop only is given back.
ReleaseFirst(e, t) ==
    LET p == e.path[t] IN
    [Check(e, p # NoPath)
     EXCEPT !.path[t] = NoPath,
            !.reserved = [h \in Hop |-> @[h] - (IF h \in p.hops /\ h[1] = Source[t]
                                                THEN p.rate ELSE 0)]]

Release(e, t) ==
    LET p == e.path[t] IN
    [Check(e, p # NoPath /\ \A h \in p.hops : e.reserved[h] >= p.rate)
     EXCEPT !.path[t] = NoPath,
            !.reserved = [h \in Hop |-> @[h] - (IF h \in p.hops THEN p.rate ELSE 0)]]

IsActivePathValid(e, g, t) ==
    \A h \in e.path[t].hops :
        /\ h[2] \in Candidates[g][h[1]][Destination[t]]
        /\ e.reserved[h] <= Bandwidth[{h[1], h[2]}]

-----------------------------------------------------------------------------
(* The sender, and the flow registry *)

BeginSending(e, t) ==
    [Check(e, t \notin e.active /\ e.assigned[t] = {}) EXCEPT !.active = @ \cup {t}]

FinalizeFlow(e, t) == [e EXCEPT !.active = @ \ {t}, !.assigned[t] = {}]

HandleSenderComplete(e, t) ==
    LET f == [Check(e, e.state[t] = "ACTIVE") EXCEPT !.state[t] = "SENDER_FINISHED"] IN
    IF HasRegistry(e) /\ ~CapacityAware(e) THEN FinalizeFlow(Check(f, t \in f.active), t) ELSE f

\* Without a route the socket refuses the packet, which is an assertion.
MaySend(e, g, t) ==
    Reachable(g, t) /\ e.state[t] \notin Ended /\ t \notin e.paused /\ ~HasFinishedSending(e, t)

Sent(e, t) == [e EXCEPT !.sent[t] = @ + 1, !.flying[t] = @ + 1]

SendNextPacket(e, g, t) ==
    LET f == Sent(Check(e, MaySend(e, g, t)), t)
    IN IF HasFinishedSending(f, t)
       THEN HandleSenderComplete([f EXCEPT !.sendEvent = @ \ {t}], t)
       ELSE [f EXCEPT !.sendEvent = @ \cup {t}]

StartSender(e, g, t) ==
    SendNextPacket(Check(e, e.sent[t] = 0 /\ t \notin e.starting), g, t)

\* Mutant: the pending event of the sender survives the pause.
PauseKeepingEvent(e, t) ==
    [Check(e, e.sent[t] > 0 /\ ~HasFinishedSending(e, t) /\ t \notin e.paused)
     EXCEPT !.paused = @ \cup {t}]

PauseForRouteUpdate(e, t) ==
    [Check(e, e.sent[t] > 0 /\ ~HasFinishedSending(e, t) /\ t \notin e.paused)
     EXCEPT !.paused = @ \cup {t}, !.sendEvent = @ \ {t}]

ResumeAfterRouteUpdate(e, t) ==
    [Check(e, t \in e.paused) EXCEPT !.paused = @ \ {t}, !.sendEvent = @ \cup {t}]

-----------------------------------------------------------------------------
(* Admission *)

MayBeAdmitted(e, t) ==
    /\ Waits(e, t) /\ e.path[t] = NoPath
    /\ e.sent[t] = 0 \/ HasFinishedSending(e, t) \/ t \in e.paused

\* AssignPath of the flow registry.
Assign(e, t, hops) ==
    [Check(e, t \in e.active /\ e.assigned[t] = {}) EXCEPT !.assigned[t] = hops]

EndWait(e, t) ==
    [Check(e, t \in e.waiting) EXCEPT !.waiting = @ \ {t}, !.state[t] = "ACTIVE"]

\* TryActivateCapacityAwareTransfer, with the path that was found.
Admit(e, g, t, p) ==
    LET first == e.sent[t] = 0
        legal == Check(e, MayBeAdmitted(e, t))
        begun == IF first THEN BeginSending(legal, t) ELSE legal
        admitted == EndWait(Reserve(Assign(begun, t, p.hops), t, p), t)
        sending == IF first THEN StartSender(admitted, g, t)
                   ELSE IF HasFinishedSending(e, t) THEN admitted
                   ELSE ResumeAfterRouteUpdate(admitted, t)
    IN IF t \in e.starting THEN e
       ELSE IF p = NoPath THEN legal
       ELSE [sending EXCEPT !.optional = @ \ {t}]

TryActivate(e, g, t) == Admit(e, g, t, FindPath(e, g, t))

Try(e, g, t) == IF e.state[t] \in Ended THEN e ELSE TryActivate(e, g, t)

TryAll(e, g) == FoldLeft(LAMBDA d, t : Try(d, g, t), e, e.pending)

\* TryActivatePendingCapacityAwareTransfers: in order, keeping those that wait.
TryActivatePending(e, g) ==
    LET f == TryAll(e, g)
    IN [f EXCEPT !.pending = Keep(@, {t \in Transfer : Waits(f, t)})]

Drain(e, g) ==
    IF CapacityAware(e) /\ e.depth = 0 /\ e.pending # <<>> THEN TryActivatePending(e, g) ELSE e

-----------------------------------------------------------------------------
(* Ending transfers *)

\* The events of a transfer are cancelled.
Withdraw(e, t) ==
    [e EXCEPT !.activation = @ \ {t}, !.sendEvent = @ \ {t}, !.paused = @ \ {t},
              !.pending = Keep(@, Transfer \ {t}), !.waiting = @ \ {t}]

\* It completes with its last packet, and only then.
MayEnd(e, t, outcome) == outcome = "COMPLETED" <=> e.received[t] = PacketCount[t]

\* FinalizeTransferIfActive up to its observer.
Close(e, t, outcome) ==
    LET f == Withdraw(e, t)
        freed == IF CapacityAware(e) /\ f.path[t] # NoPath THEN Release(f, t) ELSE f
        ended == IF HasRegistry(e) THEN FinalizeFlow(freed, t) ELSE freed
    IN [Check(ended, MayEnd(e, t, outcome))
        EXCEPT !.state[t] = outcome, !.optional = @ \ {t}]

CloseNext(e, g, t, outcome) ==
    IF e.state[t] \in Ended THEN e ELSE Drain(Close(e, t, outcome), g)

CloseAll(e, g, ts, outcome) ==
    FoldLeft(LAMBDA f, t : CloseNext(f, g, t, outcome), e, Ranked(ts, <))

\* FinalizeTransfersIfActive; the observers of these transfers do nothing more.
FinalizeTransfers(e, g, ts, outcome) ==
    LET all == CloseAll([e EXCEPT !.depth = @ + 1], g, ts, outcome)
    IN Drain([all EXCEPT !.depth = @ - 1], g)

\* Mutant: the transfer that ends wakes nobody.
FinalizeQuietly(e, g, t, outcome, also) ==
    IF e.state[t] \in Ended THEN e
    ELSE LET f == Close(e, t, outcome) IN
         IF also = {} THEN f ELSE FinalizeTransfers(f, g, also, "CANCELLED")

\* FinalizeTransferIfActive; its observer cancels the transfers in `also'.
FinalizeTransfer(e, g, t, outcome, also) ==
    IF e.state[t] \in Ended THEN e
    ELSE LET f == Close(e, t, outcome) IN
         Drain(IF also = {} THEN f ELSE FinalizeTransfers(f, g, also, "CANCELLED"), g)

\* HandleTransferComplete: the observer cancels `also', the callback `after'.
HandleTransferComplete(e, g, t, also, after) ==
    LET f == FinalizeTransfer(Check(e, e.state[t] \notin Ended \cup
                                       {"UNKNOWN", "REGISTERED", "WAITING_ADMISSION"}),
                              g, t, "COMPLETED", also)
    IN FinalizeTransfers([f EXCEPT !.notified = @ \cup {t}], g, after, "CANCELLED")

-----------------------------------------------------------------------------
(* Registering and starting *)

RegisterRuntimePlan(e, t) ==
    [Check(e, e.state[t] = "UNKNOWN")
     EXCEPT !.state[t] = "REGISTERED", !.starting = @ \cup {t},
            !.optional = @ \cup ({t} \cap Optional)]

StartTransferNow(e, g, t, now) ==
    LET f == [Check(e, e.state[t] = "REGISTERED") EXCEPT !.arrival[t] = now] IN
    IF CapacityAware(e)
    THEN TryActivatePending([f EXCEPT !.state[t] = "WAITING_ADMISSION",
                                      !.waiting = @ \cup {t},
                                      !.pending = Append(@, t)], g)
    ELSE [f EXCEPT !.state[t] = "ACTIVE", !.activation = @ \cup {t}]

ActivateTransfer(e, g, t) ==
    LET f == [e EXCEPT !.activation = @ \ {t}]
        legal == Check(f, f.state[t] = "ACTIVE" /\ f.sent[t] = 0)
        begun == IF HasRegistry(e) THEN BeginSending(legal, t) ELSE legal
    IN IF f.state[t] \in Ended THEN f
       ELSE [StartSender(begun, g, t) EXCEPT !.optional = @ \ {t}]

\* Mutant: an application that has come up leaves the queue alone.
RuntimeApplicationsReadyQuietly(e, g, t) ==
    LET f == [e EXCEPT !.starting = @ \ {t}] IN
    IF t \in f.optional /\ f.state[t] = "WAITING_ADMISSION"
    THEN FinalizeTransfer(f, g, t, "CANCELLED", {}) ELSE f

RuntimeApplicationsReady(e, g, t) ==
    LET f == Drain([e EXCEPT !.starting = @ \ {t}], g) IN
    IF t \in f.optional /\ f.state[t] = "WAITING_ADMISSION"
    THEN FinalizeTransfer(f, g, t, "CANCELLED", {}) ELSE f

-----------------------------------------------------------------------------
(* Route updates *)

\* Active paths that the new routes do not have, in order of arrival, then id.
Invalidated(e, g) ==
    Ranked({t \in Transfer : /\ e.state[t] \in {"ACTIVE", "SENDER_FINISHED"}
                             /\ e.path[t] # NoPath /\ ~IsActivePathValid(e, g, t)},
           LAMBDA t, u : \/ e.arrival[t] < e.arrival[u]
                         \/ e.arrival[t] = e.arrival[u] /\ t < u)

\* A sender that is not done pauses and waits again.
Invalidate(e, t) ==
    LET paused == [PauseForRouteUpdate(Check(e, t \notin e.waiting), t)
                   EXCEPT !.state[t] = "PAUSED_ROUTE", !.waiting = @ \cup {t}]
        f == IF HasFinishedSending(e, t) THEN e ELSE paused
    IN Release([Check(f, t \in f.active) EXCEPT !.assigned[t] = {}], t)

InvalidateAll(e, ts) == FoldLeft(Invalidate, e, ts)

\* Mutant: those that lose their path are queued, those that waited forgotten.
HandleTopologyRouteUpdateForgetting(e, g) ==
    LET invalid == Invalidated(e, g)
        again == Keep(invalid, {t \in Transfer : ~HasFinishedSending(e, t)})
    IN IF invalid = <<>> THEN Drain(e, g)
       ELSE TryActivatePending([InvalidateAll(e, invalid) EXCEPT !.pending = again], g)

HandleTopologyRouteUpdate(e, g) ==
    LET invalid == Invalidated(e, g)
        again == Keep(invalid, {t \in Transfer : ~HasFinishedSending(e, t)})
        others == Keep(e.pending, Transfer \ ToSet(invalid))
    IN IF invalid = <<>> THEN Drain(e, g)
       ELSE TryActivatePending([InvalidateAll(e, invalid)
                                EXCEPT !.pending = again \o others], g)

=============================================================================
