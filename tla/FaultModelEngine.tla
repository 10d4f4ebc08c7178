-------------------------- MODULE FaultModelEngine --------------------------
(***************************************************************************)
(* Generated faults: FaultModelEngine draws compute faults on a grid of    *)
(* check instants and loses satellites at instants drawn before the run    *)
(* (fault/runtime/fault-model-engine.cc), and hands both to the            *)
(* FaultController, whose recoveries come due in between.                  *)
(*                                                                         *)
(* The probabilities are left out: any subset of the eligible nodes may    *)
(* fail, for any length in `Outage'.  The engine's events are scheduled    *)
(* before the run, so they precede the controller's in an instant.         *)
(***************************************************************************)
EXTENDS FaultController

CONSTANTS CheckInterval,  \* m_checkIntervalNs
          Outage          \* lengths a compute fault may have

ASSUME EngineAssumption ==
    CheckInterval \in Nat \ {0} /\ Outage \subseteq Nat \ {0}

VARIABLES now,
          stepped,  \* ProcessTime has run in this instant
          debris,   \* m_f3EventsByTime: when each satellite is lost
          ctl,      \* m_faultController
          outage,   \* activeComputeFault of each node
          nextId,   \* m_nextFaultId
          trace     \* m_trace.faults

vars == <<now, stepped, debris, ctl, outage, nextId, trace>>

NoTime == -1
NoOutage == [id |-> NoFault]

\* Every satellite is lost at most once, in the simulation's time.
Init ==
    /\ now = 0 /\ stepped = FALSE
    /\ debris \in [Sat -> (Time \ {Duration}) \cup {NoTime}]
    /\ ctl = NewController
    /\ outage = [n \in Server |-> NoOutage]
    /\ nextId = 1 /\ trace = <<>>

-----------------------------------------------------------------------------

Lost == {n \in Sat : debris[n] = now}
OnGrid == now > 0 /\ now % CheckInterval = 0

\* ProcessTime is scheduled for this instant.
StepDue == ~stepped /\ now < Duration /\ (OnGrid \/ Lost # {})

\* Nodes for which compute faults are drawn: a satellite lost in the same
\* instant takes precedence.
Eligible ==
    IF ~OnGrid THEN {} ELSE {n \in Server \ Lost : ctl.down[n] = "none"}

\* Outages that are over in this instant are forgotten first.
Outages ==
    [n \in Server |-> IF outage[n] # NoOutage /\ RecoveryTime(outage[n]) <= now
                      THEN NoOutage ELSE outage[n]]

Sorted(nodes) == Ranked(nodes, <)

\* Faults with consecutive ids, in the order of the nodes.
ComputeFaults(failing, length) ==
    LET order == Sorted(failing) IN
    [i \in DOMAIN order |->
       [id |-> nextId + i - 1, node |-> order[i], kind |-> "compute",
        start |-> now, duration |-> length[order[i]]]]

SatelliteFaults(first) ==
    LET order == Sorted(Lost) IN
    [i \in DOMAIN order |->
       [id |-> first + i - 1, node |-> order[i], kind |-> "satellite",
        start |-> now, duration |-> Forever]]

\* ShortenActiveComputeFault for the satellites that are lost.
ToShorten == {n \in Lost \cap Server : Outages[n] # NoOutage}

ShortenAll ==
    FoldLeft(LAMBDA c, n : ShortenGeneratedComputeFault(c, Outages[n], now),
             ctl, Sorted(ToShorten))

ProcessTime ==
    /\ StepDue
    /\ \E failing \in SUBSET Eligible : \E length \in [failing -> Outage] :
         LET computed == ComputeFaults(failing, length)
             started == computed \o SatelliteFaults(nextId + Len(computed))
             cutShort == {Outages[n].id : n \in ToShorten}
         IN /\ ctl' = IF started = <<>> THEN ctl
                      ELSE SubmitGeneratedBatch(ShortenAll, started, now)
            /\ trace' = [i \in DOMAIN trace |->
                           IF trace[i].id \in cutShort THEN Shortened(trace[i], now)
                           ELSE trace[i]] \o started
            /\ outage' = [n \in Server |->
                            IF n \in failing
                            THEN computed[CHOOSE i \in DOMAIN computed : computed[i].node = n]
                            ELSE IF n \in ToShorten THEN NoOutage ELSE Outages[n]]
            /\ nextId' = nextId + Len(started)
    /\ stepped' = TRUE
    /\ UNCHANGED <<now, debris>>

\* The batch of this instant runs on its own event.
Batch ==
    /\ ~StepDue /\ now \in ctl.pending
    /\ ctl' = ProcessBatch(ctl, now)
    /\ UNCHANGED <<now, stepped, debris, outage, nextId, trace>>

\* All events of this instant have run; nothing runs at the end.
InstantOver == now < Duration /\ ~StepDue /\ now \notin ctl.pending

Tick ==
    /\ InstantOver
    /\ now' = now + 1 /\ stepped' = FALSE
    /\ UNCHANGED <<debris, ctl, outage, nextId, trace>>

Next == ~ctl.failed /\ (ProcessTime \/ Batch \/ Tick)

Spec == Init /\ [][Next]_vars

-----------------------------------------------------------------------------
(* ConfigureValidationReplay: the trace so far, given to a new controller *)

Replay ==
    LET after[t \in Time] ==
          LET c == IF t = 0 THEN NewController ELSE after[t - 1]
              starts == SelectSeq(trace, LAMBDA f : f.start = t)
          IN IF starts # <<>> THEN SubmitGeneratedBatch(c, starts, t)
             ELSE IF t \in c.pending THEN ProcessBatch(c, t) ELSE c
    IN after[now]

-----------------------------------------------------------------------------
(* Properties *)

TypeOK ==
    /\ now \in Time /\ stepped \in BOOLEAN
    /\ ctl \in Controller
    /\ outage \in [Server -> Fault \cup {NoOutage}]
    /\ nextId \in Nat \ {0} /\ trace \in Seq(Fault)

\* The controller never throws or aborts: no recovery without its fault, no
\* overlapping faults, no instant processed twice, no recovery that cannot be
\* found when its fault is cut short; and every batch is one TaskCoordinator may
\* be given.
NeverRejected == ~ctl.failed /\ ctl.admitted

\* The task coordinator, the topology and the engine know the faults that the
\* controller has, at the end of every instant.
ViewsAgree ==
    InstantOver =>
        /\ ctl.tasks = ctl.down
        /\ ctl.cut = {n \in Sat : ctl.down[n] = "satellite"}
        /\ \A n \in Server :
             ctl.down[n] = "compute" <=> outage[n] # NoOutage /\ RecoveryTime(outage[n]) > now

\* Whatever was cut short or merged, each active compute fault has one recovery
\* ahead, in a batch with a pending event, and nothing else is ahead.
RecoveriesScheduled ==
    \A t \in Time : t > now =>
        LET ahead == ctl.batches[t] IN
        /\ t \in ctl.pending <=> ahead # <<>>
        /\ {ahead[i] : i \in DOMAIN ahead} =
             {Recovery(f) : f \in {trace[i] : i \in DOMAIN trace} \cap
                {outage[n] : n \in {m \in Server : ctl.active[m] = outage[m].id
                                                 /\ outage[m] # NoOutage
                                                 /\ RecoveryTime(outage[m]) = t /\ t < Duration}}}
        /\ \A i, j \in DOMAIN ahead : i # j => ahead[i] # ahead[j]

\* The inductive invariant.  Instants are processed once and in order; a batch
\* is pending as long as it is ahead and not empty.
Open(t) == t > now \/ (t = now /\ now \notin ctl.processed)

ClockInv ==
    /\ ctl.processed \subseteq 0..now /\ (now \in ctl.processed => ~StepDue)
    /\ \A t \in Time : t \in ctl.pending <=> Open(t) /\ ctl.batches[t] # <<>>

\* The trace numbers the faults, and the log has no later ones.
TraceInv ==
    /\ nextId = Len(trace) + 1 /\ \A i \in DOMAIN trace : trace[i].id = i
    /\ \A k \in DOMAIN ctl.log : ctl.log[k].event.fault.id < nextId

\* The active fault of a node is in the trace; one that recovers is scheduled,
\* was logged, and the engine knows of it until then.
NodeInv(n) ==
    LET f == trace[ctl.active[n]] IN
    /\ ctl.active[n] = NoFault <=> ctl.down[n] = "none"
    /\ ctl.down[n] # "none" =>
         ctl.active[n] \in DOMAIN trace /\ f.node = n /\ f.kind = ctl.down[n]
    /\ ctl.down[n] = "compute" =>
         /\ n \in Server /\ f.start <= now /\ (f.start = now => stepped)
         /\ f.duration > 0 /\ RecoveryTime(f) >= now
         /\ RecoveryTime(f) < Duration =>
              /\ RecoveryTime(f) \notin ctl.processed
              /\ Recovery(f) \in Range(ctl.batches[RecoveryTime(f)])
         /\ RecoveryTime(f) > now => outage[n] = f
         /\ \E k \in DOMAIN ctl.log : ctl.log[k].event = Start(f)
    /\ ctl.down[n] = "satellite" <=>
         debris[n] # NoTime /\ (debris[n] < now \/ (debris[n] = now /\ stepped))

OutageInv(n) ==
    outage[n] # NoOutage =>
        /\ outage[n] \in Range(trace) /\ outage[n].node = n /\ outage[n].kind = "compute"
        /\ RecoveryTime(outage[n]) > now =>
             ctl.down[n] = "compute" /\ ctl.active[n] = outage[n].id

\* What is ahead in a batch are recoveries of active faults, each once.
BatchInv(t) ==
    LET batch == ctl.batches[t] IN
    /\ \A i, j \in DOMAIN batch : i # j => batch[i] # batch[j]
    /\ \A e \in Range(batch) :
         /\ e.type = "RECOVERY" /\ t < Duration /\ RecoveryTime(e.fault) = t
         /\ ctl.down[e.fault.node] = "compute" /\ e.fault = trace[ctl.active[e.fault.node]]

IInv ==
    /\ TypeOK /\ NeverRejected
    /\ debris \in [Sat -> (Time \ {Duration}) \cup {NoTime}]
    /\ ctl.tasks = ctl.down /\ ctl.cut = {n \in Sat : ctl.down[n] = "satellite"}
    /\ ClockInv /\ TraceInv
    /\ \A n \in Sat : NodeInv(n)
    /\ \A n \in Server : OutageInv(n)
    /\ \A t \in Time : Open(t) => BatchInv(t)

\* A replay of the trace goes through the same batches to the same state, and
\* logs the same events (fault/README.md: the same sequence of faults).
ReplayAgrees ==
    LET Ahead(c) == [c EXCEPT !.batches = [t \in Time |-> IF t <= now THEN <<>> ELSE @[t]]]
    IN InstantOver => Ahead(Replay) = Ahead(ctl)
=============================================================================
