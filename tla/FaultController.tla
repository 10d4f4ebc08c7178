--------------------------- MODULE FaultController ---------------------------
(***************************************************************************)
(* FaultController and its FaultState as a value, and its operations as    *)
(* operators (fault/runtime/fault-controller.cc, fault-state.cc).  Faults  *)
(* that start are submitted by their generator and run at once together    *)
(* with the recoveries due in the same instant; recoveries are scheduled   *)
(* when their fault starts, and moved when the fault is cut short.         *)
(*                                                                         *)
(* Whatever throws or aborts sets `failed': the simulation ends there.     *)
(***************************************************************************)
EXTENDS Integers, FiniteSetsExt, SequencesExt, FaultBatches, Ranks

CONSTANTS Duration  \* m_simulationDurationNs

ASSUME FaultAssumption ==
    Server \subseteq Sat /\ Sat \subseteq Nat \ {0} /\ IsFiniteSet(Sat)
ASSUME DurationAssumption == Duration \in Nat \ {0}

Time == 0..Duration
Forever == 0  \* std::nullopt of durationNs
NoFault == 0  \* no active fault id

Fault == [id : Nat \ {0}, node : Sat, kind : FaultKind \ {"none"},
          start : Time, duration : Nat]

RecoveryTime(f) == f.start + f.duration  \* of a fault that recovers

Event == [type : {"RECOVERY", "START"}, fault : Fault]
Recovery(f) == [type |-> "RECOVERY", fault |-> f]
Start(f) == [type |-> "START", fault |-> f]

Controller ==
    [active : [Sat -> Nat],         \* m_activeFaultByNode and m_activeFaultIds
     down : [Sat -> FaultKind],     \* m_nodes: what is unavailable
     batches : [Time -> Seq(Event)],\* m_batches
     pending : SUBSET Time,         \* pending events of m_batchEvents
     processed : SUBSET Time,       \* m_processedBatchTimes
     log : Seq([at : Time, event : Event, down : FaultKind]), \* m_events
     tasks : [Sat -> FaultKind],    \* faults as ApplyFaultBatch leaves them
     cut : SUBSET Sat,              \* the topology's fault overlay
     admitted : BOOLEAN,            \* every batch so far was Admissible
     failed : BOOLEAN]

NewController ==
    [active |-> [n \in Sat |-> NoFault], down |-> [n \in Sat |-> "none"],
     batches |-> [t \in Time |-> <<>>], pending |-> {}, processed |-> {},
     log |-> <<>>, tasks |-> [n \in Sat |-> "none"], cut |-> {},
     admitted |-> TRUE, failed |-> FALSE]

-----------------------------------------------------------------------------
(* FaultState *)

RecoverFault(c, f) ==
    IF c.active[f.node] # f.id THEN [c EXCEPT !.failed = TRUE]
    ELSE [c EXCEPT !.active[f.node] = NoFault, !.down[f.node] = "none"]

StartFault(c, f) ==
    IF c.active[f.node] # NoFault \/ \E n \in Sat : c.active[n] = f.id
    THEN [c EXCEPT !.failed = TRUE]
    ELSE [c EXCEPT !.active[f.node] = f.id, !.down[f.node] = f.kind]

-----------------------------------------------------------------------------
(* Batches *)

EventBefore(a, b) ==
    IF a.type = b.type THEN a.fault.id < b.fault.id ELSE a.type = "RECOVERY"

ApplyEvent(c, e, now) ==
    LET d == IF e.type = "RECOVERY" THEN RecoverFault(c, e.fault)
                                    ELSE StartFault(c, e.fault)
    IN [d EXCEPT !.log = Append(@, [at |-> now, event |-> e,
                                    down |-> d.down[e.fault.node]])]

\* The events of a batch, one after the other.
ApplyEvents(c, batch, now) == FoldLeft(LAMBDA d, e : ApplyEvent(d, e, now), c, batch)

\* The batch is not empty, no instant is processed twice, and no node recovers
\* or starts twice.
BatchValid(c, now) ==
    /\ c.batches[now] # <<>> /\ now \notin c.processed
    /\ \A i, j \in DOMAIN c.batches[now] :
         LET a == c.batches[now][i]  b == c.batches[now][j] IN
         i # j /\ a.type = b.type => a.fault.node # b.fault.node

\* Mutant: compute faults cut links, too.
OverlayEager(c, events) == {n \in Sat : c.down[n] # "none"}

\* ApplyCommunicationFaultOverlay, called when a satellite fault is involved.
Overlay(c, events) ==
    IF \E e \in events : e.fault.kind = "satellite"
    THEN {n \in Sat : c.down[n] = "satellite"} ELSE c.cut

ProcessBatch(c, now) ==
    LET events == Range(c.batches[now])
        batch == Ranked(events, EventBefore)
        recovered == {e.fault.node : e \in {x \in events : x.type = "RECOVERY"}}
        kind == [n \in Sat |-> LET s == {x \in events : x.type = "START" /\ x.fault.node = n}
                               IN IF s = {} THEN "none" ELSE (CHOOSE x \in s : TRUE).fault.kind]
        done == ApplyEvents([c EXCEPT !.batches[now] = batch,
                                      !.processed = @ \cup {now},
                                      !.pending = @ \ {now}], batch, now)
    IN IF ~BatchValid(c, now) THEN [c EXCEPT !.failed = TRUE]
       ELSE [done EXCEPT !.admitted = @ /\ Admissible(c.tasks, recovered, kind),
                         !.tasks = AfterBatch(@, recovered, kind),
                         !.cut = Overlay(done, events)]

\* A recovery due at or after the end is not scheduled.
ScheduleRecovery(c, f) ==
    IF f.duration = Forever \/ RecoveryTime(f) >= Duration THEN c
    ELSE [c EXCEPT !.batches[RecoveryTime(f)] = Append(@, Recovery(f)),
                   !.pending = @ \cup {RecoveryTime(f)}]

SubmitValid(c, faults, now) ==
    /\ now < Duration /\ now \notin c.processed
    /\ \A i \in DOMAIN faults :
         /\ faults[i].start = now
         /\ faults[i].kind = "satellite" <=> faults[i].duration = Forever
         /\ \A j \in DOMAIN faults : i # j => faults[i].id # faults[j].id
         /\ \A k \in DOMAIN c.log :
              c.log[k].event.type = "START" => c.log[k].event.fault.id # faults[i].id

\* Mutant: a batch already scheduled for this instant stays scheduled.
SubmitGeneratedBatchTwice(c, faults, now) ==
    IF ~SubmitValid(c, faults, now) THEN [c EXCEPT !.failed = TRUE]
    ELSE LET merged == FoldLeft(ScheduleRecovery,
                          [c EXCEPT !.batches[now] = @ \o [i \in DOMAIN faults |-> Start(faults[i])]],
                          faults)
             done == ProcessBatch(merged, now)
         IN [done EXCEPT !.pending = @ \cup (c.pending \cap {now})]

\* SubmitGeneratedBatch: the batch already scheduled for this instant is
\* cancelled and runs now, with the faults that start.
SubmitGeneratedBatch(c, faults, now) ==
    IF ~SubmitValid(c, faults, now) THEN [c EXCEPT !.failed = TRUE]
    ELSE ProcessBatch(
           FoldLeft(ScheduleRecovery,
                    [c EXCEPT !.pending = @ \ {now},
                              !.batches[now] = @ \o [i \in DOMAIN faults |-> Start(faults[i])]],
                    faults),
           now)

-----------------------------------------------------------------------------
(* A compute fault is cut short by the loss of its satellite *)

Shortened(f, now) == [f EXCEPT !.duration = now - f.start]

\* Where in its batch the recovery of f is.
Recovering(c, f) ==
    LET batch == c.batches[RecoveryTime(f)] IN
    {i \in DOMAIN batch : batch[i].type = "RECOVERY" /\ batch[i].fault.id = f.id}

ShortenValid(c, f, now) ==
    /\ f.kind = "compute" /\ f.start < now /\ RecoveryTime(f) > now
    /\ now \notin c.processed
    /\ c.down[f.node] = "compute"
    /\ RecoveryTime(f) < Duration => Recovering(c, f) # {}
    /\ \E k \in DOMAIN c.log : c.log[k].event.type = "START" /\ c.log[k].event.fault.id = f.id

\* Mutant: the recovery scheduled first stays.
ShortenKeepingRecovery(c, f, now) ==
    IF ~ShortenValid(c, f, now) THEN [c EXCEPT !.failed = TRUE]
    ELSE [c EXCEPT !.log = [k \in DOMAIN @ |-> IF @[k].event = Start(f)
                                               THEN [@[k] EXCEPT !.event = Start(Shortened(f, now))]
                                               ELSE @[k]],
                   !.batches[now] = Append(@, Recovery(Shortened(f, now)))]

\* Mutant: the START record keeps the first duration.
ShortenKeepingRecord(c, f, now) ==
    IF ~ShortenValid(c, f, now) THEN [c EXCEPT !.failed = TRUE]
    ELSE LET at == RecoveryTime(f)
             left == IF at < Duration
                     THEN RemoveAt(c.batches[at], Min(Recovering(c, f))) ELSE <<>>
             moved == IF at < Duration
                      THEN [c EXCEPT !.batches[at] = left,
                                     !.pending = IF left = <<>> THEN @ \ {at} ELSE @]
                      ELSE c
         IN [moved EXCEPT !.batches[now] = Append(@, Recovery(Shortened(f, now)))]

\* ShortenGeneratedComputeFault: the recovery of f moves to this instant, to
\* run with the batch its caller submits next.
ShortenGeneratedComputeFault(c, f, now) ==
    IF ~ShortenValid(c, f, now) THEN [c EXCEPT !.failed = TRUE]
    ELSE LET at == RecoveryTime(f)
             left == IF at < Duration
                     THEN RemoveAt(c.batches[at], Min(Recovering(c, f))) ELSE <<>>
             moved == IF at < Duration
                      THEN [c EXCEPT !.batches[at] = left,
                                     !.pending = IF left = <<>> THEN @ \ {at} ELSE @]
                      ELSE c
             record == [k \in DOMAIN c.log |->
                          IF c.log[k].event = Start(f)
                          THEN [c.log[k] EXCEPT !.event = Start(Shortened(f, now))]
                          ELSE c.log[k]]
         IN [moved EXCEPT !.log = record,
                          !.batches[now] = Append(@, Recovery(Shortened(f, now)))]
=============================================================================
