------------------------- MODULE CheckpointManager -------------------------
(***************************************************************************)
(* Checkpoints of tasks that share the storage of a few satellites: the    *)
(* callbacks of their pipelines, the policy that starts, changes and       *)
(* pauses them, routes that come and go, faults, and the recoveries that   *)
(* take over their objects.  Events of one instant are taken in any order; *)
(* the program's order by event UID is one of them.                        *)
(***************************************************************************)
EXTENDS CheckpointOps

CONSTANTS Cadence,    \* the pairs of step and batch size that the policy may choose for a task
          LastStart,  \* bound: the checkpoint of a task starts no later
          MaxDelay,   \* bound: a transfer arrives within that many instants more
          Breakable,  \* the routes that may be missing
          MaxUpsets   \* bound: route changes, faults, refusals, lost transfers,
                      \* missed deadlines and changes of the policy

ASSUME CheckpointAssumption ==
    \A t \in Task :
        /\ {PrimaryNode[t], LocalNode[t], RemoteNode[t]} \subseteq Sat
        /\ Cardinality({PrimaryNode[t], LocalNode[t], RemoteNode[t]}) = 3
        /\ \A u \in Task \ {t} : PrimaryNode[u] # PrimaryNode[t]

VARIABLES w,       \* the program
          upsets,  \* disturbances so far
          batched  \* this instant's fault batch has run

vars == <<w, upsets, batched>>

Init ==
    /\ w = [now |-> 0, abort |-> "", ended |-> FALSE, dead |-> {}, cut |-> {},
            pool |-> [n \in Sat |-> {}], phase |-> [t \in Task |-> "RUNNING"],
            cp |-> [t \in Task |-> NoCheckpoint], snap |-> [t \in Task |-> NoSnapshot]]
    /\ upsets = 0 /\ batched = FALSE

-----------------------------------------------------------------------------
(* The pipelines *)

Start(t) ==
    /\ w.phase[t] = "RUNNING" /\ ~w.cp[t].begun /\ w.now <= LastStart[t]
    /\ {PrimaryNode[t], LocalNode[t], RemoteNode[t]} \cap w.dead = {}
    /\ \E c \in Cadence[t] : w' = Execute(w, t, c[1], c[2])

GenerationDone(t) ==
    \E f \in w.cp[t].flows :
        /\ f.step = "generating" /\ f.due = w.now
        /\ w' = Generated(w, t, f)

\* A transfer that nobody ends arrives, sooner or later.
TransferArrives(t) ==
    \E f \in w.cp[t].flows :
        /\ f.step = "flying" /\ f.due <= w.now
        /\ w' = TransferCompleted(w, t, f)

MergeDone(t) ==
    /\ w.cp[t].merge.kind # "none" /\ w.cp[t].merge.due = w.now
    /\ w' = Commit(w, t)

PhysicalDone(t) ==
    /\ w.cp[t].physical.kind # "none" /\ w.cp[t].physical.due = w.now
    /\ w' = Guarded(Live(w, t), t, LAMBDA v : FinishPhysicalCommit(v, t))

CaptureDue(t) ==
    /\ w.cp[t].target = w.now /\ w.now # NoTarget
    /\ w' = Guarded(Live([w EXCEPT !.cp[t].target = NoTarget], t), t,
                    LAMBDA v : Capture(v, t, w.now))

ComputationCompletes(t) ==
    /\ w.phase[t] = "RUNNING" /\ w.now = WorkOf[t]
    /\ w' = ComputeComplete(w, t)

ResultArrives(t) ==
    /\ w.phase[t] = "RESULT"
    /\ w' = TaskTerminal(w, t)

\* The recovery has merged what it took, or is over.
RecoveryReleases(t) ==
    /\ w.phase[t] = "RECOVERING" /\ w.snap[t].on
    /\ w' = [ReleaseTaskExcept(w, t, {}) EXCEPT !.snap[t] = NoSnapshot]

Pipeline(t) ==
    \/ Start(t) \/ GenerationDone(t) \/ TransferArrives(t) \/ MergeDone(t) \/ PhysicalDone(t)
    \/ CaptureDue(t) \/ ComputationCompletes(t) \/ ResultArrives(t) \/ RecoveryReleases(t)
    \/ w' = RetainFutureConfiguration(w, t)

FlushDue == \E t \in Task : \E f \in w.cp[t].flows : f.step = "queued" /\ f.due = w.now
FlushRequests == FlushDue /\ w' = Flush(w, FALSE)

\* The controllers call it after faults and when storage or links are released.
RetryMaintenance == w' = RetryBlockedMaintenance(w)

-----------------------------------------------------------------------------
(* Disturbances *)

\* The engine refuses to register: a satellite has run out of ports.
FlushRefused == FlushDue /\ w' = Flush(w, TRUE)

TransferLost(t) ==
    \E f \in w.cp[t].flows : f.step = "flying" /\ w' = TransferFailed(w, t, f)

\* The task or its recovery misses its deadline or loses its result's node.
TaskEnds(t) ==
    /\ w.phase[t] \in {"RUNNING", "RECOVERING"}
    /\ w' = TaskTerminal(w, t)

RoutesChange == \E cut \in SUBSET Breakable : w' = [w EXCEPT !.cut = cut]

PolicyChanges(t) ==
    \/ \E c \in Cadence[t] : w' = UpdateFutureConfiguration(w, t, c[1], c[2])
    \/ w' = PauseFutureProtection(w, t)

Upset ==
    /\ upsets < MaxUpsets
    /\ FlushRefused \/ RoutesChange \/ \E t \in Task : TransferLost(t) \/ TaskEnds(t) \/ PolicyChanges(t)
    /\ upsets' = upsets + 1 /\ UNCHANGED batched

\* Satellites are lost for good; a compute outage matters to the primary only.
FaultBatch ==
    /\ ~batched
    /\ \E size \in 1..(MaxUpsets - upsets) :
       \E nodes \in {q \in [1..size -> Sat \ w.dead] : IsInjective(q)} :
       \E kinds \in [1..size -> {"compute", "satellite"}] :
         /\ \A i \in 1..size : kinds[i] = "compute" => \E t \in Task : nodes[i] = PrimaryNode[t]
         /\ w' = ApplyFaultBatch(w, [i \in 1..size |-> [node |-> nodes[i], kind |-> kinds[i]]])
         /\ upsets' = upsets + size
    /\ batched' = TRUE

-----------------------------------------------------------------------------

\* Nothing of this instant is left to do.
Quiet ==
    \A t \in Task :
        LET s == w.cp[t] IN
        /\ ~\E f \in s.flows : f.step \in {"generating", "queued"} /\ f.due = w.now
        /\ ~\E f \in s.flows : f.step = "flying" /\ f.due + MaxDelay = w.now
        /\ s.target = NoTarget \/ s.target # w.now
        /\ \A m \in {s.merge, s.physical} : m.kind # "none" => m.due # w.now
        /\ w.phase[t] = "RUNNING" => w.now # WorkOf[t]

\* The history of this instant is what a later fault finds.
Tick ==
    /\ Quiet
    /\ w' = [w EXCEPT !.now = @ + 1,
                      !.cp = [t \in Task |-> [@[t] EXCEPT !.prior = w.cp[t].now]]]
    /\ batched' = FALSE /\ UNCHANGED upsets

FinalizeSimulation ==
    /\ w.now = StopTime
    /\ w' = Finalize(w)
    /\ UNCHANGED <<upsets, batched>>

Next ==
    /\ w.abort = "" /\ ~w.ended
    /\ \/ /\ w.now < StopTime
          /\ \/ (\E t \in Task : Pipeline(t)) /\ UNCHANGED <<upsets, batched>>
             \/ (FlushRequests \/ RetryMaintenance) /\ UNCHANGED <<upsets, batched>>
             \/ Upset
             \/ FaultBatch
             \/ Tick
       \/ FinalizeSimulation

Spec == Init /\ [][Next]_vars

-----------------------------------------------------------------------------

TypeOK == w \in World /\ upsets \in 0..MaxUpsets /\ batched \in BOOLEAN

\* No order of deliveries, commits, retries, faults and releases trips a check
\* of the manager, its progress or a pool, but for the one that SnapshotBacked
\* is about; and no pool holds more than its capacity.
RequiresHold ==
    /\ TypeOK /\ w.abort # "require"
    /\ \A n \in Sat : Free(w, n) >= 0

\* What the code asserts of every snapshot (checkpoint-manager.cc:950) and the
\* documentation says of faults in the instant of a commit: the committed state
\* of before is still there (docs/protection/recovery.md:110).
SnapshotBacked == w.abort # "snapshot"

Has(t) == {<<n, e>> \in Sat \X UNION {w.pool[m] : m \in Sat} : e \in w.pool[n] /\ e.task = t}
InTransfer(t, kind, work) ==
    \E f \in w.cp[t].flows : f.kind = kind /\ f.work = work /\ (f.step # "generating" \/ kind = "L1")
InBatch(s) == {x \in s.records : x.work <= s.batch}
BaseBytes(t) ==
    LET s == w.cp[t]
        old == Min({x.from : x \in InBatch(s)})
    IN IF ~s.initialized THEN IF Eager THEN InputBytes[t] ELSE 0
       ELSE CommittedStateBytes(t, IF s.physical.kind = "none" THEN s.now.r ELSE old)
Wants(t) ==
    LET s == w.cp[t]
        Stored(kind, work, bytes) ==
            <<NodeOf(t, kind), [task |-> t, kind |-> kind, work |-> work, bytes |-> bytes,
                                reserved |-> InTransfer(t, kind, work)]>>
        initial == IF s.initial = 0 THEN 0 ELSE s.initial + Header
    IN {Stored("BASE", 0, BaseBytes(t))}
       \cup {Stored("INIT", 0, initial) : k \in {"INIT"} \cap
               IF s.initialized THEN {} ELSE s.got \cup {f.kind : f \in {g \in s.flows : g.step # "generating"}}}
       \cup {Stored("L1", x.work, RecordBytes(x.from, x.work)) :
               x \in {y \in s.records : y.received \/ InTransfer(t, "L1", y.work)}}
       \cup {Stored("BATCH", b, BatchBytes(InBatch(s))) : b \in {s.batch} \ {NoBatch}}

\* The pools hold what the live checkpoints refer to and nothing else: every
\* object with its bytes, reserved just while its transfer is on the way, the
\* base with the state that was merged last; what has ended holds nothing.
OwnershipExact ==
    w.abort = "" =>
        \A t \in Task :
            /\ w.cp[t].active => Has(t) = Wants(t)
            /\ ~w.cp[t].active /\ (w.snap[t].on => w.ended) => Has(t) = {}

\* A recovery finds what its snapshot promises for as long as the satellites
\* live: the state at r, and records that lead from r to l without a gap.
SnapshotRestorable ==
    \A t \in Task :
        LET s == w.snap[t] IN
        w.abort = "" /\ ~w.ended /\ w.phase[t] = "RECOVERING" /\ s.on /\ RemoteNode[t] \notin w.dead =>
            /\ \E e \in Object(w, t, "BASE", 0) : ~e.reserved /\ e.bytes = CommittedStateBytes(t, s.r)
            /\ LocalNode[t] \notin w.dead =>
                 /\ s.l = s.r \/ s.l \in s.tail
                 /\ \A x \in s.tail : \E y \in w.cp[t].records :
                      /\ y.work = x /\ y.from \in {s.r} \cup s.tail
                      /\ \E e \in Object(w, t, "L1", x) : ~e.reserved /\ e.bytes = RecordBytes(y.from, x)

Steady(t) == w.cp[t].active /\ w.cp[t].initialized /\ ~w.cp[t].paused
FullBatch(t) == Cardinality(NextBatch(w.cp[t])) = w.cp[t].n /\ w.cp[t].batch = NoBatch

\* A checkpoint never stops moving without a reason on record: what it began
\* has an event to come, and a full batch is sent.
PipelineMoves ==
    w.abort = "" =>
        \A t \in Task :
            LET s == w.cp[t] IN
            /\ s.active /\ ~s.initialized =>
                 \/ s.merge.kind = "INIT" \/ s.physical.kind = "INIT"
                 \/ \A kind \in {"BASE", "INIT"} \ s.got : \E f \in s.flows : f.kind = kind
            /\ s.batch # NoBatch /\ s.active =>
                 "BATCH" \in {s.merge.kind, s.physical.kind} \cup {f.kind : f \in s.flows}
            /\ s.active /\ ~s.failed.local =>
                 \A x \in s.records : x.received \/ InTransfer(t, "L1", x.work)
            /\ Steady(t) /\ FullBatch(t) /\ w.now < WorkOf[t] => s.gate.remote # ""

\* What is held back is held back for a reason that is still there.
HeldBack ==
    \A t \in Task :
        LET s == w.cp[t]
            next == NextWork(w, t)
        IN /\ \A f \in s.flows : f.step = "held" => ~PathAvailable(w, t, PipeOf(f.kind))
           /\ Steady(t) /\ s.target = NoTarget /\ ~s.failed.local /\ next \in 1..(StopTime - 1) =>
                \/ ~PathAvailable(w, t, "local")
                \/ RecordBytes(s.triggered, next) > Free(w, LocalNode[t])
           /\ Steady(t) /\ FullBatch(t) /\ ~s.failed.remote =>
                \/ ~PathAvailable(w, t, "remote")
                \/ BatchBytes(NextBatch(s)) > Free(w, RemoteNode[t])

\* A retry in which no checkpoint ends lets everything go on that can.
RetryReleases ==
    [][\/ HeldBack'
       \/ \E t \in Task : w'.cp[t].active # w.cp[t].active
       \/ ~RetryMaintenance]_vars
=============================================================================
