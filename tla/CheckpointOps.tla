---------------------------- MODULE CheckpointOps ----------------------------
(***************************************************************************)
(* Checkpoints of running tasks: captured increments go to a local node,   *)
(* batches of them on to a remote node, and a fault freezes what is valid  *)
(* (protection/mechanism/checkpoint/checkpoint-manager.cc with             *)
(* checkpoint-progress.cc and protection/storage/backup-storage-pool.cc),  *)
(* as operators on one record.                                             *)
(*                                                                         *)
(* Tasks compute one unit of work per instant from instant 0, every unit   *)
(* ends at a legal boundary and adds one byte of state.  A pool is its set *)
(* of entries; an object is known by its task, kind and work.  Recovery is *)
(* enabled: a commit takes effect in the pools one instant later.          *)
(***************************************************************************)
EXTENDS Integers, FiniteSets, FiniteSetsExt, SequencesExt

CONSTANTS Task, Sat,
          PrimaryNode, LocalNode, RemoteNode,  \* of each task
          WorkOf, InputBytes,
          Header,       \* bytes that a record adds to its state
          Capacity,     \* of the pool of each satellite
          CostL, CostR, \* generating a record, merging a batch
          Eager,        \* the input is copied when a checkpoint starts
          StopTime

Kind == {"BASE", "INIT", "L1", "BATCH"}
Pipe == {"local", "remote"}
NoTarget == 0
NoBatch == 0
Never == 0

\* One transfer on its way: its state is being generated, it waits for the
\* dispatcher or for a path, or it is on the network.  It goes on at `due', one
\* on the network then or later.
Step == {"generating", "queued", "held", "flying"}
Flow == [kind : Kind, work : Nat, step : Step, due : Nat]
Record == [from : Nat, work : Nat, received : BOOLEAN]
Snapshot == [on : BOOLEAN, l : Nat, r : Nat, remote : BOOLEAN, tail : SUBSET Nat]
NoSnapshot == [on |-> FALSE, l |-> 0, r |-> 0, remote |-> FALSE, tail |-> {}]

\* CheckpointManager::State, with its CheckpointProgress.  `prior' is the
\* progress at the end of the last instant: the history as BeforeFault reads it.
Checkpoint ==
    [begun : BOOLEAN, active : BOOLEAN, quiesced : BOOLEAN,
     delta : Nat, n : Nat, initial : Nat, triggered : Nat, batch : Nat,
     initialized : BOOLEAN, paused : BOOLEAN,
     gate : [Pipe -> {"", "PATH", "STORAGE", "REGISTRATION_FAILED", "TRANSFER_FAILED"}],
     failed : [Pipe -> BOOLEAN], target : Nat,
     records : SUBSET Record, flows : SUBSET Flow, got : SUBSET {"BASE", "INIT"},
     now : [on : BOOLEAN, l : Nat, r : Nat], prior : [on : BOOLEAN, l : Nat, r : Nat],
     merge : [kind : {"none", "INIT", "BATCH"}, due : Nat],      \* m_pending and its timer
     physical : [kind : {"none", "INIT", "BATCH"}, due : Nat]]   \* physicalCommit and its timer
NoMerge == [kind |-> "none", due |-> Never]
NoCheckpoint ==
    [begun |-> FALSE, active |-> FALSE, quiesced |-> FALSE,
     delta |-> 1, n |-> 1, initial |-> 0, triggered |-> 0, batch |-> NoBatch,
     initialized |-> FALSE, paused |-> FALSE,
     gate |-> [p \in Pipe |-> ""], failed |-> [p \in Pipe |-> FALSE], target |-> NoTarget,
     records |-> {}, flows |-> {}, got |-> {},
     now |-> [on |-> FALSE, l |-> 0, r |-> 0], prior |-> [on |-> FALSE, l |-> 0, r |-> 0],
     merge |-> NoMerge, physical |-> NoMerge]

Entry == [task : Task, kind : Kind, work : Nat, bytes : Nat, reserved : BOOLEAN]
World ==
    [now : Nat, abort : {"", "require", "snapshot"}, ended : BOOLEAN,
     dead : SUBSET Sat, cut : SUBSET (Sat \X Sat),  \* no admissible path there now
     pool : [Sat -> SUBSET Entry],
     phase : [Task -> {"RUNNING", "RESULT", "RECOVERING", "ENDED"}],
     cp : [Task -> Checkpoint], snap : [Task -> Snapshot]]

\* A Require that fails ends the program.
Must(w, holds) == IF holds \/ w.abort # "" THEN w ELSE [w EXCEPT !.abort = "require"]

-----------------------------------------------------------------------------
(* BackupStoragePool *)

NodeOf(t, kind) == IF kind = "L1" THEN LocalNode[t] ELSE RemoteNode[t]
Free(w, n) == Capacity - MapThenSumSet(LAMBDA e : e.bytes, w.pool[n])
Object(w, t, kind, work) ==
    {e \in w.pool[NodeOf(t, kind)] : e.task = t /\ e.kind = kind /\ e.work = work}

TryReserve(w, t, kind, work, bytes) ==
    [w EXCEPT !.pool[NodeOf(t, kind)] =
        @ \cup {[task |-> t, kind |-> kind, work |-> work, bytes |-> bytes, reserved |-> TRUE]}]

Replace(w, t, kind, old, new) == [w EXCEPT !.pool[NodeOf(t, kind)] = (@ \ old) \cup new]

CommitReservation(w, t, kind, work) ==
    LET o == Object(w, t, kind, work)
    IN Replace(Must(w, \E e \in o : e.reserved), t, kind, o, {[e EXCEPT !.reserved = FALSE] : e \in o})

ReleaseReservation(w, t, kind, work) ==
    Replace(w, t, kind, {e \in Object(w, t, kind, work) : e.reserved}, {})

ReleaseTaskExcept(w, t, keep) ==
    [w EXCEPT !.pool = [n \in Sat |-> {e \in @[n] : e.task # t \/ e \in keep}]]

\* The state's object takes in the batch and keeps its identity.
Merge(w, t, kind, work, bytes) ==
    LET state == Object(w, t, "BASE", 0)
        batch == Object(w, t, kind, work)
    IN Replace(Must(w, /\ state # {} /\ batch # {} /\ ~(\E e \in state \cup batch : e.reserved)
                       /\ bytes <= MapThenSumSet(LAMBDA e : e.bytes, state \cup batch)),
               t, "BASE", state \cup batch, {[e EXCEPT !.bytes = bytes] : e \in state})

-----------------------------------------------------------------------------
(* Layout and progress *)

RecordBytes(from, to) == to - from + Header
CommittedStateBytes(t, work) ==
    work + IF Eager THEN InputBytes[t] - (InputBytes[t] * work) \div WorkOf[t] ELSE 0

Actual(w, t) == IF w.now < WorkOf[t] THEN w.now ELSE WorkOf[t]

\* The next boundary to capture, none at the end of the work.
NextWork(w, t) ==
    LET s == w.cp[t]
        next == s.delta + IF s.triggered > Actual(w, t) THEN s.triggered ELSE Actual(w, t)
    IN IF next < WorkOf[t] THEN next ELSE NoTarget

\* What Log requires of every event.
Log(w, t) == Must(w, w.cp[t].now.r <= w.cp[t].now.l /\ w.cp[t].now.l <= Actual(w, t))

PathAvailable(w, t, pipe) ==
    LET ends == IF pipe = "local" THEN <<PrimaryNode[t], LocalNode[t]>>
                ELSE <<LocalNode[t], RemoteNode[t]>>
    IN {ends[1], ends[2]} \cap w.dead = {} /\ ends \notin w.cut

PipeOf(kind) == IF kind = "L1" THEN "local" ELSE "remote"

-----------------------------------------------------------------------------
(* The end of a checkpoint *)

\* Every timer, request, transfer and object of the task goes.  What Stop
\* leaves in physicalCommit and nextTarget nobody reads any more.
Stop(w, t) ==
    IF ~w.cp[t].active THEN w
    ELSE [ReleaseTaskExcept(w, t, {}) EXCEPT
            !.cp[t] = [@ EXCEPT !.active = FALSE, !.flows = {}, !.records = {}, !.target = NoTarget,
                                !.merge = NoMerge, !.physical = NoMerge]]

Computes(w, t) == w.phase[t] = "RUNNING" /\ w.now < WorkOf[t]

\* The program after Live: a computation that is due ends its checkpoint here.
Live(w, t) == IF Computes(w, t) /\ w.now < StopTime THEN w ELSE Stop(w, t)

\* Guarded callbacks and calls do something only to a checkpoint that is live.
Guarded(v, t, Body(_)) == IF v.cp[t].active THEN Body(v) ELSE v

-----------------------------------------------------------------------------
(* Requests and transfers *)

Request(kind, work, step, due) == [kind |-> kind, work |-> work, step |-> step, due |-> due]
AddFlow(w, t, f) == [w EXCEPT !.cp[t].flows = @ \cup {f}]
EndFlow(w, t, f) == [w EXCEPT !.cp[t].flows = @ \ {f}]
SetStep(w, t, f, step, due) == AddFlow(EndFlow(w, t, f), t, Request(f.kind, f.work, step, due))

\* The dispatcher registers what was requested in one instant in the next.
Queue(w, t, kind, work) ==
    AddFlow(Must(w, \E e \in Object(w, t, kind, work) : e.reserved),
            t, Request(kind, work, "queued", w.now + 1))

Block(w, t, pipe, reason) ==
    IF w.cp[t].gate[pipe] = reason THEN w
    ELSE [w EXCEPT !.cp[t].gate[pipe] = reason,
                   !.cp[t].target = IF pipe = "local" /\ reason # "" THEN NoTarget ELSE @]

\* A transfer of the maintenance that has failed for good closes its pipe.
FailPipe(w, t, f, reason) ==
    Block([w EXCEPT !.cp[t].failed[PipeOf(f.kind)] = TRUE,
                    !.cp[t].batch = IF f.kind = "BATCH" THEN NoBatch ELSE @],
          t, PipeOf(f.kind), reason)

RegisterCheckpoint(w, t, f, refused) ==
    LET pipe == PipeOf(f.kind)
        maintenance == f.kind \in {"L1", "BATCH"}
    IN CASE maintenance /\ ~PathAvailable(w, t, pipe) ->
              Block(SetStep(w, t, f, "held", Never), t, pipe, "PATH")
         [] refused /\ maintenance /\ PathAvailable(w, t, pipe) ->
              FailPipe(ReleaseReservation(EndFlow(w, t, f), t, f.kind, f.work), t, f, "REGISTRATION_FAILED")
         [] refused /\ ~maintenance -> Stop(w, t)
         [] OTHER ->
              LET v == SetStep(w, t, f, "flying", w.now + 1)
              IN IF maintenance /\ v.cp[t].gate[pipe] = "PATH" THEN Block(v, t, pipe, "") ELSE v

\* The requests that are due, in the order of their keys.
KindRank == [BASE |-> 1, INIT |-> 2, L1 |-> 3, BATCH |-> 4]
Before(a, b) ==
    \/ a[1] < b[1]
    \/ a[1] = b[1] /\ KindRank[a[2].kind] < KindRank[b[2].kind]
    \/ a[1] = b[1] /\ a[2].kind = b[2].kind /\ a[2].work < b[2].work
Keyed(w, step) == SetToSortSeq(UNION {{<<t, f>> : f \in {g \in w.cp[t].flows : g.step = step}} : t \in Task},
                               Before)

Flush(w, refused) ==
    FoldLeft(LAMBDA v, q :
               Guarded(Live(v, q[1]), q[1], LAMBDA u : RegisterCheckpoint(u, q[1], q[2], refused)),
             w, SelectSeq(Keyed(w, "queued"), LAMBDA q : q[2].due = w.now))

-----------------------------------------------------------------------------
(* Capture, batch, retry *)

ScheduleCapture(w, t) ==
    LET s == w.cp[t]
        next == NextWork(w, t)
        open == ~s.paused /\ s.gate.local = "" /\ ~s.failed.local /\ next < StopTime
    IN [w EXCEPT !.cp[t].target = IF open THEN next ELSE NoTarget]

Capture(w, t, work) ==
    LET s == w.cp[t]
        bytes == RecordBytes(s.triggered, work)
    IN IF s.paused \/ s.failed.local THEN w
       ELSE IF ~PathAvailable(w, t, "local") THEN Block(w, t, "local", "PATH")
       ELSE IF bytes > Free(w, LocalNode[t]) THEN Block(w, t, "local", "STORAGE")
       ELSE
              LET v == TryReserve(Must(w, s.now.on /\ s.triggered < work /\ work <= Actual(w, t)),
                                  t, "L1", work, bytes)
              IN ScheduleCapture([v EXCEPT
                   !.cp[t] = [@ EXCEPT !.triggered = work,
                                       !.records = @ \cup {[from |-> s.triggered, work |-> work,
                                                            received |-> FALSE]},
                                       !.flows = @ \cup {Request("L1", work, "generating",
                                                                 w.now + CostL)}]], t)

\* Mutant: records that have not arrived are sent on.
NextBatchUnreceived(s) ==
    LET ready == {x \in s.records : s.now.r < x.work}
    IN {x \in ready : Cardinality({y \in ready : y.work <= x.work}) <= s.n}

\* The records of the next batch: the first n that the local node has in a row.
NextBatch(s) ==
    LET ready == {x \in s.records : s.now.r < x.work /\ x.work <= s.now.l}
    IN {x \in ready : Cardinality({y \in ready : y.work <= x.work}) <= s.n}
BatchBytes(batch) == MapThenSumSet(LAMBDA x : RecordBytes(x.from, x.work), batch)

SendBatch(w, t, batch) ==
    LET work == Max({x.work : x \in batch})
        v == TryReserve(Block(Must(w, \A x \in batch : x.received), t, "remote", ""),
                        t, "BATCH", work, BatchBytes(batch))
    IN Queue([v EXCEPT !.cp[t].batch = work], t, "BATCH", work)

TryBatch(w, t) ==
    LET s == w.cp[t]
        batch == NextBatch(s)
    IN IF s.paused \/ s.batch # NoBatch \/ s.failed.remote \/ Cardinality(batch) # s.n THEN w
       ELSE IF ~PathAvailable(w, t, "remote") THEN Block(w, t, "remote", "PATH")
       ELSE IF BatchBytes(batch) > Free(w, RemoteNode[t]) THEN Block(w, t, "remote", "STORAGE")
       ELSE SendBatch(w, t, batch)

\* Mutant: only the return of the path opens it.
ReopenOnPath(w, t) ==
    IF w.cp[t].failed.local \/ w.cp[t].gate.local # "PATH" \/ ~PathAvailable(w, t, "local") THEN w
    ELSE Block(w, t, "local", "")

\* A closed local pipe opens when there is a path and room for the next record.
Reopen(w, t) ==
    LET s == w.cp[t]
        next == NextWork(w, t)
    IN IF s.failed.local \/ s.gate.local = "" \/ ~PathAvailable(w, t, "local") THEN w
       ELSE Block(w, t, "local",
                  IF next = NoTarget \/ RecordBytes(s.triggered, next) <= Free(w, LocalNode[t])
                  THEN "" ELSE "STORAGE")

Resume(w, t) ==
    TryBatch(IF w.cp[t].target = NoTarget /\ w.cp[t].gate.local = "" THEN ScheduleCapture(w, t) ELSE w, t)

Retry(w, t) ==
    Guarded(Live(w, t), t,
            LAMBDA v : IF v.cp[t].initialized /\ ~v.cp[t].paused THEN Resume(Reopen(v, t), t) ELSE v)

\* Held requests that have a path are queued again.
Requeue(w) ==
    [w EXCEPT !.cp = [t \in Task |-> [@[t] EXCEPT
       !.flows = {IF f.step = "held" /\ PathAvailable(w, t, PipeOf(f.kind))
                  THEN Request(f.kind, f.work, "queued", w.now + 1) ELSE f : f \in @}]]]

Ordered == SetToSortSeq(Task, LAMBDA a, b : a < b)
RetryBlockedMaintenance(w) ==
    FoldLeft(LAMBDA v, t : IF v.cp[t].active /\ v.cp[t].initialized THEN Retry(v, t) ELSE v,
             Requeue(w), Ordered)

-----------------------------------------------------------------------------
(* Start, commits *)

InitializationReceived(w, t) ==
    IF w.cp[t].got = {"BASE", "INIT"}
    THEN [w EXCEPT !.cp[t].merge = [kind |-> "INIT", due |-> w.now + CostR]] ELSE w

\* An initialization object that is there without a transfer.
LogicallyComplete(w, t, kind) ==
    [CommitReservation(w, t, kind, 0) EXCEPT !.cp[t].got = @ \cup {kind}]

\* Execute: the captured state is generated while the base is on its way.
Execute(w, t, delta, n) ==
    LET bytes == IF Eager THEN InputBytes[t] ELSE 0
        v == [w EXCEPT !.cp[t] = [NoCheckpoint EXCEPT
                 !.begun = TRUE, !.active = TRUE, !.delta = delta, !.n = n,
                 !.initial = Actual(w, t), !.triggered = Actual(w, t),
                 !.flows = {Request("INIT", 0, "generating", w.now + CostL)}]]
        Base(u) == IF bytes > Free(u, RemoteNode[t]) THEN Stop(u, t)
                   ELSE IF Eager THEN Queue(TryReserve(u, t, "BASE", 0, bytes), t, "BASE", 0)
                   ELSE LogicallyComplete(TryReserve(u, t, "BASE", 0, 0), t, "BASE")
    IN Guarded(Live(v, t), t, Base)

\* The timer of CostL: the captured bytes can be sent.
Generated(w, t, f) ==
    LET bytes == IF w.cp[t].initial = 0 THEN 0 ELSE w.cp[t].initial + Header
        Initial(v) ==
            IF bytes > Free(v, RemoteNode[t]) THEN Stop(v, t)
            ELSE IF bytes = 0
            THEN InitializationReceived(LogicallyComplete(TryReserve(v, t, "INIT", 0, 0), t, "INIT"), t)
            ELSE Queue(TryReserve(v, t, "INIT", 0, bytes), t, "INIT", 0)
    IN Guarded(Live(EndFlow(w, t, f), t), t,
               LAMBDA v : IF f.kind = "INIT" THEN Initial(v) ELSE Queue(v, t, "L1", f.work))

\* Commit: progress moves now, objects one instant later.
Commit(w, t) ==
    LET kind == w.cp[t].merge.kind
        work == IF kind = "INIT" THEN w.cp[t].initial ELSE w.cp[t].batch
        Now(p) == [on |-> TRUE, r |-> work, l |-> IF p.on THEN p.l ELSE work]
    IN Guarded(Live(w, t), t,
               LAMBDA v : Log([v EXCEPT
                 !.cp[t] = [@ EXCEPT !.now = Now(@), !.merge = NoMerge,
                                     !.physical = [kind |-> kind, due |-> w.now + 1]]], t))

Cleanup(w, t, work) ==
    LET covered == {x \in w.cp[t].records : x.work <= work}
        objects == UNION {Object(w, t, "L1", x.work) : x \in covered}
    IN Replace([Must(w, /\ \A x \in covered : x.received /\ Object(w, t, "L1", x.work) # {}
                        /\ ~\E e \in objects : e.reserved)
                EXCEPT !.cp[t].records = @ \ covered], t, "L1", objects, {})

\* Mutant: the room that the cleanup makes is not used.
FinishPhysicalCommitQuietly(w, t) ==
    LET s == w.cp[t]
        work == IF s.physical.kind = "INIT" THEN s.initial ELSE s.batch
        v == [Merge(w, t, s.physical.kind, IF s.physical.kind = "INIT" THEN 0 ELSE work,
                    CommittedStateBytes(t, work))
              EXCEPT !.cp[t].physical = NoMerge]
    IN IF s.physical.kind = "INIT" THEN ScheduleCapture([v EXCEPT !.cp[t].initialized = TRUE], t)
       ELSE Cleanup([v EXCEPT !.cp[t].batch = NoBatch], t, work)

FinishPhysicalCommit(w, t) ==
    LET s == w.cp[t]
        work == IF s.physical.kind = "INIT" THEN s.initial ELSE s.batch
        v == [Merge(w, t, s.physical.kind, IF s.physical.kind = "INIT" THEN 0 ELSE work,
                    CommittedStateBytes(t, work))
              EXCEPT !.cp[t].physical = NoMerge]
    IN IF s.physical.kind = "INIT" THEN ScheduleCapture([v EXCEPT !.cp[t].initialized = TRUE], t)
       ELSE RetryBlockedMaintenance(Cleanup([v EXCEPT !.cp[t].batch = NoBatch], t, work))

-----------------------------------------------------------------------------
(* Arrivals *)

\* Mutant: l moves to whatever arrives.
ReceiveLocalGapped(s, work) ==
    [s EXCEPT !.records = {IF x.work = work THEN [x EXCEPT !.received = TRUE] ELSE x : x \in @},
              !.now.l = Max({@, work})]

\* The receiver of one record has it: l moves over what is there in a row.
ReceiveLocal(s, work) ==
    LET records == {IF x.work = work THEN [x EXCEPT !.received = TRUE] ELSE x : x \in s.records}
        missing == {x.work : x \in {y \in records : y.work > s.now.r /\ ~y.received}}
        reached == {x.work : x \in {y \in records : \A m \in missing : y.work < m}}
    IN [s EXCEPT !.records = records, !.now.l = Max({@} \cup reached)]

Received(w, t, f) ==
    LET v == CommitReservation(w, t, f.kind, f.work)
        s == v.cp[t]
    IN CASE f.kind \in {"BASE", "INIT"} ->
              InitializationReceived([v EXCEPT !.cp[t].got = @ \cup {f.kind}], t)
         [] f.kind = "L1" ->
              TryBatch(Log([Must(v, \E x \in s.records : x.work = f.work /\ ~x.received)
                            EXCEPT !.cp[t] = ReceiveLocal(@, f.work)], t), t)
         [] OTHER ->
              [Must(v, s.now.on /\ s.merge = NoMerge /\ s.now.r < f.work /\ f.work <= s.now.l)
               EXCEPT !.cp[t].merge = [kind |-> "BATCH", due |-> w.now + CostR]]

\* TransferTerminal of a transfer that arrived.
TransferCompleted(w, t, f) ==
    Guarded(Live(EndFlow(w, t, f), t), t, LAMBDA v : Received(v, t, f))

\* Mutant: the reservation of a failed transfer stays.
TransferFailedKeeping(w, t, f) ==
    LET v == EndFlow(w, t, f)
    IN IF f.kind \in {"BASE", "INIT"} THEN Stop(v, t) ELSE FailPipe(v, t, f, "TRANSFER_FAILED")

\* TransferTerminal of one that failed; nothing sends it again.
TransferFailed(w, t, f) ==
    LET v == ReleaseReservation(EndFlow(w, t, f), t, f.kind, f.work)
    IN IF f.kind \in {"BASE", "INIT"} THEN Stop(v, t) ELSE FailPipe(v, t, f, "TRANSFER_FAILED")

-----------------------------------------------------------------------------
(* Faults *)

\* BeforeFault: only what was valid before this instant counts.  A merge that
\* is due is done first.
Settled(w, t) ==
    LET s == w.cp[t].physical
    IN IF s.kind # "none" /\ s.due <= w.now THEN FinishPhysicalCommit(w, t) ELSE w

Taken(w, t) ==
    LET s == w.cp[t]
        readable == s.prior.on /\ RemoteNode[t] \notin w.dead
    IN [on |-> s.prior.on, l |-> s.prior.l, r |-> s.prior.r, remote |-> readable,
        tail |-> {x.work : x \in {y \in s.records :
                     /\ readable /\ LocalNode[t] \notin w.dead
                     /\ y.received /\ s.prior.r < y.work /\ y.work <= s.prior.l}}]

Protected(w, t) == w.cp[t].begun /\ (w.cp[t].active \/ w.cp[t].quiesced)

\* The objects that a snapshot refers to, those of the tail and the base.
Backing(w, t, snap) ==
    UNION {Object(w, t, "L1", x) : x \in snap.tail}
    \cup IF snap.remote THEN Object(w, t, "BASE", 0) ELSE {}

\* The two assertions on the objects of the snapshot.
Checked(w, t, snap) ==
    LET base == {e \in Object(w, t, "BASE", 0) :
                   ~e.reserved /\ e.bytes = CommittedStateBytes(t, snap.r)}
        v == Must(w, /\ \A x \in snap.tail : \E e \in Object(w, t, "L1", x) : ~e.reserved
                     /\ snap.r <= snap.l /\ snap.l <= Actual(w, t))
    IN IF snap.remote /\ base = {} /\ v.abort = "" THEN [v EXCEPT !.abort = "snapshot"] ELSE v

FreezeRecoverySnapshot(w, t) ==
    LET v == Settled(w, t)
    IN IF ~Protected(w, t) THEN [w EXCEPT !.snap[t] = NoSnapshot]
       ELSE Checked([v EXCEPT !.snap[t] = Taken(v, t)], t, Taken(v, t))

\* Everything of the checkpoint ends, but the objects of the snapshot stay.
QuiesceForRecovery(w, t) ==
    IF ~w.cp[t].begun THEN w
    ELSE [ReleaseTaskExcept(w, t, Backing(w, t, w.snap[t])) EXCEPT
            !.cp[t] = [@ EXCEPT !.active = FALSE, !.quiesced = TRUE, !.flows = {}, !.target = NoTarget,
                                !.merge = NoMerge, !.physical = NoMerge]]

ReleaseOn(w, t, n) == [w EXCEPT !.pool[n] = {e \in @ : e.task # t}]

\* RecoveryController::Fault, as far as it concerns checkpoints.
Fault(w, t, change) ==
    LET v == FreezeRecoverySnapshot(w, t)
        lost == change.kind = "satellite"
    IN CASE w.phase[t] = "RECOVERING" -> IF lost THEN ReleaseOn(w, t, change.node) ELSE w
         [] w.phase[t] = "RUNNING" /\ PrimaryNode[t] = change.node ->
              [QuiesceForRecovery(v, t) EXCEPT !.phase[t] = "RECOVERING"]
         [] w.phase[t] = "RUNNING" /\ PrimaryNode[t] # change.node /\ lost ->
              IF Protected(w, t) /\ change.node \in {LocalNode[t], RemoteNode[t]}
              THEN ReleaseOn(QuiesceForRecovery(v, t), t, change.node) ELSE v
         [] OTHER -> w

ComputeComplete(w, t) ==
    [Stop(IF w.cp[t].begun THEN Log(w, t) ELSE w, t) EXCEPT !.phase[t] = "RESULT"]

\* OnTaskTerminal
TaskTerminal(w, t) == [ReleaseTaskExcept(Stop(w, t), t, {}) EXCEPT !.phase[t] = "ENDED"]

\* A computation that is due counts before the fault of its node.
ApplyFaultBatch(w, changes) ==
    LET Hits(n) == \E i \in DOMAIN changes : changes[i].node = n
        due == {t \in Task : w.phase[t] = "RUNNING" /\ Hits(PrimaryNode[t]) /\ ~Computes(w, t)}
        v == FoldSet(LAMBDA t, u : ComputeComplete(u, t), w, due)
    IN FoldLeft(LAMBDA u, t : FoldLeft(LAMBDA x, c : Fault(x, t, c), u, changes),
                [v EXCEPT !.dead = @ \cup {changes[i].node : i \in {j \in DOMAIN changes :
                                                                  changes[j].kind = "satellite"}}],
                Ordered)

-----------------------------------------------------------------------------
(* Policy *)

Enabled(w, t, Body(_)) ==
    Guarded(Live(w, t), t, LAMBDA v : IF v.cp[t].initialized THEN Body(v) ELSE v)

UpdateFutureConfiguration(w, t, delta, n) ==
    LET Set(v) == [v EXCEPT !.cp[t] = [@ EXCEPT !.delta = delta, !.n = n, !.paused = FALSE]]
        Change(v) == IF v.cp[t].paused \/ v.cp[t].delta # delta THEN ScheduleCapture(Set(v), t) ELSE Set(v)
    IN Enabled(w, t, LAMBDA v : Retry(Change(v), t))

PauseFutureProtection(w, t) ==
    Enabled(w, t, LAMBDA v : [v EXCEPT !.cp[t] = [@ EXCEPT !.paused = TRUE, !.target = NoTarget]])

RetainFutureConfiguration(w, t) == Enabled(w, t, LAMBDA v : Retry(v, t))

Finalize(w) ==
    [FoldSet(LAMBDA t, v : ReleaseTaskExcept(Stop(v, t), t, {}), w, Task) EXCEPT !.ended = TRUE]
=============================================================================
