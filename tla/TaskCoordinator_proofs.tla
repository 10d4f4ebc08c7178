----------------------- MODULE TaskCoordinator_proofs -----------------------
(***************************************************************************)
(* The coordinator's invariant is inductive for every constellation, load, *)
(* deadline and fault sequence, and the coordinator implements the task    *)
(* lifecycle.  The lemmas of ComputeServiceOps_proofs say that a service   *)
(* stays sound; the first part here says which tasks an operation moves,   *)
(* the second what happens to a task's record, and the third goes through  *)
(* the actions and lays one over the other.                                *)
(***************************************************************************)
EXTENDS TaskCoordinator, ComputeServiceOps_proofs

-----------------------------------------------------------------------------
(* Which tasks an operation of a service moves *)

\* From s to r the tasks in `out' leave the service and no other does; none
\* enters it, and one whose run is new started now.
Shifts(s, r, out) ==
    /\ r.running = s.running /\ r.known = s.known
    /\ r.owner = s.owner /\ r.runningRecovery = s.runningRecovery
    /\ \A t \in Task :
         /\ t \in out => ~Queued(r, t) /\ ~Runs(r, t)
         /\ t \notin out /\ Queued(s, t) => Queued(r, t) \/ Runs(r, t)
         /\ t \notin out /\ Runs(s, t) => Runs(r, t)
         /\ Queued(r, t) => Queued(s, t)
         /\ Runs(r, t) => Runs(s, t) \/ Queued(s, t)
         /\ Runs(r, t) /\ Runs(s, t) => r.current = s.current
         /\ Runs(r, t) /\ ~Runs(s, t) => r.current.start = now

\* The same, and the service is as open as before.
Moves(s, r, out) == Shifts(s, r, out) /\ r.available = s.available

\* No run is new in r.
Settles(s, r) == \A t \in Task : Runs(r, t) => Runs(s, t)

LEMMA MovesCompose ==
    ASSUME NEW s, NEW r, NEW q, NEW A, NEW B, Moves(s, r, A), Moves(r, q, B)
    PROVE  Moves(s, q, A \cup B)
BY DEF Moves, Shifts

\* Nothing moves when only availability, immunity and events change.
LEMMA SameSlotMoves ==
    ASSUME NEW s, NEW r, SameSlot(r, s)
    PROVE  \A t : /\ Queued(r, t) <=> Queued(s, t)
                  /\ Runs(r, t) <=> Runs(s, t)
BY DEF SameSlot, Queued, Runs

LEMMA RequestDispatchMoves ==
    ASSUME NEW s \in Service
    PROVE  Moves(s, RequestDispatch(s), {}) /\ Settles(s, RequestDispatch(s))
<1>1. /\ SameSlot(RequestDispatch(s), s)
      /\ RequestDispatch(s).available = s.available
    BY DEF RequestDispatch, Service, SameSlot
<1> QED BY <1>1, SameSlotMoves DEF Moves, Shifts, Settles, SameSlot

\* A task is not both queued and running.
LEMMA QueuedOrRuns ==
    ASSUME NEW s, NEW t, ServiceCore(s, now), Runs(s, t)
    PROVE  ~Queued(s, t)
BY DEF ServiceCore, CurrentSane, Runs, Queued

LEMMA DispatchNextTaskMoves ==
    ASSUME NEW s \in Service, NEW rate \in Nat \ {0}, now \in Time, ServiceCore(s, now)
    PROVE  Moves(s, DispatchNextTask(s, now, rate), {})
<1>1. CASE ~CanDispatch(s)
    BY <1>1 DEF DispatchNextTask, Moves, Shifts
<1>2. CASE CanDispatch(s)
    <2> DEFINE next == QueueFront(s.queue)
               svcTime == ServiceTimeNs(next.work, rate)
               r == StartFront(s, now, rate)
    <2>1. next \in s.queue /\ next \in WorkItem
        BY <1>2, QueueFrontQueued DEF ServiceCore, QueueSane, CanDispatch, Service
    <2> HIDE DEF next, svcTime
    <2>2. r = [s EXCEPT !.queue = s.queue \ {next}, !.hasCurrent = TRUE,
                        !.current = [task |-> next.task, start |-> now, service |-> svcTime],
                        !.completion = TRUE]
        BY DEF StartFront, next, svcTime
    <2> HIDE DEF r
    <2>3. /\ r.running = s.running /\ r.available = s.available /\ r.known = s.known
          /\ r.owner = s.owner /\ r.runningRecovery = s.runningRecovery
          /\ r.queue = s.queue \ {next} /\ r.hasCurrent = TRUE
          /\ r.current = [task |-> next.task, start |-> now, service |-> svcTime]
        BY <2>2 DEF Service
    <2>4. r.current.task = next.task /\ r.current.start = now
        BY <2>3
    <2>5. ~s.hasCurrent
        BY <1>2 DEF CanDispatch
    <2>6. \A i \in s.queue : i.task = next.task => i = next
        BY <2>1 DEF ServiceCore, QueueSane
    <2>7. \A t \in Task : /\ Runs(r, t) <=> t = next.task
                          /\ ~Runs(s, t)
                          /\ Queued(r, t) <=> Queued(s, t) /\ t # next.task
        BY <2>3, <2>4, <2>5, <2>6 DEF Runs, Queued
    <2>8. Queued(s, next.task)
        BY <2>1 DEF Queued
    <2>9. Moves(s, r, {})
        BY <2>3, <2>4, <2>7, <2>8 DEF Moves, Shifts
    <2> QED BY <1>2, <2>9 DEF DispatchNextTask, r
<1> QED BY <1>1, <1>2

LEMMA FireDispatchMoves ==
    ASSUME NEW s \in Service, NEW rate \in Nat \ {0}, now \in Time, ServiceCore(s, now)
    PROVE  Moves(s, FireDispatch(s, now, rate), {})
<1> DEFINE r == [s EXCEPT !.dispatch = FALSE]
<1>1. r \in Service
    BY DEF Service
<1>2. SameSlot(r, s) /\ r.available = s.available
    BY DEF Service, SameSlot
<1>3. FireDispatch(s, now, rate) = DispatchNextTask(r, now, rate)
    BY DEF FireDispatch
<1> HIDE DEF r
<1>4. Moves(r, DispatchNextTask(r, now, rate), {})
    BY <1>1, <1>2, SameSlotKeeps, DispatchNextTaskMoves
<1>5. Moves(s, r, {})
    BY <1>2, SameSlotMoves DEF Moves, Shifts, SameSlot
<1>6. {} \cup {} = {}
    OBVIOUS
<1> QED BY <1>3, <1>4, <1>5, <1>6, MovesCompose

\* A completion takes its run out of the service and may start another.
LEMMA CompleteCurrentTaskMoves ==
    ASSUME NEW s \in Service, NEW rate \in Nat \ {0}, NEW deferDispatch \in BOOLEAN,
           now \in Time, ServiceCore(s, now), CompletionLegal(s, now),
           s.owner = NoTask, ~s.runningRecovery
    PROVE  LET r == CompleteCurrentTask(s, now, rate, deferDispatch) IN
           /\ Moves(s, r, {s.current.task})
           /\ deferDispatch => Settles(s, r)
<1> DEFINE v == Vacated(s)
           out == {s.current.task}
<1>1. v \in Service /\ ServiceCore(v, now)
    BY VacatedKeeps
<1>2. /\ v.running = s.running /\ v.available = s.available /\ v.known = s.known
      /\ v.owner = s.owner /\ v.runningRecovery = s.runningRecovery
      /\ v.queue = s.queue /\ v.hasCurrent = FALSE
    BY DEF Vacated, Service
<1>3. s.hasCurrent /\ \A i \in s.queue : i.task # s.current.task
    BY DEF CompletionLegal, CompletionDue, ServiceCore, CurrentSane
<1> HIDE DEF v
<1>4. \A t \in Task : /\ Queued(v, t) <=> Queued(s, t)
                      /\ ~Runs(v, t)
                      /\ Runs(s, t) <=> t \in out
                      /\ t \in out => ~Queued(s, t)
    BY <1>2, <1>3 DEF Queued, Runs
<1>5. Moves(s, v, out) /\ Settles(s, v)
    BY <1>2, <1>4 DEF Moves, Shifts, Settles
<1>6. CASE deferDispatch
    <2>1. Moves(v, RequestDispatch(v), {}) /\ Settles(v, RequestDispatch(v))
        BY <1>1, RequestDispatchMoves
    <2>2. Moves(s, RequestDispatch(v), out)
        <3>1. out \cup {} = out
            OBVIOUS
        <3> HIDE DEF out
        <3> QED BY <1>5, <2>1, <3>1, MovesCompose
    <2>3. Settles(s, RequestDispatch(v))
        BY <1>5, <2>1 DEF Settles
    <2> QED BY <1>6, <2>2, <2>3 DEF CompleteCurrentTask, v
<1>7. CASE ~deferDispatch
    <2>1. Moves(v, DispatchNextTask(v, now, rate), {})
        BY <1>1, DispatchNextTaskMoves
    <2>2. Moves(s, DispatchNextTask(v, now, rate), out)
        <3>1. out \cup {} = out
            OBVIOUS
        <3> HIDE DEF out
        <3> QED BY <1>5, <2>1, <3>1, MovesCompose
    <2> QED BY <1>7, <2>2 DEF CompleteCurrentTask, v
<1> QED BY <1>6, <1>7

LEMMA CancelRunningMoves ==
    ASSUME NEW s \in Service, NEW t \in Task, now \in Time, ServiceCore(s, now),
           Runs(s, t), ~s.runningRecovery
    PROVE  LET r == CancelRunningTaskForFailure(s, t, now) IN
           Moves(s, r, {t}) /\ Settles(s, r)
<1> DEFINE spent == BusyTimeNs(s, now)
           c == [s EXCEPT !.completion = FALSE, !.busy = spent, !.hasCurrent = FALSE,
                          !.current = NoRun, !.cancelled = s.cancelled + 1]
<1>1. CancelRunningTaskForFailure(s, t, now) = RequestDispatch(c)
    BY DEF CancelRunningTaskForFailure, Runs
<1>2. spent \in Nat
    BY BusyTimeBounds
<1> HIDE DEF spent
<1>3. c \in Service
    <2>1. s.cancelled + 1 \in Nat /\ NoRun \in Run
        BY DEF Service, Run
    <2> QED BY <1>2, <2>1 DEF Service
<1>4. /\ c.running = s.running /\ c.available = s.available /\ c.known = s.known
      /\ c.owner = s.owner /\ c.runningRecovery = s.runningRecovery
      /\ c.queue = s.queue /\ c.hasCurrent = FALSE
    BY DEF Service
<1> HIDE DEF c
<1>5. \A u \in Task : /\ Queued(c, u) <=> Queued(s, u)
                      /\ ~Runs(c, u)
                      /\ Runs(s, u) <=> u = t
    BY <1>4 DEF Queued, Runs
<1>6. ~Queued(s, t)
    BY QueuedOrRuns
<1>7. Moves(s, c, {t}) /\ Settles(s, c)
    BY <1>4, <1>5, <1>6 DEF Moves, Shifts, Settles
<1>8. Moves(c, RequestDispatch(c), {}) /\ Settles(c, RequestDispatch(c))
    BY <1>3, RequestDispatchMoves
<1>9. {t} \cup {} = {t}
    OBVIOUS
<1>10. Moves(s, RequestDispatch(c), {t})
    BY <1>7, <1>8, <1>9, MovesCompose
<1> QED BY <1>1, <1>7, <1>8, <1>10 DEF Settles

\* Removing failed tasks from the queue leaves the slot alone.
LEMMA RemoveQueuedTasksKeeps ==
    ASSUME NEW s \in Service, NEW gone, now \in Time, ServiceCore(s, now), DispatchArmed(s)
    PROVE  LET r == RemoveQueuedTasks(s, gone) IN
           /\ r \in Service /\ ServiceCore(r, now) /\ DispatchArmed(r)
           /\ CompletionAllowed(s) => CompletionAllowed(r)
           /\ r.hasCurrent = s.hasCurrent /\ r.current = s.current
           /\ r.runningRecovery = s.runningRecovery
           /\ Settles(s, r)
           /\ ~(s.hasCurrent /\ s.current.task \in gone) => Moves(s, r, gone)
<1> DEFINE out == {i \in s.queue : i.task \in gone}
           rest == {i \in s.queue : i.task \notin gone}
           count == s.removed + Cardinality(out)
           r == [s EXCEPT !.queue = rest, !.removed = count]
<1>1. IsFiniteSet(s.queue) /\ Cardinality(s.queue) \in Nat
    BY FS_CardinalityType DEF ServiceCore, QueueSane
<1>2. /\ IsFiniteSet(out) /\ IsFiniteSet(rest)
      /\ Cardinality(out) \in Nat /\ Cardinality(rest) \in Nat
    <2>1. out \subseteq s.queue /\ rest \subseteq s.queue
        OBVIOUS
    <2> HIDE DEF out, rest
    <2> QED BY <1>1, <2>1, FS_Subset, FS_CardinalityType
<1>3. Cardinality(rest) = Cardinality(s.queue) - Cardinality(out)
    <2>1. rest = s.queue \ out /\ s.queue \cap out = out
        OBVIOUS
    <2> HIDE DEF out, rest
    <2> QED BY <1>1, <1>2, <2>1, FS_Difference, ZenonT(60)
<1>4. RemoveQueuedTasks(s, gone) = r
    BY DEF RemoveQueuedTasks
<1>5. count \in Nat
    BY <1>2 DEF Service
<1>6. rest \subseteq s.queue /\ \A i \in s.queue : i \in rest <=> i.task \notin gone
    OBVIOUS
<1> HIDE DEF rest, count
<1>7. r \in Service
    BY <1>5, <1>6 DEF Service
<1>8. /\ r.running = s.running /\ r.available = s.available
      /\ r.queue = rest /\ r.known = s.known
      /\ r.hasCurrent = s.hasCurrent /\ r.current = s.current
      /\ r.dispatch = s.dispatch /\ r.completion = s.completion
      /\ r.owner = s.owner /\ r.runningRecovery = s.runningRecovery
      /\ r.immune = s.immune
      /\ r.enqueued = s.enqueued /\ r.completed = s.completed
      /\ r.cancelled = s.cancelled /\ r.removed = count /\ r.busy = s.busy
    BY DEF Service
<1> HIDE DEF r
<1>9. DispatchArmed(r) /\ SlotOwned(r) /\ CompletionTimely(r, now)
    BY <1>6, <1>8 DEF DispatchArmed, CanDispatch, ServiceCore, SlotOwned, CompletionTimely
<1>10. CompletionAllowed(s) => CompletionAllowed(r)
    BY <1>8 DEF CompletionAllowed, ImmuneRun
<1>11. QueueSane(r, now)
    BY <1>2, <1>6, <1>8 DEF ServiceCore, QueueSane
<1>12. CurrentSane(r, now)
    BY <1>6, <1>8 DEF ServiceCore, CurrentSane
<1>13. Conserved(r)
    <2>1. /\ s.completed \in Nat /\ s.cancelled \in Nat /\ s.removed \in Nat
        BY DEF Service
    <2>2. (IF s.hasCurrent THEN 1 ELSE 0) \in Nat
        OBVIOUS
    <2> HIDE DEF out
    <2> QED BY <1>1, <1>2, <1>3, <1>8, <2>1, <2>2 DEF ServiceCore, Conserved, count
<1>14. BusyBounded(r, now)
    BY <1>8 DEF ServiceCore, BusyBounded, BusyTimeNs
<1>15. \A t \in Task : /\ Queued(r, t) <=> Queued(s, t) /\ t \notin gone
                       /\ Runs(r, t) <=> Runs(s, t)
    BY <1>6, <1>8 DEF Queued, Runs
<1>16. ~(s.hasCurrent /\ s.current.task \in gone) => Moves(s, r, gone)
    <2>1. ~(s.hasCurrent /\ s.current.task \in gone) => \A t \in Task : t \in gone => ~Runs(s, t)
        BY DEF Runs
    <2> QED BY <1>8, <1>15, <2>1 DEF Moves, Shifts
<1> QED
    BY <1>4, <1>7, <1>8, <1>9, <1>10, <1>11, <1>12, <1>13, <1>14, <1>15, <1>16
    DEF ServiceCore, Settles

\* The run in the slot is a task's.
LEMMA CurrentTask ==
    ASSUME NEW s \in Service, ServiceCore(s, now), s.hasCurrent
    PROVE  s.current.task \in Task /\ Runs(s, s.current.task)
BY DEF ServiceCore, CurrentSane, Service, Run, Runs

\* Withdrawing failed tasks takes them, and only them, out of the service: it
\* also settles a run that an outage no longer lets complete.
LEMMA WithdrawKeeps ==
    ASSUME NEW s \in Service, NEW victims \in SUBSET Task, now \in Time,
           ServiceCore(s, now), DispatchArmed(s), ~s.runningRecovery,
           ~CompletionAllowed(s) => s.hasCurrent /\ s.current.task \in victims
    PROVE  LET r == Withdraw(s, victims) IN
           /\ r \in Service /\ ServiceInv(r, now)
           /\ Moves(s, r, victims) /\ Settles(s, r)
<1>1. CASE ~(s.hasCurrent /\ s.current.task \in victims)
    BY <1>1, RemoveQueuedTasksKeeps DEF Withdraw, ServiceInv
<1>2. CASE s.hasCurrent /\ s.current.task \in victims
    <2> DEFINE run == s.current.task
               before == {t \in victims : t < run}
               after == {t \in victims : t > run}
               a == RemoveQueuedTasks(s, before)
               b == CancelRunningTaskForFailure(a, run, now)
               c == RemoveQueuedTasks(b, after)
    <2>1. run \in Task /\ run \in victims
        BY <1>2
    <2>2. before \cup ({run} \cup after) = victims /\ run \notin before
        <3>1. run \in Nat /\ \A t \in victims : t \in Nat
            BY <2>1, TaskAssumption
        <3>2. \A t \in victims : t < run \/ t = run \/ t > run
            BY <3>1
        <3>3. run \notin before
            BY <3>1
        <3> QED BY <2>1, <3>2, <3>3
    <2>3. Withdraw(s, victims) = c
        BY <1>2 DEF Withdraw
    <2> HIDE DEF before, after, a, b, c
    <2>4. /\ a \in Service /\ ServiceCore(a, now) /\ DispatchArmed(a)
          /\ a.hasCurrent /\ a.current = s.current /\ ~a.runningRecovery
          /\ Moves(s, a, before) /\ Settles(s, a)
        BY <1>2, <2>2, RemoveQueuedTasksKeeps DEF a
    <2>5. Runs(a, run)
        BY <2>4 DEF Runs
    <2>6. b \in Service /\ ServiceInv(b, now)
        BY <2>1, <2>4, CancelRunningKeeps DEF b
    <2>7. Moves(a, b, {run}) /\ Settles(a, b)
        BY <2>1, <2>4, <2>5, CancelRunningMoves DEF b
    <2>8. \A t \in Task : ~Runs(b, t)
        BY <2>4, <2>7 DEF Moves, Shifts, Settles, Runs
    <2>9. ~b.hasCurrent
        BY <2>6, <2>8, CurrentTask DEF ServiceInv
    <2>10. /\ c \in Service /\ ServiceInv(c, now)
           /\ Moves(b, c, after) /\ Settles(b, c)
        BY <2>6, <2>9, RemoveQueuedTasksKeeps DEF c, ServiceInv
    <2>11. Moves(a, c, {run} \cup after)
        BY <2>7, <2>10, MovesCompose
    <2>12. Moves(s, c, victims)
        BY <2>2, <2>4, <2>11, MovesCompose
    <2>13. Settles(s, c)
        BY <2>4, <2>7, <2>10 DEF Settles
    <2> QED BY <2>3, <2>10, <2>12, <2>13
<1> QED BY <1>1, <1>2

\* A task that is submitted waits, and nothing else moves.
LEMMA SubmitTaskMoves ==
    ASSUME NEW s \in Service, NEW t \in Task, NEW w \in Work, now \in Time
    PROVE  LET r == SubmitTask(s, t, w, now) IN
           /\ r.running = s.running /\ r.available = s.available
           /\ r.owner = s.owner /\ r.runningRecovery = s.runningRecovery
           /\ r.known = s.known \cup {t} /\ r.current = s.current
           /\ \A u \in Task : /\ Queued(r, u) <=> Queued(s, u) \/ u = t
                              /\ Runs(r, u) <=> Runs(s, u)
<1> DEFINE item == [task |-> t, work |-> w, enter |-> now]
           r == [s EXCEPT !.known = s.known \cup {t}, !.queue = s.queue \cup {item},
                          !.enqueued = s.enqueued + 1]
<1>1. item.task = t
    OBVIOUS
<1> HIDE DEF item
<1>2. SubmitTask(s, t, w, now) = [r EXCEPT !.dispatch = r.dispatch \/ CanDispatch(r)]
    BY DEF SubmitTask, RequestDispatch, item
<1>3. /\ r.running = s.running /\ r.available = s.available
      /\ r.owner = s.owner /\ r.runningRecovery = s.runningRecovery
      /\ r.known = s.known \cup {t} /\ r.current = s.current
      /\ r.hasCurrent = s.hasCurrent /\ r.queue = s.queue \cup {item}
      /\ DOMAIN r = DOMAIN s
    BY DEF Service
<1> DEFINE q == [r EXCEPT !.dispatch = r.dispatch \/ CanDispatch(r)]
<1>4. /\ q.running = r.running /\ q.available = r.available
      /\ q.owner = r.owner /\ q.runningRecovery = r.runningRecovery
      /\ q.known = r.known /\ q.current = r.current
      /\ q.hasCurrent = r.hasCurrent /\ q.queue = r.queue
    BY DEF Service
<1> HIDE DEF r, q
<1>5. \A u \in Task : /\ Queued(q, u) <=> Queued(s, u) \/ u = t
                      /\ Runs(q, u) <=> Runs(s, u)
    BY <1>1, <1>3, <1>4 DEF Queued, Runs
<1> QED BY <1>2, <1>3, <1>4, <1>5 DEF q

\* Switching a node's availability completes at most the run that is due and
\* starts none; an outage leaves the run in the slot to be withdrawn.
LEMMA SwitchedKeeps ==
    ASSUME NEW n \in Server, NEW recovered, NEW down, now \in Time, Rate[n] \in Nat \ {0},
           svc[n] \in Service, ServiceInv(svc[n], now),
           svc[n].owner = NoTask, ~svc[n].runningRecovery
    PROVE  LET s == svc[n]
               r == Switched(n, recovered, down)
           IN /\ r \in Service /\ ServiceCore(r, now) /\ DispatchArmed(r)
              /\ n \notin down => CompletionAllowed(r)
              /\ r.running = s.running /\ r.known = s.known
              /\ r.owner = s.owner /\ r.runningRecovery = s.runningRecovery
              /\ n \in down => ~r.available
              /\ n \notin down /\ n \in recovered => r.available
              /\ n \notin down /\ n \notin recovered => r.available = s.available
              /\ Settles(s, r)
              /\ \A t \in Task : /\ Queued(r, t) <=> Queued(s, t)
                                 /\ Runs(r, t) => r.current = s.current
<1> DEFINE s == svc[n]
           up == IF n \in recovered THEN SetComputeAvailable(s, TRUE) ELSE s
           mid == IF Handlers /\ CompletionLegal(up, now)
                  THEN CompleteCurrentTask(up, now, Rate[n], TRUE) ELSE up
           r == Switched(n, recovered, down)
<1> HIDE DEF s
<1>0. s \in Service /\ ServiceInv(s, now) /\ s.owner = NoTask /\ ~s.runningRecovery
    BY DEF s
<1>1. /\ up \in Service /\ ServiceInv(up, now) /\ SameSlot(up, s)
      /\ up.available = IF n \in recovered THEN TRUE ELSE s.available
    <2>1. CASE n \in recovered
        BY <1>0, <2>1, OpenKeeps DEF Service
    <2>2. CASE n \notin recovered
        BY <1>0, <2>2 DEF SameSlot
    <2> QED BY <2>1, <2>2
<1>2. r = IF n \notin down THEN up ELSE SetComputeAvailable(mid, FALSE)
    BY DEF Switched, s
<1> HIDE DEF up, mid, r
<1>3. /\ up.running = s.running /\ up.known = s.known /\ up.owner = s.owner
      /\ up.runningRecovery = s.runningRecovery /\ up.current = s.current
    BY <1>1 DEF SameSlot
<1>4. \A t \in Task : /\ Queued(up, t) <=> Queued(s, t)
                      /\ Runs(up, t) <=> Runs(s, t)
    BY <1>1, SameSlotMoves
<1>5. CASE n \notin down
    BY <1>1, <1>2, <1>3, <1>4, <1>5 DEF ServiceInv, Settles, s, r
<1>6. CASE n \in down
    <2>1. /\ mid \in Service /\ ServiceCore(mid, now) /\ DispatchArmed(mid)
          /\ mid.running = s.running /\ mid.known = s.known
          /\ mid.owner = s.owner /\ mid.runningRecovery = s.runningRecovery
          /\ Settles(s, mid)
          /\ \A t \in Task : /\ Queued(mid, t) <=> Queued(s, t)
                             /\ Runs(mid, t) => mid.current = s.current
        <3>1. CASE Handlers /\ CompletionLegal(up, now)
            <4>1. mid = CompleteCurrentTask(up, now, Rate[n], TRUE)
                BY <3>1 DEF mid
            <4>2. ServiceCore(up, now) /\ up.owner = NoTask /\ ~up.runningRecovery
                BY <1>0, <1>1, <1>3 DEF ServiceInv
            <4>3. mid \in Service /\ ServiceInv(mid, now)
                BY <1>1, <3>1, <4>1, <4>2, CompleteCurrentTaskKeeps
            <4>4. Moves(up, mid, {up.current.task}) /\ Settles(up, mid)
                BY <1>1, <3>1, <4>1, <4>2, CompleteCurrentTaskMoves
            <4>5. up.hasCurrent
                BY <3>1 DEF CompletionLegal, CompletionDue
            <4>6. Runs(up, up.current.task)
                BY <4>5 DEF Runs
            <4>7. \A t \in Task : Runs(up, t) => ~Queued(up, t)
                BY <4>2, QueuedOrRuns
            <4>8. up.current.task \in Task
                BY <1>1, <4>2, <4>5, CurrentTask
            <4>9. \A t \in Task : Queued(mid, t) <=> Queued(up, t)
                BY <4>4, <4>6, <4>7, <4>8 DEF Moves, Shifts, Settles
            <4>10. \A t \in Task : Runs(mid, t) => mid.current = up.current
                BY <4>4 DEF Moves, Shifts, Settles
            <4>11. Settles(s, mid)
                BY <1>4, <4>4 DEF Settles
            <4>12. /\ mid.running = up.running /\ mid.known = up.known
                   /\ mid.owner = up.owner /\ mid.runningRecovery = up.runningRecovery
                BY <4>4 DEF Moves, Shifts
            <4> QED
                BY <1>3, <1>4, <4>3, <4>9, <4>10, <4>11, <4>12 DEF ServiceInv
        <3>2. CASE ~(Handlers /\ CompletionLegal(up, now))
            <4>1. mid = up
                BY <3>2 DEF mid
            <4> QED BY <1>1, <1>3, <1>4, <4>1 DEF ServiceInv, Settles
        <3> QED BY <3>1, <3>2
    <2>2. r = SetComputeAvailable(mid, FALSE)
        BY <1>2, <1>6
    <2>3. /\ r \in Service /\ ServiceCore(r, now) /\ DispatchArmed(r)
          /\ SameSlot(r, mid) /\ r.available = FALSE
        BY <2>1, <2>2, CloseKeeps
    <2>4. \A t \in Task : /\ Queued(r, t) <=> Queued(mid, t)
                          /\ Runs(r, t) <=> Runs(mid, t)
        BY <2>3, SameSlotMoves
    <2>5. /\ r.running = mid.running /\ r.known = mid.known /\ r.owner = mid.owner
          /\ r.runningRecovery = mid.runningRecovery /\ r.current = mid.current
        BY <2>3 DEF SameSlot
    <2>6. Settles(s, r)
        BY <2>1, <2>4 DEF Settles
    <2> QED BY <1>6, <2>1, <2>3, <2>4, <2>5, <2>6 DEF r, s
<1> QED BY <1>5, <1>6

-----------------------------------------------------------------------------
(* What happens to a task's record *)

\* The invariant of one record, at the instant `at'.
RecordSound(r, at) ==
    /\ r \in TaskRuntime
    /\ r.input = "started" <=> r.state = "INPUT_TRANSFERRING"
    /\ r.result = "started" <=> r.state = "RESULT_TRANSFERRING"
    /\ Terminal(r) => {r.input, r.result} \subseteq TerminalTransfer
    /\ r.state \in {"QUEUED", "RUNNING", "RESULT_TRANSFERRING"} => r.input = "completed"
    /\ r.timer <=> r.state = "RUNNING"
    /\ r.timer => at <= r.deadline
    /\ r.complete # NoTime =>
           r.complete <= r.deadline /\ r.state \in {"RESULT_TRANSFERRING"} \cup TerminalState

\* A record stays, or its task goes one stage further; a terminal one stays.
RecordStep(r, q) ==
    IF Terminal(r) THEN q = r
    ELSE q.state = r.state \/ <<r.state, q.state>> \in Lifecycle!NextStage

LEMMA Stages ==
    /\ <<"PENDING", "INPUT_TRANSFERRING">> \in Lifecycle!NextStage
    /\ <<"INPUT_TRANSFERRING", "QUEUED">> \in Lifecycle!NextStage
    /\ <<"QUEUED", "RUNNING">> \in Lifecycle!NextStage
    /\ <<"RUNNING", "RESULT_TRANSFERRING">> \in Lifecycle!NextStage
    /\ <<"RESULT_TRANSFERRING", "COMPLETED">> \in Lifecycle!NextStage
    /\ \A s \in State : s \notin TerminalState => <<s, "FAILED">> \in Lifecycle!NextStage
BY DEF Lifecycle!NextStage, Lifecycle!Stage, Lifecycle!TerminalStage, State, TerminalState

LEMMA StartedSound ==
    ASSUME NEW t \in Task, NEW r, now \in Time, RecordSound(r, now), r.state = "QUEUED"
    PROVE  LET q == Started(r, t) IN
           /\ RecordSound(q, now) /\ RecordStep(r, q)
           /\ q.state = "RUNNING" /\ q.start = now
<1> DEFINE q == [r EXCEPT !.state = "RUNNING", !.events = r.events + 1, !.start = now,
                          !.deadline = now + Budget[t], !.timer = TRUE]
<1>1. Started(r, t) = q
    BY DEF Started, Terminal, TerminalState, Transition
<1>2. now + Budget[t] \in Nat /\ now <= now + Budget[t] /\ r.events + 1 \in Nat
    BY LoadAssumption DEF RecordSound, TaskRuntime, Time
<1>3. q \in TaskRuntime
    BY <1>2 DEF RecordSound, TaskRuntime, State, Time
<1>4. /\ q.state = "RUNNING" /\ q.start = now /\ q.deadline = now + Budget[t]
      /\ q.timer = TRUE /\ q.complete = r.complete
      /\ q.input = r.input /\ q.result = r.result
    BY DEF RecordSound, TaskRuntime
<1> HIDE DEF q
<1>5. RecordSound(q, now)
    BY <1>2, <1>3, <1>4 DEF RecordSound, Terminal, TerminalState
<1>6. RecordStep(r, q)
    BY <1>4, Stages DEF RecordStep, Terminal, TerminalState
<1> QED BY <1>1, <1>4, <1>5, <1>6

LEMMA ComputedSound ==
    ASSUME NEW r, now \in Time, RecordSound(r, now), r.state = "RUNNING"
    PROVE  LET q == Computed(r) IN
           RecordSound(q, now) /\ RecordStep(r, q) /\ q.state = "RESULT_TRANSFERRING"
<1> DEFINE q == [r EXCEPT !.state = "RESULT_TRANSFERRING", !.events = r.events + 1,
                          !.complete = now, !.timer = FALSE, !.result = "started"]
<1>1. Computed(r) = q
    BY DEF Computed, Terminal, TerminalState, Transition
<1>2. r.events + 1 \in Nat
    BY DEF RecordSound, TaskRuntime
<1>3. q \in TaskRuntime
    BY <1>2 DEF RecordSound, TaskRuntime, State, Transfer, Time
<1>4. /\ q.state = "RESULT_TRANSFERRING" /\ q.deadline = r.deadline /\ q.complete = now
      /\ q.timer = FALSE /\ q.input = r.input /\ q.result = "started"
    BY DEF RecordSound, TaskRuntime
<1> HIDE DEF q
<1>5. RecordSound(q, now)
    BY <1>3, <1>4 DEF RecordSound, Terminal, TerminalState
<1>6. RecordStep(r, q)
    BY <1>4, Stages DEF RecordStep, Terminal, TerminalState
<1> QED BY <1>1, <1>4, <1>5, <1>6

LEMMA FinalizedTransfer ==
    ASSUME NEW x \in Transfer, NEW y \in TerminalTransfer
    PROVE  Finalized(x, y) \in TerminalTransfer /\ TerminalTransfer \subseteq Transfer
BY DEF Finalized, TerminalTransfer, Transfer

\* Every failure ends the record with its deadline event cancelled and both
\* transfers finalized; only what it does to the transfers differs.
LEMMA FailedSound ==
    ASSUME NEW r, NEW q, now \in Time, RecordSound(r, now), ~Terminal(r),
           NEW input \in TerminalTransfer, NEW result \in TerminalTransfer,
           q = [r EXCEPT !.state = "FAILED", !.events = r.events + 1, !.timer = FALSE,
                         !.input = input, !.result = result]
    PROVE  RecordSound(q, now) /\ RecordStep(r, q) /\ q.state = "FAILED"
<1>1. r.events + 1 \in Nat
    BY DEF RecordSound, TaskRuntime
<1>2. input \in Transfer /\ result \in Transfer /\ input # "started" /\ result # "started"
    BY DEF TerminalTransfer, Transfer
<1>3. q \in TaskRuntime
    BY <1>1, <1>2 DEF RecordSound, TaskRuntime, State, TerminalState
<1>4. /\ q.state = "FAILED" /\ q.deadline = r.deadline /\ q.complete = r.complete
      /\ q.timer = FALSE /\ q.input = input /\ q.result = result
    BY DEF RecordSound, TaskRuntime
<1>5. RecordSound(q, now)
    BY <1>2, <1>3, <1>4 DEF RecordSound, Terminal, TerminalState
<1>6. RecordStep(r, q)
    BY <1>4, Stages DEF RecordStep, Terminal, RecordSound, TaskRuntime
<1> QED BY <1>4, <1>5, <1>6

LEMMA FailedByComputeSound ==
    ASSUME NEW r, now \in Time, RecordSound(r, now), r.state = "RUNNING"
    PROVE  LET q == FailedByCompute(r) IN
           RecordSound(q, now) /\ RecordStep(r, q) /\ q.state = "FAILED"
<1> DEFINE result == Finalized(r.result, "cancelled")
<1>1. ~Terminal(r) /\ r.input = "completed"
    BY DEF Terminal, TerminalState, RecordSound
<1>2. result \in TerminalTransfer /\ r.input \in TerminalTransfer
    BY <1>1, FinalizedTransfer DEF RecordSound, TaskRuntime, TerminalTransfer
<1>3. FailedByCompute(r) =
          [r EXCEPT !.state = "FAILED", !.events = r.events + 1, !.timer = FALSE,
                    !.input = r.input, !.result = result]
    BY <1>1 DEF FailedByCompute, Transition, RecordSound, TaskRuntime
<1> HIDE DEF result
<1> QED BY <1>1, <1>2, <1>3, FailedSound

LEMMA FailedBySatelliteSound ==
    ASSUME NEW r, NEW t \in Task, NEW down, now \in Time, RecordSound(r, now), ~Terminal(r)
    PROVE  LET q == FailedBySatellite(r, t, down) IN
           RecordSound(q, now) /\ RecordStep(r, q) /\ q.state = "FAILED"
<1> DEFINE delivered == r.state \notin {"PENDING", "INPUT_TRANSFERRING"}
           lostInput == IF r.state = "INPUT_TRANSFERRING"
                           /\ down \cap {SourceNode[t], HostNode[t]} # {}
                        THEN "failed" ELSE "cancelled"
           input == IF delivered THEN r.input ELSE Finalized(r.input, lostInput)
           lostResult == IF r.state = "RESULT_TRANSFERRING" THEN "failed" ELSE "cancelled"
           result == Finalized(r.result, lostResult)
<1>1. lostInput \in TerminalTransfer /\ lostResult \in TerminalTransfer
    BY DEF TerminalTransfer
<1>2. delivered => r.input = "completed"
    BY DEF RecordSound, TaskRuntime, State, Terminal
<1>3. FailedBySatellite(r, t, down) =
          [r EXCEPT !.state = "FAILED", !.events = r.events + 1, !.timer = FALSE,
                    !.input = input, !.result = result]
    BY DEF FailedBySatellite, Transition, RecordSound, TaskRuntime
<1> HIDE DEF lostInput, lostResult
<1>4. input \in TerminalTransfer /\ result \in TerminalTransfer
    BY <1>1, <1>2, FinalizedTransfer DEF RecordSound, TaskRuntime, TerminalTransfer
<1> DEFINE q == FailedBySatellite(r, t, down)
<1> HIDE DEF input, result, q
<1>5. q = [r EXCEPT !.state = "FAILED", !.events = r.events + 1, !.timer = FALSE,
                    !.input = input, !.result = result]
    BY <1>3 DEF q
<1>6. RecordSound(q, now) /\ RecordStep(r, q) /\ q.state = "FAILED"
    BY <1>4, <1>5, FailedSound
<1> QED BY <1>6 DEF q

LEMMA FailedAtEndSound ==
    ASSUME NEW r, now \in Time, RecordSound(r, now)
    PROVE  LET q == FailedAtEnd(r) IN
           /\ RecordSound(q, now) /\ RecordStep(r, q)
           /\ q.state = IF Terminal(r) THEN r.state ELSE "FAILED"
<1>1. CASE Terminal(r)
    BY <1>1 DEF FailedAtEnd, RecordStep
<1>2. CASE ~Terminal(r)
    <2> DEFINE input == Finalized(r.input, "cancelled")
               result == Finalized(r.result, "cancelled")
    <2>1. input \in TerminalTransfer /\ result \in TerminalTransfer
        BY FinalizedTransfer DEF RecordSound, TaskRuntime, TerminalTransfer
    <2>2. FailedAtEnd(r) =
              [r EXCEPT !.state = "FAILED", !.events = r.events + 1, !.timer = FALSE,
                        !.input = input, !.result = result]
        BY <1>2 DEF FailedAtEnd, Transition, RecordSound, TaskRuntime
    <2> DEFINE q == FailedAtEnd(r)
    <2> HIDE DEF input, result, q
    <2>3. q = [r EXCEPT !.state = "FAILED", !.events = r.events + 1, !.timer = FALSE,
                        !.input = input, !.result = result]
        BY <2>2 DEF q
    <2>4. RecordSound(q, now) /\ RecordStep(r, q) /\ q.state = "FAILED"
        BY <1>2, <2>1, <2>3, FailedSound
    <2> QED BY <1>2, <2>4 DEF q
<1> QED BY <1>1, <1>2

\* The transitions that the transfers cause.
LEMMA InputStartedSound ==
    ASSUME NEW r, now \in Time, RecordSound(r, now), r.state = "PENDING"
    PROVE  LET q == [Transition(r, "INPUT_TRANSFERRING") EXCEPT !.input = "started"] IN
           RecordSound(q, now) /\ RecordStep(r, q) /\ q.state = "INPUT_TRANSFERRING"
<1> DEFINE q == [r EXCEPT !.state = "INPUT_TRANSFERRING", !.events = r.events + 1,
                          !.input = "started"]
<1>1. [Transition(r, "INPUT_TRANSFERRING") EXCEPT !.input = "started"] = q
    BY DEF Transition
<1>2. r.events + 1 \in Nat
    BY DEF RecordSound, TaskRuntime
<1>3. q \in TaskRuntime
    BY <1>2 DEF RecordSound, TaskRuntime, State, Transfer
<1>4. /\ q.state = "INPUT_TRANSFERRING" /\ q.deadline = r.deadline
      /\ q.complete = r.complete /\ q.timer = r.timer
      /\ q.input = "started" /\ q.result = r.result
    BY DEF RecordSound, TaskRuntime
<1> HIDE DEF q
<1>5. RecordSound(q, now)
    BY <1>3, <1>4 DEF RecordSound, Terminal, TerminalState
<1>6. RecordStep(r, q)
    BY <1>4, Stages DEF RecordStep, Terminal, TerminalState
<1> QED BY <1>1, <1>4, <1>5, <1>6

LEMMA InputDeliveredSound ==
    ASSUME NEW r, now \in Time, RecordSound(r, now), r.state = "INPUT_TRANSFERRING"
    PROVE  LET q == Transition([r EXCEPT !.input = "completed"], "QUEUED") IN
           RecordSound(q, now) /\ RecordStep(r, q) /\ q.state = "QUEUED"
<1> DEFINE q == [r EXCEPT !.input = "completed", !.state = "QUEUED",
                          !.events = r.events + 1]
<1>1. Transition([r EXCEPT !.input = "completed"], "QUEUED") = q
    BY DEF Transition, RecordSound, TaskRuntime
<1>2. r.events + 1 \in Nat
    BY DEF RecordSound, TaskRuntime
<1>3. q \in TaskRuntime
    BY <1>2 DEF RecordSound, TaskRuntime, State, Transfer, TerminalTransfer
<1>4. /\ q.state = "QUEUED" /\ q.deadline = r.deadline
      /\ q.complete = r.complete /\ q.timer = r.timer
      /\ q.input = "completed" /\ q.result = r.result
    BY DEF RecordSound, TaskRuntime
<1> HIDE DEF q
<1>5. RecordSound(q, now)
    BY <1>3, <1>4 DEF RecordSound, Terminal, TerminalState
<1>6. RecordStep(r, q)
    BY <1>4, Stages DEF RecordStep, Terminal, TerminalState
<1> QED BY <1>1, <1>4, <1>5, <1>6

LEMMA ResultDeliveredSound ==
    ASSUME NEW r, now \in Time, RecordSound(r, now), r.state = "RESULT_TRANSFERRING"
    PROVE  LET q == Transition([r EXCEPT !.result = "completed"], "COMPLETED") IN
           RecordSound(q, now) /\ RecordStep(r, q) /\ q.state = "COMPLETED"
<1> DEFINE q == [r EXCEPT !.result = "completed", !.state = "COMPLETED",
                          !.events = r.events + 1]
<1>1. Transition([r EXCEPT !.result = "completed"], "COMPLETED") = q
    BY DEF Transition, RecordSound, TaskRuntime
<1>2. r.events + 1 \in Nat
    BY DEF RecordSound, TaskRuntime
<1>3. q \in TaskRuntime
    BY <1>2 DEF RecordSound, TaskRuntime, State, TerminalState, Transfer, TerminalTransfer
<1>4. /\ q.state = "COMPLETED" /\ q.deadline = r.deadline
      /\ q.complete = r.complete /\ q.timer = r.timer
      /\ q.input = r.input /\ q.result = "completed"
    BY DEF RecordSound, TaskRuntime
<1> HIDE DEF q
<1>5. RecordSound(q, now)
    BY <1>3, <1>4 DEF RecordSound, Terminal, TerminalState, TerminalTransfer
<1>6. RecordStep(r, q)
    BY <1>4, Stages DEF RecordStep, Terminal, TerminalState
<1> QED BY <1>1, <1>4, <1>5, <1>6

-----------------------------------------------------------------------------
(* The invariant, one service, one record and one pair of them at a time *)

ServiceSound(s, at) ==
    ServiceInv(s, at) /\ s.running /\ s.owner = NoTask /\ ~s.runningRecovery

AliveAt(t, state, dead) == state = "PENDING" \/ Needed(t, state) \cap dead = {}

\* The service s of node n and the record r of task t agree.
Linked(n, s, t, r) ==
    /\ Queued(s, t) <=> HostNode[t] = n /\ r.state = "QUEUED"
    /\ Runs(s, t) <=> HostNode[t] = n /\ r.state = "RUNNING"
    /\ Runs(s, t) => s.current.start = r.start
    /\ t \in s.known => HostNode[t] = n /\ r.state \notin {"PENDING", "INPUT_TRANSFERRING"}

Fits(services, tasks, at, dead) ==
    /\ services \in [Server -> Service]
    /\ tasks \in [Task -> TaskRuntime]
    /\ \A n \in Server : ServiceSound(services[n], at)
    /\ \A t \in Task : RecordSound(tasks[t], at) /\ AliveAt(t, tasks[t].state, dead)
    /\ \A t \in Task, n \in Server : Linked(n, services[n], t, tasks[t])

Sound ==
    /\ now \in 0..StopTime /\ late \in BOOLEAN /\ batched \in BOOLEAN
    /\ fault \in [Sat -> FaultKind] /\ faults \in 0..MaxFaults /\ ended \in BOOLEAN
    /\ Fits(svc, task, now, Dead)
    /\ AvailabilityAgrees

LEMMA SoundOfIInv == IInv => Sound
<1> SUFFICES ASSUME IInv PROVE Sound
    OBVIOUS
<1>1. \A n \in Server : ServiceSound(svc[n], now)
    BY DEF IInv, ServicesPlain, ServicesSound, ServiceSound
<1>2. \A t \in Task : RecordSound(task[t], now)
    BY DEF IInv, TypeOK, TransfersFollow, DeadlineHolds, RecordSound
<1>3. \A t \in Task : AliveAt(t, task[t].state, Dead)
    BY DEF IInv, NoneOnDeadSatellite, AliveAt
<1>4. \A t \in Task, n \in Server : Linked(n, svc[n], t, task[t])
    BY DEF IInv, ServicesAgree, ServicesPlain, Linked
<1> QED BY <1>1, <1>2, <1>3, <1>4 DEF IInv, TypeOK, Sound, Fits

LEMMA IInvOfSound == Sound => IInv
<1> SUFFICES ASSUME Sound PROVE IInv
    OBVIOUS
<1>1. TypeOK /\ AvailabilityAgrees
    BY DEF Sound, Fits, TypeOK
<1>2. ServicesPlain
    <2>1. \A n \in Server : svc[n].known \subseteq Task
        BY DEF Sound, Fits, Service
    <2> QED BY <2>1 DEF Sound, Fits, ServiceSound, Linked, ServicesPlain
<1>3. ServicesSound /\ ServicesAgree
    BY DEF Sound, Fits, ServiceSound, Linked, ServicesSound, ServicesAgree
<1>4. NoneOnDeadSatellite
    BY DEF Sound, Fits, AliveAt, NoneOnDeadSatellite
<1>5. TransfersFollow /\ DeadlineHolds
    BY DEF Sound, Fits, RecordSound, TransfersFollow, DeadlineHolds
<1> QED BY <1>1, <1>2, <1>3, <1>4, <1>5 DEF IInv

LEMMA ClockType == now \in 0..StopTime => now \in Time
BY LoadAssumption DEF Time

\* What a satellite's loss fails does not grow from stage to stage.
LEMMA NeededNarrows ==
    ASSUME NEW t \in Task
    PROVE  /\ Needed(t, "INPUT_TRANSFERRING") = Needed(t, "PENDING")
           /\ HostNode[t] \in Needed(t, "INPUT_TRANSFERRING")
           /\ Needed(t, "QUEUED") \subseteq Needed(t, "INPUT_TRANSFERRING")
           /\ Needed(t, "RUNNING") = Needed(t, "QUEUED")
           /\ Needed(t, "RESULT_TRANSFERRING") = Needed(t, "RUNNING")
           /\ Needed(t, "COMPLETED") = {} /\ Needed(t, "FAILED") = {}
BY DEF Needed, TerminalState

\* A service that is left alone holds none of the tasks that move.
LEMMA Untouched ==
    ASSUME Sound, NEW n \in Server, NEW out,
           \A t \in Task : t \in out =>
               HostNode[t] # n \/ task[t].state \notin {"QUEUED", "RUNNING"}
    PROVE  Shifts(svc[n], svc[n], out)
BY DEF Sound, Fits, Linked, Shifts

\* The tasks in `out' leave their services and get the records in K; a task
\* whose run is new has started; nothing else changes.
LEMMA StepSound ==
    ASSUME Sound, NEW S \in [Server -> Service], NEW K, K = [t \in Task |-> K[t]],
           NEW out, NEW dead,
           \A n \in Server : ServiceSound(S[n], now) /\ Shifts(svc[n], S[n], out),
           \A t \in Task : t \in out =>
               /\ RecordSound(K[t], now) /\ RecordStep(task[t], K[t])
               /\ K[t].state \notin {"PENDING", "QUEUED", "RUNNING"}
               /\ K[t].state = "INPUT_TRANSFERRING" => task[t].state = "PENDING"
               /\ AliveAt(t, K[t].state, dead),
           \A t \in Task : t \notin out =>
               /\ K[t] = IF Runs(S[HostNode[t]], t) /\ ~Runs(svc[HostNode[t]], t)
                         THEN Started(task[t], t) ELSE task[t]
               /\ AliveAt(t, task[t].state, dead)
    PROVE  Fits(S, K, now, dead) /\ \A t \in Task : RecordStep(task[t], K[t])
<1>0. now \in Time /\ HostNode \in [Task -> Server]
    BY ClockType, NodeAssumption DEF Sound
<1>1. \A t \in Task : RecordSound(task[t], now)
    BY DEF Sound, Fits
<1>2. \A t \in Task, n \in Server : Linked(n, svc[n], t, task[t])
    BY DEF Sound, Fits
<1>3. ASSUME NEW t \in Task, t \notin out, Runs(S[HostNode[t]], t), ~Runs(svc[HostNode[t]], t)
      PROVE  /\ RecordSound(K[t], now) /\ RecordStep(task[t], K[t])
             /\ K[t].state = "RUNNING" /\ K[t].start = now /\ task[t].state = "QUEUED"
             /\ AliveAt(t, K[t].state, dead)
    <2>1. HostNode[t] \in Server
        BY <1>0
    <2>2. Queued(svc[HostNode[t]], t)
        BY <1>3, <2>1 DEF Shifts
    <2>3. task[t].state = "QUEUED"
        BY <1>2, <2>1, <2>2 DEF Linked
    <2>4. K[t] = Started(task[t], t)
        BY <1>3
    <2>5. /\ RecordSound(K[t], now) /\ RecordStep(task[t], K[t])
          /\ K[t].state = "RUNNING" /\ K[t].start = now
        BY <1>0, <1>1, <2>3, <2>4, StartedSound
    <2>6. AliveAt(t, "RUNNING", dead)
        BY <1>3, <2>3, NeededNarrows DEF AliveAt
    <2> QED BY <2>3, <2>5, <2>6
<1>4. ASSUME NEW t \in Task, t \notin out, ~(Runs(S[HostNode[t]], t) /\ ~Runs(svc[HostNode[t]], t))
      PROVE  K[t] = task[t]
    BY <1>4
<1>5. ASSUME NEW t \in Task
      PROVE  RecordSound(K[t], now) /\ RecordStep(task[t], K[t]) /\ AliveAt(t, K[t].state, dead)
    <2>1. CASE t \in out
        BY <2>1
    <2>2. CASE t \notin out /\ Runs(S[HostNode[t]], t) /\ ~Runs(svc[HostNode[t]], t)
        BY <1>3, <2>2
    <2>3. CASE t \notin out /\ ~(Runs(S[HostNode[t]], t) /\ ~Runs(svc[HostNode[t]], t))
        <3>1. K[t] = task[t]
            BY <1>4, <2>3
        <3>2. RecordStep(task[t], task[t])
            BY DEF RecordStep
        <3> QED BY <1>1, <2>3, <3>1, <3>2
    <2> QED BY <2>1, <2>2, <2>3
<1>6. ASSUME NEW t \in Task, NEW n \in Server PROVE Linked(n, S[n], t, K[t])
    <2>1. Linked(n, svc[n], t, task[t]) /\ Shifts(svc[n], S[n], out) /\ HostNode[t] \in Server
        BY <1>0, <1>2
    <2>2. CASE t \in out
        BY <2>1, <2>2 DEF Linked, Shifts
    <2>3. CASE t \notin out /\ Runs(S[HostNode[t]], t) /\ ~Runs(svc[HostNode[t]], t)
        <3>1. K[t].state = "RUNNING" /\ K[t].start = now /\ task[t].state = "QUEUED"
            BY <1>3, <2>3
        <3>2. CASE n = HostNode[t]
            <4>1. Runs(S[n], t) /\ S[n].current.start = now
                BY <2>1, <2>3, <3>2 DEF Shifts
            <4>2. ServiceCore(S[n], now)
                BY DEF ServiceSound, ServiceInv
            <4>3. ~Queued(S[n], t)
                BY <4>1, <4>2, QueuedOrRuns
            <4> QED BY <2>1, <3>1, <3>2, <4>1, <4>3 DEF Linked, Shifts
        <3>3. CASE n # HostNode[t]
            BY <2>1, <3>1, <3>3 DEF Linked, Shifts
        <3> QED BY <3>2, <3>3
    <2>4. CASE t \notin out /\ ~(Runs(S[HostNode[t]], t) /\ ~Runs(svc[HostNode[t]], t))
        <3>1. K[t] = task[t]
            BY <1>4, <2>4
        <3>2. CASE n = HostNode[t]
            BY <2>1, <2>4, <3>1, <3>2 DEF Linked, Shifts
        <3>3. CASE n # HostNode[t]
            BY <2>1, <3>1, <3>3 DEF Linked, Shifts
        <3> QED BY <3>2, <3>3
    <2> QED BY <2>2, <2>3, <2>4
<1>7. K \in [Task -> TaskRuntime]
    <2>1. \A t \in Task : K[t] \in TaskRuntime
        BY <1>5 DEF RecordSound
    <2> QED BY <2>1
<1> QED BY <1>5, <1>6, <1>7 DEF Fits

-----------------------------------------------------------------------------
(* The actions *)

\* What is shown of every step.
Advances ==
    /\ Sound' /\ Dead \subseteq Dead'
    /\ \A t \in Task : RecordStep(task[t], task'[t])

\* A step in which no fault starts or ends and time stands still.
LEMMA FaultFree ==
    ASSUME Sound, UNCHANGED <<now, fault, faults>>,
           late' \in BOOLEAN, batched' \in BOOLEAN, ended' \in BOOLEAN,
           Fits(svc', task', now, Dead),
           \A n \in Server : svc'[n].available = svc[n].available,
           \A t \in Task : RecordStep(task[t], task'[t])
    PROVE  Advances
<1>1. Dead' = Dead
    BY DEF Dead
<1>2. Fits(svc', task', now', Dead')
    BY <1>1
<1>3. AvailabilityAgrees'
    BY DEF Sound, AvailabilityAgrees
<1> QED BY <1>1, <1>2, <1>3 DEF Sound, Advances

\* Only node n's service changes.
LEMMA OneService ==
    ASSUME Sound, NEW n \in Server, NEW s \in Service, NEW out,
           ServiceSound(s, now), Moves(svc[n], s, out),
           \A t \in Task : t \in out =>
               HostNode[t] = n \/ task[t].state \notin {"QUEUED", "RUNNING"}
    PROVE  LET S == [svc EXCEPT ![n] = s] IN
           /\ S \in [Server -> Service]
           /\ \A m \in Server : /\ ServiceSound(S[m], now) /\ Shifts(svc[m], S[m], out)
                                /\ S[m].available = svc[m].available
           /\ \A t \in Task : Runs(S[HostNode[t]], t) /\ ~Runs(svc[HostNode[t]], t)
                              <=> Runs(s, t) /\ ~Runs(svc[n], t)
<1> DEFINE S == [svc EXCEPT ![n] = s]
<1>1. svc \in [Server -> Service] /\ \A m \in Server : ServiceSound(svc[m], now)
    BY DEF Sound, Fits
<1>2. S \in [Server -> Service] /\ S[n] = s /\ \A m \in Server : m # n => S[m] = svc[m]
    BY <1>1
<1> HIDE DEF S
<1>3. ASSUME NEW m \in Server
      PROVE  /\ ServiceSound(S[m], now) /\ Shifts(svc[m], S[m], out)
             /\ S[m].available = svc[m].available
    <2>1. CASE m = n
        BY <1>2, <2>1 DEF Moves
    <2>2. CASE m # n
        <3>1. Shifts(svc[m], svc[m], out)
            BY <2>2, Untouched
        <3> QED BY <1>1, <1>2, <2>2, <3>1
    <2> QED BY <2>1, <2>2
<1>4. ASSUME NEW t \in Task
      PROVE  Runs(S[HostNode[t]], t) /\ ~Runs(svc[HostNode[t]], t)
             <=> Runs(s, t) /\ ~Runs(svc[n], t)
    <2>1. HostNode[t] \in Server /\ Linked(n, svc[n], t, task[t])
        BY NodeAssumption DEF Sound, Fits
    <2>2. Runs(s, t) => Runs(svc[n], t) \/ Queued(svc[n], t)
        BY DEF Moves, Shifts
    <2>3. CASE HostNode[t] = n
        BY <1>2, <2>3
    <2>4. CASE HostNode[t] # n
        <3>1. ~Runs(svc[n], t) /\ ~Queued(svc[n], t)
            BY <2>1, <2>4 DEF Linked
        <3>2. S[HostNode[t]] = svc[HostNode[t]]
            BY <1>2, <2>1, <2>4
        <3> QED BY <2>2, <3>1, <3>2
    <2> QED BY <2>3, <2>4
<1> QED BY <1>2, <1>3, <1>4 DEF S

\* What Sound says of one node and of one task.
LEMMA SoundParts ==
    ASSUME Sound
    PROVE  /\ now \in Time
           /\ svc \in [Server -> Service] /\ task \in [Task -> TaskRuntime]
           /\ \A n \in Server :
                /\ svc[n] \in Service /\ ServiceSound(svc[n], now)
                /\ ServiceCore(svc[n], now) /\ Rate[n] \in Nat \ {0}
           /\ \A t \in Task :
                /\ RecordSound(task[t], now) /\ AliveAt(t, task[t].state, Dead)
                /\ HostNode[t] \in Server /\ WorkOf[t] \in Work
                /\ \A n \in Server : Linked(n, svc[n], t, task[t])
BY ClockType, NodeAssumption, LoadAssumption DEF Sound, Fits, ServiceSound, ServiceInv

\* An event at a node that completes its run, be it the completion or the
\* deadline that finds it due.
LEMMA CompleteRunAdvances ==
    ASSUME Sound, NEW n \in Server, CompletionLegal(svc[n], now), CompleteRun(n),
           UNCHANGED <<now, late, batched, fault, faults, ended>>
    PROVE  Advances
<1> DEFINE s == CompleteCurrentTask(svc[n], now, Rate[n], FALSE)
           done == svc[n].current.task
           out == {done}
           S == [svc EXCEPT ![n] = s]
           k == [task EXCEPT ![done] = Computed(@)]
           K == WithStart(k, n, s)
<1>1. svc' = S /\ task' = K
    BY DEF CompleteRun
<1>2. done \in Task /\ Runs(svc[n], done)
    BY SoundParts, CurrentTask DEF CompletionLegal, CompletionDue
<1>3. HostNode[done] = n /\ task[done].state = "RUNNING"
    BY <1>2, SoundParts DEF Linked
<1>4. s \in Service /\ ServiceInv(s, now)
    BY SoundParts, CompleteCurrentTaskKeeps DEF ServiceSound
<1>5. Moves(svc[n], s, out)
    BY SoundParts, CompleteCurrentTaskMoves DEF ServiceSound
<1> HIDE DEF s
<1>6. ServiceSound(s, now)
    BY <1>4, <1>5, SoundParts DEF ServiceSound, Moves, Shifts
<1>7. ~Runs(s, done)
    BY <1>2, <1>5 DEF Moves, Shifts
<1>8. \A t \in Task : k[t] = IF t = done THEN Computed(task[done]) ELSE task[t]
    BY <1>2, SoundParts
<1> HIDE DEF k
<1>9. \A t \in Task : K[t] = IF Runs(s, t) /\ ~Runs(svc[n], t)
                             THEN Started(k[t], t) ELSE k[t]
    BY DEF WithStart
<1>10. K = [t \in Task |-> K[t]]
    BY DEF WithStart
<1> HIDE DEF K
<1>11. \A t \in Task : t \in out => HostNode[t] = n
    BY <1>3
<1>12. /\ S \in [Server -> Service]
       /\ \A m \in Server : /\ ServiceSound(S[m], now) /\ Shifts(svc[m], S[m], out)
                            /\ S[m].available = svc[m].available
       /\ \A t \in Task : Runs(S[HostNode[t]], t) /\ ~Runs(svc[HostNode[t]], t)
                          <=> Runs(s, t) /\ ~Runs(svc[n], t)
    BY <1>4, <1>5, <1>6, <1>11, OneService
<1> HIDE DEF S
<1>13. /\ RecordSound(Computed(task[done]), now)
       /\ RecordStep(task[done], Computed(task[done]))
       /\ Computed(task[done]).state = "RESULT_TRANSFERRING"
       /\ AliveAt(done, "RESULT_TRANSFERRING", Dead)
    BY <1>2, <1>3, SoundParts, ComputedSound, NeededNarrows DEF AliveAt
<1>14. K[done] = Computed(task[done])
    BY <1>2, <1>7, <1>8, <1>9
<1>15. \A t \in Task : t \in out =>
           /\ RecordSound(K[t], now) /\ RecordStep(task[t], K[t])
           /\ K[t].state \notin {"PENDING", "QUEUED", "RUNNING"}
           /\ K[t].state = "INPUT_TRANSFERRING" => task[t].state = "PENDING"
           /\ AliveAt(t, K[t].state, Dead)
    BY <1>13, <1>14
<1>16. \A t \in Task : t \notin out =>
           /\ K[t] = IF Runs(S[HostNode[t]], t) /\ ~Runs(svc[HostNode[t]], t)
                     THEN Started(task[t], t) ELSE task[t]
           /\ AliveAt(t, task[t].state, Dead)
    BY <1>8, <1>9, <1>12, SoundParts
<1>17. Fits(S, K, now, Dead) /\ \A t \in Task : RecordStep(task[t], K[t])
    BY <1>10, <1>12, <1>15, <1>16, StepSound
<1>18. late \in BOOLEAN /\ batched \in BOOLEAN /\ ended \in BOOLEAN
    BY DEF Sound
<1> QED BY <1>1, <1>12, <1>17, <1>18, FaultFree

\* An event that changes one record, of a task that no service has.
LEMMA OneRecordAdvances ==
    ASSUME Sound, NEW t \in Task, NEW q, task' = [task EXCEPT ![t] = q],
           task[t].state \notin {"QUEUED", "RUNNING"},
           RecordSound(q, now), RecordStep(task[t], q),
           q.state \notin {"PENDING", "QUEUED", "RUNNING"},
           q.state = "INPUT_TRANSFERRING" => task[t].state = "PENDING",
           AliveAt(t, q.state, Dead),
           UNCHANGED <<now, late, batched, svc, fault, faults, ended>>
    PROVE  Advances
<1> DEFINE K == [task EXCEPT ![t] = q]
           out == {t}
<1>1. /\ K = [u \in Task |-> K[u]] /\ K[t] = q
      /\ \A u \in Task : u # t => K[u] = task[u]
    BY SoundParts
<1> HIDE DEF K
<1>2. \A n \in Server : ServiceSound(svc[n], now) /\ Shifts(svc[n], svc[n], out)
    BY SoundParts, Untouched
<1>3. Fits(svc, K, now, Dead) /\ \A u \in Task : RecordStep(task[u], K[u])
    <2>1. svc \in [Server -> Service]
        BY SoundParts
    <2>2. \A u \in Task : u \in out =>
              /\ RecordSound(K[u], now) /\ RecordStep(task[u], K[u])
              /\ K[u].state \notin {"PENDING", "QUEUED", "RUNNING"}
              /\ K[u].state = "INPUT_TRANSFERRING" => task[u].state = "PENDING"
              /\ AliveAt(u, K[u].state, Dead)
        BY <1>1
    <2>3. \A u \in Task : u \notin out =>
              /\ K[u] = IF Runs(svc[HostNode[u]], u) /\ ~Runs(svc[HostNode[u]], u)
                        THEN Started(task[u], u) ELSE task[u]
              /\ AliveAt(u, task[u].state, Dead)
        BY <1>1, SoundParts
    <2> QED BY <1>1, <1>2, <2>1, <2>2, <2>3, StepSound
<1>4. svc' = svc /\ task' = K
    BY DEF K
<1>5. late \in BOOLEAN /\ batched \in BOOLEAN /\ ended \in BOOLEAN
    BY DEF Sound
<1> QED BY <1>3, <1>4, <1>5, FaultFree

LEMMA ArriveAdvances ==
    ASSUME Sound, NEW t \in Task, Arrive(t)
    PROVE  Advances
<1>1. /\ task[t].state = "PENDING" /\ RecordSound(task[t], now) /\ now \in Time
      /\ UNCHANGED <<now, late, batched, svc, fault, faults, ended>>
    BY SoundParts DEF Arrive
<1>2. CASE Needed(t, "PENDING") \cap Dead # {}
    <2> DEFINE q == FailedBySatellite(task[t], t, Dead)
    <2>1. task' = [task EXCEPT ![t] = q]
        BY <1>2 DEF Arrive
    <2>2. RecordSound(q, now) /\ RecordStep(task[t], q) /\ q.state = "FAILED"
        BY <1>1, FailedBySatelliteSound DEF Terminal, TerminalState
    <2>3. AliveAt(t, "FAILED", Dead)
        BY NeededNarrows DEF AliveAt
    <2> HIDE DEF q
    <2> QED BY <1>1, <2>1, <2>2, <2>3, OneRecordAdvances
<1>3. CASE Needed(t, "PENDING") \cap Dead = {}
    <2> DEFINE q == [Transition(task[t], "INPUT_TRANSFERRING") EXCEPT !.input = "started"]
    <2>1. task' = [task EXCEPT ![t] = q]
        BY <1>3 DEF Arrive
    <2>2. RecordSound(q, now) /\ RecordStep(task[t], q) /\ q.state = "INPUT_TRANSFERRING"
        BY <1>1, InputStartedSound
    <2>3. AliveAt(t, "INPUT_TRANSFERRING", Dead)
        BY <1>3, NeededNarrows DEF AliveAt
    <2> HIDE DEF q
    <2> QED BY <1>1, <2>1, <2>2, <2>3, OneRecordAdvances
<1> QED BY <1>2, <1>3

LEMMA ResultArrivesAdvances ==
    ASSUME Sound, NEW t \in Task, ResultArrives(t)
    PROVE  Advances
<1> DEFINE q == Transition([task[t] EXCEPT !.result = "completed"], "COMPLETED")
<1>1. /\ task[t].state = "RESULT_TRANSFERRING" /\ RecordSound(task[t], now) /\ now \in Time
      /\ UNCHANGED <<now, late, batched, svc, fault, faults, ended>>
    BY SoundParts DEF ResultArrives, RecordSound
<1>2. ~Terminal([task[t] EXCEPT !.result = "completed"])
    BY <1>1 DEF Terminal, TerminalState, RecordSound, TaskRuntime
<1>3. task' = [task EXCEPT ![t] = q]
    BY <1>2 DEF ResultArrives
<1>4. RecordSound(q, now) /\ RecordStep(task[t], q) /\ q.state = "COMPLETED"
    BY <1>1, ResultDeliveredSound
<1>5. AliveAt(t, "COMPLETED", Dead)
    BY NeededNarrows DEF AliveAt
<1> HIDE DEF q
<1> QED BY <1>1, <1>3, <1>4, <1>5, OneRecordAdvances

\* The input that arrives belongs to a task whose node is up: it is queued, and
\* the service did not know it.
LEMMA InputArrivesAdvances ==
    ASSUME Sound, NEW t \in Task, InputArrives(t)
    PROVE  Advances
<1> DEFINE h == HostNode[t]
           r == [task[t] EXCEPT !.input = "completed"]
           q == Transition(r, "QUEUED")
           s == SubmitTask(svc[h], t, WorkOf[t], now)
           S == [svc EXCEPT ![h] = s]
           K == [task EXCEPT ![t] = q]
<1>1. /\ task[t].state = "INPUT_TRANSFERRING" /\ RecordSound(task[t], now)
      /\ AliveAt(t, task[t].state, Dead) /\ now \in Time /\ h \in Server
      /\ UNCHANGED <<now, late, batched, fault, faults, ended>>
    BY SoundParts DEF InputArrives, RecordSound
<1>2. r.state = "INPUT_TRANSFERRING" /\ ~Terminal(r)
    BY <1>1 DEF Terminal, TerminalState, RecordSound, TaskRuntime
<1>3. h \notin Dead
    <2>1. Needed(t, "INPUT_TRANSFERRING") \cap Dead = {}
        BY <1>1 DEF AliveAt
    <2> QED BY <2>1, NeededNarrows
<1>4. svc' = S /\ task' = K
    <2> HIDE DEF r
    <2> QED BY <1>2, <1>3 DEF InputArrives, r
<1>5. RecordSound(q, now) /\ RecordStep(task[t], q) /\ q.state = "QUEUED"
    BY <1>1, InputDeliveredSound
<1>6. AliveAt(t, "QUEUED", Dead)
    BY <1>1, NeededNarrows DEF AliveAt
<1>7. svc[h] \in Service /\ ServiceSound(svc[h], now) /\ WorkOf[t] \in Work
      /\ Linked(h, svc[h], t, task[t])
    BY <1>1, SoundParts
<1>8. t \notin svc[h].known
    BY <1>1, <1>7 DEF Linked
<1>9. s \in Service /\ ServiceInv(s, now)
    BY <1>1, <1>7, <1>8, SubmitTaskKeeps DEF ServiceSound
<1>10. /\ s.running = svc[h].running /\ s.available = svc[h].available
       /\ s.owner = svc[h].owner /\ s.runningRecovery = svc[h].runningRecovery
       /\ s.known = svc[h].known \cup {t} /\ s.current = svc[h].current
       /\ \A u \in Task : /\ Queued(s, u) <=> Queued(svc[h], u) \/ u = t
                          /\ Runs(s, u) <=> Runs(svc[h], u)
    BY <1>1, <1>7, SubmitTaskMoves
<1> HIDE DEF q, r, s
<1>11. ServiceSound(s, now)
    BY <1>7, <1>9, <1>10 DEF ServiceSound
<1>12. /\ S \in [Server -> Service] /\ S[h] = s
       /\ \A n \in Server : n # h => S[n] = svc[n]
    BY <1>1, <1>9, SoundParts
<1>13. /\ K \in [Task -> TaskRuntime] /\ K[t] = q
       /\ \A u \in Task : u # t => K[u] = task[u]
    BY <1>5, SoundParts DEF RecordSound
<1> HIDE DEF S, K
<1>14. ASSUME NEW u \in Task, NEW n \in Server PROVE Linked(n, S[n], u, K[u])
    <2>1. Linked(n, svc[n], u, task[u]) /\ Linked(n, svc[n], t, task[t])
        BY SoundParts
    <2>2. CASE n = h /\ u = t
        BY <1>1, <1>5, <1>10, <1>12, <1>13, <2>1, <2>2 DEF Linked
    <2>3. CASE n = h /\ u # t
        BY <1>10, <1>12, <1>13, <2>1, <2>3 DEF Linked
    <2>4. CASE n # h /\ u = t
        BY <1>1, <1>5, <1>12, <1>13, <2>1, <2>4 DEF Linked
    <2>5. CASE n # h /\ u # t
        BY <1>12, <1>13, <2>1, <2>5
    <2> QED BY <2>2, <2>3, <2>4, <2>5
<1>15. \A n \in Server : ServiceSound(S[n], now) /\ S[n].available = svc[n].available
    BY <1>10, <1>11, <1>12, SoundParts
<1>16. ASSUME NEW u \in Task
       PROVE  /\ RecordSound(K[u], now) /\ AliveAt(u, K[u].state, Dead)
              /\ RecordStep(task[u], K[u])
    <2>1. CASE u = t
        BY <1>5, <1>6, <1>13, <2>1
    <2>2. CASE u # t
        BY <1>13, <2>2, SoundParts DEF RecordStep
    <2> QED BY <2>1, <2>2
<1>17. Fits(S, K, now, Dead)
    BY <1>12, <1>13, <1>14, <1>15, <1>16 DEF Fits
<1>18. late \in BOOLEAN /\ batched \in BOOLEAN /\ ended \in BOOLEAN
    BY DEF Sound
<1> QED BY <1>1, <1>4, <1>15, <1>16, <1>17, <1>18, FaultFree

LEMMA DispatchAdvances ==
    ASSUME Sound, NEW n \in Server, Dispatch(n)
    PROVE  Advances
<1> DEFINE s == FireDispatch(svc[n], now, Rate[n])
           S == [svc EXCEPT ![n] = s]
           K == WithStart(task, n, s)
           out == {}
<1>1. /\ svc' = S /\ task' = K /\ late' = TRUE
      /\ UNCHANGED <<now, batched, fault, faults, ended>>
    BY DEF Dispatch
<1>2. s \in Service /\ ServiceInv(s, now) /\ Moves(svc[n], s, out)
    BY SoundParts, FireDispatchKeeps, FireDispatchMoves DEF ServiceSound
<1> HIDE DEF s
<1>3. ServiceSound(s, now)
    BY <1>2, SoundParts DEF ServiceSound, Moves, Shifts
<1>4. K = [t \in Task |-> K[t]]
      /\ \A t \in Task : K[t] = IF Runs(s, t) /\ ~Runs(svc[n], t)
                                THEN Started(task[t], t) ELSE task[t]
    BY DEF WithStart
<1> HIDE DEF K
<1>5. /\ S \in [Server -> Service]
      /\ \A m \in Server : /\ ServiceSound(S[m], now) /\ Shifts(svc[m], S[m], out)
                           /\ S[m].available = svc[m].available
      /\ \A t \in Task : Runs(S[HostNode[t]], t) /\ ~Runs(svc[HostNode[t]], t)
                         <=> Runs(s, t) /\ ~Runs(svc[n], t)
    BY <1>2, <1>3, OneService
<1> HIDE DEF S
<1>6. \A t \in Task : t \notin out =>
          /\ K[t] = IF Runs(S[HostNode[t]], t) /\ ~Runs(svc[HostNode[t]], t)
                    THEN Started(task[t], t) ELSE task[t]
          /\ AliveAt(t, task[t].state, Dead)
    BY <1>4, <1>5, SoundParts
<1>7. Fits(S, K, now, Dead) /\ \A t \in Task : RecordStep(task[t], K[t])
    <2>1. \A t \in Task : t \in out =>
              /\ RecordSound(K[t], now) /\ RecordStep(task[t], K[t])
              /\ K[t].state \notin {"PENDING", "QUEUED", "RUNNING"}
              /\ K[t].state = "INPUT_TRANSFERRING" => task[t].state = "PENDING"
              /\ AliveAt(t, K[t].state, Dead)
        OBVIOUS
    <2> HIDE DEF out
    <2> QED BY <1>4, <1>5, <1>6, <2>1, StepSound
<1>8. batched \in BOOLEAN /\ ended \in BOOLEAN
    BY DEF Sound
<1> QED BY <1>1, <1>5, <1>7, <1>8, FaultFree

LEMMA CompleteAdvances ==
    ASSUME Sound, NEW n \in Server, Complete(n)
    PROVE  Advances
<1>1. CompletionLegal(svc[n], now)
    BY SoundParts DEF Complete, DueNow, ServiceSound, ServiceInv, CompletionAllowed, CompletionLegal
<1> QED BY <1>1, CompleteRunAdvances DEF Complete

\* A missed deadline withdraws its task; one that finds the run due completes
\* it instead.
LEMMA DeadlineAdvances ==
    ASSUME Sound, NEW t \in Task, Deadline(t)
    PROVE  Advances
<1> DEFINE n == HostNode[t]
<1>1. /\ now \in Time /\ n \in Server /\ svc[n] \in Service /\ ServiceSound(svc[n], now)
      /\ RecordSound(task[t], now) /\ Linked(n, svc[n], t, task[t])
      /\ task[t].timer
      /\ UNCHANGED <<now, late, batched, fault, faults, ended>>
    BY SoundParts DEF Deadline
<1>2. task[t].state = "RUNNING" /\ Runs(svc[n], t)
    BY <1>1 DEF RecordSound, Linked
<1>3. ~(Terminal(task[t]) \/ task[t].complete # NoTime)
    BY <1>1, <1>2 DEF RecordSound, Terminal, TerminalState
<1>4. CASE CanCompleteIfDue(svc[n], t, now)
    <2>1. CompleteRun(n) /\ CompletionLegal(svc[n], now)
        BY <1>3, <1>4 DEF Deadline, CanCompleteIfDue
    <2> QED BY <1>1, <2>1, CompleteRunAdvances
<1>5. CASE ~CanCompleteIfDue(svc[n], t, now)
    <2> DEFINE q == FailedByCompute(task[t])
               s == Withdraw(svc[n], {t})
               S == [svc EXCEPT ![n] = s]
               K == [task EXCEPT ![t] = q]
               out == {t}
    <2>1. svc' = S /\ task' = K
        BY <1>3, <1>5 DEF Deadline
    <2>2. RecordSound(q, now) /\ RecordStep(task[t], q) /\ q.state = "FAILED"
        BY <1>1, <1>2, FailedByComputeSound
    <2>3. s \in Service /\ ServiceInv(s, now) /\ Moves(svc[n], s, out) /\ Settles(svc[n], s)
        BY <1>1, WithdrawKeeps DEF ServiceSound, ServiceInv
    <2> HIDE DEF q, s
    <2>4. ServiceSound(s, now)
        BY <1>1, <2>3 DEF ServiceSound, Moves, Shifts
    <2>5. /\ S \in [Server -> Service]
          /\ \A m \in Server : /\ ServiceSound(S[m], now) /\ Shifts(svc[m], S[m], out)
                               /\ S[m].available = svc[m].available
          /\ \A u \in Task : Runs(S[HostNode[u]], u) /\ ~Runs(svc[HostNode[u]], u)
                             <=> Runs(s, u) /\ ~Runs(svc[n], u)
        <3>1. \A u \in Task : u \in out => HostNode[u] = n
            OBVIOUS
        <3>2. n \in Server /\ s \in Service /\ Moves(svc[n], s, out)
            BY <1>1, <2>3
        <3> HIDE DEF out, n
        <3> QED BY <2>4, <3>1, <3>2, OneService
    <2>6. /\ K = [u \in Task |-> K[u]] /\ K[t] = q
          /\ \A u \in Task : u # t => K[u] = task[u]
        BY SoundParts
    <2> HIDE DEF S, K
    <2>7. AliveAt(t, "FAILED", Dead)
        BY NeededNarrows DEF AliveAt
    <2>8. \A u \in Task : u \in out =>
              /\ RecordSound(K[u], now) /\ RecordStep(task[u], K[u])
              /\ K[u].state \notin {"PENDING", "QUEUED", "RUNNING"}
              /\ K[u].state = "INPUT_TRANSFERRING" => task[u].state = "PENDING"
              /\ AliveAt(u, K[u].state, Dead)
        BY <2>2, <2>6, <2>7
    <2>9. \A u \in Task : u \notin out =>
              /\ K[u] = IF Runs(S[HostNode[u]], u) /\ ~Runs(svc[HostNode[u]], u)
                        THEN Started(task[u], u) ELSE task[u]
              /\ AliveAt(u, task[u].state, Dead)
        BY <2>3, <2>5, <2>6, SoundParts DEF Settles
    <2>10. Fits(S, K, now, Dead) /\ \A u \in Task : RecordStep(task[u], K[u])
        BY <2>5, <2>6, <2>8, <2>9, StepSound
    <2>11. late \in BOOLEAN /\ batched \in BOOLEAN /\ ended \in BOOLEAN
        BY DEF Sound
    <2> QED BY <1>1, <2>1, <2>5, <2>10, <2>11, FaultFree
<1> QED BY <1>4, <1>5

\* The tasks that move elsewhere do not matter to node n.
LEMMA Widened ==
    ASSUME Sound, NEW n \in Server, NEW r, NEW victims, NEW out,
           Shifts(svc[n], r, victims), victims \subseteq out,
           \A t \in Task : t \in out \ victims =>
               HostNode[t] # n \/ task[t].state \notin {"QUEUED", "RUNNING"}
    PROVE  Shifts(svc[n], r, out)
<1>1. \A t \in Task : Linked(n, svc[n], t, task[t])
    BY SoundParts
<1> QED BY <1>1 DEF Shifts, Linked

\* The finalization withdraws and fails every task that has not ended.
LEMMA FinalizeSimulationAdvances ==
    ASSUME Sound, FinalizeSimulation
    PROVE  Advances
<1> DEFINE out == {t \in Task : ~Terminal(task[t])}
           victims(n) == {t \in Task : HostNode[t] = n /\ ~Terminal(task[t])}
           S == [n \in Server |-> Withdraw(svc[n], victims(n))]
           K == [t \in Task |-> FailedAtEnd(task[t])]
<1>1. /\ svc' = S /\ task' = K /\ ended' = TRUE /\ now \in Time
      /\ UNCHANGED <<now, late, batched, fault, faults>>
    BY SoundParts DEF FinalizeSimulation
<1>2. ASSUME NEW n \in Server
      PROVE  /\ S[n] \in Service /\ ServiceSound(S[n], now)
             /\ Shifts(svc[n], S[n], out) /\ S[n].available = svc[n].available
             /\ Settles(svc[n], S[n])
    <2>1. S[n] = Withdraw(svc[n], victims(n)) /\ victims(n) \in SUBSET Task
          /\ victims(n) \subseteq out
          /\ \A t \in Task : t \in out \ victims(n) => HostNode[t] # n
        OBVIOUS
    <2>2. svc[n] \in Service /\ ServiceSound(svc[n], now)
        BY SoundParts
    <2> HIDE DEF S, victims, out
    <2>3. /\ S[n] \in Service /\ ServiceInv(S[n], now)
          /\ Moves(svc[n], S[n], victims(n)) /\ Settles(svc[n], S[n])
        BY <1>1, <2>1, <2>2, WithdrawKeeps DEF ServiceSound, ServiceInv
    <2>4. Shifts(svc[n], S[n], out)
        BY <2>1, <2>3, Widened DEF Moves
    <2>5. ServiceSound(S[n], now)
        BY <2>2, <2>3 DEF ServiceSound, Moves, Shifts
    <2> QED BY <2>3, <2>4, <2>5 DEF Moves
<1>3. S \in [Server -> Service]
    <2>1. S = [n \in Server |-> S[n]]
        OBVIOUS
    <2> HIDE DEF S
    <2> QED BY <1>2, <2>1
<1> HIDE DEF S
<1>4. ASSUME NEW t \in Task
      PROVE  /\ RecordSound(K[t], now) /\ RecordStep(task[t], K[t])
             /\ K[t].state = IF Terminal(task[t]) THEN task[t].state ELSE "FAILED"
             /\ Terminal(task[t]) => K[t] = task[t]
    <2>1. K[t] = FailedAtEnd(task[t]) /\ RecordSound(task[t], now)
        BY SoundParts
    <2>2. Terminal(task[t]) => FailedAtEnd(task[t]) = task[t]
        BY DEF FailedAtEnd
    <2> QED BY <1>1, <2>1, <2>2, FailedAtEndSound
<1>5. K = [t \in Task |-> K[t]]
    OBVIOUS
<1> HIDE DEF K
<1>6. \A t \in Task : AliveAt(t, "FAILED", Dead)
    BY NeededNarrows DEF AliveAt
<1>7. \A t \in Task : t \in out =>
          /\ RecordSound(K[t], now) /\ RecordStep(task[t], K[t])
          /\ K[t].state \notin {"PENDING", "QUEUED", "RUNNING"}
          /\ K[t].state = "INPUT_TRANSFERRING" => task[t].state = "PENDING"
          /\ AliveAt(t, K[t].state, Dead)
    BY <1>4, <1>6
<1>8. \A t \in Task : t \notin out =>
          /\ K[t] = IF Runs(S[HostNode[t]], t) /\ ~Runs(svc[HostNode[t]], t)
                    THEN Started(task[t], t) ELSE task[t]
          /\ AliveAt(t, task[t].state, Dead)
    BY <1>2, <1>4, SoundParts DEF Settles
<1> HIDE DEF out
<1>9. Fits(S, K, now, Dead) /\ \A t \in Task : RecordStep(task[t], K[t])
    BY <1>2, <1>3, <1>5, <1>7, <1>8, StepSound
<1>10. late \in BOOLEAN /\ batched \in BOOLEAN
    BY DEF Sound
<1> QED BY <1>1, <1>2, <1>9, <1>10, FaultFree

\* The clock moves only when no completion and no deadline is due.
LEMMA TickAdvances ==
    ASSUME Sound, Tick
    PROVE  Advances
<1>1. /\ now' = now + 1 /\ late' = FALSE /\ batched' = FALSE /\ Quiet /\ now < StopTime
      /\ UNCHANGED <<svc, task, fault, faults, ended>>
    BY DEF Tick
<1>2. now \in Time /\ now + 1 \in Time /\ now + 1 \in 0..StopTime
    BY <1>1, SoundParts, LoadAssumption DEF Time, Sound
<1>3. ASSUME NEW n \in Server PROVE ServiceSound(svc[n], now + 1)
    <2>1. svc[n] \in Service /\ ServiceSound(svc[n], now) /\ ServiceCore(svc[n], now)
        BY SoundParts
    <2>2. ASSUME svc[n].completion
          PROVE  now + 1 <= svc[n].current.start + svc[n].current.service
        <3>1. /\ svc[n].hasCurrent
              /\ now <= svc[n].current.start + svc[n].current.service
            BY <2>1, <2>2 DEF ServiceCore, CompletionTimely
        <3>2. svc[n].current.start \in Nat /\ svc[n].current.service \in Nat
            BY <2>1, <3>1 DEF ServiceCore, CurrentSane, Service, Run, Time
        <3>3. now - svc[n].current.start # svc[n].current.service
            BY <1>1, <2>2, <3>1 DEF Quiet, DueNow, CompletionDue
        <3> QED BY <1>2, <3>1, <3>2, <3>3 DEF Time
    <2>3. ServiceInv(svc[n], now + 1)
        BY <1>2, <2>1, <2>2, ClockKeeps DEF ServiceSound, Time
    <2> QED BY <2>1, <2>3 DEF ServiceSound
<1>4. ASSUME NEW t \in Task PROVE RecordSound(task[t], now + 1)
    <2>1. RecordSound(task[t], now)
        BY SoundParts
    <2>2. task[t].timer => now + 1 <= task[t].deadline
        <3>1. task[t].timer => now # task[t].deadline
            BY <1>1 DEF Quiet
        <3>2. task[t].deadline \in Int
            BY <2>1 DEF RecordSound, TaskRuntime, Time, NoTime
        <3> QED BY <1>2, <2>1, <3>1, <3>2 DEF RecordSound, Time
    <2> QED BY <2>1, <2>2 DEF RecordSound
<1>5. Fits(svc, task, now + 1, Dead)
    BY <1>3, <1>4 DEF Sound, Fits
<1>6. Dead' = Dead /\ AvailabilityAgrees'
    BY <1>1 DEF Dead, Sound, AvailabilityAgrees
<1>7. Fits(svc', task', now', Dead')
    BY <1>1, <1>5, <1>6
<1>8. \A t \in Task : RecordStep(task[t], task'[t])
    BY <1>1 DEF RecordStep
<1> QED BY <1>1, <1>2, <1>6, <1>7, <1>8 DEF Sound, Advances

\* A task that fails, in whatever order it got there within the event, has
\* gone one stage further.
LEMMA FailsInOneStep ==
    ASSUME NEW r, NEW q, RecordSound(r, now), ~Terminal(r), q.state = "FAILED"
    PROVE  RecordStep(r, q)
BY Stages DEF RecordStep, RecordSound, TaskRuntime, Terminal

\* The satellites lost so far and those lost in this batch: none comes back.
LEMMA DeadAfterBatch ==
    ASSUME NEW recovered, NEW kind \in [Sat -> FaultKind],
           fault \in [Sat -> FaultKind],
           Admissible(fault, recovered, kind),
           fault' = AfterBatch(fault, recovered, kind)
    PROVE  /\ Dead' = Dead \cup {n \in Sat : kind[n] = "satellite"}
           /\ fault' \in [Sat -> FaultKind]
           /\ \A n \in Sat : fault'[n] = IF kind[n] # "none" THEN kind[n]
                                         ELSE IF n \in recovered THEN "none" ELSE fault[n]
<1>1. \A n \in Sat : fault'[n] = IF kind[n] # "none" THEN kind[n]
                                 ELSE IF n \in recovered THEN "none" ELSE fault[n]
    BY DEF AfterBatch
<1>2. fault' \in [Sat -> FaultKind]
    BY DEF AfterBatch, FaultKind
<1>3. ASSUME NEW n \in Sat
      PROVE  fault'[n] = "satellite" <=> fault[n] = "satellite" \/ kind[n] = "satellite"
    BY <1>1 DEF Admissible, FaultKind
<1> QED BY <1>1, <1>2, <1>3 DEF Dead

\* A batch: due runs complete, the tasks that need a lost satellite and those
\* that run on a node with a fault fail, and the others stay as they are.
LEMMA BatchAdvances ==
    ASSUME Sound, NEW recovered, NEW kind \in [Sat -> FaultKind],
           Admissible(fault, recovered, kind), ApplyFaultBatch(recovered, kind),
           UNCHANGED <<now, late, ended>>, batched' = TRUE, faults' \in 0..MaxFaults
    PROVE  Advances
<1> DEFINE dead == {n \in Sat : kind[n] = "satellite"}
           down == {n \in Sat : kind[n] # "none"}
           switched == [n \in Server |-> Switched(n, recovered, down)]
           tasks == [t \in Task |-> IF /\ Runs(svc[HostNode[t]], t)
                                       /\ ~Runs(switched[HostNode[t]], t)
                                    THEN Computed(task[t]) ELSE task[t]]
           lost == SatelliteVictims(tasks, dead)
           interrupted == ComputeVictims(tasks, down) \ lost
           victims(n) == {t \in lost \cup interrupted : HostNode[t] = n}
           S == [n \in Server |-> Withdraw(switched[n], victims(n))]
           K == [t \in Task |-> IF t \in lost THEN FailedBySatellite(tasks[t], t, dead)
                                ELSE IF t \in interrupted THEN FailedByCompute(tasks[t])
                                ELSE tasks[t]]
           computed == {t \in Task : /\ Runs(svc[HostNode[t]], t)
                                     /\ ~Runs(switched[HostNode[t]], t)}
           out == lost \cup interrupted \cup computed
<1>1. svc' = S /\ task' = K /\ fault' = AfterBatch(fault, recovered, kind)
    BY DEF ApplyFaultBatch
<1>2. \A n \in Server : switched[n] = Switched(n, recovered, down)
    OBVIOUS
<1>3. \A t \in Task : tasks[t] = IF t \in computed THEN Computed(task[t]) ELSE task[t]
    OBVIOUS
<1>4. \A t \in Task : t \in computed <=> /\ Runs(svc[HostNode[t]], t)
                                         /\ ~Runs(switched[HostNode[t]], t)
    OBVIOUS
<1>5. computed \subseteq Task
    OBVIOUS
<1>6. \A n \in Server : S[n] = Withdraw(switched[n], victims(n))
    OBVIOUS
<1>7. \A t \in Task : K[t] = IF t \in lost THEN FailedBySatellite(tasks[t], t, dead)
                             ELSE IF t \in interrupted THEN FailedByCompute(tasks[t])
                             ELSE tasks[t]
    OBVIOUS
<1>8. K = [t \in Task |-> K[t]] /\ S = [n \in Server |-> S[n]]
    OBVIOUS
<1> HIDE DEF switched, computed, S, K, tasks
<1>9. \A t \in Task : t \in lost <=> /\ tasks[t].state = "PENDING" => Arrival[t] = now
                                     /\ Needed(t, tasks[t].state) \cap dead # {}
    BY DEF SatelliteVictims
<1>10. \A t \in Task : t \in interrupted <=>
           tasks[t].state = "RUNNING" /\ HostNode[t] \in down /\ t \notin lost
    BY DEF ComputeVictims
<1>11. lost \subseteq Task /\ interrupted \subseteq Task
    BY DEF SatelliteVictims, ComputeVictims
<1> HIDE DEF lost, interrupted
<1>12. \A n \in Server : /\ victims(n) \in SUBSET Task /\ victims(n) \subseteq lost \cup interrupted
                         /\ \A t \in lost \cup interrupted : t \in victims(n) <=> HostNode[t] = n
    BY <1>11
<1>13. out \subseteq Task /\ \A t : t \in out <=> t \in lost \/ t \in interrupted \/ t \in computed
    BY <1>5, <1>11
<1> HIDE DEF victims, out, down, dead
<1>14. ASSUME NEW n \in Server
       PROVE  LET s == svc[n]  r == switched[n] IN
              /\ r \in Service /\ ServiceCore(r, now) /\ DispatchArmed(r)
              /\ n \notin down => CompletionAllowed(r)
              /\ r.running = s.running /\ r.known = s.known
              /\ r.owner = s.owner /\ r.runningRecovery = s.runningRecovery
              /\ n \in down => ~r.available
              /\ n \notin down /\ n \in recovered => r.available
              /\ n \notin down /\ n \notin recovered => r.available = s.available
              /\ Settles(s, r)
              /\ \A t \in Task : /\ Queued(r, t) <=> Queued(s, t)
                                 /\ Runs(r, t) => r.current = s.current
    <2>1. /\ now \in Time /\ Rate[n] \in Nat \ {0}
          /\ svc[n] \in Service /\ ServiceInv(svc[n], now)
          /\ svc[n].owner = NoTask /\ ~svc[n].runningRecovery
        BY SoundParts DEF ServiceSound
    <2>2. switched[n] = Switched(n, recovered, down)
        BY <1>2
    <2> DEFINE r == Switched(n, recovered, down)
    <2>3. /\ r \in Service /\ ServiceCore(r, now) /\ DispatchArmed(r)
          /\ n \notin down => CompletionAllowed(r)
          /\ r.running = svc[n].running /\ r.known = svc[n].known
          /\ r.owner = svc[n].owner /\ r.runningRecovery = svc[n].runningRecovery
          /\ n \in down => ~r.available
          /\ n \notin down /\ n \in recovered => r.available
          /\ n \notin down /\ n \notin recovered => r.available = svc[n].available
          /\ Settles(svc[n], r)
          /\ \A t \in Task : /\ Queued(r, t) <=> Queued(svc[n], t)
                             /\ Runs(r, t) => r.current = svc[n].current
        BY <2>1, SwitchedKeeps
    <2> HIDE DEF r
    <2>4. switched[n] = r
        BY <2>2 DEF r
    <2> QED BY <2>3, <2>4
<1>15. ASSUME NEW t \in Task, t \in computed
       PROVE  /\ task[t].state = "RUNNING"
              /\ RecordSound(tasks[t], now) /\ RecordStep(task[t], tasks[t])
              /\ tasks[t].state = "RESULT_TRANSFERRING"
    <2>1. task[t].state = "RUNNING"
        BY <1>4, <1>15, SoundParts DEF Linked
    <2> QED BY <1>3, <1>15, <2>1, SoundParts, ComputedSound
<1>16. ASSUME NEW t \in Task, t \notin computed
       PROVE  tasks[t] = task[t] /\ RecordSound(tasks[t], now)
    BY <1>3, <1>16, SoundParts
<1>17. ASSUME NEW n \in Server
       PROVE  /\ S[n] \in Service /\ ServiceInv(S[n], now)
              /\ Moves(switched[n], S[n], victims(n)) /\ Settles(switched[n], S[n])
    <2>1. /\ switched[n] \in Service /\ ServiceCore(switched[n], now)
          /\ DispatchArmed(switched[n]) /\ ~switched[n].runningRecovery
        BY <1>14, SoundParts DEF ServiceSound
    <2>2. ASSUME ~CompletionAllowed(switched[n])
          PROVE  switched[n].hasCurrent /\ switched[n].current.task \in victims(n)
        <3>1. switched[n].hasCurrent /\ n \in down
            BY <1>14, <2>1, <2>2 DEF CompletionAllowed, ServiceCore, CompletionTimely
        <3> DEFINE u == switched[n].current.task
        <3>2. u \in Task /\ Runs(switched[n], u)
            BY <2>1, <3>1, CurrentTask
        <3> HIDE DEF u
        <3>3. Runs(svc[n], u)
            BY <1>14, <3>2 DEF Settles
        <3>4. HostNode[u] = n /\ task[u].state = "RUNNING"
            BY <3>2, <3>3, SoundParts DEF Linked
        <3>5. u \notin computed
            BY <1>4, <3>2, <3>4
        <3>6. u \in lost \cup interrupted
            BY <1>10, <1>16, <3>1, <3>2, <3>4, <3>5
        <3>7. u \in victims(n)
            BY <1>12, <3>4, <3>6
        <3> QED BY <3>1, <3>7 DEF u
    <2> QED BY <1>6, <1>12, <2>1, <2>2, SoundParts, WithdrawKeeps
<1>18. ASSUME NEW n \in Server PROVE ServiceSound(S[n], now)
    BY <1>14, <1>17, SoundParts DEF ServiceSound, Moves, Shifts
<1>19. ASSUME NEW n \in Server PROVE Shifts(svc[n], S[n], out)
    <2>1. /\ S[n].running = svc[n].running /\ S[n].known = svc[n].known
          /\ S[n].owner = svc[n].owner /\ S[n].runningRecovery = svc[n].runningRecovery
        BY <1>14, <1>17 DEF Moves, Shifts
    <2>2. ASSUME NEW t \in Task
          PROVE  /\ Queued(S[n], t) => Queued(svc[n], t)
                 /\ Runs(S[n], t) => Runs(switched[n], t) /\ Runs(svc[n], t)
                 /\ Runs(S[n], t) => S[n].current = svc[n].current
        BY <1>14, <1>17 DEF Moves, Shifts, Settles
    <2>3. ASSUME NEW t \in Task, t \in out
          PROVE  ~Queued(S[n], t) /\ ~Runs(S[n], t)
        <3>1. Linked(n, svc[n], t, task[t])
            BY SoundParts
        <3>2. CASE HostNode[t] # n
            BY <2>2, <3>1, <3>2 DEF Linked
        <3>3. CASE HostNode[t] = n /\ t \in lost \cup interrupted
            BY <1>12, <1>17, <3>3 DEF Moves, Shifts
        <3>4. CASE HostNode[t] = n /\ t \in computed
            BY <1>4, <1>15, <2>2, <3>1, <3>4 DEF Linked
        <3> QED BY <1>13, <2>3, <3>2, <3>3, <3>4
    <2>4. ASSUME NEW t \in Task, t \notin out
          PROVE  /\ Queued(svc[n], t) => Queued(S[n], t) \/ Runs(S[n], t)
                 /\ Runs(svc[n], t) => Runs(S[n], t)
        <3>1. t \notin victims(n) /\ t \notin computed
            BY <1>12, <1>13, <2>4
        <3>2. Runs(svc[n], t) => Runs(switched[n], t)
            BY <1>4, <3>1, SoundParts DEF Linked
        <3> QED BY <1>14, <1>17, <3>1, <3>2 DEF Moves, Shifts
    <2> QED BY <2>1, <2>2, <2>3, <2>4 DEF Shifts
<1>20. S \in [Server -> Service]
    BY <1>8, <1>17
<1>21. \A t \in Task : AliveAt(t, "FAILED", Dead \cup dead)
    BY NeededNarrows DEF AliveAt
<1>22. ASSUME NEW t \in Task, t \notin lost
       PROVE  AliveAt(t, tasks[t].state, Dead \cup dead)
    <2>1. AliveAt(t, tasks[t].state, Dead)
        <3>1. AliveAt(t, task[t].state, Dead)
            BY SoundParts
        <3> QED BY <1>15, <1>16, <3>1, NeededNarrows DEF AliveAt
    <2>2. tasks[t].state # "PENDING" => Needed(t, tasks[t].state) \cap dead = {}
        BY <1>9, <1>22
    <2> QED BY <2>1, <2>2 DEF AliveAt
<1>23. ASSUME NEW t \in Task, t \in out
       PROVE  /\ RecordSound(K[t], now) /\ RecordStep(task[t], K[t])
              /\ K[t].state \in {"FAILED", "RESULT_TRANSFERRING"}
              /\ AliveAt(t, K[t].state, Dead \cup dead)
    <2>0. now \in Time /\ RecordSound(task[t], now) /\ RecordSound(tasks[t], now)
        BY <1>15, <1>16, SoundParts
    <2>1. Terminal(task[t]) => Terminal(tasks[t])
        BY <1>15, <1>16 DEF Terminal, TerminalState
    <2>2. CASE t \in lost
        <3>1. ~Terminal(tasks[t])
            BY <1>9, <2>2 DEF Terminal, Needed, TerminalState
        <3>2. K[t] = FailedBySatellite(tasks[t], t, dead)
            BY <1>7, <2>2
        <3>3. RecordSound(K[t], now) /\ K[t].state = "FAILED"
            BY <2>0, <3>1, <3>2, FailedBySatelliteSound
        <3>4. RecordStep(task[t], K[t])
            BY <2>0, <2>1, <3>1, <3>3, FailsInOneStep
        <3> QED BY <1>21, <3>3, <3>4
    <2>3. CASE t \in interrupted
        <3>1. tasks[t].state = "RUNNING" /\ t \notin lost
            BY <1>10, <2>3
        <3>2. K[t] = FailedByCompute(tasks[t])
            BY <1>7, <2>3, <3>1
        <3>3. RecordSound(K[t], now) /\ K[t].state = "FAILED"
            BY <2>0, <3>1, <3>2, FailedByComputeSound
        <3>4. ~Terminal(task[t])
            BY <2>1, <3>1 DEF Terminal, TerminalState
        <3>5. RecordStep(task[t], K[t])
            BY <2>0, <3>3, <3>4, FailsInOneStep
        <3> QED BY <1>21, <3>3, <3>5
    <2>4. CASE t \notin lost /\ t \notin interrupted
        <3>1. t \in computed /\ K[t] = tasks[t]
            BY <1>7, <1>13, <1>23, <2>4
        <3> QED BY <1>15, <1>22, <2>4, <3>1
    <2> QED BY <2>2, <2>3, <2>4
<1>24. ASSUME NEW t \in Task, t \notin out
       PROVE  /\ K[t] = IF Runs(S[HostNode[t]], t) /\ ~Runs(svc[HostNode[t]], t)
                        THEN Started(task[t], t) ELSE task[t]
              /\ AliveAt(t, task[t].state, Dead \cup dead)
    <2>1. t \notin lost /\ t \notin interrupted /\ t \notin computed
        BY <1>13, <1>24
    <2>2. K[t] = task[t] /\ tasks[t] = task[t]
        BY <1>7, <1>16, <2>1
    <2>3. Runs(S[HostNode[t]], t) => Runs(svc[HostNode[t]], t)
        BY <1>14, <1>17, SoundParts DEF Settles
    <2> QED BY <1>22, <2>1, <2>2, <2>3
<1>25. /\ Fits(S, K, now, Dead \cup dead)
       /\ \A t \in Task : RecordStep(task[t], K[t])
    BY <1>8, <1>18, <1>19, <1>20, <1>23, <1>24, StepSound
<1>26. /\ Dead' = Dead \cup dead /\ fault' \in [Sat -> FaultKind]
       /\ \A n \in Sat : fault'[n] = IF kind[n] # "none" THEN kind[n]
                                     ELSE IF n \in recovered THEN "none" ELSE fault[n]
    BY <1>1, DeadAfterBatch DEF Sound, dead
<1>27. AvailabilityAgrees'
    <2>1. ASSUME NEW n \in Server PROVE S[n].available <=> fault'[n] = "none"
        <3>1. n \in Sat /\ (n \in down <=> kind[n] # "none")
            BY NodeAssumption DEF down
        <3>2. /\ n \in down => ~S[n].available
              /\ n \notin down /\ n \in recovered => S[n].available
              /\ n \notin down /\ n \notin recovered => S[n].available = svc[n].available
            BY <1>14, <1>17 DEF Moves
        <3>3. svc[n].available <=> fault[n] = "none"
            BY DEF Sound, AvailabilityAgrees
        <3> QED BY <1>26, <3>1, <3>2, <3>3
    <2> QED BY <1>1, <2>1 DEF AvailabilityAgrees
<1>28. Fits(svc', task', now', Dead')
    BY <1>1, <1>25, <1>26
<1> QED BY <1>1, <1>25, <1>26, <1>27, <1>28 DEF Sound, Advances

LEMMA FaultBatchAdvances ==
    ASSUME Sound, FaultBatch
    PROVE  Advances
<1>1. PICK recovered \in SUBSET Sat, kind \in [Sat -> FaultKind] :
        LET starts == {n \in Sat : kind[n] # "none"} IN
        /\ recovered \cup starts # {}
        /\ Admissible(fault, recovered, kind)
        /\ faults + Cardinality(starts) <= MaxFaults
        /\ ApplyFaultBatch(recovered, kind)
        /\ faults' = faults + Cardinality(starts)
    BY DEF FaultBatch
<1> DEFINE starts == {n \in Sat : kind[n] # "none"}
<1>2. Cardinality(starts) \in Nat
    BY NodeAssumption, FS_Subset, FS_CardinalityType
<1> HIDE DEF starts
<1>3. faults + Cardinality(starts) <= MaxFaults /\ faults' = faults + Cardinality(starts)
    BY <1>1 DEF starts
<1>4. faults' \in 0..MaxFaults
    BY <1>2, <1>3, LoadAssumption DEF Sound
<1>5. batched' = TRUE /\ UNCHANGED <<now, late, ended>>
    BY DEF FaultBatch
<1> QED BY <1>1, <1>4, <1>5, BatchAdvances

LEMMA NextAdvances == Sound /\ [Next]_vars => Advances
<1> SUFFICES ASSUME Sound, [Next]_vars PROVE Advances
    OBVIOUS
<1>1. CASE UNCHANGED vars
    <2>1. Fits(svc', task', now, Dead) /\ \A n \in Server : svc'[n].available = svc[n].available
        BY <1>1 DEF vars, Sound
    <2>2. \A t \in Task : RecordStep(task[t], task'[t])
        BY <1>1 DEF vars, RecordStep
    <2>3. /\ UNCHANGED <<now, fault, faults>>
          /\ late' \in BOOLEAN /\ batched' \in BOOLEAN /\ ended' \in BOOLEAN
        BY <1>1 DEF vars, Sound
    <2> QED BY <2>1, <2>2, <2>3, FaultFree
<1>2. CASE \E t \in Task : Arrive(t)
    BY <1>2, ArriveAdvances
<1>3. CASE \E t \in Task : InputArrives(t)
    BY <1>3, InputArrivesAdvances
<1>4. CASE \E t \in Task : Deadline(t)
    BY <1>4, DeadlineAdvances
<1>5. CASE \E t \in Task : ResultArrives(t)
    BY <1>5, ResultArrivesAdvances
<1>6. CASE \E n \in Server : Dispatch(n)
    BY <1>6, DispatchAdvances
<1>7. CASE \E n \in Server : Complete(n)
    BY <1>7, CompleteAdvances
<1>8. CASE FaultBatch
    BY <1>8, FaultBatchAdvances
<1>9. CASE Tick
    BY <1>9, TickAdvances
<1>10. CASE FinalizeSimulation
    BY <1>10, FinalizeSimulationAdvances
<1> QED
    BY <1>1, <1>2, <1>3, <1>4, <1>5, <1>6, <1>7, <1>8, <1>9, <1>10 DEF Next

LEMMA InitSound == Init => Sound
<1> SUFFICES ASSUME Init PROVE Sound
    OBVIOUS
<1> DEFINE s == [NewService EXCEPT !.running = TRUE]
<1>1. s \in Service
    BY NewServiceSound DEF Service
<1>2. /\ s.running = TRUE /\ s.available = TRUE /\ s.queue = {} /\ s.known = {}
      /\ s.hasCurrent = FALSE /\ s.dispatch = FALSE /\ s.completion = FALSE
      /\ s.owner = NoTask /\ s.runningRecovery = FALSE
      /\ s.enqueued = 0 /\ s.completed = 0 /\ s.cancelled = 0 /\ s.removed = 0
      /\ s.busy = 0
    BY DEF NewService
<1> HIDE DEF s
<1>3. now = 0 /\ now \in 0..StopTime /\ now \in Time
    BY LoadAssumption DEF Init, Time
<1>4. ServiceSound(s, now)
    <2>1. IsFiniteSet({}) /\ Cardinality({}) = 0
        BY FS_EmptySet
    <2>2. Conserved(s)
        BY <1>2, <2>1 DEF Conserved
    <2>3. BusyBounded(s, now)
        BY <1>2, <1>3 DEF BusyBounded, BusyTimeNs
    <2>4. QueueSane(s, now) /\ CurrentSane(s, now)
        BY <1>2, <2>1 DEF QueueSane, CurrentSane
    <2>5. /\ SlotOwned(s) /\ CompletionAllowed(s) /\ DispatchArmed(s)
          /\ CompletionTimely(s, now)
        BY <1>2 DEF SlotOwned, CompletionTimely, CompletionAllowed, DispatchArmed, CanDispatch
    <2> QED BY <1>2, <2>2, <2>3, <2>4, <2>5 DEF ServiceSound, ServiceInv, ServiceCore
<1>5. /\ svc \in [Server -> Service] /\ \A n \in Server : svc[n] = s
      /\ \A t \in Task : task[t] = NewTask
    BY <1>1 DEF Init, s
<1>6. RecordSound(NewTask, now) /\ NewTask.state = "PENDING"
    BY DEF NewTask, RecordSound, TaskRuntime, State, Transfer, Terminal, TerminalState, NoTime
<1>7. task \in [Task -> TaskRuntime]
    BY <1>6 DEF Init, RecordSound
<1>8. \A t \in Task : ~Queued(s, t) /\ ~Runs(s, t) /\ t \notin s.known
    BY <1>2 DEF Queued, Runs
<1>9. \A t \in Task, n \in Server : Linked(n, svc[n], t, task[t])
    BY <1>5, <1>6, <1>8 DEF Linked
<1>10. Fits(svc, task, now, Dead)
    BY <1>4, <1>5, <1>6, <1>7, <1>9 DEF Fits, AliveAt
<1>11. fault \in [Sat -> FaultKind] /\ faults \in 0..MaxFaults
    BY LoadAssumption DEF Init, FaultKind
<1>12. AvailabilityAgrees
    BY <1>2, <1>5, NodeAssumption DEF Init, AvailabilityAgrees
<1> QED BY <1>3, <1>10, <1>11, <1>12 DEF Init, Sound

\* The invariant is inductive: services, records, transfers, deadlines and
\* faults agree after every event of the coordinator.
THEOREM InductiveInvariant == Spec => []IInv
<1>1. Init => IInv
    BY InitSound, IInvOfSound
<1>2. IInv /\ [Next]_vars => IInv'
    <2> SUFFICES ASSUME IInv, [Next]_vars PROVE IInv'
        OBVIOUS
    <2>1. Sound'
        BY SoundOfIInv, NextAdvances DEF Advances
    <2> QED BY <2>1, IInvOfSound, PTL
<1> QED BY <1>1, <1>2, PTL DEF Spec

\* Every record, service and fault stays of its type.
THEOREM TypeCorrect == Spec => []TypeOK
<1>1. IInv => TypeOK
    BY DEF IInv
<1> QED BY <1>1, InductiveInvariant, PTL

\* A service works exactly for the tasks whose records say so: withdrawing a
\* failed task always finds it, and no service works for one that has ended.
THEOREM RecordsAgree == Spec => []ServicesAgree
<1>1. IInv => ServicesAgree
    BY DEF IInv
<1> QED BY <1>1, InductiveInvariant, PTL

\* No wakeup of a service is lost and no completion event is stale, whatever
\* the coordinator withdraws, opens or closes.
THEOREM ServicesStaySound == Spec => []ServicesSound
<1>1. IInv => ServicesSound
    BY DEF IInv
<1> QED BY <1>1, InductiveInvariant, PTL

\* No task that has arrived is left alive when a satellite it needs is lost.
THEOREM NothingOnDeadSatellites == Spec => []NoneOnDeadSatellite
<1>1. IInv => NoneOnDeadSatellite
    BY DEF IInv
<1> QED BY <1>1, InductiveInvariant, PTL

\* Transfers are in flight in their stage only and end with their task; a
\* deadline event is pending exactly while its task runs, and no computation
\* counts that ends after its deadline.
THEOREM NothingIsLeftBehind == Spec => []NothingLeftBehind
<1>1. IInv => NothingLeftBehind
    BY DEF IInv, NothingLeftBehind
<1> QED BY <1>1, InductiveInvariant, PTL

\* What has ended is left alone by every later event.
THEOREM EndedIsFinal == Spec => EndedStaysEnded
<1>1. IInv /\ [Next]_vars => [\A t \in Task : Terminal(task[t]) => task'[t] = task[t]]_vars
    BY SoundOfIInv, NextAdvances DEF Advances, RecordStep
<1> QED BY <1>1, InductiveInvariant, PTL DEF Spec, EndedStaysEnded

-----------------------------------------------------------------------------
(* What is counted: transitions, and executions that a service let go of *)

SameCount(s, r) == r.cancelled = s.cancelled /\ r.removed = s.removed

LEMMA SubmitTaskCount ==
    ASSUME NEW s \in Service, NEW t, NEW w, NEW at
    PROVE  SameCount(s, SubmitTask(s, t, w, at))
BY DEF Service, SubmitTask, RequestDispatch, SameCount

LEMMA FireDispatchCount ==
    ASSUME NEW s \in Service, NEW at, NEW rate
    PROVE  SameCount(s, FireDispatch(s, at, rate))
BY DEF Service, FireDispatch, DispatchNextTask, StartFront, SameCount

LEMMA CompleteCurrentTaskCount ==
    ASSUME NEW s \in Service, NEW at, NEW rate, NEW deferDispatch
    PROVE  SameCount(s, CompleteCurrentTask(s, at, rate, deferDispatch))
<1> DEFINE v == Vacated(s)
<1>1. SameCount(s, v) /\ v = [v EXCEPT !.dispatch = v.dispatch]
    BY ZenonT(60) DEF Service, Vacated, SameCount
<1>2. v.cancelled = s.cancelled /\ v.removed = s.removed
    BY <1>1 DEF SameCount
<1> HIDE DEF v
<1>3. SameCount(s, RequestDispatch(v))
    BY <1>1, <1>2 DEF RequestDispatch, SameCount
<1>4. SameCount(s, DispatchNextTask(v, at, rate))
    BY <1>1, <1>2 DEF DispatchNextTask, StartFront, SameCount
<1> QED BY <1>3, <1>4 DEF CompleteCurrentTask, v

LEMMA SetComputeAvailableCount ==
    ASSUME NEW s \in Service, NEW available
    PROVE  SameCount(s, SetComputeAvailable(s, available))
BY DEF Service, SetComputeAvailable, RequestDispatch, SameCount

LEMMA WithdrawNone ==
    ASSUME NEW s \in Service
    PROVE  SameCount(s, Withdraw(s, {}))
<1>1. {i \in s.queue : i.task \in {}} = {}
    OBVIOUS
<1>2. Cardinality({}) = 0
    BY FS_EmptySet
<1>3. Withdraw(s, {}) = RemoveQueuedTasks(s, {})
    BY DEF Withdraw
<1>4. s.removed \in Nat /\ s.removed + 0 = s.removed
    BY DEF Service
<1>5. RemoveQueuedTasks(s, {}).removed = s.removed + Cardinality({i \in s.queue : i.task \in {}})
      /\ RemoveQueuedTasks(s, {}).cancelled = s.cancelled
    BY DEF Service, RemoveQueuedTasks
<1> QED BY <1>1, <1>2, <1>3, <1>4, <1>5 DEF SameCount

LEMMA PassedStages ==
    /\ Passed("PENDING") = 0 /\ Passed("INPUT_TRANSFERRING") = 1 /\ Passed("QUEUED") = 2
    /\ Passed("RUNNING") = 3 /\ Passed("RESULT_TRANSFERRING") = 4 /\ Passed("COMPLETED") = 5
BY DEF Passed, TerminalState

\* A record moves by counted transitions, and the task starts, computes,
\* completes or fails.
LEMMA ToldStarted ==
    ASSUME NEW t \in Task, NEW r, RecordSound(r, now), now \in Time, r.state = "QUEUED", Told(r)
    PROVE  Told(Started(r, t))
<1>1. r.events = 2 /\ r \in TaskRuntime
    BY DEF Told, Passed, TerminalState, RecordSound
<1>2. Started(r, t).events = r.events + 1 /\ Started(r, t).state = "RUNNING"
    BY <1>1 DEF Started, Transition, Terminal, TerminalState, TaskRuntime
<1> QED BY <1>1, <1>2 DEF Told, Passed, TerminalState

LEMMA ToldComputed ==
    ASSUME NEW r, RecordSound(r, now), now \in Time, r.state = "RUNNING", Told(r)
    PROVE  Told(Computed(r))
<1>1. r.events = 3 /\ r \in TaskRuntime
    BY DEF Told, Passed, TerminalState, RecordSound
<1>2. Computed(r).events = r.events + 1 /\ Computed(r).state = "RESULT_TRANSFERRING"
    BY <1>1 DEF Computed, Transition, Terminal, TerminalState, TaskRuntime
<1> QED BY <1>1, <1>2 DEF Told, Passed, TerminalState

\* What every step does with these.
Accounts ==
    /\ \A t \in Task : Told(task[t]) => Told(task'[t])
    /\ \A n \in Server : SameCount(svc[n], svc'[n]) \/ \E t \in Task : task'[t].state = "FAILED"

\* The tasks that start at n were queued there.
LEMMA StartsTold ==
    ASSUME Sound, NEW n \in Server, NEW s, NEW out, Moves(svc[n], s, out),
           NEW t \in Task, Told(task[t]), Runs(s, t), ~Runs(svc[n], t)
    PROVE  Told(Started(task[t], t))
<1>1. Queued(svc[n], t)
    BY DEF Moves, Shifts
<1>2. task[t].state = "QUEUED"
    BY <1>1, SoundParts DEF Linked
<1> QED BY <1>2, SoundParts, ToldStarted

LEMMA CompleteRunAccounts ==
    ASSUME Sound, NEW n \in Server, CompletionLegal(svc[n], now), CompleteRun(n)
    PROVE  Accounts
<1> DEFINE s == CompleteCurrentTask(svc[n], now, Rate[n], FALSE)
           done == svc[n].current.task
           k == [task EXCEPT ![done] = Computed(@)]
<1>1. /\ svc' = [svc EXCEPT ![n] = s] /\ task' = WithStart(k, n, s)
      /\ Moves(svc[n], s, {done})
    BY SoundParts, CompleteCurrentTaskMoves DEF ServiceSound, CompleteRun
<1>2. SameCount(svc[n], s)
    BY SoundParts, CompleteCurrentTaskCount
<1>3. done \in Task /\ Runs(svc[n], done)
    BY SoundParts, CurrentTask DEF CompletionLegal, CompletionDue
<1>4. task[done].state = "RUNNING" /\ ~Runs(s, done)
    BY <1>1, <1>3, SoundParts DEF Linked, Moves, Shifts
<1> HIDE DEF s, done
<1>5. \A t \in Task : k[t] = IF t = done THEN Computed(task[done]) ELSE task[t]
    BY <1>3, SoundParts
<1> HIDE DEF k
<1>6. \A t \in Task : task'[t] = IF Runs(s, t) /\ ~Runs(svc[n], t)
                                 THEN Started(k[t], t) ELSE k[t]
    BY <1>1 DEF WithStart
<1>7. ASSUME NEW t \in Task, Told(task[t]) PROVE Told(task'[t])
    <2>1. CASE t = done
        BY <1>4, <1>5, <1>6, <1>7, <2>1, SoundParts, ToldComputed
    <2>2. CASE t # done /\ Runs(s, t) /\ ~Runs(svc[n], t)
        <3>1. Told(Started(task[t], t))
            BY <1>1, <1>7, <2>2, StartsTold
        <3> QED BY <1>5, <1>6, <2>2, <3>1
    <2>3. CASE t # done /\ ~(Runs(s, t) /\ ~Runs(svc[n], t))
        BY <1>5, <1>6, <1>7, <2>3
    <2> QED BY <2>1, <2>2, <2>3
<1>8. \A m \in Server : SameCount(svc[m], svc'[m])
    BY <1>1, <1>2, SoundParts DEF SameCount
<1> QED BY <1>7, <1>8 DEF Accounts

\* An event of one task.
LEMMA OneRecordAccounts ==
    ASSUME Sound, NEW t \in Task, NEW q, task' = [task EXCEPT ![t] = q],
           Told(task[t]) => Told(q),
           \A n \in Server : SameCount(svc[n], svc'[n]) \/ q.state = "FAILED"
    PROVE  Accounts
<1>1. \A u \in Task : task'[u] = IF u = t THEN q ELSE task[u]
    BY SoundParts
<1> QED BY <1>1 DEF Accounts

LEMMA FailedIsTold ==
    ASSUME NEW q, q.state = "FAILED"
    PROVE  Told(q)
BY DEF Told

LEMMA ArriveAccounts ==
    ASSUME Sound, NEW t \in Task, Arrive(t)
    PROVE  Accounts
<1> DEFINE q == IF Needed(t, "PENDING") \cap Dead # {}
                THEN FailedBySatellite(task[t], t, Dead)
                ELSE [Transition(task[t], "INPUT_TRANSFERRING") EXCEPT !.input = "started"]
<1>1. /\ task[t].state = "PENDING" /\ task' = [task EXCEPT ![t] = q] /\ svc' = svc
      /\ task[t] \in TaskRuntime
    BY SoundParts DEF Arrive
<1>2. ASSUME Told(task[t]) PROVE Told(q)
    <2>1. task[t].events = 0
        BY <1>1, <1>2, PassedStages DEF Told
    <2>2. FailedBySatellite(task[t], t, Dead).state = "FAILED"
        BY <1>1 DEF FailedBySatellite, Transition, TaskRuntime
    <2> DEFINE x == [Transition(task[t], "INPUT_TRANSFERRING") EXCEPT !.input = "started"]
    <2>3. x.events = task[t].events + 1 /\ x.state = "INPUT_TRANSFERRING"
        BY <1>1 DEF Transition, TaskRuntime
    <2>4. CASE q = x
        <3> HIDE DEF q, x
        <3> QED BY <2>1, <2>3, <2>4, PassedStages DEF Told
    <2>5. CASE q = FailedBySatellite(task[t], t, Dead)
        <3> HIDE DEF q
        <3> QED BY <2>2, <2>5, FailedIsTold
    <2> QED BY <2>4, <2>5
<1> HIDE DEF q
<1>3. \A n \in Server : SameCount(svc[n], svc'[n])
    BY <1>1 DEF SameCount
<1> QED BY <1>1, <1>2, <1>3, OneRecordAccounts

LEMMA ResultArrivesAccounts ==
    ASSUME Sound, NEW t \in Task, ResultArrives(t)
    PROVE  Accounts
<1> DEFINE r == [task[t] EXCEPT !.result = "completed"]
           q == IF Terminal(r) THEN r ELSE Transition(r, "COMPLETED")
<1>1. /\ task' = [task EXCEPT ![t] = q] /\ svc' = svc
      /\ task[t] \in TaskRuntime /\ task[t].state = "RESULT_TRANSFERRING"
      /\ task[t].input = "completed"
    BY SoundParts DEF ResultArrives, RecordSound
<1>2. ASSUME Told(task[t]) PROVE Told(q)
    <2>1. task[t].events = 4
        BY <1>1, <1>2, PassedStages DEF Told
    <2>2. /\ q.events = task[t].events + 1 /\ q.state = "COMPLETED"
          /\ q.input = "completed" /\ q.result = "completed"
        BY <1>1 DEF Transition, TaskRuntime, Terminal, TerminalState
    <2> HIDE DEF q
    <2> QED BY <2>1, <2>2, PassedStages DEF Told
<1> HIDE DEF q
<1>3. \A n \in Server : SameCount(svc[n], svc'[n])
    BY <1>1 DEF SameCount
<1> QED BY <1>1, <1>2, <1>3, OneRecordAccounts

LEMMA InputArrivesAccounts ==
    ASSUME Sound, NEW t \in Task, InputArrives(t)
    PROVE  Accounts
<1> DEFINE r == [task[t] EXCEPT !.input = "completed"]
           n == HostNode[t]
           s == SubmitTask(svc[n], t, WorkOf[t], now)
<1>1. /\ task[t] \in TaskRuntime /\ task[t].state = "INPUT_TRANSFERRING" /\ n \in Server
      /\ svc[n] \in Service
    BY SoundParts DEF InputArrives, RecordSound
<1>2. ~Terminal(r) /\ r.events = task[t].events /\ r.state = task[t].state
    BY <1>1 DEF Terminal, TerminalState, TaskRuntime
<1>3. CASE n \in Dead
    <2> DEFINE q == FailedBySatellite(r, t, {n})
    <2>1. task' = [task EXCEPT ![t] = q] /\ svc' = svc
        BY <1>2, <1>3 DEF InputArrives
    <2>2. q.state = "FAILED"
        BY <1>1 DEF FailedBySatellite, Transition, TaskRuntime
    <2> HIDE DEF q
    <2> QED BY <2>1, <2>2, FailedIsTold, OneRecordAccounts
<1>4. CASE n \notin Dead
    <2> DEFINE q == Transition(r, "QUEUED")
    <2>1. task' = [task EXCEPT ![t] = q] /\ svc' = [svc EXCEPT ![n] = s]
        BY <1>2, <1>4 DEF InputArrives
    <2>2. ASSUME Told(task[t]) PROVE Told(q)
        <3>1. task[t].events = 1
            BY <1>1, <2>2, PassedStages DEF Told
        <3>2. q.events = task[t].events + 1 /\ q.state = "QUEUED"
            BY <1>1, <1>2 DEF Transition, TaskRuntime
        <3> HIDE DEF q
        <3> QED BY <3>1, <3>2, PassedStages DEF Told
    <2>3. SameCount(svc[n], s)
        BY <1>1, SubmitTaskCount
    <2> HIDE DEF q, s
    <2>4. \A m \in Server : SameCount(svc[m], svc'[m])
        BY <2>1, <2>3, SoundParts DEF SameCount
    <2> QED BY <2>1, <2>2, <2>4, OneRecordAccounts
<1> QED BY <1>3, <1>4

LEMMA DispatchAccounts ==
    ASSUME Sound, NEW n \in Server, Dispatch(n)
    PROVE  Accounts
<1> DEFINE s == FireDispatch(svc[n], now, Rate[n])
<1>1. svc' = [svc EXCEPT ![n] = s] /\ task' = WithStart(task, n, s)
    BY DEF Dispatch
<1>2. Moves(svc[n], s, {}) /\ SameCount(svc[n], s)
    BY SoundParts, FireDispatchMoves, FireDispatchCount
<1> HIDE DEF s
<1>3. ASSUME NEW t \in Task, Told(task[t]) PROVE Told(task'[t])
    <2>1. task'[t] = IF Runs(s, t) /\ ~Runs(svc[n], t) THEN Started(task[t], t) ELSE task[t]
        BY <1>1 DEF WithStart
    <2> QED BY <1>2, <1>3, <2>1, StartsTold
<1>4. \A m \in Server : SameCount(svc[m], svc'[m])
    BY <1>1, <1>2, SoundParts DEF SameCount
<1> QED BY <1>3, <1>4 DEF Accounts

LEMMA DeadlineAccounts ==
    ASSUME Sound, NEW t \in Task, Deadline(t)
    PROVE  Accounts
<1> DEFINE n == HostNode[t]
           q == FailedByCompute(task[t])
<1>1. /\ n \in Server /\ task[t].state = "RUNNING" /\ task[t].complete = NoTime
      /\ task[t] \in TaskRuntime
    <2>1. RecordSound(task[t], now) /\ task[t].timer /\ HostNode[t] \in Server
        BY SoundParts DEF Deadline
    <2> QED BY <2>1 DEF RecordSound, TerminalState
<1>2. ~(Terminal(task[t]) \/ task[t].complete # NoTime)
    BY <1>1 DEF Terminal, TerminalState
<1>3. CASE CanCompleteIfDue(svc[n], t, now)
    BY <1>1, <1>2, <1>3, CompleteRunAccounts DEF Deadline, CanCompleteIfDue
<1>4. CASE ~CanCompleteIfDue(svc[n], t, now)
    <2>1. task' = [task EXCEPT ![t] = q]
        BY <1>2, <1>4 DEF Deadline
    <2>2. q.state = "FAILED"
        BY <1>1, <1>2 DEF FailedByCompute, Transition, TaskRuntime
    <2> HIDE DEF q
    <2> QED BY <2>1, <2>2, FailedIsTold, OneRecordAccounts
<1> QED BY <1>3, <1>4

LEMMA SwitchedCount ==
    ASSUME NEW n, NEW recovered, NEW down, svc[n] \in Service, ServiceCore(svc[n], now),
           ServiceInv(svc[n], now), now \in Time, Rate[n] \in Nat \ {0}
    PROVE  SameCount(svc[n], Switched(n, recovered, down))
<1> DEFINE up == IF n \in recovered THEN SetComputeAvailable(svc[n], TRUE) ELSE svc[n]
           mid == IF Handlers /\ CompletionLegal(up, now)
                  THEN CompleteCurrentTask(up, now, Rate[n], TRUE) ELSE up
           yes == TRUE
           no == FALSE
<1>1. yes \in BOOLEAN /\ no \in BOOLEAN
    OBVIOUS
<1> HIDE DEF yes, no
<1>2. up \in Service /\ ServiceCore(up, now) /\ SameCount(svc[n], up)
    <2>1. CASE n \in recovered
        <3> DEFINE r == SetComputeAvailable(svc[n], TRUE)
        <3>1. up = r
            BY <2>1
        <3>2. SameCount(svc[n], r)
            BY SetComputeAvailableCount
        <3>3. r \in Service /\ ServiceInv(r, now)
            BY OpenKeeps
        <3> HIDE DEF up, r
        <3> QED BY <3>1, <3>2, <3>3 DEF ServiceInv
    <2>2. CASE n \notin recovered
        BY <2>2 DEF SameCount
    <2> QED BY <2>1, <2>2
<1> HIDE DEF up
<1>3. mid \in Service /\ SameCount(up, mid)
    <2>1. CASE Handlers /\ CompletionLegal(up, now)
        <3>1. mid = CompleteCurrentTask(up, now, Rate[n], yes)
            BY <2>1 DEF yes
        <3> QED BY <1>1, <1>2, <2>1, <3>1, CompleteCurrentTaskKeeps, CompleteCurrentTaskCount
    <2>2. CASE ~(Handlers /\ CompletionLegal(up, now))
        BY <1>2, <2>2 DEF SameCount
    <2> QED BY <2>1, <2>2
<1> HIDE DEF mid
<1>4. SameCount(mid, SetComputeAvailable(mid, no))
    BY <1>3, SetComputeAvailableCount
<1>5. Switched(n, recovered, down) = IF n \notin down THEN up ELSE SetComputeAvailable(mid, no)
    BY DEF Switched, up, mid, no
<1> QED BY <1>2, <1>3, <1>4, <1>5 DEF SameCount

\* Withdrawing no one changes no count; who is withdrawn has failed.
LEMMA WithdrawCount ==
    ASSUME NEW s \in Service, NEW r, NEW victims, r = Withdraw(s, victims)
    PROVE  SameCount(s, r) \/ victims # {}
<1>1. CASE victims = {}
    BY <1>1, WithdrawNone
<1> QED BY <1>1

LEMMA FaultBatchAccounts ==
    ASSUME Sound, FaultBatch
    PROVE  Accounts
<1>1. PICK recovered \in SUBSET Sat, kind \in [Sat -> FaultKind] : ApplyFaultBatch(recovered, kind)
    BY DEF FaultBatch
<1> DEFINE dead == {n \in Sat : kind[n] = "satellite"}
           down == {n \in Sat : kind[n] # "none"}
           switched == [n \in Server |-> Switched(n, recovered, down)]
           tasks == [t \in Task |-> IF /\ Runs(svc[HostNode[t]], t)
                                       /\ ~Runs(switched[HostNode[t]], t)
                                    THEN Computed(task[t]) ELSE task[t]]
           lost == SatelliteVictims(tasks, dead)
           interrupted == ComputeVictims(tasks, down) \ lost
           victims(n) == {t \in lost \cup interrupted : HostNode[t] = n}
<1>2. /\ svc' = [n \in Server |-> Withdraw(switched[n], victims(n))]
      /\ task' = [t \in Task |-> IF t \in lost THEN FailedBySatellite(tasks[t], t, dead)
                                 ELSE IF t \in interrupted THEN FailedByCompute(tasks[t])
                                 ELSE tasks[t]]
    BY <1>1 DEF ApplyFaultBatch
<1>3. lost \subseteq Task /\ interrupted \subseteq Task
    BY DEF SatelliteVictims, ComputeVictims
<1>4. ASSUME NEW t \in Task
      PROVE  /\ RecordSound(tasks[t], now)
             /\ (tasks[t] = Computed(task[t]) /\ task[t].state = "RUNNING") \/ tasks[t] = task[t]
    <2>1. RecordSound(task[t], now) /\ now \in Time
        BY SoundParts
    <2>2. CASE Runs(svc[HostNode[t]], t) /\ ~Runs(switched[HostNode[t]], t)
        <3>1. task[t].state = "RUNNING"
            BY <2>2, SoundParts DEF Linked
        <3>2. tasks[t] = Computed(task[t])
            BY <2>2
        <3> HIDE DEF tasks
        <3> QED BY <2>1, <3>1, <3>2, ComputedSound
    <2>3. CASE ~(Runs(svc[HostNode[t]], t) /\ ~Runs(switched[HostNode[t]], t))
        <3>1. tasks[t] = task[t]
            BY <2>3
        <3> HIDE DEF tasks
        <3> QED BY <2>1, <3>1
    <2> QED BY <2>2, <2>3
<1>5. ASSUME NEW t \in lost \cup interrupted PROVE task'[t].state = "FAILED"
    <2>1. t \in Task /\ tasks[t] \in TaskRuntime
        BY <1>3, <1>4, <1>5 DEF RecordSound
    <2>2. CASE t \in lost
        <3>1. task'[t] = FailedBySatellite(tasks[t], t, dead)
            BY <1>2, <2>1, <2>2
        <3> HIDE DEF tasks
        <3> QED BY <2>1, <3>1 DEF FailedBySatellite, Transition, TaskRuntime
    <2>3. CASE t \notin lost
        <3>1. task'[t] = FailedByCompute(tasks[t]) /\ tasks[t].state = "RUNNING"
            <4>1. t \in interrupted
                BY <1>5, <2>3
            <4>2. task'[t] = FailedByCompute(tasks[t])
                BY <1>2, <2>1, <2>3, <4>1
            <4>3. tasks[t].state = "RUNNING"
                BY <2>1, <4>1 DEF ComputeVictims
            <4> QED BY <4>2, <4>3
        <3> HIDE DEF tasks
        <3> QED BY <2>1, <3>1 DEF FailedByCompute, Transition, TaskRuntime, Terminal, TerminalState
    <2> QED BY <2>2, <2>3
<1>6. ASSUME NEW t \in Task, Told(task[t]) PROVE Told(task'[t])
    <2>1. CASE t \in lost \cup interrupted
        BY <1>5, <2>1, FailedIsTold
    <2>2. CASE t \notin lost \cup interrupted
        <3>1. task'[t] = tasks[t]
            BY <1>2, <2>2
        <3> HIDE DEF tasks, lost, interrupted
        <3> QED BY <1>4, <1>6, <3>1, SoundParts, ToldComputed
    <2> QED BY <2>1, <2>2
<1>7. ASSUME NEW n \in Server
      PROVE  SameCount(svc[n], svc'[n]) \/ \E t \in Task : task'[t].state = "FAILED"
    <2>1. /\ svc[n] \in Service /\ ServiceInv(svc[n], now) /\ now \in Time /\ Rate[n] \in Nat \ {0}
          /\ svc[n].owner = NoTask /\ ~svc[n].runningRecovery
        BY SoundParts DEF ServiceSound
    <2>2. switched[n] = Switched(n, recovered, down) /\ svc'[n] = Withdraw(switched[n], victims(n))
        BY <1>2
    <2>3. victims(n) \subseteq lost \cup interrupted
        OBVIOUS
    <2> HIDE DEF switched, victims, lost, interrupted, tasks, down
    <2>4. switched[n] \in Service
        <3> DEFINE r == Switched(n, recovered, down)
        <3>1. r \in Service
            BY <2>1, SwitchedKeeps
        <3> HIDE DEF r
        <3> QED BY <2>2, <3>1 DEF r
    <2>5. SameCount(svc[n], switched[n])
        <3>1. ServiceCore(svc[n], now)
            BY <2>1 DEF ServiceInv
        <3> QED BY <2>1, <2>2, <3>1, SwitchedCount
    <2>6. SameCount(switched[n], svc'[n]) \/ victims(n) # {}
        BY <2>2, <2>4, WithdrawCount
    <2>7. victims(n) # {} => \E t \in Task : task'[t].state = "FAILED"
        BY <1>3, <1>5, <2>3
    <2> QED BY <2>5, <2>6, <2>7 DEF SameCount
<1> QED BY <1>6, <1>7 DEF Accounts

LEMMA FinalizeSimulationAccounts ==
    ASSUME Sound, FinalizeSimulation
    PROVE  Accounts
<1> DEFINE victims(n) == {t \in Task : HostNode[t] = n /\ ~Terminal(task[t])}
<1>1. /\ svc' = [n \in Server |-> Withdraw(svc[n], victims(n))]
      /\ task' = [t \in Task |-> FailedAtEnd(task[t])]
    BY DEF FinalizeSimulation
<1>2. ASSUME NEW t \in Task
      PROVE  /\ Terminal(task[t]) => task'[t] = task[t]
             /\ ~Terminal(task[t]) => task'[t].state = "FAILED"
    <2>1. task[t] \in TaskRuntime /\ task'[t] = FailedAtEnd(task[t])
        BY <1>1, SoundParts
    <2> QED BY <2>1 DEF FailedAtEnd, Transition, TaskRuntime
<1>3. \A t \in Task : Told(task[t]) => Told(task'[t])
    BY <1>2, FailedIsTold
<1>4. ASSUME NEW n \in Server
      PROVE  SameCount(svc[n], svc'[n]) \/ \E t \in Task : task'[t].state = "FAILED"
    <2>1. svc'[n] = Withdraw(svc[n], victims(n)) /\ \A t \in victims(n) : t \in Task /\ ~Terminal(task[t])
        BY <1>1
    <2> HIDE DEF victims
    <2>2. SameCount(svc[n], svc'[n]) \/ victims(n) # {}
        BY <2>1, SoundParts, WithdrawCount
    <2> QED BY <1>2, <2>1, <2>2
<1> QED BY <1>3, <1>4 DEF Accounts

LEMMA NextAccounts ==
    ASSUME Sound, [Next]_vars
    PROVE  Accounts
<1>1. CASE UNCHANGED vars
    BY <1>1 DEF vars, Accounts, SameCount
<1>2. CASE \E t \in Task : Arrive(t)
    BY <1>2, ArriveAccounts
<1>3. CASE \E t \in Task : InputArrives(t)
    BY <1>3, InputArrivesAccounts
<1>4. CASE \E t \in Task : Deadline(t)
    BY <1>4, DeadlineAccounts
<1>5. CASE \E t \in Task : ResultArrives(t)
    BY <1>5, ResultArrivesAccounts
<1>6. CASE \E n \in Server : Dispatch(n)
    BY <1>6, DispatchAccounts
<1>7. CASE \E n \in Server : Complete(n)
    <2>1. PICK n \in Server : Complete(n)
        BY <1>7
    <2>2. CompletionLegal(svc[n], now)
        BY <2>1, SoundParts
        DEF Complete, DueNow, ServiceSound, ServiceInv, CompletionAllowed, CompletionLegal
    <2> QED BY <2>1, <2>2, CompleteRunAccounts DEF Complete
<1>8. CASE FaultBatch
    BY <1>8, FaultBatchAccounts
<1>9. CASE Tick
    BY <1>9 DEF Tick, Accounts, SameCount
<1>10. CASE FinalizeSimulation
    BY <1>10, FinalizeSimulationAccounts
<1> QED
    BY <1>1, <1>2, <1>3, <1>4, <1>5, <1>6, <1>7, <1>8, <1>9, <1>10 DEF Next

LEMMA CompletionInvInit == Init => CompletionInv
<1> SUFFICES ASSUME Init PROVE CompletionInv
    OBVIOUS
<1>1. ASSUME NEW t \in Task PROVE Told(task[t])
    BY PassedStages DEF Init, NewTask, Told
<1>2. ASSUME NEW n \in Server PROVE svc[n].cancelled = 0 /\ svc[n].removed = 0
    BY DEF Init, NewService
<1> QED BY <1>1, <1>2 DEF CompletionInv

LEMMA CompletionInvNext ==
    ASSUME Sound, CompletionInv, [Next]_vars
    PROVE  CompletionInv'
<1>1. Accounts
    BY NextAccounts
<1>2. \A t \in Task : task[t].state = "FAILED" => task'[t].state = "FAILED"
    BY NextAdvances DEF Advances, RecordStep, Terminal, TerminalState
<1>3. \A t \in Task : Told(task'[t])
    BY <1>1 DEF CompletionInv, Accounts
<1>4. ASSUME NEW n \in Server, svc'[n].cancelled > 0 \/ svc'[n].removed > 0
      PROVE  \E t \in Task : task'[t].state = "FAILED"
    BY <1>1, <1>2, <1>4 DEF CompletionInv, Accounts, SameCount
<1> QED BY <1>3, <1>4 DEF CompletionInv

LEMMA CompletedRunIsValid ==
    ASSUME Sound, CompletionInv
    PROVE  CompletionValid
<1> SUFFICES ASSUME \A t \in Task : task[t].state = "COMPLETED" PROVE
        /\ \A t \in Task : /\ task[t].events = 5
                           /\ task[t].input = "completed" /\ task[t].result = "completed"
        /\ \A n \in Server : IsIdle(svc[n]) /\ svc[n].enqueued = svc[n].completed
    BY DEF CompletionValid
<1>1. ASSUME NEW t \in Task
      PROVE  /\ task[t].events = 5
             /\ task[t].input = "completed" /\ task[t].result = "completed"
    BY PassedStages DEF CompletionInv, Told
<1>2. ASSUME NEW n \in Server
      PROVE  IsIdle(svc[n]) /\ svc[n].enqueued = svc[n].completed
    <2>1. svc[n] \in Service /\ ServiceCore(svc[n], now) /\ svc[n].owner = NoTask
        BY SoundParts DEF ServiceSound
    <2>2. ~svc[n].hasCurrent
        <3>1. svc[n].hasCurrent => svc[n].current.task \in Task /\ Runs(svc[n], svc[n].current.task)
            BY <2>1, CurrentTask
        <3> QED BY <3>1, SoundParts DEF Linked
    <2>3. svc[n].queue = {}
        <3>1. \A i \in svc[n].queue : i.task \in Task /\ Queued(svc[n], i.task)
            BY <2>1 DEF Service, WorkItem, Queued
        <3> QED BY <3>1, SoundParts DEF Linked
    <2>4. svc[n].cancelled = 0 /\ svc[n].removed = 0
        <3>1. svc[n].cancelled \in Nat /\ svc[n].removed \in Nat
            BY <2>1 DEF Service
        <3>2. ~(\E t \in Task : task[t].state = "FAILED")
            OBVIOUS
        <3> QED BY <3>1, <3>2 DEF CompletionInv
    <2>5. Cardinality(svc[n].queue) = 0
        BY <2>3, FS_EmptySet
    <2>6. svc[n].enqueued = svc[n].completed
        BY <2>1, <2>2, <2>4, <2>5 DEF ServiceCore, Conserved, Service
    <2> QED BY <2>1, <2>2, <2>3, <2>6 DEF IsIdle
<1> QED BY <1>1, <1>2

\* When every task has completed, the program's own validation of the run
\* cannot fail.
THEOREM CompletionIsValid == Spec => []CompletionValid
<1>1. IInv /\ CompletionInv /\ [Next]_vars => CompletionInv'
    BY SoundOfIInv, CompletionInvNext
<1>2. IInv /\ CompletionInv => CompletionValid
    BY SoundOfIInv, CompletedRunIsValid
<1> QED BY CompletionInvInit, <1>1, <1>2, InductiveInvariant, PTL DEF Spec

-----------------------------------------------------------------------------
(* A completion that is due counts *)

\* The run of task t is due at its node, and no satellite it needs is lost.
DueRun(t) == Handlers /\ Runs(svc[HostNode[t]], t) /\ DueNow(HostNode[t])

\* The run is still there, or it ended as a completion of this instant.
Counts(t) == Runs(svc'[HostNode[t]], t) \/ task'[t].complete = now

\* A run that is due may complete.
LEMMA DueRunIsLegal ==
    ASSUME Sound, NEW t \in Task, NEW n, n = HostNode[t], DueRun(t)
    PROVE  /\ n \in Server /\ Runs(svc[n], t) /\ svc[n].current.task = t /\ svc[n].hasCurrent
           /\ CompletionLegal(svc[n], now) /\ CompletionDue(svc[n], now)
           /\ task[t].state = "RUNNING" /\ RecordSound(task[t], now)
<1>1. /\ n \in Server /\ ServiceSound(svc[n], now) /\ Linked(n, svc[n], t, task[t])
      /\ RecordSound(task[t], now)
    BY SoundParts
<1>2. Runs(svc[n], t) /\ svc[n].completion /\ CompletionDue(svc[n], now)
    BY DEF DueRun, DueNow
<1>3. CompletionLegal(svc[n], now)
    BY <1>1, <1>2 DEF ServiceSound, ServiceInv, CompletionAllowed, CompletionLegal
<1> QED BY <1>1, <1>2, <1>3 DEF Runs, Linked

\* A completion of its run counts the task.
LEMMA CompleteRunCounts ==
    ASSUME Sound, NEW t \in Task, DueRun(t), NEW m \in Server,
           CompletionLegal(svc[m], now), CompleteRun(m)
    PROVE  Counts(t)
<1> DEFINE n == HostNode[t]
           s == CompleteCurrentTask(svc[m], now, Rate[m], FALSE)
           k == [task EXCEPT ![t] = Computed(@)]
<1>1. /\ n \in Server /\ Runs(svc[n], t) /\ svc[n].current.task = t
      /\ task[t].state = "RUNNING" /\ RecordSound(task[t], now)
    BY DueRunIsLegal
<1>2. CASE m # n
    <2>1. svc' = [svc EXCEPT ![m] = s]
        BY DEF CompleteRun
    <2> HIDE DEF s
    <2>2. svc'[n] = svc[n]
        BY <1>1, <1>2, <2>1, SoundParts
    <2> QED BY <1>1, <2>2 DEF Counts
<1>3. CASE m = n
    <2>1. task' = WithStart(k, n, s) /\ Moves(svc[n], s, {t})
        BY <1>1, <1>3, SoundParts, CompleteCurrentTaskMoves DEF ServiceSound, CompleteRun
    <2> HIDE DEF s
    <2>2. ~Runs(s, t)
        BY <2>1 DEF Moves, Shifts
    <2>3. task'[t] = k[t] /\ k[t] = Computed(task[t])
        BY <2>1, <2>2, SoundParts DEF WithStart
    <2> HIDE DEF k
    <2>4. Computed(task[t]).complete = now
        BY <1>1 DEF Computed, Transition, Terminal, TerminalState, RecordSound, TaskRuntime
    <2> QED BY <2>3, <2>4 DEF Counts
<1> QED BY <1>2, <1>3

\* Withdrawing another task leaves the run alone.
LEMMA DeadlineCounts ==
    ASSUME Sound, NEW t \in Task, DueRun(t), NEW u \in Task, Deadline(u)
    PROVE  Counts(t)
<1> DEFINE n == HostNode[u]
           s == Withdraw(svc[n], {u})
<1>1. /\ HostNode[t] \in Server /\ Runs(svc[HostNode[t]], t)
      /\ CompletionLegal(svc[HostNode[t]], now) /\ svc[HostNode[t]].current.task = t
    BY DueRunIsLegal
<1>2. /\ n \in Server /\ task[u].state = "RUNNING" /\ task[u].complete = NoTime
    <2>1. RecordSound(task[u], now) /\ task[u].timer /\ n \in Server
        BY SoundParts DEF Deadline
    <2> QED BY <2>1 DEF RecordSound, TerminalState
<1>3. ~(Terminal(task[u]) \/ task[u].complete # NoTime)
    BY <1>2 DEF Terminal, TerminalState
<1>4. CASE CanCompleteIfDue(svc[n], u, now)
    <2>1. CompletionLegal(svc[n], now) /\ CompleteRun(n)
        BY <1>3, <1>4 DEF Deadline, CanCompleteIfDue
    <2> QED BY <1>2, <2>1, CompleteRunCounts
<1>5. CASE ~CanCompleteIfDue(svc[n], u, now)
    <2>1. t # u
        BY <1>1, <1>5 DEF CanCompleteIfDue
    <2>2. svc' = [svc EXCEPT ![n] = s]
        BY <1>3, <1>5 DEF Deadline
    <2>3. Moves(svc[n], s, {u})
        BY <1>2, SoundParts, WithdrawKeeps DEF ServiceSound, ServiceInv
    <2> HIDE DEF s
    <2>4. Runs(svc[n], t) => Runs(s, t)
        BY <2>1, <2>3 DEF Moves, Shifts
    <2>5. svc'[HostNode[t]] = IF HostNode[t] = n THEN s ELSE svc[HostNode[t]]
        BY <1>1, <2>2, SoundParts
    <2> QED BY <1>1, <2>4, <2>5 DEF Counts
<1> QED BY <1>4, <1>5

\* An input that arrives does not touch the slot.
LEMMA InputArrivesCounts ==
    ASSUME Sound, NEW t \in Task, DueRun(t), NEW u \in Task, InputArrives(u)
    PROVE  Counts(t)
<1> DEFINE n == HostNode[u]
           s == SubmitTask(svc[n], u, WorkOf[u], now)
<1>1. HostNode[t] \in Server /\ Runs(svc[HostNode[t]], t)
    BY DueRunIsLegal
<1>2. svc' = svc \/ svc' = [svc EXCEPT ![n] = s]
    BY DEF InputArrives
<1>3. n \in Server /\ (Runs(svc[n], t) => Runs(s, t))
    BY SoundParts, SubmitTaskMoves
<1> HIDE DEF s, n
<1>4. svc'[HostNode[t]] = svc[HostNode[t]] \/ (HostNode[t] = n /\ svc'[HostNode[t]] = s)
    BY <1>1, <1>2, <1>3, SoundParts
<1> QED BY <1>1, <1>3, <1>4 DEF Counts

\* With handlers installed a run that is due completes before the outage that
\* starts with it, also when an earlier outage ends in the same batch.
LEMMA SwitchedDue ==
    ASSUME Sound, NEW t \in Task, DueRun(t), NEW recovered, NEW down, NEW n, n = HostNode[t]
    PROVE  Runs(Switched(n, recovered, down), t) <=> n \notin down
<1> DEFINE yes == TRUE
           no == FALSE
           r == SetComputeAvailable(svc[n], yes)
           up == IF n \in recovered THEN r ELSE svc[n]
           mid == CompleteCurrentTask(up, now, Rate[n], yes)
           q == SetComputeAvailable(mid, no)
<1>1. /\ n \in Server /\ Runs(svc[n], t) /\ svc[n].current.task = t /\ svc[n].hasCurrent
      /\ CompletionLegal(svc[n], now) /\ CompletionDue(svc[n], now)
    BY DueRunIsLegal
<1>2. /\ svc[n] \in Service /\ ServiceInv(svc[n], now) /\ now \in Time /\ Rate[n] \in Nat \ {0}
      /\ svc[n].running /\ svc[n].owner = NoTask /\ ~svc[n].runningRecovery
    BY <1>1, SoundParts DEF ServiceSound
<1>3. /\ r \in Service /\ ServiceInv(r, now) /\ SameSlot(r, svc[n]) /\ r.available
    BY <1>2, OpenKeeps
<1>4. yes \in BOOLEAN /\ yes
    OBVIOUS
<1>5. Switched(n, recovered, down) = IF n \notin down THEN up
                                     ELSE IF Handlers /\ CompletionLegal(up, now) THEN q
                                     ELSE SetComputeAvailable(up, no)
    BY DEF Switched
<1> HIDE DEF r, yes
<1>6. /\ r.running /\ r.owner = NoTask /\ ~r.runningRecovery /\ r.hasCurrent
      /\ r.current = svc[n].current
    BY <1>1, <1>2, <1>3 DEF SameSlot
<1>7. CompletionLegal(r, now)
    BY <1>1, <1>3, <1>6 DEF CompletionLegal, CompletionDue
<1>8. /\ up \in Service /\ ServiceCore(up, now) /\ CompletionLegal(up, now)
      /\ up.owner = NoTask /\ ~up.runningRecovery /\ up.current.task = t /\ Runs(up, t)
      /\ DispatchArmed(up)
    BY <1>1, <1>2, <1>3, <1>6, <1>7 DEF ServiceInv, Runs
<1> HIDE DEF up
<1>9. mid \in Service /\ ServiceInv(mid, now)
    BY <1>2, <1>4, <1>8, CompleteCurrentTaskKeeps
<1>10. Moves(up, mid, {t})
    BY <1>2, <1>4, <1>8, CompleteCurrentTaskMoves
<1> HIDE DEF mid
<1>11. ~Runs(mid, t)
    BY <1>10 DEF Moves, Shifts
<1>12. SameSlot(q, mid)
    BY <1>2, <1>9, CloseKeeps DEF ServiceInv
<1> HIDE DEF q
<1>13. ~Runs(q, t)
    BY <1>11, <1>12 DEF SameSlot, Runs
<1>14. Switched(n, recovered, down) = IF n \notin down THEN up ELSE q
    BY <1>5, <1>8 DEF DueRun
<1> QED BY <1>8, <1>13, <1>14

\* The batch counts the run, spares it, or takes the satellite that its result
\* is for.
LEMMA FaultBatchCounts ==
    ASSUME Sound, NEW t \in Task, DueRun(t), FaultBatch, ResultNode[t] \notin Dead'
    PROVE  Counts(t)
<1>1. PICK recovered \in SUBSET Sat, kind \in [Sat -> FaultKind] :
          Admissible(fault, recovered, kind) /\ ApplyFaultBatch(recovered, kind)
    BY DEF FaultBatch
<1> DEFINE dead == {m \in Sat : kind[m] = "satellite"}
           down == {m \in Sat : kind[m] # "none"}
           switched == [m \in Server |-> Switched(m, recovered, down)]
           tasks == [u \in Task |-> IF /\ Runs(svc[HostNode[u]], u)
                                       /\ ~Runs(switched[HostNode[u]], u)
                                    THEN Computed(task[u]) ELSE task[u]]
           lost == SatelliteVictims(tasks, dead)
           interrupted == ComputeVictims(tasks, down) \ lost
           victims(m) == {u \in lost \cup interrupted : HostNode[u] = m}
           n == HostNode[t]
<1>2. /\ svc' = [m \in Server |-> Withdraw(switched[m], victims(m))]
      /\ task' = [u \in Task |-> IF u \in lost THEN FailedBySatellite(tasks[u], u, dead)
                                 ELSE IF u \in interrupted THEN FailedByCompute(tasks[u])
                                 ELSE tasks[u]]
      /\ fault' = AfterBatch(fault, recovered, kind)
    BY <1>1 DEF ApplyFaultBatch
<1>3. /\ n \in Server /\ Runs(svc[n], t) /\ task[t].state = "RUNNING"
      /\ RecordSound(task[t], now)
    BY DueRunIsLegal
<1>4. Runs(switched[n], t) <=> n \notin down
    <2>1. Runs(Switched(n, recovered, down), t) <=> n \notin down
        BY SwitchedDue
    <2> QED BY <1>3, <2>1
<1>5. tasks[t] = IF Runs(svc[n], t) /\ ~Runs(switched[n], t)
                 THEN Computed(task[t]) ELSE task[t]
    OBVIOUS
<1>6. t \in lost <=> /\ tasks[t].state = "PENDING" => Arrival[t] = now
                     /\ Needed(t, tasks[t].state) \cap dead # {}
    BY DEF SatelliteVictims
<1>7. t \in interrupted => tasks[t].state = "RUNNING" /\ n \in down
    BY DEF ComputeVictims
<1>8. /\ task'[t] = IF t \in lost THEN FailedBySatellite(tasks[t], t, dead)
                    ELSE IF t \in interrupted THEN FailedByCompute(tasks[t])
                    ELSE tasks[t]
      /\ svc'[n] = Withdraw(switched[n], victims(n))
      /\ t \in victims(n) => t \in lost \cup interrupted
    BY <1>2, <1>3
<1>9. victims(n) \in SUBSET Task
    BY DEF SatelliteVictims, ComputeVictims
<1>10. switched[n] = Switched(n, recovered, down)
    BY <1>3
<1> HIDE DEF switched, tasks, lost, interrupted, victims
<1>11. CASE n \in down
    <2>1. tasks[t] = Computed(task[t])
        BY <1>3, <1>4, <1>5, <1>11
    <2>2. tasks[t].complete = now /\ tasks[t].state = "RESULT_TRANSFERRING"
          /\ tasks[t] \in TaskRuntime
        <3>1. RecordSound(Computed(task[t]), now)
            BY <1>3, SoundParts, ComputedSound
        <3>2. Computed(task[t]).complete = now /\ Computed(task[t]).state = "RESULT_TRANSFERRING"
            BY <1>3 DEF Computed, Transition, Terminal, TerminalState, RecordSound, TaskRuntime
        <3> QED BY <2>1, <3>1, <3>2 DEF RecordSound
    <2>3. FailedBySatellite(tasks[t], t, dead).complete = now
        BY <2>2 DEF FailedBySatellite, Transition, TaskRuntime
    <2>4. t \notin interrupted
        BY <1>7, <2>2
    <2> QED BY <1>8, <2>2, <2>3, <2>4 DEF Counts
<1>12. CASE n \notin down
    <2>1. tasks[t] = task[t] /\ Runs(switched[n], t)
        BY <1>4, <1>5, <1>12
    <2>2. Needed(t, "RUNNING") = {n, ResultNode[t]}
        BY DEF Needed, TerminalState
    <2>3. Needed(t, "RUNNING") \cap dead = {}
        <3>1. Dead' = Dead \cup dead
            BY <1>1, <1>2, DeadAfterBatch DEF Sound
        <3>2. n \notin dead
            BY <1>12
        <3> QED BY <2>2, <3>1, <3>2
    <2>4. t \notin lost
        BY <1>3, <1>6, <2>1, <2>3
    <2>5. t \notin victims(n)
        BY <1>7, <1>8, <1>12, <2>4
    <2>6. Moves(switched[n], svc'[n], victims(n))
        <3>1. /\ svc[n] \in Service /\ ServiceInv(svc[n], now) /\ now \in Time
              /\ Rate[n] \in Nat \ {0} /\ svc[n].owner = NoTask /\ ~svc[n].runningRecovery
            BY <1>3, SoundParts DEF ServiceSound
        <3> DEFINE r == Switched(n, recovered, down)
                   g == victims(n)
        <3>2. /\ r \in Service /\ ServiceCore(r, now) /\ DispatchArmed(r)
              /\ CompletionAllowed(r) /\ r.runningRecovery = svc[n].runningRecovery
            BY <1>3, <1>12, <3>1, SwitchedKeeps
        <3>3. r = switched[n] /\ g \in SUBSET Task /\ svc'[n] = Withdraw(r, g)
            BY <1>8, <1>9, <1>10
        <3> HIDE DEF r, g
        <3>4. Moves(r, Withdraw(r, g), g)
            BY <3>1, <3>2, <3>3, WithdrawKeeps
        <3> QED BY <3>3, <3>4 DEF g
    <2> QED BY <2>1, <2>5, <2>6 DEF Moves, Shifts, Counts
<1> QED BY <1>11, <1>12

LEMMA NextCounts ==
    ASSUME Sound, [Next]_vars, NEW t \in Task, DueRun(t), ~ended', ResultNode[t] \notin Dead'
    PROVE  Counts(t)
<1>1. HostNode[t] \in Server /\ Runs(svc[HostNode[t]], t)
    BY DueRunIsLegal
<1>2. ASSUME svc' = svc PROVE Counts(t)
    BY <1>1, <1>2 DEF Counts
<1>3. CASE UNCHANGED vars
    BY <1>2, <1>3 DEF vars
<1>4. CASE \E u \in Task : Arrive(u) \/ ResultArrives(u)
    BY <1>2, <1>4 DEF Arrive, ResultArrives
<1>5. CASE \E u \in Task : InputArrives(u)
    BY <1>5, InputArrivesCounts
<1>6. CASE \E u \in Task : Deadline(u)
    BY <1>6, DeadlineCounts
<1>7. CASE \E n \in Server : Dispatch(n)
    BY <1>1, <1>7 DEF Dispatch, Quiet, DueRun
<1>8. CASE \E n \in Server : Complete(n)
    <2>1. PICK n \in Server : Complete(n)
        BY <1>8
    <2>2. CompletionLegal(svc[n], now)
        BY <2>1, SoundParts
        DEF Complete, DueNow, ServiceSound, ServiceInv, CompletionAllowed, CompletionLegal
    <2> QED BY <2>1, <2>2, CompleteRunCounts DEF Complete
<1>9. CASE FaultBatch
    BY <1>9, FaultBatchCounts
<1>10. CASE Tick
    BY <1>2, <1>10 DEF Tick
<1>11. CASE FinalizeSimulation
    BY <1>11 DEF FinalizeSimulation
<1> QED
    BY <1>3, <1>4, <1>5, <1>6, <1>7, <1>8, <1>9, <1>10, <1>11 DEF Next

\* A computation that is due counts whichever event of its instant the
\* simulator executes first, unless its result satellite is lost.
THEOREM DueCompletionsCount == Spec => DueCompletionCounts
<1>1. IInv /\ [Next]_vars =>
          [\A t \in Task :
             /\ Handlers /\ ~ended'
             /\ Runs(svc[HostNode[t]], t) /\ DueNow(HostNode[t])
             /\ ~Runs(svc'[HostNode[t]], t)
             /\ ResultNode[t] \notin Dead'
             => task'[t].complete = now]_vars
    BY SoundOfIInv, NextCounts DEF DueRun, Counts
<1> QED BY <1>1, InductiveInvariant, PTL DEF Spec, DueCompletionCounts

-----------------------------------------------------------------------------
(* The coordinator implements the task lifecycle *)

LEMMA NeededInLifecycle ==
    ASSUME NEW t \in Task, NEW s \in State
    PROVE  Lifecycle!Needed(t, s) = Needed(t, s)
BY DEF Lifecycle!Needed, Lifecycle!TerminalStage, Needed, TerminalState, State

\* Every step of the coordinator moves tasks by at most one stage, starts none
\* on a busy node and leaves none alive on a lost satellite.
THEOREM ImplementsLifecycle == Spec => Implements
<1>1. Init => Lifecycle!Init
    <2> SUFFICES ASSUME Init PROVE Lifecycle!Init
        OBVIOUS
    <2>1. [t \in Task |-> task[t].state] = [t \in Task |-> "PENDING"]
        BY DEF Init, NewTask
    <2>2. Dead = {}
        BY DEF Init, Dead
    <2> QED BY <2>1, <2>2 DEF Lifecycle!Init
<1>2. IInv /\ [Next]_vars => Lifecycle!Next
    <2> SUFFICES ASSUME IInv, [Next]_vars PROVE Lifecycle!Next
        OBVIOUS
    <2>1. Sound' /\ Dead \subseteq Dead' /\ \A t \in Task : RecordStep(task[t], task'[t])
        BY SoundOfIInv, NextAdvances DEF Advances
    <2>2. Dead' \subseteq Sat
        BY DEF Dead
    <2>3. ASSUME NEW t \in Task
          PROVE  task'[t].state # task[t].state =>
                     <<task[t].state, task'[t].state>> \in Lifecycle!NextStage
        BY <2>1 DEF RecordStep
    <2>4. ASSUME NEW t \in Task PROVE Lifecycle!Alive(t, task'[t].state, Dead')
        <3>1. task'[t].state \in State /\ AliveAt(t, task'[t].state, Dead')
            BY <2>1 DEF Sound, Fits, TaskRuntime
        <3> QED BY <3>1, NeededInLifecycle DEF Lifecycle!Alive, AliveAt
    <2>5. ASSUME NEW t \in Task, NEW u \in Task, task'[t].state = "RUNNING",
                 task'[u].state = "RUNNING", HostNode[t] = HostNode[u]
          PROVE  t = u
        <3>1. Linked(HostNode[t], svc'[HostNode[t]], t, task'[t])
              /\ Linked(HostNode[t], svc'[HostNode[t]], u, task'[u])
            BY <2>1, NodeAssumption DEF Sound, Fits
        <3> QED BY <2>5, <3>1 DEF Linked, Runs
    <2> QED BY <2>1, <2>2, <2>3, <2>4, <2>5 DEF Lifecycle!Next
<1> QED BY <1>1, <1>2, InductiveInvariant, PTL DEF Spec, Implements, Lifecycle!Spec
=============================================================================
