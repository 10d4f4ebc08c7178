---------------------- MODULE ComputeServiceOps_proofs ----------------------
(***************************************************************************)
(* What every operation of a compute service preserves, for every task set *)
(* and every value of the clock.  The theorems about modules that own      *)
(* services cite these lemmas action by action.                            *)
(***************************************************************************)
EXTENDS ComputeServiceOps, FoldTheorems

\* Dividing rounds up: positive work takes at least one nanosecond
\* (CalculateServiceTimeNs and its final abort).
LEMMA ServiceTimePositive ==
    ASSUME NEW w \in Work, NEW r \in Nat \ {0}
    PROVE  ServiceTimeNs(w, r) \in Nat \ {0}
<1>1. w * NsPerSecond \in Nat \ {0}
    BY NsAssumption DEF Work
<1>2. ASSUME NEW x \in Nat \ {0} PROVE (x + r - 1) \div r \in Nat \ {0}
    <2>1. (x + r - 1) \div r \in Int
        OBVIOUS
    <2>2. (x + r - 1) \div r >= 1
        BY <2>1
    <2> QED BY <2>1, <2>2
<1> QED BY <1>1, <1>2 DEF ServiceTimeNs

\* The queue front exists and is queued: dispatch takes a real item.
LEMMA QueueFrontQueued ==
    ASSUME NEW q \in SUBSET WorkItem, q # {},
           \A i, j \in q : i.task = j.task => i = j
    PROVE  /\ QueueFront(q) \in q
           /\ \A b \in q \ {QueueFront(q)} : Before(QueueFront(q), b)
<1> DEFINE Enters == {i.enter : i \in q}
<1>1. PICK e \in Enters : \A f \in Enters : e <= f
    <2>1. Enters \subseteq Nat /\ Enters # {}
        BY DEF WorkItem, Time
    <2> QED BY <2>1, NatLeast
<1> DEFINE First == {i \in q : i.enter = e}
           Ids == {i.task : i \in First}
<1>2. PICK t \in Ids : \A u \in Ids : t <= u
    <2>1. Ids \subseteq Nat /\ Ids # {}
        BY TaskAssumption DEF WorkItem
    <2> QED BY <2>1, NatLeast
<1>3. PICK i \in q : i.enter = e /\ i.task = t
    OBVIOUS
<1>4. ASSUME NEW b \in q \ {i} PROVE Before(i, b)
    <2>1. b.task # t /\ b.task \in Nat /\ t \in Nat
        BY <1>3, TaskAssumption DEF WorkItem
    <2>2. e <= b.enter /\ b.enter \in Nat /\ e \in Nat
        BY <1>1, <1>3 DEF WorkItem, Time
    <2>3. b.enter = e => t <= b.task
        BY <1>2
    <2> QED BY <1>3, <2>1, <2>2, <2>3 DEF Before
<1> QED BY <1>3, <1>4 DEF QueueFront

-----------------------------------------------------------------------------
(* Frame *)

\* r and s differ at most in availability, immunity and pending events other
\* than the completion.
SameSlot(r, s) ==
    /\ r.running = s.running /\ r.queue = s.queue /\ r.known = s.known
    /\ r.hasCurrent = s.hasCurrent /\ r.current = s.current
    /\ r.completion = s.completion /\ r.owner = s.owner
    /\ r.runningRecovery = s.runningRecovery
    /\ r.enqueued = s.enqueued /\ r.completed = s.completed
    /\ r.cancelled = s.cancelled /\ r.removed = s.removed /\ r.busy = s.busy

\* The core of the invariant does not read availability, immunity, the
\* dispatch event or the catch-up event.
LEMMA SameSlotKeeps ==
    ASSUME NEW r, NEW s, NEW now, SameSlot(r, s), ServiceCore(s, now)
    PROVE  ServiceCore(r, now)
<1>1. SlotOwned(r) /\ CompletionTimely(r, now)
    BY DEF SameSlot, ServiceCore, SlotOwned, CompletionTimely
<1>2. QueueSane(r, now) /\ CurrentSane(r, now)
    BY DEF SameSlot, ServiceCore, QueueSane, CurrentSane
<1>3. Conserved(r) /\ BusyBounded(r, now)
    BY DEF SameSlot, ServiceCore, Conserved, BusyBounded, BusyTimeNs
<1> QED BY <1>1, <1>2, <1>3 DEF ServiceCore

-----------------------------------------------------------------------------
(* Dispatch *)

\* RequestDispatch arms the dispatch event whenever the slot can take work,
\* and changes nothing else.
LEMMA RequestDispatchKeeps ==
    ASSUME NEW s \in Service, NEW now \in Time, ServiceCore(s, now)
    PROVE  /\ RequestDispatch(s) \in Service
           /\ ServiceCore(RequestDispatch(s), now)
           /\ SameSlot(RequestDispatch(s), s)
           /\ DispatchArmed(RequestDispatch(s))
           /\ CompletionAllowed(s) => CompletionAllowed(RequestDispatch(s))
<1> DEFINE r == RequestDispatch(s)
<1>1. r \in Service
    BY DEF RequestDispatch, Service, CanDispatch
<1>2. /\ SameSlot(r, s)
      /\ r.available = s.available /\ r.immune = s.immune
      /\ r.dispatch = (s.dispatch \/ CanDispatch(s))
    BY DEF RequestDispatch, Service, SameSlot
<1> HIDE DEF r
<1>3. CanDispatch(r) = CanDispatch(s)
    BY <1>2 DEF SameSlot, CanDispatch
<1>4. ServiceCore(r, now)
    BY <1>2, SameSlotKeeps
<1>5. DispatchArmed(r)
    BY <1>2, <1>3 DEF DispatchArmed
<1>6. CompletionAllowed(s) => CompletionAllowed(r)
    BY <1>2 DEF SameSlot, CompletionAllowed, ImmuneRun
<1> QED BY <1>1, <1>2, <1>4, <1>5, <1>6 DEF r

\* Dispatching moves the queue front into a free slot.
LEMMA StartFrontKeeps ==
    ASSUME NEW s \in Service, NEW now \in Time, NEW rate \in Nat \ {0},
           ServiceCore(s, now), CanDispatch(s), CompletionAllowed(s)
    PROVE  LET r == StartFront(s, now, rate) IN
           /\ r \in Service /\ ServiceInv(r, now)
           /\ \E i \in s.queue : r.current.task = i.task
<1> DEFINE next == QueueFront(s.queue)
           svcTime == ServiceTimeNs(next.work, rate)
           r == StartFront(s, now, rate)
<1>1. next \in s.queue /\ next \in WorkItem
    BY QueueFrontQueued DEF ServiceCore, QueueSane, CanDispatch, Service
<1>2. svcTime \in Nat \ {0}
    BY <1>1, ServiceTimePositive DEF WorkItem
<1>3. [task |-> next.task, start |-> now, service |-> svcTime] \in Run
    BY <1>1, <1>2 DEF Run, WorkItem
<1> HIDE DEF next, svcTime
<1>4. r = [s EXCEPT !.queue = s.queue \ {next}, !.hasCurrent = TRUE,
                    !.current = [task |-> next.task, start |-> now, service |-> svcTime],
                    !.completion = TRUE]
    BY DEF StartFront, next, svcTime
<1> HIDE DEF r
<1>5. r \in Service
    BY <1>3, <1>4 DEF Service
<1>6. /\ r.running = s.running /\ r.available = s.available
      /\ r.queue = s.queue \ {next} /\ r.known = s.known /\ r.hasCurrent = TRUE
      /\ r.current = [task |-> next.task, start |-> now, service |-> svcTime]
      /\ r.completion = TRUE /\ r.owner = s.owner
      /\ r.runningRecovery = s.runningRecovery /\ r.immune = s.immune
      /\ r.enqueued = s.enqueued /\ r.completed = s.completed
      /\ r.cancelled = s.cancelled /\ r.removed = s.removed /\ r.busy = s.busy
    BY <1>4 DEF Service
<1>7. /\ s.running /\ s.available /\ s.owner = NoTask /\ ~s.hasCurrent /\ ~s.runningRecovery
    BY DEF CanDispatch, ServiceCore, SlotOwned
<1>8. SlotOwned(r) /\ CompletionTimely(r, now) /\ CompletionAllowed(r) /\ DispatchArmed(r)
    BY <1>2, <1>6, <1>7
    DEF SlotOwned, CompletionTimely, CompletionAllowed, DispatchArmed, CanDispatch, Time
<1>9. QueueSane(r, now)
    BY <1>6, FS_RemoveElement DEF ServiceCore, QueueSane
<1>10. CurrentSane(r, now)
    <2>1. r.current # NoRun
        BY <1>2, <1>6 DEF NoRun
    <2>2. \A i \in r.queue : i.task # next.task
        BY <1>1, <1>6 DEF ServiceCore, QueueSane
    <2>3. next.task \in r.known /\ now <= now
        BY <1>1, <1>6 DEF ServiceCore, QueueSane, Time
    <2> QED BY <1>6, <2>1, <2>2, <2>3 DEF CurrentSane
<1>11. Conserved(r)
    <2>1. IsFiniteSet(s.queue) /\ Cardinality(s.queue) \in Nat
          /\ Cardinality(r.queue) = Cardinality(s.queue) - 1
        BY <1>1, <1>6, FS_RemoveElement, FS_CardinalityType DEF ServiceCore, QueueSane
    <2>2. s.completed \in Nat /\ s.cancelled \in Nat /\ s.removed \in Nat
        BY DEF Service
    <2> QED BY <1>6, <1>7, <2>1, <2>2 DEF ServiceCore, Conserved
<1>12. BusyBounded(r, now)
    BY <1>6, <1>7 DEF ServiceCore, BusyBounded, BusyTimeNs, Service, Time
<1> QED BY <1>1, <1>5, <1>6, <1>8, <1>9, <1>10, <1>11, <1>12 DEF ServiceInv, ServiceCore, r

LEMMA DispatchNextTaskKeeps ==
    ASSUME NEW s \in Service, NEW now \in Time, NEW rate \in Nat \ {0},
           ServiceCore(s, now), CompletionAllowed(s)
    PROVE  /\ DispatchNextTask(s, now, rate) \in Service
           /\ ServiceInv(DispatchNextTask(s, now, rate), now)
<1>1. CASE CanDispatch(s)
    BY <1>1, StartFrontKeeps DEF DispatchNextTask
<1>2. CASE ~CanDispatch(s)
    BY <1>2 DEF DispatchNextTask, ServiceInv, DispatchArmed
<1> QED BY <1>1, <1>2

LEMMA FireDispatchKeeps ==
    ASSUME NEW s \in Service, NEW now \in Time, NEW rate \in Nat \ {0},
           ServiceInv(s, now)
    PROVE  /\ FireDispatch(s, now, rate) \in Service
           /\ ServiceInv(FireDispatch(s, now, rate), now)
<1> DEFINE r == [s EXCEPT !.dispatch = FALSE]
<1>1. r \in Service
    BY DEF Service
<1>2. SameSlot(r, s) /\ r.available = s.available /\ r.immune = s.immune
    BY DEF Service, SameSlot
<1> HIDE DEF r
<1>3. ServiceCore(r, now)
    BY <1>2, SameSlotKeeps DEF ServiceInv
<1>4. CompletionAllowed(r)
    BY <1>2 DEF ServiceInv, SameSlot, CompletionAllowed, ImmuneRun
<1> QED
    BY <1>1, <1>3, <1>4, DispatchNextTaskKeeps DEF FireDispatch, r

-----------------------------------------------------------------------------
(* Ordinary tasks *)

\* Admission is independent of availability and wakes the dispatcher.
LEMMA SubmitTaskKeeps ==
    ASSUME NEW s \in Service, NEW now \in Time, ServiceInv(s, now),
           NEW t \in Task, NEW w \in Work, t \notin s.known
    PROVE  /\ SubmitTask(s, t, w, now) \in Service
           /\ ServiceInv(SubmitTask(s, t, w, now), now)
<1> DEFINE item == [task |-> t, work |-> w, enter |-> now]
           r == [s EXCEPT !.known = s.known \cup {t}, !.queue = s.queue \cup {item},
                          !.enqueued = s.enqueued + 1]
<1>1. item \in WorkItem
    BY DEF WorkItem
<1>2. item.task = t /\ item.enter = now
    OBVIOUS
<1> HIDE DEF item
<1>3. r \in Service
    <2>1. s.enqueued + 1 \in Nat
        BY DEF Service
    <2>2. s.known \cup {t} \in SUBSET Task /\ s.queue \cup {item} \in SUBSET WorkItem
        BY <1>1 DEF Service
    <2> QED BY <2>1, <2>2 DEF Service
<1>4. /\ r.running = s.running /\ r.available = s.available
      /\ r.queue = s.queue \cup {item} /\ r.known = s.known \cup {t}
      /\ r.hasCurrent = s.hasCurrent /\ r.current = s.current
      /\ r.completion = s.completion /\ r.owner = s.owner
      /\ r.runningRecovery = s.runningRecovery /\ r.immune = s.immune
      /\ r.enqueued = s.enqueued + 1 /\ r.completed = s.completed
      /\ r.cancelled = s.cancelled /\ r.removed = s.removed /\ r.busy = s.busy
    BY DEF Service
<1>5. SubmitTask(s, t, w, now) = RequestDispatch(r)
    BY DEF SubmitTask, item
<1> HIDE DEF r
<1>6. item \notin s.queue /\ \A i \in s.queue : i.task # t
    BY <1>2 DEF ServiceInv, ServiceCore, QueueSane
<1>7. SlotOwned(r) /\ CompletionTimely(r, now) /\ CompletionAllowed(r)
    BY <1>4 DEF ServiceInv, ServiceCore, SlotOwned, CompletionTimely, CompletionAllowed, ImmuneRun
<1>8. QueueSane(r, now)
    <2>1. IsFiniteSet(r.queue)
        BY <1>4, FS_AddElement DEF ServiceInv, ServiceCore, QueueSane
    <2>2. \A i \in r.queue : i.task \in r.known /\ i.enter <= now
        BY <1>2, <1>4 DEF ServiceInv, ServiceCore, QueueSane, Time
    <2>3. \A i, j \in r.queue : i.task = j.task => i = j
        BY <1>2, <1>4, <1>6 DEF ServiceInv, ServiceCore, QueueSane
    <2> QED BY <2>1, <2>2, <2>3 DEF QueueSane
<1>9. CurrentSane(r, now)
    BY <1>2, <1>4 DEF ServiceInv, ServiceCore, CurrentSane
<1>10. Conserved(r)
    <2>1. Cardinality(r.queue) = Cardinality(s.queue) + 1 /\ Cardinality(s.queue) \in Nat
        BY <1>4, <1>6, FS_AddElement, FS_CardinalityType DEF ServiceInv, ServiceCore, QueueSane
    <2>2. /\ s.completed \in Nat /\ s.cancelled \in Nat /\ s.removed \in Nat
          /\ s.enqueued \in Nat
        BY DEF Service
    <2>3. (IF s.hasCurrent THEN 1 ELSE 0) \in Nat
        OBVIOUS
    <2> QED BY <1>4, <2>1, <2>2, <2>3 DEF ServiceInv, ServiceCore, Conserved
<1>11. BusyBounded(r, now)
    BY <1>4 DEF ServiceInv, ServiceCore, BusyBounded, BusyTimeNs
<1> QED
    BY <1>3, <1>5, <1>7, <1>8, <1>9, <1>10, <1>11, RequestDispatchKeeps DEF ServiceInv, ServiceCore

\* Opening the service wakes the dispatcher.
LEMMA OpenKeeps ==
    ASSUME NEW s \in Service, NEW now \in Time, ServiceInv(s, now)
    PROVE  LET r == SetComputeAvailable(s, TRUE) IN
           /\ r \in Service /\ ServiceInv(r, now) /\ SameSlot(r, s)
           /\ r.available
<1>1. CASE s.available = TRUE
    BY <1>1 DEF SetComputeAvailable, SameSlot
<1>2. CASE s.available # TRUE
    <2> DEFINE r == [s EXCEPT !.available = TRUE]
    <2>1. r \in Service
        BY DEF Service
    <2>2. SameSlot(r, s) /\ r.available = TRUE
        BY DEF Service, SameSlot
    <2> HIDE DEF r
    <2>3. ServiceCore(r, now)
        BY <2>2, SameSlotKeeps DEF ServiceInv
    <2>4. CompletionAllowed(r)
        BY <2>2 DEF CompletionAllowed
    <2>5. SetComputeAvailable(s, TRUE) = RequestDispatch(r)
        BY <1>2 DEF SetComputeAvailable, r
    <2>6. RequestDispatch(r).available = TRUE /\ SameSlot(RequestDispatch(r), s)
        BY <2>1, <2>2 DEF RequestDispatch, Service, SameSlot
    <2> QED
        BY <2>1, <2>3, <2>4, <2>5, <2>6, RequestDispatchKeeps DEF ServiceInv
<1> QED BY <1>1, <1>2

\* Closing the service cancels the pending dispatch.  Only the completion of
\* the current run is left to settle: the caller fails that run.
LEMMA CloseKeeps ==
    ASSUME NEW s \in Service, NEW now \in Time,
           ServiceCore(s, now), DispatchArmed(s)
    PROVE  LET r == SetComputeAvailable(s, FALSE) IN
           /\ r \in Service /\ ServiceCore(r, now) /\ DispatchArmed(r)
           /\ SameSlot(r, s) /\ r.immune = s.immune /\ r.available = FALSE
<1>1. CASE s.available = FALSE
    BY <1>1 DEF SetComputeAvailable, SameSlot
<1>2. CASE s.available # FALSE
    <2> DEFINE r == [s EXCEPT !.available = FALSE, !.dispatch = FALSE]
    <2>1. r \in Service
        BY DEF Service
    <2>2. SameSlot(r, s) /\ r.immune = s.immune /\ r.available = FALSE
        BY DEF Service, SameSlot
    <2>3. SetComputeAvailable(s, FALSE) = r
        BY <1>2 DEF SetComputeAvailable
    <2> HIDE DEF r
    <2>4. ServiceCore(r, now)
        BY <2>2, SameSlotKeeps
    <2> QED
        BY <2>1, <2>2, <2>3, <2>4 DEF DispatchArmed, CanDispatch
<1> QED BY <1>1, <1>2

\* The time charged so far is a natural number and no more than has passed.
LEMMA BusyTimeBounds ==
    ASSUME NEW s \in Service, NEW now \in Time, ServiceCore(s, now)
    PROVE  BusyTimeNs(s, now) \in Nat /\ BusyTimeNs(s, now) <= now
<1>1. s.busy \in Nat
    BY DEF Service
<1>2. s.hasCurrent => s.current.start \in Nat /\ s.current.start <= now
    BY DEF Service, ServiceCore, CurrentSane, Run, Time
<1>3. BusyTimeNs(s, now) <= now
    BY DEF ServiceCore, BusyBounded
<1>4. BusyTimeNs(s, now) \in Nat
    BY <1>1, <1>2 DEF BusyTimeNs, Time
<1> QED BY <1>3, <1>4

\* Cancelling the run of an ordinary task frees the slot and wakes the
\* dispatcher, whether or not the service is still allowed to complete it.
LEMMA CancelRunningKeeps ==
    ASSUME NEW s \in Service, NEW now \in Time, NEW t \in Task,
           ServiceCore(s, now), DispatchArmed(s),
           s.hasCurrent /\ s.current.task = t => ~s.runningRecovery,
           ~(s.hasCurrent /\ s.current.task = t) => CompletionAllowed(s)
    PROVE  LET r == CancelRunningTaskForFailure(s, t, now) IN
           r \in Service /\ ServiceInv(r, now)
<1>1. CASE ~s.hasCurrent \/ s.current.task # t
    BY <1>1 DEF CancelRunningTaskForFailure, ServiceInv
<1>2. CASE s.hasCurrent /\ s.current.task = t
    <2> DEFINE spent == BusyTimeNs(s, now)
               r == [s EXCEPT !.completion = FALSE, !.busy = spent,
                              !.hasCurrent = FALSE, !.current = NoRun,
                              !.cancelled = s.cancelled + 1]
    <2>1. spent \in Nat /\ spent <= now
        BY BusyTimeBounds
    <2>2. CancelRunningTaskForFailure(s, t, now) = RequestDispatch(r)
        BY <1>2 DEF CancelRunningTaskForFailure
    <2> HIDE DEF spent
    <2>3. r \in Service
        <3>1. s.cancelled + 1 \in Nat
            BY DEF Service
        <3>2. NoRun \in Run
            BY DEF Run
        <3> QED BY <2>1, <3>1, <3>2 DEF Service
    <2>4. /\ r.running = s.running /\ r.queue = s.queue /\ r.known = s.known
          /\ ~r.hasCurrent /\ ~r.completion /\ r.owner = s.owner
          /\ r.runningRecovery = s.runningRecovery
          /\ r.enqueued = s.enqueued /\ r.completed = s.completed
          /\ r.cancelled = s.cancelled + 1 /\ r.removed = s.removed
          /\ r.busy = spent
        BY DEF Service
    <2> HIDE DEF r
    <2>5. /\ SlotOwned(r) /\ CompletionTimely(r, now) /\ CompletionAllowed(r)
          /\ CurrentSane(r, now)
        BY <1>2, <2>4 DEF ServiceCore, SlotOwned, CompletionTimely, CompletionAllowed, CurrentSane
    <2>6. QueueSane(r, now)
        BY <2>4 DEF ServiceCore, QueueSane
    <2>7. Conserved(r)
        <3>1. Cardinality(s.queue) \in Nat
            BY FS_CardinalityType DEF ServiceCore, QueueSane
        <3>2. /\ s.completed \in Nat /\ s.cancelled \in Nat /\ s.removed \in Nat
            BY DEF Service
        <3> QED BY <1>2, <2>4, <3>1, <3>2 DEF ServiceCore, Conserved
    <2>8. BusyBounded(r, now)
        BY <2>1, <2>4 DEF BusyBounded, BusyTimeNs
    <2> QED
        BY <2>2, <2>3, <2>5, <2>6, <2>7, <2>8, RequestDispatchKeeps DEF ServiceInv, ServiceCore
<1> QED BY <1>1, <1>2

\* Removing a failed task from the queue takes exactly one item out.
LEMMA RemoveQueuedKeeps ==
    ASSUME NEW s \in Service, NEW now \in Time, NEW t \in Task, ServiceInv(s, now)
    PROVE  LET r == RemoveQueuedTaskForFailure(s, t) IN
           /\ r \in Service /\ ServiceInv(r, now)
           /\ r.queue \subseteq s.queue
<1>1. CASE \A i \in s.queue : i.task # t
    BY <1>1 DEF RemoveQueuedTaskForFailure
<1>2. CASE \E i \in s.queue : i.task = t
    <2>1. PICK item \in s.queue : item.task = t
        BY <1>2
    <2> DEFINE rest == s.queue \ {item}
               r == [s EXCEPT !.queue = rest, !.removed = s.removed + 1]
    <2>2. {i \in s.queue : i.task # t} = rest
        BY <2>1 DEF ServiceInv, ServiceCore, QueueSane
    <2>3. RemoveQueuedTaskForFailure(s, t) = r
        BY <1>2, <2>2 DEF RemoveQueuedTaskForFailure
    <2>4. r \in Service
        <3>1. s.removed + 1 \in Nat /\ rest \in SUBSET WorkItem
            BY DEF Service
        <3> QED BY <3>1 DEF Service
    <2>5. /\ r.running = s.running /\ r.available = s.available
          /\ r.queue = rest /\ r.known = s.known
          /\ r.hasCurrent = s.hasCurrent /\ r.current = s.current
          /\ r.dispatch = s.dispatch /\ r.completion = s.completion
          /\ r.owner = s.owner /\ r.runningRecovery = s.runningRecovery
          /\ r.immune = s.immune
          /\ r.enqueued = s.enqueued /\ r.completed = s.completed
          /\ r.cancelled = s.cancelled /\ r.removed = s.removed + 1 /\ r.busy = s.busy
        BY DEF Service
    <2> HIDE DEF r
    <2>6. DispatchArmed(r)
        BY <2>5 DEF ServiceInv, DispatchArmed, CanDispatch
    <2>7. SlotOwned(r) /\ CompletionTimely(r, now) /\ CompletionAllowed(r)
        BY <2>5 DEF ServiceInv, ServiceCore, SlotOwned, CompletionTimely, CompletionAllowed, ImmuneRun
    <2>8. QueueSane(r, now)
        BY <2>5, FS_RemoveElement DEF ServiceInv, ServiceCore, QueueSane
    <2>9. CurrentSane(r, now)
        BY <2>5 DEF ServiceInv, ServiceCore, CurrentSane
    <2>10. Conserved(r)
        <3>1. IsFiniteSet(s.queue) /\ Cardinality(s.queue) \in Nat
              /\ Cardinality(rest) = Cardinality(s.queue) - 1
            BY <2>1, FS_RemoveElement, FS_CardinalityType DEF ServiceInv, ServiceCore, QueueSane
        <3>2. s.completed \in Nat /\ s.cancelled \in Nat /\ s.removed \in Nat
            BY DEF Service
        <3> HIDE DEF rest
        <3> QED BY <2>5, <3>1, <3>2 DEF ServiceInv, ServiceCore, Conserved
    <2>11. BusyBounded(r, now)
        BY <2>5 DEF ServiceInv, ServiceCore, BusyBounded, BusyTimeNs
    <2>12. r.queue \subseteq s.queue
        BY <2>5
    <2> QED
        BY <2>3, <2>4, <2>6, <2>7, <2>8, <2>9, <2>10, <2>11, <2>12 DEF ServiceInv, ServiceCore
<1> QED BY <1>1, <1>2

\* A legal completion charges the full service time and frees the slot.
LEMMA VacatedKeeps ==
    ASSUME NEW s \in Service, NEW now \in Time, ServiceCore(s, now),
           CompletionLegal(s, now)
    PROVE  LET r == Vacated(s) IN
           /\ r \in Service /\ ServiceCore(r, now) /\ CompletionAllowed(r)
           /\ ~r.hasCurrent /\ r.queue = s.queue /\ r.running = s.running
<1> DEFINE owner == IF s.runningRecovery THEN NoTask ELSE s.owner
           catchup == IF s.runningRecovery THEN NoTime ELSE s.catchup
           charged == s.busy + s.current.service
           r == [s EXCEPT !.completion = FALSE, !.busy = charged,
                          !.completed = s.completed + 1,
                          !.hasCurrent = FALSE, !.current = NoRun,
                          !.owner = owner, !.catchup = catchup,
                          !.runningRecovery = FALSE]
<1>1. s.hasCurrent /\ s.running /\ now - s.current.start = s.current.service
    BY DEF CompletionLegal, CompletionDue
<1>2. s.current \in Run /\ s.current # NoRun
    BY <1>1 DEF ServiceCore, CurrentSane, Service
<1>3. /\ s.current.service \in Nat /\ s.busy \in Nat /\ charged \in Nat
      /\ s.current.start \in Nat
    BY <1>2 DEF Run, Service, Time
<1>4. owner \in Task \cup {NoTask} /\ catchup \in Time \cup {NoTime}
    BY DEF Service
<1>5. Vacated(s) = r
    BY DEF Vacated
<1> HIDE DEF owner, catchup, charged
<1>6. r \in Service
    <2>1. s.completed + 1 \in Nat
        BY DEF Service
    <2>2. NoRun \in Run
        BY DEF Run
    <2> QED BY <1>3, <1>4, <2>1, <2>2 DEF Service
<1>7. /\ r.running = s.running /\ r.queue = s.queue /\ r.known = s.known
      /\ ~r.hasCurrent /\ ~r.completion /\ ~r.runningRecovery
      /\ r.enqueued = s.enqueued /\ r.completed = s.completed + 1
      /\ r.cancelled = s.cancelled /\ r.removed = s.removed
      /\ r.busy = charged
    BY DEF Service
<1> HIDE DEF r
<1>8. /\ SlotOwned(r) /\ CompletionTimely(r, now) /\ CompletionAllowed(r)
      /\ CurrentSane(r, now)
    BY <1>7 DEF SlotOwned, CompletionTimely, CompletionAllowed, CurrentSane
<1>9. QueueSane(r, now)
    BY <1>7 DEF ServiceCore, QueueSane
<1>10. Conserved(r)
    <2>1. Cardinality(s.queue) \in Nat
        BY FS_CardinalityType DEF ServiceCore, QueueSane
    <2>2. s.completed \in Nat /\ s.cancelled \in Nat /\ s.removed \in Nat
        BY DEF Service
    <2> QED BY <1>1, <1>7, <2>1, <2>2 DEF ServiceCore, Conserved
<1>11. BusyBounded(r, now)
    BY <1>1, <1>3, <1>7 DEF ServiceCore, BusyBounded, BusyTimeNs, Time, charged
<1> QED BY <1>6, <1>7, <1>8, <1>9, <1>10, <1>11, <1>5 DEF ServiceCore

LEMMA CompleteCurrentTaskKeeps ==
    ASSUME NEW s \in Service, NEW now \in Time, NEW rate \in Nat \ {0},
           NEW deferDispatch \in BOOLEAN, ServiceCore(s, now), CompletionLegal(s, now)
    PROVE  LET r == CompleteCurrentTask(s, now, rate, deferDispatch) IN
           r \in Service /\ ServiceInv(r, now)
<1>1. /\ Vacated(s) \in Service /\ ServiceCore(Vacated(s), now)
      /\ CompletionAllowed(Vacated(s))
    BY VacatedKeeps
<1>2. CASE deferDispatch
    BY <1>1, <1>2, RequestDispatchKeeps DEF CompleteCurrentTask, ServiceInv
<1>3. CASE ~deferDispatch
    BY <1>1, <1>3, DispatchNextTaskKeeps DEF CompleteCurrentTask
<1> QED BY <1>2, <1>3

-----------------------------------------------------------------------------
(* Reserved attempts *)

\* Reserving an idle slot leaves nothing queued behind a cancelled dispatch.
LEMMA ReserveKeeps ==
    ASSUME NEW s \in Service, NEW now \in Time, NEW t \in Task, ServiceInv(s, now)
    PROVE  LET r == ReserveRecovery(s, t) IN r \in Service /\ ServiceInv(r, now)
<1>1. CASE ~CanReserve(s, t)
    BY <1>1 DEF ReserveRecovery
<1>2. CASE CanReserve(s, t)
    <2> DEFINE r == [s EXCEPT !.owner = t, !.immune = FALSE, !.dispatch = FALSE]
    <2>1. r \in Service
        BY DEF Service
    <2>2. /\ r.running = s.running /\ r.available = s.available
          /\ r.queue = s.queue /\ r.known = s.known
          /\ r.hasCurrent = s.hasCurrent /\ r.current = s.current
          /\ r.completion = s.completion
          /\ r.owner = t /\ r.runningRecovery = s.runningRecovery
          /\ r.enqueued = s.enqueued /\ r.completed = s.completed
          /\ r.cancelled = s.cancelled /\ r.removed = s.removed /\ r.busy = s.busy
        BY DEF Service
    <2>3. ReserveRecovery(s, t) = r
        BY <1>2 DEF ReserveRecovery
    <2> HIDE DEF r
    <2>4. ~s.hasCurrent /\ ~s.completion /\ s.queue = {}
        BY <1>2 DEF CanReserve, IsIdle, ServiceInv, ServiceCore, CompletionTimely
    <2>5. SlotOwned(r) /\ CompletionTimely(r, now) /\ CompletionAllowed(r) /\ DispatchArmed(r)
        BY <2>2, <2>4 DEF ServiceInv, ServiceCore, SlotOwned, CompletionTimely,
                          CompletionAllowed, DispatchArmed, CanDispatch
    <2>6. QueueSane(r, now) /\ CurrentSane(r, now)
        BY <2>2 DEF ServiceInv, ServiceCore, QueueSane, CurrentSane
    <2>7. Conserved(r) /\ BusyBounded(r, now)
        BY <2>2 DEF ServiceInv, ServiceCore, Conserved, BusyBounded, BusyTimeNs
    <2> QED BY <2>1, <2>3, <2>5, <2>6, <2>7 DEF ServiceInv, ServiceCore
<1> QED BY <1>1, <1>2

\* Giving up a reservation wakes the dispatcher for what queued meanwhile.
LEMMA ReleaseKeeps ==
    ASSUME NEW s \in Service, NEW now \in Time, NEW t \in Task, ServiceInv(s, now)
    PROVE  LET r == ReleaseRecovery(s, t) IN r \in Service /\ ServiceInv(r, now)
<1>1. CASE s.owner # t \/ s.runningRecovery
    BY <1>1 DEF ReleaseRecovery
<1>2. CASE s.owner = t /\ ~s.runningRecovery
    <2> DEFINE r == [s EXCEPT !.owner = NoTask]
    <2>1. r \in Service
        BY DEF Service
    <2>2. /\ r.running = s.running /\ r.available = s.available /\ r.immune = s.immune
          /\ r.queue = s.queue /\ r.known = s.known
          /\ r.hasCurrent = s.hasCurrent /\ r.current = s.current
          /\ r.completion = s.completion
          /\ r.owner = NoTask /\ r.runningRecovery = s.runningRecovery
          /\ r.enqueued = s.enqueued /\ r.completed = s.completed
          /\ r.cancelled = s.cancelled /\ r.removed = s.removed /\ r.busy = s.busy
        BY DEF Service
    <2>3. ReleaseRecovery(s, t) = RequestDispatch(r)
        BY <1>2 DEF ReleaseRecovery
    <2> HIDE DEF r
    <2>4. SlotOwned(r) /\ CompletionTimely(r, now) /\ CompletionAllowed(r)
        BY <1>2, <2>2 DEF ServiceInv, ServiceCore, SlotOwned, CompletionTimely,
                          CompletionAllowed, ImmuneRun
    <2>5. QueueSane(r, now) /\ CurrentSane(r, now)
        BY <2>2 DEF ServiceInv, ServiceCore, QueueSane, CurrentSane
    <2>6. Conserved(r) /\ BusyBounded(r, now)
        BY <2>2 DEF ServiceInv, ServiceCore, Conserved, BusyBounded, BusyTimeNs
    <2> QED
        BY <2>1, <2>3, <2>4, <2>5, <2>6, RequestDispatchKeeps DEF ServiceInv, ServiceCore
<1> QED BY <1>1, <1>2

\* A reserved attempt takes the slot; only an attempt that ignores outages may
\* start on a closed service.
LEMMA StartReservedAttemptKeeps ==
    ASSUME NEW s \in Service, NEW now \in Time, NEW t \in Task, ServiceInv(s, now),
           \A i \in s.queue : i.task # t,
           NEW w \in Work, NEW cw \in Nat, NEW rate \in Nat \ {0},
           NEW has \in BOOLEAN, NEW immune \in BOOLEAN
    PROVE  LET r == StartReservedAttempt(s, t, w, cw, has, immune, now, rate) IN
           /\ r \in Service /\ ServiceInv(r, now) /\ r.queue = s.queue
<1>1. CASE ~CanStartAttempt(s, t, immune)
    BY <1>1 DEF StartReservedAttempt
<1>2. CASE CanStartAttempt(s, t, immune)
    <2> DEFINE run == [task |-> t, start |-> now, service |-> ServiceTimeNs(w, rate)]
               catchup == IF ~has THEN s.catchup
                          ELSE IF cw = 0 THEN now
                          ELSE now + ServiceTimeNs(cw, rate)
               r == [s EXCEPT !.known = s.known \cup {t}, !.enqueued = s.enqueued + 1,
                              !.hasCurrent = TRUE, !.current = run,
                              !.runningRecovery = TRUE, !.immune = immune,
                              !.catchup = catchup, !.completion = TRUE]
    <2>1. ServiceTimeNs(w, rate) \in Nat \ {0}
        BY ServiceTimePositive
    <2>2. run \in Run /\ run.task = t /\ run.start = now /\ run.service \in Nat
        BY <2>1 DEF Run
    <2>3. run # NoRun
        <3>1. NoRun.start \notin Nat
            BY DEF NoRun, NoTime
        <3> QED BY <2>2, <3>1 DEF Time
    <2>4. catchup \in Time \cup {NoTime}
        <3>1. cw # 0 => ServiceTimeNs(cw, rate) \in Nat
            BY ServiceTimePositive DEF Work
        <3>2. s.catchup \in Time \cup {NoTime}
            BY DEF Service
        <3> QED BY <3>1, <3>2 DEF Time
    <2>5. StartReservedAttempt(s, t, w, cw, has, immune, now, rate) = r
        BY <1>2 DEF StartReservedAttempt
    <2> HIDE DEF run, catchup
    <2>6. r \in Service
        <3>1. s.enqueued + 1 \in Nat
            BY DEF Service
        <3>2. s.known \cup {t} \in SUBSET Task
            BY DEF Service
        <3> QED BY <2>2, <2>4, <3>1, <3>2 DEF Service
    <2>7. /\ r.running = s.running /\ r.available = s.available /\ r.immune = immune
          /\ r.queue = s.queue /\ r.known = s.known \cup {t}
          /\ r.hasCurrent /\ r.current = run /\ r.completion
          /\ r.owner = s.owner /\ r.runningRecovery
          /\ r.enqueued = s.enqueued + 1 /\ r.completed = s.completed
          /\ r.cancelled = s.cancelled /\ r.removed = s.removed /\ r.busy = s.busy
        BY DEF Service
    <2> HIDE DEF r
    <2>8. s.owner = t /\ s.running /\ ~s.hasCurrent /\ (immune \/ s.available)
        BY <1>2 DEF CanStartAttempt
    <2>9. /\ SlotOwned(r) /\ CompletionTimely(r, now) /\ CompletionAllowed(r)
          /\ DispatchArmed(r)
        BY <2>2, <2>7, <2>8 DEF SlotOwned, CompletionTimely, CompletionAllowed, ImmuneRun,
                                DispatchArmed, CanDispatch, Time
    <2>10. QueueSane(r, now)
        BY <2>7 DEF ServiceInv, ServiceCore, QueueSane
    <2>11. CurrentSane(r, now)
        BY <2>2, <2>3, <2>7 DEF CurrentSane, Time
    <2>12. Conserved(r)
        <3>1. Cardinality(s.queue) \in Nat
            BY FS_CardinalityType DEF ServiceInv, ServiceCore, QueueSane
        <3>2. /\ s.completed \in Nat /\ s.cancelled \in Nat /\ s.removed \in Nat
              /\ s.enqueued \in Nat
            BY DEF Service
        <3> QED BY <2>7, <2>8, <3>1, <3>2 DEF ServiceInv, ServiceCore, Conserved
    <2>13. BusyBounded(r, now)
        <3>1. s.busy \in Nat
            BY DEF Service
        <3> QED
            BY <2>2, <2>7, <2>8, <3>1 DEF ServiceInv, ServiceCore, BusyBounded, BusyTimeNs, Time
    <2> QED
        BY <2>5, <2>6, <2>7, <2>9, <2>10, <2>11, <2>12, <2>13 DEF ServiceInv, ServiceCore
<1> QED BY <1>1, <1>2

\* Promotion only lets the run survive more outages.
LEMMA PromoteKeeps ==
    ASSUME NEW s \in Service, NEW now \in Time, NEW t \in Task, ServiceInv(s, now)
    PROVE  LET r == PromoteReplica(s, t) IN r \in Service /\ ServiceInv(r, now)
<1>1. CASE ~(s.owner = t /\ s.available)
    BY <1>1 DEF PromoteReplica
<1>2. CASE s.owner = t /\ s.available
    <2> DEFINE r == [s EXCEPT !.immune = TRUE]
    <2>1. r \in Service
        BY DEF Service
    <2>2. /\ SameSlot(r, s) /\ r.available = s.available /\ r.immune = TRUE
          /\ r.dispatch = s.dispatch
        BY DEF Service, SameSlot
    <2>3. PromoteReplica(s, t) = r
        BY <1>2 DEF PromoteReplica
    <2> HIDE DEF r
    <2>4. CompletionAllowed(r) /\ DispatchArmed(r)
        BY <2>2 DEF ServiceInv, SameSlot, CompletionAllowed, ImmuneRun, DispatchArmed, CanDispatch
    <2> QED BY <2>1, <2>2, <2>3, <2>4, SameSlotKeeps DEF ServiceInv
<1> QED BY <1>1, <1>2

\* Cancelling an attempt ends its run and its reservation in one step, and
\* wakes the dispatcher for what queued behind it.
LEMMA CancelRecoveryKeeps ==
    ASSUME NEW s \in Service, NEW now \in Time, NEW t \in Task,
           ServiceCore(s, now), DispatchArmed(s),
           CompletionAllowed(s) \/ (s.runningRecovery /\ s.owner = t)
    PROVE  LET r == CancelRecovery(s, t, now) IN r \in Service /\ ServiceInv(r, now)
<1>1. CASE s.owner # t
    BY <1>1 DEF CancelRecovery, ServiceInv
<1>2. CASE s.owner = t /\ ~s.runningRecovery
    <2> DEFINE r == [s EXCEPT !.catchup = NoTime, !.owner = NoTask]
    <2>1. r \in Service
        BY DEF Service
    <2>2. /\ r.running = s.running /\ r.available = s.available /\ r.immune = s.immune
          /\ r.queue = s.queue /\ r.known = s.known
          /\ r.hasCurrent = s.hasCurrent /\ r.current = s.current
          /\ r.completion = s.completion
          /\ r.owner = NoTask /\ r.runningRecovery = s.runningRecovery
          /\ r.enqueued = s.enqueued /\ r.completed = s.completed
          /\ r.cancelled = s.cancelled /\ r.removed = s.removed /\ r.busy = s.busy
        BY DEF Service
    <2>3. CancelRecovery(s, t, now) = RequestDispatch(r)
        BY <1>2 DEF CancelRecovery
    <2> HIDE DEF r
    <2>4. SlotOwned(r) /\ CompletionTimely(r, now) /\ CompletionAllowed(r)
        BY <1>2, <2>2 DEF ServiceCore, SlotOwned, CompletionTimely, CompletionAllowed, ImmuneRun
    <2>5. QueueSane(r, now) /\ CurrentSane(r, now)
        BY <2>2 DEF ServiceCore, QueueSane, CurrentSane
    <2>6. Conserved(r) /\ BusyBounded(r, now)
        BY <2>2 DEF ServiceCore, Conserved, BusyBounded, BusyTimeNs
    <2> QED
        BY <2>1, <2>3, <2>4, <2>5, <2>6, RequestDispatchKeeps DEF ServiceInv, ServiceCore
<1>3. CASE s.owner = t /\ s.runningRecovery
    <2> DEFINE spent == BusyTimeNs(s, now)
               quiet == [s EXCEPT !.catchup = NoTime]
               half == [quiet EXCEPT !.completion = FALSE, !.busy = BusyTimeNs(quiet, now),
                                     !.hasCurrent = FALSE, !.current = NoRun,
                                     !.cancelled = quiet.cancelled + 1]
               r == [s EXCEPT !.catchup = NoTime, !.completion = FALSE, !.busy = spent,
                              !.hasCurrent = FALSE, !.current = NoRun,
                              !.cancelled = s.cancelled + 1,
                              !.runningRecovery = FALSE, !.owner = NoTask]
    <2>1. spent \in Nat /\ spent <= now
        BY BusyTimeBounds
    <2>2. s.hasCurrent /\ s.current.task = t /\ t # NoTask
        BY <1>3, TaskAssumption DEF ServiceCore, SlotOwned, NoTask
    <2>3. CancelRecovery(s, t, now) = RequestDispatch(r)
        <3>1. /\ quiet.hasCurrent = s.hasCurrent /\ quiet.current = s.current
              /\ quiet.running = s.running /\ quiet.busy = s.busy
              /\ quiet.cancelled = s.cancelled /\ quiet.owner = s.owner
            BY DEF Service
        <3>2. BusyTimeNs(quiet, now) = spent
            BY <3>1 DEF BusyTimeNs
        <3>3. half = [s EXCEPT !.catchup = NoTime, !.completion = FALSE, !.busy = spent,
                               !.hasCurrent = FALSE, !.current = NoRun,
                               !.cancelled = s.cancelled + 1]
            BY <3>1, <3>2
        <3>4. half.owner = t /\ half.dispatch = s.dispatch
            BY <1>3, <3>3 DEF Service
        <3>5. RequestDispatch(half) = half
            <4>1. ~CanDispatch(half)
                BY <2>2, <3>4 DEF CanDispatch
            <4>2. half.dispatch \in BOOLEAN
                BY <3>4 DEF Service
            <4>3. [half EXCEPT !.dispatch = half.dispatch] = half
                BY <3>3 DEF Service
            <4> HIDE DEF half
            <4>4. (half.dispatch \/ CanDispatch(half)) = half.dispatch
                BY <4>1, <4>2
            <4> QED BY <4>3, <4>4 DEF RequestDispatch
        <3>6. CancelRunningTaskForFailure(quiet, t, now) = RequestDispatch(half)
            BY <2>2, <3>1 DEF CancelRunningTaskForFailure
        <3>7. CancelRecovery(s, t, now) =
                  RequestDispatch([[half EXCEPT !.runningRecovery = FALSE]
                                   EXCEPT !.owner = NoTask])
            BY <1>3, <3>5, <3>6 DEF CancelRecovery
        <3>8. [[half EXCEPT !.runningRecovery = FALSE] EXCEPT !.owner = NoTask] = r
            BY <3>3
        <3> QED BY <3>7, <3>8
    <2> HIDE DEF spent
    <2>4. r \in Service
        <3>1. s.cancelled + 1 \in Nat /\ NoRun \in Run
            BY DEF Service, Run
        <3> QED BY <2>1, <3>1 DEF Service
    <2>5. /\ r.running = s.running /\ r.queue = s.queue /\ r.known = s.known
          /\ ~r.hasCurrent /\ ~r.completion /\ ~r.runningRecovery
          /\ r.enqueued = s.enqueued /\ r.completed = s.completed
          /\ r.cancelled = s.cancelled + 1 /\ r.removed = s.removed /\ r.busy = spent
        BY DEF Service
    <2> HIDE DEF r
    <2>6. /\ SlotOwned(r) /\ CompletionTimely(r, now) /\ CompletionAllowed(r)
          /\ CurrentSane(r, now)
        BY <2>5 DEF SlotOwned, CompletionTimely, CompletionAllowed, CurrentSane
    <2>7. QueueSane(r, now)
        BY <2>5 DEF ServiceCore, QueueSane
    <2>8. Conserved(r)
        <3>1. Cardinality(s.queue) \in Nat
            BY FS_CardinalityType DEF ServiceCore, QueueSane
        <3>2. s.completed \in Nat /\ s.cancelled \in Nat /\ s.removed \in Nat
            BY DEF Service
        <3> QED BY <2>2, <2>5, <3>1, <3>2 DEF ServiceCore, Conserved
    <2>9. BusyBounded(r, now)
        BY <2>1, <2>5 DEF BusyBounded, BusyTimeNs
    <2> QED
        BY <2>3, <2>4, <2>6, <2>7, <2>8, <2>9, RequestDispatchKeeps DEF ServiceInv, ServiceCore
<1> QED BY <1>1, <1>2, <1>3

-----------------------------------------------------------------------------
(* The application's events and the clock *)

\* Starting the application makes queued work dispatchable.
LEMMA StartApplicationKeeps ==
    ASSUME NEW s \in Service, NEW now \in Time, ServiceInv(s, now), ~s.hasCurrent
    PROVE  LET r == StartApplication(s) IN
           r \in Service /\ ServiceInv(r, now) /\ r.running /\ r.queue = s.queue
<1> DEFINE r == [s EXCEPT !.running = TRUE]
<1>1. r \in Service
    BY DEF Service
<1>2. /\ r.running /\ r.available = s.available /\ r.immune = s.immune
      /\ r.queue = s.queue /\ r.known = s.known
      /\ r.hasCurrent = s.hasCurrent /\ r.current = s.current
      /\ r.completion = s.completion
      /\ r.owner = s.owner /\ r.runningRecovery = s.runningRecovery
      /\ r.enqueued = s.enqueued /\ r.completed = s.completed
      /\ r.cancelled = s.cancelled /\ r.removed = s.removed /\ r.busy = s.busy
    BY DEF Service
<1>3. StartApplication(s) = RequestDispatch(r)
    BY DEF StartApplication
<1> HIDE DEF r
<1>4. SlotOwned(r) /\ CompletionTimely(r, now) /\ CompletionAllowed(r)
    BY <1>2 DEF ServiceInv, ServiceCore, SlotOwned, CompletionTimely, CompletionAllowed, ImmuneRun
<1>5. QueueSane(r, now) /\ CurrentSane(r, now)
    BY <1>2 DEF ServiceInv, ServiceCore, QueueSane, CurrentSane
<1>6. Conserved(r) /\ BusyBounded(r, now)
    BY <1>2 DEF ServiceInv, ServiceCore, Conserved, BusyBounded, BusyTimeNs
<1>7. RequestDispatch(r).running /\ RequestDispatch(r).queue = s.queue
    BY <1>1, <1>2, <1>4, <1>5, <1>6, RequestDispatchKeeps DEF ServiceCore, SameSlot
<1> QED
    BY <1>1, <1>3, <1>4, <1>5, <1>6, <1>7, RequestDispatchKeeps DEF ServiceInv, ServiceCore

\* Stopping charges the prefix of the current run and cancels every event.
LEMMA StopApplicationKeeps ==
    ASSUME NEW s \in Service, NEW now \in Time, ServiceInv(s, now)
    PROVE  LET r == StopApplication(s, now) IN
           r \in Service /\ ServiceInv(r, now) /\ r.queue = s.queue
<1> DEFINE spent == BusyTimeNs(s, now)
           r == [s EXCEPT !.catchup = NoTime, !.busy = spent, !.running = FALSE,
                          !.dispatch = FALSE, !.completion = FALSE]
<1>1. spent \in Nat /\ spent <= now
    BY BusyTimeBounds DEF ServiceInv
<1>2. StopApplication(s, now) = r
    BY DEF StopApplication
<1> HIDE DEF spent
<1>3. r \in Service
    BY <1>1 DEF Service
<1>4. /\ ~r.running /\ ~r.completion /\ r.queue = s.queue /\ r.known = s.known
      /\ r.hasCurrent = s.hasCurrent /\ r.current = s.current
      /\ r.owner = s.owner /\ r.runningRecovery = s.runningRecovery
      /\ r.enqueued = s.enqueued /\ r.completed = s.completed
      /\ r.cancelled = s.cancelled /\ r.removed = s.removed /\ r.busy = spent
    BY DEF Service
<1> HIDE DEF r
<1>5. /\ SlotOwned(r) /\ CompletionTimely(r, now) /\ CompletionAllowed(r)
      /\ DispatchArmed(r)
    BY <1>4 DEF ServiceInv, ServiceCore, SlotOwned, CompletionTimely, CompletionAllowed,
                DispatchArmed, CanDispatch
<1>6. QueueSane(r, now) /\ CurrentSane(r, now)
    BY <1>4 DEF ServiceInv, ServiceCore, QueueSane, CurrentSane
<1>7. Conserved(r) /\ BusyBounded(r, now)
    BY <1>1, <1>4 DEF ServiceInv, ServiceCore, Conserved, BusyBounded, BusyTimeNs
<1> QED BY <1>2, <1>3, <1>4, <1>5, <1>6, <1>7 DEF ServiceInv, ServiceCore

\* The catch-up event fires: nothing else depends on it.
LEMMA CatchupKeeps ==
    ASSUME NEW s \in Service, NEW now \in Time, ServiceInv(s, now)
    PROVE  LET r == [s EXCEPT !.catchup = NoTime] IN
           r \in Service /\ ServiceInv(r, now) /\ SameSlot(r, s)
<1> DEFINE r == [s EXCEPT !.catchup = NoTime]
<1>1. r \in Service
    BY DEF Service
<1>2. /\ SameSlot(r, s) /\ r.available = s.available /\ r.immune = s.immune
      /\ r.dispatch = s.dispatch
    BY DEF Service, SameSlot
<1> HIDE DEF r
<1>3. CompletionAllowed(r) /\ DispatchArmed(r)
    BY <1>2 DEF ServiceInv, SameSlot, CompletionAllowed, ImmuneRun, DispatchArmed, CanDispatch
<1> QED BY <1>1, <1>2, <1>3, SameSlotKeeps DEF ServiceInv, r

\* Time passes up to the next pending completion, never beyond it.
LEMMA ClockKeeps ==
    ASSUME NEW s \in Service, NEW now \in Time, ServiceInv(s, now),
           NEW later \in Time, now <= later,
           s.completion => later <= s.current.start + s.current.service
    PROVE  ServiceInv(s, later)
<1>1. s.hasCurrent => s.current.start \in Nat
    BY DEF ServiceInv, ServiceCore, CurrentSane, Service, Run, Time
<1>2. CompletionTimely(s, later)
    BY DEF ServiceInv, ServiceCore, CompletionTimely
<1>3. QueueSane(s, later)
    <2>1. \A i \in s.queue : i.enter \in Nat
        BY DEF Service, WorkItem, Time
    <2> QED BY <2>1 DEF ServiceInv, ServiceCore, QueueSane, Time
<1>4. CurrentSane(s, later)
    BY <1>1 DEF ServiceInv, ServiceCore, CurrentSane, Time
<1>5. BusyBounded(s, later)
    <2>1. s.busy \in Nat
        BY DEF Service
    <2> QED BY <1>1, <2>1 DEF ServiceInv, ServiceCore, BusyBounded, BusyTimeNs, Time
<1> QED BY <1>2, <1>3, <1>4, <1>5 DEF ServiceInv, ServiceCore

\* A service starts out empty, closed to dispatch and in order.
LEMMA NewServiceSound ==
    NewService \in Service /\ \A now \in Time : ServiceInv(NewService, now)
<1>1. NewService \in Service
    BY DEF NewService, Service, Run
<1>2. ASSUME NEW now \in Time PROVE ServiceInv(NewService, now)
    <2>1. IsFiniteSet({}) /\ Cardinality({}) = 0
        BY FS_EmptySet
    <2>2. Conserved(NewService)
        BY <2>1 DEF NewService, Conserved
    <2>3. BusyBounded(NewService, now)
        BY DEF NewService, BusyBounded, BusyTimeNs, Time
    <2>4. QueueSane(NewService, now) /\ CurrentSane(NewService, now)
        BY <2>1 DEF NewService, QueueSane, CurrentSane
    <2>5. /\ SlotOwned(NewService) /\ CompletionTimely(NewService, now)
          /\ CompletionAllowed(NewService) /\ DispatchArmed(NewService)
        BY DEF NewService, SlotOwned, CompletionTimely, CompletionAllowed,
               DispatchArmed, CanDispatch
    <2> QED BY <2>2, <2>3, <2>4, <2>5 DEF ServiceInv, ServiceCore
<1> QED BY <1>1, <1>2

-----------------------------------------------------------------------------
(* Of a compute service, what concerns one task *)

\* The service holds of x in r what it holds in s, or less.
Unmoved(r, s, x) ==
    /\ x \in r.known => x \in s.known
    /\ \A i \in r.queue : i.task = x => i \in s.queue
    /\ r.owner = x <=> s.owner = x
    /\ Runs(r, x) <=> Runs(s, x)
    /\ s.owner = x \/ Runs(s, x) => r.runningRecovery = s.runningRecovery /\ r.immune = s.immune
    /\ Runs(s, x) => r.current = s.current

\* The slot took a queued task.
Takes(r, s, now) ==
    LET y == r.current.task IN
    /\ r.hasCurrent /\ ~r.runningRecovery /\ r.owner = NoTask
    /\ ~s.hasCurrent /\ s.owner = NoTask
    /\ y \in Task /\ r.current.start = now
    /\ \E i \in s.queue : i.task = y
    /\ \A i \in r.queue : i \in s.queue /\ i.task # y
    /\ r.known = s.known

LEMMA UnmovedTransitive ==
    ASSUME NEW q, NEW r, NEW s, NEW x, Unmoved(q, r, x), Unmoved(r, s, x)
    PROVE  Unmoved(q, s, x)
BY DEF Unmoved

LEMMA UnmovedReflexive ==
    ASSUME NEW s, NEW x
    PROVE  Unmoved(s, s, x)
BY DEF Unmoved

LEMMA SameSlotUnmoved ==
    ASSUME NEW r, NEW s, NEW x, SameSlot(r, s), r.immune = s.immune
    PROVE  Unmoved(r, s, x)
BY DEF Unmoved, SameSlot, Runs

LEMMA RequestDispatchFrame ==
    ASSUME NEW s \in Service
    PROVE  LET r == RequestDispatch(s) IN
           /\ r.running = s.running /\ r.available = s.available
           /\ r.queue = s.queue /\ r.known = s.known
           /\ r.hasCurrent = s.hasCurrent /\ r.current = s.current
           /\ r.owner = s.owner /\ r.runningRecovery = s.runningRecovery
           /\ r.immune = s.immune
BY DEF RequestDispatch, Service

\* The queue's front is taken, and nothing else changes.
LEMMA StartFrontTakes ==
    ASSUME NEW s \in Service, NEW now \in Time, NEW rate \in Nat \ {0},
           ServiceCore(s, now), CanDispatch(s)
    PROVE  LET r == StartFront(s, now, rate) IN
           /\ Takes(r, s, now)
           /\ r.running = s.running /\ r.available = s.available
           /\ \A x \in Task : x # r.current.task => Unmoved(r, s, x)
<1> DEFINE next == QueueFront(s.queue)
           run == [task |-> next.task, start |-> now, service |-> ServiceTimeNs(next.work, rate)]
           r == [s EXCEPT !.queue = s.queue \ {next}, !.hasCurrent = TRUE,
                          !.current = run, !.completion = TRUE]
<1>1. s.queue # {} /\ s.owner = NoTask /\ ~s.hasCurrent
    BY DEF CanDispatch
<1>2. s.queue \in SUBSET WorkItem
    BY DEF Service
<1>3. \A i, j \in s.queue : i.task = j.task => i = j
    BY DEF ServiceCore, QueueSane
<1>4. next \in s.queue
    BY <1>1, <1>2, <1>3, QueueFrontQueued
<1>5. next.task \in Task
    BY <1>2, <1>4 DEF WorkItem
<1>6. ~s.runningRecovery
    BY <1>1 DEF ServiceCore, SlotOwned
<1>7. StartFront(s, now, rate) = r
    BY DEF StartFront
<1>8. run.task = next.task /\ run.start = now
    OBVIOUS
<1> HIDE DEF run, next
<1>9. /\ r.queue = s.queue \ {next} /\ r.known = s.known /\ r.hasCurrent
      /\ r.current = run /\ r.owner = s.owner /\ r.runningRecovery = s.runningRecovery
      /\ r.immune = s.immune /\ r.running = s.running /\ r.available = s.available
    BY DEF Service
<1> HIDE DEF r
<1>10. Takes(r, s, now)
    BY <1>1, <1>3, <1>4, <1>5, <1>6, <1>8, <1>9 DEF Takes
<1>11. \A x \in Task : x # r.current.task => Unmoved(r, s, x)
    BY <1>1, <1>8, <1>9 DEF Unmoved, Runs
<1> QED BY <1>7, <1>9, <1>10, <1>11

\* The slot is left as it was or takes a queued task.
LEMMA DispatchNextTaskTakes ==
    ASSUME NEW s \in Service, NEW now \in Time, NEW rate \in Nat \ {0}, ServiceCore(s, now)
    PROVE  LET r == DispatchNextTask(s, now, rate) IN
           /\ r.running = s.running /\ r.available = s.available
           /\ \/ r = s
              \/ Takes(r, s, now) /\ \A x \in Task : x # r.current.task => Unmoved(r, s, x)
BY StartFrontTakes DEF DispatchNextTask

LEMMA FireDispatchTakes ==
    ASSUME NEW s \in Service, NEW now \in Time, NEW rate \in Nat \ {0}, ServiceCore(s, now)
    PROVE  LET r == FireDispatch(s, now, rate) IN
           /\ r.running = s.running /\ r.available = s.available
           /\ \/ \A x \in Task : Unmoved(r, s, x)
              \/ Takes(r, s, now) /\ \A x \in Task : x # r.current.task => Unmoved(r, s, x)
<1> DEFINE q == [s EXCEPT !.dispatch = FALSE]
           r == DispatchNextTask(q, now, rate)
<1>1. q \in Service /\ SameSlot(q, s) /\ q.immune = s.immune /\ q.available = s.available
    BY DEF Service, SameSlot
<1>2. FireDispatch(s, now, rate) = r
    BY DEF FireDispatch
<1> HIDE DEF q
<1>3. ServiceCore(q, now)
    BY <1>1, SameSlotKeeps
<1>4. /\ r.running = q.running /\ r.available = q.available
      /\ \/ r = q
         \/ Takes(r, q, now) /\ \A x \in Task : x # r.current.task => Unmoved(r, q, x)
    BY <1>1, <1>3, DispatchNextTaskTakes
<1> HIDE DEF r
<1>5. \A x \in Task : Unmoved(q, s, x)
    BY <1>1, SameSlotUnmoved
<1>6. r = q => \A x \in Task : Unmoved(r, s, x)
    BY <1>5
<1>7. Takes(r, q, now) => Takes(r, s, now)
    BY <1>1 DEF Takes, SameSlot
<1>8. \A x \in Task : Unmoved(r, q, x) => Unmoved(r, s, x)
    BY <1>5, UnmovedTransitive
<1>9. r.running = s.running /\ r.available = s.available
    BY <1>1, <1>4 DEF SameSlot
<1> QED BY <1>2, <1>4, <1>6, <1>7, <1>8, <1>9

\* A submitted task is queued, or was already, and nothing else moves.
LEMMA SubmitTaskUnmoved ==
    ASSUME NEW s \in Service, NEW t, NEW work, NEW now
    PROVE  LET r == SubmitTask(s, t, work, now) IN
           /\ r.running = s.running /\ r.available = s.available
           /\ r.hasCurrent = s.hasCurrent /\ r.current = s.current
           /\ r.owner = s.owner /\ r.runningRecovery = s.runningRecovery
           /\ \A x \in Task : x # t => Unmoved(r, s, x)
<1> DEFINE item == [task |-> t, work |-> work, enter |-> now]
           r == [s EXCEPT !.known = s.known \cup {t}, !.queue = s.queue \cup {item},
                          !.enqueued = s.enqueued + 1]
<1>1. SubmitTask(s, t, work, now) = RequestDispatch(r)
    BY DEF SubmitTask
<1>2. item.task = t
    OBVIOUS
<1> HIDE DEF item
<1>3. /\ r.running = s.running /\ r.available = s.available
      /\ r.queue = s.queue \cup {item} /\ r.known = s.known \cup {t}
      /\ r.hasCurrent = s.hasCurrent /\ r.current = s.current
      /\ r.owner = s.owner /\ r.runningRecovery = s.runningRecovery
      /\ r.immune = s.immune
    BY DEF Service
<1> DEFINE q == RequestDispatch(r)
<1>4. /\ q.running = r.running /\ q.available = r.available
      /\ q.queue = r.queue /\ q.known = r.known
      /\ q.hasCurrent = r.hasCurrent /\ q.current = r.current
      /\ q.owner = r.owner /\ q.runningRecovery = r.runningRecovery
      /\ q.immune = r.immune
    <2>1. r = [r EXCEPT !.dispatch = r.dispatch]
        BY DEF Service
    <2>2. q = [r EXCEPT !.dispatch = r.dispatch \/ CanDispatch(r)]
        BY DEF RequestDispatch
    <2> QED BY <2>1, <2>2 DEF Service
<1> HIDE DEF q, r
<1>5. \A x \in Task : x # t => Unmoved(q, s, x)
    BY <1>2, <1>3, <1>4 DEF Unmoved, Runs
<1> QED BY <1>1, <1>3, <1>4, <1>5 DEF q

LEMMA SetComputeAvailableUnmoved ==
    ASSUME NEW s \in Service, NEW available \in BOOLEAN
    PROVE  LET r == SetComputeAvailable(s, available) IN
           /\ r.running = s.running /\ r.available = available
           /\ \A x \in Task : Unmoved(r, s, x)
<1> DEFINE q == [s EXCEPT !.available = TRUE]
           p == [s EXCEPT !.available = FALSE, !.dispatch = FALSE]
<1>1. CASE s.available = available
    BY <1>1, UnmovedReflexive DEF SetComputeAvailable
<1>2. CASE s.available # available /\ available
    <2>1. q \in Service /\ SameSlot(q, s) /\ q.immune = s.immune /\ q.available
        BY DEF Service, SameSlot
    <2> HIDE DEF q
    <2>2. SameSlot(RequestDispatch(q), s) /\ RequestDispatch(q).immune = s.immune
          /\ RequestDispatch(q).available
        BY <2>1, RequestDispatchFrame DEF SameSlot, RequestDispatch, Service
    <2>3. SetComputeAvailable(s, available) = RequestDispatch(q)
        BY <1>2 DEF SetComputeAvailable, q
    <2>4. RequestDispatch(q).running = s.running
        BY <2>2 DEF SameSlot
    <2> QED BY <1>2, <2>2, <2>3, <2>4, SameSlotUnmoved
<1>3. CASE s.available # available /\ ~available
    <2>1. SameSlot(p, s) /\ p.immune = s.immune /\ p.available = FALSE /\ p.running = s.running
        BY DEF Service, SameSlot
    <2>2. SetComputeAvailable(s, available) = p
        BY <1>3 DEF SetComputeAvailable
    <2> HIDE DEF p
    <2> QED BY <1>3, <2>1, <2>2, SameSlotUnmoved
<1> QED BY <1>1, <1>2, <1>3

\* The run of t ends, and with it nothing of another task.
LEMMA CancelRunningUnmoved ==
    ASSUME NEW s \in Service, NEW now \in Time, NEW t \in Task, ServiceCore(s, now)
    PROVE  LET r == CancelRunningTaskForFailure(s, t, now) IN
           /\ r.running = s.running /\ r.available = s.available
           /\ ~Runs(r, t) /\ r.owner = s.owner /\ r.known = s.known /\ r.queue = s.queue
           /\ r.runningRecovery = s.runningRecovery
           /\ \A x \in Task : x # t => Unmoved(r, s, x)
<1>1. CASE ~s.hasCurrent \/ s.current.task # t
    <2>1. CancelRunningTaskForFailure(s, t, now) = s
        BY <1>1 DEF CancelRunningTaskForFailure
    <2>2. ~Runs(s, t)
        BY <1>1 DEF Runs
    <2> QED BY <2>1, <2>2, UnmovedReflexive
<1>2. CASE s.hasCurrent /\ s.current.task = t
    <2> DEFINE spent == BusyTimeNs(s, now)
               r == [s EXCEPT !.completion = FALSE, !.busy = spent,
                              !.hasCurrent = FALSE, !.current = NoRun,
                              !.cancelled = s.cancelled + 1]
               q == RequestDispatch(r)
    <2>1. CancelRunningTaskForFailure(s, t, now) = q
        BY <1>2 DEF CancelRunningTaskForFailure
    <2>2. spent \in Nat
        BY BusyTimeBounds
    <2> HIDE DEF spent
    <2>3. r \in Service
        <3>1. s.cancelled + 1 \in Nat
            BY DEF Service
        <3>2. NoRun \in Run
            BY DEF Run
        <3> QED BY <2>2, <3>1, <3>2 DEF Service
    <2>4. /\ r.running = s.running /\ r.available = s.available
          /\ r.queue = s.queue /\ r.known = s.known /\ ~r.hasCurrent
          /\ r.owner = s.owner /\ r.runningRecovery = s.runningRecovery
          /\ r.immune = s.immune
        BY DEF Service
    <2> HIDE DEF r
    <2>5. /\ q.running = r.running /\ q.available = r.available
          /\ q.queue = r.queue /\ q.known = r.known /\ q.hasCurrent = r.hasCurrent
          /\ q.owner = r.owner /\ q.runningRecovery = r.runningRecovery
          /\ q.immune = r.immune
        BY <2>3, RequestDispatchFrame
    <2> HIDE DEF q
    <2>6. ~Runs(q, t) /\ \A x \in Task : x # t => Unmoved(q, s, x)
        BY <1>2, <2>4, <2>5 DEF Unmoved, Runs
    <2> QED BY <2>1, <2>4, <2>5, <2>6
<1> QED BY <1>1, <1>2

LEMMA RemoveQueuedUnmoved ==
    ASSUME NEW s \in Service, NEW t \in Task
    PROVE  LET r == RemoveQueuedTaskForFailure(s, t) IN
           /\ r.running = s.running /\ r.available = s.available
           /\ r.owner = s.owner /\ r.known = s.known
           /\ r.hasCurrent = s.hasCurrent /\ r.current = s.current
           /\ r.runningRecovery = s.runningRecovery
           /\ \A i \in r.queue : i.task # t
           /\ \A x \in Task : x # t => Unmoved(r, s, x)
<1> DEFINE rest == {i \in s.queue : i.task # t}
           r == [s EXCEPT !.queue = rest, !.removed = s.removed + 1]
<1>1. CASE \A i \in s.queue : i.task # t
    BY <1>1, UnmovedReflexive DEF RemoveQueuedTaskForFailure
<1>2. CASE ~(\A i \in s.queue : i.task # t)
    <2>1. RemoveQueuedTaskForFailure(s, t) = r
        BY <1>2 DEF RemoveQueuedTaskForFailure
    <2>2. \A i \in rest : i \in s.queue /\ i.task # t
        OBVIOUS
    <2> HIDE DEF rest
    <2>3. /\ r.running = s.running /\ r.available = s.available
          /\ r.queue = rest /\ r.known = s.known /\ r.hasCurrent = s.hasCurrent
          /\ r.current = s.current
          /\ r.owner = s.owner /\ r.runningRecovery = s.runningRecovery
          /\ r.immune = s.immune
        BY DEF Service
    <2> HIDE DEF r
    <2>4. \A x \in Task : x # t => Unmoved(r, s, x)
        BY <2>2, <2>3 DEF Unmoved, Runs
    <2> QED BY <2>1, <2>2, <2>3, <2>4
<1> QED BY <1>1, <1>2

\* The completed task leaves the slot, and the next one may take it.
LEMMA CompleteCurrentTaskTakes ==
    ASSUME NEW s \in Service, NEW now \in Time, NEW rate \in Nat \ {0},
           NEW defer \in BOOLEAN, ServiceCore(s, now), CompletionLegal(s, now)
    PROVE  LET r == CompleteCurrentTask(s, now, rate, defer)
               t == s.current.task IN
           /\ t \in Task
           /\ r.running = s.running /\ r.available = s.available
           /\ r.known = s.known /\ ~Runs(r, t) /\ r.owner = NoTask
           /\ \A i \in r.queue : i.task # t /\ i \in s.queue
           /\ defer => ~r.hasCurrent
           /\ \/ ~r.hasCurrent /\ \A x \in Task : x # t => Unmoved(r, s, x)
              \/ /\ r.hasCurrent /\ ~r.runningRecovery /\ r.current.task \in Task \ {t}
                 /\ r.current.start = now
                 /\ \E i \in s.queue : i.task = r.current.task
                 /\ \A i \in r.queue : i.task # r.current.task
                 /\ \A x \in Task : x # t /\ x # r.current.task => Unmoved(r, s, x)
<1> DEFINE t == s.current.task
           v == Vacated(s)
<1>1. s.hasCurrent
    BY DEF CompletionLegal, CompletionDue
<1>2. t \in Task
    <2>1. s.current \in Run /\ s.current # NoRun
        BY <1>1 DEF ServiceCore, CurrentSane, Service
    <2> QED BY <2>1 DEF Run
<1>3. /\ v \in Service /\ ServiceCore(v, now) /\ CompletionAllowed(v)
      /\ ~v.hasCurrent /\ v.queue = s.queue /\ v.running = s.running
    BY VacatedKeeps
<1>4. /\ v.known = s.known /\ v.available = s.available /\ v.immune = s.immune
      /\ v.owner = IF s.runningRecovery THEN NoTask ELSE s.owner
      /\ v.runningRecovery = FALSE
    BY DEF Vacated, Service
<1>5. /\ s.owner = NoTask \/ s.runningRecovery
      /\ s.runningRecovery => s.owner = t
    BY <1>1 DEF ServiceCore, SlotOwned
<1>6. v.owner = NoTask
    BY <1>4, <1>5
<1>7. \A i \in s.queue : i.task # t
    BY <1>1 DEF ServiceCore, CurrentSane
<1>8. NoTask \notin Task
    BY TaskAssumption DEF NoTask
<1>9. \A x \in Task : x # t => Unmoved(v, s, x)
    BY <1>1, <1>3, <1>4, <1>5, <1>6, <1>8 DEF Unmoved, Runs
<1> HIDE DEF v
<1>10. CASE defer
    <2> DEFINE r == RequestDispatch(v)
    <2>1. CompleteCurrentTask(s, now, rate, defer) = r
        BY <1>10 DEF CompleteCurrentTask, v
    <2>2. /\ r.running = v.running /\ r.available = v.available
          /\ r.queue = v.queue /\ r.known = v.known
          /\ r.hasCurrent = v.hasCurrent /\ r.current = v.current
          /\ r.owner = v.owner /\ r.runningRecovery = v.runningRecovery
          /\ r.immune = v.immune
        BY <1>3, RequestDispatchFrame
    <2> HIDE DEF r
    <2>3. \A x \in Task : Unmoved(r, v, x)
        BY <2>2 DEF Unmoved, Runs
    <2>4. \A x \in Task : x # t => Unmoved(r, s, x)
        BY <1>9, <2>3, UnmovedTransitive
    <2>5. ~Runs(r, t)
        BY <1>3, <2>2 DEF Runs
    <2> QED BY <1>2, <1>3, <1>4, <1>6, <1>7, <2>1, <2>2, <2>4, <2>5
<1>11. CASE ~defer
    <2> DEFINE r == DispatchNextTask(v, now, rate)
    <2>1. CompleteCurrentTask(s, now, rate, defer) = r
        BY <1>11 DEF CompleteCurrentTask, v
    <2>2. /\ r.running = v.running /\ r.available = v.available
          /\ \/ r = v
             \/ Takes(r, v, now) /\ \A x \in Task : x # r.current.task => Unmoved(r, v, x)
        BY <1>3, DispatchNextTaskTakes
    <2> HIDE DEF r
    <2>3. CASE r = v
        <3>1. ~Runs(v, t)
            BY <1>3 DEF Runs
        <3> QED BY <1>2, <1>3, <1>4, <1>6, <1>7, <1>9, <1>11, <2>1, <2>3, <3>1
    <2>4. CASE Takes(r, v, now) /\ \A x \in Task : x # r.current.task => Unmoved(r, v, x)
        <3>1. /\ r.hasCurrent /\ ~r.runningRecovery /\ r.owner = NoTask
              /\ r.current.task \in Task /\ r.current.start = now
              /\ \E i \in s.queue : i.task = r.current.task
              /\ \A i \in r.queue : i \in s.queue /\ i.task # r.current.task
              /\ r.known = v.known
            BY <1>3, <2>4 DEF Takes
        <3>2. r.current.task # t
            BY <1>7, <3>1
        <3>3. ~Runs(r, t)
            BY <3>2 DEF Runs
        <3>4. \A x \in Task : x # t /\ x # r.current.task => Unmoved(r, s, x)
            BY <1>9, <2>4, UnmovedTransitive
        <3> QED BY <1>2, <1>3, <1>4, <1>7, <1>11, <2>1, <2>2, <3>1, <3>2, <3>3, <3>4
    <2> QED BY <2>2, <2>3, <2>4
<1> QED BY <1>10, <1>11

LEMMA ReserveUnmoved ==
    ASSUME NEW s \in Service, NEW now \in Time, NEW t \in Task, ServiceCore(s, now),
           CanReserve(s, t)
    PROVE  LET r == ReserveRecovery(s, t) IN
           /\ r.running = s.running /\ r.available = s.available
           /\ r.owner = t /\ ~r.runningRecovery /\ ~r.hasCurrent
           /\ r.known = s.known /\ r.queue = s.queue
           /\ \A x \in Task : x # t => Unmoved(r, s, x)
<1> DEFINE r == [s EXCEPT !.owner = t, !.immune = FALSE, !.dispatch = FALSE]
<1>1. ReserveRecovery(s, t) = r
    BY DEF ReserveRecovery
<1>2. /\ r.running = s.running /\ r.available = s.available
      /\ r.queue = s.queue /\ r.known = s.known
      /\ r.hasCurrent = s.hasCurrent /\ r.current = s.current
      /\ r.owner = t /\ r.runningRecovery = s.runningRecovery
    BY DEF Service
<1> HIDE DEF r
<1>3. ~s.hasCurrent /\ s.owner = NoTask /\ ~s.runningRecovery
    BY DEF CanReserve, IsIdle, ServiceCore, SlotOwned
<1>4. NoTask \notin Task
    BY TaskAssumption DEF NoTask
<1>5. \A x \in Task : x # t => Unmoved(r, s, x)
    BY <1>2, <1>3, <1>4 DEF Unmoved, Runs
<1> QED BY <1>1, <1>2, <1>3, <1>5

\* r is s with its reserved slot taken for t.
Engaged(r, s, t) ==
    /\ r.running = s.running /\ r.available = s.available
    /\ r.owner = t /\ r.runningRecovery /\ r.immune
    /\ Runs(r, t)
    /\ r.known = s.known \cup {t} /\ r.queue = s.queue
    /\ \A x \in Task : x # t => Unmoved(r, s, x)

LEMMA StartRecoveryUnmoved ==
    ASSUME NEW s \in Service, NEW now \in Time, NEW t \in Task, ServiceCore(s, now),
           CanStartAttempt(s, t, TRUE), NEW work \in Work, NEW catchup \in Nat,
           NEW r, r = StartRecovery(s, t, work, catchup, now, 1)
    PROVE  Engaged(r, s, t)
<1> DEFINE run == [task |-> t, start |-> now, service |-> ServiceTimeNs(work, 1)]
           due == IF catchup = 0 THEN now ELSE now + ServiceTimeNs(catchup, 1)
           q == [s EXCEPT !.known = s.known \cup {t}, !.enqueued = s.enqueued + 1,
                          !.hasCurrent = TRUE, !.current = run,
                          !.runningRecovery = TRUE, !.immune = TRUE,
                          !.catchup = due, !.completion = TRUE]
<1>1. StartRecovery(s, t, work, catchup, now, 1) = q
    BY DEF StartRecovery, StartReservedAttempt
<1>2. run.task = t
    OBVIOUS
<1> HIDE DEF run, due
<1>3. /\ r.running = s.running /\ r.available = s.available
      /\ r.queue = s.queue /\ r.known = s.known \cup {t}
      /\ r.hasCurrent /\ r.current = run
      /\ r.owner = s.owner /\ r.runningRecovery /\ r.immune
    BY <1>1 DEF Service
<1>4. s.owner = t /\ ~s.hasCurrent
    BY DEF CanStartAttempt
<1>5. \A x \in Task : x # t => Unmoved(r, s, x)
    BY <1>2, <1>3, <1>4 DEF Unmoved, Runs
<1>6. Runs(r, t)
    BY <1>2, <1>3 DEF Runs
<1> QED BY <1>1, <1>3, <1>4, <1>5, <1>6 DEF Engaged

\* The reservation of t ends with its run, and nothing of another task does.
LEMMA CancelRecoveryUnmoved ==
    ASSUME NEW s \in Service, NEW now \in Time, NEW t \in Task, ServiceCore(s, now),
           Runs(s, t) => s.runningRecovery
    PROVE  LET r == CancelRecovery(s, t, now) IN
           /\ r.running = s.running /\ r.available = s.available
           /\ r.owner # t /\ ~Runs(r, t)
           /\ r.known = s.known /\ r.queue = s.queue
           /\ \A x \in Task : x # t => Unmoved(r, s, x)
<1>0. NoTask \notin Task
    BY TaskAssumption DEF NoTask
<1>1. CASE s.owner # t
    <2>1. CancelRecovery(s, t, now) = s
        BY <1>1 DEF CancelRecovery
    <2>2. ~Runs(s, t)
        BY <1>1 DEF Runs, ServiceCore, SlotOwned
    <2> QED BY <1>1, <2>1, <2>2, UnmovedReflexive
<1>2. CASE s.owner = t
    <2> DEFINE quiet == [s EXCEPT !.catchup = NoTime]
               c == CancelRunningTaskForFailure(quiet, t, now)
               idle == IF s.runningRecovery THEN [c EXCEPT !.runningRecovery = FALSE]
                       ELSE quiet
               free == [idle EXCEPT !.owner = NoTask]
               r == RequestDispatch(free)
    <2>1. CancelRecovery(s, t, now) = r
        BY <1>2 DEF CancelRecovery
    <2>2. quiet \in Service /\ SameSlot(quiet, s) /\ quiet.immune = s.immune
          /\ quiet.available = s.available
        BY DEF Service, SameSlot
    <2>3. \A x \in Task : Unmoved(quiet, s, x)
        BY <2>2, SameSlotUnmoved
    <2>4. ServiceCore(quiet, now)
        BY <2>2, SameSlotKeeps
    <2>5. /\ quiet.running = s.running /\ quiet.known = s.known /\ quiet.queue = s.queue
          /\ quiet.owner = t /\ quiet.hasCurrent = s.hasCurrent
          /\ quiet.runningRecovery = s.runningRecovery /\ quiet.current = s.current
        BY <1>2, <2>2 DEF SameSlot
    <2> HIDE DEF quiet
    <2>6. idle \in Service
          /\ idle.running = s.running /\ idle.available = s.available
          /\ idle.known = s.known /\ idle.queue = s.queue /\ idle.owner = t
          /\ ~idle.runningRecovery /\ ~idle.hasCurrent
        <3>1. CASE s.runningRecovery
            <4>1. s.hasCurrent /\ s.current.task = t
                BY <1>2, <3>1 DEF ServiceCore, SlotOwned
            <4> DEFINE spent == BusyTimeNs(quiet, now)
                       e == [quiet EXCEPT !.completion = FALSE, !.busy = spent,
                                          !.hasCurrent = FALSE, !.current = NoRun,
                                          !.cancelled = quiet.cancelled + 1]
            <4>2. c = RequestDispatch(e)
                BY <4>1, <2>5 DEF CancelRunningTaskForFailure
            <4>3. spent \in Nat
                BY <2>2, <2>4, BusyTimeBounds
            <4> HIDE DEF spent
            <4>4. e \in Service
                <5>1. quiet.cancelled + 1 \in Nat
                    BY <2>2 DEF Service
                <5>2. NoRun \in Run
                    BY DEF Run
                <5> QED BY <2>2, <4>3, <5>1, <5>2 DEF Service
            <4>5. /\ e.running = quiet.running /\ e.available = quiet.available
                  /\ e.queue = quiet.queue /\ e.known = quiet.known /\ ~e.hasCurrent
                  /\ e.owner = quiet.owner
                BY <2>2 DEF Service
            <4> HIDE DEF e
            <4>6. c \in Service
                BY <4>2, <4>4 DEF RequestDispatch, Service
            <4>7. /\ c.running = e.running /\ c.available = e.available
                  /\ c.queue = e.queue /\ c.known = e.known /\ c.hasCurrent = e.hasCurrent
                  /\ c.owner = e.owner
                BY <4>2, <4>4, RequestDispatchFrame
            <4> HIDE DEF c
            <4>8. idle = [c EXCEPT !.runningRecovery = FALSE]
                BY <3>1
            <4>9. /\ idle \in Service
                  /\ idle.running = c.running /\ idle.available = c.available
                  /\ idle.queue = c.queue /\ idle.known = c.known
                  /\ idle.hasCurrent = c.hasCurrent /\ idle.owner = c.owner
                  /\ ~idle.runningRecovery
                BY <4>6, <4>8 DEF Service
            <4> QED BY <2>2, <2>5, <4>5, <4>7, <4>9
        <3>2. CASE ~s.runningRecovery
            <4>1. ~s.hasCurrent
                BY <1>0, <1>2, <3>2 DEF ServiceCore, SlotOwned
            <4> QED BY <2>2, <2>5, <3>2, <4>1
        <3> QED BY <3>1, <3>2
    <2> HIDE DEF idle
    <2>7. /\ free \in Service
          /\ free.running = s.running /\ free.available = s.available
          /\ free.known = s.known /\ free.queue = s.queue /\ free.owner = NoTask
          /\ ~free.hasCurrent
        BY <2>6 DEF Service
    <2> HIDE DEF free
    <2>8. /\ r.running = s.running /\ r.available = s.available
          /\ r.known = s.known /\ r.queue = s.queue /\ r.owner = NoTask
          /\ ~r.hasCurrent
        BY <2>7, RequestDispatchFrame
    <2> HIDE DEF r
    <2>9. \A x \in Task : x # t => Unmoved(r, s, x)
        <3>1. \A x \in Task : Runs(s, x) => x = t
            BY <1>2, <1>0 DEF Runs, ServiceCore, SlotOwned
        <3> QED BY <1>0, <1>2, <2>8, <3>1 DEF Unmoved, Runs
    <2>10. ~Runs(r, t)
        BY <2>8 DEF Runs
    <2> QED BY <1>0, <2>1, <2>8, <2>9, <2>10
<1> QED BY <1>1, <1>2

\* A recovery's slot is given back, even one on a node that went down.
LEMMA GiveBackKeeps ==
    ASSUME NEW s \in Service, NEW now \in Time, NEW t \in Task,
           ServiceCore(s, now), DispatchArmed(s)
    PROVE  LET r == CancelRecovery(s, t, now) IN
           r \in Service /\ ServiceCore(r, now) /\ DispatchArmed(r)
<1>1. CASE s.owner # t
    BY <1>1 DEF CancelRecovery
<1>2. CASE s.owner = t
    <2>1. CompletionAllowed(s) \/ (s.runningRecovery /\ s.owner = t)
        <3>1. t # NoTask
            BY TaskAssumption DEF NoTask
        <3> QED BY <1>2, <3>1 DEF ServiceCore, SlotOwned, CompletionTimely, CompletionAllowed
    <2> QED BY <2>1, CancelRecoveryKeeps DEF ServiceInv
<1> QED BY <1>1, <1>2

=============================================================================
