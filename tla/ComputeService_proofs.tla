------------------------ MODULE ComputeService_proofs ------------------------
(***************************************************************************)
(* One compute service under all its callers: the aborts of the completion *)
(* handler are unreachable, no dispatch wakeup is lost, executions are     *)
(* conserved, and the slot serves one task at a time, for every task set,  *)
(* every amount of work and every rate.  The last part is about what the   *)
(* callers were told and when: nothing overtakes, busy time is exact.      *)
(***************************************************************************)
EXTENDS ComputeService, ComputeServiceOps_proofs

-----------------------------------------------------------------------------
(* What a handler may do to the slot *)

\* Between s and r nobody was admitted and nobody began an attempt: a
\* reservation is kept or given up, and the run in the slot is the old one or
\* came out of the queue just now.
Slims(s, r) ==
    /\ r.queue \subseteq s.queue /\ r.known = s.known
    /\ r.owner = NoTask \/ (r.owner = s.owner /\ r.runningRecovery = s.runningRecovery)
    /\ r.hasCurrent =>
         \/ s.hasCurrent /\ r.current = s.current
         \/ /\ s.running /\ r.current.start = now
            /\ \E i \in s.queue : i.task = r.current.task

Narrows(s, r) == Slims(s, r) /\ r.running = s.running

\* `over' are the tasks whose run ended between s and r.
Ends(s, r, over) == \A t \in Task : t \in over <=> Runs(s, t) /\ ~Runs(r, t)

LEMMA NarrowsTransitive ==
    ASSUME NEW s, NEW m, NEW r, Narrows(s, m), Narrows(m, r)
    PROVE  Narrows(s, r)
BY DEF Narrows, Slims

LEMMA SameSlotNarrows ==
    ASSUME NEW s, NEW r, SameSlot(r, s)
    PROVE  Narrows(s, r)
BY DEF SameSlot, Narrows, Slims

LEMMA RequestDispatchNarrows ==
    ASSUME NEW s \in Service
    PROVE  Narrows(s, RequestDispatch(s))
<1>1. SameSlot(RequestDispatch(s), s)
    BY DEF RequestDispatch, Service, SameSlot
<1> QED BY <1>1, SameSlotNarrows

LEMMA DispatchNextTaskNarrows ==
    ASSUME NEW s \in Service, now \in Time, ServiceCore(s, now)
    PROVE  Narrows(s, DispatchNextTask(s, now, Rate))
<1>1. CASE ~CanDispatch(s)
    BY <1>1 DEF DispatchNextTask, Narrows, Slims
<1>2. CASE CanDispatch(s)
    <2> DEFINE next == QueueFront(s.queue)
               r == StartFront(s, now, Rate)
    <2>1. next \in s.queue
        BY <1>2, QueueFrontQueued DEF ServiceCore, QueueSane, CanDispatch, Service
    <2> HIDE DEF next
    <2>2. r = [s EXCEPT !.queue = s.queue \ {next}, !.hasCurrent = TRUE,
                        !.current = [task |-> next.task, start |-> now,
                                     service |-> ServiceTimeNs(next.work, Rate)],
                        !.completion = TRUE]
        BY DEF StartFront, next
    <2> HIDE DEF r
    <2>3. /\ r.running = s.running /\ r.queue = s.queue \ {next} /\ r.known = s.known /\ r.owner = s.owner
          /\ r.runningRecovery = s.runningRecovery
          /\ r.current = [task |-> next.task, start |-> now,
                          service |-> ServiceTimeNs(next.work, Rate)]
        BY <2>2 DEF Service
    <2>4. r.current.start = now /\ r.current.task = next.task
        BY <2>3
    <2>5. Narrows(s, r)
        BY <1>2, <2>1, <2>3, <2>4 DEF Narrows, Slims, CanDispatch
    <2> QED BY <1>2, <2>5 DEF DispatchNextTask, r
<1> QED BY <1>1, <1>2

LEMMA FireDispatchNarrows ==
    ASSUME NEW s \in Service, now \in Time, ServiceCore(s, now)
    PROVE  Narrows(s, FireDispatch(s, now, Rate)) /\ Ends(s, FireDispatch(s, now, Rate), {})
<1> DEFINE m == [s EXCEPT !.dispatch = FALSE]
<1>1. m \in Service /\ SameSlot(m, s)
    BY DEF Service, SameSlot
<1> HIDE DEF m
<1>2. ServiceCore(m, now) /\ Narrows(s, m)
    BY <1>1, SameSlotKeeps, SameSlotNarrows
<1>3. Narrows(m, DispatchNextTask(m, now, Rate))
    BY <1>1, <1>2, DispatchNextTaskNarrows
<1>4. s.hasCurrent => DispatchNextTask(m, now, Rate) = m
    BY <1>1 DEF DispatchNextTask, CanDispatch, SameSlot
<1>5. Ends(s, DispatchNextTask(m, now, Rate), {})
    BY <1>1, <1>4 DEF Ends, Runs, SameSlot
<1> QED BY <1>2, <1>3, <1>5, NarrowsTransitive DEF FireDispatch, m

LEMMA CompleteCurrentTaskNarrows ==
    ASSUME NEW s \in Service, now \in Time, ServiceCore(s, now), CompletionLegal(s, now),
           NEW deferDispatch \in BOOLEAN
    PROVE  LET r == CompleteCurrentTask(s, now, Rate, deferDispatch) IN
           /\ Narrows(s, r)
           /\ Ends(s, r, {s.current.task})
           /\ deferDispatch => ~r.hasCurrent
<1> DEFINE m == Vacated(s)
           owner == IF s.runningRecovery THEN NoTask ELSE s.owner
           catchup == IF s.runningRecovery THEN NoTime ELSE s.catchup
<1>1. m \in Service /\ ServiceCore(m, now) /\ ~m.hasCurrent
    BY VacatedKeeps
<1>2. /\ m.running = s.running /\ m.queue = s.queue /\ m.known = s.known /\ m.owner = owner
      /\ m.runningRecovery = FALSE
    <2>1. m = [s EXCEPT !.completion = FALSE, !.busy = s.busy + s.current.service,
                        !.completed = s.completed + 1,
                        !.hasCurrent = FALSE, !.current = NoRun,
                        !.owner = owner, !.catchup = catchup,
                        !.runningRecovery = FALSE]
        BY DEF Vacated
    <2> HIDE DEF m, owner, catchup
    <2> QED BY <2>1 DEF Service
<1> HIDE DEF m
<1>3. Narrows(s, m)
    BY <1>1, <1>2 DEF Narrows, Slims, Service
<1>4. Narrows(m, RequestDispatch(m)) /\ Narrows(m, DispatchNextTask(m, now, Rate))
    BY <1>1, RequestDispatchNarrows, DispatchNextTaskNarrows
<1> DEFINE r == CompleteCurrentTask(s, now, Rate, deferDispatch)
<1>5. /\ r = RequestDispatch(m) \/ r = DispatchNextTask(m, now, Rate)
      /\ deferDispatch => r = RequestDispatch(m)
    BY DEF CompleteCurrentTask, m
<1>6. RequestDispatch(m).hasCurrent = m.hasCurrent
    BY <1>1 DEF RequestDispatch, Service
<1> HIDE DEF r
<1>7. Narrows(s, r)
    BY <1>3, <1>4, <1>5, NarrowsTransitive
<1>8. Ends(s, r, {s.current.task})
    <2>1. s.hasCurrent /\ \A i \in s.queue : i.task # s.current.task
        BY DEF CompletionLegal, CompletionDue, ServiceCore, CurrentSane
    <2>2. Narrows(m, r)
        BY <1>4, <1>5
    <2>3. ~Runs(r, s.current.task)
        BY <1>1, <1>2, <2>1, <2>2 DEF Narrows, Slims, Runs
    <2> QED BY <2>1, <2>3 DEF Ends, Runs
<1> QED BY <1>1, <1>5, <1>6, <1>7, <1>8 DEF r

LEMMA CancelRunningNarrows ==
    ASSUME NEW s \in Service, NEW t, now \in Time
    PROVE  LET r == CancelRunningTaskForFailure(s, t, now) IN
           Narrows(s, r) /\ (Runs(s, t) => ~r.hasCurrent)
<1>1. CASE ~s.hasCurrent \/ s.current.task # t
    BY <1>1 DEF CancelRunningTaskForFailure, Narrows, Slims, Runs
<1>2. CASE ~(~s.hasCurrent \/ s.current.task # t)
    <2> DEFINE m == [s EXCEPT !.completion = FALSE, !.busy = BusyTimeNs(s, now),
                              !.hasCurrent = FALSE, !.current = NoRun,
                              !.cancelled = s.cancelled + 1]
    <2>1. /\ m.running = s.running /\ m.queue = s.queue /\ m.known = s.known /\ m.owner = s.owner
          /\ m.runningRecovery = s.runningRecovery /\ ~m.hasCurrent
        BY DEF Service
    <2>2. Narrows(s, m)
        BY <2>1 DEF Narrows, Slims
    <2>3. SameSlot(RequestDispatch(m), m)
        BY DEF RequestDispatch, SameSlot, Service
    <2>4. CancelRunningTaskForFailure(s, t, now) = RequestDispatch(m)
        BY <1>2 DEF CancelRunningTaskForFailure
    <2> HIDE DEF m
    <2> QED BY <2>1, <2>2, <2>3, <2>4, SameSlotNarrows, NarrowsTransitive DEF SameSlot
<1> QED BY <1>1, <1>2

LEMMA CancelRecoveryNarrows ==
    ASSUME NEW s \in Service, NEW t, now \in Time,
           s.runningRecovery => s.hasCurrent /\ s.current.task = s.owner
    PROVE  LET r == CancelRecovery(s, t, now) IN
           /\ Narrows(s, r)
           /\ IF s.owner = t /\ s.runningRecovery THEN ~r.hasCurrent
              ELSE r.hasCurrent = s.hasCurrent /\ r.current = s.current
<1>1. CASE s.owner # t
    BY <1>1 DEF CancelRecovery, Narrows, Slims
<1>2. CASE s.owner = t
    <2> DEFINE quiet == [s EXCEPT !.catchup = NoTime]
               cut == CancelRunningTaskForFailure(quiet, t, now)
               idle == IF s.runningRecovery THEN [cut EXCEPT !.runningRecovery = FALSE]
                       ELSE quiet
               m == [idle EXCEPT !.owner = NoTask]
    <2>1. CancelRecovery(s, t, now) = RequestDispatch(m)
        BY <1>2 DEF CancelRecovery
    <2>2. quiet \in Service /\ SameSlot(quiet, s)
        BY DEF Service, SameSlot
    <2>3. Narrows(s, quiet) /\ Narrows(quiet, cut)
        <3> HIDE DEF quiet
        <3> QED BY <2>2, SameSlotNarrows, CancelRunningNarrows
    <2>4. CASE ~s.runningRecovery
        <3>1. /\ m.running = s.running /\ m.queue = s.queue /\ m.known = s.known /\ m.owner = NoTask
              /\ m.hasCurrent = s.hasCurrent /\ m.current = s.current
            BY <2>4 DEF Service
        <3>2. SameSlot(RequestDispatch(m), m)
            BY <2>4 DEF RequestDispatch, SameSlot, Service
        <3> HIDE DEF m
        <3>3. Narrows(s, m)
            BY <3>1 DEF Narrows, Slims
        <3> QED
            BY <1>2, <2>1, <2>4, <3>1, <3>2, <3>3, SameSlotNarrows, NarrowsTransitive
            DEF SameSlot
    <2>5. CASE s.runningRecovery
        <3>1. quiet.hasCurrent /\ quiet.current.task = t
            BY <1>2, <2>5 DEF Service
        <3> DEFINE gone == [quiet EXCEPT !.completion = FALSE, !.busy = BusyTimeNs(quiet, now),
                                         !.hasCurrent = FALSE, !.current = NoRun,
                                         !.cancelled = quiet.cancelled + 1]
        <3>2. cut = RequestDispatch(gone)
            BY <3>1 DEF CancelRunningTaskForFailure
        <3> DEFINE asked == gone.dispatch \/ CanDispatch(gone)
                   freed == [s EXCEPT !.catchup = NoTime, !.completion = FALSE,
                                      !.busy = BusyTimeNs(quiet, now), !.hasCurrent = FALSE,
                                      !.current = NoRun, !.cancelled = s.cancelled + 1,
                                      !.dispatch = asked, !.runningRecovery = FALSE,
                                      !.owner = NoTask]
        <3>3. m = freed
            <4> HIDE DEF asked
            <4>1. cut = [gone EXCEPT !.dispatch = asked]
                BY <3>2 DEF RequestDispatch, asked
            <4> QED BY <2>5, <4>1 DEF Service
        <3>4. /\ freed.running = s.running /\ freed.queue = s.queue /\ freed.known = s.known
              /\ freed.owner = NoTask /\ ~freed.hasCurrent
            <4> HIDE DEF asked
            <4> QED BY DEF Service
        <3>5. SameSlot(RequestDispatch(freed), freed)
            <4> HIDE DEF asked
            <4> QED BY DEF RequestDispatch, SameSlot, Service
        <3> HIDE DEF m, freed
        <3>6. Narrows(s, freed)
            BY <3>4 DEF Narrows, Slims
        <3> QED
            BY <1>2, <2>1, <2>5, <3>3, <3>4, <3>5, <3>6, SameSlotNarrows, NarrowsTransitive
            DEF SameSlot
    <2> QED BY <2>4, <2>5
<1> QED BY <1>1, <1>2

LEMMA StartApplicationSlims ==
    ASSUME NEW s \in Service
    PROVE  Slims(s, StartApplication(s)) /\ Ends(s, StartApplication(s), {})
<1> DEFINE m == StartApplication(s)
<1>1. /\ m.queue = s.queue /\ m.known = s.known /\ m.owner = s.owner
      /\ m.runningRecovery = s.runningRecovery
      /\ m.hasCurrent = s.hasCurrent /\ m.current = s.current
    BY DEF StartApplication, RequestDispatch, Service
<1> QED BY <1>1 DEF Slims, Ends, Runs

LEMMA StopApplicationSlims ==
    ASSUME NEW s \in Service
    PROVE  Slims(s, StopApplication(s, now)) /\ Ends(s, StopApplication(s, now), {})
<1> DEFINE m == StopApplication(s, now)
<1>1. /\ m.queue = s.queue /\ m.known = s.known /\ m.owner = s.owner
      /\ m.runningRecovery = s.runningRecovery
      /\ m.hasCurrent = s.hasCurrent /\ m.current = s.current
    BY DEF StopApplication, Service
<1> QED BY <1>1 DEF Slims, Ends, Runs

LEMMA RemoveQueuedNarrows ==
    ASSUME NEW s \in Service, NEW t
    PROVE  Narrows(s, RemoveQueuedTaskForFailure(s, t))
<1> DEFINE m == RemoveQueuedTaskForFailure(s, t)
           rest == {i \in s.queue : i.task # t}
<1>1. CASE \A i \in s.queue : i.task # t
    BY <1>1 DEF RemoveQueuedTaskForFailure, Narrows, Slims
<1>2. CASE ~(\A i \in s.queue : i.task # t)
    <2>1. m = [s EXCEPT !.queue = rest, !.removed = s.removed + 1]
        BY <1>2 DEF RemoveQueuedTaskForFailure
    <2> HIDE DEF m
    <2>2. /\ m.running = s.running /\ m.queue = rest /\ m.known = s.known /\ m.owner = s.owner
          /\ m.runningRecovery = s.runningRecovery
          /\ m.hasCurrent = s.hasCurrent /\ m.current = s.current
        BY <2>1 DEF Service
    <2>3. Narrows(s, m)
        BY <2>2 DEF Narrows, Slims
    <2> QED BY <2>3 DEF m
<1> QED BY <1>1, <1>2

LEMMA ReleaseNarrows ==
    ASSUME NEW s \in Service, NEW t
    PROVE  Narrows(s, ReleaseRecovery(s, t))
<1>1. CASE s.owner # t \/ s.runningRecovery
    BY <1>1 DEF ReleaseRecovery, Narrows, Slims
<1>2. CASE ~(s.owner # t \/ s.runningRecovery)
    <2> DEFINE m == [s EXCEPT !.owner = NoTask]
    <2>1. /\ m.running = s.running /\ m.queue = s.queue /\ m.known = s.known /\ m.owner = NoTask
          /\ m.hasCurrent = s.hasCurrent /\ m.current = s.current
        BY DEF Service
    <2>2. SameSlot(RequestDispatch(m), m)
        BY DEF RequestDispatch, SameSlot, Service
    <2>3. Narrows(s, m)
        BY <2>1 DEF Narrows, Slims
    <2>4. ReleaseRecovery(s, t) = RequestDispatch(m)
        BY <1>2 DEF ReleaseRecovery
    <2> HIDE DEF m
    <2> QED BY <2>2, <2>3, <2>4, SameSlotNarrows, NarrowsTransitive
<1> QED BY <1>1, <1>2

-----------------------------------------------------------------------------
(* The fault batch *)

\* Closing the service and failing the run it may no longer execute.
LEMMA CloseBatchKeeps ==
    ASSUME NEW s \in Service, now \in Time, ServiceInv(s, now)
    PROVE  /\ Close(s) \in Service /\ ServiceInv(Close(s), now) /\ Narrows(s, Close(s))
           /\ IF s.hasCurrent /\ ~ImmuneRun(s) THEN ~Close(s).hasCurrent
              ELSE Close(s).hasCurrent = s.hasCurrent /\ Close(s).current = s.current
<1> DEFINE closed == SetComputeAvailable(s, FALSE)
<1>1. /\ closed \in Service /\ ServiceCore(closed, now) /\ DispatchArmed(closed)
      /\ SameSlot(closed, s) /\ ImmuneRun(closed) = ImmuneRun(s)
      /\ closed.hasCurrent = s.hasCurrent /\ closed.current = s.current
    BY CloseKeeps DEF ServiceInv, SameSlot, ImmuneRun
<1>2. Narrows(s, closed)
    BY <1>1, SameSlotNarrows
<1> HIDE DEF closed
<1>3. CASE ~closed.hasCurrent \/ ImmuneRun(closed)
    <2>1. Close(s) = closed
        BY <1>3 DEF Close, closed
    <2>2. CompletionAllowed(closed)
        BY <1>1, <1>3 DEF CompletionAllowed, ServiceCore, CompletionTimely
    <2>3. ~(s.hasCurrent /\ ~ImmuneRun(s))
        BY <1>1, <1>3
    <2> QED BY <1>1, <1>2, <2>1, <2>2, <2>3 DEF ServiceInv
<1>4. CASE ~(~closed.hasCurrent \/ ImmuneRun(closed)) /\ closed.runningRecovery
    <2>1. Close(s) = CancelRecovery(closed, closed.owner, now)
        BY <1>4 DEF Close, closed
    <2>2. closed.current.task = closed.owner /\ closed.hasCurrent
        BY <1>1, <1>4 DEF ServiceCore, SlotOwned
    <2>3. closed.owner \in Task
        <3>1. closed.current \in Run /\ closed.current # NoRun
            BY <1>1, <2>2 DEF ServiceCore, CurrentSane, Service
        <3> QED BY <2>2, <3>1 DEF Run
    <2> QED
        BY <1>1, <1>2, <1>4, <2>1, <2>2, <2>3, CancelRecoveryKeeps, CancelRecoveryNarrows,
           NarrowsTransitive
<1>5. CASE ~(~closed.hasCurrent \/ ImmuneRun(closed)) /\ ~closed.runningRecovery
    <2>1. Close(s) = CancelRunningTaskForFailure(closed, closed.current.task, now)
        BY <1>5 DEF Close, closed
    <2>2. closed.current.task \in Task
        <3>1. closed.current \in Run /\ closed.current # NoRun
            BY <1>1, <1>5 DEF ServiceCore, CurrentSane, Service
        <3> QED BY <3>1 DEF Run
    <2> QED
        BY <1>1, <1>2, <1>5, <2>1, <2>2, CancelRunningKeeps, CancelRunningNarrows,
           NarrowsTransitive DEF Runs
<1> QED BY <1>3, <1>4, <1>5

LEMMA ReopenKeeps ==
    ASSUME NEW s \in Service, now \in Time, ServiceInv(s, now)
    PROVE  Reopen(s) \in Service /\ ServiceInv(Reopen(s), now) /\ Narrows(s, Reopen(s))
BY OpenKeeps, SameSlotNarrows DEF Reopen

-----------------------------------------------------------------------------
(* The history the callers see *)

\* The handler ended in service r: what began in it had not started before.
Proceeds(r) ==
    /\ r.queue \subseteq svc.queue /\ svc.known \subseteq r.known
    /\ r.owner = NoTask \/ r.runningRecovery
         \/ (r.owner = svc.owner /\ r.runningRecovery = svc.runningRecovery)
    /\ r.hasCurrent =>
         \/ svc.hasCurrent /\ r.current = svc.current
         \/ r.current.start = now /\ ~Started(r.current.task)

LEMMA SlimsProceeds ==
    ASSUME NEW r, Slims(svc, r), TypeOK, LifeSound
    PROVE  Proceeds(r)
<1>1. \A i \in svc.queue : i.task \in Task
    BY DEF TypeOK, Service, WorkItem
<1> QED BY <1>1 DEF Slims, Proceeds, LifeSound, Queued

\* The heart of mutual exclusion: a run begins only in a slot without a run,
\* or whose run ended in the same handler.
LEMMA BecomeKeepsLife ==
    ASSUME TypeOK, LifeSound, OneAtATime,
           NEW r \in Service, ServiceInv(r, now), ServiceInv(svc, now),
           NEW over, Proceeds(r), Become(r, over), Ends(svc, r, over), now' = now
    PROVE  life' \in [Task -> Life] /\ LifeSound' /\ OneAtATime'
<1>1. svc' = r /\ now \in Nat /\ life \in [Task -> Life] /\ svc \in Service
    BY DEF Become, TypeOK, Time
<1>2. \A t \in Task : /\ life[t].enter \in Time \cup {NoTime}
                      /\ life[t].start \in Time \cup {NoTime}
                      /\ life[t].end \in Time \cup {NoTime}
    BY <1>1 DEF Life
<1>3. NoTime \notin Nat
    BY DEF NoTime
<1>4. \A t \in Task : Runs(r, t) /\ ~Runs(svc, t) => ~Started(t) /\ r.current.start = now
    BY DEF Proceeds, Runs
<1>5. \A t \in Task : Runs(r, t) /\ Runs(svc, t) => r.current.start = svc.current.start
    <2>1. \A t \in Task : Runs(svc, t) => Started(t)
        BY DEF LifeSound
    <2> QED BY <2>1 DEF Proceeds, Runs
<1> DEFINE begun(t) == IF Runs(r, t) /\ ~Runs(svc, t) THEN now ELSE life[t].start
           gone(t) == IF Runs(svc, t) /\ ~Runs(r, t) THEN now ELSE life[t].end
<1>6. \A t \in Task : life'[t] = [enter |-> life[t].enter, start |-> begun(t), end |-> gone(t)]
    <2> TAKE t \in Task
    <2>1. life'[t] = [life[t] EXCEPT !.start = begun(t), !.end = gone(t)]
        <3>1. life'[t] = [life[t] EXCEPT !.start = begun(t),
                                        !.end = IF t \in over THEN now ELSE life[t].end]
            BY DEF Become
        <3>2. (IF t \in over THEN now ELSE life[t].end) = gone(t)
            BY DEF Ends
        <3> HIDE DEF begun, gone
        <3> QED BY <3>1, <3>2
    <2>2. life[t] \in Life
        BY <1>1
    <2> QED BY <2>1, <2>2 DEF Life
<1>7. \A t \in Task : begun(t) \in Time \cup {NoTime} /\ gone(t) \in Time \cup {NoTime}
    BY <1>1, <1>2 DEF Time
<1>8. \A t \in Task :
        /\ life'[t].enter = life[t].enter
        /\ Runs(r, t) /\ ~Runs(svc, t) => life'[t].start = now
        /\ ~(Runs(r, t) /\ ~Runs(svc, t)) => life'[t].start = life[t].start
        /\ Runs(svc, t) /\ ~Runs(r, t) => life'[t].end = now
        /\ ~(Runs(svc, t) /\ ~Runs(r, t)) => life'[t].end = life[t].end
    <2> TAKE t \in Task
    <2>1. life'[t] = [enter |-> life[t].enter, start |-> begun(t), end |-> gone(t)]
        BY <1>6
    <2>2. life'[t].start = begun(t) /\ life'[t].end = gone(t) /\ life'[t].enter = life[t].enter
        <3> HIDE DEF begun, gone
        <3> QED BY <2>1
    <2> QED BY <2>2
<1> HIDE DEF begun, gone
<1>9. life' \in [Task -> Life]
    <2>1. ASSUME NEW t \in Task PROVE life'[t] \in Life
        <3>1. life'[t] = [enter |-> life[t].enter, start |-> begun(t), end |-> gone(t)]
            BY <1>6
        <3> QED BY <1>2, <1>7, <3>1 DEF Life
    <2>2. DOMAIN life' = Task /\ life' = [t \in DOMAIN life' |-> life'[t]]
        BY DEF Become
    <2> QED BY <2>1, <2>2
<1>10. \A t \in Task : Runs(r, t) => t \in r.known /\ ~(\E i \in r.queue : i.task = t)
    BY DEF ServiceInv, ServiceCore, CurrentSane, Runs
<1>11. LifeSound'
    <2> SUFFICES ASSUME NEW t \in Task
                 PROVE  /\ Started(t)' /\ ~Ended(t)' <=> Runs(r, t)
                        /\ Runs(r, t) => life'[t].start = r.current.start
                        /\ Ended(t)' => /\ Started(t)' /\ life'[t].start <= life'[t].end
                                        /\ life'[t].end <= now
                        /\ Started(t)' => /\ t \in r.known /\ ~(\E i \in r.queue : i.task = t)
                                          /\ life'[t].start <= now
                        /\ r.owner = t /\ ~r.runningRecovery => ~Started(t)'
        BY <1>1 DEF LifeSound, Started, Ended, Queued, Runs
    <2>1. /\ Started(t) /\ ~Ended(t) <=> Runs(svc, t)
          /\ Runs(svc, t) => life[t].start = svc.current.start
          /\ Ended(t) => Started(t) /\ life[t].start <= life[t].end /\ life[t].end <= now
          /\ Started(t) => /\ t \in svc.known /\ ~(\E i \in svc.queue : i.task = t)
                          /\ life[t].start <= now
          /\ svc.owner = t /\ ~svc.runningRecovery => ~Started(t)
        BY DEF LifeSound, Queued
    <2>2. CASE Runs(r, t) /\ ~Runs(svc, t)
        <3>1. ~Started(t) /\ ~Ended(t) /\ r.current.start = now
            BY <1>4, <2>1, <2>2
        <3>2. life'[t].start = now /\ life'[t].end = life[t].end
            BY <1>8, <2>2
        <3>3. r.owner = t => r.runningRecovery
            BY <2>2, TaskAssumption
            DEF ServiceInv, ServiceCore, SlotOwned, Runs, NoTask
        <3> QED
            BY <1>1, <1>3, <1>10, <2>2, <3>1, <3>2, <3>3 DEF Started, Ended
    <2>3. CASE Runs(svc, t) /\ ~Runs(r, t)
        <3>1. life'[t].start = life[t].start /\ life'[t].end = now
            BY <1>8, <2>3
        <3>2. Started(t) /\ life[t].start <= now /\ t \in svc.known
              /\ ~(\E i \in svc.queue : i.task = t)
            BY <2>1, <2>3
        <3>3. t \in r.known /\ ~(\E i \in r.queue : i.task = t)
            BY <3>2 DEF Proceeds
        <3>4. ~(r.owner = t /\ ~r.runningRecovery)
            BY <2>1, <3>2, TaskAssumption DEF Proceeds, NoTask
        <3> QED
            BY <1>1, <1>3, <2>3, <3>1, <3>2, <3>3, <3>4 DEF Started, Ended
    <2>4. CASE Runs(svc, t) <=> Runs(r, t)
        <3>1. life'[t].start = life[t].start /\ life'[t].end = life[t].end
            BY <1>8, <2>4
        <3>2. Started(t) => t \in r.known /\ ~(\E i \in r.queue : i.task = t)
            BY <2>1 DEF Proceeds
        <3>3. r.owner = t /\ ~r.runningRecovery => ~Started(t)
            BY <2>1, TaskAssumption DEF Proceeds, NoTask
        <3> QED
            BY <1>5, <2>1, <2>4, <3>1, <3>2, <3>3 DEF Started, Ended
    <2> QED BY <2>2, <2>3, <2>4
<1>12. OneAtATime'
    <2> SUFFICES ASSUME NEW a \in Task, NEW b \in Task, a # b, Started(a)', Started(b)'
                 PROVE  \/ Ended(a)' /\ life'[a].end <= life'[b].start
                        \/ Ended(b)' /\ life'[b].end <= life'[a].start
        BY DEF OneAtATime, Started, Ended
    <2>1. ASSUME NEW x \in Task, NEW y \in Task, x # y, Started(x)', Started(y)',
                 Runs(r, x), ~Runs(svc, x)
          PROVE  Ended(y)' /\ life'[y].end <= life'[x].start
        <3>1. ~Runs(r, y)
            BY <2>1 DEF Runs
        <3>2. Ended(y)' /\ life'[y].end <= now
            BY <1>1, <1>11, <2>1, <3>1 DEF LifeSound, Started, Ended, Runs
        <3> QED BY <1>8, <2>1, <3>2
    <2>2. CASE Runs(r, a) /\ ~Runs(svc, a)
        BY <2>1, <2>2
    <2>3. CASE Runs(r, b) /\ ~Runs(svc, b)
        BY <2>1, <2>3
    <2>4. CASE ~(Runs(r, a) /\ ~Runs(svc, a)) /\ ~(Runs(r, b) /\ ~Runs(svc, b))
        <3>1. life'[a].start = life[a].start /\ life'[b].start = life[b].start
            BY <1>8, <2>4
        <3>2. \A x \in {a, b} : Ended(x) => life'[x].end = life[x].end
            BY <1>8 DEF LifeSound
        <3>3. \/ Ended(a) /\ life[a].end <= life[b].start
              \/ Ended(b) /\ life[b].end <= life[a].start
            BY <3>1 DEF OneAtATime, Started
        <3> QED BY <3>1, <3>2, <3>3 DEF Ended
    <2> QED BY <2>2, <2>3, <2>4
<1> QED BY <1>9, <1>11, <1>12

\* A handler that leaves the run and the history alone.
LEMMA QuietKeepsLife ==
    ASSUME TypeOK, LifeSound, OneAtATime,
           NEW r \in Service, svc' = r, now' = now, life' = life,
           r.queue \subseteq svc.queue, svc.known \subseteq r.known,
           r.hasCurrent = svc.hasCurrent, r.current = svc.current,
           r.owner = NoTask \/ (r.owner = svc.owner /\ r.runningRecovery = svc.runningRecovery)
    PROVE  LifeSound' /\ OneAtATime'
<1>1. LifeSound'
    BY TaskAssumption DEF LifeSound, Started, Ended, Queued, Runs, NoTask
<1>2. OneAtATime'
    BY DEF OneAtATime, Started, Ended
<1> QED BY <1>1, <1>2

-----------------------------------------------------------------------------
(* Every action preserves the inductive invariant *)

\* The variables other than the service and the history keep their types.
FlagsOK == /\ late' \in BOOLEAN /\ batched' \in BOOLEAN
           /\ finished' \subseteq Task /\ caught' \subseteq Task

LEMMA BecomeKeeps ==
    ASSUME IInv, NEW r \in Service, ServiceInv(r, now), Narrows(svc, r),
           NEW over, Become(r, over), Ends(svc, r, over), now' = now, FlagsOK
    PROVE  IInv'
<1>1. svc' = r
    BY DEF Become
<1>2. Slims(svc, r) /\ Proceeds(r)
    BY SlimsProceeds DEF IInv, Narrows
<1>3. life' \in [Task -> Life] /\ LifeSound' /\ OneAtATime'
    BY <1>2, BecomeKeepsLife DEF IInv
<1>4. Placement'
    BY <1>1 DEF IInv, Placement, Narrows, Slims
<1>5. TypeOK'
    BY <1>1, <1>3 DEF IInv, TypeOK, FlagsOK
<1> QED BY <1>1, <1>3, <1>4, <1>5 DEF IInv

LEMMA QuietKeeps ==
    ASSUME IInv, NEW r \in Service, ServiceInv(r, now), Narrows(svc, r),
           r.hasCurrent = svc.hasCurrent, r.current = svc.current,
           svc' = r, life' = life, now' = now, FlagsOK
    PROVE  IInv'
<1>1. LifeSound' /\ OneAtATime'
    BY QuietKeepsLife DEF IInv, Narrows, Slims
<1>2. Placement'
    BY DEF IInv, Placement, Narrows, Slims
<1>3. TypeOK'
    BY DEF IInv, TypeOK, FlagsOK
<1> QED BY <1>1, <1>2, <1>3 DEF IInv

LEMMA CurrentIsTask ==
    ASSUME NEW s \in Service, s.hasCurrent, ServiceInv(s, now)
    PROVE  s.current.task \in Task /\ s.current.start \in Nat /\ s.current.service \in Nat
<1>1. s.current \in Run /\ s.current # NoRun
    BY DEF ServiceInv, ServiceCore, CurrentSane, Service
<1> QED BY <1>1 DEF Run, Time

\* A completion that is due is legal: the aborts are unreachable.
LEMMA PendingIsLegal ==
    ASSUME IInv, CompletionPending
    PROVE  CompletionLegal(svc, now)
BY DEF IInv, ServiceInv, ServiceCore, CompletionTimely, CompletionAllowed,
       CompletionPending, CompletionLegal

LEMMA FinishKeeps ==
    ASSUME IInv, CompletionLegal(svc, now), Finish(CompleteCurrentTask(svc, now, Rate, FALSE)),
           UNCHANGED <<now, late, batched>>
    PROVE  IInv'
<1> DEFINE r == CompleteCurrentTask(svc, now, Rate, FALSE)
<1>1. svc \in Service /\ now \in Time /\ ServiceInv(svc, now) /\ ServiceCore(svc, now)
    BY DEF IInv, TypeOK, ServiceInv
<1>2. Rate \in Nat \ {0}
    BY WorkAssumption
<1>3. /\ r \in Service /\ ServiceInv(r, now) /\ Narrows(svc, r)
      /\ Ends(svc, r, {svc.current.task})
    BY <1>1, <1>2, CompleteCurrentTaskKeeps, CompleteCurrentTaskNarrows
<1>4. svc.current.task \in Task
    BY <1>1, CurrentIsTask DEF CompletionLegal, CompletionDue
<1>5. FlagsOK
    BY <1>4 DEF Finish, FlagsOK, IInv, TypeOK
<1>6. Become(r, {svc.current.task})
    BY DEF Finish
<1> HIDE DEF r
<1> QED BY <1>3, <1>5, <1>6, BecomeKeeps

LEMMA InitSound == Init => IInv
<1> SUFFICES ASSUME Init PROVE IInv
    OBVIOUS
<1>1. svc \in Service /\ ServiceInv(svc, now) /\ now \in Time
    BY NewServiceSound DEF Init, Time
<1>2. life \in [Task -> Life]
    BY DEF Init, Life
<1>3. TypeOK
    BY <1>1, <1>2 DEF Init, TypeOK
<1>4. /\ svc.owner = NoTask /\ svc.queue = {} /\ ~svc.hasCurrent
      /\ \A t \in Task : life[t].start = NoTime /\ life[t].end = NoTime
    BY DEF Init, NewService
<1>5. Placement
    BY <1>4 DEF Placement
<1>6. LifeSound /\ OneAtATime
    BY <1>4 DEF LifeSound, OneAtATime, Started, Ended, Runs
<1> QED BY <1>1, <1>3, <1>5, <1>6 DEF IInv

LEMMA EventsKeep ==
    IInv /\ (Start \/ Stop \/ Dispatch \/ Complete \/ Catchup \/ Tick) => IInv'
<1> SUFFICES ASSUME IInv, Start \/ Stop \/ Dispatch \/ Complete \/ Catchup \/ Tick
             PROVE  IInv'
    OBVIOUS
<1>1. svc \in Service /\ now \in Time /\ ServiceInv(svc, now) /\ ServiceCore(svc, now)
    BY DEF IInv, TypeOK, ServiceInv
<1>2. Rate \in Nat \ {0} /\ StopTime \in Nat \ {0}
    BY WorkAssumption
<1>3. CASE Start
    <2> DEFINE r == StartApplication(svc)
    <2>1. ~svc.hasCurrent
        BY <1>2, <1>3 DEF Start, IInv, Placement
    <2>2. r \in Service /\ ServiceInv(r, now) /\ r.running /\ r.queue = svc.queue
        BY <1>1, <2>1, StartApplicationKeeps
    <2>3. Slims(svc, r) /\ Ends(svc, r, {})
        BY <1>1, StartApplicationSlims
    <2> HIDE DEF r
    <2>4. Become(r, {}) /\ svc' = r /\ now' = now /\ FlagsOK
        BY <1>3 DEF Start, r, Become, FlagsOK, IInv, TypeOK
    <2>5. life' \in [Task -> Life] /\ LifeSound' /\ OneAtATime'
        BY <1>1, <2>2, <2>3, <2>4, SlimsProceeds, BecomeKeepsLife DEF IInv
    <2>6. Placement'
        BY <2>2, <2>3, <2>4 DEF IInv, Placement, Slims
    <2>7. TypeOK'
        BY <2>2, <2>4, <2>5 DEF IInv, TypeOK, FlagsOK
    <2> QED BY <2>2, <2>4, <2>5, <2>6, <2>7 DEF IInv
<1>4. CASE Stop
    <2> DEFINE r == StopApplication(svc, now)
    <2>1. r \in Service /\ ServiceInv(r, now) /\ r.queue = svc.queue
        BY <1>1, StopApplicationKeeps
    <2>2. Slims(svc, r) /\ Ends(svc, r, {})
        BY <1>1, StopApplicationSlims
    <2> HIDE DEF r
    <2>3. Become(r, {}) /\ svc' = r /\ now' = now /\ now = StopTime /\ FlagsOK
        BY <1>4 DEF Stop, r, Become, FlagsOK, IInv, TypeOK
    <2>4. life' \in [Task -> Life] /\ LifeSound' /\ OneAtATime'
        BY <1>1, <2>1, <2>2, <2>3, SlimsProceeds, BecomeKeepsLife DEF IInv
    <2>5. Placement'
        BY <2>1, <2>2, <2>3 DEF IInv, Placement, Slims
    <2>6. TypeOK'
        BY <2>1, <2>3, <2>4 DEF IInv, TypeOK, FlagsOK
    <2> QED BY <2>1, <2>3, <2>4, <2>5, <2>6 DEF IInv
<1>5. CASE Dispatch
    <2> DEFINE r == FireDispatch(svc, now, Rate)
    <2>1. r \in Service /\ ServiceInv(r, now) /\ Narrows(svc, r) /\ Ends(svc, r, {})
        BY <1>1, <1>2, FireDispatchKeeps, FireDispatchNarrows
    <2> HIDE DEF r
    <2>2. Become(r, {}) /\ now' = now /\ FlagsOK
        BY <1>5 DEF Dispatch, r, FlagsOK, IInv, TypeOK
    <2> QED BY <2>1, <2>2, BecomeKeeps
<1>6. CASE Complete
    BY <1>6, PendingIsLegal, FinishKeeps DEF Complete
<1>7. CASE Catchup
    <2> DEFINE r == [svc EXCEPT !.catchup = NoTime]
    <2>1. r \in Service /\ ServiceInv(r, now) /\ SameSlot(r, svc)
        BY <1>1, CatchupKeeps
    <2> HIDE DEF r
    <2>2. svc' = r /\ life' = life /\ now' = now
        BY <1>7 DEF Catchup, r
    <2>3. svc.owner \in Task \cup {NoTask}
        BY <1>1 DEF Service
    <2>4. FlagsOK
        BY <1>7, <2>3 DEF Catchup, FlagsOK, IInv, TypeOK
    <2> QED BY <2>1, <2>2, <2>4, QuietKeeps, SameSlotNarrows DEF SameSlot
<1>8. CASE Tick
    <2>1. svc' = svc /\ life' = life /\ now' = now + 1 /\ now' \in Time /\ now < now'
        BY <1>1, <1>8 DEF Tick, Time
    <2>2. svc.completion => now' <= svc.current.start + svc.current.service
        <3>1. svc.completion => /\ now <= svc.current.start + svc.current.service
                                /\ now - svc.current.start # svc.current.service
                                /\ svc.hasCurrent
            BY <1>1, <1>8 DEF Tick, CompletionPending, CompletionDue, ServiceCore, CompletionTimely
        <3>2. svc.completion => svc.current.start \in Nat /\ svc.current.service \in Nat
            BY <1>1, <3>1, CurrentIsTask
        <3> QED BY <1>1, <2>1, <3>1, <3>2 DEF Time
    <2>3. ServiceInv(svc, now')
        BY <1>1, <2>1, <2>2, ClockKeeps DEF Time
    <2>4. LifeSound'
        <3>1. \A t \in Task : /\ life[t].end \in Nat \cup {NoTime}
                              /\ life[t].start \in Nat \cup {NoTime}
            BY DEF IInv, TypeOK, Life, Time
        <3> QED
            BY <1>1, <2>1, <3>1
            DEF IInv, LifeSound, Started, Ended, Queued, Runs, Time, NoTime
    <2>5. OneAtATime' /\ Placement'
        BY <1>8, <2>1 DEF IInv, OneAtATime, Started, Ended, Placement, Tick
    <2>6. TypeOK'
        BY <1>8, <2>1 DEF IInv, TypeOK, Tick
    <2> QED BY <2>1, <2>3, <2>4, <2>5, <2>6 DEF IInv
<1> QED BY <1>3, <1>4, <1>5, <1>6, <1>7, <1>8

\* A task enters the queue or reserves the slot: it has not run before.
LEMMA EntersKeepsLife ==
    ASSUME IInv, NEW r \in Service, NEW t \in Task, t \notin svc.known,
           Enters(r, t), now' = now,
           \A i \in r.queue : i \in svc.queue \/ i.task = t,
           svc.known \subseteq r.known,
           r.hasCurrent = svc.hasCurrent, r.current = svc.current,
           r.owner \in {svc.owner, t}, r.runningRecovery = svc.runningRecovery
    PROVE  life' \in [Task -> Life] /\ LifeSound' /\ OneAtATime'
<1>1. svc' = r /\ life \in [Task -> Life] /\ now \in Time
    BY DEF Enters, IInv, TypeOK
<1>2. life' \in [Task -> Life]
    <2>1. [life[t] EXCEPT !.enter = now] \in Life
        BY <1>1 DEF Life
    <2>2. life' = [life EXCEPT ![t] = [life[t] EXCEPT !.enter = now]]
        BY DEF Enters
    <2> QED BY <1>1, <2>1, <2>2
<1>3. \A x \in Task : life'[x].start = life[x].start /\ life'[x].end = life[x].end
    BY <1>1 DEF Enters, Life
<1>4. ~Started(t)
    BY DEF IInv, LifeSound
<1>5. LifeSound'
    <2> SUFFICES ASSUME NEW x \in Task
                 PROVE  /\ Started(x) /\ ~Ended(x) <=> Runs(r, x)
                        /\ Runs(r, x) => life[x].start = r.current.start
                        /\ Ended(x) => Started(x) /\ life[x].start <= life[x].end
                                       /\ life[x].end <= now
                        /\ Started(x) => x \in r.known /\ ~(\E i \in r.queue : i.task = x)
                                         /\ life[x].start <= now
                        /\ r.owner = x /\ ~r.runningRecovery => ~Started(x)
        BY <1>1, <1>3 DEF LifeSound, Started, Ended, Queued, Runs
    <2>1. /\ Started(x) /\ ~Ended(x) <=> Runs(svc, x)
          /\ Runs(svc, x) => life[x].start = svc.current.start
          /\ Ended(x) => Started(x) /\ life[x].start <= life[x].end /\ life[x].end <= now
          /\ Started(x) => x \in svc.known /\ ~(\E i \in svc.queue : i.task = x)
                           /\ life[x].start <= now
          /\ svc.owner = x /\ ~svc.runningRecovery => ~Started(x)
        BY DEF IInv, LifeSound, Queued
    <2>2. Runs(r, x) <=> Runs(svc, x)
        BY DEF Runs
    <2>3. Started(x) => x # t /\ x \in r.known /\ ~(\E i \in r.queue : i.task = x)
        BY <1>4, <2>1
    <2> QED BY <1>4, <2>1, <2>2, <2>3
<1>6. OneAtATime'
    BY <1>3 DEF IInv, OneAtATime, Started, Ended
<1> QED BY <1>2, <1>5, <1>6

LEMMA CoordinatorKeeps == IInv /\ Coordinator => IInv'
<1> SUFFICES ASSUME IInv, Coordinator PROVE IInv'
    OBVIOUS
<1>1. svc \in Service /\ now \in Time /\ ServiceInv(svc, now) /\ ServiceCore(svc, now)
    BY DEF IInv, TypeOK, ServiceInv
<1>2. Rate \in Nat \ {0} /\ HomeTask \subseteq Task /\ WorkOf \in [Task -> Work]
    BY WorkAssumption, PartitionAssumption
\* The task of an ordinary run does not hold a reservation.
<1>3. ASSUME NEW t \in HomeTask, Runs(svc, t) PROVE ~svc.runningRecovery
    BY <1>1, <1>3, PartitionAssumption, TaskAssumption
    DEF IInv, Placement, ServiceCore, SlotOwned, Runs, NoTask
<1>4. ASSUME NEW t \in HomeTask, Submit(t) PROVE IInv'
    <2> DEFINE item == [task |-> t, work |-> WorkOf[t], enter |-> now]
               m == [svc EXCEPT !.known = svc.known \cup {t}, !.queue = svc.queue \cup {item},
                                !.enqueued = svc.enqueued + 1]
               r == SubmitTask(svc, t, WorkOf[t], now)
    <2>1. r \in Service /\ ServiceInv(r, now)
        BY <1>1, <1>2, <1>4, SubmitTaskKeeps DEF Submit
    <2>2. r = RequestDispatch(m) /\ item.task = t
        BY DEF SubmitTask
    <2> HIDE DEF r, item
    <2>3. /\ m.queue = svc.queue \cup {item} /\ m.known = svc.known \cup {t}
          /\ m.owner = svc.owner /\ m.runningRecovery = svc.runningRecovery
          /\ m.hasCurrent = svc.hasCurrent /\ m.current = svc.current
          /\ m.running = svc.running
        BY <1>1 DEF Service
    <2>4. SameSlot(RequestDispatch(m), m)
        BY <1>1 DEF RequestDispatch, SameSlot, Service
    <2> HIDE DEF m
    <2>5. /\ r.queue = svc.queue \cup {item} /\ r.known = svc.known \cup {t}
          /\ r.owner = svc.owner /\ r.runningRecovery = svc.runningRecovery
          /\ r.hasCurrent = svc.hasCurrent /\ r.current = svc.current
          /\ r.running = svc.running
        BY <2>2, <2>3, <2>4 DEF SameSlot
    <2>6. Enters(r, t) /\ svc' = r /\ now' = now /\ FlagsOK /\ t \notin svc.known
        BY <1>4 DEF Submit, Enters, r, FlagsOK, IInv, TypeOK
    <2>7. life' \in [Task -> Life] /\ LifeSound' /\ OneAtATime'
        BY <1>2, <2>1, <2>2, <2>5, <2>6, EntersKeepsLife
    <2>8. Placement'
        BY <2>2, <2>5, <2>6 DEF IInv, Placement
    <2>9. TypeOK'
        BY <2>1, <2>6, <2>7 DEF IInv, TypeOK, FlagsOK
    <2> QED BY <2>1, <2>6, <2>7, <2>8, <2>9 DEF IInv
<1>5. ASSUME NEW t \in HomeTask, RemoveQueued(t) PROVE IInv'
    <2> DEFINE r == RemoveQueuedTaskForFailure(svc, t)
               rest == {i \in svc.queue : i.task # t}
    <2>1. r \in Service /\ ServiceInv(r, now)
        BY <1>1, <1>2, RemoveQueuedKeeps
    <2>2. Narrows(svc, r)
        BY <1>1, RemoveQueuedNarrows
    <2>3. r = [svc EXCEPT !.queue = rest, !.removed = svc.removed + 1]
        BY <1>5 DEF RemoveQueued, RemoveQueuedTaskForFailure
    <2> HIDE DEF r
    <2>4. r.hasCurrent = svc.hasCurrent /\ r.current = svc.current
        BY <1>1, <2>3 DEF Service
    <2>5. svc' = r /\ life' = life /\ now' = now /\ FlagsOK
        BY <1>5 DEF RemoveQueued, r, FlagsOK, IInv, TypeOK
    <2> QED BY <2>1, <2>2, <2>4, <2>5, QuietKeeps
<1>6. ASSUME NEW t \in HomeTask, Runs(svc, t),
             Become(CancelRunningTaskForFailure(svc, t, now), {t}), now' = now, FlagsOK
      PROVE  IInv'
    <2> DEFINE r == CancelRunningTaskForFailure(svc, t, now)
    <2>1. r \in Service /\ ServiceInv(r, now) /\ Narrows(svc, r)
        BY <1>1, <1>2, <1>3, <1>6, CancelRunningKeeps, CancelRunningNarrows
        DEF ServiceInv, Runs
    <2>2. Ends(svc, r, {t})
        BY <1>1, <1>6, CancelRunningNarrows DEF Ends, Runs
    <2> HIDE DEF r
    <2> QED BY <1>6, <2>1, <2>2, BecomeKeeps DEF r
<1>7. ASSUME NEW t \in HomeTask, CancelRunning(t) PROVE IInv'
    BY <1>6, <1>7 DEF CancelRunning, FlagsOK, IInv, TypeOK
<1>8. ASSUME NEW t \in HomeTask, Deadline(t) PROVE IInv'
    <2>1. CASE CanCompleteIfDue(svc, t, now) /\ Finish(CompleteCurrentTask(svc, now, Rate, FALSE))
        BY <1>8, <2>1, FinishKeeps DEF Deadline, CanCompleteIfDue
    <2>2. CASE /\ Become(CancelRunningTaskForFailure(svc, t, now), {t})
               /\ UNCHANGED <<finished, caught>>
        BY <1>6, <1>8, <2>2 DEF Deadline, FlagsOK, IInv, TypeOK
    <2> QED BY <1>8, <2>1, <2>2 DEF Deadline
<1>9. CASE BatchRecovers
    <2> DEFINE r == Reopen(svc)
    <2>1. r \in Service /\ ServiceInv(r, now) /\ Narrows(svc, r) /\ Ends(svc, r, {})
        BY <1>1, ReopenKeeps, OpenKeeps DEF Reopen, SameSlot, Ends, Runs
    <2> HIDE DEF r
    <2>2. Become(r, {}) /\ now' = now /\ FlagsOK
        BY <1>9 DEF BatchRecovers, r, FlagsOK, IInv, TypeOK
    <2> QED BY <2>1, <2>2, BecomeKeeps
<1>10. CASE BatchStarts
    <2> DEFINE open == Reopen(svc)
    <2>1. open \in Service /\ ServiceInv(open, now) /\ Narrows(svc, open)
        BY <1>1, ReopenKeeps
    <2>2. CASE /\ CompletionLegal(open, now)
               /\ Finish(Close(CompleteCurrentTask(open, now, Rate, TRUE)))
        <3> DEFINE done == CompleteCurrentTask(open, now, Rate, TRUE)
                   r == Close(done)
        <3>1. ServiceCore(open, now)
            BY <2>1 DEF ServiceInv
        <3>2. /\ done \in Service /\ ServiceInv(done, now) /\ Narrows(open, done)
              /\ ~done.hasCurrent
            <4> HIDE DEF open
            <4> QED
                BY <1>1, <1>2, <2>1, <2>2, <3>1, CompleteCurrentTaskKeeps, CompleteCurrentTaskNarrows
        <3>3. r \in Service /\ ServiceInv(r, now) /\ Narrows(svc, r) /\ ~r.hasCurrent
            <4> HIDE DEF done, open
            <4> QED BY <1>1, <2>1, <3>2, CloseBatchKeeps, NarrowsTransitive
        <3>4. svc.current.task \in Task
            <4>1. open.hasCurrent = svc.hasCurrent /\ open.current = svc.current
                BY <1>1, OpenKeeps DEF Reopen, SameSlot
            <4> QED BY <1>1, <2>2, <4>1, CurrentIsTask DEF CompletionLegal, CompletionDue
        <3>5. Become(r, {svc.current.task}) /\ now' = now /\ FlagsOK
            BY <1>10, <2>2, <3>4 DEF Finish, BatchStarts, FlagsOK, IInv, TypeOK
        <3> HIDE DEF r
        <3>6. Ends(svc, r, {svc.current.task})
            <4>1. svc.hasCurrent
                BY <1>1, <2>2, OpenKeeps
                DEF Reopen, SameSlot, CompletionLegal, CompletionDue
            <4> QED BY <3>3, <4>1 DEF Ends, Runs
        <3> QED BY <3>3, <3>5, <3>6, BecomeKeeps
    <2>3. CASE Become(Close(open), Victim) /\ UNCHANGED <<finished, caught>>
        <3> DEFINE r == Close(open)
        <3>1. r \in Service /\ ServiceInv(r, now) /\ Narrows(svc, r)
            <4> HIDE DEF open
            <4> QED BY <1>1, <2>1, CloseBatchKeeps, NarrowsTransitive
        <3>2. Become(r, Victim) /\ now' = now /\ FlagsOK
            BY <1>10, <2>3 DEF BatchStarts, FlagsOK, IInv, TypeOK
        <3>3. Ends(svc, r, Victim)
            <4>1. /\ open.hasCurrent = svc.hasCurrent /\ open.current = svc.current
                  /\ ImmuneRun(open) = ImmuneRun(svc)
                BY <1>1
                DEF Reopen, SetComputeAvailable, RequestDispatch, ImmuneRun, Service
            <4>2. IF svc.hasCurrent /\ ~ImmuneRun(svc) THEN ~r.hasCurrent
                  ELSE r.hasCurrent = svc.hasCurrent /\ r.current = svc.current
                <5> HIDE DEF open
                <5> QED BY <1>1, <2>1, <4>1, CloseBatchKeeps
            <4> HIDE DEF r, open
            <4> QED BY <4>2 DEF Ends, Runs, Victim, RunningTask
        <3> HIDE DEF r
        <3> QED BY <3>1, <3>2, <3>3, BecomeKeeps
    <2> QED BY <1>10, <2>2, <2>3 DEF BatchStarts
<1> QED BY <1>4, <1>5, <1>7, <1>8, <1>9, <1>10 DEF Coordinator

LEMMA ProtectionKeeps == IInv /\ Protection => IInv'
<1> SUFFICES ASSUME IInv, Protection PROVE IInv'
    OBVIOUS
<1>1. svc \in Service /\ now \in Time /\ ServiceInv(svc, now) /\ ServiceCore(svc, now)
    BY DEF IInv, TypeOK, ServiceInv
<1>2. /\ Rate \in Nat \ {0} /\ GuestTask \subseteq Task /\ WorkOf \in [Task -> Work]
      /\ RecoveryTask \subseteq GuestTask /\ ReplicaTask \subseteq GuestTask
      /\ CatchupOf \in [RecoveryTask -> Nat]
    BY WorkAssumption, PartitionAssumption DEF GuestTask
<1>3. ASSUME NEW t \in GuestTask, Reserve(t) PROVE IInv'
    <2> DEFINE r == ReserveRecovery(svc, t)
    <2>1. r \in Service /\ ServiceInv(r, now)
        BY <1>1, <1>2, ReserveKeeps
    <2>2. r = [svc EXCEPT !.owner = t, !.immune = FALSE, !.dispatch = FALSE]
        BY <1>3 DEF Reserve, ReserveRecovery
    <2> HIDE DEF r
    <2>3. /\ r.queue = svc.queue /\ r.known = svc.known /\ r.owner = t
          /\ r.runningRecovery = svc.runningRecovery
          /\ r.hasCurrent = svc.hasCurrent /\ r.current = svc.current
          /\ r.running = svc.running
        BY <1>1, <2>2 DEF Service
    <2>4. Enters(r, t) /\ svc' = r /\ now' = now /\ FlagsOK /\ t \notin svc.known
        BY <1>3 DEF Reserve, CanReserve, Enters, r, FlagsOK, IInv, TypeOK
    <2>5. life' \in [Task -> Life] /\ LifeSound' /\ OneAtATime'
        BY <1>2, <2>1, <2>3, <2>4, EntersKeepsLife
    <2>6. Placement'
        BY <2>3, <2>4 DEF IInv, Placement
    <2>7. TypeOK'
        BY <2>1, <2>4, <2>5 DEF IInv, TypeOK, FlagsOK
    <2> QED BY <2>1, <2>4, <2>5, <2>6, <2>7 DEF IInv
<1>4. ASSUME NEW t \in GuestTask, Release(t) PROVE IInv'
    <2> DEFINE r == ReleaseRecovery(svc, t)
               m == [svc EXCEPT !.owner = NoTask]
    <2>1. r \in Service /\ ServiceInv(r, now)
        BY <1>1, <1>2, ReleaseKeeps
    <2>2. Narrows(svc, r)
        BY <1>1, ReleaseNarrows
    <2>3. r.hasCurrent = svc.hasCurrent /\ r.current = svc.current
        <3>1. r = RequestDispatch(m)
            BY <1>4 DEF Release, ReleaseRecovery
        <3>2. /\ RequestDispatch(m).hasCurrent = m.hasCurrent
              /\ RequestDispatch(m).current = m.current
            BY <1>1 DEF RequestDispatch, Service
        <3>3. m.hasCurrent = svc.hasCurrent /\ m.current = svc.current
            BY <1>1 DEF Service
        <3> QED BY <3>1, <3>2, <3>3
    <2> HIDE DEF r
    <2>4. svc' = r /\ life' = life /\ now' = now /\ FlagsOK
        BY <1>4 DEF Release, r, FlagsOK, IInv, TypeOK
    <2> QED BY <2>1, <2>2, <2>3, <2>4, QuietKeeps
\* A reserved attempt takes the slot: its task has not run before.
<1>5. ASSUME NEW t \in GuestTask, NEW w \in Work, NEW cw \in Nat, NEW has \in BOOLEAN,
             NEW immune \in BOOLEAN, CanStartAttempt(svc, t, immune),
             Become(StartReservedAttempt(svc, t, w, cw, has, immune, now, Rate), {}),
             now' = now, FlagsOK
      PROVE  IInv'
    <2> DEFINE run == [task |-> t, start |-> now, service |-> ServiceTimeNs(w, Rate)]
               catchup == IF ~has THEN svc.catchup
                          ELSE IF cw = 0 THEN now
                          ELSE now + ServiceTimeNs(cw, Rate)
               r == StartReservedAttempt(svc, t, w, cw, has, immune, now, Rate)
    <2>1. \A i \in svc.queue : i.task # t
        BY PartitionAssumption DEF IInv, Placement
    <2>2. r \in Service /\ ServiceInv(r, now) /\ r.queue = svc.queue
        BY <1>1, <1>2, <2>1, StartReservedAttemptKeeps
    <2>3. r = [svc EXCEPT !.known = svc.known \cup {t}, !.enqueued = svc.enqueued + 1,
                          !.hasCurrent = TRUE, !.current = run,
                          !.runningRecovery = TRUE, !.immune = immune,
                          !.catchup = catchup, !.completion = TRUE]
        BY <1>5 DEF StartReservedAttempt
    <2>4. run.task = t /\ run.start = now
        OBVIOUS
    <2> HIDE DEF r, run, catchup
    <2>5. /\ r.known = svc.known \cup {t} /\ r.owner = svc.owner
          /\ r.runningRecovery /\ r.current = run /\ r.running = svc.running
        BY <1>1, <2>3 DEF Service
    <2>6. svc.owner = t /\ svc.running /\ ~svc.hasCurrent
        BY <1>5 DEF CanStartAttempt
    <2>7. Proceeds(r)
        <3>1. ~Started(t)
            BY <1>1, <1>2, <2>6 DEF IInv, LifeSound, ServiceCore, SlotOwned
        <3> QED BY <2>2, <2>4, <2>5, <3>1 DEF Proceeds
    <2>8. Become(r, {}) /\ svc' = r /\ Ends(svc, r, {})
        BY <1>5, <2>6 DEF Become, r, Ends, Runs
    <2>9. life' \in [Task -> Life] /\ LifeSound' /\ OneAtATime'
        BY <1>1, <1>5, <2>2, <2>7, <2>8, BecomeKeepsLife DEF IInv
    <2>10. Placement'
        BY <2>2, <2>5, <2>6, <2>8 DEF IInv, Placement
    <2>11. TypeOK'
        BY <1>5, <2>2, <2>8, <2>9 DEF IInv, TypeOK, FlagsOK
    <2> QED BY <1>5, <2>2, <2>8, <2>9, <2>10, <2>11 DEF IInv
<1>6. ASSUME NEW t \in RecoveryTask, Recover(t) PROVE IInv'
    <2>1. WorkOf[t] \in Work /\ CatchupOf[t] \in Nat /\ t \in GuestTask
        BY <1>2
    <2>2. now' = now /\ FlagsOK
        BY <1>6 DEF Recover, FlagsOK, IInv, TypeOK
    <2> QED BY <1>5, <1>6, <2>1, <2>2 DEF Recover, StartRecovery
<1>7. ASSUME NEW t \in ReplicaTask, Replicate(t) PROVE IInv'
    <2>1. WorkOf[t] \in Work /\ t \in GuestTask /\ svc.immune \in BOOLEAN
        BY <1>1, <1>2 DEF Service
    <2>2. now' = now /\ FlagsOK
        BY <1>7 DEF Replicate, FlagsOK, IInv, TypeOK
    <2> QED BY <1>5, <1>7, <2>1, <2>2 DEF Replicate, StartReplica
<1>8. ASSUME NEW t \in ReplicaTask, Promote(t) PROVE IInv'
    <2> DEFINE r == PromoteReplica(svc, t)
    <2>1. r \in Service /\ ServiceInv(r, now)
        BY <1>1, <1>2, PromoteKeeps
    <2>2. SameSlot(r, svc)
        BY <1>1 DEF PromoteReplica, SameSlot, Service
    <2> HIDE DEF r
    <2>3. svc' = r /\ life' = life /\ now' = now /\ FlagsOK
        BY <1>8 DEF Promote, r, FlagsOK, IInv, TypeOK
    <2> QED BY <2>1, <2>2, <2>3, QuietKeeps, SameSlotNarrows DEF SameSlot
<1>9. ASSUME NEW t \in GuestTask, CancelAttempt(t) PROVE IInv'
    <2> DEFINE r == CancelRecovery(svc, t, now)
    <2>1. r \in Service /\ ServiceInv(r, now)
        BY <1>1, <1>2, CancelRecoveryKeeps DEF ServiceInv
    <2>2. Narrows(svc, r)
        BY <1>1, CancelRecoveryNarrows DEF ServiceCore, SlotOwned
    <2>3. Ends(svc, r, {t} \cap RunningTask)
        <3>1. IF svc.owner = t /\ svc.runningRecovery THEN ~r.hasCurrent
              ELSE r.hasCurrent = svc.hasCurrent /\ r.current = svc.current
            BY <1>1, CancelRecoveryNarrows DEF ServiceCore, SlotOwned
        <3>2. svc.runningRecovery => svc.hasCurrent /\ svc.current.task = svc.owner
            BY <1>1 DEF ServiceCore, SlotOwned
        <3>3. svc.owner = t /\ t \in Task
            BY <1>2, <1>9 DEF CancelAttempt
        <3>4. svc.hasCurrent => svc.runningRecovery
            BY <1>1, <3>3, TaskAssumption DEF ServiceCore, SlotOwned, NoTask
        <3> HIDE DEF r
        <3> QED BY <3>1, <3>2, <3>3, <3>4 DEF Ends, Runs, RunningTask
    <2> HIDE DEF r
    <2>4. Become(r, {t} \cap RunningTask) /\ now' = now /\ FlagsOK
        BY <1>9 DEF CancelAttempt, r, FlagsOK, IInv, TypeOK
    <2> QED BY <2>1, <2>2, <2>3, <2>4, BecomeKeeps
<1> QED BY <1>3, <1>4, <1>6, <1>7, <1>8, <1>9 DEF Protection

LEMMA StutterKeeps == IInv /\ UNCHANGED vars => IInv'
<1> SUFFICES ASSUME IInv, UNCHANGED vars PROVE IInv'
    OBVIOUS
<1>1. /\ now' = now /\ late' = late /\ batched' = batched /\ svc' = svc
      /\ life' = life /\ finished' = finished /\ caught' = caught
    BY DEF vars
<1>2. TypeOK' /\ Placement' /\ LifeSound' /\ OneAtATime'
    BY <1>1 DEF IInv, TypeOK, Placement, LifeSound, OneAtATime, Started, Ended, Queued, Runs
<1> QED BY <1>1, <1>2 DEF IInv

-----------------------------------------------------------------------------

\* IInv is inductive: it holds initially and every action of every caller
\* preserves it.
THEOREM InductiveInvariant == Spec => []IInv
<1>1. IInv /\ [Next]_vars => IInv'
    BY EventsKeep, CoordinatorKeeps, ProtectionKeeps, StutterKeeps DEF Next
<1> QED BY InitSound, <1>1, PTL DEF Spec

\* The variables of the service keep their types.
THEOREM TypeCorrect == Spec => []TypeOK
<1>1. IInv => TypeOK
    BY DEF IInv
<1> QED BY InductiveInvariant, <1>1, PTL

\* Queued work never waits for a slot that could take it without a pending
\* dispatch event, in whatever order submissions, outages, reservations,
\* cancellations and completions interleave.
THEOREM DispatchNeverLost == Spec => []NoLostDispatch
<1>1. IInv => NoLostDispatch
    BY DEF IInv, ServiceInv, NoLostDispatch
<1> QED BY InductiveInvariant, <1>1, PTL

\* The reservation excludes every other run.
THEOREM SlotIsExclusive == Spec => []SlotExclusive
<1>1. IInv => SlotExclusive
    BY DEF IInv, ServiceInv, ServiceCore, SlotExclusive
<1> QED BY InductiveInvariant, <1>1, PTL

\* No completion event outlives its run, and no run loses its event: the
\* aborts of the completion handler are unreachable.
THEOREM CompletionIsLegal == Spec => []CompletionNeverAborts
<1>1. IInv => CompletionNeverAborts
    BY DEF IInv, ServiceInv, ServiceCore, CompletionNeverAborts
<1> QED BY InductiveInvariant, <1>1, PTL

\* No execution is lost or counted twice.
THEOREM ExecutionsConserved == Spec => []Conservation
<1>1. IInv => Conservation
    BY DEF IInv, ServiceInv, ServiceCore, Conservation
<1> QED BY InductiveInvariant, <1>1, PTL

\* Mutual exclusion over time: the intervals in which any two tasks held the
\* slot do not overlap.
THEOREM OneTaskAtATime == Spec => []OneAtATime
<1>1. IInv => OneAtATime
    BY DEF IInv
<1> QED BY InductiveInvariant, <1>1, PTL

-----------------------------------------------------------------------------
(* What a handler may do to the run and to the charged time *)

\* The run in the slot is the one that was there, with its pending report.
Continues(s, r) ==
    /\ s.hasCurrent /\ r.current = s.current /\ r.runningRecovery = s.runningRecovery
    /\ r.running => s.running /\ r.catchup = s.catchup

\* The run in the slot began just now, out of the front of the queue.
Begins(s, r) ==
    \E i \in s.queue :
        /\ r.current = [task |-> i.task, start |-> now, service |-> ServiceTimeNs(i.work, Rate)]
        /\ \A j \in r.queue : i.enter <= j.enter

\* A handler that admits nobody and begins no attempt, and charges exactly the
\* time that has passed.
Traces(s, r) ==
    /\ r.queue \subseteq s.queue
    /\ BusyTimeNs(r, now) = BusyTimeNs(s, now)
    /\ r.hasCurrent => Continues(s, r) \/ Begins(s, r)

SameRun(r, s) ==
    /\ r.running = s.running /\ r.queue = s.queue
    /\ r.hasCurrent = s.hasCurrent /\ r.current = s.current
    /\ r.runningRecovery = s.runningRecovery /\ r.catchup = s.catchup
    /\ r.busy = s.busy

LEMMA TracesTransitive ==
    ASSUME NEW s, NEW m, NEW r, Traces(s, m), Traces(m, r)
    PROVE  Traces(s, r)
<1>1. r.queue \subseteq s.queue /\ BusyTimeNs(r, now) = BusyTimeNs(s, now)
    BY DEF Traces
<1>2. ASSUME r.hasCurrent, Continues(m, r), Continues(s, m)
      PROVE  Continues(s, r)
    BY <1>2 DEF Continues
<1>3. ASSUME r.hasCurrent, Continues(m, r), Begins(s, m)
      PROVE  Begins(s, r)
    BY <1>3 DEF Continues, Begins, Traces
<1>4. ASSUME r.hasCurrent, Begins(m, r)
      PROVE  Begins(s, r)
    BY <1>4 DEF Begins, Traces
<1>5. r.hasCurrent => Continues(s, r) \/ Begins(s, r)
    <2>1. Continues(m, r) => m.hasCurrent
        BY DEF Continues
    <2> QED BY <1>2, <1>3, <1>4, <2>1 DEF Traces
<1> QED BY <1>1, <1>5 DEF Traces

LEMMA SameRunTraces ==
    ASSUME NEW s, NEW r, SameRun(r, s)
    PROVE  Traces(s, r)
BY DEF SameRun, Traces, Continues, BusyTimeNs

LEMMA RequestDispatchTraces ==
    ASSUME NEW s \in Service
    PROVE  Traces(s, RequestDispatch(s))
<1>1. SameRun(RequestDispatch(s), s)
    BY DEF RequestDispatch, Service, SameRun
<1> QED BY <1>1, SameRunTraces

LEMMA AvailabilityTraces ==
    ASSUME NEW s \in Service, NEW available \in BOOLEAN
    PROVE  Traces(s, SetComputeAvailable(s, available))
<1> DEFINE m == [s EXCEPT !.available = TRUE]
           c == [s EXCEPT !.available = FALSE, !.dispatch = FALSE]
<1>1. SameRun(RequestDispatch(m), s) /\ SameRun(c, s) /\ SameRun(s, s)
    BY DEF RequestDispatch, Service, SameRun
<1>2. SetComputeAvailable(s, available) \in {s, RequestDispatch(m), c}
    BY DEF SetComputeAvailable
<1> QED BY <1>1, <1>2, SameRunTraces

\* Dispatch takes the front of the queue: nothing left in it entered earlier.
LEMMA DispatchNextTaskTraces ==
    ASSUME NEW s \in Service, now \in Time, ServiceCore(s, now)
    PROVE  Traces(s, DispatchNextTask(s, now, Rate))
<1>1. CASE ~CanDispatch(s)
    BY <1>1, SameRunTraces DEF DispatchNextTask, SameRun
<1>2. CASE CanDispatch(s)
    <2> DEFINE next == QueueFront(s.queue)
               run == [task |-> next.task, start |-> now, service |-> ServiceTimeNs(next.work, Rate)]
               r == StartFront(s, now, Rate)
    <2>1. next \in s.queue /\ \A b \in s.queue \ {next} : Before(next, b)
        BY <1>2, QueueFrontQueued DEF ServiceCore, QueueSane, CanDispatch, Service
    <2>2. r = [s EXCEPT !.queue = s.queue \ {next}, !.hasCurrent = TRUE, !.current = run,
                        !.completion = TRUE]
        BY DEF StartFront
    <2>3. run.start = now
        OBVIOUS
    <2> HIDE DEF r, next
    <2>4. r.running = s.running /\ r.queue = s.queue \ {next} /\ r.current = run
          /\ r.hasCurrent = TRUE /\ r.busy = s.busy
        <3> HIDE DEF run
        <3> QED BY <2>2 DEF Service
    <2>5. \A j \in r.queue : next.enter <= j.enter
        <3>1. \A j \in s.queue : j.enter \in Nat
            BY DEF Service, WorkItem, Time
        <3> QED BY <2>1, <2>4, <3>1 DEF Before
    <2>6. Begins(s, r)
        BY <2>1, <2>4, <2>5 DEF Begins
    <2>7. BusyTimeNs(r, now) = BusyTimeNs(s, now)
        <3>1. s.busy \in Nat /\ now \in Nat /\ s.running /\ ~s.hasCurrent
            BY <1>2 DEF Service, Time, CanDispatch
        <3> HIDE DEF run
        <3> QED BY <2>3, <2>4, <3>1 DEF BusyTimeNs
    <2>8. Traces(s, r)
        BY <2>4, <2>6, <2>7 DEF Traces
    <2> QED BY <1>2, <2>8 DEF DispatchNextTask, r
<1> QED BY <1>1, <1>2

LEMMA FireDispatchTraces ==
    ASSUME NEW s \in Service, now \in Time, ServiceCore(s, now)
    PROVE  Traces(s, FireDispatch(s, now, Rate))
<1> DEFINE m == [s EXCEPT !.dispatch = FALSE]
<1>1. m \in Service /\ SameSlot(m, s) /\ SameRun(m, s)
    BY DEF Service, SameSlot, SameRun
<1> HIDE DEF m
<1> QED
    BY <1>1, SameSlotKeeps, SameRunTraces, DispatchNextTaskTraces, TracesTransitive
    DEF FireDispatch, m

\* A completion charges the whole service time, which has just passed.
LEMMA CompleteCurrentTaskTraces ==
    ASSUME NEW s \in Service, now \in Time, ServiceCore(s, now), CompletionLegal(s, now),
           NEW deferDispatch \in BOOLEAN
    PROVE  Traces(s, CompleteCurrentTask(s, now, Rate, deferDispatch))
<1> DEFINE m == Vacated(s)
           owner == IF s.runningRecovery THEN NoTask ELSE s.owner
           catchup == IF s.runningRecovery THEN NoTime ELSE s.catchup
<1>1. m \in Service /\ ServiceCore(m, now) /\ ~m.hasCurrent
    BY VacatedKeeps
<1>2. m.queue = s.queue /\ m.busy = s.busy + s.current.service
    <2>1. m = [s EXCEPT !.completion = FALSE, !.busy = s.busy + s.current.service,
                        !.completed = s.completed + 1,
                        !.hasCurrent = FALSE, !.current = NoRun,
                        !.owner = owner, !.catchup = catchup,
                        !.runningRecovery = FALSE]
        BY DEF Vacated
    <2> HIDE DEF m, owner, catchup
    <2> QED BY <2>1 DEF Service
<1> HIDE DEF m
<1>3. BusyTimeNs(m, now) = BusyTimeNs(s, now)
    <2>1. /\ s.busy \in Nat /\ now \in Nat /\ s.running /\ s.hasCurrent
          /\ now - s.current.start = s.current.service
        BY DEF Service, Time, CompletionLegal, CompletionDue
    <2>2. s.current.service \in Nat
        BY <2>1 DEF Service, Run, NoRun
    <2> QED BY <1>1, <1>2, <2>1, <2>2 DEF BusyTimeNs
<1>4. Traces(s, m)
    BY <1>1, <1>2, <1>3 DEF Traces
<1>5. CompleteCurrentTask(s, now, Rate, deferDispatch) \in {RequestDispatch(m), DispatchNextTask(m, now, Rate)}
    BY DEF CompleteCurrentTask, m
<1> QED
    BY <1>1, <1>4, <1>5, RequestDispatchTraces, DispatchNextTaskTraces, TracesTransitive

\* A cancellation charges the prefix of the run, unless the stopped service
\* charged it already.
LEMMA CancelRunningTraces ==
    ASSUME NEW s \in Service, NEW t, now \in Time, BusyTimeNs(s, now) \in Nat
    PROVE  Traces(s, CancelRunningTaskForFailure(s, t, now))
<1>1. CASE ~s.hasCurrent \/ s.current.task # t
    BY <1>1, SameRunTraces DEF CancelRunningTaskForFailure, SameRun
<1>2. CASE ~(~s.hasCurrent \/ s.current.task # t)
    <2> DEFINE spent == BusyTimeNs(s, now)
               m == [s EXCEPT !.completion = FALSE, !.busy = spent,
                              !.hasCurrent = FALSE, !.current = NoRun,
                              !.cancelled = s.cancelled + 1]
    <2>1. CancelRunningTaskForFailure(s, t, now) = RequestDispatch(m)
        BY <1>2 DEF CancelRunningTaskForFailure
    <2> HIDE DEF spent
    <2>2. m.queue = s.queue /\ m.busy = spent /\ m.hasCurrent = FALSE
        BY DEF Service
    <2>3. SameRun(RequestDispatch(m), m)
        BY DEF RequestDispatch, SameRun, Service
    <2> HIDE DEF m
    <2>4. BusyTimeNs(m, now) = spent
        BY <2>2 DEF BusyTimeNs, spent
    <2>5. Traces(s, m)
        BY <2>2, <2>4 DEF Traces, spent
    <2> QED BY <2>1, <2>3, <2>5, SameRunTraces, TracesTransitive
<1> QED BY <1>1, <1>2

LEMMA CancelRecoveryTraces ==
    ASSUME NEW s \in Service, NEW t \in Task, now \in Time, ServiceCore(s, now)
    PROVE  Traces(s, CancelRecovery(s, t, now))
<1>1. CASE s.owner # t
    BY <1>1, SameRunTraces DEF CancelRecovery, SameRun
<1>2. CASE s.owner = t
    <2> DEFINE quiet == [s EXCEPT !.catchup = NoTime]
               cut == CancelRunningTaskForFailure(quiet, t, now)
               idle == IF s.runningRecovery THEN [cut EXCEPT !.runningRecovery = FALSE]
                       ELSE quiet
               m == [idle EXCEPT !.owner = NoTask]
               r == RequestDispatch(m)
    <2>1. CancelRecovery(s, t, now) = r
        BY <1>2 DEF CancelRecovery
    <2>2. /\ quiet \in Service /\ quiet.queue = s.queue /\ quiet.hasCurrent = s.hasCurrent
          /\ BusyTimeNs(quiet, now) = BusyTimeNs(s, now) /\ quiet.current = s.current
        BY DEF Service, BusyTimeNs
    <2>3. CASE ~s.runningRecovery
        <3>1. ~s.hasCurrent
            BY <1>2, <2>3, TaskAssumption DEF ServiceCore, SlotOwned, NoTask
        <3>2. /\ r.running = s.running /\ r.queue = s.queue /\ r.hasCurrent = s.hasCurrent
              /\ r.busy = s.busy
            BY <2>3 DEF RequestDispatch, Service
        <3> HIDE DEF r
        <3> QED BY <2>1, <3>1, <3>2 DEF Traces, BusyTimeNs
    <2>4. CASE s.runningRecovery
        <3>1. Traces(quiet, cut)
            <4> HIDE DEF quiet
            <4> QED BY <2>2, BusyTimeBounds, CancelRunningTraces
        <3>2. cut.hasCurrent = FALSE /\ cut \in Service
            <4>1. quiet.hasCurrent /\ quiet.current.task = t
                BY <1>2, <2>2, <2>4 DEF ServiceCore, SlotOwned
            <4> DEFINE gone == [quiet EXCEPT !.completion = FALSE, !.busy = BusyTimeNs(quiet, now),
                                             !.hasCurrent = FALSE, !.current = NoRun,
                                             !.cancelled = quiet.cancelled + 1]
            <4>2. cut = RequestDispatch(gone)
                BY <4>1 DEF CancelRunningTaskForFailure
            <4>3. BusyTimeNs(quiet, now) \in Nat
                <5> HIDE DEF quiet
                <5> QED BY <2>2, BusyTimeBounds
            <4> DEFINE spent == BusyTimeNs(quiet, now)
            <4> HIDE DEF quiet, spent
            <4>4. gone \in Service /\ gone.hasCurrent = FALSE
                <5>1. quiet.cancelled + 1 \in Nat /\ NoRun \in Run /\ spent \in Nat
                    BY <2>2, <4>3 DEF Service, Run, spent
                <5>2. gone = [quiet EXCEPT !.completion = FALSE, !.busy = spent,
                                           !.hasCurrent = FALSE, !.current = NoRun,
                                           !.cancelled = quiet.cancelled + 1]
                    BY DEF spent
                <5> HIDE DEF gone
                <5> QED BY <2>2, <5>1, <5>2 DEF Service
            <4> HIDE DEF gone
            <4> QED BY <4>2, <4>4 DEF RequestDispatch, Service, CanDispatch
        <3> HIDE DEF cut, quiet
        <3>3. /\ r.running = cut.running /\ r.queue = cut.queue /\ r.hasCurrent = cut.hasCurrent
              /\ r.busy = cut.busy
            BY <2>4, <3>2 DEF RequestDispatch, Service
        <3> HIDE DEF r
        <3> QED BY <2>1, <2>2, <3>1, <3>2, <3>3 DEF Traces, BusyTimeNs
    <2> QED BY <2>3, <2>4
<1> QED BY <1>1, <1>2

LEMMA RemoveQueuedTraces ==
    ASSUME NEW s \in Service, NEW t
    PROVE  Traces(s, RemoveQueuedTaskForFailure(s, t))
<1> DEFINE m == RemoveQueuedTaskForFailure(s, t)
           rest == {i \in s.queue : i.task # t}
<1>1. CASE \A i \in s.queue : i.task # t
    BY <1>1, SameRunTraces DEF RemoveQueuedTaskForFailure, SameRun
<1>2. CASE ~(\A i \in s.queue : i.task # t)
    <2>1. m = [s EXCEPT !.queue = rest, !.removed = s.removed + 1]
        BY <1>2 DEF RemoveQueuedTaskForFailure
    <2> HIDE DEF m
    <2>2. /\ m.running = s.running /\ m.queue = rest
          /\ m.hasCurrent = s.hasCurrent /\ m.current = s.current
          /\ m.runningRecovery = s.runningRecovery /\ m.catchup = s.catchup
          /\ m.busy = s.busy
        BY <2>1 DEF Service
    <2>3. Traces(s, m)
        BY <2>2 DEF Traces, Continues, BusyTimeNs
    <2> QED BY <2>3 DEF m
<1> QED BY <1>1, <1>2

LEMMA ReleaseTraces ==
    ASSUME NEW s \in Service, NEW t
    PROVE  Traces(s, ReleaseRecovery(s, t))
<1> DEFINE m == [s EXCEPT !.owner = NoTask]
<1>1. SameRun(RequestDispatch(m), s) /\ SameRun(s, s)
    BY DEF RequestDispatch, Service, SameRun
<1>2. ReleaseRecovery(s, t) \in {s, RequestDispatch(m)}
    BY DEF ReleaseRecovery
<1> QED BY <1>1, <1>2, SameRunTraces

LEMMA PromoteTraces ==
    ASSUME NEW s \in Service, NEW t
    PROVE  Traces(s, PromoteReplica(s, t))
<1>1. SameRun(PromoteReplica(s, t), s)
    BY DEF PromoteReplica, Service, SameRun
<1> QED BY <1>1, SameRunTraces

LEMMA CloseTraces ==
    ASSUME NEW s \in Service, now \in Time, ServiceInv(s, now)
    PROVE  Traces(s, Close(s))
<1> DEFINE closed == SetComputeAvailable(s, FALSE)
<1>1. closed \in Service /\ ServiceCore(closed, now)
    BY CloseKeeps DEF ServiceInv
<1>2. Traces(s, closed)
    BY AvailabilityTraces
<1>3. \/ Close(s) = closed
      \/ Close(s) = CancelRecovery(closed, closed.owner, now) /\ closed.runningRecovery
      \/ Close(s) = CancelRunningTaskForFailure(closed, closed.current.task, now)
    BY DEF Close
<1> HIDE DEF closed
<1>4. BusyTimeNs(closed, now) \in Nat
    BY <1>1, BusyTimeBounds
<1>5. closed.runningRecovery => closed.owner \in Task
    <2>1. closed.current \in Run /\ (closed.hasCurrent => closed.current # NoRun)
        BY <1>1 DEF ServiceCore, CurrentSane, Service
    <2> QED BY <1>1, <2>1 DEF ServiceCore, SlotOwned, Run
<1> QED
    BY <1>1, <1>2, <1>3, <1>4, <1>5, CancelRecoveryTraces, CancelRunningTraces, TracesTransitive

-----------------------------------------------------------------------------
(* What such a handler does to the history *)

\* The history follows the slot from svc to r.
Follows(r) ==
    \A t \in Task :
        /\ life'[t].enter = life[t].enter
        /\ life'[t].start = IF Runs(r, t) /\ ~Runs(svc, t) THEN now ELSE life[t].start
        /\ life'[t].end = IF Runs(svc, t) /\ ~Runs(r, t) THEN now ELSE life[t].end

\* What was completed in the handler was due, and a recovery was reported.
ReportsDue(r) ==
    /\ finished \subseteq finished' /\ caught \subseteq caught'
    /\ \A t \in finished' \ finished :
          /\ Runs(svc, t) /\ ~Runs(r, t)
          /\ now - svc.current.start = svc.current.service
          /\ t \in RecoveryTask => t \in caught'

LEMMA BecomeFollows ==
    ASSUME TypeOK, NEW r, NEW over, Become(r, over), Ends(svc, r, over)
    PROVE  svc' = r /\ Follows(r)
<1>1. svc' = r /\ life \in [Task -> Life]
    BY DEF Become, TypeOK
<1>2. ASSUME NEW t \in Task
      PROVE  /\ life'[t].enter = life[t].enter
             /\ life'[t].start = IF Runs(r, t) /\ ~Runs(svc, t) THEN now ELSE life[t].start
             /\ life'[t].end = IF Runs(svc, t) /\ ~Runs(r, t) THEN now ELSE life[t].end
    <2> DEFINE start == IF Runs(r, t) /\ ~Runs(svc, t) THEN now ELSE life[t].start
               end == IF t \in over THEN now ELSE life[t].end
    <2>1. life'[t] = [life[t] EXCEPT !.start = start, !.end = end]
        BY DEF Become
    <2>2. end = IF Runs(svc, t) /\ ~Runs(r, t) THEN now ELSE life[t].end
        BY DEF Ends
    <2> HIDE DEF start, end
    <2>3. life'[t].enter = life[t].enter /\ life'[t].start = start /\ life'[t].end = end
        BY <1>1, <2>1 DEF Life
    <2> QED BY <2>2, <2>3 DEF start
<1> QED BY <1>1, <1>2 DEF Follows

LEMMA QuietFollows ==
    ASSUME NEW r, svc' = r, life' = life,
           r.hasCurrent = svc.hasCurrent, r.current = svc.current
    PROVE  Follows(r)
BY DEF Follows, Runs

\* Who runs in r and did not run in svc came out of the queue, had not started
\* and entered no later than what still waits.
LEMMA BegunWasQueued ==
    ASSUME IInv, CarriesOwn, NEW r, Traces(svc, r), NEW t, Runs(r, t), ~Runs(svc, t)
    PROVE  /\ t \in HomeTask /\ Queued(t) /\ ~Started(t) /\ ~Ended(t)
           /\ r.current.start = now /\ r.current.service = ServiceOf(t)
           /\ \A j \in r.queue : life[t].enter <= j.enter
<1>1. Begins(svc, r)
    BY DEF Traces, Continues, Runs
<1>2. PICK i \in svc.queue :
          /\ r.current = [task |-> i.task, start |-> now, service |-> ServiceTimeNs(i.work, Rate)]
          /\ \A j \in r.queue : i.enter <= j.enter
    BY <1>1 DEF Begins
<1>3. i.task = t /\ r.current.start = now /\ r.current.service = ServiceTimeNs(i.work, Rate)
    BY <1>2 DEF Runs
<1>4. t \in HomeTask /\ Queued(t) /\ t \in Task
    BY <1>3, PartitionAssumption DEF IInv, Placement, Queued
<1>5. ~Started(t) /\ ~Ended(t)
    BY <1>4 DEF IInv, LifeSound
<1> QED BY <1>2, <1>3, <1>4, <1>5 DEF CarriesOwn, ServiceOf

\* Who runs before and after is in the same run: it cannot have queued again.
LEMMA KeptContinues ==
    ASSUME IInv, NEW r, Traces(svc, r), NEW t, Runs(r, t), Runs(svc, t)
    PROVE  Continues(svc, r)
<1>1. \A i \in svc.queue : i.task # t
    BY DEF IInv, ServiceInv, ServiceCore, CurrentSane, Runs
<1>2. ~Begins(svc, r)
    <2> SUFFICES ASSUME Begins(svc, r) PROVE FALSE
        OBVIOUS
    <2>1. PICK i \in svc.queue :
              r.current = [task |-> i.task, start |-> now, service |-> ServiceTimeNs(i.work, Rate)]
        BY DEF Begins
    <2>2. r.current.task = i.task
        BY <2>1
    <2> QED BY <1>1, <2>2 DEF Runs
<1> QED BY <1>2 DEF Traces, Runs

\* The heart of the history: order, duration and reports survive every such
\* handler.
LEMMA TracesKeepHistory ==
    ASSUME IInv, HistoryInv, IInv', NEW r \in Service, svc' = r, now' = now,
           Traces(svc, r), Follows(r), ReportsDue(r)
    PROVE  HistoryInv'
<1>1. svc \in Service /\ now \in Nat /\ life \in [Task -> Life] /\ finished \subseteq Task
      /\ finished' \subseteq Task
    BY DEF IInv, TypeOK, Time
<1>2. \A i \in svc.queue : i.task \in Task
    BY <1>1 DEF Service, WorkItem
<1>3. \A t \in Task : life[t].start \in Int /\ life[t].end \in Int /\ life[t].enter \in Int
    BY <1>1 DEF Life, Time, NoTime
<1>4. CarriesOwn'
    <2>1. \A i \in r.queue : i.work = WorkOf[i.task] /\ i.enter = life'[i.task].enter
        BY <1>2 DEF HistoryInv, CarriesOwn, Traces, Follows
    <2>2. r.hasCurrent => r.current.service = ServiceOf(r.current.task)
        <3> SUFFICES ASSUME r.hasCurrent PROVE r.current.service = ServiceOf(r.current.task)
            OBVIOUS
        <3>1. CASE Runs(svc, r.current.task)
            BY <3>1, KeptContinues DEF HistoryInv, CarriesOwn, Runs, Continues
        <3>2. CASE ~Runs(svc, r.current.task)
            BY <3>2, BegunWasQueued DEF HistoryInv, Runs
        <3> QED BY <3>1, <3>2
    <2>3. \A t \in Task : life'[t].enter <= now
        BY DEF HistoryInv, CarriesOwn, Follows
    <2> QED BY <2>1, <2>2, <2>3 DEF CarriesOwn, ServiceOf
<1>5. CatchupAhead'
    <2> SUFFICES ASSUME NEW t \in RecoveryTask, r.running, Runs(r, t)
                 PROVE  r.runningRecovery /\ (r.catchup # NoTime \/ t \in caught')
        BY DEF CatchupAhead, Runs
    <2>1. t \notin HomeTask
        BY PartitionAssumption DEF GuestTask
    <2>2. Runs(svc, t)
        BY <2>1, BegunWasQueued DEF HistoryInv
    <2>3. Continues(svc, r)
        BY <2>2, KeptContinues
    <2> QED BY <2>3 DEF HistoryInv, CatchupAhead, Continues, Runs, ReportsDue
<1>6. NoOvertaking'
    <2> SUFFICES ASSUME NEW a \in HomeTask, NEW b \in HomeTask,
                        life'[a].enter # NoTime, life'[a].enter < life'[b].enter,
                        life'[b].start # NoTime
                 PROVE  /\ ~(\E i \in r.queue : i.task = a)
                        /\ life'[a].start # NoTime => life'[a].start <= life'[b].start
        BY DEF NoOvertaking, Started, Queued
    <2>1. a \in Task /\ b \in Task
        BY PartitionAssumption
    <2>2. life[a].enter # NoTime /\ life[a].enter < life[b].enter
        BY <2>1 DEF Follows
    <2>3. \A t \in Task : life'[t].start # NoTime => life'[t].start <= now
        BY DEF IInv, LifeSound, Started
    <2>4. CASE Runs(r, b) /\ ~Runs(svc, b)
        <3>1. life'[b].start = now
            BY <2>1, <2>4 DEF Follows
        <3>2. \A j \in r.queue : life[b].enter <= j.enter
            BY <2>4, BegunWasQueued DEF HistoryInv
        <3>3. \A j \in r.queue : j.task = a => j.enter = life[a].enter
            BY DEF Traces, HistoryInv, CarriesOwn
        <3>4. ~(\E i \in r.queue : i.task = a)
            BY <1>3, <2>1, <2>2, <3>2, <3>3
        <3> QED BY <2>1, <2>3, <3>1, <3>4
    <2>5. CASE ~(Runs(r, b) /\ ~Runs(svc, b))
        <3>1. life'[b].start = life[b].start
            BY <2>1, <2>5 DEF Follows
        <3>2. ~Queued(a) /\ (Started(a) => life[a].start <= life[b].start)
            BY <2>2, <3>1 DEF HistoryInv, NoOvertaking, Started
        <3>3. ~(Runs(r, a) /\ ~Runs(svc, a))
            BY <3>2, BegunWasQueued DEF HistoryInv
        <3>4. life'[a].start = life[a].start
            BY <2>1, <3>3 DEF Follows
        <3> QED BY <3>1, <3>2, <3>4 DEF Queued, Started, Traces
    <2> QED BY <2>4, <2>5
<1>7. FinishedExact'
    <2> SUFFICES ASSUME NEW t \in finished'
                 PROVE  life'[t].end # NoTime /\ life'[t].end - life'[t].start = ServiceOf(t)
        BY DEF FinishedExact, Ended, ServiceOf
    <2>1. CASE t \in finished
        <3>1. Ended(t) /\ life[t].end - life[t].start = ServiceOf(t) /\ t \in Task
            BY <1>1, <2>1 DEF HistoryInv, FinishedExact
        <3>2. ~Runs(svc, t) /\ ~Runs(r, t)
            BY <3>1, BegunWasQueued DEF IInv, LifeSound, HistoryInv
        <3> QED BY <3>1, <3>2 DEF Follows, Ended
    <2>2. CASE t \notin finished
        <3>1. Runs(svc, t) /\ now - svc.current.start = svc.current.service /\ t \in Task
            BY <1>1, <2>2 DEF ReportsDue
        <3>2. life[t].start = svc.current.start
            BY <3>1 DEF IInv, LifeSound
        <3>3. svc.current.service = ServiceOf(t)
            BY <3>1 DEF HistoryInv, CarriesOwn, Runs
        <3>4. ~Runs(r, t)
            BY <2>2 DEF ReportsDue
        <3>5. life'[t].start = life[t].start /\ life'[t].end = now
            BY <3>1, <3>4 DEF Follows
        <3> QED BY <1>1, <3>1, <3>2, <3>3, <3>5 DEF NoTime
    <2> QED BY <2>1, <2>2
<1>8. CatchupReported'
    BY DEF HistoryInv, CatchupReported, ReportsDue
<1> QED BY <1>4, <1>5, <1>6, <1>7, <1>8 DEF HistoryInv

-----------------------------------------------------------------------------
(* The actions that are such handlers *)

HandlerStep ==
    now' = now /\ Traces(svc, svc') /\ Follows(svc') /\ ReportsDue(svc')

\* The first invariant, before and after, says whose run ended.
LEMMA OverEnds ==
    ASSUME IInv, IInv', NEW r, NEW over, Become(r, over), now' = now,
           \A t \in over : Runs(svc, t)
    PROVE  Ends(svc, r, over)
<1>1. svc' = r /\ now \in Nat /\ life \in [Task -> Life]
    BY DEF Become, IInv, TypeOK, Time
<1>2. ASSUME NEW t \in Task, t \in over PROVE ~Runs(r, t)
    <2>1. life'[t].end = now
        BY <1>1, <1>2 DEF Become, Life
    <2>2. Ended(t)'
        BY <1>1, <2>1 DEF Ended, NoTime
    <2> QED BY <1>1, <2>2 DEF IInv, LifeSound, Runs
<1>3. ASSUME NEW t \in Task, Runs(svc, t), t \notin over PROVE Runs(r, t)
    <2>1. life'[t].end = life[t].end /\ life'[t].start = life[t].start
        BY <1>1, <1>3 DEF Become, Life
    <2>2. Started(t) /\ ~Ended(t)
        BY <1>3 DEF IInv, LifeSound
    <2> QED BY <1>1, <2>1, <2>2 DEF IInv, LifeSound, Runs, Started, Ended
<1> QED BY <1>2, <1>3 DEF Ends

LEMMA BecomeIsHandler ==
    ASSUME IInv, IInv', NEW r, Traces(svc, r), NEW over, Become(r, over), now' = now,
           \A t \in over : Runs(svc, t), finished' = finished, caught' = caught
    PROVE  HandlerStep
<1>1. svc' = r /\ Follows(r)
    BY OverEnds, BecomeFollows DEF IInv
<1>2. ReportsDue(r)
    BY DEF ReportsDue
<1> QED BY <1>1, <1>2 DEF HandlerStep

LEMMA QuietIsHandler ==
    ASSUME NEW r, Traces(svc, r), svc' = r, life' = life, now' = now,
           r.hasCurrent = svc.hasCurrent, r.current = svc.current,
           finished' = finished, caught' = caught
    PROVE  HandlerStep
BY QuietFollows DEF ReportsDue, HandlerStep

\* A completion reports the recovery it ends: its catch-up is pending or done.
LEMMA FinishIsHandler ==
    ASSUME IInv, IInv', CatchupAhead, NEW r, Traces(svc, r), Finish(r), now' = now,
           CompletionLegal(svc, now)
    PROVE  HandlerStep
<1> DEFINE t == svc.current.task
<1>1. Become(r, {t}) /\ Runs(svc, t) /\ svc.running
    BY DEF Finish, Runs, CompletionLegal, CompletionDue
<1>2. Ends(svc, r, {t}) /\ t \in Task
    BY <1>1, OverEnds, CurrentIsTask DEF IInv, TypeOK, Runs
<1>3. svc' = r /\ Follows(r) /\ ~Runs(r, t)
    BY <1>1, <1>2, BecomeFollows DEF IInv, Ends
<1>4. t \in RecoveryTask => t \in caught'
    BY <1>1 DEF Finish, CatchupAhead
<1>5. finished' = finished \cup {t} /\ caught \subseteq caught'
    BY DEF Finish
<1>6. ReportsDue(r)
    BY <1>1, <1>3, <1>4, <1>5 DEF ReportsDue, CompletionLegal, CompletionDue
<1> QED BY <1>3, <1>6 DEF HandlerStep

LEMMA EventsAreHandlers ==
    ASSUME IInv, IInv', CatchupAhead, Start \/ Stop \/ Dispatch \/ Complete
    PROVE  HandlerStep
<1>1. svc \in Service /\ now \in Time /\ ServiceInv(svc, now) /\ ServiceCore(svc, now)
    BY DEF IInv, TypeOK, ServiceInv
<1>2. CASE Start
    <2> DEFINE r == StartApplication(svc)
    <2>1. ~svc.hasCurrent
        BY <1>2, WorkAssumption DEF Start, IInv, Placement
    <2>2. r.queue = svc.queue /\ r.hasCurrent = svc.hasCurrent /\ r.busy = svc.busy
        BY <1>1 DEF StartApplication, RequestDispatch, Service
    <2> HIDE DEF r
    <2>3. Traces(svc, r)
        BY <2>1, <2>2 DEF Traces, BusyTimeNs
    <2> QED BY <1>2, <2>3, BecomeIsHandler DEF Start, r
<1>3. CASE Stop
    <2> DEFINE spent == BusyTimeNs(svc, now)
               r == StopApplication(svc, now)
    <2>1. /\ r.queue = svc.queue /\ r.hasCurrent = svc.hasCurrent /\ r.current = svc.current
          /\ r.runningRecovery = svc.runningRecovery /\ r.running = FALSE /\ r.busy = spent
        BY <1>1 DEF StopApplication, Service
    <2> HIDE DEF r, spent
    <2>2. spent \in Nat
        BY <1>1, BusyTimeBounds DEF spent
    <2>3. Traces(svc, r)
        BY <2>1, <2>2 DEF Traces, Continues, BusyTimeNs, spent
    <2> QED BY <1>3, <2>3, BecomeIsHandler DEF Stop, r
<1>4. CASE Dispatch
    BY <1>1, <1>4, FireDispatchTraces, BecomeIsHandler DEF Dispatch
<1>5. CASE Complete
    <2>1. CompletionLegal(svc, now)
        BY <1>5, PendingIsLegal DEF Complete
    <2> QED
        BY <1>1, <1>5, <2>1, CompleteCurrentTaskTraces, FinishIsHandler DEF Complete
<1> QED BY <1>2, <1>3, <1>4, <1>5

LEMMA CoordinatorIsHandler ==
    ASSUME IInv, IInv', CatchupAhead, Coordinator, \A t \in HomeTask : ~Submit(t)
    PROVE  HandlerStep
<1>1. svc \in Service /\ now \in Time /\ ServiceInv(svc, now) /\ ServiceCore(svc, now)
    BY DEF IInv, TypeOK, ServiceInv
<1>2. BusyTimeNs(svc, now) \in Nat /\ Rate \in Nat \ {0}
    BY <1>1, BusyTimeBounds, WorkAssumption
<1>3. ASSUME NEW t \in HomeTask, RemoveQueued(t) PROVE HandlerStep
    <2> DEFINE r == RemoveQueuedTaskForFailure(svc, t)
               rest == {i \in svc.queue : i.task # t}
    <2>1. r = [svc EXCEPT !.queue = rest, !.removed = svc.removed + 1]
        BY <1>3 DEF RemoveQueued, RemoveQueuedTaskForFailure
    <2>2. Traces(svc, r)
        BY <1>1, RemoveQueuedTraces
    <2> HIDE DEF r
    <2>3. r.hasCurrent = svc.hasCurrent /\ r.current = svc.current
        BY <1>1, <2>1 DEF Service
    <2> QED BY <1>3, <2>2, <2>3, QuietIsHandler DEF RemoveQueued, r
<1>4. ASSUME NEW t \in HomeTask, CancelRunning(t) PROVE HandlerStep
    BY <1>1, <1>2, <1>4, CancelRunningTraces, BecomeIsHandler DEF CancelRunning
<1>5. ASSUME NEW t \in HomeTask, Deadline(t) PROVE HandlerStep
    <2>1. CASE CanCompleteIfDue(svc, t, now) /\ Finish(CompleteCurrentTask(svc, now, Rate, FALSE))
        BY <1>1, <1>5, <2>1, CompleteCurrentTaskTraces, FinishIsHandler
        DEF Deadline, CanCompleteIfDue
    <2>2. CASE /\ Become(CancelRunningTaskForFailure(svc, t, now), {t})
               /\ UNCHANGED <<finished, caught>>
        BY <1>1, <1>2, <1>5, <2>2, CancelRunningTraces, BecomeIsHandler DEF Deadline
    <2> QED BY <1>5, <2>1, <2>2 DEF Deadline
<1>6. CASE BatchRecovers
    <2>1. Traces(svc, Reopen(svc))
        BY <1>1, AvailabilityTraces DEF Reopen
    <2> QED BY <1>6, <2>1, BecomeIsHandler DEF BatchRecovers
<1>7. CASE BatchStarts
    <2> DEFINE open == Reopen(svc)
    <2>1. open \in Service /\ ServiceInv(open, now) /\ Traces(svc, open)
        BY <1>1, ReopenKeeps, AvailabilityTraces DEF Reopen
    <2>2. CASE /\ CompletionLegal(open, now)
               /\ Finish(Close(CompleteCurrentTask(open, now, Rate, TRUE)))
        <3> DEFINE done == CompleteCurrentTask(open, now, Rate, TRUE)
        <3>1. ServiceCore(open, now)
            BY <2>1 DEF ServiceInv
        <3>2. done \in Service /\ ServiceInv(done, now) /\ Traces(open, done)
            <4> HIDE DEF open
            <4> QED
                BY <1>1, <1>2, <2>1, <2>2, <3>1, CompleteCurrentTaskKeeps, CompleteCurrentTaskTraces
        <3>3. Traces(svc, Close(done))
            <4> HIDE DEF done, open
            <4> QED BY <1>1, <2>1, <3>2, CloseTraces, TracesTransitive
        <3>4. CompletionLegal(svc, now)
            <4>1. open.hasCurrent = svc.hasCurrent /\ open.current = svc.current
                  /\ open.running = svc.running
                BY <1>1, OpenKeeps DEF Reopen, SameSlot
            <4>2. CompletionTimely(open, now) /\ CompletionAllowed(open) /\ open.completion
                BY <2>1, <2>2 DEF ServiceInv, ServiceCore, CompletionTimely, CompletionLegal, CompletionDue
            <4>3. svc.completion
                BY <1>1, <2>2, <4>1
                DEF ServiceCore, CompletionTimely, CompletionLegal, CompletionDue
            <4> QED
                BY <1>1, <2>2, <4>1, <4>3
                DEF CompletionLegal, CompletionDue, ServiceInv, CompletionAllowed
        <3> HIDE DEF open
        <3> QED BY <1>7, <2>2, <3>3, <3>4, FinishIsHandler DEF BatchStarts
    <2>3. CASE Become(Close(open), Victim) /\ UNCHANGED <<finished, caught>>
        <3>1. Traces(svc, Close(open))
            <4> HIDE DEF open
            <4> QED BY <1>1, <2>1, CloseTraces, TracesTransitive
        <3>2. \A t \in Victim : Runs(svc, t)
            BY DEF Victim, RunningTask, Runs
        <3> HIDE DEF open
        <3> QED BY <1>7, <2>3, <3>1, <3>2, BecomeIsHandler DEF BatchStarts
    <2> QED BY <1>7, <2>2, <2>3 DEF BatchStarts
<1> QED BY <1>3, <1>4, <1>5, <1>6, <1>7 DEF Coordinator

LEMMA ProtectionIsHandler ==
    ASSUME IInv, IInv',
           \/ \E t \in GuestTask : Release(t) \/ CancelAttempt(t)
           \/ \E t \in ReplicaTask : Promote(t)
    PROVE  HandlerStep
<1>1. svc \in Service /\ now \in Time /\ ServiceInv(svc, now) /\ ServiceCore(svc, now)
    BY DEF IInv, TypeOK, ServiceInv
<1>2. ASSUME NEW t \in GuestTask, Release(t) PROVE HandlerStep
    <2> DEFINE r == ReleaseRecovery(svc, t)
               m == [svc EXCEPT !.owner = NoTask]
    <2>1. r.hasCurrent = svc.hasCurrent /\ r.current = svc.current
        <3>1. r = RequestDispatch(m)
            BY <1>2 DEF Release, ReleaseRecovery
        <3>2. /\ RequestDispatch(m).hasCurrent = svc.hasCurrent
              /\ RequestDispatch(m).current = svc.current
            BY <1>1 DEF RequestDispatch, Service
        <3> QED BY <3>1, <3>2
    <2>2. Traces(svc, r)
        BY <1>1, ReleaseTraces
    <2> HIDE DEF r
    <2> QED BY <1>2, <2>1, <2>2, QuietIsHandler DEF Release, r
<1>3. ASSUME NEW t \in ReplicaTask, Promote(t) PROVE HandlerStep
    <2> DEFINE r == PromoteReplica(svc, t)
    <2>1. r.hasCurrent = svc.hasCurrent /\ r.current = svc.current /\ Traces(svc, r)
        BY <1>1, PromoteTraces DEF PromoteReplica, Service
    <2> HIDE DEF r
    <2> QED BY <1>3, <2>1, QuietIsHandler DEF Promote, r
<1>4. ASSUME NEW t \in GuestTask, CancelAttempt(t) PROVE HandlerStep
    <2>1. Traces(svc, CancelRecovery(svc, t, now))
        BY <1>1, CancelRecoveryTraces, PartitionAssumption
    <2>2. \A x \in {t} \cap RunningTask : Runs(svc, x)
        BY DEF RunningTask, Runs
    <2> QED BY <1>4, <2>1, <2>2, BecomeIsHandler DEF CancelAttempt
<1> QED BY <1>2, <1>3, <1>4

-----------------------------------------------------------------------------
(* The actions that are not *)

\* A task enters the queue or reserves the slot, in service r.
Admits(r, t) ==
    /\ t \in Task /\ t \notin svc.known /\ Enters(r, t)
    /\ UNCHANGED <<now, finished, caught>>
    /\ r.running = svc.running /\ r.hasCurrent = svc.hasCurrent /\ r.current = svc.current
    /\ r.runningRecovery = svc.runningRecovery /\ r.catchup = svc.catchup /\ r.busy = svc.busy
    /\ \A i \in r.queue : \/ i \in svc.queue
                         \/ i = [task |-> t, work |-> WorkOf[t], enter |-> now]

\* A guest starts its attempt in the slot it reserved.
Attempts(r, t) ==
    /\ t \in GuestTask /\ svc.owner = t /\ ~svc.hasCurrent
    /\ Become(r, {}) /\ UNCHANGED <<now, finished, caught>>
    /\ r.queue = svc.queue /\ r.hasCurrent /\ r.running = svc.running /\ r.busy = svc.busy
    /\ r.current = [task |-> t, start |-> now, service |-> ServiceOf(t)]
    /\ r.runningRecovery /\ (t \in RecoveryTask => r.catchup # NoTime)

LEMMA AdmissionsAdmit ==
    ASSUME IInv,
           \/ \E t \in HomeTask : Submit(t)
           \/ \E t \in GuestTask : Reserve(t)
    PROVE  \E r, t : Admits(r, t)
<1>1. svc \in Service /\ HomeTask \subseteq Task /\ GuestTask \subseteq Task
    BY PartitionAssumption DEF IInv, TypeOK
<1>2. ASSUME NEW t \in HomeTask, Submit(t) PROVE \E r, x : Admits(r, x)
    <2> DEFINE item == [task |-> t, work |-> WorkOf[t], enter |-> now]
               m == [svc EXCEPT !.known = svc.known \cup {t}, !.queue = svc.queue \cup {item},
                                !.enqueued = svc.enqueued + 1]
               r == SubmitTask(svc, t, WorkOf[t], now)
    <2>1. r = RequestDispatch(m)
        BY DEF SubmitTask
    <2>2. /\ r.running = svc.running /\ r.hasCurrent = svc.hasCurrent
          /\ r.current = svc.current /\ r.runningRecovery = svc.runningRecovery
          /\ r.catchup = svc.catchup /\ r.busy = svc.busy /\ r.queue = svc.queue \cup {item}
        <3> HIDE DEF item, r
        <3> QED BY <1>1, <2>1 DEF RequestDispatch, Service
    <2> HIDE DEF r
    <2>3. /\ t \notin svc.known /\ Enters(r, t) /\ UNCHANGED <<now, finished, caught>>
        BY <1>2 DEF Submit, r
    <2>4. Admits(r, t)
        BY <1>1, <2>2, <2>3 DEF Admits
    <2> QED BY <2>4
<1>3. ASSUME NEW t \in GuestTask, Reserve(t) PROVE \E r, x : Admits(r, x)
    <2> DEFINE r == ReserveRecovery(svc, t)
    <2>1. r = [svc EXCEPT !.owner = t, !.immune = FALSE, !.dispatch = FALSE]
        BY <1>3 DEF Reserve, ReserveRecovery
    <2> HIDE DEF r
    <2>2. /\ r.running = svc.running /\ r.hasCurrent = svc.hasCurrent
          /\ r.current = svc.current /\ r.runningRecovery = svc.runningRecovery
          /\ r.catchup = svc.catchup /\ r.busy = svc.busy /\ r.queue = svc.queue
        BY <1>1, <2>1 DEF Service
    <2>3. Admits(r, t)
        BY <1>1, <1>3, <2>2 DEF Reserve, CanReserve, Admits, r
    <2> QED BY <2>3
<1> QED BY <1>2, <1>3

LEMMA AttemptsStart ==
    ASSUME IInv,
           \/ \E t \in RecoveryTask : Recover(t)
           \/ \E t \in ReplicaTask : Replicate(t)
    PROVE  \E r, t : Attempts(r, t)
<1>1. svc \in Service /\ now \in Nat
    BY DEF IInv, TypeOK, Time
<1>2. ASSUME NEW t \in GuestTask, NEW cw \in Nat, NEW has \in BOOLEAN, NEW immune \in BOOLEAN,
             CanStartAttempt(svc, t, immune), t \in RecoveryTask => has,
             Become(StartReservedAttempt(svc, t, WorkOf[t], cw, has, immune, now, Rate), {}),
             UNCHANGED <<now, finished, caught>>
      PROVE  \E r, x : Attempts(r, x)
    <2> DEFINE run == [task |-> t, start |-> now, service |-> ServiceOf(t)]
               catchup == IF ~has THEN svc.catchup
                          ELSE IF cw = 0 THEN now
                          ELSE now + ServiceTimeNs(cw, Rate)
               r == StartReservedAttempt(svc, t, WorkOf[t], cw, has, immune, now, Rate)
    <2>1. r = [svc EXCEPT !.known = svc.known \cup {t}, !.enqueued = svc.enqueued + 1,
                          !.hasCurrent = TRUE, !.current = run,
                          !.runningRecovery = TRUE, !.immune = immune,
                          !.catchup = catchup, !.completion = TRUE]
        BY <1>2 DEF StartReservedAttempt, ServiceOf
    <2>2. has => catchup # NoTime
        <3>1. CASE cw = 0
            BY <1>1, <3>1 DEF NoTime
        <3>2. CASE cw # 0
            <4>1. ServiceTimeNs(cw, Rate) \in Nat
                BY <1>2, <3>2, ServiceTimePositive, WorkAssumption DEF Work
            <4>2. ASSUME NEW n \in Nat PROVE now + n # NoTime
                BY <1>1 DEF NoTime
            <4> QED BY <3>2, <4>1, <4>2
        <3> QED BY <3>1, <3>2
    <2>3. /\ r.queue = svc.queue /\ r.hasCurrent /\ r.running = svc.running
          /\ r.busy = svc.busy /\ r.current = run /\ r.runningRecovery /\ r.catchup = catchup
        <3> HIDE DEF r, run, catchup
        <3> QED BY <1>1, <2>1 DEF Service
    <2>4. svc.owner = t /\ ~svc.hasCurrent
        BY <1>2 DEF CanStartAttempt
    <2>5. Become(r, {})
        BY <1>2
    <2> HIDE DEF r, catchup
    <2>6. Attempts(r, t)
        BY <1>2, <2>2, <2>3, <2>4, <2>5 DEF Attempts
    <2> QED BY <2>6
<1>3. ASSUME NEW t \in RecoveryTask, Recover(t) PROVE \E r, x : Attempts(r, x)
    <2>1. t \in GuestTask /\ CatchupOf[t] \in Nat
        BY WorkAssumption DEF GuestTask
    <2> QED BY <1>2, <1>3, <2>1 DEF Recover, StartRecovery
<1>4. ASSUME NEW t \in ReplicaTask, Replicate(t) PROVE \E r, x : Attempts(r, x)
    <2>1. t \in GuestTask /\ t \notin RecoveryTask /\ svc.immune \in BOOLEAN
        BY <1>1, PartitionAssumption DEF GuestTask, Service
    <2> QED BY <1>2, <1>4, <2>1 DEF Replicate, StartReplica
<1> QED BY <1>3, <1>4

LEMMA AdmitsKeeps ==
    ASSUME IInv, HistoryInv, IInv', NEW r, NEW t, Admits(r, t)
    PROVE  HistoryInv' /\ (BusyIsRunTime => BusyIsRunTime')
<1>1. /\ svc' = r /\ now' = now /\ finished' = finished /\ caught' = caught
      /\ t \in Task /\ now \in Nat /\ life \in [Task -> Life] /\ finished \subseteq Task
    BY DEF Admits, Enters, IInv, TypeOK, Time
<1>2. \A x \in Task : /\ life'[x].start = life[x].start /\ life'[x].end = life[x].end
                      /\ life'[x].enter = IF x = t THEN now ELSE life[x].enter
    BY <1>1 DEF Admits, Enters, Life
<1>3. \A x \in Task : life[x].enter \in Int
    BY <1>1 DEF Life, Time, NoTime
<1>4. ~Started(t) /\ ~(\E i \in svc.queue : i.task = t)
    BY <1>1 DEF IInv, LifeSound, Admits, ServiceInv, ServiceCore, QueueSane
<1>5. \A i \in r.queue : \/ i \in svc.queue /\ i.task # t
                         \/ i.task = t /\ i.work = WorkOf[t] /\ i.enter = now
    BY <1>4 DEF Admits
<1>6. CarriesOwn'
    <2>1. \A i \in svc.queue : i.task \in Task
        BY DEF IInv, TypeOK, Service, WorkItem
    <2>2. \A i \in r.queue : i.work = WorkOf[i.task] /\ i.enter = life'[i.task].enter
        BY <1>1, <1>2, <1>5, <2>1 DEF HistoryInv, CarriesOwn
    <2> QED BY <1>1, <1>2, <2>2 DEF HistoryInv, CarriesOwn, Admits, ServiceOf
<1>7. NoOvertaking'
    <2> SUFFICES ASSUME NEW a \in HomeTask, NEW b \in HomeTask,
                        life'[a].enter # NoTime, life'[a].enter < life'[b].enter,
                        life'[b].start # NoTime
                 PROVE  /\ ~(\E i \in r.queue : i.task = a)
                        /\ life'[a].start # NoTime => life'[a].start <= life'[b].start
        BY <1>1 DEF NoOvertaking, Started, Queued
    <2>1. a \in Task /\ b \in Task
        BY PartitionAssumption
    <2>2. b # t /\ Started(b)
        BY <1>2, <1>4, <2>1 DEF Started
    <2>3. a # t
        BY <1>1, <1>2, <1>3, <2>1, <2>2 DEF HistoryInv, CarriesOwn
    <2>4. ~Queued(a) /\ (Started(a) => life[a].start <= life[b].start)
        BY <1>2, <2>1, <2>2, <2>3 DEF HistoryInv, NoOvertaking
    <2> QED BY <1>2, <1>5, <2>1, <2>3, <2>4 DEF Queued, Started
<1>8. CatchupAhead' /\ FinishedExact' /\ CatchupReported'
    BY <1>1, <1>2
    DEF HistoryInv, CatchupAhead, FinishedExact, CatchupReported, Admits, Runs, Ended, ServiceOf
<1>9. BusyIsRunTime => BusyIsRunTime'
    <2>1. HeldFor' = HeldFor
        BY <1>1, <1>2 DEF HeldFor, Started, Ended
    <2> QED BY <1>1, <2>1 DEF BusyIsRunTime, BusyTimeNs, Admits
<1> QED BY <1>6, <1>7, <1>8, <1>9 DEF HistoryInv

LEMMA AttemptsKeep ==
    ASSUME IInv, HistoryInv, IInv', NEW r, NEW t, Attempts(r, t)
    PROVE  HistoryInv' /\ (BusyIsRunTime => BusyIsRunTime')
<1>1. /\ svc' = r /\ now' = now /\ finished' = finished /\ caught' = caught
      /\ now \in Nat /\ life \in [Task -> Life] /\ finished \subseteq Task /\ svc \in Service
      /\ t \in Task /\ t \notin HomeTask /\ ~svc.runningRecovery
    BY PartitionAssumption
    DEF Attempts, Become, IInv, TypeOK, Time, ServiceInv, ServiceCore, SlotOwned
<1>2. /\ r.current.task = t /\ r.current.start = now /\ r.current.service = ServiceOf(t)
      /\ ~Started(t) /\ ~Ended(t)
    BY <1>1 DEF Attempts, IInv, LifeSound
<1>3. \A x \in Task : Runs(r, x) <=> x = t
    BY <1>2 DEF Attempts, Runs
<1>4. \A x \in Task : /\ life'[x].enter = life[x].enter /\ life'[x].end = life[x].end
                      /\ life'[x].start = IF x = t THEN now ELSE life[x].start
    BY <1>1, <1>3 DEF Attempts, Become, Life, Runs
<1>5. CarriesOwn'
    <2>1. \A i \in svc.queue : i.task \in Task
        BY <1>1 DEF Service, WorkItem
    <2> QED BY <1>1, <1>2, <1>4, <2>1 DEF HistoryInv, CarriesOwn, Attempts, ServiceOf
<1>6. CatchupAhead'
    BY <1>1, <1>2 DEF Attempts, CatchupAhead, Runs
<1>7. NoOvertaking'
    <2>1. \A x \in HomeTask : x \in Task /\ x # t
        BY <1>1, PartitionAssumption
    <2> QED BY <1>1, <1>4, <2>1 DEF HistoryInv, NoOvertaking, Started, Queued, Attempts
<1>8. FinishedExact' /\ CatchupReported'
    BY <1>1, <1>2, <1>4
    DEF HistoryInv, FinishedExact, CatchupReported, Ended, ServiceOf
<1>9. BusyIsRunTime => BusyIsRunTime'
    <2>1. \A x \in Task : HeldFor'[x] = HeldFor[x]
        BY <1>1, <1>2, <1>4 DEF HeldFor, Started, Ended, NoTime
    <2>2. HeldFor' = HeldFor
        BY <2>1 DEF HeldFor
    <2>3. BusyTimeNs(r, now) = BusyTimeNs(svc, now)
        BY <1>1, <1>2 DEF BusyTimeNs, Attempts, Service
    <2> QED BY <1>1, <2>2, <2>3 DEF BusyIsRunTime
<1> QED BY <1>5, <1>6, <1>7, <1>8, <1>9 DEF HistoryInv

LEMMA HandlersCharge ==
    ASSUME IInv, HistoryInv, IInv', HandlerStep, BusyIsRunTime
    PROVE  BusyIsRunTime'
<1>1. now' = now /\ now \in Nat
    BY DEF HandlerStep, IInv, TypeOK, Time
<1>2. ASSUME NEW t \in Task PROVE HeldFor'[t] = HeldFor[t]
    <2>1. CASE Runs(svc', t) /\ ~Runs(svc, t)
        <3>1. ~Started(t) /\ ~Ended(t)
            BY <2>1, BegunWasQueued DEF HandlerStep, HistoryInv
        <3>2. life'[t].start = now /\ life'[t].end = life[t].end
            BY <2>1 DEF HandlerStep, Follows
        <3> QED BY <1>1, <3>1, <3>2 DEF HeldFor, Started, Ended, NoTime
    <2>2. CASE Runs(svc, t) /\ ~Runs(svc', t)
        <3>1. Started(t) /\ ~Ended(t)
            BY <2>2 DEF IInv, LifeSound
        <3>2. life'[t].start = life[t].start /\ life'[t].end = now
            BY <2>2 DEF HandlerStep, Follows
        <3> QED BY <1>1, <3>1, <3>2 DEF HeldFor, Started, Ended, NoTime
    <2>3. CASE Runs(svc, t) <=> Runs(svc', t)
        <3>1. life'[t].start = life[t].start /\ life'[t].end = life[t].end
            BY <2>3 DEF HandlerStep, Follows
        <3> QED BY <1>1, <3>1 DEF HeldFor, Started, Ended
    <2> QED BY <2>1, <2>2, <2>3
<1>3. HeldFor' = HeldFor
    BY <1>2 DEF HeldFor
<1>4. BusyTimeNs(svc', now) = BusyTimeNs(svc, now)
    BY DEF HandlerStep, Traces
<1> QED BY <1>1, <1>3, <1>4 DEF BusyIsRunTime

\* The catch-up event reports the recovery in the slot.
LEMMA CatchupKeepsHistory ==
    ASSUME IInv, HistoryInv, Catchup
    PROVE  HistoryInv' /\ (BusyIsRunTime => BusyIsRunTime')
<1>1. /\ svc \in Service /\ svc' = [svc EXCEPT !.catchup = NoTime]
      /\ now' = now /\ life' = life /\ finished' = finished /\ caught \subseteq caught'
    BY DEF Catchup, IInv, TypeOK
<1>2. /\ svc'.running = svc.running /\ svc'.queue = svc.queue
      /\ svc'.hasCurrent = svc.hasCurrent /\ svc'.current = svc.current
      /\ svc'.runningRecovery = svc.runningRecovery /\ svc'.busy = svc.busy
    BY <1>1 DEF Service
<1>3. CatchupAhead'
    <2> SUFFICES ASSUME NEW t \in RecoveryTask, svc.running, Runs(svc, t)
                 PROVE  svc.runningRecovery /\ t \in caught'
        BY <1>2 DEF CatchupAhead, Runs
    <2>1. svc.runningRecovery /\ svc.owner = t
        BY DEF HistoryInv, CatchupAhead, IInv, ServiceInv, ServiceCore, SlotOwned, Runs
    <2>2. t # NoTask
        BY TaskAssumption, PartitionAssumption DEF GuestTask, NoTask
    <2> QED BY <2>1, <2>2 DEF Catchup
<1>4. CarriesOwn' /\ NoOvertaking' /\ FinishedExact' /\ CatchupReported'
    BY <1>1, <1>2
    DEF HistoryInv, CarriesOwn, NoOvertaking, FinishedExact, CatchupReported,
        Started, Ended, Queued, ServiceOf
<1>5. BusyIsRunTime => BusyIsRunTime'
    <2>1. HeldFor' = HeldFor
        BY <1>1 DEF HeldFor, Started, Ended
    <2> QED BY <1>1, <1>2, <2>1 DEF BusyIsRunTime, BusyTimeNs
<1> QED BY <1>3, <1>4, <1>5 DEF HistoryInv

\* Time charges the run in the slot, and only that one.
LEMMA TickKeepsHistory ==
    ASSUME IInv, HistoryInv, Tick
    PROVE  HistoryInv' /\ (BusyIsRunTime => BusyIsRunTime')
<1>1. /\ svc \in Service /\ now \in Nat /\ life \in [Task -> Life]
      /\ svc' = svc /\ life' = life /\ finished' = finished /\ caught' = caught
      /\ now' = now + 1 /\ svc.running
    BY DEF Tick, IInv, TypeOK, Time
<1>2. \A t \in Task : life[t].enter \in Int /\ life[t].start \in Int /\ life[t].end \in Int
    BY <1>1 DEF Life, Time, NoTime
<1>3. CarriesOwn'
    BY <1>1, <1>2 DEF HistoryInv, CarriesOwn, ServiceOf
<1>4. CatchupAhead' /\ NoOvertaking' /\ FinishedExact' /\ CatchupReported'
    BY <1>1
    DEF HistoryInv, CatchupAhead, NoOvertaking, FinishedExact, CatchupReported,
        Started, Ended, Queued, Runs, ServiceOf
<1>5. ASSUME BusyIsRunTime PROVE BusyIsRunTime'
    <2> DEFINE held == HeldFor'
    <2>1. IsFiniteSet(Task) /\ Task \in SUBSET Task
        BY TaskAssumption
    <2>2. HeldFor \in [Task -> Int] /\ held \in [Task -> Int]
        BY <1>1, <1>2 DEF HeldFor, Started, Ended
    <2>3. \A t \in Task : held[t] = HeldFor[t] + (IF Runs(svc, t) THEN 1 ELSE 0)
        BY <1>1, <1>2 DEF HeldFor, IInv, LifeSound, Started, Ended
    <2> HIDE DEF held
    <2>4. PICK h : IsSum(h, HeldFor, Task)
        BY <2>1, <2>2, SumExists
    <2>5. PICK k : IsSum(k, held, Task)
        BY <2>1, <2>2, SumExists
    <2>6. /\ SumFunctionOnSet(HeldFor, Task) = h[Task]
          /\ SumFunctionOnSet(held, Task) = k[Task]
        BY <2>1, <2>2, <2>4, <2>5, SumFunctionIsSum
    <2>7. k[Task] = h[Task] + (IF svc.hasCurrent THEN 1 ELSE 0)
        <3>1. CASE svc.hasCurrent
            <4> DEFINE a == svc.current.task
            <4>1. a \in Task
                BY <1>1, <3>1, CurrentIsTask DEF IInv
            <4>2. \A x \in Task \ {a} : HeldFor[x] = held[x]
                BY <2>2, <2>3 DEF Runs
            <4>3. held[a] - HeldFor[a] = 1
                <5>1. held[a] = HeldFor[a] + 1 /\ HeldFor[a] \in Int
                    BY <2>2, <2>3, <3>1, <4>1 DEF Runs
                <5> QED BY <5>1
            <4> HIDE DEF a
            <4>4. k[Task] = h[Task] + (held[a] - HeldFor[a])
                BY <2>1, <2>2, <2>4, <2>5, <4>1, <4>2, SumMoves
            <4> QED BY <3>1, <4>3, <4>4
        <3>2. CASE ~svc.hasCurrent
            <4>1. \A x \in Task : HeldFor[x] = held[x]
                BY <2>2, <2>3, <3>2 DEF Runs
            <4>2. h[Task] = k[Task]
                BY <2>1, <2>2, <2>4, <2>5, <4>1, SumsAgree
            <4>3. h[Task] \in Int
                BY <2>1, <2>4 DEF IsSum
            <4> QED BY <3>2, <4>2, <4>3
        <3> QED BY <3>1, <3>2
    <2>8. BusyTimeNs(svc, now + 1) = BusyTimeNs(svc, now) + (IF svc.hasCurrent THEN 1 ELSE 0)
        <3>1. svc.busy \in Nat /\ (svc.hasCurrent => svc.current.start \in Nat)
            BY <1>1, CurrentIsTask DEF Service, IInv
        <3> QED BY <1>1, <3>1 DEF BusyTimeNs
    <2>9. BusyTimeNs(svc, now + 1) = SumFunctionOnSet(held, Task)
        BY <1>5, <2>6, <2>7, <2>8 DEF BusyIsRunTime
    <2> QED BY <1>1, <2>9 DEF BusyIsRunTime, held
<1> QED BY <1>3, <1>4, <1>5 DEF HistoryInv

-----------------------------------------------------------------------------

LEMMA HistoryStep ==
    ASSUME IInv, IInv', HistoryInv, [Next]_vars
    PROVE  HistoryInv' /\ (BusyIsRunTime => BusyIsRunTime')
<1>1. CASE HandlerStep
    <2>1. svc' \in Service
        BY DEF IInv, TypeOK
    <2> QED BY <1>1, <2>1, TracesKeepHistory, HandlersCharge DEF HandlerStep
<1>2. CASE \E r, t : Admits(r, t)
    BY <1>2, AdmitsKeeps
<1>3. CASE \E r, t : Attempts(r, t)
    BY <1>3, AttemptsKeep
<1>4. CASE UNCHANGED vars
    <2>1. /\ now' = now /\ svc' = svc /\ life' = life /\ finished' = finished /\ caught' = caught
        BY <1>4 DEF vars
    <2>2. CarriesOwn' /\ CatchupAhead' /\ NoOvertaking' /\ FinishedExact' /\ CatchupReported'
        BY <2>1
        DEF HistoryInv, CarriesOwn, CatchupAhead, NoOvertaking, FinishedExact, CatchupReported,
            Started, Ended, Queued, Runs, ServiceOf
    <2>3. BusyIsRunTime => BusyIsRunTime'
        BY <2>1 DEF BusyIsRunTime, HeldFor, Started, Ended
    <2> QED BY <2>2, <2>3 DEF HistoryInv
<1>5. CASE Start \/ Stop \/ Dispatch \/ Complete
    BY <1>1, <1>5, EventsAreHandlers DEF HistoryInv
<1>6. CASE Coordinator
    <2>1. CASE \E t \in HomeTask : Submit(t)
        BY <1>2, <2>1, AdmissionsAdmit
    <2>2. CASE \A t \in HomeTask : ~Submit(t)
        BY <1>1, <1>6, <2>2, CoordinatorIsHandler DEF HistoryInv
    <2> QED BY <2>1, <2>2
<1>7. CASE Protection
    BY <1>1, <1>2, <1>3, <1>7, AdmissionsAdmit, AttemptsStart, ProtectionIsHandler DEF Protection
<1>8. CASE Catchup
    BY <1>8, CatchupKeepsHistory
<1>9. CASE Tick
    BY <1>9, TickKeepsHistory
<1> QED BY <1>4, <1>5, <1>6, <1>7, <1>8, <1>9 DEF Next

LEMMA InitHistory == Init => HistoryInv /\ BusyIsRunTime
<1> SUFFICES ASSUME Init PROVE HistoryInv /\ BusyIsRunTime
    OBVIOUS
<1>1. /\ svc.queue = {} /\ svc.hasCurrent = FALSE /\ svc.busy = 0 /\ svc.running = FALSE
      /\ finished = {} /\ now = 0
      /\ \A t \in Task : life[t].enter = NoTime /\ life[t].start = NoTime
    BY DEF Init, NewService
<1>2. HistoryInv
    <2>1. CarriesOwn
        BY <1>1 DEF CarriesOwn, NoTime
    <2>2. NoOvertaking
        BY <1>1, PartitionAssumption DEF NoOvertaking
    <2> QED
        BY <1>1, <2>1, <2>2 DEF HistoryInv, CatchupAhead, FinishedExact, CatchupReported, Runs
<1>3. BusyIsRunTime
    <2>1. IsFiniteSet(Task) /\ Task \in SUBSET Task /\ {} \in SUBSET Task
        BY TaskAssumption
    <2>2. HeldFor \in [Task -> Int] /\ \A t \in Task : HeldFor[t] = 0
        BY <1>1 DEF HeldFor, Started
    <2>3. PICK h : IsSum(h, HeldFor, Task)
        BY <2>1, <2>2, SumExists
    <2>4. h[{}] = h[Task]
        BY <2>1, <2>2, <2>3, SumsAgree
    <2>5. SumFunctionOnSet(HeldFor, Task) = h[Task]
        BY <2>1, <2>2, <2>3, SumFunctionIsSum
    <2>6. h[{}] = 0
        BY <2>3 DEF IsSum
    <2>7. BusyTimeNs(svc, now) = 0
        BY <1>1 DEF BusyTimeNs
    <2> QED BY <2>4, <2>5, <2>6, <2>7 DEF BusyIsRunTime
<1> QED BY <1>2, <1>3

\* The second invariant holds together with the first, under every
\* interleaving of the callers.
THEOREM HistoryInvariant == Spec => []HistoryInv
<1>1. Init => IInv /\ HistoryInv
    BY InitSound, InitHistory
<1>2. IInv /\ IInv' /\ HistoryInv /\ [Next]_vars => HistoryInv'
    BY HistoryStep
<1> QED BY <1>1, <1>2, InductiveInvariant, PTL DEF Spec

\* First come, first served: no ordinary task starts before one that entered
\* at an earlier instant and still waits, whatever fails, recovers or reserves
\* the slot in between.
THEOREM NothingOvertakes == Spec => []NoOvertaking
<1>1. HistoryInv => NoOvertaking
    BY DEF HistoryInv
<1> QED BY HistoryInvariant, <1>1, PTL

\* Every task that is reported complete held the slot for exactly its service
\* time, counted from its own start.
THEOREM CompletionsAreExact == Spec => []FinishedExact
<1>1. HistoryInv => FinishedExact
    BY DEF HistoryInv
<1> QED BY HistoryInvariant, <1>1, PTL

\* A recovery that is reported complete has reported its catch-up.
THEOREM CatchupsAreReported == Spec => []CatchupReported
<1>1. HistoryInv => CatchupReported
    BY DEF HistoryInv
<1> QED BY HistoryInvariant, <1>1, PTL

\* The busy time of a service is the sum, over all tasks, of the time each
\* held the slot: nothing is charged twice and nothing is lost.
THEOREM BusyTimeIsExact == Spec => []BusyIsRunTime
<1>1. Init => BusyIsRunTime
    BY InitHistory
<1>2. IInv /\ IInv' /\ HistoryInv /\ BusyIsRunTime /\ [Next]_vars => BusyIsRunTime'
    BY HistoryStep
<1> QED BY <1>1, <1>2, InductiveInvariant, HistoryInvariant, PTL DEF Spec

=============================================================================
