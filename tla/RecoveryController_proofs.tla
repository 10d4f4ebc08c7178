----------------------- MODULE RecoveryController_proofs -----------------------
(***************************************************************************)
(* What holds of RecoveryController for any tasks, satellites, routes,     *)
(* budgets and faults: every event, and every step of a fault batch, keeps *)
(* each task in order, and with it the properties the runs check.          *)
(***************************************************************************)
EXTENDS RecoveryController, ComputeServiceOps_proofs

-----------------------------------------------------------------------------
(* Of a world, what concerns one task *)

\* v has of x what u has.
Beside(u, v, x) ==
    /\ v.now = u.now /\ v.deferred = u.deferred
    /\ v.task[x] = u.task[x] /\ v.attempt[x] = u.attempt[x]
    /\ \A o \in StorageEntry : o.task = x => (o \in v.store <=> o \in u.store)
    /\ \A n \in Server : Unmoved(v.svc[n], u.svc[n], x)

SameSky(u, v) == v.dead = u.dead /\ \A n \in Server : v.svc[n].available = u.svc[n].available

LEMMA BesideTransitive ==
    ASSUME NEW u, NEW v, NEW z, NEW x, Beside(u, v, x), Beside(v, z, x)
    PROVE  Beside(u, z, x)
BY UnmovedTransitive DEF Beside

LEMMA BesideReflexive ==
    ASSUME NEW u, NEW x
    PROVE  Beside(u, u, x)
BY UnmovedReflexive DEF Beside

LEMMA BesideHeld ==
    ASSUME NEW u \in World, NEW v \in World, NEW x, Beside(u, v, x)
    PROVE  /\ \A n, kind : Held(v, n, x, kind) = Held(u, n, x, kind)
           /\ \A n, kind : Committed(v, n, x, kind) <=> Committed(u, n, x, kind)
           /\ Stores(v, x) <=> Stores(u, x)
<1>1. u.store \subseteq StorageEntry /\ v.store \subseteq StorageEntry
    BY DEF World
<1>2. ASSUME NEW n, NEW kind PROVE Held(v, n, x, kind) = Held(u, n, x, kind)
    BY <1>1 DEF Held, Beside
<1>3. Stores(v, x) <=> Stores(u, x)
    BY <1>1 DEF Stores, Beside
<1>4. \A n, kind : Held(v, n, x, kind) = Held(u, n, x, kind)
    BY <1>2
<1>5. ASSUME NEW n, NEW kind PROVE Committed(v, n, x, kind) <=> Committed(u, n, x, kind)
    BY <1>4 DEF Committed
<1> QED BY <1>3, <1>4, <1>5

\* What is said of x in u can be said of it in v.
LEMMA BesideKeeps ==
    ASSUME NEW u \in World, NEW v \in World, NEW x \in Task, Beside(u, v, x), TaskOK(u, x)
    PROVE  TaskOK(v, x)
<1>1. /\ v.now = u.now /\ v.deferred = u.deferred
      /\ v.task[x] = u.task[x] /\ v.attempt[x] = u.attempt[x]
      /\ \A n \in Server : Unmoved(v.svc[n], u.svc[n], x)
    BY DEF Beside
<1>2. /\ \A n, kind : Held(v, n, x, kind) = Held(u, n, x, kind)
      /\ \A n, kind : Committed(v, n, x, kind) <=> Committed(u, n, x, kind)
      /\ Stores(v, x) <=> Stores(u, x)
    BY BesideHeld
<1>3. Located(v, x)
    <2>1. Located(u, x)
        BY DEF TaskOK
    <2>2. ASSUME NEW n \in Server
          PROVE  LET r == v.attempt[x] s == v.svc[n] IN
                 /\ x \in s.known => n = HostNode[x] \/ (r.started /\ r.node = n)
                 /\ \A i \in s.queue : i.task = x =>
                       n = HostNode[x] /\ v.task[x].generation = 0 /\ v.task[x].state = "QUEUED"
                 /\ s.owner = x => r.live /\ r.node = n /\ r.stage \in {"RECOVERING", "RUNNING_BACKUP"}
                 /\ Runs(s, x) =>
                       \/ s.runningRecovery /\ s.immune /\ r.live /\ r.node = n /\ r.stage = "RUNNING_BACKUP"
                       \/ ~s.runningRecovery /\ n = HostNode[x] /\ v.task[x].generation = 0
                          /\ v.task[x].state = "RUNNING"
        BY <1>1, <2>1 DEF Located, Unmoved
    <2> QED BY <2>2 DEF Located
<1>4. \A k : (Received(v, x, k) <=> Received(u, x, k)) /\ (Wanted(v, x, k) <=> Wanted(u, x, k))
    BY <1>1 DEF Received, Wanted
<1>5. /\ InputReady(v, x) <=> InputReady(u, x)
      /\ TailReady(v, x) <=> TailReady(u, x)
      /\ StateReady(v, x) <=> StateReady(u, x)
      /\ Merging(v, x) <=> Merging(u, x)
    <2>1. InputReady(v, x) <=> InputReady(u, x)
        BY <1>4 DEF InputReady
    <2>2. TailReady(v, x) <=> TailReady(u, x)
        BY <1>1, <1>4 DEF TailReady
    <2>3. StateReady(v, x) <=> StateReady(u, x)
        BY <1>1, <1>4 DEF StateReady
    <2>4. Merging(v, x) <=> Merging(u, x)
        BY <1>1, <1>4, <2>2 DEF Merging
    <2> QED BY <2>1, <2>2, <2>3, <2>4
<1>6. Joined(v, x)
    BY <1>1, <1>4, <1>5 DEF TaskOK, Joined
<1>7. Timed(v, x)
    BY <1>1 DEF TaskOK, Timed
<1>8. \A n \in Server : \A b \in BOOLEAN : Occupies(u, x, n, b) => Occupies(v, x, n, b)
    BY <1>1 DEF Occupies, Unmoved
<1>9. v.task[x].generation = 0 => Primary(v, x)
    <2> SUFFICES ASSUME v.task[x].generation = 0 PROVE Primary(v, x)
        OBVIOUS
    <2>1. Primary(u, x)
        BY <1>1 DEF TaskOK
    <2>2. HostNode[x] \in Server
        BY NodeAssumption
    <2>3. v.task[x].state = "INPUT_TRANSFERRING" => x \notin v.svc[HostNode[x]].known
        BY <1>1, <2>1, <2>2 DEF Primary, Unmoved
    <2>4. ASSUME NEW o \in v.store, o.task = x
          PROVE  /\ v.task[x].state = "RUNNING"
                 /\ o.node = LocalNode[x] /\ o.kind = "RECORD"
                      => v.now - v.svc[HostNode[x]].current.start >= LocalWork
        <3>1. o \in u.store
            BY <2>4 DEF World, Beside
        <3>2. u.task[x].state = "RUNNING" /\ Occupies(u, x, HostNode[x], FALSE)
            BY <2>1, <2>4, <3>1 DEF Primary
        <3>3. v.svc[HostNode[x]].current = u.svc[HostNode[x]].current
            BY <1>1, <2>2, <3>2 DEF Occupies, Unmoved
        <3> QED BY <1>1, <2>1, <2>4, <3>1, <3>2, <3>3 DEF Primary
    <2> QED BY <1>1, <1>8, <2>1, <2>2, <2>3, <2>4 DEF Primary
<1>10. v.task[x].generation = 1 => Recovery(v, x)
    <2> SUFFICES ASSUME v.task[x].generation = 1 PROVE Recovery(v, x)
        OBVIOUS
    <2>1. Recovery(u, x)
        BY <1>1 DEF TaskOK
    <2>2. Deciding(u, x) => Deciding(v, x)
        BY <1>1 DEF Deciding
    <2>3. Waiting(u, x, {}) => Waiting(v, x, {})
        <3> SUFFICES ASSUME Waiting(u, x, {}) PROVE Waiting(v, x, {})
            OBVIOUS
        <3>1. Stocked(v, x)
            BY <1>1, <1>2, <1>4 DEF Waiting, Stocked
        <3>2. v.attempt[x].node \in Server
            BY <1>1 DEF Waiting
        <3>3. v.svc[v.attempt[x].node].owner = x /\ ~v.svc[v.attempt[x].node].runningRecovery
            BY <1>1, <3>2 DEF Waiting, Unmoved
        <3> QED BY <1>1, <1>4, <3>1, <3>3 DEF Waiting
    <2>4. Past(u, x) => Past(v, x)
        BY <1>1, <1>2 DEF Past
    <2>5. Computing(u, x) /\ Occupies(u, x, u.attempt[x].node, TRUE)
            => Computing(v, x) /\ Occupies(v, x, v.attempt[x].node, TRUE)
        BY <1>1, <1>8, <2>4 DEF Computing, Past
    <2>6. Resulting(u, x) => Resulting(v, x)
        BY <1>1, <2>4 DEF Resulting
    <2>7. Ended(u, x) => Ended(v, x)
        BY <1>1, <1>2 DEF Ended, Terminal
    <2> QED BY <1>5, <2>1, <2>2, <2>3, <2>5, <2>6, <2>7 DEF Recovery
<1> QED BY <1>3, <1>6, <1>7, <1>9, <1>10 DEF TaskOK

LEMMA BesideExposed ==
    ASSUME NEW u \in World, NEW v \in World, NEW x \in Task, NEW closed, NEW lost,
           Beside(u, v, x), SameSky(u, v), Exposed(u, x, closed, lost)
    PROVE  Exposed(v, x, closed, lost)
<1>1. HostNode[x] \in Server
    BY NodeAssumption
<1>2. \A n : Needs(v, x, n) <=> Needs(u, x, n)
    BY DEF Needs, Received, Beside
<1> QED BY <1>1, <1>2 DEF Exposed, Beside, SameSky

\* Nothing but the tasks of T has changed.
Only(u, v, T) == SameSky(u, v) /\ \A x \in Task \ T : Beside(u, v, x)

\* The task t is in order again, and nothing else has changed.
Changes(u, v, t, closed, lost) ==
    WorldOK(v) /\ Only(u, v, {t}) /\ TaskOK(v, t) /\ Exposed(v, t, closed, lost)

Closes(u, v, t) ==
    /\ WorldOK(v) /\ Only(u, v, {t}) /\ TaskOK(v, t)
    /\ Terminal(v, t) /\ ~v.attempt[t].live

LEMMA OnlyTransitive ==
    ASSUME NEW u, NEW v, NEW z, NEW T, Only(u, v, T), Only(v, z, T)
    PROVE  Only(u, z, T)
BY BesideTransitive DEF Only, SameSky

LEMMA OnlyReflexive ==
    ASSUME NEW u, NEW T
    PROVE  Only(u, u, T)
BY BesideReflexive DEF Only, SameSky

LEMMA ClosesAfter ==
    ASSUME NEW u, NEW v, NEW z, NEW t, Only(u, v, {t}), Closes(v, z, t)
    PROVE  Closes(u, z, t)
<1>1. Only(v, z, {t})
    BY DEF Closes
<1>2. Only(u, z, {t})
    BY <1>1, OnlyTransitive
<1> QED BY <1>2 DEF Closes

LEMMA ChangesAfter ==
    ASSUME NEW u, NEW v, NEW z, NEW t, NEW closed, NEW lost,
           Only(u, v, {t}), Changes(v, z, t, closed, lost)
    PROVE  Changes(u, z, t, closed, lost)
<1>1. Only(v, z, {t})
    BY DEF Changes
<1>2. Only(u, z, {t})
    BY <1>1, OnlyTransitive
<1> QED BY <1>2 DEF Changes

LEMMA ClosesChanges ==
    ASSUME NEW u, NEW v, NEW t \in Task, NEW closed, NEW lost, Closes(u, v, t)
    PROVE  Changes(u, v, t, closed, lost)
<1>1. v.task[t].state # "RUNNING"
    BY DEF Closes, Terminal, TerminalState
<1>2. Exposed(v, t, closed, lost)
    BY <1>1 DEF Closes, Exposed
<1> QED BY <1>2 DEF Closes, Changes

\* The world is sound again.
LEMMA ChangesSound ==
    ASSUME NEW u, NEW v, NEW t \in Task, NEW closed, NEW lost, WorldOK(u),
           \A x \in Task \ {t} : TaskOK(u, x) /\ Exposed(u, x, closed, lost),
           Changes(u, v, t, closed, lost)
    PROVE  Sound(v, closed, lost)
<1>1. u \in World /\ v \in World
    BY DEF WorldOK, Changes
<1>2. ASSUME NEW x \in Task \ {t} PROVE TaskOK(v, x) /\ Exposed(v, x, closed, lost)
    <2>1. Beside(u, v, x) /\ SameSky(u, v)
        BY DEF Changes, Only
    <2> QED BY <1>1, <2>1, BesideKeeps, BesideExposed
<1> QED BY <1>2 DEF Sound, Changes

\* Only the records of t have changed: its state, its attempt, its storage.
Plain(u, v, t) ==
    /\ v \in World /\ v.ok
    /\ v.now = u.now /\ v.deferred = u.deferred /\ v.dead = u.dead /\ v.svc = u.svc
    /\ \A x \in Task \ {t} : v.task[x] = u.task[x] /\ v.attempt[x] = u.attempt[x]
    /\ \A o \in StorageEntry : o.task # t => (o \in v.store <=> o \in u.store)

LEMMA FreeType ==
    ASSUME NEW u, IsFiniteSet(u.store), NEW n \in Server
    PROVE  /\ IsFiniteSet({o \in u.store : o.node = n})
           /\ Free(u, n) \in Int
<1>1. IsFiniteSet({o \in u.store : o.node = n})
    BY FS_Subset
<1>2. Cardinality({o \in u.store : o.node = n}) \in Nat
    BY <1>1, FS_CardinalityType
<1> QED BY <1>1, <1>2, WorkAssumption DEF Free

LEMMA FreeGrows ==
    ASSUME NEW u, NEW v, IsFiniteSet(u.store), v.store \subseteq u.store
    PROVE  IsFiniteSet(v.store) /\ \A n \in Server : Free(v, n) >= Free(u, n)
<1>1. IsFiniteSet(v.store)
    BY FS_Subset
<1>2. ASSUME NEW n \in Server PROVE Free(v, n) >= Free(u, n)
    <2> DEFINE a == {o \in u.store : o.node = n}
               b == {o \in v.store : o.node = n}
    <2>1. IsFiniteSet(a) /\ b \subseteq a
        BY FS_Subset
    <2>2. Cardinality(b) <= Cardinality(a) /\ Cardinality(a) \in Nat /\ Cardinality(b) \in Nat
        BY <2>1, FS_Subset, FS_CardinalityType
    <2>3. Capacity[n] \in Nat
        BY WorkAssumption
    <2>4. Free(v, n) = Capacity[n] - Cardinality(b) /\ Free(u, n) = Capacity[n] - Cardinality(a)
        BY DEF Free
    <2> HIDE DEF a, b
    <2> QED BY <2>2, <2>3, <2>4
<1> QED BY <1>1, <1>2

LEMMA PlainOnly ==
    ASSUME NEW u, NEW v, NEW t, Plain(u, v, t)
    PROVE  Only(u, v, {t})
BY UnmovedReflexive DEF Plain, Only, SameSky, Beside

LEMMA PlainWorld ==
    ASSUME NEW u, NEW v, NEW t, WorldOK(u), Plain(u, v, t), v.store \subseteq u.store
    PROVE  WorldOK(v) /\ Only(u, v, {t})
<1>1. IsFiniteSet(u.store) /\ \A n \in Server : NodeOK(u, n)
    BY DEF WorldOK
<1>2. IsFiniteSet(v.store) /\ \A n \in Server : Free(v, n) >= Free(u, n)
    BY <1>1, FreeGrows
<1>3. \A n \in Server : Free(v, n) \in Int /\ Free(u, n) \in Int
    BY <1>1, <1>2, FreeType
<1>4. \A n \in Server : NodeOK(v, n)
    BY <1>1, <1>2, <1>3 DEF NodeOK, Plain
<1> QED BY <1>2, <1>4, PlainOnly DEF WorldOK, Plain

-----------------------------------------------------------------------------
(* The end of an attempt *)

\* An attempt whose outcome is known, still holding what it has.
Ending(u, t) ==
    LET r == u.attempt[t] IN
    /\ u.task[t].generation = 1 /\ r.live /\ Terminal(u, t) /\ r.stage = u.task[t].state
    /\ ~u.task[t].timer /\ Joined(u, t)
    /\ \A n \in Server :
         LET s == u.svc[n] IN
         /\ t \in s.known => n = HostNode[t] \/ (r.started /\ r.node = n)
         /\ \A i \in s.queue : i.task # t
         /\ s.owner = t => r.node = n
         /\ Runs(s, t) => s.runningRecovery

LEMMA WorldTypes ==
    ASSUME NEW u \in World
    PROVE  /\ u.now \in Time /\ u.ok \in BOOLEAN /\ u.deferred \in BOOLEAN
           /\ u.svc \in [Server -> Service] /\ u.task \in [Task -> TaskRuntime]
           /\ u.attempt \in [Task -> Attempt] /\ u.store \subseteq StorageEntry
           /\ u.stopped \subseteq Task /\ u.dead \subseteq Sat /\ u.ended \in BOOLEAN
BY DEF World

LEMMA CleanupCloses ==
    ASSUME NEW u, NEW t \in Task, WorldOK(u), Ending(u, t)
    PROVE  Closes(u, Cleanup(u, t), t)
<1> DEFINE r == u.attempt[t]
           delivery == [k \in Kind |-> IF r.delivery[k].step \in {"local", "flying"}
                                       THEN Absent ELSE r.delivery[k]]
           e == [r EXCEPT !.live = FALSE, !.decide = NoTime, !.merge = NoTime,
                          !.delivery = delivery]
           svc == [n \in Server |-> IF n = r.node THEN CancelRecovery(u.svc[n], t, u.now)
                                    ELSE u.svc[n]]
           store == {o \in u.store : o.task # t \/ o.node \notin Server}
           attempt == [u.attempt EXCEPT ![t] = e]
           v == Cleanup(u, t)
<1>0. u \in World /\ u.ok /\ IsFiniteSet(u.store) /\ \A n \in Server : NodeOK(u, n)
    BY DEF WorldOK
<1>1. /\ u.now \in Time /\ u.svc \in [Server -> Service] /\ u.task \in [Task -> TaskRuntime]
      /\ u.attempt \in [Task -> Attempt] /\ u.store \subseteq StorageEntry
    BY <1>0, WorldTypes
<1>2. r \in Attempt /\ r.live
    BY <1>1 DEF Ending
<1>3. v = [u EXCEPT !.store = store, !.attempt = attempt, !.svc = svc]
    BY <1>2 DEF Cleanup, ReleaseRecoveryState, ReleaseTask
<1>4. delivery \in [Kind -> Delivery]
    <2>1. r.delivery \in [Kind -> Delivery] /\ Absent \in Delivery
        BY <1>2 DEF Attempt, Delivery, Absent
    <2> QED BY <2>1
<1>5. \A k \in Kind : /\ delivery[k].step \notin {"local", "flying"}
                      /\ delivery[k].step = "received" <=> r.delivery[k].step = "received"
    BY DEF Absent
<1> HIDE DEF delivery
<1>6. e \in Attempt
    <2>1. NoTime \in Time \cup {NoTime}
        OBVIOUS
    <2> QED BY <1>2, <1>4, <2>1 DEF Attempt
<1>7. /\ ~e.live /\ e.stage = r.stage /\ e.node = r.node /\ e.path = r.path
      /\ e.decide = NoTime /\ e.merge = NoTime /\ e.committed = r.committed
      /\ e.started = r.started /\ e.delivery = delivery
    BY <1>2 DEF Attempt
<1> HIDE DEF e
<1>8. attempt \in [Task -> Attempt] /\ attempt[t] = e
      /\ \A x \in Task \ {t} : attempt[x] = u.attempt[x]
    BY <1>1, <1>6
<1> HIDE DEF attempt
<1>9. store \subseteq u.store /\ \A o \in store : o.task # t
    BY <1>1 DEF StorageEntry
<1>10. \A o \in StorageEntry : o.task # t => (o \in store <=> o \in u.store)
    OBVIOUS
<1> HIDE DEF store
<1>11. ASSUME NEW n \in Server
       PROVE  /\ svc[n] \in Service /\ ServiceCore(svc[n], u.now) /\ DispatchArmed(svc[n])
              /\ svc[n].running = u.svc[n].running /\ svc[n].available = u.svc[n].available
              /\ svc[n].owner # t /\ ~Runs(svc[n], t)
              /\ svc[n].known = u.svc[n].known /\ svc[n].queue = u.svc[n].queue
              /\ \A x \in Task : x # t => Unmoved(svc[n], u.svc[n], x)
    <2>1. /\ u.svc[n] \in Service /\ ServiceCore(u.svc[n], u.now) /\ DispatchArmed(u.svc[n])
          /\ Runs(u.svc[n], t) => u.svc[n].runningRecovery
          /\ u.svc[n].owner = t => n = r.node
        BY <1>0, <1>1 DEF NodeOK, Ending
    <2>2. CASE n = r.node
        <3>1. svc[n] = CancelRecovery(u.svc[n], t, u.now)
            BY <2>2
        <3> HIDE DEF svc
        <3> QED BY <1>1, <2>1, <3>1, GiveBackKeeps, CancelRecoveryUnmoved
    <2>3. CASE n # r.node
        <3>1. svc[n] = u.svc[n]
            BY <2>3
        <3>2. u.svc[n].owner # t
            BY <2>1, <2>3
        <3>3. ~Runs(u.svc[n], t)
            BY <2>1, <3>2 DEF Runs, ServiceCore, SlotOwned
        <3> QED BY <2>1, <3>1, <3>2, <3>3, UnmovedReflexive
    <2> QED BY <2>2, <2>3
<1>12. svc \in [Server -> Service]
    BY <1>11
<1> HIDE DEF svc
<1>13. /\ v \in World /\ v.ok /\ v.now = u.now /\ v.deferred = u.deferred /\ v.dead = u.dead
       /\ v.svc = svc /\ v.task = u.task /\ v.attempt = attempt /\ v.store = store
    <2>1. store \subseteq StorageEntry
        BY <1>1, <1>9
    <2> QED BY <1>0, <1>3, <1>8, <1>12, <2>1 DEF World
<1> HIDE DEF v
<1>14. WorldOK(v)
    <2>1. IsFiniteSet(v.store) /\ \A n \in Server : Free(v, n) >= Free(u, n)
        BY <1>0, <1>9, <1>13, FreeGrows
    <2>2. \A n \in Server : Free(v, n) \in Int /\ Free(u, n) \in Int
        BY <1>0, <2>1, FreeType
    <2>3. \A n \in Server : NodeOK(v, n)
        BY <1>0, <1>11, <1>13, <2>1, <2>2 DEF NodeOK
    <2> QED BY <1>13, <2>1, <2>3 DEF WorldOK
<1>15. Only(u, v, {t})
    <2>1. SameSky(u, v)
        BY <1>11, <1>13 DEF SameSky
    <2>2. ASSUME NEW x \in Task \ {t} PROVE Beside(u, v, x)
        <3>1. \A n \in Server : Unmoved(v.svc[n], u.svc[n], x)
            BY <1>11, <1>13
        <3>2. \A o \in StorageEntry : o.task = x => (o \in v.store <=> o \in u.store)
            BY <1>10, <1>13
        <3> QED BY <1>8, <1>13, <3>1, <3>2 DEF Beside
    <2> QED BY <2>1, <2>2 DEF Only
<1>16. Located(v, t)
    <2>1. ASSUME NEW n \in Server
          PROVE  /\ t \in v.svc[n].known => n = HostNode[t] \/ (e.started /\ e.node = n)
                 /\ \A i \in v.svc[n].queue : i.task # t
                 /\ v.svc[n].owner # t /\ ~Runs(v.svc[n], t)
        BY <1>7, <1>11, <1>13 DEF Ending
    <2> QED BY <1>8, <1>13, <2>1 DEF Located
<1>17. Joined(v, t)
    <2>1. \A k \in Kind : Received(v, t, k) <=> Received(u, t, k)
        BY <1>5, <1>7, <1>8, <1>13 DEF Received
    <2>2. Joined(u, t)
        BY DEF Ending
    <2>3. {"INPUT", "STATE", "TAIL"} \subseteq Kind
        BY DEF Kind
    <2>4. Wanted(v, t, "INPUT") <=> Wanted(u, t, "INPUT")
        BY <1>7, <1>8, <1>13 DEF Wanted
    <2> QED BY <1>7, <1>8, <1>13, <2>1, <2>2, <2>3, <2>4 DEF Joined, InputReady
<1>18. Terminal(v, t)
    BY <1>13 DEF Ending, Terminal
<1>19. Ended(v, t)
    <2>1. ~Stores(v, t)
        BY <1>9, <1>13 DEF Stores
    <2> QED BY <1>5, <1>7, <1>8, <1>13, <1>18, <2>1 DEF Ended, Ending
<1>20. TaskOK(v, t)
    <2>1. v.task[t].generation = 1 /\ ~v.task[t].timer
        BY <1>13 DEF Ending
    <2>2. v.task[t].state \notin {"RUNNING", "RECOVERING", "RUNNING_BACKUP"}
        BY <1>18 DEF Terminal, TerminalState
    <2>3. Timed(v, t)
        BY <2>1, <2>2 DEF Timed
    <2> QED BY <1>16, <1>17, <1>19, <2>1, <2>3 DEF TaskOK, Recovery
<1> QED BY <1>7, <1>8, <1>13, <1>14, <1>15, <1>18, <1>20 DEF Closes, v

\* A live recovery that fails leaves nothing behind, whatever it was doing.
LEMMA FailRecoveryCloses ==
    ASSUME NEW u, NEW t \in Task, WorldOK(u), Located(u, t), Joined(u, t),
           u.task[t].generation = 1, u.attempt[t].live, ~Terminal(u, t)
    PROVE  Closes(u, FailRecovery(u, t), t)
<1> DEFINE v == [u EXCEPT !.task[t].state = "FAILED", !.task[t].timer = FALSE,
                          !.attempt[t].stage = "FAILED"]
           a == [u.task[t] EXCEPT !.state = "FAILED", !.timer = FALSE]
           e == [u.attempt[t] EXCEPT !.stage = "FAILED"]
<1>0. u \in World
    BY DEF WorldOK
<1>1. /\ u.task \in [Task -> TaskRuntime] /\ u.attempt \in [Task -> Attempt]
      /\ u.svc \in [Server -> Service]
    BY <1>0, WorldTypes
<1>2. FailRecovery(u, t) = Cleanup(v, t)
    BY DEF FailRecovery
<1>3. /\ v.now = u.now /\ v.ok = u.ok /\ v.deferred = u.deferred /\ v.dead = u.dead
      /\ v.svc = u.svc /\ v.store = u.store
      /\ v.task = [u.task EXCEPT ![t] = a] /\ v.attempt = [u.attempt EXCEPT ![t] = e]
    BY <1>0, <1>1 DEF World
<1>4. v \in World
    <2>1. a \in TaskRuntime
        BY <1>1, ZenonT(60) DEF TaskRuntime, TerminalState
    <2>2. e \in Attempt
        BY <1>1 DEF Attempt, Stage
    <2> HIDE DEF a, e
    <2>3. v.task \in [Task -> TaskRuntime] /\ v.attempt \in [Task -> Attempt]
        <3> HIDE DEF v
        <3> QED BY <1>1, <1>3, <2>1, <2>2
    <2> QED BY <1>0, <2>3 DEF World
<1> HIDE DEF v
<1>5. /\ v.task[t].state = "FAILED" /\ ~v.task[t].timer /\ v.task[t].generation = 1
      /\ v.attempt[t].stage = "FAILED" /\ v.attempt[t].live
      /\ v.attempt[t].node = u.attempt[t].node /\ v.attempt[t].started = u.attempt[t].started
      /\ v.attempt[t].path = u.attempt[t].path /\ v.attempt[t].committed = u.attempt[t].committed
      /\ v.attempt[t].delivery = u.attempt[t].delivery
      /\ \A x \in Task \ {t} : v.task[x] = u.task[x] /\ v.attempt[x] = u.attempt[x]
    BY <1>1, <1>3 DEF TaskRuntime, Attempt
<1>6. Plain(u, v, t)
    BY <1>3, <1>4, <1>5 DEF Plain, WorldOK
<1>7. WorldOK(v) /\ Only(u, v, {t})
    BY <1>3, <1>6, PlainWorld
<1>8. Ending(v, t)
    <2>1. Joined(v, t)
        BY <1>3, <1>5 DEF Joined, InputReady, Wanted, Received
    <2>2. ASSUME NEW n \in Server
          PROVE  LET s == v.svc[n] IN
                 /\ t \in s.known => n = HostNode[t] \/ (v.attempt[t].started /\ v.attempt[t].node = n)
                 /\ \A i \in s.queue : i.task # t
                 /\ s.owner = t => v.attempt[t].node = n
                 /\ Runs(s, t) => s.runningRecovery
        BY <1>3, <1>5 DEF Located
    <2>3. Terminal(v, t)
        BY <1>5 DEF Terminal, TerminalState
    <2> QED BY <1>5, <2>1, <2>2, <2>3 DEF Ending
<1>9. Closes(v, Cleanup(v, t), t)
    BY <1>7, <1>8, CleanupCloses
<1> QED BY <1>2, <1>7, <1>9, ClosesAfter

LEMMA FailCloses ==
    ASSUME NEW u, NEW t \in Task, WorldOK(u), Located(u, t), Joined(u, t),
           u.task[t].generation = 1, u.attempt[t].live, ~Terminal(u, t)
    PROVE  Closes(u, Fail(u, t), t)
BY FailRecoveryCloses DEF Fail

\* The world with other records of t.
Record(u, t, a, e, store, stopped) ==
    [u EXCEPT !.ok = TRUE, !.task = [u.task EXCEPT ![t] = a],
              !.attempt = [u.attempt EXCEPT ![t] = e],
              !.store = store, !.stopped = stopped]

LEMMA RecordIsPlain ==
    ASSUME NEW u \in World, NEW t \in Task, NEW a \in TaskRuntime, NEW e \in Attempt,
           NEW store \in SUBSET StorageEntry, NEW stopped \in SUBSET Task,
           \A o \in StorageEntry : o.task # t => (o \in store <=> o \in u.store)
    PROVE  LET v == Record(u, t, a, e, store, stopped) IN
           /\ Plain(u, v, t)
           /\ v.task[t] = a /\ v.attempt[t] = e /\ v.store = store /\ v.svc = u.svc
           /\ v.now = u.now /\ v.deferred = u.deferred /\ v.dead = u.dead
           /\ v.ended = u.ended /\ v.stopped = stopped
<1> DEFINE v == Record(u, t, a, e, store, stopped)
           task == [u.task EXCEPT ![t] = a]
           attempt == [u.attempt EXCEPT ![t] = e]
<1>1. u.task \in [Task -> TaskRuntime] /\ u.attempt \in [Task -> Attempt]
    BY WorldTypes
<1>2. /\ task \in [Task -> TaskRuntime] /\ task[t] = a
      /\ attempt \in [Task -> Attempt] /\ attempt[t] = e
      /\ \A x \in Task \ {t} : task[x] = u.task[x] /\ attempt[x] = u.attempt[x]
    BY <1>1
<1> HIDE DEF task, attempt
<1>3. v = [u EXCEPT !.ok = TRUE, !.task = task, !.attempt = attempt,
                    !.store = store, !.stopped = stopped]
    BY DEF Record, task, attempt
<1> HIDE DEF v
<1>4. /\ v \in World /\ v.ok /\ v.task = task /\ v.attempt = attempt
      /\ v.store = store /\ v.svc = u.svc /\ v.now = u.now /\ v.deferred = u.deferred
      /\ v.dead = u.dead /\ v.ended = u.ended /\ v.stopped = stopped
    BY <1>2, <1>3 DEF World
<1>5. Plain(u, v, t)
    BY <1>2, <1>4 DEF Plain
<1> QED BY <1>2, <1>4, <1>5 DEF v

\* A recovery that may be ended at any point of a handler.
Active(u, t) ==
    /\ WorldOK(u) /\ Located(u, t) /\ Joined(u, t)
    /\ u.task[t].generation = 1 /\ u.attempt[t].live /\ ~Terminal(u, t)

LEMMA ActiveFails ==
    ASSUME NEW u, NEW t \in Task, Active(u, t)
    PROVE  Closes(u, Fail(u, t), t) /\ Closes(u, FailRecovery(u, t), t)
BY FailCloses, FailRecoveryCloses DEF Active

-----------------------------------------------------------------------------
(* Deliveries *)

\* The attempt r with another delivery of kind k.
Marked(r, k, d) == [r EXCEPT !.delivery = [r.delivery EXCEPT ![k] = d]]

\* Only the delivery of kind k is new in e.
Differs(e, r, k, d) ==
    /\ e \in Attempt /\ e.delivery[k] = d
    /\ \A j \in Kind \ {k} : e.delivery[j] = r.delivery[j]
    /\ e.live = r.live /\ e.stage = r.stage /\ e.node = r.node /\ e.path = r.path
    /\ e.base = r.base /\ e.tail = r.tail /\ e.actual = r.actual
    /\ e.decide = r.decide /\ e.merge = r.merge
    /\ e.mergeScheduled = r.mergeScheduled
    /\ e.committed = r.committed /\ e.started = r.started

LEMMA MarkedType ==
    ASSUME NEW r \in Attempt, NEW k \in Kind, NEW d \in Delivery
    PROVE  Differs(Marked(r, k, d), r, k, d)
<1> DEFINE delivery == [r.delivery EXCEPT ![k] = d]
           e == Marked(r, k, d)
<1>1. r.delivery \in [Kind -> Delivery]
    BY DEF Attempt
<1>2. /\ delivery \in [Kind -> Delivery] /\ delivery[k] = d
      /\ \A j \in Kind \ {k} : delivery[j] = r.delivery[j]
    BY <1>1
<1> HIDE DEF delivery
<1>3. e = [r EXCEPT !.delivery = delivery]
    BY DEF Marked, delivery
<1> HIDE DEF e
<1>4. /\ e \in Attempt /\ e.delivery = delivery
      /\ e.live = r.live /\ e.stage = r.stage /\ e.node = r.node /\ e.path = r.path
      /\ e.base = r.base /\ e.tail = r.tail /\ e.actual = r.actual
      /\ e.decide = r.decide /\ e.merge = r.merge
      /\ e.mergeScheduled = r.mergeScheduled
      /\ e.committed = r.committed /\ e.started = r.started
    BY <1>2, <1>3 DEF Attempt
<1> QED BY <1>2, <1>4 DEF e, Differs

\* The world with another delivery of kind k for t.
Mark(u, t, k, d) ==
    Record(u, t, u.task[t], Marked(u.attempt[t], k, d), u.store, u.stopped)

\* A delivery is requested between two satellites that are there, or the
\* recovery fails.
LEMMA DeliverRequests ==
    ASSUME NEW u, NEW t \in Task, NEW k \in Kind, NEW cut, Active(u, t),
           u.attempt[t].delivery[k].step = "none"
    PROVE  LET v == Deliver(u, t, k, cut) IN
           \/ Closes(u, v, t)
           \/ \E d \in Delivery :
                /\ d.step \in {"local", "queued"} /\ v = Mark(u, t, k, d)
                /\ ~Down(u, From(u, t, k)) /\ ~Down(u, Into(u, t, k))
<1> DEFINE y == Deliver(u, t, k, cut)
           d == [step |-> IF From(u, t, k) = Into(u, t, k) THEN "local" ELSE "queued",
                 due |-> u.now + 1]
           holds == k = "INPUT" => u.attempt[t].delivery[k].step = "none"
           x == [u EXCEPT !.ok = @ /\ holds]
           z == [x EXCEPT !.attempt[t].delivery[k] = d]
<1>0. y = IF ~Reaches(u, cut, From(u, t, k), Into(u, t, k)) THEN Fail(u, t) ELSE z
    <2> DEFINE must == Must(u, holds)
    <2>1. y = IF ~Reaches(u, cut, From(u, t, k), Into(u, t, k)) THEN Fail(u, t)
              ELSE [must EXCEPT !.attempt[t].delivery[k] = d]
        <3> SUFFICES Deliver(u, t, k, cut)
                       = IF ~Reaches(u, cut, From(u, t, k), Into(u, t, k)) THEN Fail(u, t)
                         ELSE [Must(u, k = "INPUT" => u.attempt[t].delivery[k].step = "none")
                               EXCEPT !.attempt[t].delivery[k] =
                                 [step |-> IF From(u, t, k) = Into(u, t, k) THEN "local"
                                           ELSE "queued",
                                  due |-> u.now + 1]]
            BY Zenon
        <3> QED BY ONLY ZenonT(60) DEF Deliver
    <2>2. must = x
        BY DEF Must
    <2> HIDE DEF must, x, y, d
    <2> QED BY ONLY <2>1, <2>2 DEF z
<1> HIDE DEF y, z
<1>1. CASE ~Reaches(u, cut, From(u, t, k), Into(u, t, k))
    <2>1. y = Fail(u, t)
        BY ONLY <1>0, <1>1
    <2>2. Closes(u, Fail(u, t), t)
        BY ActiveFails, Zenon
    <2> QED BY <2>1, <2>2, Zenon DEF y
<1>2. CASE Reaches(u, cut, From(u, t, k), Into(u, t, k))
    <2> DEFINE attempt == [u.attempt EXCEPT ![t] = Marked(u.attempt[t], k, d)]
    <2>1. u \in World /\ u.ok
        BY DEF Active, WorldOK
    <2>2. d \in Delivery /\ d.step \in {"local", "queued"}
        <3>1. u.now \in Time
            BY <2>1, WorldTypes
        <3> DEFINE due == u.now + 1
        <3>2. due \in Time \cup {NoTime}
            BY ONLY <3>1 DEF due, Time
        <3> HIDE DEF due, d
        <3>3. [step |-> IF From(u, t, k) = Into(u, t, k) THEN "local" ELSE "queued",
               due |-> due] \in Delivery
            BY ONLY <3>2 DEF Delivery
        <3> QED BY <3>3 DEF due, d
    <2>3. y = [x EXCEPT !.attempt[t].delivery[k] = d]
        BY ONLY <1>0, <1>2 DEF z
    <2>4. u.ok = TRUE /\ u.task = [u.task EXCEPT ![t] = u.task[t]]
        BY <2>1, WorldTypes
    <2>5. holds
        OBVIOUS
    <2> HIDE DEF d, holds
    <2>6. x = [u EXCEPT !.ok = TRUE]
        BY ONLY <2>1, <2>4, <2>5 DEF x
    <2>7. x.attempt = u.attempt
        BY ONLY <2>1, <2>6 DEF World
    <2>8. y = [x EXCEPT !.attempt = attempt]
        <3> HIDE DEF x, y
        <3> QED BY ONLY <2>3, <2>7 DEF attempt, Marked
    <2>9. y = [u EXCEPT !.ok = TRUE, !.attempt = attempt]
        <3> HIDE DEF x, y, attempt
        <3> QED BY ONLY <2>6, <2>8
    <2>10. Mark(u, t, k, d) = [u EXCEPT !.ok = TRUE, !.task = u.task, !.attempt = attempt,
                                        !.store = u.store, !.stopped = u.stopped]
        BY <2>4, Zenon DEF Mark, Record
    <2> HIDE DEF attempt
    <2>11. [u EXCEPT !.ok = TRUE, !.attempt = attempt]
             = [u EXCEPT !.ok = TRUE, !.task = u.task, !.attempt = attempt,
                         !.store = u.store, !.stopped = u.stopped]
        BY ONLY <2>1 DEF World
    <2>12. y = Mark(u, t, k, d)
        BY ONLY <2>9, <2>10, <2>11
    <2>13. ~Down(u, From(u, t, k)) /\ ~Down(u, Into(u, t, k))
        BY <1>2 DEF Reaches
    <2> QED BY <2>2, <2>12, <2>13, Zenon DEF y
<1> QED BY <1>1, <1>2, Zenon

\* The world with another service at n.
Reslot(u, n, s) == [u EXCEPT !.svc = [u.svc EXCEPT ![n] = s]]

LEMMA ReslotWorld ==
    ASSUME NEW u, NEW n \in Server, NEW s \in Service, NEW T, WorldOK(u),
           s.running, ServiceCore(s, u.now), DispatchArmed(s),
           s.available = u.svc[n].available,
           \A x \in Task \ T : Unmoved(s, u.svc[n], x)
    PROVE  LET z == Reslot(u, n, s) IN
           /\ WorldOK(z) /\ Only(u, z, T)
           /\ z.svc[n] = s /\ \A m \in Server \ {n} : z.svc[m] = u.svc[m]
           /\ z.task = u.task /\ z.attempt = u.attempt /\ z.store = u.store
           /\ z.now = u.now /\ z.deferred = u.deferred /\ z.dead = u.dead
           /\ z.ended = u.ended /\ z.stopped = u.stopped
<1> DEFINE svc == [u.svc EXCEPT ![n] = s]
           z == Reslot(u, n, s)
<1>1. u \in World /\ u.ok /\ IsFiniteSet(u.store) /\ \A m \in Server : NodeOK(u, m)
    BY DEF WorldOK
<1>2. u.svc \in [Server -> Service]
    BY <1>1, WorldTypes
<1>3. svc \in [Server -> Service] /\ svc[n] = s /\ \A m \in Server \ {n} : svc[m] = u.svc[m]
    BY <1>2
<1> HIDE DEF svc
<1>4. z = [u EXCEPT !.svc = svc]
    BY DEF Reslot, svc
<1> HIDE DEF z
<1>5. /\ z \in World /\ z.ok /\ z.svc = svc
      /\ z.task = u.task /\ z.attempt = u.attempt /\ z.store = u.store
      /\ z.now = u.now /\ z.deferred = u.deferred /\ z.dead = u.dead
      /\ z.ended = u.ended /\ z.stopped = u.stopped
    BY <1>1, <1>3, <1>4 DEF World
<1>6. \A m \in Server : NodeOK(z, m)
    <2>1. \A m \in Server : Free(z, m) = Free(u, m)
        BY <1>5 DEF Free
    <2> QED BY <1>1, <1>3, <1>5, <2>1 DEF NodeOK
<1>7. ASSUME NEW x \in Task \ T PROVE Beside(u, z, x)
    <2>1. \A m \in Server : Unmoved(z.svc[m], u.svc[m], x)
        BY <1>3, <1>5, UnmovedReflexive
    <2> QED BY <1>5, <2>1 DEF Beside
<1>8. SameSky(u, z)
    BY <1>3, <1>5 DEF SameSky
<1> QED BY <1>1, <1>3, <1>5, <1>6, <1>7, <1>8 DEF WorldOK, Only, z

-----------------------------------------------------------------------------
(* The join *)

\* An accepted recovery whose requests are all out.
Joining(u, t) == Active(u, t) /\ Timed(u, t) /\ Waiting(u, t, {}) /\ Merging(u, t)

LEMMA ActiveTypes ==
    ASSUME NEW u, NEW t \in Task, Active(u, t)
    PROVE  /\ u \in World /\ u.ok /\ u.now \in Time
           /\ u.svc \in [Server -> Service] /\ u.task[t] \in TaskRuntime
           /\ u.attempt[t] \in Attempt /\ u.store \in SUBSET StorageEntry
           /\ u.stopped \in SUBSET Task /\ u.dead \subseteq Sat
           /\ \A n \in Server : NodeOK(u, n)
<1>1. u \in World /\ u.ok /\ \A n \in Server : NodeOK(u, n)
    BY DEF Active, WorldOK
<1> QED BY <1>1, WorldTypes

LEMMA KindsKnown == {"INPUT", "STATE", "TAIL", "RESULT"} = Kind
BY DEF Kind

\* A recovery that waits for something is in order.
LEMMA WaitingStays ==
    ASSUME NEW u, NEW t \in Task, NEW closed, NEW lost, Joining(u, t),
           Exposed(u, t, closed, lost), ~(StateReady(u, t) /\ InputReady(u, t))
    PROVE  Changes(u, u, t, closed, lost)
<1>1. Only(u, u, {t})
    BY OnlyReflexive
<1>2. Recovery(u, t)
    BY DEF Joining, Recovery
<1>3. TaskOK(u, t) /\ WorldOK(u)
    BY <1>2 DEF Joining, Active, TaskOK
<1> QED BY <1>1, <1>3 DEF Changes

\* One that waits for nothing starts to compute, or fails.
LEMMA ReadyStarts ==
    ASSUME NEW u, NEW t \in Task, NEW closed, NEW lost, Joining(u, t),
           Exposed(u, t, closed, lost), StateReady(u, t), InputReady(u, t)
    PROVE  Changes(u, StartCompute(u, t), t, closed, lost)
<1> DEFINE r == u.attempt[t]
           n == r.node
           a == [u.task[t] EXCEPT !.state = "RUNNING_BACKUP"]
           e == [r EXCEPT !.stage = "RUNNING_BACKUP", !.started = TRUE]
           store == {o \in u.store : o.task # t \/ o.node \notin Server}
           y == Record(u, t, a, e, store, u.stopped)
           s == StartRecovery(u.svc[n], t, Redo(u, t), Catchup(u, t), u.now, 1)
           z == Reslot(y, n, s)
<1>1. /\ u \in World /\ u.ok /\ u.now \in Time
      /\ u.svc \in [Server -> Service] /\ u.task[t] \in TaskRuntime
      /\ r \in Attempt /\ u.store \in SUBSET StorageEntry
      /\ u.stopped \in SUBSET Task /\ \A m \in Server : NodeOK(u, m)
    BY ActiveTypes DEF Joining
<1>2. /\ r.live /\ r.stage = "RECOVERING" /\ ~r.started /\ n \in Server /\ r.path \in Path
      /\ r.decide = NoTime /\ n # HostNode[t]
      /\ u.task[t].state = "RECOVERING" /\ u.task[t].generation = 1
      /\ u.svc[n].owner = t /\ ~u.svc[n].runningRecovery
      /\ TakesTail(r.path) => r.actual >= LocalWork
    BY DEF Joining, Active, Waiting
<1>3. u.deferred => Received(u, t, "INPUT")
    BY DEF InputReady, Wanted
<1>0. /\ ~(~r.live \/ r.started \/ (u.deferred /\ ~(StateReady(u, t) /\ Received(u, t, "INPUT"))))
      /\ r.stage = "RECOVERING"
    BY <1>2, <1>3
<1>4. CASE u.now >= u.task[t].deadline \/ ~CanStartAttempt(u.svc[n], t, TRUE)
    <2>1. StartCompute(u, t) = Fail(u, t)
        BY <1>0, <1>4 DEF StartCompute
    <2>2. Closes(u, Fail(u, t), t)
        BY ActiveFails DEF Joining
    <2> QED BY <2>1, <2>2, ClosesChanges
<1>5. CASE ~(u.now >= u.task[t].deadline \/ ~CanStartAttempt(u.svc[n], t, TRUE))
    <2>1. StartCompute(u, t) = z
        <3> DEFINE v == ReleaseRecoveryState(u, t)
                   moved == Must(v, u.task[t].generation = 1 /\ u.task[t].state = "RECOVERING")
                   svc == [u.svc EXCEPT ![n] = s]
                   task == [u.task EXCEPT ![t] = a]
                   attempt == [u.attempt EXCEPT ![t] = e]
        <3>1. StartCompute(u, t) = StartBackup(u, t)
            BY <1>0, <1>5 DEF StartCompute
        <3>2. v = [u EXCEPT !.store = store]
            BY DEF ReleaseRecoveryState, ReleaseTask
        <3>3. moved = [u EXCEPT !.ok = TRUE, !.store = store]
            BY <1>1, <1>2, <3>2 DEF Must, World
        <3>4. moved.svc = u.svc /\ moved.task = u.task /\ moved.attempt = u.attempt
            BY <1>1, <3>3 DEF World
        <3>5. StartBackup(u, t)
                = [moved EXCEPT !.svc[n] = StartRecovery(@, t, Redo(u, t), Catchup(u, t), u.now, 1),
                            !.task[t].state = "RUNNING_BACKUP",
                            !.attempt[t].stage = "RUNNING_BACKUP", !.attempt[t].started = TRUE]
            BY DEF StartBackup
        <3> HIDE DEF moved
        <3>6. StartBackup(u, t) = [moved EXCEPT !.svc = svc, !.task = task, !.attempt = attempt]
            <4>1. [moved.svc EXCEPT ![n] = StartRecovery(@, t, Redo(u, t), Catchup(u, t), u.now, 1)] = svc
                BY <1>1, <1>2, <3>4
            <4>2. [moved.task EXCEPT ![t].state = "RUNNING_BACKUP"] = task
                BY <3>4
            <4>3. [moved.attempt EXCEPT ![t].stage = "RUNNING_BACKUP", ![t].started = TRUE] = attempt
                BY <1>1, <3>4, WorldTypes
            <4> HIDE DEF svc, task, attempt
            <4> QED BY <3>5, <4>1, <4>2, <4>3, ZenonT(60)
        <3> HIDE DEF svc, task, attempt
        <3>7. z = [u EXCEPT !.ok = TRUE, !.task = task, !.attempt = attempt, !.store = store,
                            !.stopped = u.stopped, !.svc = svc]
            BY <1>1 DEF Reslot, Record, World, svc, task, attempt
        <3> HIDE DEF z
        <3> QED BY <1>1, <3>1, <3>3, <3>6, <3>7 DEF World
    <2>2. a \in TaskRuntime /\ a.state = "RUNNING_BACKUP" /\ a.generation = 1
          /\ a.timer = u.task[t].timer /\ a.deadline = u.task[t].deadline
        BY <1>1, <1>2 DEF TaskRuntime, Alive
    <2>3. /\ e \in Attempt /\ e.live /\ e.stage = "RUNNING_BACKUP" /\ e.started
          /\ e.node = n /\ e.path = r.path /\ e.decide = r.decide /\ e.merge = r.merge
          /\ e.committed = r.committed /\ e.delivery = r.delivery
        BY <1>1, <1>2 DEF Attempt, Stage
    <2>4. /\ store \in SUBSET StorageEntry /\ store \subseteq u.store
          /\ \A o \in StorageEntry : o.task # t => (o \in store <=> o \in u.store)
          /\ \A o \in store : o.task # t
        BY <1>1 DEF StorageEntry
    <2> HIDE DEF a, e, store
    <2>5. /\ Plain(u, y, t) /\ y.task[t] = a /\ y.attempt[t] = e /\ y.store = store
          /\ y.svc = u.svc /\ y.now = u.now /\ y.deferred = u.deferred /\ y.dead = u.dead
        BY <1>1, <2>2, <2>3, <2>4, RecordIsPlain
    <2> HIDE DEF y
    <2>6. WorldOK(y) /\ Only(u, y, {t})
        BY <2>4, <2>5, PlainWorld DEF Joining, Active
    <2>7. u.svc[n] \in Service /\ ServiceCore(u.svc[n], u.now) /\ DispatchArmed(u.svc[n])
          /\ u.svc[n].running
        BY <1>1, <1>2 DEF NodeOK
    <2>8. Redo(u, t) \in Work /\ Catchup(u, t) \in Nat
        <3>1. r.actual \in Nat /\ LocalWork \in Nat /\ WorkOf[t] \in Nat /\ LocalWork < WorkOf[t]
              /\ WorkOf[t] # 0
            BY <1>1, WorkAssumption DEF Attempt, Work
        <3> QED BY <1>2, <3>1 DEF Redo, Catchup, Work
    <2>9. /\ s \in Service /\ ServiceInv(s, u.now)
        <3>1. ~u.svc[n].hasCurrent
            BY <1>5 DEF CanStartAttempt
        <3>2. ServiceInv(u.svc[n], u.now)
            BY <2>7, <3>1, Zenon DEF ServiceInv, CompletionAllowed, ServiceCore, CompletionTimely
        <3>3. \A i \in u.svc[n].queue : i.task # t
            BY <1>2 DEF Joining, Active, Located
        <3> DEFINE q == u.svc[n]
                   work == Redo(u, t)
                   ahead == Catchup(u, t)
        <3>4. s = StartReservedAttempt(q, t, work, ahead, TRUE, TRUE, u.now, 1)
            BY DEF StartRecovery
        <3>5. /\ q \in Service /\ work \in Work /\ ahead \in Nat /\ ServiceInv(q, u.now)
              /\ \A i \in q.queue : i.task # t
            BY <2>7, <2>8, <3>2, <3>3
        <3> HIDE DEF q, work, ahead, s
        <3>6. 1 \in Nat \ {0}
            OBVIOUS
        <3> QED BY <1>1, <3>4, <3>5, <3>6, StartReservedAttemptKeeps
    <2>10. /\ s.running = u.svc[n].running /\ s.available = u.svc[n].available
           /\ s.owner = t /\ s.runningRecovery /\ s.immune /\ Runs(s, t)
           /\ s.known = u.svc[n].known \cup {t} /\ s.queue = u.svc[n].queue
           /\ \A x \in Task : x # t => Unmoved(s, u.svc[n], x)
        <3> DEFINE q == u.svc[n]
                   work == Redo(u, t)
                   ahead == Catchup(u, t)
        <3>1. s = StartRecovery(q, t, work, ahead, u.now, 1)
            OBVIOUS
        <3>2. /\ q \in Service /\ work \in Work /\ ahead \in Nat /\ ServiceCore(q, u.now)
              /\ CanStartAttempt(q, t, TRUE)
            BY <1>5, <2>7, <2>8
        <3> HIDE DEF q, work, ahead, s
        <3>3. Engaged(s, q, t)
            BY <1>1, <3>1, <3>2, StartRecoveryUnmoved
        <3> QED BY <3>3 DEF q, Engaged
    <2> HIDE DEF s
    <2>11. /\ WorldOK(z) /\ Only(y, z, {t})
           /\ z.svc[n] = s /\ \A m \in Server \ {n} : z.svc[m] = u.svc[m]
           /\ z.task = y.task /\ z.attempt = y.attempt /\ z.store = y.store
           /\ z.now = y.now /\ z.deferred = y.deferred /\ z.dead = y.dead
        <3>1. /\ n \in Server /\ s \in Service /\ WorldOK(y) /\ s.running
              /\ ServiceCore(s, y.now) /\ DispatchArmed(s)
              /\ s.available = y.svc[n].available
              /\ \A x \in Task \ {t} : Unmoved(s, y.svc[n], x)
            BY <1>2, <2>5, <2>6, <2>7, <2>9, <2>10 DEF ServiceInv
        <3> DEFINE m == n
        <3> HIDE DEF m
        <3>2. z = Reslot(y, m, s)
            BY DEF m, z
        <3>3. /\ WorldOK(z) /\ Only(y, z, {t})
              /\ z.svc[m] = s /\ \A l \in Server \ {m} : z.svc[l] = y.svc[l]
              /\ z.task = y.task /\ z.attempt = y.attempt /\ z.store = y.store
              /\ z.now = y.now /\ z.deferred = y.deferred /\ z.dead = y.dead
            BY <3>1, <3>2, ReslotWorld, SMTT(30) DEF m
        <3> QED BY <2>5, <3>3 DEF m
    <2> HIDE DEF z
    <2>12. Only(u, z, {t})
        BY <2>6, <2>11, OnlyTransitive
    <2>13. \A k \in Kind : /\ Received(z, t, k) <=> Received(u, t, k)
                           /\ Wanted(z, t, k) <=> Wanted(u, t, k)
        BY <2>3, <2>5, <2>11 DEF Received, Wanted
    <2>14. /\ InputReady(z, t)
           /\ Migrates(r.path) => Received(u, t, "STATE")
           /\ TakesTail(r.path) => Received(u, t, "TAIL") /\ r.committed
           /\ r.merge = NoTime
        <3>1. InputReady(z, t)
            BY <2>13, KindsKnown DEF InputReady
        <3>2. TakesTail(r.path) => r.committed
            BY DEF StateReady, TakesTail
        <3>3. TakesTail(r.path) => TailReady(u, t) /\ r.merge = NoTime
            BY <3>2 DEF Joining, Merging
        <3>4. ~TakesTail(r.path) => r.merge = NoTime
            BY DEF Joining, Merging, TailReady
        <3>5. Migrates(r.path) => Received(u, t, "STATE")
            BY <3>3 DEF StateReady, Migrates, TakesTail, TailReady
        <3> QED BY <3>1, <3>2, <3>3, <3>4, <3>5 DEF TailReady
    <2>15. Joined(z, t)
        BY <2>3, <2>5, <2>11, <2>13, <2>14, KindsKnown DEF Joined
    <2>16. Timed(z, t)
        BY <1>2, <2>2, <2>5, <2>11 DEF Joining, Timed
    <2>17. Located(z, t)
        <3>1. ASSUME NEW m \in Server
              PROVE  LET q == z.svc[m] IN
                     /\ t \in q.known => m = HostNode[t] \/ (e.started /\ e.node = m)
                     /\ \A i \in q.queue : i.task = t => FALSE
                     /\ q.owner = t => e.node = m
                     /\ Runs(q, t) => q.runningRecovery /\ q.immune /\ e.node = m
            <4>1. /\ t \in u.svc[m].known => m = HostNode[t]
                  /\ \A i \in u.svc[m].queue : i.task # t
                  /\ u.svc[m].owner = t => m = n
                  /\ ~Runs(u.svc[m], t)
                BY <1>2 DEF Joining, Active, Located
            <4>2. CASE m = n
                <5>1. z.svc[m] = s
                    BY <2>11, <4>2
                <5>2. e.started /\ e.node = n
                    BY <2>3
                <5>3. /\ \A i \in s.queue : i.task # t
                      /\ s.runningRecovery /\ s.immune
                    BY <2>10, <4>1, <4>2
                <5> HIDE DEF e
                <5> QED BY ONLY <4>2, <5>1, <5>2, <5>3
            <4>3. CASE m # n
                <5>1. z.svc[m] = u.svc[m]
                    BY <2>11, <4>3
                <5> QED BY ONLY <4>1, <4>3, <5>1
            <4> QED BY ONLY <4>2, <4>3
        <3> QED BY <2>3, <2>5, <2>11, <3>1 DEF Located
    <2>18. Past(z, t)
        <3>1. \A k \in Kind : r.delivery[k].step # "none" <=> Wanted(u, t, k)
            BY DEF Joining, Waiting
        <3>2. \A k \in Kind \ {"RESULT"} : Wanted(u, t, k) => Received(u, t, k)
            BY <2>14 DEF Wanted, InputReady, Kind
        <3>3. \A k \in Kind \ {"RESULT"} : r.delivery[k].step \in {"none", "received"}
            BY <3>1, <3>2 DEF Received
        <3>4. ~Stores(z, t)
            BY <2>4, <2>5, <2>11 DEF Stores
        <3> QED BY <1>2, <2>3, <2>5, <2>11, <2>14, <3>3, <3>4 DEF Past
    <2>19. Computing(z, t)
        <3>1. "RESULT" \in Kind /\ ~Wanted(u, t, "RESULT")
            BY DEF Kind, Wanted
        <3>2. r.delivery["RESULT"].step = "none"
            BY <3>1 DEF Joining, Waiting
        <3> QED BY <2>2, <2>3, <2>5, <2>11, <2>18, <3>2 DEF Computing
    <2>20. Occupies(z, t, z.attempt[t].node, TRUE)
        <3>1. z.attempt[t].node = n
            BY <2>3, <2>5, <2>11
        <3>2. Runs(z.svc[n], t) /\ z.svc[n].runningRecovery = TRUE
            BY <2>9, <2>10, <2>11 DEF Service
        <3> QED BY <3>1, <3>2 DEF Occupies
    <2>21. TaskOK(z, t)
        <3>1. z.task[t].generation = 1
            BY <2>2, <2>5, <2>11
        <3>2. Recovery(z, t)
            BY <2>19, <2>20 DEF Recovery
        <3> QED BY <2>15, <2>16, <2>17, <3>1, <3>2 DEF TaskOK
    <2>22. Exposed(z, t, closed, lost)
        <3>1. \A m : Needs(z, t, m) <=> Needs(u, t, m)
            BY <2>3, <2>5, <2>11 DEF Needs, Received
        <3> QED BY <1>2, <2>2, <2>3, <2>5, <2>11, <3>1 DEF Exposed
    <2> QED BY <2>1, <2>11, <2>12, <2>21, <2>22 DEF Changes
<1> QED BY <1>4, <1>5

LEMMA StartComputeJoins ==
    ASSUME NEW u, NEW t \in Task, NEW closed, NEW lost, Joining(u, t),
           Exposed(u, t, closed, lost), u.deferred \/ (StateReady(u, t) /\ InputReady(u, t))
    PROVE  Changes(u, StartCompute(u, t), t, closed, lost)
<1>1. CASE StateReady(u, t) /\ InputReady(u, t)
    BY <1>1, ReadyStarts
<1>2. CASE ~(StateReady(u, t) /\ InputReady(u, t))
    <2>1. u.deferred /\ ~(StateReady(u, t) /\ Received(u, t, "INPUT"))
        BY <1>2 DEF InputReady
    <2>2. StartCompute(u, t) = u
        BY <2>1 DEF StartCompute
    <2> QED BY <1>2, <2>2, WaitingStays
<1> QED BY <1>1, <1>2

\* An accepted recovery that does not compute, in a sound world.
Waits(u, t, left, closed, lost) ==
    Active(u, t) /\ Timed(u, t) /\ Waiting(u, t, left) /\ Exposed(u, t, closed, lost)

\* What may become of the pools when t gives back, reserves or commits storage.
Stockpile(u, t, store) ==
    /\ store \in SUBSET StorageEntry /\ IsFiniteSet(store)
    /\ \A n \in Server : Capacity[n] - Cardinality({o \in store : o.node = n}) >= 0
    /\ \A o \in StorageEntry : o.task # t => (o \in store <=> o \in u.store)

\* What may become of a waiting attempt: deliveries and the merge advance.
Advances(u, t, e) ==
    LET r == u.attempt[t] IN
    /\ e \in Attempt /\ e.live /\ e.stage = r.stage /\ e.node = r.node /\ e.path = r.path
    /\ e.actual = r.actual /\ e.decide = r.decide /\ e.started = r.started
    /\ \A k \in Kind : Received(u, t, k) => e.delivery[k].step = "received"

\* What of the path is requested is all but `after'.
Asks(u, t, e, after) ==
    \A k \in Kind : e.delivery[k].step # "none" <=> Wanted(u, t, k) /\ k \notin after

\* z is u with another attempt of t and other pools,
Became(u, z, t, e, store) == z = Record(u, t, u.task[t], e, store, u.stopped)

\* and this is all that has changed.
Follows(u, z, t, e, store) ==
    /\ Only(u, z, {t})
    /\ z.attempt[t] = e /\ z.store = store /\ z.svc = u.svc
    /\ z.now = u.now /\ z.deferred = u.deferred

LEMMA RecordWaits ==
    ASSUME NEW u, NEW t \in Task, NEW left, NEW after, NEW closed, NEW lost,
           Waits(u, t, left, closed, lost),
           NEW e, Advances(u, t, e), NEW store, Stockpile(u, t, store),
           NEW z, Became(u, z, t, e, store),
           Asks(u, t, e, after), Stocked(z, t)
    PROVE  Waits(z, t, after, closed, lost) /\ Follows(u, z, t, e, store)
<1> DEFINE r == u.attempt[t]
<1>1. /\ u \in World /\ u.task[t] \in TaskRuntime /\ r \in Attempt
      /\ u.stopped \in SUBSET Task /\ \A n \in Server : NodeOK(u, n)
    BY ActiveTypes DEF Waits
<1>2. /\ Plain(u, z, t) /\ z.task[t] = u.task[t] /\ z.attempt[t] = e /\ z.store = store
      /\ z.svc = u.svc /\ z.now = u.now /\ z.deferred = u.deferred /\ z.dead = u.dead
    BY <1>1, RecordIsPlain DEF Advances, Stockpile, Became
<1>3. Only(u, z, {t})
    BY <1>2, PlainOnly
<1>4. WorldOK(z)
    <2>1. \A n \in Server : Free(z, n) >= 0
        BY <1>2 DEF Stockpile, Free
    <2>2. \A n \in Server : NodeOK(z, n)
        BY <1>1, <1>2, <2>1 DEF NodeOK
    <2> QED BY <1>2, <2>2 DEF WorldOK, Plain, Stockpile
<1>5. /\ e.live /\ e.stage = r.stage /\ e.node = r.node /\ e.path = r.path
      /\ e.actual = r.actual /\ e.decide = r.decide /\ e.started = r.started
      /\ \A k \in Kind : Received(u, t, k) => e.delivery[k].step = "received"
    BY DEF Advances
<1>6. /\ Active(u, t) /\ Timed(u, t) /\ Waiting(u, t, left) /\ Exposed(u, t, closed, lost)
      /\ ~r.started
    BY DEF Waits, Waiting
<1>7. Active(z, t)
    <2>1. Joined(z, t)
        BY <1>2, <1>5, <1>6 DEF Joined
    <2>2. Located(z, t)
        BY <1>2, <1>5, <1>6 DEF Active, Located
    <2> QED BY <1>2, <1>4, <1>5, <1>6, <2>1, <2>2 DEF Active, Terminal
<1>8. Timed(z, t)
    BY <1>2, <1>6 DEF Timed
<1>9. Waiting(z, t, after)
    <2>1. \A k \in Kind : Wanted(z, t, k) <=> Wanted(u, t, k)
        BY <1>2, <1>5 DEF Wanted
    <2> QED BY <1>2, <1>5, <1>6, <2>1 DEF Waiting, Asks
<1>10. Exposed(z, t, closed, lost)
    <2>1. \A k \in Kind : Received(u, t, k) => Received(z, t, k)
        BY <1>2, <1>5 DEF Received
    <2>2. \A m : Needs(z, t, m) => Needs(u, t, m)
        BY <1>2, <1>5, <2>1, KindsKnown DEF Needs
    <2> QED BY <1>2, <1>5, <1>6, <2>2 DEF Exposed, Active
<1> QED BY <1>2, <1>3, <1>7, <1>8, <1>9, <1>10 DEF Waits, Follows

-----------------------------------------------------------------------------
(* Storage *)

LEMMA StockpileSame ==
    ASSUME NEW u, NEW t, WorldOK(u), NEW store, store \subseteq u.store,
           \A o \in u.store : o.task # t => o \in store
    PROVE  Stockpile(u, t, store)
<1>1. /\ u.store \subseteq StorageEntry /\ IsFiniteSet(u.store)
      /\ \A n \in Server : Free(u, n) >= 0
    BY WorldTypes DEF WorldOK, NodeOK
<1> DEFINE v == [u EXCEPT !.store = store]
<1>2. v.store = store
    BY DEF WorldOK, World
<1> HIDE DEF v
<1>3. IsFiniteSet(v.store) /\ \A n \in Server : Free(v, n) >= Free(u, n)
    BY <1>1, <1>2, FreeGrows
<1>4. \A n \in Server : Free(v, n) >= 0
    <2>1. \A n \in Server : Free(v, n) \in Int /\ Free(u, n) \in Int
        BY <1>1, <1>3, FreeType
    <2> QED BY <1>1, <1>3, <2>1
<1> QED BY <1>1, <1>2, <1>3, <1>4 DEF Stockpile, Free

\* The stores after the reservation of t at n has been committed.
Settle(u, n, t, kind) ==
    (u.store \ Held(u, n, t, kind)) \cup {[o EXCEPT !.reserved = FALSE] : o \in Held(u, n, t, kind)}

LEMMA SettleKeeps ==
    ASSUME NEW u, NEW t \in Task, NEW n \in Server, NEW kind \in {"STATE", "BATCH", "RECORD"},
           WorldOK(u), \E o \in Held(u, n, t, kind) : o.reserved
    PROVE  LET store == Settle(u, n, t, kind)
               entry == [node |-> n, task |-> t, kind |-> kind, reserved |-> FALSE] IN
           /\ Stockpile(u, t, store) /\ entry \in store
           /\ \A o \in u.store : o \notin Held(u, n, t, kind) => o \in store
<1> DEFINE H == Held(u, n, t, kind)
           store == Settle(u, n, t, kind)
           x == [node |-> n, task |-> t, kind |-> kind, reserved |-> FALSE]
<1>1. /\ u.store \subseteq StorageEntry /\ IsFiniteSet(u.store)
      /\ \A m \in Server : Free(u, m) >= 0
    BY WorldTypes DEF WorldOK, NodeOK
<1>2. PICK p \in H : p.reserved
    OBVIOUS
<1>3. \A o \in H : o \in StorageEntry /\ o.node = n /\ o.task = t /\ o.kind = kind
    BY <1>1 DEF Held
<1>4. \A o \in H : [o EXCEPT !.reserved = FALSE] = x
    <2> DEFINE no == FALSE
    <2>1. no \in BOOLEAN
        OBVIOUS
    <2> HIDE DEF no
    <2>2. ASSUME NEW o \in StorageEntry
          PROVE  [o EXCEPT !.reserved = no]
                   = [node |-> o.node, task |-> o.task, kind |-> o.kind, reserved |-> no]
        BY <2>1 DEF StorageEntry
    <2>3. \A o \in H : [o EXCEPT !.reserved = no] = [node |-> n, task |-> t, kind |-> kind, reserved |-> no]
        BY <1>3, <2>2
    <2> QED BY <2>3 DEF no
<1>5. store = (u.store \ H) \cup {x}
    <2>1. {[o EXCEPT !.reserved = FALSE] : o \in H} = {x}
        <3> HIDE DEF H, x
        <3> QED BY <1>2, <1>4
    <2> QED BY <2>1 DEF Settle
<1>6. x \in StorageEntry /\ x.node = n /\ x.task = t
    BY DEF StorageEntry
<1>7. p \in u.store /\ p.node = n /\ p.task = t
    BY <1>2 DEF Held
<1>8. \A o \in StorageEntry : o.task # t => (o \in store <=> o \in u.store)
    BY <1>3, <1>5, <1>6
<1> HIDE DEF H, store, x
<1>9. IsFiniteSet(store)
    <2>1. IsFiniteSet(u.store \ H)
        BY <1>1, FS_Subset
    <2> QED BY <1>5, <2>1, FS_AddElement
<1>10. ASSUME NEW m \in Server PROVE Capacity[m] - Cardinality({o \in store : o.node = m}) >= 0
    <2> DEFINE a == {o \in u.store : o.node = m}
               b == {o \in store : o.node = m}
    <2>1. IsFiniteSet(a) /\ IsFiniteSet(b) /\ Cardinality(a) \in Nat /\ Cardinality(b) \in Nat
        BY <1>1, <1>9, FS_Subset, FS_CardinalityType
    <2>2. Capacity[m] \in Nat /\ Capacity[m] - Cardinality(a) >= 0
        BY <1>1, WorkAssumption DEF Free
    <2>3. Cardinality(b) <= Cardinality(a)
        <3>1. CASE m # n
            <4>1. b \subseteq a
                BY <1>5, <1>6, <3>1
            <4> HIDE DEF a, b
            <4> QED BY <2>1, <4>1, FS_Subset
        <3>2. CASE m = n
            <4> DEFINE c == a \ {p}
            <4>1. p \in a
                BY <1>7, <3>2
            <4>2. b \subseteq c \cup {x}
                BY <1>2, <1>5
            <4> HIDE DEF a, b
            <4>3. IsFiniteSet(c) /\ Cardinality(c) = Cardinality(a) - 1
                BY <2>1, <4>1, FS_RemoveElement
            <4> HIDE DEF c
            <4>4. IsFiniteSet(c \cup {x}) /\ Cardinality(c \cup {x}) <= Cardinality(a)
                <5>1. Cardinality(c \cup {x}) = IF x \in c THEN Cardinality(c) ELSE Cardinality(c) + 1
                    BY <4>3, FS_AddElement
                <5>2. IsFiniteSet(c \cup {x})
                    BY <4>3, FS_AddElement
                <5> QED BY <2>1, <4>3, <5>1, <5>2
            <4>5. Cardinality(b) <= Cardinality(c \cup {x}) /\ Cardinality(c \cup {x}) \in Nat
                BY <4>2, <4>4, FS_Subset, FS_CardinalityType
            <4> QED BY <2>1, <4>4, <4>5
        <3> QED BY <3>1, <3>2
    <2> HIDE DEF a, b
    <2> QED BY <2>1, <2>2, <2>3 DEF b
<1>11. store \in SUBSET StorageEntry
    BY <1>1, <1>5, <1>6
<1>12. Stockpile(u, t, store)
    BY <1>8, <1>9, <1>10, <1>11 DEF Stockpile
<1> QED BY <1>5, <1>12 DEF H, store, x

-----------------------------------------------------------------------------
(* Arrivals *)

Got == [step |-> "received", due |-> NoTime]

\* The pools after the delivery k of t has arrived at n.
Arrived(u, n, t, k) ==
    CASE k = "INPUT" -> u.store
      [] k = "STATE" -> Settle(u, n, t, "STATE")
      [] k = "TAIL" -> Settle(u, n, t, "BATCH")

LEMMA ArrivedPools ==
    ASSUME NEW u, NEW t \in Task, NEW left, WorldOK(u), Waiting(u, t, left),
           NEW k \in {"INPUT", "STATE", "TAIL"},
           u.attempt[t].delivery[k].step \in {"local", "queued", "flying"}
    PROVE  LET n == u.attempt[t].node store == Arrived(u, n, t, k) IN
           /\ Stockpile(u, t, store)
           /\ k = "STATE" => \E o \in store : o.node = n /\ o.task = t /\ o.kind = "STATE" /\ ~o.reserved
           /\ k = "TAIL" => \E o \in store : o.node = n /\ o.task = t /\ o.kind = "BATCH" /\ ~o.reserved
           /\ \A o \in u.store : o.kind = "STATE" /\ k # "STATE" => o \in store
           /\ \A o \in u.store : o.kind = "BATCH" /\ k # "TAIL" => o \in store
           /\ k = "STATE" => \E o \in Held(u, n, t, "STATE") : o.reserved
           /\ k = "TAIL" => \E o \in Held(u, n, t, "BATCH") : o.reserved
<1> DEFINE n == u.attempt[t].node
           store == Arrived(u, n, t, k)
<1>0. n \in Server /\ Stocked(u, t)
    BY DEF Waiting
<1>1. CASE k = "INPUT"
    <2>1. store = u.store
        BY <1>1 DEF Arrived
    <2>2. Stockpile(u, t, store)
        BY <2>1, StockpileSame
    <2> QED BY <1>1, <2>1, <2>2
<1>2. ASSUME NEW kind \in {"STATE", "BATCH", "RECORD"}, store = Settle(u, n, t, kind),
             \E o \in Held(u, n, t, kind) : o.reserved
      PROVE  /\ Stockpile(u, t, store)
             /\ \E o \in store : o.node = n /\ o.task = t /\ o.kind = kind /\ ~o.reserved
             /\ \A o \in u.store : o.kind # kind => o \in store
    <2> HIDE DEF n, store
    <2> DEFINE entry == [node |-> n, task |-> t, kind |-> kind, reserved |-> FALSE]
    <2>1. /\ Stockpile(u, t, store) /\ entry \in store
          /\ \A o \in u.store : o \notin Held(u, n, t, kind) => o \in store
        BY <1>0, <1>2, SettleKeeps
    <2>2. entry.node = n /\ entry.task = t /\ entry.kind = kind /\ ~entry.reserved
        OBVIOUS
    <2> HIDE DEF entry
    <2>3. \A o \in u.store : o.kind # kind => o \in store
        BY <2>1 DEF Held
    <2> QED BY <2>1, <2>2, <2>3
<1>3. CASE k = "STATE"
    <2>1. store = Settle(u, n, t, "STATE")
        BY <1>3 DEF Arrived
    <2>2. \E o \in Held(u, n, t, "STATE") : o.reserved
        BY <1>0, <1>3 DEF Stocked
    <2> HIDE DEF store
    <2> QED BY <1>2, <1>3, <2>1, <2>2 DEF store
<1>4. CASE k = "TAIL"
    <2>1. store = Settle(u, n, t, "BATCH")
        BY <1>4 DEF Arrived
    <2>2. \E o \in Held(u, n, t, "BATCH") : o.reserved
        BY <1>0, <1>4 DEF Stocked
    <2> HIDE DEF store
    <2> QED BY <1>2, <1>4, <2>1, <2>2 DEF store
<1> QED BY <1>1, <1>3, <1>4

\* The attempt has got k, and the merge timer may have been set.
Fills(u, t, k, e) ==
    LET r == u.attempt[t] IN
    /\ e \in Attempt /\ e.delivery[k] = Got
    /\ \A j \in Kind \ {k} : e.delivery[j] = r.delivery[j]
    /\ e.live /\ e.stage = r.stage /\ e.node = r.node /\ e.path = r.path
    /\ e.actual = r.actual /\ e.decide = r.decide /\ e.started = r.started
    /\ e.committed = r.committed

\* A waiting recovery with one dependency more still waits.
LEMMA Arrive ==
    ASSUME NEW u, NEW t \in Task, NEW closed, NEW lost, Waits(u, t, {}, closed, lost),
           NEW k \in {"INPUT", "STATE", "TAIL"},
           u.attempt[t].delivery[k].step \in {"local", "queued", "flying"},
           NEW e, Fills(u, t, k, e),
           NEW store, store = Arrived(u, u.attempt[t].node, t, k),
           NEW z, Became(u, z, t, e, store)
    PROVE  Waits(z, t, {}, closed, lost) /\ Follows(u, z, t, e, store)
<1> DEFINE r == u.attempt[t]
           n == r.node
<1>0. /\ e \in Attempt /\ e.delivery[k] = Got
      /\ \A j \in Kind \ {k} : e.delivery[j] = r.delivery[j]
      /\ e.live /\ e.stage = r.stage /\ e.node = r.node /\ e.path = r.path
      /\ e.actual = r.actual /\ e.decide = r.decide /\ e.started = r.started
      /\ e.committed = r.committed
    BY DEF Fills
<1>1. /\ u \in World /\ u.task[t] \in TaskRuntime /\ r \in Attempt
      /\ u.stopped \in SUBSET Task
    BY ActiveTypes DEF Waits
<1>2. WorldOK(u) /\ Waiting(u, t, {}) /\ Stocked(u, t) /\ u.attempt[t].live
    BY DEF Waits, Active, Waiting
<1>3. /\ Stockpile(u, t, store)
      /\ k = "STATE" => \E o \in store : o.node = n /\ o.task = t /\ o.kind = "STATE" /\ ~o.reserved
      /\ k = "TAIL" => \E o \in store : o.node = n /\ o.task = t /\ o.kind = "BATCH" /\ ~o.reserved
      /\ \A o \in u.store : o.kind = "STATE" /\ k # "STATE" => o \in store
      /\ \A o \in u.store : o.kind = "BATCH" /\ k # "TAIL" => o \in store
    BY <1>2, ArrivedPools
<1>4. z.attempt[t] = e /\ z.store = store
    BY <1>0, <1>1, <1>3, RecordIsPlain DEF Stockpile, Became
<1>5. \A j \in Kind : Received(u, t, j) => e.delivery[j].step = "received"
    BY <1>0 DEF Received, Got
<1>6. Advances(u, t, e)
    BY <1>0, <1>2, <1>5 DEF Advances
<1>7. /\ k \in Kind /\ Got.step = "received" /\ "STATE" \in Kind /\ "TAIL" \in Kind
    BY DEF Kind, Got
<1>8. \A j \in Kind : e.delivery[j].step # "none" <=> Wanted(u, t, j) /\ j \notin {}
    BY <1>0, <1>2, <1>7 DEF Waiting
<1>9. Stocked(z, t)
    <2>1. ASSUME NEW m, NEW o \in Held(u, m, t, "STATE"), k # "STATE" PROVE o \in Held(z, m, t, "STATE")
        BY <1>3, <1>4, <2>1 DEF Held
    <2>2. ASSUME NEW m, NEW o \in Held(u, m, t, "BATCH"), k # "TAIL" PROVE o \in Held(z, m, t, "BATCH")
        BY <1>3, <1>4, <2>2 DEF Held
    <2>3. k = "STATE" => Committed(z, n, t, "STATE") /\ e.path # "TAIL"
        <3>1. k = "STATE" => Migrates(r.path)
            BY <1>0, <1>2, <1>7 DEF Waiting, Wanted
        <3>2. k = "STATE" => e.path # "TAIL"
            BY <1>0, <3>1 DEF Migrates
        <3> QED BY <1>3, <1>4, <3>2 DEF Committed, Held
    <2>4. k = "TAIL" => Committed(z, n, t, "BATCH")
        BY <1>3, <1>4 DEF Committed, Held
    <2>5. k # "STATE" => (Committed(u, n, t, "STATE") => Committed(z, n, t, "STATE"))
        BY <2>1 DEF Committed
    <2>6. k # "TAIL" => (Committed(u, n, t, "BATCH") => Committed(z, n, t, "BATCH"))
        BY <2>2 DEF Committed
    <2>7. e.delivery["STATE"].step \in {"local", "queued", "flying"} =>
            \E o \in Held(z, e.node, t, "STATE") : o.reserved
        BY <1>0, <1>2, <1>7, <2>1 DEF Stocked
    <2>8. e.delivery["TAIL"].step \in {"local", "queued", "flying"} =>
            \E o \in Held(z, e.node, t, "BATCH") : o.reserved
        BY <1>0, <1>2, <1>7, <2>2 DEF Stocked
    <2>9. Migrates(e.path) /\ Received(z, t, "STATE") => Committed(z, e.node, t, "STATE")
        BY <1>0, <1>2, <1>4, <1>7, <2>3, <2>5 DEF Stocked, Received
    <2>10. e.path = "TAIL" => Committed(z, e.node, t, "STATE")
        BY <1>0, <1>2, <2>3, <2>5 DEF Stocked
    <2>11. Received(z, t, "TAIL") /\ ~e.committed => Committed(z, e.node, t, "BATCH")
        BY <1>0, <1>2, <1>4, <1>7, <2>4, <2>6 DEF Stocked, Received
    <2> QED BY <1>4, <2>7, <2>8, <2>9, <2>10, <2>11 DEF Stocked
<1> DEFINE after == {}
<1>10. Asks(u, t, e, after) /\ Waits(u, t, after, closed, lost)
    BY <1>8 DEF Asks
<1> HIDE DEF after
<1>11. Waits(z, t, after, closed, lost) /\ Follows(u, z, t, e, store)
    BY <1>3, <1>6, <1>9, <1>10, RecordWaits
<1> QED BY <1>11 DEF after

\* A waiting attempt whose merge timer is set is still waiting.
LEMMA SetMerge ==
    ASSUME NEW u, NEW t \in Task, NEW closed, NEW lost, Waits(u, t, {}, closed, lost),
           NEW e \in Attempt, e.delivery = u.attempt[t].delivery,
           e.live, e.stage = u.attempt[t].stage, e.node = u.attempt[t].node,
           e.path = u.attempt[t].path, e.actual = u.attempt[t].actual,
           e.decide = u.attempt[t].decide, e.started = u.attempt[t].started,
           e.committed = u.attempt[t].committed,
           NEW z, z = Record(u, t, u.task[t], e, u.store, u.stopped)
    PROVE  /\ Waits(z, t, {}, closed, lost) /\ Only(u, z, {t})
           /\ z.attempt[t] = e /\ z.svc = u.svc /\ z.now = u.now /\ z.deferred = u.deferred
<1> DEFINE after == {}
           store == u.store
<1>1. /\ u \in World /\ u.task[t] \in TaskRuntime /\ u.stopped \in SUBSET Task
      /\ u.store \in SUBSET StorageEntry
    BY ActiveTypes DEF Waits
<1>2. WorldOK(u) /\ Waiting(u, t, after) /\ Waits(u, t, after, closed, lost)
    BY DEF Waits, Active
<1>3. Stockpile(u, t, store)
    BY <1>2, StockpileSame
<1>4. z.attempt[t] = e /\ z.store = store
    BY <1>1, RecordIsPlain
<1>5. Advances(u, t, e)
    BY DEF Advances, Received
<1>6. Asks(u, t, e, after)
    BY <1>2 DEF Waiting, Asks
<1>7. Stocked(z, t)
    <2>1. Stocked(u, t)
        BY <1>2 DEF Waiting
    <2> QED BY <1>4, <2>1 DEF Stocked, Received, Committed, Held
<1>8. Became(u, z, t, e, store)
    BY DEF Became
<1> HIDE DEF after, store
<1>9. Waits(z, t, after, closed, lost) /\ Follows(u, z, t, e, store)
    BY <1>2, <1>3, <1>5, <1>6, <1>7, <1>8, RecordWaits
<1> QED BY <1>9 DEF after, Follows

LEMMA WaitsJoining ==
    ASSUME NEW u, NEW t, NEW closed, NEW lost, Waits(u, t, {}, closed, lost), Merging(u, t)
    PROVE  Joining(u, t) /\ Exposed(u, t, closed, lost)
BY DEF Waits, Joining

\* An update of one attempt is a record.
LEMMA AttemptRecord ==
    ASSUME NEW u \in World, u.ok, NEW t \in Task, NEW e
    PROVE  [u EXCEPT !.attempt[t] = e] = Record(u, t, u.task[t], e, u.store, u.stopped)
<1> DEFINE attempt == [u.attempt EXCEPT ![t] = e]
           task == [u.task EXCEPT ![t] = u.task[t]]
<1>1. task = u.task
    BY WorldTypes
<1>2. [u EXCEPT !.attempt[t] = e] = [u EXCEPT !.attempt = attempt]
    OBVIOUS
<1>3. Record(u, t, u.task[t], e, u.store, u.stopped)
        = [u EXCEPT !.ok = TRUE, !.task = task, !.attempt = attempt,
                    !.store = u.store, !.stopped = u.stopped]
    BY DEF Record
<1> HIDE DEF attempt, task
<1>4. [u EXCEPT !.attempt = attempt]
        = [u EXCEPT !.ok = TRUE, !.task = task, !.attempt = attempt,
                    !.store = u.store, !.stopped = u.stopped]
    BY <1>1 DEF World
<1> QED BY <1>2, <1>3, <1>4

\* The merge is scheduled once, when the tail and the state are there.
LEMMA MigrationReadyChanges ==
    ASSUME NEW u, NEW t \in Task, NEW closed, NEW lost, Waits(u, t, {}, closed, lost),
           Migrates(u.attempt[t].path), ~u.attempt[t].mergeScheduled,
           u.attempt[t].merge = NoTime, ~u.attempt[t].committed
    PROVE  Changes(u, MigrationReady(u, t), t, closed, lost)
<1> DEFINE r == u.attempt[t]
<1>1. u \in World /\ u.ok /\ u.now \in Time /\ r \in Attempt
    BY ActiveTypes DEF Waits
<1>2. r.live
    BY DEF Waits, Active
<1>3. CASE ~Received(u, t, "STATE") \/ (r.path # "MIGRATE_REDO" /\ ~Received(u, t, "TAIL"))
    <2>1. MigrationReady(u, t) = u
        BY <1>3 DEF MigrationReady
    <2>2. TakesTail(r.path) <=> r.path # "MIGRATE_REDO"
        BY DEF Migrates, TakesTail
    <2>3. Merging(u, t)
        BY <1>3, <2>2 DEF Merging, TailReady
    <2>4. ~StateReady(u, t)
        BY <1>3, <2>2 DEF StateReady, Migrates
    <2> QED BY <2>1, <2>3, <2>4, WaitsJoining, WaitingStays
<1>4. CASE Received(u, t, "STATE") /\ r.path = "MIGRATE_REDO"
    <2> DEFINE e == [r EXCEPT !.mergeScheduled = TRUE]
               z == Record(u, t, u.task[t], e, u.store, u.stopped)
    <2>1. MigrationReady(u, t) = StartCompute([u EXCEPT !.attempt[t].mergeScheduled = TRUE], t)
        BY <1>4 DEF MigrationReady
    <2>2. [u EXCEPT !.attempt[t].mergeScheduled = TRUE] = [u EXCEPT !.attempt[t] = e]
        OBVIOUS
    <2>3. /\ e \in Attempt /\ e.delivery = r.delivery /\ e.live
          /\ e.stage = r.stage /\ e.node = r.node /\ e.path = r.path /\ e.actual = r.actual
          /\ e.decide = r.decide /\ e.started = r.started /\ e.committed = r.committed
          /\ e.mergeScheduled /\ e.merge = r.merge
        BY <1>1, <1>2 DEF Attempt
    <2> HIDE DEF e
    <2>4. [u EXCEPT !.attempt[t] = e] = z
        BY <1>1, AttemptRecord
    <2>5. MigrationReady(u, t) = StartCompute(z, t)
        BY <2>1, <2>2, <2>4
    <2> HIDE DEF z
    <2>6. /\ Waits(z, t, {}, closed, lost) /\ Only(u, z, {t})
          /\ z.attempt[t] = e /\ z.svc = u.svc /\ z.now = u.now /\ z.deferred = u.deferred
        BY <2>3, SetMerge DEF z
    <2>7. Merging(z, t)
        BY <1>4, <2>3, <2>6 DEF Merging, TailReady, Received, TakesTail, Migrates
    <2>8. StateReady(z, t)
        BY <1>4, <2>3, <2>6 DEF StateReady, Received
    <2>9. z.deferred \/ (StateReady(z, t) /\ InputReady(z, t))
        BY <1>4, <2>3, <2>6, <2>8 DEF InputReady, Wanted, Migrates, TakesTail
    <2>10. Changes(z, StartCompute(z, t), t, closed, lost)
        BY <2>6, <2>7, <2>9, WaitsJoining, StartComputeJoins
    <2> QED BY <2>5, <2>6, <2>10, ChangesAfter
<1>5. CASE Received(u, t, "STATE") /\ r.path # "MIGRATE_REDO" /\ Received(u, t, "TAIL")
    <2> DEFINE due == u.now + RemoteCost
               e == [r EXCEPT !.mergeScheduled = TRUE, !.merge = due]
               z == Record(u, t, u.task[t], e, u.store, u.stopped)
    <2>0. due \in Time /\ due # NoTime
        BY <1>1, WorkAssumption DEF Time, NoTime
    <2>1. MigrationReady(u, t) = [u EXCEPT !.attempt[t].mergeScheduled = TRUE, !.attempt[t].merge = due]
        BY <1>5 DEF MigrationReady
    <2>2. [u EXCEPT !.attempt[t].mergeScheduled = TRUE, !.attempt[t].merge = due]
            = [u EXCEPT !.attempt[t] = e]
        BY <1>1, WorldTypes DEF World
    <2> HIDE DEF due
    <2>3. /\ e \in Attempt /\ e.delivery = r.delivery /\ e.live
          /\ e.stage = r.stage /\ e.node = r.node /\ e.path = r.path /\ e.actual = r.actual
          /\ e.decide = r.decide /\ e.started = r.started /\ e.committed = r.committed
          /\ e.mergeScheduled /\ e.merge = due
        BY <1>1, <1>2, <2>0 DEF Attempt
    <2> HIDE DEF e
    <2>4. [u EXCEPT !.attempt[t] = e] = z
        BY <1>1, AttemptRecord
    <2>5. MigrationReady(u, t) = z
        BY <2>1, <2>2, <2>4
    <2> HIDE DEF z
    <2>6. /\ Waits(z, t, {}, closed, lost) /\ Only(u, z, {t})
          /\ z.attempt[t] = e /\ z.svc = u.svc /\ z.now = u.now /\ z.deferred = u.deferred
        BY <2>3, SetMerge DEF z
    <2>7. Merging(z, t)
        BY <1>5, <2>0, <2>3, <2>6 DEF Merging, TailReady, Received, TakesTail, Migrates
    <2>8. ~StateReady(z, t)
        BY <1>5, <2>3, <2>6 DEF StateReady, Received, Migrates
    <2>9. Changes(z, z, t, closed, lost)
        BY <2>6, <2>7, <2>8, WaitsJoining, WaitingStays
    <2> QED BY <2>5, <2>6, <2>9, ChangesAfter
<1> QED BY <1>3, <1>4, <1>5

\* The merge timer finds the tail and its base, and the join goes on.
LEMMA CommitTailChanges ==
    ASSUME NEW u, NEW t \in Task, NEW closed, NEW lost, Waits(u, t, {}, closed, lost),
           Merging(u, t), u.attempt[t].merge # NoTime
    PROVE  Changes(u, CommitTail(u, t), t, closed, lost)
<1> DEFINE r == u.attempt[t]
           n == r.node
           e == [r EXCEPT !.merge = NoTime, !.committed = TRUE]
           store == u.store \ Held(u, n, t, "BATCH")
           z == Record(u, t, u.task[t], e, store, u.stopped)
           after == {}
<1>1. /\ u \in World /\ u.ok /\ u.now \in Time /\ r \in Attempt /\ u.task[t] \in TaskRuntime
      /\ u.store \in SUBSET StorageEntry /\ u.stopped \in SUBSET Task
    BY ActiveTypes DEF Waits
<1>2. /\ r.live /\ Waits(u, t, after, closed, lost) /\ WorldOK(u)
      /\ Waiting(u, t, after) /\ Stocked(u, t)
    BY DEF Waits, Active, Waiting
<1>3. ~r.committed /\ TailReady(u, t)
    BY DEF Merging
<1>4. Committed(u, n, t, "STATE") /\ Committed(u, n, t, "BATCH")
    BY <1>2, <1>3 DEF Stocked, TailReady, TakesTail, Migrates
<1>5. CommitTail(u, t) = StartCompute(z, t)
    <2> DEFINE m == Merge(u, n, t)
               attempt == [u.attempt EXCEPT ![t] = e]
               task == [u.task EXCEPT ![t] = u.task[t]]
    <2>1. m = [u EXCEPT !.ok = TRUE, !.store = store]
        <3> DEFINE v == Must(u, Committed(u, n, t, "STATE") /\ Committed(u, n, t, "BATCH"))
        <3>1. v = [u EXCEPT !.ok = TRUE]
            BY <1>1, <1>4 DEF Must, World
        <3>2. v.store = u.store
            BY <1>1, <3>1 DEF World
        <3>3. m = [v EXCEPT !.store = store]
            BY <3>2 DEF Merge
        <3> HIDE DEF v, store
        <3> QED BY <3>1, <3>3
    <2>2. m.attempt = u.attempt
        BY <1>1, <2>1 DEF World
    <2>3. CommitTail(u, t) = StartCompute([m EXCEPT !.attempt[t].merge = NoTime,
                                                     !.attempt[t].committed = TRUE], t)
        BY DEF CommitTail
    <2> HIDE DEF m
    <2>4. [m EXCEPT !.attempt[t].merge = NoTime, !.attempt[t].committed = TRUE]
            = [m EXCEPT !.attempt = attempt]
        <3>1. [m.attempt EXCEPT ![t].merge = NoTime, ![t].committed = TRUE] = attempt
            BY <1>1, <2>2, WorldTypes
        <3> HIDE DEF attempt
        <3> QED BY <3>1
    <2>5. z = [u EXCEPT !.ok = TRUE, !.task = task, !.attempt = attempt, !.store = store,
                        !.stopped = u.stopped]
        BY DEF Record
    <2>6. task = u.task
        BY <1>1, WorldTypes
    <2> HIDE DEF attempt, store, z, task
    <2>7. [m EXCEPT !.attempt = attempt] = z
        BY <1>1, <2>1, <2>5, <2>6 DEF World
    <2> QED BY <2>3, <2>4, <2>7
<1>6. /\ e \in Attempt /\ e.delivery = r.delivery /\ e.live
      /\ e.stage = r.stage /\ e.node = r.node /\ e.path = r.path /\ e.actual = r.actual
      /\ e.decide = r.decide /\ e.started = r.started /\ e.committed
      /\ e.mergeScheduled = r.mergeScheduled /\ e.merge = NoTime
    BY <1>1, <1>2 DEF Attempt
<1> HIDE DEF e
<1>7. store \subseteq u.store /\ \A o \in u.store : o.task # t => o \in store
    BY DEF Held
<1>8. \A o \in Held(u, n, t, "STATE") : o \in store
    BY DEF Held
<1> HIDE DEF store
<1>9. Stockpile(u, t, store)
    BY <1>2, <1>7, StockpileSame
<1>10. z.attempt[t] = e /\ z.store = store
    BY <1>1, <1>6, <1>9, RecordIsPlain DEF Stockpile
<1>11. Advances(u, t, e)
    BY <1>6 DEF Advances, Received
<1>12. Asks(u, t, e, after)
    BY <1>2, <1>6 DEF Waiting, Asks
<1>13. Stocked(z, t)
    <2>1. \A o \in Held(u, n, t, "STATE") : o \in Held(z, n, t, "STATE")
        BY <1>8, <1>10 DEF Held
    <2>2. e.delivery["TAIL"].step = "received"
        BY <1>3, <1>6 DEF TailReady, Received
    <2>3. Committed(z, n, t, "STATE")
        BY <1>4, <2>1 DEF Committed
    <2>4. e.delivery["STATE"].step \in {"local", "queued", "flying"} =>
            \E o \in Held(z, e.node, t, "STATE") : o.reserved
        BY <1>2, <1>6, <2>1 DEF Stocked
    <2> QED BY <1>6, <1>10, <2>2, <2>3, <2>4 DEF Stocked
<1>14. Became(u, z, t, e, store)
    BY DEF z, Became
<1> HIDE DEF z, after
<1>15. Waits(z, t, after, closed, lost) /\ Follows(u, z, t, e, store)
    BY <1>2, <1>9, <1>11, <1>12, <1>13, <1>14, RecordWaits
<1>20. /\ Only(u, z, {t}) /\ z.attempt[t] = e
       /\ z.svc = u.svc /\ z.now = u.now /\ z.deferred = u.deferred
    BY <1>15 DEF Follows
<1>16. Waits(z, t, {}, closed, lost)
    BY <1>15 DEF after
<1>17. Merging(z, t)
    <2>1. \A k : Received(z, t, k) <=> Received(u, t, k)
        BY <1>6, <1>20 DEF Received
    <2>2. TailReady(z, t)
        BY <1>3, <1>6, <1>20, <2>1 DEF TailReady
    <2> QED BY <1>6, <1>20, <2>1, <2>2 DEF Merging
<1>18. z.deferred \/ (StateReady(z, t) /\ InputReady(z, t))
    <2>1. TakesTail(e.path)
        BY <1>3, <1>6 DEF TailReady
    <2> QED BY <1>6, <1>20, <2>1 DEF StateReady, InputReady, Wanted, TakesTail, Migrates
<1>19. Changes(z, StartCompute(z, t), t, closed, lost)
    BY <1>16, <1>17, <1>18, WaitsJoining, StartComputeJoins
<1> QED BY <1>5, <1>20, <1>19, ChangesAfter

\* A live attempt is of a task in recovery.
LEMMA LiveRecovers ==
    ASSUME NEW u, NEW t \in Task, NEW closed, NEW lost, WorldOK(u), TaskOK(u, t),
           u.attempt[t].live
    PROVE  /\ u.task[t].generation = 1 /\ Recovery(u, t) /\ ~Ended(u, t)
           /\ Active(u, t) /\ Timed(u, t)
<1>1. u.task[t] \in TaskRuntime
    BY WorldTypes DEF WorldOK
<1>0. NoAttempt.live = FALSE
    BY DEF NoAttempt
<1>2. u.task[t].generation = 1
    <2>1. ~Primary(u, t)
        BY <1>0 DEF Primary
    <2> QED BY <1>1, <2>1 DEF TaskOK, TaskRuntime
<1>3. Recovery(u, t) /\ ~Ended(u, t)
    BY <1>2 DEF TaskOK, Ended
<1>4. ~Terminal(u, t)
    BY <1>3 DEF Recovery, Deciding, Waiting, Computing, Resulting, Terminal, TerminalState
<1> QED BY <1>2, <1>3, <1>4 DEF TaskOK, Active

LEMMA StaysSound ==
    ASSUME NEW u, NEW t \in Task, NEW closed, NEW lost, WorldOK(u), TaskOK(u, t),
           Exposed(u, t, closed, lost)
    PROVE  Changes(u, u, t, closed, lost)
BY OnlyReflexive DEF Changes

\* Two updates of the records of one task are one.
LEMMA RecordAgain ==
    ASSUME NEW u \in World, NEW t \in Task, NEW a, NEW e, NEW store, NEW stopped,
           NEW b, NEW f, NEW pools, NEW halted
    PROVE  Record(Record(u, t, a, e, store, stopped), t, b, f, pools, halted)
             = Record(u, t, b, f, pools, halted)
<1> DEFINE task == [u.task EXCEPT ![t] = a]
           attempt == [u.attempt EXCEPT ![t] = e]
           c == [u EXCEPT !.ok = TRUE, !.task = task, !.attempt = attempt,
                          !.store = store, !.stopped = stopped]
           ctask == [c.task EXCEPT ![t] = b]
           cattempt == [c.attempt EXCEPT ![t] = f]
           utask == [u.task EXCEPT ![t] = b]
           uattempt == [u.attempt EXCEPT ![t] = f]
<1>1. u.task \in [Task -> TaskRuntime] /\ u.attempt \in [Task -> Attempt]
    BY WorldTypes
<1>2. Record(u, t, a, e, store, stopped) = c
    BY DEF Record
<1>3. [task EXCEPT ![t] = b] = utask /\ [attempt EXCEPT ![t] = f] = uattempt
    BY <1>1
<1> HIDE DEF task, attempt
<1>4. c.task = task /\ c.attempt = attempt
    BY DEF World
<1>5. ctask = utask /\ cattempt = uattempt
    <2> HIDE DEF c
    <2> QED BY <1>3, <1>4
<1>6. Record(c, t, b, f, pools, halted)
        = [c EXCEPT !.ok = TRUE, !.task = ctask, !.attempt = cattempt,
                    !.store = pools, !.stopped = halted]
    BY DEF Record
<1>7. Record(u, t, b, f, pools, halted)
        = [u EXCEPT !.ok = TRUE, !.task = utask, !.attempt = uattempt,
                    !.store = pools, !.stopped = halted]
    BY DEF Record
<1> HIDE DEF ctask, cattempt, utask, uattempt
<1>8. [c EXCEPT !.ok = TRUE, !.task = ctask, !.attempt = cattempt,
                !.store = pools, !.stopped = halted]
        = [u EXCEPT !.ok = TRUE, !.task = utask, !.attempt = uattempt,
                    !.store = pools, !.stopped = halted]
    BY <1>5 DEF World
<1> QED BY <1>2, <1>6, <1>7, <1>8

\* The delivery is marked,
LEMMA DeliveryRecord ==
    ASSUME NEW u \in World, u.ok, NEW t \in Task, NEW k, NEW d
    PROVE  [u EXCEPT !.attempt[t].delivery[k] = d] = Mark(u, t, k, d)
<1> DEFINE e == Marked(u.attempt[t], k, d)
<1>1. [u EXCEPT !.attempt[t].delivery[k] = d] = [u EXCEPT !.attempt[t] = e]
    BY DEF Marked
<1> HIDE DEF e
<1>2. [u EXCEPT !.attempt[t] = e] = Record(u, t, u.task[t], e, u.store, u.stopped)
    BY AttemptRecord
<1> QED BY <1>1, <1>2 DEF Mark, e

\* and the reservation it fills is committed.
LEMMA CommitRecord ==
    ASSUME NEW u \in World, NEW t \in Task, NEW e \in Attempt, NEW n, NEW kind,
           \E o \in Held(u, n, t, kind) : o.reserved
    PROVE  CommitReservation(Record(u, t, u.task[t], e, u.store, u.stopped), n, t, kind)
             = Record(u, t, u.task[t], e, Settle(u, n, t, kind), u.stopped)
<1> DEFINE v == Record(u, t, u.task[t], e, u.store, u.stopped)
           pools == Settle(u, n, t, kind)
<1>1. u.task[t] \in TaskRuntime /\ u.store \in SUBSET StorageEntry /\ u.stopped \in SUBSET Task
    BY WorldTypes
<1>2. v \in World /\ v.ok /\ v.store = u.store
    <2> DEFINE a == u.task[t]
               held == u.store
               halted == u.stopped
    <2>1. \A o \in StorageEntry : o.task # t => (o \in held <=> o \in u.store)
        OBVIOUS
    <2>2. /\ a \in TaskRuntime /\ held \in SUBSET StorageEntry /\ halted \in SUBSET Task
          /\ v = Record(u, t, a, e, held, halted)
        BY <1>1
    <2> HIDE DEF a, held, halted, v
    <2>3. Plain(u, v, t) /\ v.store = held
        BY <2>1, <2>2, RecordIsPlain
    <2> QED BY <2>3 DEF Plain, held
<1>3. Held(v, n, t, kind) = Held(u, n, t, kind)
    <2> HIDE DEF v
    <2> QED BY <1>2 DEF Held
<1>4. Settle(v, n, t, kind) = pools
    <2> HIDE DEF v
    <2> QED BY <1>2, <1>3 DEF Settle
<1>5. CommitReservation(v, n, t, kind) = [v EXCEPT !.ok = TRUE, !.store = pools]
    <2> HIDE DEF v, pools
    <2>1. \E o \in Held(v, n, t, kind) : o.reserved
        BY <1>3
    <2>2. CommitReservation(v, n, t, kind) = [v EXCEPT !.ok = TRUE, !.store = Settle(v, n, t, kind)]
        <3> DEFINE m == Must(v, \E o \in Held(v, n, t, kind) : o.reserved)
        <3>1. m = [v EXCEPT !.ok = TRUE]
            BY <1>2, <2>1 DEF Must, World
        <3>2. m.store = v.store
            BY <1>2, <3>1 DEF World
        <3>3. CommitReservation(v, n, t, kind) = [m EXCEPT !.store = Settle(v, n, t, kind)]
            BY <3>2 DEF CommitReservation, Settle
        <3> HIDE DEF m
        <3> QED BY <3>1, <3>3
    <2> QED BY <1>4, <2>2
<1>6. [v EXCEPT !.ok = TRUE, !.store = pools] = Record(u, t, u.task[t], e, pools, u.stopped)
    <2> DEFINE task == [u.task EXCEPT ![t] = u.task[t]]
               attempt == [u.attempt EXCEPT ![t] = e]
    <2>1. v = [u EXCEPT !.ok = TRUE, !.task = task, !.attempt = attempt,
                        !.store = u.store, !.stopped = u.stopped]
        BY DEF Record
    <2>2. Record(u, t, u.task[t], e, pools, u.stopped)
            = [u EXCEPT !.ok = TRUE, !.task = task, !.attempt = attempt,
                        !.store = pools, !.stopped = u.stopped]
        BY DEF Record
    <2> HIDE DEF task, attempt, pools, v
    <2> QED BY <2>1, <2>2 DEF World
<1> QED BY <1>5, <1>6

\* What a live attempt receives is what it waits for.
LEMMA ReceiveJoins ==
    ASSUME NEW u, NEW t \in Task, NEW closed, NEW lost, Waits(u, t, {}, closed, lost),
           Merging(u, t), NEW k \in {"INPUT", "STATE", "TAIL"},
           u.attempt[t].delivery[k].step \in {"local", "queued", "flying"}
    PROVE  Changes(u, Receive(u, t, k), t, closed, lost)
<1> DEFINE r == u.attempt[t]
           n == r.node
           e == Marked(r, k, Got)
           store == Arrived(u, n, t, k)
           z == Record(u, t, u.task[t], e, store, u.stopped)
<1>1. /\ u \in World /\ u.ok /\ u.now \in Time /\ r \in Attempt /\ u.task[t] \in TaskRuntime
    BY ActiveTypes DEF Waits
<1>2. /\ r.live /\ Owns(u, t) /\ WorldOK(u) /\ Waiting(u, t, {}) /\ k \in Kind
    BY DEF Waits, Active, Waiting, Owns, Kind
<1>3. /\ k = "STATE" => \E o \in Held(u, n, t, "STATE") : o.reserved
      /\ k = "TAIL" => \E o \in Held(u, n, t, "BATCH") : o.reserved
    BY <1>2, ArrivedPools
<1>4. Got \in Delivery /\ Got.step = "received"
    BY DEF Got, Delivery
<1> HIDE DEF store
<1>5. /\ e \in Attempt /\ e.delivery[k] = Got
      /\ \A j \in Kind \ {k} : e.delivery[j] = r.delivery[j]
      /\ e.live = r.live /\ e.stage = r.stage /\ e.node = r.node /\ e.path = r.path
      /\ e.actual = r.actual /\ e.decide = r.decide /\ e.merge = r.merge
      /\ e.mergeScheduled = r.mergeScheduled
      /\ e.committed = r.committed /\ e.started = r.started
    <2> HIDE DEF r
    <2>1. Differs(Marked(r, k, Got), r, k, Got)
        BY <1>1, <1>2, <1>4, MarkedType
    <2>2. Differs(e, r, k, Got)
        BY <2>1
    <2> HIDE DEF e
    <2> QED BY <2>2 DEF Differs
<1>6. [u EXCEPT !.attempt[t].delivery[k] = Got]
        = Record(u, t, u.task[t], e, u.store, u.stopped)
    BY <1>1, DeliveryRecord DEF Mark
<1>7. Wanted(u, t, k) /\ ~Received(u, t, k)
    BY <1>2 DEF Waiting, Received
<1> HIDE DEF e
<1>8. /\ k = "INPUT" => Receive(u, t, k) = StartCompute(z, t)
      /\ k = "STATE" => Receive(u, t, k) = MigrationReady(z, t)
      /\ k = "TAIL" /\ r.path = "MIGRATE_TAIL" => Receive(u, t, k) = MigrationReady(z, t)
      /\ k = "TAIL" /\ r.path # "MIGRATE_TAIL" =>
           Receive(u, t, k) = [z EXCEPT !.attempt[t].merge = u.now + RemoteCost]
    <2> DEFINE v == Record(u, t, u.task[t], e, u.store, u.stopped)
    <2>1. /\ k = "STATE" => CommitReservation(v, n, t, "STATE") = z
          /\ k = "TAIL" => CommitReservation(v, n, t, "BATCH") = z
          /\ k = "INPUT" => v = z
        BY <1>1, <1>3, <1>5, CommitRecord DEF store, Arrived
    <2> HIDE DEF v, z
    <2>2. [u EXCEPT !.attempt[t].delivery[k] = [step |-> "received", due |-> NoTime]] = v
        BY <1>6 DEF v, Got
    <2>3. CASE k = "INPUT"
        BY <1>2, <2>1, <2>2, <2>3 DEF Receive
    <2>4. CASE k = "STATE"
        BY <1>2, <2>1, <2>2, <2>4, SMTT(30) DEF Receive
    <2>5. CASE k = "TAIL"
        BY <1>2, <2>1, <2>2, <2>5 DEF Receive
    <2> QED BY <2>3, <2>4, <2>5
<1>9. /\ Waits(z, t, {}, closed, lost) /\ Only(u, z, {t})
      /\ z.attempt[t] = e /\ z.svc = u.svc /\ z.now = u.now /\ z.deferred = u.deferred
    <2>1. Fills(u, t, k, e)
        BY <1>2, <1>5 DEF Fills
    <2>2. Became(u, z, t, e, store) /\ store = Arrived(u, r.node, t, k)
        BY DEF Became, store
    <2> HIDE DEF z
    <2>3. Waits(z, t, {}, closed, lost) /\ Follows(u, z, t, e, store)
        BY <2>1, <2>2, Arrive
    <2> QED BY <2>3 DEF Follows
<1> HIDE DEF z
<1>10. \A j \in Kind : Received(z, t, j) <=> Received(u, t, j) \/ j = k
    BY <1>4, <1>5, <1>9 DEF Received
<1>11. CASE k = "INPUT"
    <2>1. \A j \in Kind \ {"INPUT"} : Received(z, t, j) <=> Received(u, t, j)
        BY <1>10, <1>11
    <2>2. Received(z, t, "INPUT")
        BY <1>10, <1>11, <1>2
    <2>3. Merging(z, t)
        BY <1>5, <1>9, <2>1, KindsKnown DEF Merging, TailReady
    <2>4. z.deferred \/ (StateReady(z, t) /\ InputReady(z, t))
        BY <1>5, <1>7, <1>9, <1>11, <2>2 DEF StateReady, InputReady, Wanted, Migrates, TakesTail
    <2>5. Changes(z, StartCompute(z, t), t, closed, lost)
        BY <1>9, <2>3, <2>4, WaitsJoining, StartComputeJoins
    <2> QED BY <1>8, <1>9, <1>11, <2>5, ChangesAfter
<1>12. CASE k = "STATE" \/ (k = "TAIL" /\ r.path = "MIGRATE_TAIL")
    <2>1. Migrates(r.path)
        BY <1>7, <1>12 DEF Wanted, Migrates
    <2>2. ~r.mergeScheduled /\ r.merge = NoTime /\ ~r.committed
        BY <1>7, <1>12, <2>1 DEF Merging, TailReady, Wanted
    <2>3. Changes(z, MigrationReady(z, t), t, closed, lost)
        BY <1>5, <1>9, <2>1, <2>2, MigrationReadyChanges
    <2> QED BY <1>8, <1>9, <1>12, <2>3, ChangesAfter
<1>13. CASE k = "TAIL" /\ r.path # "MIGRATE_TAIL"
    <2> DEFINE due == u.now + RemoteCost
               f == [e EXCEPT !.merge = due]
               y == Record(z, t, z.task[t], f, z.store, z.stopped)
    <2>0. due \in Time /\ due # NoTime
        BY <1>1, WorkAssumption DEF Time, NoTime
    <2> HIDE DEF due
    <2>1. z \in World /\ z.ok
        BY <1>9, ActiveTypes DEF Waits
    <2>2. [z EXCEPT !.attempt[t].merge = due] = [z EXCEPT !.attempt[t] = f]
        BY <1>9
    <2>3. /\ f \in Attempt /\ f.delivery = e.delivery /\ f.live
          /\ f.stage = e.stage /\ f.node = e.node /\ f.path = e.path /\ f.actual = e.actual
          /\ f.decide = e.decide /\ f.started = e.started /\ f.committed = e.committed
          /\ f.mergeScheduled = e.mergeScheduled /\ f.merge = due
        BY <1>2, <1>5, <2>0 DEF Attempt
    <2> HIDE DEF f
    <2>4. [z EXCEPT !.attempt[t] = f] = y
        BY <2>1, AttemptRecord
    <2>5. Receive(u, t, k) = y
        BY <1>8, <1>13, <2>2, <2>4 DEF due
    <2> HIDE DEF y
    <2>6. /\ Waits(y, t, {}, closed, lost) /\ Only(z, y, {t})
          /\ y.attempt[t] = f /\ y.svc = z.svc /\ y.now = z.now /\ y.deferred = z.deferred
        BY <1>9, <2>3, SetMerge, ZenonT(60) DEF y
    <2>7. r.path = "TAIL"
        BY <1>7, <1>13 DEF Wanted, TakesTail
    <2>8. Received(y, t, "TAIL") /\ f.delivery = e.delivery
        BY <1>2, <1>9, <1>10, <1>13, <2>3, <2>6 DEF Received
    <2>9. ~r.mergeScheduled /\ ~r.committed
        BY <1>7, <1>13, <2>7 DEF Merging, TailReady, Migrates
    <2>10. Merging(y, t)
        BY <1>5, <2>0, <2>3, <2>6, <2>7, <2>8, <2>9 DEF Merging, TailReady, Migrates, TakesTail
    <2>11. ~StateReady(y, t)
        BY <1>5, <2>3, <2>6, <2>7, <2>9 DEF StateReady
    <2>12. Changes(y, y, t, closed, lost)
        BY <2>6, <2>10, <2>11, WaitsJoining, WaitingStays
    <2>13. Only(u, y, {t})
        BY <1>9, <2>6, OnlyTransitive
    <2> QED BY <2>5, <2>12, <2>13, ChangesAfter
<1> QED BY <1>11, <1>12, <1>13

Pending == {"local", "queued", "flying"}

\* Only a live attempt has something on its way,
LEMMA PendingLives ==
    ASSUME NEW u, NEW t \in Task, WorldOK(u), TaskOK(u, t), NEW k \in Kind,
           u.attempt[t].delivery[k].step \in {"local", "flying"}
    PROVE  u.attempt[t].live
<1>1. u.task[t] \in TaskRuntime
    BY WorldTypes DEF WorldOK
<1>2. ~Primary(u, t)
    <2>1. NoAttempt.delivery[k] = Absent /\ Absent.step = "none"
        BY DEF NoAttempt, Absent
    <2> QED BY <2>1 DEF Primary
<1>3. Recovery(u, t)
    BY <1>1, <1>2 DEF TaskOK, TaskRuntime
<1>4. ~Ended(u, t)
    BY DEF Ended
<1> QED BY <1>3, <1>4 DEF Recovery, Deciding, Waiting, Computing, Resulting, Past

\* namely a dependency it waits for, or its result.
LEMMA PendingIs ==
    ASSUME NEW u, NEW t \in Task, WorldOK(u), TaskOK(u, t), NEW k \in Kind,
           u.attempt[t].live, u.attempt[t].delivery[k].step \in Pending
    PROVE  /\ Owns(u, t)
           /\ k # "RESULT" => /\ Waiting(u, t, {}) /\ Merging(u, t) /\ Wanted(u, t, k)
                              /\ ~(StateReady(u, t) /\ InputReady(u, t))
           /\ k = "RESULT" => Resulting(u, t)
<1> DEFINE d == u.attempt[t].delivery[k]
<1>0. d.step # "none" /\ d.step # "received"
    BY DEF Pending
<1>1. Recovery(u, t) /\ ~Ended(u, t)
    BY LiveRecovers
<1>2. ~Deciding(u, t)
    <2>1. NoAttempt.delivery[k] = Absent /\ Absent.step = "none"
        BY DEF NoAttempt, Absent
    <2>2. Deciding(u, t) => u.attempt[t].delivery = NoAttempt.delivery
        BY DEF Deciding, NoAttempt
    <2> QED BY <1>0, <2>1, <2>2
<1>3. ASSUME Waiting(u, t, {}) PROVE Wanted(u, t, k) /\ k # "RESULT"
    <2>1. Wanted(u, t, k)
        BY <1>0, <1>3 DEF Waiting
    <2> QED BY <2>1 DEF Wanted
<1>4. ~Computing(u, t)
    BY <1>0 DEF Computing, Past
<1>5. Resulting(u, t) => k = "RESULT"
    BY <1>0 DEF Resulting, Past
<1> QED BY <1>1, <1>2, <1>3, <1>4, <1>5 DEF Recovery, Waiting, Resulting, Owns

\* What is on its way has both its ends.
LEMMA PendingAlive ==
    ASSUME NEW u, NEW t \in Task, WorldOK(u), TaskOK(u, t), Exposed(u, t, {}, {}),
           NEW k \in Kind, u.attempt[t].live, u.attempt[t].delivery[k].step \in Pending
    PROVE  ~Down(u, From(u, t, k)) /\ ~Down(u, Into(u, t, k))
<1>1. /\ k # "RESULT" => Waiting(u, t, {}) /\ Wanted(u, t, k)
      /\ k = "RESULT" => Resulting(u, t)
    BY PendingIs
<1>2. u.attempt[t].node \in Server /\ NoNode \notin Server
    BY <1>1, NodeAssumption DEF Waiting, Resulting, Past
<1>3. \A n \in u.dead : ~Needs(u, t, n)
    BY <1>2 DEF Exposed
<1>4. ~Received(u, t, k)
    BY DEF Received, Pending
<1>5. Needs(u, t, From(u, t, k)) /\ Needs(u, t, Into(u, t, k))
    BY <1>1, <1>4 DEF Needs, From, Into, Wanted, Kind
<1> QED BY <1>3, <1>5 DEF Down

\* The result of a recovery completes its task.
LEMMA ResultReceivedCloses ==
    ASSUME NEW u, NEW t \in Task, Active(u, t), Timed(u, t), Resulting(u, t),
           ~Down(u, u.attempt[t].node), ~Down(u, ResultNode[t]),
           u.attempt[t].delivery["RESULT"].step \in Pending
    PROVE  Closes(u, Receive(u, t, "RESULT"), t)
<1> DEFINE r == u.attempt[t]
           e == Marked(r, "RESULT", Got)
           f == [e EXCEPT !.stage = "COMPLETED"]
           a == [u.task[t] EXCEPT !.state = "COMPLETED"]
           v == Record(u, t, u.task[t], e, u.store, u.stopped)
           z == Record(u, t, a, f, u.store, u.stopped)
<1>1. /\ u \in World /\ u.ok /\ r \in Attempt /\ u.task[t] \in TaskRuntime
      /\ u.store \in SUBSET StorageEntry /\ u.stopped \in SUBSET Task
    BY ActiveTypes
<1>2. /\ r.live /\ r.stage = "RESULT" /\ u.task[t].state = "RESULT_TRANSFERRING"
      /\ u.task[t].generation = 1 /\ ~u.task[t].timer /\ WorldOK(u) /\ Located(u, t) /\ Joined(u, t)
      /\ "RESULT" \in Kind
    BY DEF Active, Resulting, Past, Timed, Kind
<1>3. Differs(e, r, "RESULT", Got)
    <2>1. Got \in Delivery
        BY DEF Got, Delivery
    <2> HIDE DEF r
    <2> QED BY <1>1, <1>2, <2>1, MarkedType
<1>4. [u EXCEPT !.attempt[t].delivery["RESULT"] = Got] = v
    BY <1>1, DeliveryRecord DEF Mark
<1> HIDE DEF e
<1>5. /\ e \in Attempt /\ e.live /\ e.stage = "RESULT" /\ e.node = r.node /\ e.path = r.path
      /\ e.committed = r.committed /\ e.started = r.started
      /\ \A j \in Kind \ {"RESULT"} : e.delivery[j] = r.delivery[j]
    BY <1>2, <1>3 DEF Differs
<1>6. /\ f \in Attempt /\ f.live /\ f.stage = "COMPLETED" /\ f.node = e.node /\ f.path = e.path
      /\ f.committed = e.committed /\ f.started = e.started /\ f.delivery = e.delivery
    BY <1>5 DEF Attempt, Stage
<1>7. /\ a \in TaskRuntime /\ a.state = "COMPLETED" /\ a.timer = u.task[t].timer
      /\ a.generation = u.task[t].generation
    BY <1>1 DEF TaskRuntime, TerminalState
<1>8. Receive(u, t, "RESULT") = Cleanup(z, t)
    <2>1. Receive(u, t, "RESULT") = ResultReceived(v, t)
        <3>1. [u EXCEPT !.attempt[t].delivery["RESULT"] = [step |-> "received", due |-> NoTime]] = v
            BY <1>4 DEF Got
        <3> HIDE DEF v
        <3> QED BY <1>2, <3>1 DEF Receive, Owns
    <2> DEFINE task == [u.task EXCEPT ![t] = u.task[t]]
               attempt == [u.attempt EXCEPT ![t] = e]
               ztask == [u.task EXCEPT ![t] = a]
               zattempt == [u.attempt EXCEPT ![t] = f]
    <2>2. v = [u EXCEPT !.ok = TRUE, !.task = task, !.attempt = attempt,
                        !.store = u.store, !.stopped = u.stopped]
        BY DEF Record
    <2>3. z = [u EXCEPT !.ok = TRUE, !.task = ztask, !.attempt = zattempt,
                        !.store = u.store, !.stopped = u.stopped]
        BY DEF Record
    <2>4. /\ task = u.task /\ attempt[t] = e
          /\ [task EXCEPT ![t].state = "COMPLETED"] = ztask
          /\ [attempt EXCEPT ![t].stage = "COMPLETED"] = zattempt
        BY <1>1, WorldTypes
    <2> HIDE DEF task, attempt, ztask, zattempt, v, z
    <2>5. v.ok = TRUE /\ v.task = task /\ v.attempt = attempt /\ v.dead = u.dead
        BY <1>1, <2>2 DEF World
    <2> DEFINE m == Must(v, /\ v.attempt[t].stage = "RESULT"
                            /\ v.task[t].state = "RESULT_TRANSFERRING"
                            /\ ~Down(v, v.attempt[t].node) /\ ~Down(v, ResultNode[t]))
    <2>6. m = v
        <3>1. /\ v.attempt[t].stage = "RESULT" /\ v.task[t].state = "RESULT_TRANSFERRING"
              /\ ~Down(v, v.attempt[t].node) /\ ~Down(v, ResultNode[t])
            BY <1>2, <1>5, <2>4, <2>5 DEF Down
        <3>2. m = [v EXCEPT !.ok = TRUE]
            BY <2>5, <3>1 DEF Must
        <3>3. [v EXCEPT !.ok = TRUE] = v
            BY <1>1, <2>2 DEF World
        <3> QED BY <3>2, <3>3
    <2>7. ResultReceived(v, t)
            = Cleanup([m EXCEPT !.attempt[t].stage = "COMPLETED", !.task[t].state = "COMPLETED"], t)
        BY DEF ResultReceived
    <2> HIDE DEF m
    <2>8. [m EXCEPT !.attempt[t].stage = "COMPLETED", !.task[t].state = "COMPLETED"]
            = [v EXCEPT !.attempt = zattempt, !.task = ztask]
        BY <2>4, <2>5, <2>6
    <2>9. [v EXCEPT !.attempt = zattempt, !.task = ztask] = z
        BY <1>1, <2>2, <2>3 DEF World
    <2> QED BY <2>1, <2>7, <2>8, <2>9
<1> HIDE DEF f, a
<1>9. /\ Plain(u, z, t) /\ z.task[t] = a /\ z.attempt[t] = f /\ z.store = u.store
      /\ z.svc = u.svc /\ z.deferred = u.deferred
    BY <1>1, <1>6, <1>7, RecordIsPlain
<1> HIDE DEF z
<1>10. WorldOK(z) /\ Only(u, z, {t})
    BY <1>2, <1>9, PlainWorld
<1>11. Ending(z, t)
    <2>1. Joined(z, t)
        BY <1>2, <1>5, <1>6, <1>9, KindsKnown DEF Joined, InputReady, Wanted, Received
    <2>2. ASSUME NEW n \in Server
          PROVE  LET s == z.svc[n] IN
                 /\ t \in s.known => n = HostNode[t] \/ (z.attempt[t].started /\ z.attempt[t].node = n)
                 /\ \A i \in s.queue : i.task # t
                 /\ s.owner = t => z.attempt[t].node = n
                 /\ Runs(s, t) => s.runningRecovery
        BY <1>2, <1>5, <1>6, <1>9 DEF Located
    <2>3. Terminal(z, t)
        BY <1>7, <1>9 DEF Terminal, TerminalState
    <2> QED BY <1>2, <1>6, <1>7, <1>9, <2>1, <2>2, <2>3 DEF Ending
<1>12. Closes(z, Cleanup(z, t), t)
    BY <1>10, <1>11, CleanupCloses
<1> QED BY <1>8, <1>10, <1>12, ClosesAfter

\* Whatever arrives leaves the task in order.
LEMMA ReceiveChanges ==
    ASSUME NEW u, NEW t \in Task, WorldOK(u), TaskOK(u, t), Exposed(u, t, {}, {}),
           NEW k \in Kind, u.attempt[t].delivery[k].step \in {"local", "flying"}
    PROVE  Changes(u, Receive(u, t, k), t, {}, {})
<1> DEFINE none == {}
<1>1. u.attempt[t].live /\ u.attempt[t].delivery[k].step \in Pending
    BY PendingLives DEF Pending
<1>2. Active(u, t) /\ Timed(u, t) /\ Exposed(u, t, none, none)
    BY <1>1, LiveRecovers
<1>3. CASE k = "RESULT"
    <2>1. Resulting(u, t)
        BY <1>1, <1>3, PendingIs
    <2>2. ~Down(u, u.attempt[t].node) /\ ~Down(u, ResultNode[t])
        BY <1>1, <1>3, PendingAlive DEF From, Into
    <2>3. Closes(u, Receive(u, t, k), t)
        BY <1>1, <1>2, <1>3, <2>1, <2>2, ResultReceivedCloses
    <2> QED BY <2>3, ClosesChanges
<1>4. CASE k # "RESULT"
    <2>1. Waiting(u, t, {}) /\ Merging(u, t)
        BY <1>1, <1>4, PendingIs
    <2>2. Waits(u, t, {}, none, none)
        BY <1>2, <2>1 DEF Waits
    <2>3. k \in {"INPUT", "STATE", "TAIL"} /\ u.attempt[t].delivery[k].step \in {"local", "queued", "flying"}
        BY <1>4 DEF Kind
    <2> HIDE DEF none
    <2>4. Changes(u, Receive(u, t, k), t, none, none)
        BY <2>1, <2>2, <2>3, ReceiveJoins
    <2> QED BY <2>4 DEF none
<1> QED BY <1>3, <1>4

\* v is u with another delivery of kind k, neither before nor after received.
Remarks(u, v, t, k, d) ==
    /\ v = Mark(u, t, k, d)
    /\ d \in Delivery /\ d.step # "received" /\ ~Received(u, t, k)

\* Nothing but this delivery is new.
Remarked(u, v, t, k, d, closed, lost) ==
    /\ WorldOK(v) /\ Only(u, v, {t}) /\ Exposed(v, t, closed, lost)
    /\ Located(u, t) => Located(v, t)
    /\ Joined(u, t) => Joined(v, t)
    /\ Timed(u, t) => Timed(v, t)
    /\ Terminal(v, t) <=> Terminal(u, t)
    /\ \A j \in Kind : Received(v, t, j) <=> Received(u, t, j)
    /\ \A j : Wanted(v, t, j) <=> Wanted(u, t, j)
    /\ v.task[t] = u.task[t] /\ v.store = u.store /\ v.svc = u.svc /\ v.now = u.now
    /\ v.deferred = u.deferred
    /\ Differs(v.attempt[t], u.attempt[t], k, d)

LEMMA RemarkKeeps ==
    ASSUME NEW u, NEW t \in Task, NEW closed, NEW lost, WorldOK(u), Exposed(u, t, closed, lost),
           NEW k \in Kind, NEW d, NEW v, Remarks(u, v, t, k, d)
    PROVE  Remarked(u, v, t, k, d, closed, lost)
<1> DEFINE r == u.attempt[t]
           e == Marked(r, k, d)
           a == u.task[t]
           store == u.store
           stopped == u.stopped
<1>1. /\ u \in World /\ r \in Attempt /\ a \in TaskRuntime
      /\ store \in SUBSET StorageEntry /\ stopped \in SUBSET Task /\ d \in Delivery
    BY WorldTypes DEF WorldOK, Remarks
<1>2. Differs(e, r, k, d)
    <2> HIDE DEF r
    <2> QED BY <1>1, MarkedType
<1>3. v = Record(u, t, a, e, store, stopped)
    BY DEF Remarks, Mark
<1>4. \A o \in StorageEntry : o.task # t => (o \in store <=> o \in u.store)
    OBVIOUS
<1> HIDE DEF e, a, store, stopped
<1>5. /\ Plain(u, v, t) /\ v.task[t] = a /\ v.attempt[t] = e /\ v.store = store
      /\ v.svc = u.svc /\ v.now = u.now /\ v.deferred = u.deferred /\ v.dead = u.dead
    BY <1>1, <1>2, <1>3, <1>4, RecordIsPlain DEF Differs
<1>6. v.task[t] = u.task[t] /\ v.store = u.store
    BY <1>5 DEF a, store
<1>7. WorldOK(v) /\ Only(u, v, {t})
    BY <1>5, <1>6, PlainWorld
<1>8. /\ e.live = r.live /\ e.stage = r.stage /\ e.node = r.node /\ e.path = r.path
      /\ e.started = r.started /\ e.committed = r.committed
      /\ e.delivery[k] = d /\ \A j \in Kind \ {k} : e.delivery[j] = r.delivery[j]
    BY <1>2 DEF Differs
<1>9. \A j \in Kind : Received(v, t, j) <=> Received(u, t, j)
    BY <1>5, <1>8 DEF Received, Remarks
<1>10. \A j : Wanted(v, t, j) <=> Wanted(u, t, j)
    BY <1>5, <1>8 DEF Wanted
<1>11. Located(u, t) => Located(v, t)
    BY <1>5, <1>6, <1>8 DEF Located
<1>12. Joined(u, t) => Joined(v, t)
    BY <1>5, <1>8, <1>9, <1>10, KindsKnown DEF Joined, InputReady
<1>13. Exposed(v, t, closed, lost)
    <2>1. \A n : Needs(v, t, n) <=> Needs(u, t, n)
        BY <1>5, <1>8, <1>9, KindsKnown DEF Needs
    <2> QED BY <1>5, <1>6, <1>8, <2>1 DEF Exposed
<1>14. (Timed(u, t) => Timed(v, t)) /\ (Terminal(v, t) <=> Terminal(u, t))
    BY <1>5, <1>6 DEF Timed, Terminal
<1>15. Differs(v.attempt[t], u.attempt[t], k, d)
    BY <1>2, <1>5
<1> QED BY <1>5, <1>6, <1>7, <1>9, <1>10, <1>11, <1>12, <1>13, <1>14, <1>15 DEF Remarked

\* A request of a live attempt goes out, another is dropped.
LEMMA FlushChanges ==
    ASSUME NEW u, NEW t \in Task, WorldOK(u), TaskOK(u, t), Exposed(u, t, {}, {}),
           NEW k \in Kind, u.attempt[t].delivery[k].step = "queued"
    PROVE  Changes(u, Flush(u, t, k), t, {}, {})
<1> DEFINE r == u.attempt[t]
           d == IF r.live /\ Owns(u, t) THEN [step |-> "flying", due |-> NoTime] ELSE Absent
           v == Mark(u, t, k, d)
           none == {}
<1>1. u \in World /\ u.ok /\ u.task[t] \in TaskRuntime
    BY WorldTypes DEF WorldOK
<1>2. Flush(u, t, k) = v
    BY <1>1, DeliveryRecord DEF Flush
<1>3. d \in Delivery /\ d.step # "received" /\ (r.live => d.step \in Pending)
      /\ (~r.live => d.step = "none")
    <2>1. r.live => Owns(u, t)
        BY PendingIs DEF Pending
    <2>2. Absent \in Delivery /\ Absent.step = "none"
        BY DEF Absent, Delivery
    <2>3. [step |-> "flying", due |-> NoTime] \in Delivery
        BY DEF Delivery
    <2> QED BY <2>1, <2>2, <2>3 DEF Pending
<1> HIDE DEF d
<1>4. Remarks(u, v, t, k, d) /\ Exposed(u, t, none, none)
    BY <1>3 DEF Remarks, Received
<1> HIDE DEF v, none
<1>5. /\ WorldOK(v) /\ Only(u, v, {t}) /\ Exposed(v, t, none, none)
      /\ Located(u, t) => Located(v, t)
      /\ Joined(u, t) => Joined(v, t)
      /\ Timed(u, t) => Timed(v, t)
      /\ Terminal(v, t) <=> Terminal(u, t)
      /\ \A j \in Kind : Received(v, t, j) <=> Received(u, t, j)
      /\ \A j : Wanted(v, t, j) <=> Wanted(u, t, j)
      /\ v.task[t] = u.task[t] /\ v.store = u.store /\ v.svc = u.svc /\ v.now = u.now
      /\ v.deferred = u.deferred
      /\ Differs(v.attempt[t], u.attempt[t], k, d)
    <2>1. Remarked(u, v, t, k, d, none, none)
        BY <1>4, RemarkKeeps
    <2> QED BY <2>1 DEF Remarked
<1> DEFINE e == v.attempt[t]
<1>6. /\ e.delivery[k] = d /\ \A j \in Kind \ {k} : e.delivery[j] = r.delivery[j]
      /\ e.live = r.live /\ e.stage = r.stage /\ e.node = r.node /\ e.path = r.path
      /\ e.base = r.base /\ e.tail = r.tail /\ e.actual = r.actual
      /\ e.decide = r.decide /\ e.merge = r.merge
      /\ e.mergeScheduled = r.mergeScheduled
      /\ e.committed = r.committed /\ e.started = r.started
    BY <1>5 DEF Differs
<1> HIDE DEF e
<1>7. e = v.attempt[t]
    BY DEF e
<1>8. Recovery(u, t) /\ u.task[t].generation = 1
    <2>1. ~Primary(u, t)
        <3>1. NoAttempt.delivery[k] = Absent /\ Absent.step = "none"
            BY DEF NoAttempt, Absent
        <3> QED BY <3>1 DEF Primary
    <2> QED BY <1>1, <2>1 DEF TaskOK, TaskRuntime
<1>9. Recovery(v, t)
    <2>1. CASE ~r.live
        <3>1. Ended(u, t)
            BY <1>8, <2>1 DEF Recovery, Deciding, Waiting, Computing, Resulting, Past
        <3>2. Ended(v, t)
            BY <1>3, <1>5, <1>6, <1>7, <2>1, <3>1 DEF Ended, Stores
        <3> QED BY <3>2 DEF Recovery
    <2>2. CASE r.live /\ k # "RESULT"
        <3>1. Waiting(u, t, {}) /\ Merging(u, t) /\ ~(StateReady(u, t) /\ InputReady(u, t))
            BY <2>2, PendingIs DEF Pending
        <3>2. d.step \in Pending /\ r.delivery[k].step \in Pending
            BY <1>3, <2>2 DEF Pending
        <3>3. Stocked(v, t)
            <4>1. \A n, kind : Held(v, n, t, kind) = Held(u, n, t, kind)
                                /\ (Committed(v, n, t, kind) <=> Committed(u, n, t, kind))
                BY <1>5 DEF Held, Committed
            <4>2. \A j \in Kind : e.delivery[j].step \in Pending <=> r.delivery[j].step \in Pending
                BY <1>6, <3>2
            <4>3. Stocked(u, t)
                BY ONLY <3>1 DEF Waiting
            <4>4. \A j \in Kind : Received(v, t, j) <=> Received(u, t, j)
                BY ONLY <1>5
            <4>5. e.path = r.path /\ e.node = r.node /\ e.committed = r.committed
                BY <1>5, <1>6
            <4> HIDE DEF r
            <4> QED BY ONLY <1>7, <4>1, <4>2, <4>3, <4>4, <4>5, KindsKnown DEF r, Stocked, Pending
        <3>4. \A j \in Kind : e.delivery[j].step # "none" <=> r.delivery[j].step # "none"
            BY <1>6, <3>2 DEF Pending
        <3>5. Waiting(v, t, {})
            BY <1>5, <1>6, <1>7, <3>1, <3>3, <3>4 DEF Waiting
        <3>6. Merging(v, t)
            BY <1>5, <1>6, <1>7, <3>1, KindsKnown DEF Merging, TailReady
        <3>7. ~(StateReady(v, t) /\ InputReady(v, t))
            BY <1>5, <1>6, <1>7, <3>1, KindsKnown DEF StateReady, InputReady
        <3> QED BY <3>5, <3>6, <3>7 DEF Recovery
    <2>3. CASE r.live /\ k = "RESULT"
        <3>1. Resulting(u, t)
            BY <2>3, PendingIs DEF Pending
        <3>2. Resulting(v, t)
            BY <1>5, <1>6, <1>7, <2>3, <3>1 DEF Resulting, Past, Stores
        <3> QED BY <3>2 DEF Recovery
    <2> QED BY <2>1, <2>2, <2>3
<1>10. TaskOK(v, t)
    BY <1>5, <1>8, <1>9 DEF TaskOK
<1> QED BY <1>2, <1>5, <1>10 DEF Changes, none

\* A request that is refused ends its attempt.
LEMMA RefusalCloses ==
    ASSUME NEW u, NEW t \in Task, WorldOK(u), TaskOK(u, t), Exposed(u, t, {}, {}),
           NEW k \in Kind, u.attempt[t].delivery[k].step = "queued", u.attempt[t].live
    PROVE  Closes(u, Fail([u EXCEPT !.attempt[t].delivery[k] = Absent], t), t)
<1> DEFINE d == Absent
           v == Mark(u, t, k, d)
           none == {}
<1>1. u \in World /\ u.ok
    BY DEF WorldOK
<1>2. [u EXCEPT !.attempt[t].delivery[k] = Absent] = v
    BY <1>1, DeliveryRecord
<1>3. Remarks(u, v, t, k, d) /\ Exposed(u, t, none, none)
    BY DEF Remarks, Received, Absent, Delivery, d
<1> HIDE DEF d, v, none
<1>4. /\ WorldOK(v) /\ Only(u, v, {t})
      /\ Located(u, t) => Located(v, t)
      /\ Joined(u, t) => Joined(v, t)
      /\ Terminal(v, t) <=> Terminal(u, t)
      /\ v.task[t] = u.task[t]
      /\ Differs(v.attempt[t], u.attempt[t], k, d)
    <2>1. Remarked(u, v, t, k, d, none, none)
        BY <1>3, RemarkKeeps
    <2> QED BY <2>1 DEF Remarked
<1>5. Active(u, t)
    BY LiveRecovers
<1>6. Active(v, t)
    BY <1>4, <1>5 DEF Active, Differs
<1>7. Closes(v, Fail(v, t), t)
    BY <1>6, ActiveFails
<1> QED BY <1>2, <1>4, <1>7, ClosesAfter DEF d

-----------------------------------------------------------------------------
(* Accepting a recovery *)

\* An accepted recovery at n whose requests `left' have not been made and for
\* which nothing has arrived.
Accepting(u, t, left, n, p, closed, lost) ==
    LET r == u.attempt[t] IN
    /\ Waits(u, t, left, closed, lost) /\ r.node = n /\ r.path = p
    /\ ~r.mergeScheduled /\ r.merge = NoTime /\ ~r.committed
    /\ \A k \in Kind : ~Received(u, t, k)

\* A request is made for what has its place in the pool.
Secured(u, n, t, k) ==
    /\ k = "STATE" => \E o \in Held(u, n, t, "STATE") : o.reserved
    /\ k = "TAIL" => \E o \in Held(u, n, t, "BATCH") : o.reserved

\* The next state of an acceptance, unless it has failed.
Proceeds(u, v, t, left, n, p, closed, lost) ==
    /\ Accepting(v, t, left, n, p, closed, lost)
    /\ Only(u, v, {t}) /\ v.deferred = u.deferred

LEMMA SendProceeds ==
    ASSUME NEW u, NEW t \in Task, NEW left, NEW n, NEW p, NEW closed, NEW lost,
           Accepting(u, t, left, n, p, closed, lost),
           NEW k \in Kind, k \in left, Wanted(u, t, k), Secured(u, n, t, k), NEW cut,
           NEW v, v = Deliver(u, t, k, cut), NEW rest, rest = left \ {k}
    PROVE  Closes(u, v, t) \/ (Proceeds(u, v, t, rest, n, p, closed, lost) /\ v.store = u.store)
<1> DEFINE r == u.attempt[t]
           store == u.store
<1>1. /\ u \in World /\ r \in Attempt /\ u.task[t] \in TaskRuntime
      /\ u.store \in SUBSET StorageEntry /\ u.stopped \in SUBSET Task
    BY ActiveTypes DEF Accepting, Waits
<1>2. /\ Active(u, t) /\ Waits(u, t, left, closed, lost) /\ WorldOK(u) /\ Waiting(u, t, left)
      /\ r.live /\ r.node = n /\ r.path = p
      /\ ~r.mergeScheduled /\ r.merge = NoTime /\ ~r.committed
      /\ \A j \in Kind : ~Received(u, t, j)
    BY DEF Accepting, Waits, Active
<1>3. r.delivery[k].step = "none"
    BY <1>2 DEF Waiting
<1>4. CASE Closes(u, v, t)
    BY <1>4
<1>5. ASSUME NEW d \in Delivery, d.step \in {"local", "queued"}, v = Mark(u, t, k, d)
      PROVE  Proceeds(u, v, t, rest, n, p, closed, lost) /\ v.store = u.store
    <2> DEFINE e == Marked(r, k, d)
    <2>1. Differs(e, r, k, d)
        <3> HIDE DEF r
        <3> QED BY <1>1, MarkedType
    <2>2. Became(u, v, t, e, store)
        BY <1>5 DEF Became, Mark
    <2> HIDE DEF e
    <2>3. /\ e \in Attempt /\ e.delivery[k] = d
          /\ \A j \in Kind \ {k} : e.delivery[j] = r.delivery[j]
          /\ e.live = r.live /\ e.stage = r.stage /\ e.node = r.node /\ e.path = r.path
          /\ e.actual = r.actual /\ e.decide = r.decide /\ e.merge = r.merge
          /\ e.mergeScheduled = r.mergeScheduled
          /\ e.committed = r.committed /\ e.started = r.started
        BY <2>1 DEF Differs
    <2>4. Advances(u, t, e)
        BY <1>2, <2>3 DEF Advances
    <2>5. Stockpile(u, t, store)
        BY <1>2, StockpileSame
    <2>6. Asks(u, t, e, rest)
        BY <1>2, <1>5, <2>3 DEF Asks, Waiting
    <2>7. v.attempt[t] = e /\ v.store = store
        BY <1>1, <2>2, <2>3, <2>5, RecordIsPlain DEF Became, Stockpile
    <2>8. \A j \in Kind : ~Received(v, t, j)
        BY <1>2, <1>5, <2>3, <2>7 DEF Received
    <2>9. Stocked(v, t)
        <3>1. \A m, kind : Held(v, m, t, kind) = Held(u, m, t, kind)
                            /\ (Committed(v, m, t, kind) <=> Committed(u, m, t, kind))
            BY <2>7 DEF Held, Committed
        <3>2. Stocked(u, t)
            BY <1>2 DEF Waiting
        <3>3. \A j \in Kind : e.delivery[j].step \in {"local", "queued", "flying"} =>
                 j = k \/ r.delivery[j].step \in {"local", "queued", "flying"}
            BY <2>3
        <3> QED BY <1>2, <2>3, <2>7, <2>8, <3>1, <3>2, <3>3, KindsKnown DEF Stocked, Secured
    <2> HIDE DEF store
    <2>10. Waits(v, t, rest, closed, lost) /\ Follows(u, v, t, e, store)
        BY <1>2, <2>2, <2>4, <2>5, <2>6, <2>9, RecordWaits
    <2> QED BY <1>2, <2>3, <2>7, <2>8, <2>10 DEF Proceeds, Accepting, Follows, store
<1>6. \/ Closes(u, v, t)
      \/ \E d \in Delivery : d.step \in {"local", "queued"} /\ v = Mark(u, t, k, d)
    BY <1>2, <1>3, DeliverRequests
<1> QED BY <1>5, <1>6

LEMMA ReserveProceeds ==
    ASSUME NEW u, NEW t \in Task, NEW left, NEW n, NEW p, NEW closed, NEW lost,
           Accepting(u, t, left, n, p, closed, lost), NEW kind \in {"STATE", "BATCH"},
           Free(u, n) >= 1,
           NEW v, v = TryReserve(u, n, t, kind)
    PROVE  /\ Proceeds(u, v, t, left, n, p, closed, lost)
           /\ \E o \in Held(v, n, t, kind) : o.reserved
           /\ u.store \subseteq v.store
           /\ Free(v, n) >= Free(u, n) - 1
<1> DEFINE r == u.attempt[t]
           x == [node |-> n, task |-> t, kind |-> kind, reserved |-> TRUE]
           store == u.store \cup {x}
<1>1. /\ u \in World /\ u.ok /\ r \in Attempt /\ u.task[t] \in TaskRuntime
      /\ u.store \in SUBSET StorageEntry /\ u.stopped \in SUBSET Task
      /\ u.attempt \in [Task -> Attempt] /\ u.task \in [Task -> TaskRuntime]
    BY ActiveTypes, WorldTypes DEF Accepting, Waits
<1>2. /\ Active(u, t) /\ Waits(u, t, left, closed, lost) /\ WorldOK(u) /\ Waiting(u, t, left)
      /\ r.live /\ r.node = n /\ r.path = p /\ n \in Server
      /\ ~r.mergeScheduled /\ r.merge = NoTime /\ ~r.committed
      /\ \A j \in Kind : ~Received(u, t, j)
    BY DEF Accepting, Waits, Active, Waiting
<1>3. x \in StorageEntry /\ x.node = n /\ x.task = t /\ x.kind = kind /\ x.reserved
    BY <1>2 DEF StorageEntry
<1> HIDE DEF x
<1>4. Became(u, v, t, r, store)
    <2> DEFINE task == [u.task EXCEPT ![t] = u.task[t]]
               attempt == [u.attempt EXCEPT ![t] = r]
    <2>1. v = [u EXCEPT !.store = store]
        BY DEF TryReserve, x
    <2>2. Record(u, t, u.task[t], r, store, u.stopped)
            = [u EXCEPT !.ok = TRUE, !.task = task, !.attempt = attempt,
                        !.store = store, !.stopped = u.stopped]
        BY DEF Record
    <2>3. task = u.task /\ attempt = u.attempt
        BY <1>1
    <2> HIDE DEF task, attempt, store
    <2>4. [u EXCEPT !.store = store]
            = [u EXCEPT !.ok = TRUE, !.task = u.task, !.attempt = u.attempt,
                        !.store = store, !.stopped = u.stopped]
        BY <1>1 DEF World
    <2>5. v = Record(u, t, u.task[t], r, store, u.stopped)
        BY <2>1, <2>2, <2>3, <2>4
    <2> QED BY <2>5 DEF Became
<1>5. store \in SUBSET StorageEntry /\ \A o \in StorageEntry : o.task # t => (o \in store <=> o \in u.store)
    BY <1>1, <1>3
<1>6. v.attempt[t] = r /\ v.store = store
    BY <1>1, <1>4, <1>5, RecordIsPlain DEF Became
<1>7. IsFiniteSet(u.store) /\ IsFiniteSet(store)
    BY <1>2, FS_AddElement DEF WorldOK
<1>8. /\ Free(v, n) \in Int /\ Free(v, n) >= Free(u, n) - 1 /\ Free(v, n) >= 0
      /\ \A m \in Server \ {n} : Free(v, m) = Free(u, m)
    <2> DEFINE a == {o \in u.store : o.node = n}
               b == {o \in store : o.node = n}
    <2>1. b = a \cup {x}
        BY <1>3
    <2>2. IsFiniteSet(a) /\ Cardinality(a) \in Nat /\ IsFiniteSet(b) /\ Cardinality(b) \in Nat
        BY <1>7, FS_Subset, FS_CardinalityType
    <2>3. Free(u, n) = Capacity[n] - Cardinality(a) /\ Free(v, n) = Capacity[n] - Cardinality(b)
        BY <1>6 DEF Free
    <2>4. ASSUME NEW m \in Server \ {n} PROVE Free(v, m) = Free(u, m)
        <3>1. {o \in store : o.node = m} = {o \in u.store : o.node = m}
            BY <1>3
        <3> HIDE DEF store
        <3> QED BY <1>6, <3>1 DEF Free
    <2> HIDE DEF a, b
    <2>5. Cardinality(b) <= Cardinality(a) + 1
        BY <2>1, <2>2, FS_AddElement
    <2>6. Capacity[n] \in Nat
        BY <1>2, WorkAssumption
    <2> QED BY <2>2, <2>3, <2>4, <2>5, <2>6
<1>9. Stockpile(u, t, store)
    <2>1. ASSUME NEW m \in Server PROVE Free(v, m) >= 0
        BY <1>2, <1>8 DEF WorldOK, NodeOK
    <2>2. \A m \in Server : Capacity[m] - Cardinality({o \in store : o.node = m}) >= 0
        BY <1>6, <2>1 DEF Free
    <2> QED BY <1>5, <1>7, <2>2 DEF Stockpile
<1>10. Advances(u, t, r) /\ Asks(u, t, r, left)
    BY <1>1, <1>2 DEF Advances, Asks, Received, Waiting
<1>11. \A j \in Kind : ~Received(v, t, j)
    BY <1>2, <1>6 DEF Received
<1>12. Stocked(v, t)
    <2>1. \A m, j : \A o \in Held(u, m, t, j) : o \in Held(v, m, t, j)
        BY <1>6 DEF Held
    <2>2. \A m, j : Committed(u, m, t, j) => Committed(v, m, t, j)
        BY <2>1 DEF Committed
    <2>3. Stocked(u, t)
        BY <1>2 DEF Waiting
    <2> QED BY <1>6, <1>11, <2>1, <2>2, <2>3, KindsKnown DEF Stocked
<1>13. \E o \in Held(v, n, t, kind) : o.reserved
    BY <1>3, <1>6 DEF Held
<1>14. u.store \subseteq v.store
    BY <1>6
<1> HIDE DEF store
<1>15. Waits(v, t, left, closed, lost) /\ Follows(u, v, t, r, store)
    <2> DEFINE e == r
    <2> HIDE DEF e
    <2>1. /\ Waits(u, t, left, closed, lost) /\ Advances(u, t, e) /\ Stockpile(u, t, store)
          /\ Became(u, v, t, e, store) /\ Asks(u, t, e, left) /\ Stocked(v, t)
        BY <1>2, <1>4, <1>9, <1>10, <1>12 DEF e
    <2>2. Waits(v, t, left, closed, lost) /\ Follows(u, v, t, e, store)
        BY <2>1, RecordWaits
    <2> QED BY <2>2 DEF e
<1>16. Proceeds(u, v, t, left, n, p, closed, lost)
    BY <1>2, <1>6, <1>11, <1>15 DEF Proceeds, Accepting, Follows
<1> QED BY <1>8, <1>13, <1>14, <1>16


-----------------------------------------------------------------------------
(* The decision *)

\* What a policy has found out about the node and the path it takes.
Admitted(u, t, n, p) ==
    /\ n \in Server /\ n # HostNode[t] /\ ~Down(u, n) /\ ~Down(u, ResultNode[t])
    /\ CanReserve(u.svc[n], t) /\ p \in Path /\ u.now < u.task[t].deadline
    /\ u.deferred \/ p = "RECOMPUTE" => ~Down(u, SourceNode[t])
    /\ p # "RECOMPUTE" => /\ Committed(u, RemoteNode[t], t, "STATE")
                          /\ Migrates(p) <=> n # RemoteNode[t]
                          /\ Free(u, n) >= (IF n # RemoteNode[t] THEN 1 ELSE 0)
                                           + (IF TakesTail(p) THEN 1 ELSE 0)
    /\ Migrates(p) => ~Down(u, RemoteNode[t])
    /\ TakesTail(p) => u.attempt[t].tail /\ ~Down(u, LocalNode[t])

LEMMA PathsAdmit ==
    ASSUME NEW u, NEW t \in Task, WorldOK(u), TaskOK(u, t), Deciding(u, t), NEW cut,
           NEW n \in Server, NEW p, p \in Paths(u, n, t, cut),
           u.now < u.task[t].deadline, ~Down(u, ResultNode[t])
    PROVE  Admitted(u, t, n, p)
<1> DEFINE r == u.attempt[t]
           far == n # RemoteNode[t]
           needed == IF far THEN 1 ELSE 0
<1>1. Eligible(u, n, t, cut)
    BY DEF Paths
<1>2. /\ p \in Path
      /\ \/ p = "RECOMPUTE" /\ InputReachable(u, n, t, cut)
         \/ /\ p # "RECOMPUTE" /\ BaseUsable(u, t) /\ (Migrates(p) <=> far)
            /\ u.deferred => InputReachable(u, n, t, cut)
            /\ far => ~Down(u, RemoteNode[t]) /\ Reaches(u, cut, RemoteNode[t], n)
            /\ Free(u, n) >= needed + (IF TakesTail(p) THEN 1 ELSE 0)
            /\ TakesTail(p) => r.tail /\ Reaches(u, cut, LocalNode[t], n)
    BY <1>1 DEF Paths
<1>3. ~r.started
    <2>1. r.started = NoAttempt.started
        BY DEF Deciding, NoAttempt
    <2>2. NoAttempt.started = FALSE
        BY DEF NoAttempt
    <2> QED BY <2>1, <2>2
<1>4. t \notin u.svc[n].known
    BY <1>1, <1>3 DEF Eligible, TaskOK, Located
<1>5. CanReserve(u.svc[n], t)
    BY <1>1, <1>4 DEF CanReserve, Eligible, WorldOK, NodeOK
<1>6. n # HostNode[t] /\ ~Down(u, n)
    BY <1>1 DEF Eligible
<1>7. ~Migrates("RECOMPUTE") /\ ~TakesTail("RECOMPUTE")
    BY DEF Migrates, TakesTail
<1> QED BY <1>2, <1>5, <1>6, <1>7 DEF Admitted, InputReachable, Reaches, BaseUsable

\* The attempt r accepted at n.
Chosen(r, e, n, p) ==
    /\ e \in Attempt /\ e.live /\ e.stage = "RECOVERING" /\ e.node = n /\ e.path = p
    /\ e.decide = NoTime /\ e.merge = NoTime
    /\ ~e.started /\ ~e.committed /\ ~e.mergeScheduled
    /\ e.tail = r.tail /\ e.actual = r.actual
    /\ \A k \in Kind : e.delivery[k].step = "none"

LEMMA DecidingFields ==
    ASSUME NEW u \in World, NEW t \in Task, Deciding(u, t)
    PROVE  LET r == u.attempt[t] IN
           /\ r \in Attempt /\ r.live /\ r.stage = "RUNNING" /\ r.node = NoNode /\ r.merge = NoTime
           /\ ~r.started /\ ~r.committed /\ ~r.mergeScheduled /\ r.path = "NONE"
           /\ \A k \in Kind : r.delivery[k] = Absent
           /\ r.tail => r.actual >= LocalWork
<1> DEFINE r == u.attempt[t]
<1>1. /\ r.node = NoAttempt.node /\ r.merge = NoAttempt.merge /\ r.started = NoAttempt.started
      /\ r.committed = NoAttempt.committed /\ r.mergeScheduled = NoAttempt.mergeScheduled
      /\ r.delivery = NoAttempt.delivery /\ r.path = NoAttempt.path
    <2> DEFINE b == r.base
               l == r.tail
               c == r.actual
               d == r.decide
    <2>1. r = [NoAttempt EXCEPT !.live = TRUE, !.decide = d, !.base = b, !.tail = l, !.actual = c]
        BY DEF Deciding
    <2> HIDE DEF r, b, l, c, d
    <2> QED BY <2>1 DEF NoAttempt
<1>2. /\ NoAttempt.node = NoNode /\ NoAttempt.merge = NoTime /\ NoAttempt.started = FALSE
      /\ NoAttempt.committed = FALSE /\ NoAttempt.mergeScheduled = FALSE
      /\ NoAttempt.delivery = [k \in Kind |-> Absent] /\ NoAttempt.path = "NONE"
    BY DEF NoAttempt
<1>3. r \in Attempt
    BY WorldTypes
<1> QED BY <1>1, <1>2, <1>3 DEF Deciding

\* The slot is reserved for t and its attempt names it.
Admission(u, t, n, p) ==
    Reslot(Record(u, t, u.task[t],
                  [u.attempt[t] EXCEPT !.stage = "RECOVERING", !.node = n, !.path = p, !.decide = NoTime],
                  u.store, u.stopped),
           n, ReserveRecovery(u.svc[n], t))

LEMMA ReserveKeepsCore ==
    ASSUME NEW s \in Service, NEW now \in Time, NEW t \in Task,
           ServiceCore(s, now), DispatchArmed(s), CanReserve(s, t)
    PROVE  LET r == ReserveRecovery(s, t) IN
           r \in Service /\ ServiceCore(r, now) /\ DispatchArmed(r)
<1>1. ServiceInv(s, now)
    BY DEF ServiceInv, CompletionAllowed, CanReserve, IsIdle, ServiceCore, CompletionTimely
<1>2. ReserveRecovery(s, t) \in Service /\ ServiceInv(ReserveRecovery(s, t), now)
    BY <1>1, ReserveKeeps
<1> QED BY <1>2 DEF ServiceInv

LEMMA AdmissionAccepts ==
    ASSUME NEW u, NEW t \in Task, WorldOK(u), TaskOK(u, t), Deciding(u, t),
           NEW n, NEW p, Admitted(u, t, n, p), NEW z, z = Admission(u, t, n, p),
           NEW none, none = {}
    PROVE  /\ Accepting(z, t, Kind, n, p, none, none)
           /\ Only(u, z, {t}) /\ z.deferred = u.deferred /\ z.store = u.store
<1> DEFINE r == u.attempt[t]
           e == [r EXCEPT !.stage = "RECOVERING", !.node = n, !.path = p, !.decide = NoTime]
           y == Record(u, t, u.task[t], e, u.store, u.stopped)
           s == ReserveRecovery(u.svc[n], t)
<1>1. /\ u \in World /\ u.ok /\ u.now \in Time /\ u.svc \in [Server -> Service]
      /\ u.task[t] \in TaskRuntime /\ u.store \in SUBSET StorageEntry /\ u.stopped \in SUBSET Task
      /\ \A m \in Server : NodeOK(u, m)
    BY WorldTypes DEF WorldOK
<1>2. /\ r \in Attempt /\ r.live /\ r.stage = "RUNNING" /\ r.node = NoNode /\ r.merge = NoTime
      /\ ~r.started /\ ~r.committed /\ ~r.mergeScheduled
      /\ \A k \in Kind : r.delivery[k] = Absent
      /\ r.tail => r.actual >= LocalWork
    BY <1>1, DecidingFields
<1>3. n \in Server /\ n # HostNode[t] /\ p \in Path /\ CanReserve(u.svc[n], t)
    BY DEF Admitted
<1>4. Chosen(r, e, n, p)
    <2>1. e \in Attempt
        BY <1>2, <1>3 DEF Attempt, Stage
    <2>2. e.delivery = r.delivery
        BY <1>2 DEF Attempt
    <2>3. Absent.step = "none"
        BY DEF Absent
    <2> QED BY <1>2, <2>1, <2>2, <2>3 DEF Attempt, Chosen
<1> HIDE DEF e
<1>5. /\ e \in Attempt /\ e.live /\ e.stage = "RECOVERING" /\ e.node = n /\ e.path = p
      /\ e.decide = NoTime /\ e.merge = NoTime
      /\ ~e.started /\ ~e.committed /\ ~e.mergeScheduled
      /\ e.tail = r.tail /\ e.actual = r.actual
      /\ \A k \in Kind : e.delivery[k].step = "none"
    BY <1>4 DEF Chosen
<1>6. /\ Plain(u, y, t) /\ y.task[t] = u.task[t] /\ y.attempt[t] = e /\ y.store = u.store
      /\ y.svc = u.svc /\ y.now = u.now /\ y.deferred = u.deferred /\ y.dead = u.dead
    BY <1>1, <1>5, RecordIsPlain
<1> HIDE DEF y
<1>7. WorldOK(y) /\ Only(u, y, {t})
    BY <1>6, PlainWorld
<1>8. /\ s \in Service /\ ServiceCore(s, u.now) /\ DispatchArmed(s)
      /\ s.running /\ s.available = u.svc[n].available
      /\ s.owner = t /\ ~s.runningRecovery /\ ~s.hasCurrent
      /\ s.known = u.svc[n].known /\ s.queue = u.svc[n].queue
      /\ \A x \in Task : x # t => Unmoved(s, u.svc[n], x)
    <2>1. u.svc[n] \in Service /\ ServiceCore(u.svc[n], u.now) /\ DispatchArmed(u.svc[n])
          /\ u.svc[n].running
        BY <1>1, <1>3 DEF NodeOK
    <2> QED BY <1>1, <1>3, <2>1, ReserveKeepsCore, ReserveUnmoved
<1> HIDE DEF s
<1>9. /\ WorldOK(z) /\ Only(y, z, {t})
      /\ z.svc[n] = s /\ \A m \in Server \ {n} : z.svc[m] = u.svc[m]
      /\ z.task = y.task /\ z.attempt = y.attempt /\ z.store = y.store
      /\ z.now = y.now /\ z.deferred = y.deferred /\ z.dead = y.dead
    <2>1. z = Reslot(y, n, s)
        BY DEF Admission, y, e, s
    <2>2. /\ n \in Server /\ s \in Service /\ WorldOK(y) /\ s.running
          /\ ServiceCore(s, y.now) /\ DispatchArmed(s)
          /\ s.available = y.svc[n].available
          /\ \A x \in Task \ {t} : Unmoved(s, y.svc[n], x)
        BY <1>3, <1>6, <1>7, <1>8
    <2>3. /\ WorldOK(z) /\ Only(y, z, {t})
          /\ z.svc[n] = s /\ \A m \in Server \ {n} : z.svc[m] = y.svc[m]
          /\ z.task = y.task /\ z.attempt = y.attempt /\ z.store = y.store
          /\ z.now = y.now /\ z.deferred = y.deferred /\ z.dead = y.dead
        BY <2>1, <2>2, ReslotWorld
    <2> QED BY <1>6, <2>3
<1>10. Only(u, z, {t})
    BY <1>7, <1>9, OnlyTransitive
<1>11. /\ z.task[t] = u.task[t] /\ z.attempt[t] = e /\ z.store = u.store
       /\ z.now = u.now /\ z.deferred = u.deferred /\ z.dead = u.dead
    BY <1>6, <1>9
<1>12. u.task[t].generation = 1 /\ u.task[t].state = "RECOVERING"
    <2>1. ~Primary(u, t)
        BY DEF Primary, Deciding
    <2> QED BY <1>1, <2>1 DEF TaskOK, TaskRuntime, Deciding
<1>13. Located(z, t)
    <2> SUFFICES ASSUME NEW m \in Server
                 PROVE  LET q == z.svc[m] IN
                        /\ t \in q.known => m = HostNode[t] \/ (e.started /\ e.node = m)
                        /\ \A i \in q.queue : i.task = t =>
                              m = HostNode[t] /\ z.task[t].generation = 0 /\ z.task[t].state = "QUEUED"
                        /\ q.owner = t => e.live /\ e.node = m /\ e.stage \in {"RECOVERING", "RUNNING_BACKUP"}
                        /\ ~Runs(q, t)
        BY <1>11 DEF Located
    <2>1. LET q == u.svc[m] IN
          /\ t \in q.known => m = HostNode[t]
          /\ \A i \in q.queue : i.task # t
          /\ q.owner # t /\ ~Runs(q, t)
        BY <1>2, <1>12 DEF TaskOK, Located
    <2>2. CASE m = n
        BY <1>5, <1>8, <1>9, <2>1, <2>2 DEF Runs
    <2>3. CASE m # n
        BY <1>9, <2>1, <2>3
    <2> QED BY <2>2, <2>3
<1>14. Joined(z, t)
    BY <1>5, <1>11 DEF Joined
<1>15. Timed(z, t)
    BY <1>11 DEF Timed, TaskOK
<1>16. Active(z, t)
    BY <1>5, <1>9, <1>11, <1>12, <1>13, <1>14 DEF Active, Terminal, TerminalState
<1>17. \A k \in Kind : ~Received(z, t, k)
    BY <1>5, <1>11 DEF Received
<1>18. Stocked(z, t)
    <2>1. Committed(u, n, t, "STATE") => Committed(z, n, t, "STATE")
        BY <1>11 DEF Committed, Held
    <2>2. p = "TAIL" => Committed(u, n, t, "STATE")
        BY DEF Admitted, Migrates
    <2> QED BY <1>5, <1>11, <1>17, <2>1, <2>2, KindsKnown DEF Stocked
<1>19. TakesTail(p) => e.actual >= LocalWork
    BY <1>2, <1>5 DEF Admitted
<1>20. Waiting(z, t, Kind)
    BY <1>3, <1>5, <1>8, <1>9, <1>11, <1>12, <1>18, <1>19 DEF Waiting
<1>21. Exposed(z, t, none, none)
    <2>1. z.task[t].generation # 0
        BY <1>11, <1>12
    <2>2. ASSUME NEW m \in z.dead, Needs(z, t, m) PROVE FALSE
        <3>1. Needs(z, t, m) =>
                \/ m \in {n, ResultNode[t]}
                \/ (u.deferred \/ p = "RECOMPUTE") /\ m = SourceNode[t]
                \/ TakesTail(p) /\ m = LocalNode[t]
                \/ Migrates(p) /\ m = RemoteNode[t]
            BY <1>5, <1>11 DEF Needs
        <3> QED BY <1>11, <2>2, <3>1 DEF Admitted, Down
    <2> QED BY <2>1, <2>2 DEF Exposed
<1> QED BY <1>5, <1>10, <1>11, <1>15, <1>16, <1>17, <1>20, <1>21 DEF Accepting, Waits

\* When everything is requested, the recovery waits; without a dependency it
\* may start.
LEMMA AllSentJoins ==
    ASSUME NEW u, NEW t \in Task, NEW left, NEW n, NEW p, NEW closed, NEW lost,
           Accepting(u, t, left, n, p, closed, lost),
           \A k \in left : ~Wanted(u, t, k)
    PROVE  /\ Joining(u, t) /\ Exposed(u, t, closed, lost)
           /\ p # "REMOTE_REDO" \/ u.deferred => Changes(u, u, t, closed, lost)
<1> DEFINE r == u.attempt[t]
<1>1. /\ Active(u, t) /\ Timed(u, t) /\ Waiting(u, t, left) /\ Exposed(u, t, closed, lost)
      /\ r.path = p /\ ~r.mergeScheduled /\ r.merge = NoTime /\ ~r.committed
      /\ \A k \in Kind : ~Received(u, t, k)
    BY DEF Accepting, Waits
<1>2. Waiting(u, t, {})
    BY <1>1 DEF Waiting
<1>3. Merging(u, t)
    BY <1>1, KindsKnown DEF Merging, TailReady
<1>4. Joining(u, t)
    BY <1>1, <1>2, <1>3 DEF Joining
<1>5. ASSUME p # "REMOTE_REDO" \/ u.deferred
      PROVE  ~(StateReady(u, t) /\ InputReady(u, t))
    BY <1>1, <1>5, KindsKnown DEF StateReady, InputReady, Wanted
<1>6. ASSUME p # "REMOTE_REDO" \/ u.deferred
      PROVE  Changes(u, u, t, closed, lost)
    BY <1>1, <1>4, <1>5, <1>6, WaitingStays
<1> QED BY <1>1, <1>4, <1>6

\* The last request is made, or the recovery fails.
LEMMA LastSendChanges ==
    ASSUME NEW u, NEW t \in Task, NEW left, NEW n, NEW p, NEW closed, NEW lost,
           Accepting(u, t, left, n, p, closed, lost), p # "REMOTE_REDO",
           NEW k \in Kind, k \in left, Wanted(u, t, k), Secured(u, n, t, k),
           \A j \in left : j # k => ~Wanted(u, t, j), NEW cut,
           NEW v, v = Deliver(u, t, k, cut)
    PROVE  Changes(u, v, t, closed, lost)
<1> DEFINE rest == left \ {k}
<1>1. \A j \in rest : ~Wanted(u, t, j)
    OBVIOUS
<1> HIDE DEF rest
<1>2. Closes(u, v, t) \/ Proceeds(u, v, t, rest, n, p, closed, lost)
    BY SendProceeds DEF rest
<1>3. CASE Closes(u, v, t)
    BY <1>3, ClosesChanges
<1>4. CASE Proceeds(u, v, t, rest, n, p, closed, lost)
    <2>1. Accepting(v, t, rest, n, p, closed, lost) /\ Only(u, v, {t}) /\ v.deferred = u.deferred
        BY <1>4 DEF Proceeds
    <2>2. u.attempt[t].path = p /\ v.attempt[t].path = p
        BY <2>1 DEF Accepting
    <2>3. \A j \in rest : ~Wanted(v, t, j)
        BY <1>1, <2>1, <2>2 DEF Wanted
    <2>4. Changes(v, v, t, closed, lost)
        BY <2>1, <2>3, AllSentJoins
    <2> QED BY <2>1, <2>4, ChangesAfter
<1> QED BY <1>2, <1>3, <1>4

\* A recomputation gives its storage back.
LEMMA ReleaseProceeds ==
    ASSUME NEW u, NEW t \in Task, NEW left, NEW n, NEW p, NEW closed, NEW lost,
           Accepting(u, t, left, n, p, closed, lost), p = "RECOMPUTE",
           NEW v, v = ReleaseRecoveryState(u, t)
    PROVE  Proceeds(u, v, t, left, n, p, closed, lost)
<1> DEFINE r == u.attempt[t]
           store == {o \in u.store : o.task # t \/ o.node \notin Server}
<1>1. /\ u \in World /\ u.ok /\ r \in Attempt /\ u.task[t] \in TaskRuntime
      /\ u.store \in SUBSET StorageEntry /\ u.stopped \in SUBSET Task
      /\ u.attempt \in [Task -> Attempt] /\ u.task \in [Task -> TaskRuntime]
    BY ActiveTypes, WorldTypes DEF Accepting, Waits
<1>2. /\ Waits(u, t, left, closed, lost) /\ WorldOK(u) /\ Waiting(u, t, left)
      /\ r.live /\ r.node = n /\ r.path = p
      /\ ~r.mergeScheduled /\ r.merge = NoTime /\ ~r.committed
      /\ \A j \in Kind : ~Received(u, t, j)
    BY DEF Accepting, Waits, Active
<1>3. Became(u, v, t, r, store)
    <2> DEFINE task == [u.task EXCEPT ![t] = u.task[t]]
               attempt == [u.attempt EXCEPT ![t] = r]
    <2>1. v = [u EXCEPT !.store = store]
        BY DEF ReleaseRecoveryState, ReleaseTask
    <2>2. Record(u, t, u.task[t], r, store, u.stopped)
            = [u EXCEPT !.ok = TRUE, !.task = task, !.attempt = attempt,
                        !.store = store, !.stopped = u.stopped]
        BY DEF Record
    <2>3. task = u.task /\ attempt = u.attempt
        BY <1>1
    <2> HIDE DEF task, attempt, store
    <2>4. [u EXCEPT !.store = store]
            = [u EXCEPT !.ok = TRUE, !.task = u.task, !.attempt = u.attempt,
                        !.store = store, !.stopped = u.stopped]
        BY <1>1 DEF World
    <2>5. v = Record(u, t, u.task[t], r, store, u.stopped)
        BY <2>1, <2>2, <2>3, <2>4
    <2> QED BY <2>5 DEF Became
<1>4. Stockpile(u, t, store)
    BY <1>2, StockpileSame
<1>5. v.attempt[t] = r /\ v.store = store
    BY <1>1, <1>3, <1>4, RecordIsPlain DEF Became, Stockpile
<1>6. Advances(u, t, r) /\ Asks(u, t, r, left)
    BY <1>1, <1>2 DEF Advances, Asks, Received, Waiting
<1>7. \A j \in Kind : ~Received(v, t, j)
    BY <1>2, <1>5 DEF Received
<1>8. Stocked(v, t)
    <2>1. ~Wanted(u, t, "STATE") /\ ~Wanted(u, t, "TAIL") /\ ~Migrates(p)
        BY <1>2 DEF Wanted, Migrates, TakesTail
    <2>2. r.delivery["STATE"].step = "none" /\ r.delivery["TAIL"].step = "none"
        BY <1>2, <2>1, KindsKnown DEF Waiting
    <2> QED BY <1>2, <1>5, <1>7, <2>1, <2>2, KindsKnown DEF Stocked
<1> HIDE DEF store
<1>9. Waits(v, t, left, closed, lost) /\ Follows(u, v, t, r, store)
    <2> DEFINE e == r
    <2> HIDE DEF e
    <2>1. /\ Waits(u, t, left, closed, lost) /\ Advances(u, t, e) /\ Stockpile(u, t, store)
          /\ Became(u, v, t, e, store) /\ Asks(u, t, e, left) /\ Stocked(v, t)
        BY <1>2, <1>3, <1>4, <1>6, <1>8 DEF e
    <2>2. Waits(v, t, left, closed, lost) /\ Follows(u, v, t, e, store)
        BY <2>1, RecordWaits
    <2> QED BY <2>2 DEF e
<1> QED BY <1>2, <1>5, <1>7, <1>9 DEF Proceeds, Accepting, Follows

\* The input is requested first, when a policy always fetches it,
FirstRequest(u, t, cut) == IF u.deferred THEN Deliver(u, t, "INPUT", cut) ELSE u

\* and then what the path takes.
PathRequests(deferred, u, t, n, path, cut) ==
    IF ~u.attempt[t].live THEN u
    ELSE CASE path = "REMOTE_REDO" -> StartCompute(u, t)
      [] path = "RECOMPUTE" ->
           LET r == ReleaseRecoveryState(u, t) IN
           IF deferred THEN r ELSE Deliver(r, t, "INPUT", cut)
      [] path = "TAIL" -> Send(TryReserve(u, n, t, "BATCH"), t, "TAIL", cut)
      [] path = "MIGRATE_REDO" -> Send(TryReserve(u, n, t, "STATE"), t, "STATE", cut)
      [] path = "MIGRATE_TAIL" ->
           Send(Send(TryReserve(TryReserve(u, n, t, "STATE"), n, t, "BATCH"), t, "STATE", cut),
                t, "TAIL", cut)

LEMMA AcceptIs ==
    ASSUME NEW u, NEW t \in Task, WorldOK(u), Deciding(u, t),
           NEW n, NEW p, Admitted(u, t, n, p), NEW cut,
           NEW v, v = [u EXCEPT !.attempt[t].decide = NoTime],
           NEW z, z = Admission(u, t, n, p), z.deferred = u.deferred
    PROVE  AcceptAndExecute(v, t, n, p, cut)
             = PathRequests(u.deferred, FirstRequest(z, t, cut), t, n, p, cut)
<1> DEFINE r == u.attempt[t]
           s == ReserveRecovery(u.svc[n], t)
           e == [r EXCEPT !.stage = "RECOVERING", !.node = n, !.path = p, !.decide = NoTime]
           svc == [u.svc EXCEPT ![n] = s]
           attempt == [u.attempt EXCEPT ![t] = e]
           held == [u.attempt EXCEPT ![t].decide = NoTime]
           holds == CanReserve(v.svc[n], t) /\ v.attempt[t].stage = "RUNNING"
                    /\ v.now < v.task[t].deadline /\ n # HostNode[t]
           a == [Must(v, holds)
                 EXCEPT !.svc[n] = ReserveRecovery(@, t),
                        !.attempt[t].stage = "RECOVERING",
                        !.attempt[t].node = n, !.attempt[t].path = p]
<1>1. /\ u \in World /\ u.ok /\ u.svc \in [Server -> Service] /\ u.attempt \in [Task -> Attempt]
      /\ u.task \in [Task -> TaskRuntime] /\ r \in Attempt /\ n \in Server
    BY WorldTypes DEF WorldOK, Admitted
<1>2. v = [u EXCEPT !.attempt = held]
    OBVIOUS
<1> HIDE DEF held
<1>3. /\ v.svc = u.svc /\ v.task = u.task /\ v.now = u.now /\ v.deferred = u.deferred
      /\ v.attempt = held
    BY <1>1, <1>2 DEF World
<1>4. held[t].stage = r.stage
    BY <1>1 DEF held, Attempt
<1>5. holds
    BY <1>3, <1>4 DEF Admitted, Deciding
<1> HIDE DEF holds
<1>6. Must(v, holds) = [u EXCEPT !.ok = TRUE, !.attempt = held]
    BY <1>1, <1>2, <1>5 DEF Must, World
<1>7. a = [u EXCEPT !.ok = TRUE, !.attempt = attempt, !.svc = svc]
    <2> DEFINE m == Must(v, holds)
    <2>1. m.svc = u.svc /\ m.attempt = held
        BY <1>1, <1>6 DEF World
    <2> HIDE DEF m
    <2>2. a = [m EXCEPT !.svc[n] = ReserveRecovery(@, t), !.attempt[t].stage = "RECOVERING",
                        !.attempt[t].node = n, !.attempt[t].path = p]
        BY DEF m
    <2>3. [m.svc EXCEPT ![n] = ReserveRecovery(@, t)] = svc
        BY <1>1, <2>1
    <2>4. [m.attempt EXCEPT ![t].stage = "RECOVERING", ![t].node = n, ![t].path = p] = attempt
        BY <1>1, <2>1, ZenonT(60) DEF held
    <2> HIDE DEF svc, attempt, a
    <2>5. a = [m EXCEPT !.svc = svc, !.attempt = attempt]
        BY <2>2, <2>3, <2>4, ZenonT(60)
    <2>6. m = [u EXCEPT !.ok = TRUE, !.attempt = held]
        BY <1>6 DEF m
    <2> QED BY <1>1, <2>5, <2>6 DEF World
<1>8. z = [u EXCEPT !.ok = TRUE, !.attempt = attempt, !.svc = svc]
    <2> DEFINE task == [u.task EXCEPT ![t] = u.task[t]]
    <2>1. z = [[u EXCEPT !.ok = TRUE, !.task = task, !.attempt = attempt,
                         !.store = u.store, !.stopped = u.stopped]
               EXCEPT !.svc = [[u EXCEPT !.ok = TRUE, !.task = task, !.attempt = attempt,
                                         !.store = u.store, !.stopped = u.stopped].svc
                               EXCEPT ![n] = s]]
        BY DEF Admission, Reslot, Record
    <2>2. task = u.task
        BY <1>1
    <2> HIDE DEF task, attempt, s
    <2>3. [u EXCEPT !.ok = TRUE, !.task = task, !.attempt = attempt,
                    !.store = u.store, !.stopped = u.stopped]
            = [u EXCEPT !.ok = TRUE, !.attempt = attempt]
        BY <1>1, <2>2 DEF World
    <2>4. [u EXCEPT !.ok = TRUE, !.attempt = attempt].svc = u.svc
        BY <1>1 DEF World
    <2> QED BY <1>1, <2>1, <2>3, <2>4 DEF World
<1>9. a = z
    BY <1>7, <1>8
<1>10. AcceptAndExecute(v, t, n, p, cut)
         = LET i == IF v.deferred THEN Deliver(a, t, "INPUT", cut) ELSE a
           IN PathRequests(v.deferred, i, t, n, p, cut)
    BY Zenon DEF AcceptAndExecute, PathRequests, holds
<1> HIDE DEF a
<1> QED BY <1>3, <1>9, <1>10 DEF FirstRequest

\* What is left to request of a path makes an acceptance whole.
LEMMA PathRequestsChange ==
    ASSUME NEW u, NEW t \in Task, NEW left, NEW n, NEW p, NEW closed, NEW lost,
           Accepting(u, t, left, n, p, closed, lost),
           left = IF u.deferred THEN Kind \ {"INPUT"} ELSE Kind,
           p # "RECOMPUTE" => Free(u, n) >= (IF Migrates(p) THEN 1 ELSE 0)
                                            + (IF TakesTail(p) THEN 1 ELSE 0),
           NEW cut
    PROVE  Changes(u, PathRequests(u.deferred, u, t, n, p, cut), t, closed, lost)
<1> DEFINE r == u.attempt[t]
           v == PathRequests(u.deferred, u, t, n, p, cut)
<1>1. /\ r.live /\ r.path = p /\ p \in Path /\ n \in Server
      /\ WorldOK(u) /\ u.store \in SUBSET StorageEntry
    BY ActiveTypes DEF Accepting, Waits, Waiting, Active
<1>2. CASE p = "REMOTE_REDO"
    <2>1. \A k \in left : ~Wanted(u, t, k)
        BY <1>1, <1>2, KindsKnown DEF Wanted, Migrates, TakesTail
    <2>2. Joining(u, t) /\ Exposed(u, t, closed, lost)
        BY <2>1, AllSentJoins
    <2>3. u.deferred \/ (StateReady(u, t) /\ InputReady(u, t))
        BY <1>1, <1>2 DEF StateReady, InputReady, Wanted
    <2>4. Changes(u, StartCompute(u, t), t, closed, lost)
        BY <2>2, <2>3, StartComputeJoins
    <2> QED BY <1>1, <1>2, <2>4 DEF PathRequests
<1>3. CASE p = "RECOMPUTE"
    <2> DEFINE q == ReleaseRecoveryState(u, t)
    <2>1. Accepting(q, t, left, n, p, closed, lost) /\ Only(u, q, {t}) /\ q.deferred = u.deferred
        BY <1>3, ReleaseProceeds DEF Proceeds
    <2>2. v = IF u.deferred THEN q ELSE Deliver(q, t, "INPUT", cut)
        BY <1>1, <1>3 DEF PathRequests
    <2> HIDE DEF q, v
    <2>3. q.attempt[t].path = p
        BY <2>1 DEF Accepting
    <2>4. CASE u.deferred
        <3>1. \A k \in left : ~Wanted(q, t, k)
            BY <1>3, <2>3, <2>4 DEF Wanted, Migrates, TakesTail
        <3>2. Changes(q, q, t, closed, lost)
            BY <1>3, <2>1, <2>4, <3>1, AllSentJoins
        <3> QED BY <2>1, <2>2, <2>4, <3>2, ChangesAfter DEF v
    <2>5. CASE ~u.deferred
        <3> DEFINE k == "INPUT"
        <3>1. k \in Kind /\ k \in left /\ Wanted(q, t, k) /\ Secured(q, n, t, k) /\ p # "REMOTE_REDO"
              /\ \A j \in left : j # k => ~Wanted(q, t, j)
            BY <1>3, <2>3, <2>5, KindsKnown DEF Wanted, Migrates, TakesTail, Secured
        <3>2. v = Deliver(q, t, k, cut)
            BY <2>2, <2>5
        <3> HIDE DEF k
        <3>3. Changes(q, v, t, closed, lost)
            BY <2>1, <3>1, <3>2, LastSendChanges
        <3> QED BY <2>1, <3>3, ChangesAfter DEF v
    <2> QED BY <2>4, <2>5
<1>4. CASE p = "TAIL" \/ p = "MIGRATE_REDO"
    <2> DEFINE k == IF p = "TAIL" THEN "TAIL" ELSE "STATE"
               kind == IF p = "TAIL" THEN "BATCH" ELSE "STATE"
               q == TryReserve(u, n, t, kind)
    <2>1. Free(u, n) >= 1
        BY <1>4 DEF Migrates, TakesTail
    <2>2. kind \in {"STATE", "BATCH"} /\ k \in Kind /\ k \in left /\ p # "REMOTE_REDO"
        BY <1>4, KindsKnown
    <2>3. v = Send(q, t, k, cut)
        BY <1>1, <1>4 DEF PathRequests
    <2> HIDE DEF kind, q, v
    <2>4. Proceeds(u, q, t, left, n, p, closed, lost) /\ \E o \in Held(q, n, t, kind) : o.reserved
        BY <2>1, <2>2, ReserveProceeds DEF q
    <2>5. Accepting(q, t, left, n, p, closed, lost) /\ Only(u, q, {t}) /\ q.deferred = u.deferred
        BY <2>4 DEF Proceeds
    <2>6. q.attempt[t].path = p /\ q.attempt[t].live
        BY <2>5 DEF Accepting, Waits, Active
    <2>7. Wanted(q, t, k) /\ Secured(q, n, t, k) /\ \A j \in left : j # k => ~Wanted(q, t, j)
        BY <1>4, <2>4, <2>5, <2>6, KindsKnown DEF Wanted, Migrates, TakesTail, Secured, kind
    <2> HIDE DEF k
    <2>8. v = Deliver(q, t, k, cut)
        BY <2>3, <2>6 DEF Send
    <2>9. Changes(q, v, t, closed, lost)
        BY <2>2, <2>5, <2>7, <2>8, LastSendChanges
    <2> QED BY <2>5, <2>9, ChangesAfter DEF v
<1>5. CASE p = "MIGRATE_TAIL"
    <2> DEFINE a == TryReserve(u, n, t, "STATE")
               b == TryReserve(a, n, t, "BATCH")
               c == Send(b, t, "STATE", cut)
               rest == left \ {"STATE"}
    <2>1. Free(u, n) >= 2 /\ Free(u, n) \in Int
        <3>1. Free(u, n) \in Int
            BY <1>1, FreeType DEF WorldOK
        <3>2. Migrates(p) /\ TakesTail(p) /\ p # "RECOMPUTE"
            BY <1>5 DEF Migrates, TakesTail
        <3>3. Free(u, n) >= 1 + 1
            BY <3>2
        <3> QED BY <3>1, <3>3
    <2>2. v = Send(c, t, "TAIL", cut)
        BY <1>1, <1>5 DEF PathRequests
    <2>3. "STATE" \in {"STATE", "BATCH"} /\ "BATCH" \in {"STATE", "BATCH"}
          /\ "STATE" \in Kind /\ "TAIL" \in Kind /\ "STATE" \in left /\ "TAIL" \in rest
          /\ p # "REMOTE_REDO"
        BY <1>5, KindsKnown
    <2> HIDE DEF a, b, c, v
    <2>4. /\ Proceeds(u, a, t, left, n, p, closed, lost) /\ \E o \in Held(a, n, t, "STATE") : o.reserved
          /\ Free(a, n) >= Free(u, n) - 1
        <3> DEFINE kind == "STATE"
        <3> HIDE DEF kind
        <3>1. kind \in {"STATE", "BATCH"} /\ a = TryReserve(u, n, t, kind)
            BY DEF a, kind
        <3>2. Free(u, n) >= 1
            BY <2>1
        <3>3. /\ Proceeds(u, a, t, left, n, p, closed, lost) /\ \E o \in Held(a, n, t, kind) : o.reserved
              /\ Free(a, n) >= Free(u, n) - 1
            BY <3>1, <3>2, ReserveProceeds
        <3> QED BY <3>3 DEF kind
    <2>5. Accepting(a, t, left, n, p, closed, lost) /\ Only(u, a, {t}) /\ a.deferred = u.deferred
        BY <2>4 DEF Proceeds
    <2>6. Free(a, n) >= 1
        <3>1. Free(a, n) \in Int
            BY <1>1, <2>5, FreeType DEF Accepting, Waits, Active, WorldOK
        <3> QED BY <2>1, <2>4, <3>1
    <2>7. /\ Proceeds(a, b, t, left, n, p, closed, lost) /\ \E o \in Held(b, n, t, "BATCH") : o.reserved
          /\ a.store \subseteq b.store
        <3> DEFINE kind == "BATCH"
        <3> HIDE DEF kind
        <3>1. kind \in {"STATE", "BATCH"} /\ b = TryReserve(a, n, t, kind)
            BY DEF b, kind
        <3>3. /\ Proceeds(a, b, t, left, n, p, closed, lost) /\ \E o \in Held(b, n, t, kind) : o.reserved
              /\ a.store \subseteq b.store
            BY <2>5, <2>6, <3>1, ReserveProceeds
        <3> QED BY <3>3 DEF kind
    <2>8. Accepting(b, t, left, n, p, closed, lost) /\ Only(u, b, {t}) /\ b.deferred = u.deferred
        BY <2>5, <2>7, OnlyTransitive DEF Proceeds
    <2>9. \E o \in Held(b, n, t, "STATE") : o.reserved
        BY <2>4, <2>7 DEF Held
    <2>10. b.attempt[t].path = p /\ b.attempt[t].live
        BY <2>8 DEF Accepting, Waits, Active
    <2>11. Wanted(b, t, "STATE") /\ Secured(b, n, t, "STATE")
        BY <1>5, <2>9, <2>10 DEF Wanted, Migrates, Secured
    <2>12. Closes(b, c, t) \/ (Proceeds(b, c, t, rest, n, p, closed, lost) /\ c.store = b.store)
        <3> DEFINE k == "STATE"
        <3>1. k \in Kind /\ k \in left /\ Wanted(b, t, k) /\ Secured(b, n, t, k) /\ rest = left \ {k}
              /\ c = Deliver(b, t, k, cut)
            BY <2>3, <2>10, <2>11 DEF Send, c
        <3> HIDE DEF k, rest
        <3> QED BY <2>8, <3>1, SendProceeds
    <2> HIDE DEF rest
    <2>13. CASE Closes(b, c, t)
        <3>1. v = c
            BY <2>2, <2>13 DEF Send, Closes
        <3>2. Changes(b, v, t, closed, lost)
            BY <2>13, <3>1, ClosesChanges
        <3> QED BY <2>8, <3>2, ChangesAfter DEF v
    <2>14. CASE Proceeds(b, c, t, rest, n, p, closed, lost) /\ c.store = b.store
        <3>1. Accepting(c, t, rest, n, p, closed, lost) /\ Only(u, c, {t}) /\ c.deferred = u.deferred
            BY <2>8, <2>14, OnlyTransitive DEF Proceeds
        <3>2. c.attempt[t].path = p /\ c.attempt[t].live
            BY <3>1 DEF Accepting, Waits, Active
        <3>3. \E o \in Held(c, n, t, "BATCH") : o.reserved
            BY <2>7, <2>14 DEF Held
        <3> DEFINE k == "TAIL"
        <3>4. Wanted(c, t, k) /\ Secured(c, n, t, k)
              /\ \A j \in rest : j # k => ~Wanted(c, t, j)
            BY <1>5, <3>1, <3>2, <3>3, KindsKnown DEF Wanted, Migrates, TakesTail, Secured, rest
        <3>5. v = Deliver(c, t, k, cut)
            BY <2>2, <3>2 DEF Send
        <3>6. k \in Kind /\ k \in rest
            BY <2>3
        <3> HIDE DEF k
        <3>7. Changes(c, v, t, closed, lost)
            BY <2>3, <3>1, <3>4, <3>5, <3>6, LastSendChanges
        <3> QED BY <3>1, <3>7, ChangesAfter DEF v
    <2> QED BY <2>12, <2>13, <2>14
<1> QED BY <1>1, <1>2, <1>3, <1>4, <1>5 DEF Path

\* An accepted decision leaves the task in order.
LEMMA AcceptChanges ==
    ASSUME NEW u, NEW t \in Task, WorldOK(u), TaskOK(u, t), Deciding(u, t),
           NEW n, NEW p, Admitted(u, t, n, p), NEW cut,
           NEW v, v = [u EXCEPT !.attempt[t].decide = NoTime]
    PROVE  Changes(u, AcceptAndExecute(v, t, n, p, cut), t, {}, {})
<1> DEFINE none == {}
           z == Admission(u, t, n, p)
           i == FirstRequest(z, t, cut)
           x == AcceptAndExecute(v, t, n, p, cut)
           left == IF u.deferred THEN Kind \ {"INPUT"} ELSE Kind
           all == Kind
<1> HIDE DEF none, z, i, x, left, all
<1>1. /\ Accepting(z, t, all, n, p, none, none) /\ Only(u, z, {t}) /\ z.deferred = u.deferred
      /\ z.store = u.store
    BY AdmissionAccepts DEF none, z, all
<1>2. x = PathRequests(u.deferred, i, t, n, p, cut)
    BY <1>1, AcceptIs DEF x, i, z
<1>3. Closes(z, i, t) \/ (Proceeds(z, i, t, left, n, p, none, none) /\ i.store = z.store)
    <2>1. CASE u.deferred
        <3> DEFINE k == "INPUT"
        <3>1. /\ k \in Kind /\ k \in all /\ Wanted(z, t, k) /\ Secured(z, n, t, k)
              /\ left = all \ {k} /\ i = Deliver(z, t, k, cut)
            BY <1>1, <2>1, KindsKnown DEF FirstRequest, Wanted, Secured, left, all, i
        <3> HIDE DEF k
        <3> QED BY <1>1, <3>1, SendProceeds
    <2>2. CASE ~u.deferred
        <3>1. i = z /\ left = all
            BY <1>1, <2>2 DEF i, FirstRequest, left, all
        <3> QED BY <1>1, <3>1, OnlyReflexive DEF Proceeds
    <2> QED BY <2>1, <2>2
<1>4. CASE Closes(z, i, t)
    <2>1. x = i
        BY <1>2, <1>4 DEF PathRequests, Closes
    <2>2. Changes(z, x, t, none, none)
        BY <1>4, <2>1, ClosesChanges
    <2> QED BY <1>1, <2>2, ChangesAfter DEF x, none
<1>5. CASE Proceeds(z, i, t, left, n, p, none, none) /\ i.store = z.store
    <2>1. Accepting(i, t, left, n, p, none, none) /\ Only(u, i, {t}) /\ i.deferred = u.deferred
          /\ i.store = u.store
        BY <1>1, <1>5, OnlyTransitive DEF Proceeds
    <2>2. left = IF i.deferred THEN Kind \ {"INPUT"} ELSE Kind
        BY <2>1 DEF left
    <2>3. p # "RECOMPUTE" => Free(i, n) >= (IF Migrates(p) THEN 1 ELSE 0)
                                            + (IF TakesTail(p) THEN 1 ELSE 0)
        <3>1. Free(i, n) = Free(u, n)
            BY <2>1 DEF Free
        <3>2. ASSUME p # "RECOMPUTE" PROVE Migrates(p) <=> n # RemoteNode[t]
            BY <3>2 DEF Admitted
        <3> QED BY <3>1, <3>2 DEF Admitted
    <2>4. x = PathRequests(i.deferred, i, t, n, p, cut)
        BY <1>2, <2>1
    <2>5. Changes(i, x, t, none, none)
        BY <2>1, <2>2, <2>3, <2>4, PathRequestsChange
    <2> QED BY <2>1, <2>5, ChangesAfter DEF x, none
<1> QED BY <1>3, <1>4, <1>5

\* A task without an admissible recovery ends.
LEMMA RejectionCloses ==
    ASSUME NEW u, NEW t \in Task, WorldOK(u), TaskOK(u, t), Deciding(u, t),
           NEW v, v = [u EXCEPT !.attempt[t].decide = NoTime]
    PROVE  Closes(u, Fail(v, t), t)
<1> DEFINE r == u.attempt[t]
           e == [r EXCEPT !.decide = NoTime]
<1>1. u \in World /\ u.ok /\ r \in Attempt /\ u.attempt \in [Task -> Attempt]
      /\ u.task[t] \in TaskRuntime /\ u.store \in SUBSET StorageEntry /\ u.stopped \in SUBSET Task
    BY WorldTypes DEF WorldOK
<1>2. /\ e \in Attempt /\ e.live = r.live /\ e.stage = r.stage /\ e.node = r.node
      /\ e.started = r.started /\ e.path = r.path
    BY <1>1 DEF Attempt
<1>3. v = Record(u, t, u.task[t], e, u.store, u.stopped)
    <2>1. v = [u EXCEPT !.attempt[t] = e]
        BY <1>1
    <2> HIDE DEF e
    <2> QED BY <1>1, <2>1, AttemptRecord
<1> HIDE DEF e
<1>4. /\ Plain(u, v, t) /\ v.task[t] = u.task[t] /\ v.attempt[t] = e /\ v.store = u.store
      /\ v.svc = u.svc
        <2> DEFINE y == Record(u, t, u.task[t], e, u.store, u.stopped)
    <2>1. /\ Plain(u, y, t) /\ y.task[t] = u.task[t] /\ y.attempt[t] = e /\ y.store = u.store
          /\ y.svc = u.svc
        BY <1>1, <1>2, RecordIsPlain
    <2> QED BY <1>3, <2>1
<1>5. WorldOK(v) /\ Only(u, v, {t})
    BY <1>4, PlainWorld
<1>6. u.task[t].generation = 1 /\ u.task[t].state = "RECOVERING"
    <2>1. ~Primary(u, t)
        BY DEF Primary, Deciding
    <2> QED BY <1>1, <2>1 DEF TaskOK, TaskRuntime, Deciding
<1>7. r.live /\ ~r.started
    BY <1>1, DecidingFields
<1>8. Located(v, t)
    BY <1>2, <1>4 DEF TaskOK, Located
<1>9. Active(v, t)
    BY <1>2, <1>4, <1>5, <1>6, <1>7, <1>8 DEF Active, Joined, Terminal, TerminalState
<1>10. Closes(v, Fail(v, t), t)
    BY <1>9, ActiveFails
<1> QED BY <1>5, <1>10, ClosesAfter

-----------------------------------------------------------------------------
(* Dispatch and completion *)

\* Between two events every service may go on with what it runs.
LEMMA Permitted ==
    ASSUME NEW u, WorldOK(u), NEW n \in Server, NEW closed, NEW lost,
           \A t \in Task : Located(u, t) /\ Exposed(u, t, closed, lost), n \notin closed
    PROVE  ServiceInv(u.svc[n], u.now)
<1> DEFINE s == u.svc[n]
<1>1. u \in World /\ s \in Service /\ ServiceCore(s, u.now) /\ DispatchArmed(s) /\ s.running
    BY WorldTypes DEF WorldOK, NodeOK
<1>2. CompletionAllowed(s)
    <2> SUFFICES ASSUME s.completion, ~s.available PROVE ImmuneRun(s)
        BY DEF CompletionAllowed
    <2>1. s.hasCurrent
        BY <1>1 DEF ServiceCore, CompletionTimely
    <2>2. s.current.task \in Task
        BY <1>1, <2>1 DEF ServiceCore, CurrentSane, Service, Run
    <2> DEFINE t == s.current.task
    <2>3. Runs(s, t)
        BY <2>1 DEF Runs
    <2>4. Located(u, t) /\ Exposed(u, t, closed, lost)
        BY <2>2
    <2> HIDE DEF t
    <2>5. \/ s.runningRecovery /\ s.immune
          \/ n = HostNode[t] /\ u.task[t].generation = 0 /\ u.task[t].state = "RUNNING"
        BY <2>3, <2>4 DEF Located
    <2> QED BY <2>4, <2>5 DEF Exposed, ImmuneRun
<1> QED BY <1>1, <1>2 DEF ServiceInv

\* At n the slot of r has been taken by the queued task y.
Seats(u, n, r, y) ==
    /\ r \in Service /\ ServiceInv(r, u.now) /\ r.running /\ r.available = u.svc[n].available
    /\ y \in Task /\ r.hasCurrent /\ r.current.task = y /\ r.current.start = u.now
    /\ ~r.runningRecovery /\ r.owner = NoTask
    /\ \E i \in u.svc[n].queue : i.task = y
    /\ \A i \in r.queue : i.task # y
    /\ r.known = u.svc[n].known

\* d is u with r at n, and with y running there.
Seated(u, d, n, r, y, moved, closed, lost) ==
    /\ WorldOK(d) /\ Only(u, d, moved) /\ TaskOK(d, y) /\ Exposed(d, y, closed, lost)
    /\ d.svc[n] = r /\ \A m \in Server \ {n} : d.svc[m] = u.svc[m]
    /\ \A x \in Task \ {y} : d.task[x] = u.task[x]
    /\ d.attempt = u.attempt /\ d.store = u.store
    /\ d.now = u.now /\ d.deferred = u.deferred /\ d.dead = u.dead
    /\ u.task[y].generation = 0 /\ u.task[y].state = "QUEUED"

LEMMA DispatchedSeats ==
    ASSUME NEW u, WorldOK(u), NEW n \in Server, NEW r, NEW y, Seats(u, n, r, y),
           TaskOK(u, y), NEW moved, y \in moved, \A x \in Task \ moved : Unmoved(r, u.svc[n], x),
           NEW d, d = Dispatched(Reslot(u, n, r), n), NEW closed, NEW lost
    PROVE  Seated(u, d, n, r, y, moved, closed, lost)
<1> DEFINE v == Reslot(u, n, r)
           a == [u.task[y] EXCEPT !.state = "RUNNING", !.timer = TRUE, !.deadline = u.now + Budget[y]]
<1>1. /\ u \in World /\ u.ok /\ u.now \in Nat /\ u.task \in [Task -> TaskRuntime]
      /\ u.attempt \in [Task -> Attempt] /\ u.store \in SUBSET StorageEntry
      /\ u.stopped \in SUBSET Task
    BY WorldTypes DEF WorldOK, Time
<1>2. /\ r \in Service /\ ServiceInv(r, u.now) /\ r.running /\ r.available = u.svc[n].available
      /\ y \in Task /\ r.hasCurrent /\ r.current.task = y /\ r.current.start = u.now
      /\ ~r.runningRecovery /\ r.owner = NoTask
      /\ \A i \in r.queue : i.task # y
      /\ r.known = u.svc[n].known
    BY DEF Seats
<1>3. n = HostNode[y] /\ u.task[y].generation = 0 /\ u.task[y].state = "QUEUED"
    BY DEF Seats, TaskOK, Located
<1>4. /\ WorldOK(v) /\ Only(u, v, moved)
      /\ v.svc[n] = r /\ \A m \in Server \ {n} : v.svc[m] = u.svc[m]
      /\ v.task = u.task /\ v.attempt = u.attempt /\ v.store = u.store
      /\ v.now = u.now /\ v.deferred = u.deferred /\ v.dead = u.dead
      /\ v.stopped = u.stopped
    <2>1. /\ r \in Service /\ r.running /\ ServiceCore(r, u.now) /\ DispatchArmed(r)
          /\ r.available = u.svc[n].available /\ \A x \in Task \ moved : Unmoved(r, u.svc[n], x)
        BY <1>2 DEF ServiceInv
    <2>2. v = Reslot(u, n, r)
        OBVIOUS
    <2> HIDE DEF v
    <2>3. WorldOK(v) /\ Only(u, v, moved)
        BY <2>1, <2>2, ReslotWorld
    <2>4. u.svc \in [Server -> Service]
        BY <1>1, WorldTypes
    <2>5. /\ v.svc = [u.svc EXCEPT ![n] = r]
          /\ v.task = u.task /\ v.attempt = u.attempt /\ v.store = u.store
          /\ v.now = u.now /\ v.deferred = u.deferred /\ v.dead = u.dead
          /\ v.stopped = u.stopped
        BY <1>1, <2>2 DEF Reslot, World
    <2> QED BY <2>3, <2>4, <2>5
<1> HIDE DEF v
<1>5. d = Record(v, y, a, v.attempt[y], v.store, v.stopped)
    <2> DEFINE task == [v.task EXCEPT ![y] = a]
               attempt == [v.attempt EXCEPT ![y] = v.attempt[y]]
    <2>1. d = [v EXCEPT !.task[y] = [@ EXCEPT !.state = "RUNNING", !.timer = TRUE,
                                              !.deadline = v.now + Budget[y]]]
        BY <1>2, <1>3, <1>4 DEF Dispatched, v
    <2>2. d = [v EXCEPT !.task = task]
        BY <1>4, <2>1
    <2>3. attempt = v.attempt
        BY <1>1, <1>4
    <2>4. v \in World /\ v.ok
        BY <1>4 DEF WorldOK
    <2>5. Record(v, y, a, v.attempt[y], v.store, v.stopped)
            = [v EXCEPT !.ok = TRUE, !.task = task, !.attempt = attempt,
                        !.store = v.store, !.stopped = v.stopped]
        BY DEF Record
    <2> HIDE DEF task, attempt
    <2>6. [v EXCEPT !.task = task]
            = [v EXCEPT !.ok = TRUE, !.task = task, !.attempt = v.attempt,
                        !.store = v.store, !.stopped = v.stopped]
        BY <2>4 DEF World
    <2> QED BY <2>2, <2>3, <2>5, <2>6
<1>6. /\ a \in TaskRuntime /\ a.state = "RUNNING" /\ a.timer /\ a.deadline = u.now + Budget[y]
      /\ a.generation = 0 /\ Budget[y] \in Nat
    <2>1. Budget[y] \in Nat
        BY <1>2, WorkAssumption
    <2>2. u.now + Budget[y] \in Nat
        BY <1>1, <2>1
    <2> DEFINE deadline == u.now + Budget[y]
    <2> HIDE DEF deadline
    <2>3. u.task[y] \in TaskRuntime /\ deadline \in Time
        BY <1>1, <1>2, <2>2 DEF deadline, Time
    <2>4. a = [u.task[y] EXCEPT !.state = "RUNNING", !.timer = TRUE, !.deadline = deadline]
        BY DEF deadline
    <2> HIDE DEF a
    <2>5. /\ a \in TaskRuntime /\ a.state = "RUNNING" /\ a.timer /\ a.deadline = deadline
          /\ a.generation = u.task[y].generation
        BY <2>3, <2>4 DEF TaskRuntime, Alive
    <2> QED BY <1>3, <2>1, <2>5 DEF deadline
<1> HIDE DEF a
<1>7. /\ Plain(v, d, y) /\ d.task[y] = a /\ d.attempt[y] = v.attempt[y] /\ d.store = v.store
      /\ d.svc = v.svc /\ d.now = v.now /\ d.deferred = v.deferred /\ d.dead = v.dead
    <2> DEFINE e == v.attempt[y]
               store == v.store
               stopped == v.stopped
    <2>1. /\ v \in World /\ e \in Attempt /\ store \in SUBSET StorageEntry /\ stopped \in SUBSET Task
          /\ \A o \in StorageEntry : o.task # y => (o \in store <=> o \in v.store)
        BY <1>1, <1>2, <1>4 DEF WorldOK
    <2>2. d = Record(v, y, a, e, store, stopped)
        BY <1>5
    <2> HIDE DEF e, store, stopped
    <2>3. /\ Plain(v, d, y) /\ d.task[y] = a /\ d.attempt[y] = e /\ d.store = store
          /\ d.svc = v.svc /\ d.now = v.now /\ d.deferred = v.deferred /\ d.dead = v.dead
        BY <1>2, <1>6, <2>1, <2>2, RecordIsPlain
    <2> QED BY <2>3 DEF e, store
<1>8. WorldOK(d) /\ Only(v, d, {y})
    BY <1>4, <1>7, PlainWorld
<1>9. Only(u, d, moved)
    <2>1. Only(v, d, moved)
        BY <1>8 DEF Only
    <2> QED BY <1>4, <2>1, OnlyTransitive
<1>10. d.attempt = u.attempt
    <2>1. d.attempt \in [Task -> Attempt]
        BY <1>8, WorldTypes DEF WorldOK
    <2>2. \A x \in Task : d.attempt[x] = u.attempt[x]
        BY <1>4, <1>7 DEF Plain
    <2> QED BY <1>1, <2>1, <2>2
<1>11. u.attempt[y] = NoAttempt /\ ~u.attempt[y].live /\ ~u.attempt[y].started
       /\ \A o \in u.store : o.task # y
    <2>1. Primary(u, y)
        BY <1>3 DEF TaskOK
    <2>2. NoAttempt.live = FALSE /\ NoAttempt.started = FALSE
        BY DEF NoAttempt
    <2> QED BY <1>3, <2>1, <2>2 DEF Primary
<1>12. Runs(d.svc[n], y) /\ d.svc[n] = r
    BY <1>2, <1>4, <1>7 DEF Runs
<1>13. Located(d, y)
    <2> SUFFICES ASSUME NEW m \in Server
                 PROVE  LET q == d.svc[m] IN
                        /\ y \in q.known => m = HostNode[y]
                        /\ \A i \in q.queue : i.task # y
                        /\ q.owner # y
                        /\ Runs(q, y) => ~q.runningRecovery /\ m = HostNode[y]
        BY <1>6, <1>7 DEF Located
    <2>1. LET q == u.svc[m] IN
          /\ y \in q.known => m = HostNode[y]
          /\ \A i \in q.queue : i.task = y => m = HostNode[y]
          /\ q.owner # y
          /\ ~Runs(q, y)
        BY <1>3, <1>11 DEF TaskOK, Located
    <2>2. CASE m = n
        BY <1>2, <1>3, <1>12, <2>1, <2>2, TaskAssumption DEF NoTask
    <2>3. CASE m # n
        BY <1>3, <1>4, <1>7, <2>1, <2>3
    <2> QED BY <2>2, <2>3
<1>14. Timed(d, y)
    BY <1>1, <1>4, <1>6, <1>7 DEF Timed
<1>15. Joined(d, y)
    BY <1>10, <1>11 DEF Joined
<1>16. Primary(d, y)
    BY <1>2, <1>3, <1>4, <1>6, <1>7, <1>10, <1>11, <1>12 DEF Primary, Occupies
<1>17. TaskOK(d, y)
    BY <1>6, <1>7, <1>13, <1>14, <1>15, <1>16 DEF TaskOK
<1>18. r.available
    <2>1. r.completion
        BY <1>2 DEF ServiceInv, ServiceCore, CompletionTimely
    <2> QED BY <1>2, <2>1 DEF ServiceInv, CompletionAllowed, ImmuneRun
<1>19. Exposed(d, y, closed, lost)
    BY <1>3, <1>10, <1>11, <1>12, <1>18 DEF Exposed
<1>20. \A x \in Task \ {y} : d.task[x] = u.task[x]
    BY <1>4, <1>7 DEF Plain
<1>21. /\ d.svc[n] = r /\ \A m \in Server \ {n} : d.svc[m] = u.svc[m]
       /\ d.store = u.store /\ d.now = u.now /\ d.deferred = u.deferred /\ d.dead = u.dead
    BY <1>4, <1>7
<1> QED BY <1>3, <1>8, <1>9, <1>10, <1>17, <1>19, <1>20, <1>21 DEF Seated

\* Those whose records have not changed are still in order.
LEMMA OnlySound ==
    ASSUME NEW u, NEW v, NEW moved, NEW closed, NEW lost, WorldOK(u), WorldOK(v), Only(u, v, moved),
           \A x \in Task \ moved : TaskOK(u, x) /\ Exposed(u, x, closed, lost),
           \A x \in moved : TaskOK(v, x) /\ Exposed(v, x, closed, lost)
    PROVE  Sound(v, closed, lost)
<1> SUFFICES ASSUME NEW x \in Task PROVE TaskOK(v, x) /\ Exposed(v, x, closed, lost)
    BY DEF Sound
<1>1. u \in World /\ v \in World
    BY DEF WorldOK
<1>2. CASE x \in moved
    BY <1>2
<1>3. CASE x \notin moved
    <2>1. Beside(u, v, x) /\ SameSky(u, v) /\ TaskOK(u, x) /\ Exposed(u, x, closed, lost)
        BY <1>3 DEF Only
    <2> QED BY <1>1, <2>1, BesideKeeps, BesideExposed
<1> QED BY <1>2, <1>3

\* What runs is not queued.
LEMMA RunningNotQueued ==
    ASSUME NEW u, NEW t \in Task, TaskOK(u, t), u \in World, NEW n \in Server, Runs(u.svc[n], t)
    PROVE  /\ u.task[t].state # "QUEUED"
           /\ u.svc[n].runningRecovery =>
                /\ u.svc[n].immune /\ u.task[t].generation = 1 /\ Computing(u, t)
                /\ u.attempt[t].node = n
           /\ ~u.svc[n].runningRecovery =>
                n = HostNode[t] /\ u.task[t].generation = 0 /\ u.task[t].state = "RUNNING"
<1>1. u.task[t] \in TaskRuntime
    BY WorldTypes
<1>2. CASE u.svc[n].runningRecovery
    <2>1. u.svc[n].immune /\ u.attempt[t].live /\ u.attempt[t].stage = "RUNNING_BACKUP"
          /\ u.attempt[t].node = n
        BY <1>2 DEF TaskOK, Located
    <2>2. ~Primary(u, t)
        <3>1. NoAttempt.live = FALSE
            BY DEF NoAttempt
        <3> QED BY <2>1, <3>1 DEF Primary
    <2>3. u.task[t].generation = 1 /\ Recovery(u, t)
        BY <1>1, <2>2 DEF TaskOK, TaskRuntime
    <2>4. Computing(u, t)
        BY <2>1, <2>3 DEF Recovery, Deciding, Waiting, Resulting, Ended
    <2> QED BY <1>2, <2>1, <2>3, <2>4 DEF Computing
<1>3. CASE ~u.svc[n].runningRecovery
    BY <1>3 DEF TaskOK, Located
<1> QED BY <1>2, <1>3

\* The wake-up of a service may start a queued task.
LEMMA DispatchSound ==
    ASSUME NEW u, Sound(u, {}, {}), NEW n \in Server,
           NEW d, d = Dispatched([u EXCEPT !.svc[n] = FireDispatch(@, u.now, 1)], n)
    PROVE  Sound(d, {}, {})
<1> DEFINE s == u.svc[n]
           r == FireDispatch(s, u.now, 1)
           v == Reslot(u, n, r)
           none == {}
<1>1. /\ WorldOK(u) /\ u \in World /\ u.now \in Time /\ s \in Service /\ u.svc \in [Server -> Service]
      /\ \A t \in Task : TaskOK(u, t) /\ Exposed(u, t, none, none)
      /\ ServiceCore(s, u.now) /\ s.running
    BY WorldTypes DEF Sound, WorldOK, NodeOK
<1>2. ServiceInv(s, u.now)
    BY <1>1, Permitted DEF TaskOK
<1>3. r \in Service /\ ServiceInv(r, u.now)
    <2>1. 1 \in Nat \ {0}
        OBVIOUS
    <2> QED BY <1>1, <1>2, <2>1, FireDispatchKeeps
<1>4. /\ r.running /\ r.available = s.available
      /\ \/ \A x \in Task : Unmoved(r, s, x)
         \/ Takes(r, s, u.now) /\ \A x \in Task : x # r.current.task => Unmoved(r, s, x)
    <2>1. 1 \in Nat \ {0}
        OBVIOUS
    <2> QED BY <1>1, <2>1, FireDispatchTakes
<1>5. d = Dispatched(v, n)
    <2>1. [u EXCEPT !.svc[n] = FireDispatch(@, u.now, 1)] = v
        BY <1>1 DEF Reslot
    <2> QED BY <2>1
<1> HIDE DEF r, v, none
<1>6. CASE \A x \in Task : Unmoved(r, s, x)
    <2>1. \A x \in Task \ none : Unmoved(r, u.svc[n], x)
        BY <1>6
    <2>2. WorldOK(v) /\ Only(u, v, none)
        BY <1>1, <1>3, <1>4, <2>1, ReslotWorld DEF v, ServiceInv
    <2>3. v.svc = [u.svc EXCEPT ![n] = r] /\ v.task = u.task
        BY <1>1 DEF v, Reslot, World
    <2>4. v.svc[n] = r
        BY <1>1, <2>3
    <2>5. d = v
        <3>1. CASE ~r.hasCurrent
            BY <1>5, <2>4, <3>1 DEF Dispatched
        <3>2. CASE r.hasCurrent
            <4> DEFINE t == r.current.task
            <4>1. t \in Task /\ Runs(r, t)
                BY <1>3, <3>2 DEF ServiceInv, ServiceCore, CurrentSane, Service, Run, Runs
            <4> HIDE DEF t
            <4>2. Runs(s, t)
                BY <1>6, <4>1 DEF Unmoved
            <4>3. u.task[t].state # "QUEUED"
                BY <1>1, <4>1, <4>2, RunningNotQueued
            <4> QED BY <1>5, <2>3, <2>4, <4>3 DEF Dispatched, t
        <3> QED BY <3>1, <3>2
    <2>6. \A x \in none : TaskOK(v, x) /\ Exposed(v, x, none, none)
        BY DEF none
    <2>7. Sound(v, none, none)
        BY <1>1, <2>2, <2>6, OnlySound
    <2> QED BY <2>5, <2>7 DEF none
<1>7. CASE Takes(r, s, u.now) /\ \A x \in Task : x # r.current.task => Unmoved(r, s, x)
    <2> DEFINE y == r.current.task
               moved == {y}
    <2>1. Seats(u, n, r, y)
        <3>1. \A i \in r.queue : i.task # y
            BY <1>7 DEF Takes
        <3> QED BY <1>3, <1>4, <1>7, <3>1 DEF Takes, Seats
    <2>2. \A x \in Task \ moved : Unmoved(r, u.svc[n], x)
        BY <1>7
    <2>3. y \in Task /\ y \in moved
        BY <1>7 DEF Takes
    <2>4. d = Dispatched(Reslot(u, n, r), n)
        BY <1>5 DEF v
    <2> HIDE DEF y, moved
    <2>5. Seated(u, d, n, r, y, moved, none, none)
        BY <1>1, <2>1, <2>2, <2>3, <2>4, DispatchedSeats
    <2>6. WorldOK(d) /\ Only(u, d, moved) /\ \A x \in moved : TaskOK(d, x) /\ Exposed(d, x, none, none)
        BY <2>5 DEF Seated, moved
    <2>7. Sound(d, none, none)
        BY <1>1, <2>6, OnlySound
    <2> QED BY <2>7 DEF none
<1> QED BY <1>4, <1>6, <1>7

\* No service holds anything for t but its name.
Idle(u, t) == \A n \in Server : u.svc[n].owner # t /\ ~Runs(u.svc[n], t)

\* A recovery whose computation has just left the slot.
Computes(u, t) ==
    /\ WorldOK(u) /\ Located(u, t) /\ Joined(u, t) /\ Idle(u, t)
    /\ u.task[t].generation = 1 /\ Computing(u, t)

LEMMA ComputedChanges ==
    ASSUME NEW u, NEW t \in Task, NEW closed, NEW lost, Computes(u, t),
           Exposed(u, t, closed, lost), NEW cut, NEW z, z = Computed(u, t, cut)
    PROVE  Changes(u, z, t, closed, lost)
<1> DEFINE r == u.attempt[t]
           a == [u.task[t] EXCEPT !.state = "RESULT_TRANSFERRING", !.timer = FALSE]
           e == [r EXCEPT !.stage = "RESULT"]
           x == Record(u, t, a, e, u.store, u.stopped)
           k == "RESULT"
<1>1. /\ WorldOK(u) /\ Located(u, t) /\ Joined(u, t) /\ Idle(u, t)
      /\ u.task[t].generation = 1 /\ Computing(u, t)
      /\ u \in World /\ u.ok /\ u.task[t] \in TaskRuntime /\ r \in Attempt
      /\ u.task \in [Task -> TaskRuntime] /\ u.attempt \in [Task -> Attempt]
      /\ u.store \in SUBSET StorageEntry /\ u.stopped \in SUBSET Task
    BY WorldTypes DEF Computes, WorldOK
<1>2. /\ r.live /\ r.stage = "RUNNING_BACKUP" /\ u.task[t].state = "RUNNING_BACKUP"
      /\ r.delivery[k].step = "none" /\ r.node \in Server /\ r.started
    BY <1>1 DEF Computing, Past
<1>3. Active(u, t)
    BY <1>1, <1>2 DEF Active, Terminal, TerminalState
<1>4. CASE u.now > u.task[t].deadline
    <2>1. z = Fail(u, t)
        BY <1>2, <1>4 DEF Computed, Owns
    <2> QED BY <1>3, <2>1, ActiveFails, ClosesChanges
<1>5. CASE ~(u.now > u.task[t].deadline)
    <2>1. /\ a \in TaskRuntime /\ a.state = "RESULT_TRANSFERRING" /\ ~a.timer
          /\ a.generation = u.task[t].generation
        BY <1>1 DEF TaskRuntime, Alive
    <2>2. /\ e \in Attempt /\ e.live = r.live /\ e.stage = "RESULT" /\ e.node = r.node
          /\ e.path = r.path /\ e.decide = r.decide /\ e.merge = r.merge
          /\ e.started = r.started /\ e.committed = r.committed /\ e.delivery = r.delivery
        BY <1>1 DEF Attempt, Stage
    <2>3. z = Deliver(x, t, k, cut)
        <3> DEFINE m == Must(u, u.task[t].state = "RUNNING_BACKUP")
                   task == [u.task EXCEPT ![t] = a]
                   attempt == [u.attempt EXCEPT ![t] = e]
        <3>1. z = Deliver([m EXCEPT !.attempt[t].stage = "RESULT",
                                    !.task[t].state = "RESULT_TRANSFERRING", !.task[t].timer = FALSE],
                          t, k, cut)
            BY <1>2, <1>5 DEF Computed, Owns
        <3>2. m = [u EXCEPT !.ok = TRUE]
            BY <1>1, <1>2 DEF Must, World
        <3> HIDE DEF m
        <3>3. m.task = u.task /\ m.attempt = u.attempt
            BY <1>1, <3>2 DEF World
        <3>4. [m.attempt EXCEPT ![t].stage = "RESULT"] = attempt
            BY <1>1, <3>3
        <3>5. [m.task EXCEPT ![t].state = "RESULT_TRANSFERRING", ![t].timer = FALSE] = task
            BY <1>1, <3>3
        <3>6. x = [u EXCEPT !.ok = TRUE, !.task = task, !.attempt = attempt,
                            !.store = u.store, !.stopped = u.stopped]
            BY DEF Record
        <3> HIDE DEF task, attempt, x, e, a
        <3>7. [m EXCEPT !.attempt[t].stage = "RESULT",
                        !.task[t].state = "RESULT_TRANSFERRING", !.task[t].timer = FALSE]
                = [m EXCEPT !.attempt = attempt, !.task = task]
            BY <3>4, <3>5
        <3>8. [m EXCEPT !.attempt = attempt, !.task = task] = x
            BY <1>1, <3>2, <3>6 DEF World
        <3> QED BY <3>1, <3>7, <3>8
    <2> HIDE DEF a, e
    <2>4. /\ Plain(u, x, t) /\ x.task[t] = a /\ x.attempt[t] = e /\ x.store = u.store
          /\ x.svc = u.svc /\ x.now = u.now /\ x.deferred = u.deferred /\ x.dead = u.dead
        BY <1>1, <2>1, <2>2, RecordIsPlain
    <2> HIDE DEF x
    <2>5. WorldOK(x) /\ Only(u, x, {t})
        BY <1>1, <2>4, PlainWorld
    <2>6. Located(x, t)
        BY <1>1, <2>1, <2>2, <2>4 DEF Located, Idle
    <2>7. Joined(x, t) /\ Timed(x, t)
        BY <1>1, <2>1, <2>2, <2>4 DEF Joined, InputReady, Wanted, Received, Timed
    <2>8. Active(x, t)
        BY <1>1, <1>2, <2>1, <2>2, <2>4, <2>5, <2>6, <2>7 DEF Active, Terminal, TerminalState
    <2>9. Exposed(x, t, closed, lost)
        BY <1>1, <2>1, <2>2, <2>4 DEF Exposed, Needs, Received
    <2>10. Resulting(x, t)
        BY <1>1, <2>1, <2>2, <2>4 DEF Computing, Past, Resulting, Stores
    <2> HIDE DEF k
    <2>11. k \in Kind /\ x.attempt[t].delivery[k].step = "none"
        BY <1>2, <2>2, <2>4, KindsKnown DEF k
    <2>12. \/ Closes(x, z, t)
           \/ \E d \in Delivery : d.step \in {"local", "queued"} /\ z = Mark(x, t, k, d)
        BY <2>3, <2>8, <2>11, DeliverRequests
    <2>13. CASE Closes(x, z, t)
        <3>1. Changes(x, z, t, closed, lost)
            BY <2>13, ClosesChanges
        <3> QED BY <2>5, <3>1, ChangesAfter
    <2>14. ASSUME NEW d \in Delivery, d.step \in {"local", "queued"}, z = Mark(x, t, k, d)
           PROVE  Changes(x, z, t, closed, lost)
        <3>1. Remarks(x, z, t, k, d)
            BY <2>11, <2>14 DEF Remarks, Received
        <3>2. Remarked(x, z, t, k, d, closed, lost)
            BY <2>5, <2>9, <2>11, <3>1, RemarkKeeps
        <3>3. /\ WorldOK(z) /\ Only(x, z, {t}) /\ Exposed(z, t, closed, lost)
              /\ Located(z, t) /\ Joined(z, t) /\ Timed(z, t)
              /\ z.task[t] = x.task[t] /\ z.store = x.store
              /\ Differs(z.attempt[t], x.attempt[t], k, d)
            BY <2>6, <2>7, <3>2 DEF Remarked
        <3>4. Resulting(z, t)
            BY <2>10, <3>3 DEF Resulting, Past, Stores, Differs, k
        <3>5. TaskOK(z, t)
            BY <1>1, <2>1, <2>4, <3>3, <3>4 DEF TaskOK, Recovery
        <3> QED BY <3>3, <3>5 DEF Changes
    <2> QED BY <2>5, <2>12, <2>13, <2>14, ChangesAfter
<1> QED BY <1>4, <1>5

\* A primary execution that is no longer in the slot.
Leaves(u, t) ==
    /\ WorldOK(u) /\ Located(u, t) /\ Idle(u, t)
    /\ u.task[t].generation = 0 /\ u.attempt[t] = NoAttempt

\* The task of t goes on without it, with its storage given back.
Left(u, t, state) ==
    ReleaseRecoveryState([u EXCEPT !.task[t].state = state, !.task[t].timer = FALSE,
                                   !.stopped = @ \cup {t}], t)

LEMMA PrimaryEnds ==
    ASSUME NEW u, NEW t \in Task, NEW closed, NEW lost, Leaves(u, t),
           NEW state \in {"RESULT_TRANSFERRING", "FAILED"},
           \A n \in Server : \A i \in u.svc[n].queue : i.task # t,
           NEW z, z = Left(u, t, state)
    PROVE  Changes(u, z, t, closed, lost) /\ z.task[t].state = state /\ z.svc = u.svc
<1> DEFINE r == u.attempt[t]
           a == [u.task[t] EXCEPT !.state = state, !.timer = FALSE]
           store == {o \in u.store : o.task # t \/ o.node \notin Server}
           stopped == u.stopped \cup {t}
<1>1. /\ WorldOK(u) /\ Located(u, t) /\ Idle(u, t)
      /\ u.task[t].generation = 0 /\ r = NoAttempt
      /\ u \in World /\ u.ok /\ u.task[t] \in TaskRuntime /\ r \in Attempt
      /\ u.task \in [Task -> TaskRuntime] /\ u.attempt \in [Task -> Attempt]
      /\ u.store \in SUBSET StorageEntry /\ u.stopped \in SUBSET Task
    BY WorldTypes DEF Leaves, WorldOK
<1>2. NoAttempt.live = FALSE /\ NoAttempt.started = FALSE
    BY DEF NoAttempt
<1>3. /\ a \in TaskRuntime /\ a.state = state /\ ~a.timer
      /\ a.generation = u.task[t].generation
    BY <1>1 DEF TaskRuntime, Alive, TerminalState
<1>4. /\ store \in SUBSET StorageEntry /\ store \subseteq u.store
      /\ \A o \in StorageEntry : o.task # t => (o \in store <=> o \in u.store)
      /\ \A o \in store : o.task # t
      /\ stopped \in SUBSET Task
    BY <1>1 DEF StorageEntry
<1>5. z = Record(u, t, a, r, store, stopped)
    <2> DEFINE task == [u.task EXCEPT ![t] = a]
               attempt == [u.attempt EXCEPT ![t] = r]
               y == [u EXCEPT !.task[t].state = state, !.task[t].timer = FALSE,
                              !.stopped = @ \cup {t}]
    <2>1. [u.task EXCEPT ![t].state = state, ![t].timer = FALSE] = task
        BY <1>1
    <2>2. y = [u EXCEPT !.task = task, !.stopped = stopped]
        BY <2>1
    <2>3. y.store = u.store
        BY <1>1, <2>2 DEF World
    <2>4. z = [y EXCEPT !.store = store]
        BY <2>3 DEF Left, ReleaseRecoveryState, ReleaseTask
    <2>5. attempt = u.attempt
        BY <1>1
    <2>6. Record(u, t, a, r, store, stopped)
            = [u EXCEPT !.ok = TRUE, !.task = task, !.attempt = attempt,
                        !.store = store, !.stopped = stopped]
        BY DEF Record
    <2> HIDE DEF task, attempt, y, store, stopped
    <2>7. [y EXCEPT !.store = store]
            = [u EXCEPT !.ok = TRUE, !.task = task, !.attempt = u.attempt,
                        !.store = store, !.stopped = stopped]
        BY <1>1, <2>2 DEF World
    <2> QED BY <2>4, <2>5, <2>6, <2>7
<1> HIDE DEF a, store, stopped
<1>6. /\ Plain(u, z, t) /\ z.task[t] = a /\ z.attempt[t] = r /\ z.store = store
      /\ z.svc = u.svc /\ z.now = u.now /\ z.deferred = u.deferred /\ z.dead = u.dead
    <2> DEFINE e == r
               y == Record(u, t, a, e, store, stopped)
    <2> HIDE DEF e
    <2>1. e \in Attempt
        BY <1>1 DEF e
    <2>2. /\ Plain(u, y, t) /\ y.task[t] = a /\ y.attempt[t] = e /\ y.store = store
          /\ y.svc = u.svc /\ y.now = u.now /\ y.deferred = u.deferred /\ y.dead = u.dead
        BY <1>1, <1>3, <1>4, <2>1, RecordIsPlain
    <2> QED BY <1>5, <2>2 DEF e
<1>7. WorldOK(z) /\ Only(u, z, {t})
    BY <1>1, <1>4, <1>6, PlainWorld
<1>8. Located(z, t)
    BY <1>1, <1>6 DEF Located, Idle
<1>9. Joined(z, t) /\ Timed(z, t)
    BY <1>1, <1>2, <1>3, <1>6 DEF Joined, Timed
<1>10. Primary(z, t)
    BY <1>1, <1>3, <1>4, <1>6 DEF Primary
<1>11. TaskOK(z, t)
    BY <1>1, <1>3, <1>6, <1>8, <1>9, <1>10 DEF TaskOK
<1>12. Exposed(z, t, closed, lost)
    BY <1>1, <1>2, <1>3, <1>6 DEF Exposed
<1> QED BY <1>3, <1>6, <1>7, <1>11, <1>12 DEF Changes

\* The run of t at n, about to complete.
Finishing(u, n, t) ==
    LET s == u.svc[n] r == u.attempt[t] IN
    /\ n \in Server /\ t \in Task /\ t = s.current.task /\ CompletionLegal(s, u.now)
    /\ Located(u, t) /\ Joined(u, t)
    /\ s.runningRecovery => u.task[t].generation = 1 /\ Computing(u, t) /\ r.node = n
    /\ ~s.runningRecovery => /\ n = HostNode[t] /\ u.task[t].generation = 0
                             /\ u.task[t].state = "RUNNING" /\ r = NoAttempt

\* Everything is in order again, with no other recovery affected.
Finished(u, z, t, closed, lost) ==
    /\ Sound(z, closed, lost) /\ SameSky(u, z)
    /\ \A x \in Task \ {t} : u.task[x].generation = 1 => Beside(u, z, x)

\* d is u after the slot of n has been vacated by t and taken by the next task.
Passed(u, d, n, t, closed, lost) ==
    /\ WorldOK(d) /\ SameSky(u, d) /\ d.now = u.now /\ d.deferred = u.deferred
    /\ \A x \in Task \ {t} : TaskOK(d, x) /\ Exposed(d, x, closed, lost)
    /\ \A x \in Task \ {t} : u.task[x].generation = 1 => Beside(u, d, x)
    /\ d.task[t] = u.task[t] /\ d.attempt = u.attempt /\ d.store = u.store
    /\ d.svc[n].known = u.svc[n].known /\ d.svc[n].owner = NoTask /\ ~Runs(d.svc[n], t)
    /\ \A i \in d.svc[n].queue : i.task # t /\ i \in u.svc[n].queue
    /\ \A m \in Server \ {n} : d.svc[m] = u.svc[m]

LEMMA SlotPasses ==
    ASSUME NEW u, WorldOK(u), NEW n, NEW t, Finishing(u, n, t), NEW closed, NEW lost,
           \A x \in Task \ {t} : TaskOK(u, x) /\ Exposed(u, x, closed, lost),
           NEW defer \in BOOLEAN,
           NEW r, r = CompleteCurrentTask(u.svc[n], u.now, 1, defer),
           NEW d, d = Dispatched(Reslot(u, n, r), n)
    PROVE  Passed(u, d, n, t, closed, lost)
<1> DEFINE s == u.svc[n]
           v == Reslot(u, n, r)
<1>1. /\ u \in World /\ u.now \in Time /\ u.svc \in [Server -> Service] /\ n \in Server
      /\ s \in Service /\ ServiceCore(s, u.now) /\ s.running /\ CompletionLegal(s, u.now)
      /\ t \in Task /\ t = s.current.task
    BY WorldTypes DEF WorldOK, NodeOK, Finishing
<1>2. r \in Service /\ ServiceInv(r, u.now)
    <2>1. 1 \in Nat \ {0}
        OBVIOUS
    <2> QED BY <1>1, <2>1, CompleteCurrentTaskKeeps
<1>3. /\ r.running /\ r.available = s.available /\ r.known = s.known /\ ~Runs(r, t) /\ r.owner = NoTask
      /\ \A i \in r.queue : i.task # t /\ i \in s.queue
      /\ \/ ~r.hasCurrent /\ \A x \in Task : x # t => Unmoved(r, s, x)
         \/ /\ r.hasCurrent /\ ~r.runningRecovery /\ r.current.task \in Task \ {t}
            /\ r.current.start = u.now
            /\ \E i \in s.queue : i.task = r.current.task
            /\ \A i \in r.queue : i.task # r.current.task
            /\ \A x \in Task : x # t /\ x # r.current.task => Unmoved(r, s, x)
    <2>1. 1 \in Nat \ {0}
        OBVIOUS
    <2> DEFINE y == s.current.task
    <2>2. /\ y \in Task
          /\ r.running = s.running /\ r.available = s.available
          /\ r.known = s.known /\ ~Runs(r, y) /\ r.owner = NoTask
          /\ \A i \in r.queue : i.task # y /\ i \in s.queue
          /\ \/ ~r.hasCurrent /\ \A x \in Task : x # y => Unmoved(r, s, x)
             \/ /\ r.hasCurrent /\ ~r.runningRecovery /\ r.current.task \in Task \ {y}
                /\ r.current.start = u.now
                /\ \E i \in s.queue : i.task = r.current.task
                /\ \A i \in r.queue : i.task # r.current.task
                /\ \A x \in Task : x # y /\ x # r.current.task => Unmoved(r, s, x)
        <3>1. /\ s \in Service /\ u.now \in Time /\ ServiceCore(s, u.now) /\ CompletionLegal(s, u.now)
              /\ r = CompleteCurrentTask(s, u.now, 1, defer)
            BY <1>1
        <3> HIDE DEF s
        <3> QED BY <2>1, <3>1, CompleteCurrentTaskTakes
    <2>3. t = y
        BY <1>1
    <2> HIDE DEF y, s
    <2>4. r.running
        BY <1>1, <2>2 DEF s
    <2> QED BY <2>2, <2>3, <2>4
<1> HIDE DEF v
<1>4. ASSUME NEW moved, WorldOK(d), Only(u, d, moved), d.svc[n] = r,
             \A m \in Server \ {n} : d.svc[m] = u.svc[m],
             d.task[t] = u.task[t], d.attempt = u.attempt, d.store = u.store,
             d.now = u.now, d.deferred = u.deferred,
             \A x \in moved \ {t} : TaskOK(d, x) /\ Exposed(d, x, closed, lost)
                                    /\ u.task[x].generation = 0
      PROVE  Passed(u, d, n, t, closed, lost)
    <2>1. u \in World /\ d \in World /\ SameSky(u, d)
        BY <1>4 DEF WorldOK, Only
    <2>2. ASSUME NEW x \in Task \ {t} PROVE TaskOK(d, x) /\ Exposed(d, x, closed, lost)
        <3>1. CASE x \in moved
            BY <1>4, <3>1
        <3>2. CASE x \notin moved
            <4>1. Beside(u, d, x) /\ TaskOK(u, x) /\ Exposed(u, x, closed, lost)
                BY <1>4, <3>2 DEF Only
            <4> QED BY <2>1, <4>1, BesideKeeps, BesideExposed
        <3> QED BY <3>1, <3>2
    <2>3. ASSUME NEW x \in Task \ {t}, u.task[x].generation = 1 PROVE Beside(u, d, x)
        BY <1>4, <2>3 DEF Only
    <2> QED BY <1>3, <1>4, <2>1, <2>2, <2>3 DEF Passed
<1>5. CASE ~r.hasCurrent /\ \A x \in Task : x # t => Unmoved(r, s, x)
    <2> DEFINE moved == {t}
    <2>1. \A x \in Task \ moved : Unmoved(r, u.svc[n], x)
        BY <1>5
    <2>2. v = Reslot(u, n, r)
        BY DEF v
    <2> HIDE DEF moved
    <2>3. WorldOK(v) /\ Only(u, v, moved)
        BY <1>1, <1>2, <1>3, <2>1, <2>2, ReslotWorld DEF ServiceInv
    <2>4. /\ v.svc = [u.svc EXCEPT ![n] = r] /\ v.task = u.task /\ v.attempt = u.attempt
          /\ v.store = u.store /\ v.now = u.now /\ v.deferred = u.deferred
        BY <1>1, <2>2 DEF Reslot, World
    <2>5. v.svc[n] = r /\ \A m \in Server \ {n} : v.svc[m] = u.svc[m]
        BY <1>1, <2>4, SMTT(30)
    <2>6. d = v
        BY <1>5, <2>2, <2>5, Zenon DEF Dispatched
    <2>7. \A x \in moved \ {t} : TaskOK(d, x) /\ Exposed(d, x, closed, lost)
                                    /\ u.task[x].generation = 0
        BY DEF moved
    <2> QED BY <1>4, <2>3, <2>4, <2>5, <2>6, <2>7
<1>6. CASE /\ r.hasCurrent /\ ~r.runningRecovery /\ r.current.task \in Task \ {t}
           /\ r.current.start = u.now
           /\ \E i \in s.queue : i.task = r.current.task
           /\ \A i \in r.queue : i.task # r.current.task
           /\ \A x \in Task : x # t /\ x # r.current.task => Unmoved(r, s, x)
    <2> DEFINE y == r.current.task
               moved == {t, y}
    <2>1. Seats(u, n, r, y)
        BY <1>2, <1>3, <1>6 DEF Seats
    <2>2. \A x \in Task \ moved : Unmoved(r, u.svc[n], x)
        BY <1>6
    <2>3. y \in Task \ {t} /\ y \in moved
        BY <1>6
    <2>4. \A x \in moved \ {t} : x = y
        OBVIOUS
    <2> HIDE DEF y, moved
    <2>5. TaskOK(u, y)
        BY <2>3
    <2>6. Seated(u, d, n, r, y, moved, closed, lost)
        BY <1>1, <2>1, <2>2, <2>3, <2>5, DispatchedSeats
    <2>7. /\ WorldOK(d) /\ Only(u, d, moved) /\ TaskOK(d, y) /\ Exposed(d, y, closed, lost)
          /\ d.svc[n] = r /\ \A m \in Server \ {n} : d.svc[m] = u.svc[m]
          /\ d.task[t] = u.task[t]
          /\ d.attempt = u.attempt /\ d.store = u.store
          /\ d.now = u.now /\ d.deferred = u.deferred
          /\ u.task[y].generation = 0
        BY <1>1, <2>3, <2>6 DEF Seated
    <2>8. \A x \in moved \ {t} : TaskOK(d, x) /\ Exposed(d, x, closed, lost)
                                    /\ u.task[x].generation = 0
        BY <2>4, <2>7
    <2> QED BY <1>4, <2>7, <2>8
<1> QED BY <1>3, <1>5, <1>6

\* A due run completes, its callback and the next dispatch run.
LEMMA CompleteFinishes ==
    ASSUME NEW u, WorldOK(u), NEW n, NEW t, Finishing(u, n, t), NEW closed, NEW lost,
           \A x \in Task \ {t} : TaskOK(u, x) /\ Exposed(u, x, closed, lost),
           Exposed(u, t, closed, lost),
           NEW defer \in BOOLEAN, NEW cut, NEW z, z = Complete(u, n, defer, cut)
    PROVE  Finished(u, z, t, closed, lost)
<1> DEFINE s == u.svc[n]
           r == CompleteCurrentTask(s, u.now, 1, defer)
           d == Dispatched(Reslot(u, n, r), n)
           a == u.attempt[t]
<1>1. /\ u \in World /\ u.ok /\ u.svc \in [Server -> Service] /\ n \in Server
      /\ CompletionLegal(s, u.now) /\ t \in Task /\ t = s.current.task
      /\ Located(u, t) /\ Joined(u, t) /\ u.task[t] \in TaskRuntime
    BY WorldTypes DEF WorldOK, Finishing
<1>2. z = IF s.runningRecovery THEN Computed(d, t, cut) ELSE PrimaryComputed(d, t)
    <2> DEFINE svc == [u.svc EXCEPT ![n] = r]
               m == Must(u, CompletionLegal(s, u.now))
    <2>1. m = u
        BY <1>1 DEF Must, World
    <2>2. [u EXCEPT !.svc[n] = CompleteCurrentTask(@, u.now, 1, defer)] = Reslot(u, n, r)
        BY DEF Reslot
    <2>3. z = LET v == [m EXCEPT !.svc[n] = CompleteCurrentTask(@, u.now, 1, defer)]
                  q == Dispatched(v, n)
              IN IF s.runningRecovery THEN Computed(q, t, cut) ELSE PrimaryComputed(q, t)
        BY <1>1 DEF Complete
    <2> QED BY <2>1, <2>2, <2>3
<1>3. Passed(u, d, n, t, closed, lost)
    <2> HIDE DEF r
    <2>1. r = CompleteCurrentTask(u.svc[n], u.now, 1, defer)
        BY DEF r
    <2> QED BY <2>1, SlotPasses
<1> HIDE DEF d
<1>4. /\ WorldOK(d) /\ SameSky(u, d) /\ d.now = u.now /\ d.deferred = u.deferred
      /\ \A x \in Task \ {t} : TaskOK(d, x) /\ Exposed(d, x, closed, lost)
      /\ \A x \in Task \ {t} : u.task[x].generation = 1 => Beside(u, d, x)
      /\ d.task[t] = u.task[t] /\ d.attempt = u.attempt /\ d.store = u.store
      /\ d.svc[n].known = u.svc[n].known /\ d.svc[n].owner = NoTask /\ ~Runs(d.svc[n], t)
      /\ \A i \in d.svc[n].queue : i.task # t /\ i \in u.svc[n].queue
      /\ \A m \in Server \ {n} : d.svc[m] = u.svc[m]
    BY <1>3 DEF Passed
<1>5. NoAttempt.live = FALSE
    BY SMTT(30) DEF NoAttempt
<1>6. \/ s.runningRecovery /\ u.task[t].generation = 1 /\ Computing(u, t) /\ a.node = n
      \/ /\ ~s.runningRecovery /\ n = HostNode[t] /\ u.task[t].generation = 0
         /\ u.task[t].state = "RUNNING" /\ a = NoAttempt
    BY DEF Finishing
<1>7. Idle(d, t)
    <2> SUFFICES ASSUME NEW m \in Server PROVE d.svc[m].owner # t /\ ~Runs(d.svc[m], t)
        BY DEF Idle
    <2>1. CASE m = n
        BY <1>1, <1>4, <2>1, TaskAssumption DEF NoTask
    <2>2. CASE m # n
        <3>1. u.svc[m].owner # t /\ ~Runs(u.svc[m], t)
            <4>1. LET q == u.svc[m] IN
                  /\ q.owner = t => a.live /\ a.node = m
                  /\ Runs(q, t) => (a.live /\ a.node = m)
                                  \/ (m = HostNode[t] /\ u.task[t].generation = 0)
                BY <1>1, Zenon DEF Located
            <4>2. CASE u.task[t].generation = 1 /\ a.node = n
                BY <2>2, <4>1, <4>2
            <4>3. CASE n = HostNode[t] /\ a = NoAttempt
                BY <1>5, <2>2, <4>1, <4>3, SMTT(30)
            <4> QED BY <1>6, <4>2, <4>3, SMTT(30)
        <3> QED BY <1>4, <2>2, <3>1
    <2> QED BY <2>1, <2>2
<1>8. Located(d, t)
    <2> SUFFICES ASSUME NEW m \in Server
                 PROVE  /\ t \in d.svc[m].known => m = HostNode[t] \/ (a.started /\ a.node = m)
                        /\ \A i \in d.svc[m].queue : i.task = t =>
                              m = HostNode[t] /\ u.task[t].generation = 0 /\ u.task[t].state = "QUEUED"
        BY <1>4, <1>7 DEF Located, Idle
    <2>1. /\ d.svc[m].known = u.svc[m].known
          /\ \A i \in d.svc[m].queue : i \in u.svc[m].queue
        BY <1>4
    <2> QED BY <1>1, <2>1, Zenon DEF Located
<1>9. Changes(d, z, t, closed, lost)
    <2>1. CASE s.runningRecovery
        <3>1. u.task[t].generation = 1 /\ Computing(u, t)
            BY <1>6, <2>1
        <3>2. Computing(d, t)
            BY <1>4, <3>1, SMTT(30) DEF Computing, Past, Stores
        <3>3. Joined(d, t)
            BY <1>1, <1>4, Zenon DEF Joined, InputReady, Wanted, Received
        <3>4. Exposed(d, t, closed, lost)
            BY <1>4, <3>1 DEF Exposed, Needs, Received, SameSky
        <3>5. Computes(d, t)
            BY <1>4, <1>7, <1>8, <3>1, <3>2, <3>3 DEF Computes
        <3>6. z = Computed(d, t, cut)
            BY <1>2, <2>1
        <3> QED BY <1>1, <3>4, <3>5, <3>6, ComputedChanges
    <2>2. CASE ~s.runningRecovery
        <3>1. u.task[t].generation = 0 /\ u.task[t].state = "RUNNING" /\ a = NoAttempt
            BY <1>6, <2>2
        <3>2. Leaves(d, t)
            BY <1>4, <1>7, <1>8, <3>1 DEF Leaves
        <3>3. \A m \in Server : \A i \in d.svc[m].queue : i.task # t
            BY <1>4, <1>8, <3>1 DEF Located
        <3>4. z = PrimaryComputed(d, t)
            BY <1>2, <2>2
        <3> DEFINE state == "RESULT_TRANSFERRING"
        <3>5. state \in {"RESULT_TRANSFERRING", "FAILED"}
            OBVIOUS
        <3>6. z = Left(d, t, state)
            BY <3>4 DEF PrimaryComputed, Left
        <3> HIDE DEF state
        <3> QED BY <1>1, <3>2, <3>3, <3>5, <3>6, PrimaryEnds
    <2> QED BY <2>1, <2>2
<1>10. Sound(z, closed, lost)
    BY <1>1, <1>4, <1>9, ChangesSound
<1>11. Only(d, z, {t})
    BY <1>9 DEF Changes
<1>12. SameSky(u, z)
    BY <1>4, <1>11 DEF Only, SameSky
<1>13. ASSUME NEW x \in Task \ {t}, u.task[x].generation = 1 PROVE Beside(u, z, x)
    <2>1. Beside(u, d, x) /\ Beside(d, z, x)
        BY <1>4, <1>11, <1>13, SMTT(30) DEF Only
    <2> QED BY <2>1, BesideTransitive
<1> QED BY <1>10, <1>12, <1>13 DEF Finished

LEMMA RunsFinishing ==
    ASSUME NEW u, WorldOK(u), NEW n \in Server, NEW t, t = u.svc[n].current.task,
           CompletionLegal(u.svc[n], u.now), TaskOK(u, t)
    PROVE  Finishing(u, n, t)
<1> DEFINE s == u.svc[n]
<1>1. u \in World /\ s \in Service /\ ServiceCore(s, u.now)
    BY WorldTypes DEF WorldOK, NodeOK
<1>2. s.hasCurrent
    BY DEF CompletionLegal, CompletionDue
<1>3. t \in Task /\ Runs(s, t)
    BY <1>1, <1>2 DEF ServiceCore, CurrentSane, Service, Run, Runs
<1>4. /\ s.runningRecovery => /\ u.task[t].generation = 1 /\ Computing(u, t)
                               /\ u.attempt[t].node = n
      /\ ~s.runningRecovery =>
            n = HostNode[t] /\ u.task[t].generation = 0 /\ u.task[t].state = "RUNNING"
    <2>1. t \in Task /\ Runs(u.svc[n], t) /\ s = u.svc[n]
        BY <1>3
    <2> HIDE DEF s
    <2> QED BY ONLY <1>1, <2>1, RunningNotQueued, TaskOK(u, t), n \in Server, SMTT(30)
<1>5. u.task[t].generation = 0 => u.attempt[t] = NoAttempt
    BY DEF TaskOK, Primary
<1>6. Located(u, t) /\ Joined(u, t)
    BY DEF TaskOK
<1> QED BY <1>3, <1>4, <1>5, <1>6 DEF Finishing

\* A due run completes.
LEMMA CompletesSound ==
    ASSUME NEW u, Sound(u, {}, {}), NEW n \in Server, CompletionDue(u.svc[n], u.now),
           NEW cut, NEW z, z = Complete(u, n, FALSE, cut)
    PROVE  Sound(z, {}, {})
<1> DEFINE none == {}
           no == FALSE
           t == u.svc[n].current.task
<1>1. /\ WorldOK(u) /\ \A x \in Task : TaskOK(u, x) /\ Exposed(u, x, none, none)
      /\ u \in World /\ u.svc[n].running /\ u.svc[n].hasCurrent
      /\ u.svc[n] \in Service /\ ServiceCore(u.svc[n], u.now)
    BY WorldTypes DEF Sound, WorldOK, NodeOK, CompletionDue
<1> HIDE DEF none, no
<1>2. ServiceInv(u.svc[n], u.now)
    BY <1>1, Permitted DEF TaskOK, none
<1>3. CompletionLegal(u.svc[n], u.now)
    BY <1>1, <1>2 DEF ServiceInv, CompletionAllowed, CompletionLegal, ServiceCore, CompletionTimely
<1>4. t \in Task
    BY <1>1 DEF ServiceCore, CurrentSane, Service, Run
<1> HIDE DEF t
<1>5. Finishing(u, n, t)
    BY <1>1, <1>3, <1>4, RunsFinishing DEF t
<1>6. no \in BOOLEAN /\ z = Complete(u, n, no, cut)
    BY DEF no
<1>7. Finished(u, z, t, none, none)
    BY <1>1, <1>4, <1>5, <1>6, CompleteFinishes
<1> QED BY <1>7 DEF Finished, none

\* At its host t has left the service r.
Unhosts(u, n, r, t) ==
    /\ r \in Service /\ ServiceCore(r, u.now) /\ DispatchArmed(r)
    /\ r.running /\ r.available = u.svc[n].available
    /\ ~Runs(r, t) /\ r.owner = u.svc[n].owner /\ r.known = u.svc[n].known
    /\ \A i \in r.queue : i.task # t /\ i \in u.svc[n].queue
    /\ \A x \in Task \ {t} : Unmoved(r, u.svc[n], x)

LEMMA PrimaryStops ==
    ASSUME NEW u, WorldOK(u), NEW t \in Task, Located(u, t),
           u.task[t].generation = 0, u.attempt[t] = NoAttempt,
           NEW n, n = HostNode[t], NEW r, Unhosts(u, n, r, t),
           NEW state \in {"RESULT_TRANSFERRING", "FAILED"},
           NEW z, z = Left(Reslot(u, n, r), t, state), NEW closed, NEW lost
    PROVE  Changes(u, z, t, closed, lost) /\ z.task[t].state = state
<1> DEFINE v == Reslot(u, n, r)
<1>1. /\ n \in Server /\ r \in Service /\ ServiceCore(r, u.now) /\ DispatchArmed(r)
      /\ r.running /\ r.available = u.svc[n].available
      /\ ~Runs(r, t) /\ r.owner = u.svc[n].owner /\ r.known = u.svc[n].known
      /\ \A i \in r.queue : i.task # t /\ i \in u.svc[n].queue
      /\ \A x \in Task \ {t} : Unmoved(r, u.svc[n], x)
    BY NodeAssumption DEF Unhosts
<1>2. u \in World /\ u.svc \in [Server -> Service]
    BY WorldTypes DEF WorldOK
<1>3. v = Reslot(u, n, r)
    OBVIOUS
<1> HIDE DEF v
<1>4. WorldOK(v) /\ Only(u, v, {t})
    BY <1>1, <1>3, ReslotWorld
<1>5. v.svc = [u.svc EXCEPT ![n] = r] /\ v.task = u.task /\ v.attempt = u.attempt
    BY <1>2, <1>3 DEF Reslot, World
<1>6. v.svc[n] = r /\ \A m \in Server \ {n} : v.svc[m] = u.svc[m]
    BY <1>1, <1>2, <1>5
<1>7. NoAttempt.live = FALSE
    BY DEF NoAttempt
<1>8. ASSUME NEW m \in Server
      PROVE  /\ t \in v.svc[m].known => m = n
             /\ \A i \in v.svc[m].queue : i.task # t
             /\ v.svc[m].owner # t /\ ~Runs(v.svc[m], t)
    <2>1. /\ t \in u.svc[m].known => m = n \/ (u.attempt[t].started /\ u.attempt[t].node = m)
          /\ \A i \in u.svc[m].queue : i.task = t => m = n
          /\ u.svc[m].owner # t
          /\ Runs(u.svc[m], t) => m = n
        BY <1>7 DEF Located
    <2>2. NoAttempt.started = FALSE
        BY DEF NoAttempt
    <2>3. CASE m = n
        BY <1>1, <1>6, <2>1, <2>3
    <2>4. CASE m # n
        BY <1>6, <2>1, <2>2, <2>4
    <2> QED BY <2>3, <2>4
<1>9. Located(v, t) /\ Idle(v, t)
    BY <1>8 DEF Located, Idle
<1>10. Leaves(v, t)
    BY <1>4, <1>5, <1>9 DEF Leaves
<1>11. Changes(v, z, t, closed, lost) /\ z.task[t].state = state
    <2>1. z = Left(v, t, state) /\ \A m \in Server : \A i \in v.svc[m].queue : i.task # t
        BY <1>3, <1>8
    <2> QED BY <1>10, <2>1, PrimaryEnds
<1> QED BY <1>4, <1>11, ChangesAfter

\* A task that misses its deadline completes if it is due, and fails otherwise.
LEMMA DeadlineSound ==
    ASSUME NEW u, Sound(u, {}, {}), NEW t \in Task, u.task[t].timer, NEW cut,
           NEW z, z = Deadline([u EXCEPT !.task[t].timer = FALSE], t, cut)
    PROVE  Sound(z, {}, {})
<1> DEFINE none == {}
           a == [u.task[t] EXCEPT !.timer = FALSE]
           e == u.attempt[t]
           y == Record(u, t, a, e, u.store, u.stopped)
           n == IF u.task[t].generation = 1 THEN e.node ELSE HostNode[t]
<1>1. /\ WorldOK(u) /\ \A x \in Task : TaskOK(u, x) /\ Exposed(u, x, none, none)
      /\ u \in World /\ u.ok /\ u.task[t] \in TaskRuntime /\ e \in Attempt
      /\ u.task \in [Task -> TaskRuntime] /\ u.attempt \in [Task -> Attempt]
      /\ u.svc \in [Server -> Service]
      /\ u.store \in SUBSET StorageEntry /\ u.stopped \in SUBSET Task
    BY WorldTypes DEF Sound, WorldOK
<1>2. u.task[t].state \in {"RUNNING", "RECOVERING", "RUNNING_BACKUP"}
    BY <1>1 DEF TaskOK, Timed
<1>3. /\ a \in TaskRuntime /\ a.state = u.task[t].state /\ a.generation = u.task[t].generation
      /\ ~a.timer
    BY <1>1 DEF TaskRuntime
<1>4. [u EXCEPT !.task[t].timer = FALSE] = y
    <2> DEFINE task == [u.task EXCEPT ![t] = a]
               attempt == [u.attempt EXCEPT ![t] = e]
    <2>1. [u EXCEPT !.task[t].timer = FALSE] = [u EXCEPT !.task = task]
        BY <1>1
    <2>2. attempt = u.attempt
        BY <1>1
    <2>3. y = [u EXCEPT !.ok = TRUE, !.task = task, !.attempt = attempt,
                        !.store = u.store, !.stopped = u.stopped]
        BY DEF Record
    <2> HIDE DEF task, attempt, y
    <2> QED BY <1>1, <2>1, <2>2, <2>3 DEF World
<1> HIDE DEF a
<1>5. /\ Plain(u, y, t) /\ y.task[t] = a /\ y.attempt[t] = e /\ y.store = u.store
      /\ y.svc = u.svc /\ y.now = u.now /\ y.deferred = u.deferred /\ y.dead = u.dead
    <2> DEFINE store == u.store
               stopped == u.stopped
               x == Record(u, t, a, e, store, stopped)
    <2>1. \A o \in StorageEntry : o.task # t => (o \in store <=> o \in u.store)
        OBVIOUS
    <2>2. store \in SUBSET StorageEntry /\ stopped \in SUBSET Task
        BY <1>1
    <2>3. u \in World /\ e \in Attempt
        BY <1>1
    <2> HIDE DEF e, store, stopped
    <2>4. /\ Plain(u, x, t) /\ x.task[t] = a /\ x.attempt[t] = e /\ x.store = store
          /\ x.svc = u.svc /\ x.now = u.now /\ x.deferred = u.deferred /\ x.dead = u.dead
        BY ONLY <1>3, <2>1, <2>2, <2>3, t \in Task, RecordIsPlain DEF x
    <2> QED BY <2>4 DEF store, stopped, x
<1> HIDE DEF y, none, n
<1>6. WorldOK(y) /\ Only(u, y, {t}) /\ y \in World
    BY <1>1, <1>5, PlainWorld DEF Plain
<1>7. Located(y, t) /\ Joined(y, t) /\ Exposed(y, t, none, none)
    <2>1. Located(y, t)
        BY <1>1, <1>3, <1>5 DEF TaskOK, Located
    <2>2. Joined(y, t)
        BY <1>1, <1>5 DEF TaskOK, Joined, InputReady, Wanted, Received
    <2>3. Exposed(y, t, none, none)
        BY <1>1, <1>3, <1>5 DEF Exposed, Needs, Received
    <2> QED BY <2>1, <2>2, <2>3
<1>8. \A x \in Task \ {t} : TaskOK(y, x) /\ Exposed(y, x, none, none)
    BY <1>1, <1>6, BesideKeeps, BesideExposed DEF Only
<1>9. z = Deadline(y, t, cut) /\ n = IF y.task[t].generation = 1 THEN y.attempt[t].node ELSE HostNode[t]
    BY <1>3, <1>4, <1>5 DEF n
<1>10. u.task[t].generation = 0 => Primary(u, t) /\ e = NoAttempt /\ u.task[t].state = "RUNNING"
    BY <1>1, <1>2 DEF TaskOK, Primary
<1>11. u.task[t].generation = 1 => e.live /\ Recovery(u, t)
    <2>1. ~Ended(u, t)
        BY <1>2 DEF Ended, Terminal, TerminalState
    <2> QED BY <1>1, <2>1, Zenon DEF TaskOK, Recovery, Deciding, Waiting, Computing, Resulting, Past
<1>12. CASE /\ y.task[t].state \in {"RUNNING", "RUNNING_BACKUP"}
            /\ CanCompleteIfDue(y.svc[n], t, y.now)
    <2> DEFINE no == FALSE
    <2> HIDE DEF no
    <2>1. z = Complete(y, n, no, cut) /\ no \in BOOLEAN
        BY <1>9, <1>12 DEF Deadline, no
    <2>2. CompletionLegal(u.svc[n], u.now) /\ t = u.svc[n].current.task
        BY <1>5, <1>12 DEF CanCompleteIfDue
    <2>3. n \in Server
        <3>1. CASE u.task[t].generation = 1
            <4>1. e.node \in Server
                BY <1>3, <1>5, <1>11, <1>12, <3>1 DEF Recovery, Deciding, Waiting, Computing, Past,
                    Resulting, Ended, Terminal, TerminalState
            <4> QED BY <3>1, <4>1, SMTT(30) DEF n
        <3>2. CASE u.task[t].generation # 1
            BY <3>2, NodeAssumption DEF n
        <3> QED BY <3>1, <3>2
    <2>4. Finishing(u, n, t)
        <3>1. WorldOK(u) /\ TaskOK(u, t)
            BY <1>1
        <3> QED BY ONLY <2>2, <2>3, <3>1, RunsFinishing
    <2>5. Finishing(y, n, t)
        <3>1. Computing(u, t) => Computing(y, t)
            BY <1>3, <1>5 DEF Computing, Past, Stores
        <3> QED BY <1>3, <1>5, <1>7, <2>4, <3>1, Zenon DEF Finishing
    <2>6. Finished(y, z, t, none, none)
        BY <1>6, <1>7, <1>8, <2>1, <2>5, CompleteFinishes
    <2> QED BY <2>6 DEF Finished, none
<1>13. CASE /\ ~(/\ y.task[t].state \in {"RUNNING", "RUNNING_BACKUP"}
                 /\ CanCompleteIfDue(y.svc[n], t, y.now))
            /\ u.task[t].generation = 1
    <2>1. z = FailRecovery(y, t)
        BY <1>3, <1>5, <1>9, <1>13 DEF Deadline
    <2>2. Active(y, t)
        BY <1>2, <1>3, <1>5, <1>6, <1>7, <1>11, <1>13 DEF Active, Terminal, TerminalState
    <2>3. Changes(y, z, t, none, none)
        BY <2>1, <2>2, ActiveFails, ClosesChanges
    <2>4. Sound(z, none, none)
        BY <1>6, <1>8, <2>3, ChangesSound
    <2> QED BY <2>4 DEF none
<1>14. CASE /\ ~(/\ y.task[t].state \in {"RUNNING", "RUNNING_BACKUP"}
                 /\ CanCompleteIfDue(y.svc[n], t, y.now))
            /\ u.task[t].generation = 0
    <2> DEFINE s == y.svc[n]
               r == CancelRunningTaskForFailure(s, t, y.now)
               state == "FAILED"
    <2>1. n = HostNode[t] /\ n \in Server
        BY <1>14, NodeAssumption DEF n
    <2>2. z = Left(Reslot(y, n, r), t, state)
        <3>1. z = ReleaseRecoveryState(
                    [y EXCEPT !.svc[n] = CancelRunningTaskForFailure(@, t, y.now),
                              !.task[t].state = "FAILED", !.task[t].timer = FALSE,
                              !.stopped = @ \cup {t}], t)
            <4>1. z = IF /\ y.task[t].state \in {"RUNNING", "RUNNING_BACKUP"}
                         /\ CanCompleteIfDue(y.svc[n], t, y.now)
                      THEN Complete(y, n, FALSE, cut)
                      ELSE IF y.task[t].generation = 1 THEN FailRecovery(y, t)
                      ELSE ReleaseRecoveryState(
                             [y EXCEPT !.svc[n] = CancelRunningTaskForFailure(@, t, y.now),
                                       !.task[t].state = "FAILED", !.task[t].timer = FALSE,
                                       !.stopped = @ \cup {t}], t)
                BY <1>9 DEF Deadline
            <4>2. y.task[t].generation # 1
                BY <1>3, <1>5, <1>14
            <4> QED BY <1>14, <4>1, <4>2
        <3>2. [y EXCEPT !.svc[n] = CancelRunningTaskForFailure(@, t, y.now),
                              !.task[t].state = "FAILED", !.task[t].timer = FALSE,
                              !.stopped = @ \cup {t}]
                = [Reslot(y, n, r) EXCEPT !.task[t].state = "FAILED", !.task[t].timer = FALSE,
                                          !.stopped = @ \cup {t}]
            BY <1>6 DEF Reslot, World
        <3> QED BY <3>1, <3>2 DEF Left
    <2>3. /\ s \in Service /\ ServiceCore(s, y.now) /\ DispatchArmed(s) /\ s.running /\ y.now \in Time
        BY <1>6, <2>1, WorldTypes DEF WorldOK, NodeOK
    <2>4. ServiceInv(s, y.now)
        <3>1. \A x \in Task : Located(y, x) /\ Exposed(y, x, none, none)
            BY <1>7, <1>8 DEF TaskOK
        <3> QED BY <1>6, <2>1, <3>1, Permitted DEF none
    <2>5. Runs(s, t) => ~s.runningRecovery
        <3>1. NoAttempt.live = FALSE
            BY DEF NoAttempt
        <3> QED BY <1>5, <1>7, <1>10, <1>14, <2>1, <3>1 DEF Located
    <2>6. r \in Service /\ ServiceInv(r, y.now)
        BY <2>3, <2>4, <2>5, CancelRunningKeeps DEF ServiceInv, Runs
    <2>7. /\ r.running = s.running /\ r.available = s.available
          /\ ~Runs(r, t) /\ r.owner = s.owner /\ r.known = s.known /\ r.queue = s.queue
          /\ \A x \in Task : x # t => Unmoved(r, s, x)
        BY <2>3, CancelRunningUnmoved
    <2>8. \A i \in s.queue : i.task # t
        BY <1>3, <1>5, <1>7, <1>10, <1>14, <2>1 DEF Located
    <2>9. Unhosts(y, n, r, t)
        <3> HIDE DEF r
        <3> QED BY <2>3, <2>6, <2>7, <2>8 DEF Unhosts, ServiceInv
    <2>10. state \in {"RESULT_TRANSFERRING", "FAILED"}
        OBVIOUS
    <2>11. y.task[t].generation = 0 /\ y.attempt[t] = NoAttempt
        BY <1>3, <1>5, <1>10, <1>14
    <2> HIDE DEF r, s, state
    <2>12. Changes(y, z, t, none, none)
        <3>1. /\ WorldOK(y) /\ Located(y, t) /\ y.task[t].generation = 0
              /\ y.attempt[t] = NoAttempt /\ n = HostNode[t] /\ Unhosts(y, n, r, t)
              /\ z = Left(Reslot(y, n, r), t, state)
            BY <1>6, <1>7, <2>1, <2>2, <2>9, <2>11
        <3> QED BY <2>10, <3>1, PrimaryStops
    <2>13. Sound(z, none, none)
        BY <1>6, <1>8, <2>12, ChangesSound
    <2> QED BY <2>13 DEF none
<1> QED BY <1>1, <1>12, <1>13, <1>14 DEF TaskRuntime

-----------------------------------------------------------------------------
(* Inputs, results, checkpoints and deliveries *)

\* An update of one task is a record.
LEMMA TaskRecord ==
    ASSUME NEW u \in World, u.ok, NEW t \in Task, NEW a
    PROVE  [u EXCEPT !.task[t] = a] = Record(u, t, a, u.attempt[t], u.store, u.stopped)
<1> DEFINE e == u.attempt[t]
           y == Record(u, t, a, e, u.store, u.stopped)
           task == [u.task EXCEPT ![t] = a]
           attempt == [u.attempt EXCEPT ![t] = e]
<1>1. u.attempt \in [Task -> Attempt] /\ u.ok = TRUE
    BY WorldTypes
<1>2. [u EXCEPT !.task[t] = a] = [u EXCEPT !.task = task]
    BY DEF World
<1>3. attempt = u.attempt
    BY <1>1
<1>4. y = [u EXCEPT !.ok = TRUE, !.task = task, !.attempt = attempt,
                    !.store = u.store, !.stopped = u.stopped]
    BY DEF Record
<1> HIDE DEF task, attempt, y
<1>5. y = [u EXCEPT !.task = task]
    BY <1>1, <1>3, <1>4 DEF World
<1>6. y = Record(u, t, a, u.attempt[t], u.store, u.stopped)
    BY DEF y
<1> QED BY <1>2, <1>5, <1>6

\* So is an update of the pools.
LEMMA StoreRecord ==
    ASSUME NEW u \in World, u.ok, NEW t \in Task, NEW store
    PROVE  [u EXCEPT !.store = store]
             = Record(u, t, u.task[t], u.attempt[t], store, u.stopped)
<1> DEFINE a == u.task[t]
           e == u.attempt[t]
           y == Record(u, t, a, e, store, u.stopped)
           task == [u.task EXCEPT ![t] = a]
           attempt == [u.attempt EXCEPT ![t] = e]
<1>1. /\ u.attempt \in [Task -> Attempt] /\ u.task \in [Task -> TaskRuntime] /\ u.ok = TRUE
    BY WorldTypes
<1>2. task = u.task /\ attempt = u.attempt
    BY <1>1
<1>3. y = [u EXCEPT !.ok = TRUE, !.task = task, !.attempt = attempt,
                    !.store = store, !.stopped = u.stopped]
    BY DEF Record
<1> HIDE DEF task, attempt, y
<1>4. y = [u EXCEPT !.store = store]
    BY <1>1, <1>2, <1>3 DEF World
<1>5. y = Record(u, t, u.task[t], u.attempt[t], store, u.stopped)
    BY DEF y
<1> QED BY <1>4, <1>5

\* A task that is neither recovering nor terminal and has no attempt.
LEMMA PrimaryState ==
    ASSUME NEW u \in World, NEW t \in Task, TaskOK(u, t),
           u.task[t].state \in {"INPUT_TRANSFERRING", "QUEUED", "RUNNING"}
    PROVE  /\ u.task[t].generation = 0 /\ Primary(u, t)
           /\ u.attempt[t] = NoAttempt /\ ~u.attempt[t].live /\ ~u.attempt[t].started
<1>1. ~Recovery(u, t)
    BY DEF Recovery, Deciding, Waiting, Computing, Resulting, Ended, Terminal, TerminalState
<1>2. u.task[t] \in TaskRuntime
    BY WorldTypes
<1>3. u.task[t].generation = 0 /\ Primary(u, t)
    BY <1>1, <1>2 DEF TaskOK, TaskRuntime
<1>4. NoAttempt.live = FALSE /\ NoAttempt.started = FALSE
    BY DEF NoAttempt
<1> QED BY <1>3, <1>4 DEF Primary

\* z is v with another record a of the task t.
Replaces(v, z, t, a) ==
    /\ WorldOK(z) /\ Only(v, z, {t})
    /\ z.task[t] = a /\ z.attempt[t] = v.attempt[t] /\ z.store = v.store /\ z.svc = v.svc

LEMMA TaskReplaced ==
    ASSUME NEW v, WorldOK(v), NEW t \in Task, NEW a \in TaskRuntime,
           NEW z, z = [v EXCEPT !.task[t] = a]
    PROVE  Replaces(v, z, t, a)
<1> DEFINE e == v.attempt[t]
           store == v.store
           stopped == v.stopped
           y == Record(v, t, a, e, store, stopped)
<1>1. /\ v \in World /\ v.ok /\ e \in Attempt
      /\ store \in SUBSET StorageEntry /\ stopped \in SUBSET Task
    BY WorldTypes DEF WorldOK
<1>2. [v EXCEPT !.task[t] = a] = y
    BY <1>1, TaskRecord
<1>3. \A o \in StorageEntry : o.task # t => (o \in store <=> o \in v.store)
    OBVIOUS
<1> HIDE DEF e, store, stopped
<1>4. /\ Plain(v, y, t) /\ y.task[t] = a /\ y.attempt[t] = e /\ y.store = store
      /\ y.svc = v.svc /\ y.now = v.now
    BY <1>1, <1>3, RecordIsPlain
<1> HIDE DEF y
<1>5. y.store \subseteq v.store
    BY <1>4 DEF store
<1>6. WorldOK(y) /\ Only(v, y, {t})
    BY <1>4, <1>5, PlainWorld
<1>7. Replaces(v, y, t, a)
    BY <1>4, <1>6, Zenon DEF Replaces, e, store
<1> QED BY <1>2, <1>7, Zenon

\* r is s with the task t in its queue.
Enqueues(r, s, t) ==
    /\ r.running = s.running /\ r.available = s.available
    /\ r.hasCurrent = s.hasCurrent /\ r.current = s.current
    /\ r.owner = s.owner /\ r.runningRecovery = s.runningRecovery
    /\ \A i \in Task : i # t => Unmoved(r, s, i)

LEMMA SubmitTaskEnqueues ==
    ASSUME NEW s \in Service, NEW t, NEW work, NEW now,
           NEW r, r = SubmitTask(s, t, work, now)
    PROVE  Enqueues(r, s, t)
BY SubmitTaskUnmoved DEF Enqueues

\* z is u with the task t queued at its host, where s took its place.
Queues(u, z, t, s) ==
    /\ WorldOK(z) /\ Only(u, z, {t})
    /\ z.attempt[t] = u.attempt[t] /\ z.store = u.store
    /\ z.task[t].state = "QUEUED" /\ z.task[t].generation = 0
    /\ z.task[t].timer = u.task[t].timer
    /\ z.svc[HostNode[t]] = s /\ \A m \in Server \ {HostNode[t]} : z.svc[m] = u.svc[m]
    /\ s.hasCurrent = u.svc[HostNode[t]].hasCurrent /\ s.current = u.svc[HostNode[t]].current
    /\ s.owner = u.svc[HostNode[t]].owner

LEMMA QueuedSound ==
    ASSUME NEW u, Sound(u, {}, {}), NEW t \in Task, u.task[t].state = "INPUT_TRANSFERRING",
           NEW z, NEW s, Queues(u, z, t, s)
    PROVE  Sound(z, {}, {})
<1> DEFINE none == {}
           n == HostNode[t]
<1>1. /\ WorldOK(u) /\ u \in World
      /\ \A x \in Task : TaskOK(u, x) /\ Exposed(u, x, none, none)
    BY DEF Sound, WorldOK
<1>2. /\ Primary(u, t) /\ u.attempt[t] = NoAttempt
      /\ ~u.attempt[t].live /\ ~u.attempt[t].started
    BY <1>1, PrimaryState
<1>3. ~Stores(u, t)
    BY <1>2 DEF Primary, Stores
<1> HIDE DEF none, n
<1>4. /\ WorldOK(z) /\ Only(u, z, {t})
      /\ z.attempt[t] = u.attempt[t] /\ z.store = u.store
      /\ z.task[t].state = "QUEUED" /\ z.task[t].generation = 0
      /\ z.task[t].timer = u.task[t].timer
      /\ z.svc[n] = s /\ \A m \in Server \ {n} : z.svc[m] = u.svc[m]
      /\ s.hasCurrent = u.svc[n].hasCurrent /\ s.current = u.svc[n].current
      /\ s.owner = u.svc[n].owner
    BY Zenon DEF Queues, n
<1>5. z.attempt[t] = NoAttempt /\ ~z.attempt[t].live /\ ~z.attempt[t].started
    BY <1>2, <1>4
<1>6. Located(z, t)
    <2> SUFFICES ASSUME NEW m \in Server
                 PROVE  /\ t \in z.svc[m].known => m = n
                        /\ \A i \in z.svc[m].queue : i.task = t => m = n
                        /\ z.svc[m].owner # t /\ ~Runs(z.svc[m], t)
        BY <1>4, <1>5, Zenon DEF Located, n
    <2>1. /\ t \in u.svc[m].known => m = n
          /\ \A i \in u.svc[m].queue : i.task = t => m = n
          /\ u.svc[m].owner # t /\ ~Runs(u.svc[m], t)
        BY <1>1, <1>2 DEF TaskOK, Located, n
    <2>2. CASE m = n
        <3>1. z.svc[m].owner # t /\ ~Runs(z.svc[m], t)
            BY <1>4, <2>1, <2>2 DEF Runs
        <3> QED BY <2>2, <3>1
    <2>3. CASE m # n
        <3>1. z.svc[m] = u.svc[m]
            BY <1>4, <2>3
        <3> QED BY ONLY <2>1, <3>1
    <2> QED BY <2>2, <2>3
<1>7. TaskOK(z, t)
    <2>1. Timed(z, t)
        <3>1. ~u.task[t].timer
            BY <1>1 DEF TaskOK, Timed
        <3> QED BY <1>4, <3>1, Zenon DEF Timed
    <2>2. Primary(z, t)
        <3>1. \A o \in z.store : o.task # t
            BY <1>3, <1>4 DEF Stores
        <3> QED BY <1>4, <1>5, <3>1, Zenon DEF Primary
    <2>3. Joined(z, t)
        BY <1>5, Zenon DEF Joined
    <2>4. z.task[t].generation = 0 /\ z.task[t].generation # 1
        <3>1. 0 # 1
            OBVIOUS
        <3> QED BY <1>4, <3>1, Zenon
    <2> QED BY <1>6, <2>1, <2>2, <2>3, <2>4, Zenon DEF TaskOK
<1>8. Exposed(z, t, none, none)
    BY <1>4, <1>5, Zenon DEF Exposed
<1>9. Changes(u, z, t, none, none)
    BY <1>4, <1>7, <1>8, Zenon DEF Changes
<1> QED BY <1>1, <1>9, ChangesSound DEF none

\* The input of a task arrives, and it is queued at its host.
LEMMA ArrivalSound ==
    ASSUME NEW u, Sound(u, {}, {}), NEW t \in Task, u.task[t].state = "INPUT_TRANSFERRING",
           NEW v, v = Reslot(u, HostNode[t], SubmitTask(u.svc[HostNode[t]], t, WorkOf[t], u.now)),
           NEW z, z = [v EXCEPT !.task[t].state = "QUEUED"]
    PROVE  Sound(z, {}, {})
<1> DEFINE none == {}
           n == HostNode[t]
           s == u.svc[n]
           r == SubmitTask(s, t, WorkOf[t], u.now)
           a == [u.task[t] EXCEPT !.state = "QUEUED"]
           x == Reslot(u, n, r)
           y == [x EXCEPT !.task[t] = a]
<1>1. /\ WorldOK(u) /\ \A i \in Task : TaskOK(u, i) /\ Exposed(u, i, none, none)
      /\ u \in World /\ u.ok /\ u.task[t] \in TaskRuntime /\ u.now \in Time
      /\ u.task \in [Task -> TaskRuntime]
      /\ u.svc \in [Server -> Service]
    BY WorldTypes DEF Sound, WorldOK
<1>2. n \in Server /\ WorkOf[t] \in Work
    BY NodeAssumption, WorkAssumption
<1>3. Primary(u, t) /\ u.task[t].generation = 0
    BY <1>1, PrimaryState
<1>4. t \notin s.known
    BY <1>3 DEF Primary
<1>5. s \in Service /\ ServiceInv(s, u.now) /\ s.running
    <2>1. \A i \in Task : Located(u, i) /\ Exposed(u, i, none, none)
        BY <1>1 DEF TaskOK
    <2>2. ServiceInv(s, u.now)
        BY <1>1, <1>2, <2>1, Permitted DEF none
    <2> QED BY <1>1, <1>2, <2>2 DEF WorldOK, NodeOK
<1>6. r \in Service /\ ServiceInv(r, u.now)
    <2> HIDE DEF s, n
    <2> QED BY <1>1, <1>2, <1>4, <1>5, SubmitTaskKeeps
<1>7. Enqueues(r, s, t)
    <2> HIDE DEF s, n
    <2>1. s \in Service
        BY <1>5
    <2> HIDE DEF r
    <2>2. r = SubmitTask(s, t, WorkOf[t], u.now)
        BY DEF r
    <2> QED BY ONLY <2>1, <2>2, SubmitTaskEnqueues, Zenon
<1>8. a \in TaskRuntime /\ a.state = "QUEUED" /\ a.generation = 0 /\ a.timer = u.task[t].timer
    BY <1>1, <1>3 DEF TaskRuntime, Alive
<1>9. z = y
    <2>1. x.task = u.task /\ x = v
        BY <1>1 DEF Reslot, World
    <2> HIDE DEF x
    <2>2. z = [x EXCEPT !.task[t].state = "QUEUED"] /\ x.task = u.task
        BY <2>1
    <2> QED BY ONLY <2>2 DEF y, a
<1> HIDE DEF a, r, n, none, s, x, y
<1>10. ServiceCore(r, u.now) /\ DispatchArmed(r) /\ r.running /\ r.available = u.svc[n].available
    BY <1>5, <1>6, <1>7 DEF ServiceInv, Enqueues, s
<1>11. \A i \in Task \ {t} : Unmoved(r, u.svc[n], i)
    BY <1>7 DEF Enqueues, s
<1>12. /\ WorldOK(x) /\ Only(u, x, {t})
       /\ x.svc[n] = r /\ \A m \in Server \ {n} : x.svc[m] = u.svc[m]
       /\ x.attempt = u.attempt /\ x.store = u.store
    BY ONLY <1>1, <1>2, <1>6, <1>10, <1>11, ReslotWorld DEF x
<1>13. Replaces(x, y, t, a)
    <2>1. y = [x EXCEPT !.task[t] = a]
        BY DEF y
    <2> QED BY ONLY <1>8, <1>12, <2>1, TaskReplaced, t \in Task, Zenon
<1>14. Only(u, y, {t})
    BY ONLY <1>12, <1>13, OnlyTransitive DEF Replaces
<1>15. Queues(u, y, t, r)
    BY ONLY <1>7, <1>8, <1>12, <1>13, <1>14, Zenon DEF Queues, Replaces, Enqueues, s, n
<1> QED BY <1>9, <1>15, QueuedSound, Zenon

\* z is u with other records of t, and nothing else has changed.
Recorded(u, z, t, a, e, store) ==
    /\ WorldOK(z) /\ Only(u, z, {t})
    /\ z.task[t] = a /\ z.attempt[t] = e /\ z.store = store /\ z.svc = u.svc
    /\ z.now = u.now /\ z.deferred = u.deferred /\ z.dead = u.dead

LEMMA RecordKeeps ==
    ASSUME NEW u, WorldOK(u), NEW t \in Task, NEW a \in TaskRuntime, NEW e \in Attempt,
           NEW store, Stockpile(u, t, store), NEW stopped \in SUBSET Task,
           NEW z, z = Record(u, t, a, e, store, stopped)
    PROVE  Recorded(u, z, t, a, e, store)
<1>1. u \in World /\ \A n \in Server : NodeOK(u, n)
    BY DEF WorldOK
<1>2. /\ store \in SUBSET StorageEntry /\ IsFiniteSet(store)
      /\ \A n \in Server : Capacity[n] - Cardinality({o \in store : o.node = n}) >= 0
      /\ \A o \in StorageEntry : o.task # t => (o \in store <=> o \in u.store)
    BY DEF Stockpile
<1> DEFINE y == Record(u, t, a, e, store, stopped)
<1>3. /\ Plain(u, y, t) /\ y.task[t] = a /\ y.attempt[t] = e /\ y.store = store
      /\ y.svc = u.svc /\ y.now = u.now /\ y.deferred = u.deferred /\ y.dead = u.dead
    BY <1>1, <1>2, RecordIsPlain
<1> HIDE DEF y
<1>4. /\ Plain(u, z, t) /\ z.task[t] = a /\ z.attempt[t] = e /\ z.store = store
      /\ z.svc = u.svc /\ z.now = u.now /\ z.deferred = u.deferred /\ z.dead = u.dead
    BY <1>3 DEF y
<1>5. Only(u, z, {t})
    BY <1>4, PlainOnly
<1>6. WorldOK(z)
    <2>1. \A n \in Server : Free(z, n) >= 0
        BY <1>2, <1>4 DEF Free
    <2> QED BY <1>1, <1>2, <1>4, <2>1 DEF NodeOK, WorldOK, Plain
<1> QED BY <1>4, <1>5, <1>6 DEF Recorded

\* The result of an execution on its host arrives.
LEMMA ResultSound ==
    ASSUME NEW u, Sound(u, {}, {}), NEW t \in Task, u.task[t].generation = 0,
           u.task[t].state = "RESULT_TRANSFERRING",
           NEW z, z = [u EXCEPT !.task[t].state = "COMPLETED"]
    PROVE  Sound(z, {}, {})
<1> DEFINE none == {}
           a == [u.task[t] EXCEPT !.state = "COMPLETED"]
           e == u.attempt[t]
           store == u.store
<1> HIDE DEF none
<1>1. /\ WorldOK(u) /\ \A x \in Task : TaskOK(u, x) /\ Exposed(u, x, none, none)
      /\ u \in World /\ u.ok /\ u.task[t] \in TaskRuntime /\ e \in Attempt
      /\ u.task \in [Task -> TaskRuntime] /\ u.attempt \in [Task -> Attempt]
      /\ u.store \in SUBSET StorageEntry /\ u.stopped \in SUBSET Task
    BY WorldTypes DEF Sound, WorldOK, none
<1>2. /\ a \in TaskRuntime /\ a.state = "COMPLETED" /\ a.generation = 0
      /\ a.timer = u.task[t].timer
    BY <1>1 DEF TaskRuntime, TerminalState
<1>3. z = [u EXCEPT !.task[t] = a]
    BY <1>1 DEF World
<1> HIDE DEF a
<1>4. z = Record(u, t, a, e, store, u.stopped)
    BY <1>1, <1>3, TaskRecord
<1>5. Stockpile(u, t, store)
    BY <1>1, StockpileSame
<1> HIDE DEF e, store
<1>6. Recorded(u, z, t, a, e, store)
    BY <1>1, <1>2, <1>4, <1>5, RecordKeeps
<1>7. Primary(u, t) /\ Located(u, t) /\ Timed(u, t) /\ e = NoAttempt
    BY <1>1 DEF TaskOK, Primary, e
<1>8. NoAttempt.live = FALSE /\ NoAttempt.started = FALSE
    BY DEF NoAttempt
<1>9. TaskOK(z, t)
    <2>1. Located(z, t)
        BY <1>6, <1>7, <1>8 DEF Recorded, Located, e
    <2>2. Joined(z, t)
        BY <1>6, <1>7, <1>8 DEF Recorded, Joined
    <2>3. Timed(z, t)
        BY <1>2, <1>6, <1>7 DEF Recorded, Timed
    <2>4. Primary(z, t)
        BY <1>2, <1>6, <1>7 DEF Recorded, Primary, store
    <2>5. z.task[t].generation = 0
        BY <1>2, <1>6 DEF Recorded
    <2> QED BY <2>1, <2>2, <2>3, <2>4, <2>5 DEF TaskOK
<1>10. Exposed(z, t, none, none)
    BY <1>2, <1>6, <1>7, <1>8 DEF Recorded, Exposed
<1>11. Changes(u, z, t, none, none)
    BY <1>6, <1>9, <1>10 DEF Changes, Recorded
<1> QED BY <1>1, <1>11, ChangesSound DEF none

\* One object more fits where a unit is free.
LEMMA PoolTakes ==
    ASSUME NEW u, WorldOK(u), NEW t \in Task, NEW x \in StorageEntry, x.task = t,
           Free(u, x.node) >= 1
    PROVE  Stockpile(u, t, u.store \cup {x})
<1> DEFINE n == x.node
           store == u.store \cup {x}
<1>1. n \in Server /\ u.store \in SUBSET StorageEntry /\ IsFiniteSet(u.store)
    BY WorldTypes DEF StorageEntry, WorldOK
<1>2. store \in SUBSET StorageEntry /\ IsFiniteSet(store)
      /\ \A o \in StorageEntry : o.task # t => (o \in store <=> o \in u.store)
    BY <1>1, FS_AddElement
<1>3. ASSUME NEW m \in Server
      PROVE  Capacity[m] - Cardinality({o \in store : o.node = m}) >= 0
    <2> DEFINE a == {o \in u.store : o.node = m}
               b == {o \in store : o.node = m}
    <2>1. IsFiniteSet(a) /\ Cardinality(a) \in Nat /\ IsFiniteSet(b) /\ Cardinality(b) \in Nat
        BY <1>1, <1>2, FS_Subset, FS_CardinalityType
    <2>2. Free(u, m) = Capacity[m] - Cardinality(a) /\ Free(u, m) >= 0
        BY DEF Free, WorldOK, NodeOK
    <2>3. Capacity[m] \in Nat
        BY WorkAssumption
    <2>4. CASE m = n
        <3>1. b = a \cup {x}
            BY <2>4
        <3> HIDE DEF a, b
        <3>2. Cardinality(b) <= Cardinality(a) + 1
            BY <2>1, <3>1, FS_AddElement
        <3>3. Free(u, m) >= 1
            BY <2>4
        <3>4. Capacity[m] - Cardinality(b) >= 0
            BY <2>1, <2>2, <2>3, <3>2, <3>3
        <3> QED BY <3>4 DEF b
    <2>5. CASE m # n
        <3>1. b = a
            BY <2>5
        <3> HIDE DEF a
        <3>2. Capacity[m] - Cardinality(b) >= 0
            BY <2>2, <3>1
        <3> QED BY <3>2
    <2> QED BY <2>4, <2>5
<1> HIDE DEF store
<1>4. Stockpile(u, t, store)
    BY <1>2, <1>3 DEF Stockpile
<1> QED BY <1>4 DEF store

\* The checkpoint of a running task keeps one object more.
LEMMA CheckpointSound ==
    ASSUME NEW u, Sound(u, {}, {}), NEW t \in Task, u.task[t].state = "RUNNING",
           NEW x \in StorageEntry, x.task = t, Free(u, x.node) >= 1,
           x.kind = "RECORD" => u.now - u.svc[HostNode[t]].current.start >= LocalWork,
           NEW z, z = [u EXCEPT !.store = @ \cup {x}]
    PROVE  Sound(z, {}, {})
<1> DEFINE none == {}
           a == u.task[t]
           e == u.attempt[t]
           store == u.store \cup {x}
<1> HIDE DEF none
<1>1. /\ WorldOK(u) /\ \A y \in Task : TaskOK(u, y) /\ Exposed(u, y, none, none)
      /\ u \in World /\ u.ok /\ u.stopped \in SUBSET Task /\ a \in TaskRuntime /\ e \in Attempt
      /\ u.task \in [Task -> TaskRuntime] /\ u.attempt \in [Task -> Attempt]
    BY WorldTypes DEF Sound, WorldOK, none
<1>2. /\ u.task[t].generation = 0 /\ Primary(u, t) /\ e = NoAttempt
      /\ ~u.attempt[t].live /\ ~u.attempt[t].started
    BY <1>1, PrimaryState
<1>3. Stockpile(u, t, store)
    BY <1>1, PoolTakes
<1>4. z = [u EXCEPT !.store = store]
    BY DEF World
<1> HIDE DEF store
<1>5. z = Record(u, t, a, e, store, u.stopped)
    BY <1>1, <1>4, StoreRecord
<1> HIDE DEF e, a
<1>6. Recorded(u, z, t, a, e, store)
    BY <1>1, <1>3, <1>5, RecordKeeps
<1>7. TaskOK(z, t)
    <2>1. Located(z, t)
        BY <1>1, <1>6 DEF TaskOK, Recorded, Located, a, e
    <2>2. Joined(z, t)
        BY <1>2, <1>6 DEF Recorded, Joined, e
    <2>3. Timed(z, t)
        BY <1>1, <1>6 DEF TaskOK, Recorded, Timed, a
    <2>4. Primary(z, t)
        <3>1. \A o \in store : o \in u.store \/ o = x
            BY DEF store
        <3> QED BY <1>2, <1>6, <3>1 DEF Recorded, Primary, Occupies, a, e
    <2>5. z.task[t].generation = 0
        BY <1>2, <1>6 DEF Recorded, a
    <2> QED BY <2>1, <2>2, <2>3, <2>4, <2>5 DEF TaskOK
<1>8. Exposed(z, t, none, none)
    BY <1>1, <1>2, <1>6 DEF Recorded, Exposed, a, e
<1>9. Changes(u, z, t, none, none)
    BY <1>6, <1>7, <1>8 DEF Changes, Recorded
<1> QED BY <1>1, <1>9, ChangesSound DEF none

\* Who has a decision to make is deciding,
LEMMA DecidesDeciding ==
    ASSUME NEW u, WorldOK(u), NEW t \in Task, TaskOK(u, t), u.attempt[t].decide = u.now
    PROVE  Deciding(u, t)
<1>1. u.now \in Nat /\ u.now # NoTime /\ u.task[t] \in TaskRuntime
    BY WorldTypes DEF WorldOK, Time, NoTime
<1>2. NoAttempt.decide = NoTime
    BY DEF NoAttempt
<1>3. u.task[t].generation = 1 /\ Recovery(u, t)
    BY <1>1, <1>2 DEF TaskOK, Primary, TaskRuntime
<1> QED BY <1>1, <1>3 DEF Recovery, Waiting, Computing, Resulting, Past, Ended

\* and who has a merge to make waits for it.
LEMMA MergesWaiting ==
    ASSUME NEW u, WorldOK(u), NEW t \in Task, TaskOK(u, t), u.attempt[t].merge = u.now
    PROVE  /\ u.attempt[t].live /\ u.attempt[t].merge # NoTime
           /\ Waiting(u, t, {}) /\ Merging(u, t)
<1>1. u.now \in Nat /\ u.now # NoTime /\ u.task[t] \in TaskRuntime /\ u \in World
    BY WorldTypes DEF WorldOK, Time, NoTime
<1>2. NoAttempt.merge = NoTime
    BY DEF NoAttempt
<1>3. u.task[t].generation = 1 /\ Recovery(u, t)
    BY <1>1, <1>2 DEF TaskOK, Primary, TaskRuntime
<1>4. Deciding(u, t) => u.attempt[t].merge = NoTime
    BY <1>1, DecidingFields
<1>5. Waiting(u, t, {}) /\ Merging(u, t)
    BY <1>1, <1>3, <1>4 DEF Recovery, Computing, Resulting, Past, Ended
<1> QED BY <1>1, <1>5 DEF Waiting

LEMMA SoundChanges ==
    ASSUME NEW u, Sound(u, {}, {}), NEW t \in Task, NEW z,
           Changes(u, z, t, {}, {}) \/ Closes(u, z, t)
    PROVE  Sound(z, {}, {})
<1> DEFINE none == {}
<1> HIDE DEF none
<1>1. /\ WorldOK(u) /\ \A x \in Task \ {t} : TaskOK(u, x) /\ Exposed(u, x, none, none)
      /\ Changes(u, z, t, none, none) \/ Closes(u, z, t)
    BY DEF Sound, none
<1>2. Changes(u, z, t, none, none)
    BY <1>1, ClosesChanges
<1>3. Sound(z, none, none)
    BY <1>1, <1>2, ChangesSound
<1> QED BY <1>3 DEF none

\* Whatever happens to a task outside a fault batch leaves all in order.
LEMMA EventKeeps ==
    ASSUME Sound(w, {}, {}), NEW t \in Task, Event(t)
    PROVE  Sound(w', {}, {})
<1>1. /\ WorldOK(w) /\ TaskOK(w, t) /\ Exposed(w, t, {}, {}) /\ w \in World
      /\ w.attempt[t] \in Attempt
    BY WorldTypes DEF Sound, WorldOK
<1>2. CASE InputArrives(t)
    <2> DEFINE r == SubmitTask(w.svc[HostNode[t]], t, WorkOf[t], w.now)
               v == Reslot(w, HostNode[t], r)
    <2>1. w.task[t].state = "INPUT_TRANSFERRING" /\ w' = [v EXCEPT !.task[t].state = "QUEUED"]
        BY <1>1, <1>2 DEF InputArrives, Reslot, World
    <2>2. v = Reslot(w, HostNode[t], SubmitTask(w.svc[HostNode[t]], t, WorkOf[t], w.now))
        OBVIOUS
    <2> HIDE DEF v
    <2> QED BY <2>1, <2>2, ArrivalSound
<1>3. CASE DeadlinePasses(t)
    BY <1>3, DeadlineSound DEF DeadlinePasses
<1>4. CASE ResultArrives(t)
    BY <1>4, ResultSound DEF ResultArrives
<1>5. CASE Checkpoint(t)
    <2>1. PICK o \in {[node |-> RemoteNode[t], task |-> t, kind |-> "STATE", reserved |-> FALSE],
                      [node |-> LocalNode[t], task |-> t, kind |-> "RECORD", reserved |-> FALSE]} :
             /\ Free(w, o.node) > 0
             /\ o.kind = "RECORD" => w.now - w.svc[HostNode[t]].current.start >= LocalWork
             /\ w' = [w EXCEPT !.store = @ \cup {o}]
        BY <1>5 DEF Checkpoint
    <2>2. o \in StorageEntry /\ o.task = t
        <3>1. RemoteNode[t] \in Server /\ LocalNode[t] \in Server
            BY NodeAssumption
        <3>2. CASE o = [node |-> RemoteNode[t], task |-> t, kind |-> "STATE", reserved |-> FALSE]
            BY <3>1, <3>2 DEF StorageEntry
        <3>3. CASE o = [node |-> LocalNode[t], task |-> t, kind |-> "RECORD", reserved |-> FALSE]
            BY <3>1, <3>3 DEF StorageEntry
        <3> QED BY <3>2, <3>3
    <2>3. Free(w, o.node) >= 1
        <3>1. Free(w, o.node) \in Int
            BY <1>1, <2>2, FreeType DEF WorldOK, StorageEntry
        <3> QED BY <2>1, <3>1
    <2>4. w.task[t].state = "RUNNING"
        BY <1>5 DEF Checkpoint
    <2> QED BY <2>1, <2>2, <2>3, <2>4, CheckpointSound
<1>6. CASE Decide(t)
    <2> DEFINE v == [w EXCEPT !.attempt[t].decide = NoTime]
    <2>1. Deciding(w, t)
        BY <1>1, <1>6, DecidesDeciding DEF Decide
    <2>2. PICK cut \in Cuts :
             \/ w' = Fail(v, t)
             \/ /\ w.now < w.task[t].deadline /\ ~Down(w, ResultNode[t])
                /\ \E n \in Server : \E p \in Paths(w, n, t, cut) : w' = AcceptAndExecute(v, t, n, p, cut)
        BY <1>6 DEF Decide
    <2>3. CASE w' = Fail(v, t)
        <3>1. Closes(w, w', t)
            BY <1>1, <2>1, <2>3, RejectionCloses
        <3> QED BY <3>1, SoundChanges
    <2>4. CASE /\ w.now < w.task[t].deadline /\ ~Down(w, ResultNode[t])
               /\ \E n \in Server : \E p \in Paths(w, n, t, cut) : w' = AcceptAndExecute(v, t, n, p, cut)
        <3>1. PICK n \in Server : \E p \in Paths(w, n, t, cut) : w' = AcceptAndExecute(v, t, n, p, cut)
            BY <2>4
        <3>2. PICK p \in Paths(w, n, t, cut) : w' = AcceptAndExecute(v, t, n, p, cut)
            BY <3>1
        <3>3. Admitted(w, t, n, p)
            BY <1>1, <2>1, <2>4, <3>2, PathsAdmit
        <3> HIDE DEF v
        <3>4. v = [w EXCEPT !.attempt[t].decide = NoTime]
            BY DEF v
        <3>5. Changes(w, AcceptAndExecute(v, t, n, p, cut), t, {}, {})
            BY <1>1, <2>1, <3>3, <3>4, AcceptChanges
        <3>6. Changes(w, w', t, {}, {})
            BY <3>2, <3>5
        <3> QED BY <3>6, SoundChanges
    <2> QED BY <2>2, <2>3, <2>4
<1>7. CASE TailCommits(t)
    <2>1. /\ w.attempt[t].live /\ w.attempt[t].merge # NoTime
          /\ Waiting(w, t, {}) /\ Merging(w, t)
        BY <1>1, <1>7, MergesWaiting DEF TailCommits
    <2> DEFINE none == {}
    <2> HIDE DEF none
    <2>2. Active(w, t) /\ Timed(w, t)
        BY <1>1, <2>1, LiveRecovers
    <2>3. Waits(w, t, {}, none, none)
        BY <1>1, <2>1, <2>2 DEF Waits, none
    <2>4. Changes(w, w', t, none, none)
        BY <1>7, <2>1, <2>3, CommitTailChanges DEF TailCommits
    <2> QED BY <2>4, SoundChanges DEF none
<1>8. ASSUME NEW k \in Kind, LocalDelivery(t, k)
      PROVE  Sound(w', {}, {})
    <2>1. w.attempt[t].delivery[k].step = "local"
        BY <1>8 DEF LocalDelivery, Due
    <2>2. w.attempt[t].live
        BY <1>1, <2>1, PendingLives
    <2>3. ~Down(w, From(w, t, k))
        BY <1>1, <2>1, <2>2, PendingAlive DEF Pending
    <2>4. w' = Receive(w, t, k)
        BY <1>8, <2>3 DEF LocalDelivery
    <2>5. Changes(w, w', t, {}, {})
        BY <1>1, <2>1, <2>4, ReceiveChanges
    <2> QED BY <2>5, SoundChanges
<1>9. ASSUME NEW k \in Kind, FlushRequest(t, k)
      PROVE  Sound(w', {}, {})
    <2>1. w.attempt[t].delivery[k].step = "queued"
        BY <1>9 DEF FlushRequest, Due
    <2>2. CASE w' = Flush(w, t, k)
        <3>1. Changes(w, w', t, {}, {})
            BY <1>1, <2>1, <2>2, FlushChanges
        <3> QED BY <3>1, SoundChanges
    <2>3. CASE /\ w.attempt[t].live /\ Owns(w, t)
               /\ w' = Fail([w EXCEPT !.attempt[t].delivery[k] = Absent], t)
        <3>1. Closes(w, w', t)
            BY <1>1, <2>1, <2>3, RefusalCloses
        <3> QED BY <3>1, SoundChanges
    <2> QED BY <1>9, <2>2, <2>3 DEF FlushRequest
<1>10. ASSUME NEW k \in Kind, TransferTerminal(t, k)
       PROVE  Sound(w', {}, {})
    <2>1. Changes(w, w', t, {}, {})
        BY <1>1, <1>10, ReceiveChanges DEF TransferTerminal
    <2> QED BY <2>1, SoundChanges
<1> QED BY <1>2, <1>3, <1>4, <1>5, <1>6, <1>7, <1>8, <1>9, <1>10 DEF Event

\* Time passes when nothing of this instant is left to do.
LEMMA TickKeeps ==
    ASSUME Sound(w, {}, {}), Tick
    PROVE  Sound(w', {}, {})
<1> DEFINE none == {}
           later == w.now + 1
<1> HIDE DEF none
<1>1. /\ WorldOK(w) /\ \A x \in Task : TaskOK(w, x) /\ Exposed(w, x, none, none)
      /\ w \in World /\ w.now \in Nat /\ Quiet
      /\ w.task \in [Task -> TaskRuntime]
      /\ w.svc \in [Server -> Service]
    BY WorldTypes DEF Sound, WorldOK, none, Time, Tick
<1>2. later \in Time /\ later > w.now /\ later >= w.now
    BY <1>1 DEF Time
<1> HIDE DEF later
<1>3. w' = [w EXCEPT !.now = later]
    BY DEF Tick, later
<1>4. /\ w' \in World /\ w'.now = later /\ w'.ok = w.ok /\ w'.deferred = w.deferred
      /\ w'.svc = w.svc /\ w'.task = w.task /\ w'.attempt = w.attempt
      /\ w'.store = w.store /\ w'.dead = w.dead
    BY <1>1, <1>2, <1>3 DEF World
<1>5. ASSUME NEW n \in Server PROVE NodeOK(w', n)
    <2> DEFINE s == w.svc[n]
    <2>1. s \in Service /\ s.running /\ NodeOK(w, n)
        BY <1>1 DEF WorldOK, NodeOK
    <2>2. ServiceInv(s, w.now)
        <3>1. \A x \in Task : Located(w, x) /\ Exposed(w, x, none, none)
            BY <1>1 DEF TaskOK
        <3> QED BY <1>1, <3>1, Permitted DEF none
    <2>3. s.completion => later <= s.current.start + s.current.service
        <3> SUFFICES ASSUME s.completion
                     PROVE  later <= s.current.start + s.current.service
            OBVIOUS
        <3>1. s.hasCurrent /\ w.now <= s.current.start + s.current.service
            BY <2>2 DEF ServiceInv, ServiceCore, CompletionTimely
        <3>2. w.now - s.current.start # s.current.service
            BY <1>1, <3>1 DEF Quiet, CompletionDue
        <3>3. s.current \in Run /\ s.current # NoRun
            BY <2>1, <2>2, <3>1 DEF Service, ServiceInv, ServiceCore, CurrentSane
        <3>4. s.current.start \in Nat /\ s.current.service \in Nat
            BY <3>3 DEF Run, Time
        <3> QED BY <1>1, <3>1, <3>2, <3>4 DEF later
    <2> HIDE DEF s
    <2>4. ServiceInv(s, later)
        <3>1. w.now \in Time
            BY <1>1 DEF Time
        <3> QED BY <1>2, <2>1, <2>2, <2>3, <3>1, ClockKeeps
    <2>5. Free(w', n) = Free(w, n)
        BY <1>4 DEF Free
    <2> QED BY <1>4, <2>1, <2>4, <2>5 DEF NodeOK, ServiceInv, s
<1>6. WorldOK(w')
    BY <1>1, <1>4, <1>5 DEF WorldOK
<1>7. ASSUME NEW t \in Task PROVE TaskOK(w', t) /\ Exposed(w', t, none, none)
    <2>1. TaskOK(w, t) /\ Exposed(w, t, none, none)
        BY <1>1
    <2>2. Located(w', t) /\ Joined(w', t)
        BY <1>4, <2>1 DEF TaskOK, Located, Joined, InputReady, Wanted, Received
    <2>3. Timed(w', t)
        <3>1. w.task[t].timer => w.now <= w.task[t].deadline /\ w.task[t].deadline # w.now
            BY <1>1, <2>1 DEF TaskOK, Timed, Quiet
        <3>2. w.task[t].deadline \in Int
            BY <1>1 DEF TaskRuntime, Time, NoTime
        <3> QED BY <1>1, <1>4, <2>1, <3>1, <3>2 DEF TaskOK, Timed, later
    <2>4. w.task[t].generation = 0 => Primary(w', t)
        <3> SUFFICES ASSUME w.task[t].generation = 0 PROVE Primary(w', t)
            OBVIOUS
        <3> DEFINE n == HostNode[t]
        <3>1. Primary(w, t)
            BY <2>1 DEF TaskOK
        <3>2. n \in Server /\ LocalWork \in Nat
            BY NodeAssumption, WorkAssumption
        <3>3. w.svc[n].current.start \in Int
            <4>1. w.svc[n].current \in Run
                BY <1>1, <3>2 DEF Service
            <4> QED BY <4>1 DEF Run, NoRun, Time, NoTime
        <3>4. w.now - w.svc[n].current.start >= LocalWork => later - w.svc[n].current.start >= LocalWork
            BY <1>1, <1>2, <3>2, <3>3 DEF Time
        <3> HIDE DEF n
        <3> QED BY <1>4, <3>1, <3>4 DEF Primary, Occupies, n
    <2>5. w.task[t].generation = 1 => Recovery(w', t)
        <3>1. Deciding(w, t) => Deciding(w', t)
            BY <1>4 DEF Deciding
        <3>2. /\ \A n, kind : Held(w', n, t, kind) = Held(w, n, t, kind)
              /\ \A k : Received(w', t, k) <=> Received(w, t, k)
              /\ \A k : Wanted(w', t, k) <=> Wanted(w, t, k)
              /\ Stores(w', t) <=> Stores(w, t)
            BY <1>4 DEF Held, Received, Wanted, Stores
        <3>3. Stocked(w, t) <=> Stocked(w', t)
            BY <1>4, <3>2 DEF Stocked, Committed
        <3>4. Waiting(w, t, {}) => Waiting(w', t, {})
            BY <1>4, <3>2, <3>3 DEF Waiting
        <3>5. Merging(w, t) => Merging(w', t)
            BY <1>4, <3>2 DEF Merging, TailReady
        <3>6. (StateReady(w', t) <=> StateReady(w, t)) /\ (InputReady(w', t) <=> InputReady(w, t))
            BY <1>4, <3>2 DEF StateReady, InputReady
        <3>7. Past(w, t) => Past(w', t)
            BY <1>4, <3>2 DEF Past
        <3>8. Computing(w, t) => Computing(w', t)
            BY <1>4, <3>7 DEF Computing
        <3>9. Resulting(w, t) => Resulting(w', t)
            BY <1>4, <3>7 DEF Resulting
        <3>10. Ended(w, t) => Ended(w', t)
            BY <1>4, <3>2 DEF Ended, Terminal
        <3>11. Occupies(w, t, w.attempt[t].node, TRUE) => Occupies(w', t, w'.attempt[t].node, TRUE)
            BY <1>4 DEF Occupies
        <3> QED BY <2>1, <3>1, <3>4, <3>5, <3>6, <3>8, <3>9, <3>10, <3>11 DEF TaskOK, Recovery
    <2>6. Exposed(w', t, none, none)
        BY <1>4, <2>1 DEF Exposed, Needs, Received
    <2> QED BY <1>4, <2>2, <2>3, <2>4, <2>5, <2>6 DEF TaskOK
<1> QED BY <1>6, <1>7 DEF Sound, none

\* The events of the services leave all in order too.
LEMMA ServiceEventKeeps ==
    ASSUME Sound(w, {}, {}), NEW n \in Server, Dispatch(n) \/ Completes(n)
    PROVE  Sound(w', {}, {})
<1>1. CASE Dispatch(n)
    BY <1>1, DispatchSound DEF Dispatch
<1>2. CASE Completes(n)
    BY <1>2, CompletesSound DEF Completes
<1> QED BY <1>1, <1>2

-----------------------------------------------------------------------------
(* A fault of one task *)

\* Of the pools some objects of t have been given back.
Pared(u, t, store) == store \subseteq u.store /\ \A o \in u.store : o.task # t => o \in store

\* An update of the pools, and of who has stopped, is a record.
LEMMA HaltRecord ==
    ASSUME NEW u \in World, u.ok, NEW t \in Task, NEW store, NEW stopped,
           NEW z, z = [u EXCEPT !.store = store, !.stopped = stopped]
    PROVE  z = Record(u, t, u.task[t], u.attempt[t], store, stopped)
<1> DEFINE a == u.task[t]
           e == u.attempt[t]
           y == Record(u, t, a, e, store, stopped)
           task == [u.task EXCEPT ![t] = a]
           attempt == [u.attempt EXCEPT ![t] = e]
<1>1. u.attempt \in [Task -> Attempt] /\ u.task \in [Task -> TaskRuntime] /\ u.ok = TRUE
    BY WorldTypes
<1>2. task = u.task /\ attempt = u.attempt
    BY <1>1
<1>3. y = [u EXCEPT !.ok = TRUE, !.task = task, !.attempt = attempt,
                    !.store = store, !.stopped = stopped]
    BY DEF Record
<1> HIDE DEF task, attempt, y
<1>4. y = [u EXCEPT !.store = store, !.stopped = stopped]
    BY <1>1, <1>2, <1>3 DEF World
<1>5. y = Record(u, t, u.task[t], u.attempt[t], store, stopped)
    BY DEF y
<1> QED BY <1>4, <1>5

\* z is u with fewer objects of t.
LEMMA ParedRecorded ==
    ASSUME NEW u, WorldOK(u), NEW t \in Task, NEW store, Pared(u, t, store),
           NEW stopped \in SUBSET Task,
           NEW z, z = [u EXCEPT !.store = store, !.stopped = stopped]
    PROVE  Recorded(u, z, t, u.task[t], u.attempt[t], store)
<1> DEFINE a == u.task[t]
           e == u.attempt[t]
<1>1. u \in World /\ u.ok /\ a \in TaskRuntime /\ e \in Attempt
    BY WorldTypes DEF WorldOK
<1>2. z = Record(u, t, a, e, store, stopped)
    <2>1. u \in World /\ u.ok
        BY <1>1
    <2>2. z = Record(u, t, u.task[t], u.attempt[t], store, stopped)
        BY <2>1, HaltRecord
    <2> QED BY <2>2
<1>3. Stockpile(u, t, store)
    BY StockpileSame DEF Pared
<1> HIDE DEF a, e
<1>4. Recorded(u, z, t, a, e, store)
    BY <1>1, <1>2, <1>3, RecordKeeps
<1> QED BY <1>4 DEF a, e

\* What of t does not depend on its storage is as it was.
LEMMA ParedAlike ==
    ASSUME NEW u, NEW z, NEW t \in Task, NEW closed, NEW lost, NEW store,
           Recorded(u, z, t, u.task[t], u.attempt[t], store), store \subseteq u.store
    PROVE  /\ Located(u, t) => Located(z, t)
           /\ Joined(u, t) => Joined(z, t)
           /\ Timed(u, t) => Timed(z, t)
           /\ Primary(u, t) => Primary(z, t)
           /\ Active(u, t) => Active(z, t)
           /\ Exposed(u, t, closed, lost) => Exposed(z, t, closed, lost)
           /\ \A n : Needs(z, t, n) <=> Needs(u, t, n)
           /\ Stores(z, t) => Stores(u, t)
<1>1. /\ WorldOK(z) /\ SameSky(u, z)
      /\ z.task[t] = u.task[t] /\ z.attempt[t] = u.attempt[t] /\ z.store = store /\ z.svc = u.svc
      /\ z.now = u.now /\ z.deferred = u.deferred /\ z.dead = u.dead
    BY DEF Recorded, Only
<1>2. Located(u, t) => Located(z, t)
    BY <1>1 DEF Located
<1>3. Joined(u, t) => Joined(z, t)
    BY <1>1 DEF Joined, InputReady, Wanted, Received
<1>4. Timed(u, t) => Timed(z, t)
    BY <1>1 DEF Timed
<1>5. Primary(u, t) => Primary(z, t)
    BY <1>1 DEF Primary, Occupies
<1>6. Active(u, t) => Active(z, t)
    BY <1>1, <1>2, <1>3 DEF Active, Terminal
<1>7. \A n : Needs(z, t, n) <=> Needs(u, t, n)
    BY <1>1 DEF Needs, Received
<1>8. Exposed(u, t, closed, lost) => Exposed(z, t, closed, lost)
    BY <1>1, <1>7 DEF Exposed
<1>9. Stores(z, t) => Stores(u, t)
    BY <1>1 DEF Stores
<1> QED BY <1>2, <1>3, <1>4, <1>5, <1>6, <1>7, <1>8, <1>9

\* A primary execution goes on with fewer objects.
LEMMA PrimaryPared ==
    ASSUME NEW u, WorldOK(u), NEW t \in Task, TaskOK(u, t), u.task[t].generation = 0,
           NEW closed, NEW lost, Exposed(u, t, closed, lost), NEW store, Pared(u, t, store),
           NEW stopped \in SUBSET Task,
           NEW z, z = [u EXCEPT !.store = store, !.stopped = stopped]
    PROVE  Changes(u, z, t, closed, lost)
<1>1. Recorded(u, z, t, u.task[t], u.attempt[t], store)
    BY ParedRecorded
<1>2. /\ Located(z, t) /\ Joined(z, t) /\ Timed(z, t) /\ Primary(z, t)
      /\ Exposed(z, t, closed, lost)
    BY <1>1, ParedAlike DEF TaskOK, Pared
<1>3. z.task[t].generation = 0 /\ z.task[t].generation # 1
    <2>1. 0 # 1
        OBVIOUS
    <2> QED BY <1>1, <2>1 DEF Recorded
<1>4. TaskOK(z, t)
    BY <1>2, <1>3 DEF TaskOK
<1> QED BY <1>1, <1>2, <1>4 DEF Changes, Recorded

\* So does a recovery that is not at the node whose storage is lost.
LEMMA RecoveryPared ==
    ASSUME NEW u, WorldOK(u), NEW t \in Task, TaskOK(u, t), u.attempt[t].live,
           NEW closed, NEW lost, Exposed(u, t, closed, lost),
           NEW n, n # u.attempt[t].node, NEW z, z = ReleaseTask(u, t, {n})
    PROVE  Changes(u, z, t, closed, lost)
<1> DEFINE store == {o \in u.store : o.task # t \/ o.node \notin {n}}
           r == u.attempt[t]
<1>1. /\ u \in World /\ u.task[t].generation = 1 /\ Recovery(u, t) /\ Timed(u, t)
      /\ u.stopped \in SUBSET Task
    BY LiveRecovers, WorldTypes DEF WorldOK
<1>2. z = [u EXCEPT !.store = store, !.stopped = u.stopped]
    <2>1. z = [u EXCEPT !.store = store]
        BY DEF ReleaseTask
    <2> HIDE DEF store
    <2> QED BY <1>1, <2>1 DEF World
<1>3. Pared(u, t, store)
    BY DEF Pared
<1>4. \A o \in u.store : o.node = r.node => o \in store
    OBVIOUS
<1> HIDE DEF store
<1>5. Recorded(u, z, t, u.task[t], u.attempt[t], store)
    BY <1>1, <1>2, <1>3, ParedRecorded
<1>6. /\ z.task[t] = u.task[t] /\ z.attempt[t] = r /\ z.store = store /\ z.svc = u.svc
      /\ z.now = u.now /\ z.deferred = u.deferred /\ z.dead = u.dead /\ store \subseteq u.store
    BY <1>3, <1>5 DEF Recorded, Pared
<1>7. /\ Located(z, t) /\ Joined(z, t) /\ Timed(z, t) /\ Exposed(z, t, closed, lost)
      /\ Stores(z, t) => Stores(u, t)
    BY <1>5, <1>6, ParedAlike DEF TaskOK
<1>8. Recovery(z, t)
    <2>1. Deciding(u, t) => Deciding(z, t)
        BY <1>6 DEF Deciding
    <2>2. /\ \A k : Received(z, t, k) <=> Received(u, t, k)
          /\ \A k : Wanted(z, t, k) <=> Wanted(u, t, k)
        BY <1>6 DEF Received, Wanted
    <2>3. \A kind : Held(z, r.node, t, kind) = Held(u, r.node, t, kind)
        BY <1>4, <1>6 DEF Held
    <2>4. Stocked(u, t) => Stocked(z, t)
        BY <1>6, <2>2, <2>3 DEF Stocked, Committed
    <2>5. Waiting(u, t, {}) => Waiting(z, t, {})
        BY <1>6, <2>2, <2>4 DEF Waiting
    <2>6. Merging(u, t) => Merging(z, t)
        BY <1>6, <2>2 DEF Merging, TailReady
    <2>7. (StateReady(z, t) <=> StateReady(u, t)) /\ (InputReady(z, t) <=> InputReady(u, t))
        BY <1>6, <2>2 DEF StateReady, InputReady
    <2>8. Past(u, t) => Past(z, t)
        BY <1>6, <1>7 DEF Past
    <2>9. (Computing(u, t) => Computing(z, t)) /\ (Resulting(u, t) => Resulting(z, t))
        BY <1>6, <2>8 DEF Computing, Resulting
    <2>10. Ended(u, t) => Ended(z, t)
        BY <1>6, <1>7 DEF Ended, Terminal
    <2>11. Occupies(u, t, r.node, TRUE) => Occupies(z, t, z.attempt[t].node, TRUE)
        BY <1>6 DEF Occupies
    <2> QED BY <1>1, <2>1, <2>5, <2>6, <2>7, <2>9, <2>10, <2>11 DEF Recovery
<1>9. z.task[t].generation = 1 /\ z.task[t].generation # 0
    <2>1. 1 # 0
        OBVIOUS
    <2> QED BY <1>1, <1>6, <2>1
<1>10. TaskOK(z, t)
    BY <1>7, <1>8, <1>9 DEF TaskOK
<1> QED BY <1>5, <1>7, <1>10 DEF Changes, Recorded

\* Fewer outages to be told of is more to know.
LEMMA ExposedLess ==
    ASSUME NEW u, NEW t, NEW closed, NEW lost, NEW n, Exposed(u, t, closed, lost),
           NEW shut, shut = closed \ {n}, NEW gone, gone = lost \ {n},
           u.task[t].generation = 0 /\ u.task[t].state = "RUNNING" => HostNode[t] # n,
           u.attempt[t].live /\ u.attempt[t].node # NoNode => ~Needs(u, t, n)
    PROVE  Exposed(u, t, shut, gone)
BY DEF Exposed

\* A satellite that is lost ends the recovery that needs it, and takes the
\* storage from every other.
LEMMA SatelliteFaultChanges ==
    ASSUME NEW u, WorldOK(u), NEW t \in Task, TaskOK(u, t), u.attempt[t].live,
           NEW closed, NEW lost, Exposed(u, t, closed, lost), NEW n,
           NEW v, v = ReleaseTask(u, t, {n}),
           NEW z, z = IF Needs(u, t, n) THEN Fail(v, t) ELSE v,
           NEW shut, shut = closed \ {n}, NEW gone, gone = lost \ {n}
    PROVE  Changes(u, z, t, shut, gone)
<1>1. CASE Needs(u, t, n)
    <2> DEFINE store == {o \in u.store : o.task # t \/ o.node \notin {n}}
    <2>1. u \in World /\ u.stopped \in SUBSET Task /\ Active(u, t)
        BY LiveRecovers, WorldTypes DEF WorldOK
    <2>2. v = [u EXCEPT !.store = store, !.stopped = u.stopped]
        <3>1. v = [u EXCEPT !.store = store]
            BY DEF ReleaseTask
        <3> HIDE DEF store
        <3> QED BY <2>1, <3>1 DEF World
    <2>3. Pared(u, t, store)
        BY DEF Pared
    <2> HIDE DEF store
    <2>4. Recorded(u, v, t, u.task[t], u.attempt[t], store)
        BY <2>1, <2>2, <2>3, ParedRecorded
    <2>5. Active(v, t)
        BY <2>1, <2>3, <2>4, ParedAlike DEF Pared
    <2>6. Closes(v, z, t)
        BY <1>1, <2>5, ActiveFails
    <2>7. Closes(u, z, t)
        BY <2>4, <2>6, ClosesAfter DEF Recorded
    <2> QED BY <2>7, ClosesChanges
<1>2. CASE ~Needs(u, t, n)
    <2>1. z = ReleaseTask(u, t, {n}) /\ n # u.attempt[t].node
        BY <1>2 DEF Needs
    <2>2. u.task[t].generation = 1 /\ u.task[t].generation # 0
        <3>1. 1 # 0
            OBVIOUS
        <3> QED BY <3>1, LiveRecovers
    <2>3. Exposed(u, t, shut, gone)
        BY <1>2, <2>2, ExposedLess
    <2> QED BY <2>1, <2>3, RecoveryPared
<1> QED BY <1>1, <1>2

\* The checkpoint stops, and gives back what no recovery may use.
LEMMA QuiescePares ==
    ASSUME NEW u, WorldOK(u), NEW t \in Task, NEW q, q = QuiesceForRecovery(u, t)
    PROVE  \E store : /\ Pared(u, t, store)
                      /\ q = [u EXCEPT !.store = store, !.stopped = u.stopped \cup {t}]
<1> DEFINE kept == (IF HasBase(u, t) THEN Held(u, RemoteNode[t], t, "STATE") ELSE {})
                   \cup (IF HasTail(u, t) THEN Held(u, LocalNode[t], t, "RECORD") ELSE {})
           store == {o \in u.store : o.task = t => o \in kept}
<1>1. q = [u EXCEPT !.store = store, !.stopped = u.stopped \cup {t}]
    BY DEF QuiesceForRecovery
<1>2. Pared(u, t, store)
    <2> HIDE DEF kept
    <2> QED BY DEF Pared
<1> QED BY <1>1, <1>2

\* The attempt that BeginRecovery leaves behind.
Begun(u, t) ==
    [NoAttempt EXCEPT !.live = TRUE, !.decide = u.now + 1,
                      !.base = HasBase(u, t), !.tail = HasTail(u, t),
                      !.actual = u.now - u.svc[HostNode[t]].current.start]

IsBegun(u, t, e) ==
    /\ e \in Attempt /\ e.live /\ e.stage = "RUNNING" /\ e.node = NoNode /\ ~e.started
    /\ e = [NoAttempt EXCEPT !.live = TRUE, !.decide = e.decide, !.base = e.base,
                             !.tail = e.tail, !.actual = e.actual]
    /\ e.tail => e.actual >= LocalWork

LEMMA BegunFields ==
    ASSUME NEW u, WorldOK(u), NEW t \in Task, TaskOK(u, t),
           u.task[t].generation = 0, u.task[t].state = "RUNNING", NEW e, e = Begun(u, t)
    PROVE  IsBegun(u, t, e)
<1> DEFINE n == HostNode[t]
           s == u.svc[n]
           d == u.now + 1
           b == HasBase(u, t)
           h == HasTail(u, t)
           c == u.now - s.current.start
<1>1. u \in World /\ u.now \in Nat /\ n \in Server /\ s \in Service /\ NodeOK(u, n)
      /\ u.store \in SUBSET StorageEntry
    BY WorldTypes, NodeAssumption DEF WorldOK, Time
<1>2. Primary(u, t) /\ Occupies(u, t, n, FALSE)
    BY DEF TaskOK, Primary
<1>3. c \in Nat
    <2>1. s.hasCurrent /\ s.current \in Run /\ s.current # NoRun /\ s.current.start <= u.now
        BY <1>1, <1>2 DEF Occupies, Runs, NodeOK, ServiceCore, CurrentSane, Service
    <2>2. s.current.start \in Nat
        BY <2>1 DEF Run, Time
    <2> QED BY <1>1, <2>1, <2>2
<1>4. d \in Time /\ b \in BOOLEAN /\ h \in BOOLEAN
    BY <1>1 DEF Time, HasBase, HasTail, Committed
<1>5. h => c >= LocalWork
    <2> SUFFICES ASSUME h PROVE c >= LocalWork
        OBVIOUS
    <2>1. PICK o \in Held(u, LocalNode[t], t, "RECORD") : TRUE
        BY DEF HasTail, Committed
    <2>2. o \in u.store /\ o.task = t /\ o.node = LocalNode[t] /\ o.kind = "RECORD"
        BY <2>1 DEF Held
    <2> QED BY <1>2, <2>2 DEF Primary
<1>6. e = [NoAttempt EXCEPT !.live = TRUE, !.decide = d, !.base = b, !.tail = h, !.actual = c]
    BY DEF Begun
<1> HIDE DEF d, b, h, c
<1>7. /\ NoAttempt \in Attempt /\ NoAttempt.stage = "RUNNING" /\ NoAttempt.node = NoNode
      /\ NoAttempt.started = FALSE
    BY DEF NoAttempt, Attempt, Stage, Delivery, Absent
<1> DEFINE z == NoAttempt
<1> HIDE DEF z
<1>8. z \in Attempt /\ e = [z EXCEPT !.live = TRUE, !.decide = d, !.base = b, !.tail = h, !.actual = c]
    BY <1>6, <1>7 DEF z
<1>9. /\ e.live = TRUE /\ e.decide = d /\ e.base = b /\ e.tail = h /\ e.actual = c
      /\ e.stage = z.stage /\ e.node = z.node /\ e.started = z.started
    BY <1>8 DEF Attempt
<1>10. e \in Attempt
    BY <1>3, <1>4, <1>8 DEF Attempt
<1>11. /\ e.stage = "RUNNING" /\ e.node = NoNode /\ e.started = FALSE
    BY <1>7, <1>9 DEF z
<1> QED BY <1>5, <1>6, <1>9, <1>10, <1>11 DEF IsBegun

\* The host's slot is freed and t recovers.
Interrupted(u, v, z, t, a, e, stopped) ==
    \E store : Pared(u, t, store) /\ z = Record(v, t, a, e, store, stopped)

LEMMA InterruptIs ==
    ASSUME NEW u, WorldOK(u), NEW t \in Task, TaskOK(u, t),
           u.task[t].generation = 0, u.task[t].state = "RUNNING",
           NEW n, n = HostNode[t], NEW r, r = CancelRunningTaskForFailure(u.svc[n], t, u.now),
           NEW v, v = Reslot(u, n, r), NEW z, z = Interrupt(u, t)
    PROVE  Interrupted(u, v, z, t, [u.task[t] EXCEPT !.state = "RECOVERING", !.generation = 1],
                       Begun(u, t), u.stopped \cup {t})
<1> DEFINE a == [u.task[t] EXCEPT !.state = "RECOVERING", !.generation = 1]
           e == Begun(u, t)
           q == QuiesceForRecovery(u, t)
           stopped == u.stopped \cup {t}
<1>1. /\ u \in World /\ u.ok = TRUE /\ u.task \in [Task -> TaskRuntime]
      /\ u.svc \in [Server -> Service] /\ u.attempt \in [Task -> Attempt]
    BY WorldTypes DEF WorldOK
<1>2. Runs(u.svc[n], t) /\ Primary(u, t)
    BY DEF TaskOK, Primary, Occupies
<1>3. PICK store : Pared(u, t, store) /\ q = [u EXCEPT !.store = store, !.stopped = stopped]
    BY QuiescePares
<1> HIDE DEF q, stopped
<1>4. /\ q.ok = TRUE /\ q.svc = u.svc /\ q.task = u.task /\ q.attempt = u.attempt
      /\ q.now = u.now
    BY <1>1, <1>3 DEF World
<1>5. [q EXCEPT !.ok = TRUE] = q
    BY <1>1, <1>3, <1>4 DEF World
<1>6. Must(q, Runs(u.svc[n], t)) = q
    <2>1. Must(q, Runs(u.svc[n], t)) = [q EXCEPT !.ok = q.ok /\ Runs(u.svc[n], t)]
        BY DEF Must
    <2>2. (q.ok /\ Runs(u.svc[n], t)) = TRUE
        BY <1>2, <1>4
    <2> QED BY <1>5, <2>1, <2>2
<1>7. z = [Must(q, Runs(u.svc[n], t)) EXCEPT
             !.svc[n] = CancelRunningTaskForFailure(@, t, u.now),
             !.task[t].state = "RECOVERING", !.task[t].generation = 1, !.attempt[t] = e]
    BY DEF Interrupt, Begun, q
<1> HIDE DEF e
<1>8. z = [q EXCEPT !.svc[n] = CancelRunningTaskForFailure(@, t, u.now),
                    !.task[t].state = "RECOVERING", !.task[t].generation = 1, !.attempt[t] = e]
    BY <1>6, <1>7
<1> DEFINE svc == [u.svc EXCEPT ![n] = r]
           task == [u.task EXCEPT ![t] = a]
           attempt == [u.attempt EXCEPT ![t] = e]
<1>9. z = [q EXCEPT !.svc = svc, !.task = task, !.attempt = attempt]
    <2>1. [q.svc EXCEPT ![n] = CancelRunningTaskForFailure(q.svc[n], t, u.now)] = svc
        BY <1>4
    <2>2. [q.attempt EXCEPT ![t] = e] = attempt
        BY <1>4
    <2>3. [q EXCEPT !.task[t].state = "RECOVERING", !.task[t].generation = 1]
            = [q EXCEPT !.task = task]
        BY <1>1, <1>3, <1>4, ZenonT(60) DEF World
    <2>4. z = [q EXCEPT !.svc = svc, !.task[t].state = "RECOVERING", !.task[t].generation = 1,
                        !.attempt = attempt]
        BY <1>8, <1>1, <1>3, <1>4, <2>1, <2>2 DEF World
    <2> HIDE DEF svc, attempt, task, a
    <2> DEFINE p == [q EXCEPT !.task[t].state = "RECOVERING", !.task[t].generation = 1]
    <2>5. z = [p EXCEPT !.svc = svc, !.attempt = attempt]
        BY <1>1, <1>3, <1>4, <2>4, ZenonT(60) DEF World
    <2>6. p = [q EXCEPT !.task = task]
        BY <2>3
    <2> HIDE DEF p
    <2>7. [p EXCEPT !.svc = svc, !.attempt = attempt]
            = [q EXCEPT !.svc = svc, !.task = task, !.attempt = attempt]
        BY <1>1, <1>3, <2>6 DEF World
    <2> QED BY <2>5, <2>7
<1> HIDE DEF svc, task, attempt, a
<1>10. Record(v, t, a, e, store, stopped)
         = [v EXCEPT !.ok = TRUE, !.task = [v.task EXCEPT ![t] = a],
                     !.attempt = [v.attempt EXCEPT ![t] = e], !.store = store, !.stopped = stopped]
    BY DEF Record
<1>11. v = [u EXCEPT !.svc = svc]
    BY DEF Reslot, svc
<1>12. v.task = u.task /\ v.attempt = u.attempt
    BY <1>1, <1>11 DEF World
<1>13. Record(v, t, a, e, store, stopped)
         = [u EXCEPT !.svc = svc, !.ok = TRUE, !.task = task, !.attempt = attempt,
                     !.store = store, !.stopped = stopped]
    BY <1>1, <1>10, <1>11, <1>12 DEF World, task, attempt
<1>14. z = [u EXCEPT !.svc = svc, !.ok = TRUE, !.task = task, !.attempt = attempt,
                     !.store = store, !.stopped = stopped]
    BY <1>1, <1>3, <1>9 DEF World
<1>15. z = Record(v, t, a, e, store, stopped)
    BY <1>13, <1>14
<1>16. Interrupted(u, v, z, t, a, e, stopped)
    BY <1>3, <1>15 DEF Interrupted
<1> QED BY <1>16 DEF a, e, stopped

\* A primary execution that a fault interrupts becomes a recovery that will
\* decide.
LEMMA InterruptChanges ==
    ASSUME NEW u, WorldOK(u), NEW t \in Task, TaskOK(u, t),
           u.task[t].generation = 0, u.task[t].state = "RUNNING",
           NEW closed, NEW lost, NEW z, z = Interrupt(u, t)
    PROVE  Changes(u, z, t, closed, lost)
<1> DEFINE n == HostNode[t]
           s == u.svc[n]
           r == CancelRunningTaskForFailure(s, t, u.now)
           v == Reslot(u, n, r)
           a == [u.task[t] EXCEPT !.state = "RECOVERING", !.generation = 1]
           e == Begun(u, t)
           stopped == u.stopped \cup {t}
<1>1. /\ u \in World /\ n \in Server /\ s \in Service /\ u.now \in Time
      /\ u.svc \in [Server -> Service] /\ u.task[t] \in TaskRuntime
      /\ ServiceCore(s, u.now) /\ DispatchArmed(s) /\ s.running
      /\ u.store \in SUBSET StorageEntry /\ stopped \in SUBSET Task
    BY WorldTypes, NodeAssumption DEF WorldOK, NodeOK
<1>2. /\ Located(u, t) /\ Timed(u, t) /\ Primary(u, t) /\ u.attempt[t] = NoAttempt
      /\ Runs(s, t) /\ ~s.runningRecovery
    BY DEF TaskOK, Primary, Occupies
<1>3. PICK store : /\ Pared(u, t, store)
                   /\ z = Record(v, t, a, e, store, stopped)
    <2> HIDE DEF v, r, n
    <2>1. n = HostNode[t] /\ r = CancelRunningTaskForFailure(u.svc[n], t, u.now) /\ v = Reslot(u, n, r)
        BY DEF v, r, n
    <2>2. Interrupted(u, v, z, t, a, e, stopped)
        BY <2>1, InterruptIs
    <2> QED BY <2>2 DEF Interrupted
<1>4. r \in Service /\ ServiceCore(r, u.now) /\ DispatchArmed(r)
    <2> HIDE DEF s
    <2> QED BY <1>1, <1>2, CancelRunningKeeps DEF Runs, ServiceInv
<1>5. /\ r.running = s.running /\ r.available = s.available
      /\ ~Runs(r, t) /\ r.owner = s.owner /\ r.known = s.known /\ r.queue = s.queue
      /\ \A x \in Task : x # t => Unmoved(r, s, x)
    <2> HIDE DEF s
    <2> QED BY <1>1, CancelRunningUnmoved
<1>6. v = Reslot(u, n, r)
    OBVIOUS
<1> HIDE DEF v, r, n, s
<1>7. WorldOK(v) /\ Only(u, v, {t})
    <2>1. /\ r.running /\ r.available = u.svc[n].available
          /\ \A x \in Task \ {t} : Unmoved(r, u.svc[n], x)
        BY <1>1, <1>5 DEF s
    <2> QED BY <1>1, <1>4, <1>6, <2>1, ReslotWorld
<1>8. /\ v.svc = [u.svc EXCEPT ![n] = r] /\ v.store = u.store /\ v.now = u.now
    BY <1>1, <1>6 DEF Reslot, World
<1>9. /\ a \in TaskRuntime /\ a.state = "RECOVERING" /\ a.generation = 1
      /\ a.timer = u.task[t].timer /\ a.deadline = u.task[t].deadline
    BY <1>1 DEF TaskRuntime, Alive
<1>10. /\ e \in Attempt /\ e.live /\ e.stage = "RUNNING" /\ e.node = NoNode /\ ~e.started
       /\ e = [NoAttempt EXCEPT !.live = TRUE, !.decide = e.decide, !.base = e.base,
                                !.tail = e.tail, !.actual = e.actual]
       /\ e.tail => e.actual >= LocalWork
    <2>1. e = Begun(u, t)
        BY DEF e
    <2> HIDE DEF e
    <2> DEFINE b == e
    <2>2. IsBegun(u, t, b)
        <3> HIDE DEF b
        <3>1. b = Begun(u, t)
            BY <2>1 DEF b
        <3> QED BY <3>1, BegunFields
    <2> QED BY <2>2 DEF IsBegun
<1> HIDE DEF a, e, stopped
<1>11. Recorded(v, z, t, a, e, store)
    <2>1. Stockpile(v, t, store)
        BY <1>3, <1>7, <1>8, StockpileSame DEF Pared
    <2> QED BY <1>1, <1>3, <1>7, <1>9, <1>10, <2>1, RecordKeeps
<1>12. /\ z.task[t] = a /\ z.attempt[t] = e /\ z.svc = v.svc /\ z.now = u.now /\ WorldOK(z)
       /\ Only(u, z, {t})
    BY <1>7, <1>8, <1>11, OnlyTransitive DEF Recorded
<1>13. Located(z, t)
    <2> SUFFICES ASSUME NEW m \in Server
                 PROVE  /\ t \in z.svc[m].known => m = n
                        /\ \A i \in z.svc[m].queue : i.task # t
                        /\ z.svc[m].owner # t /\ ~Runs(z.svc[m], t)
        BY DEF Located, n
    <2>0. NoAttempt.live = FALSE /\ NoAttempt.started = FALSE
        BY DEF NoAttempt
    <2>1. /\ t \in u.svc[m].known => m = n
          /\ \A i \in u.svc[m].queue : i.task # t
          /\ u.svc[m].owner # t
          /\ Runs(u.svc[m], t) => m = n
        BY <1>2, <2>0 DEF Located, n
    <2>2. CASE m = n
        BY <1>1, <1>5, <1>8, <1>12, <2>1, <2>2 DEF s
    <2>3. CASE m # n
        BY <1>1, <1>8, <1>12, <2>1, <2>3
    <2> QED BY <2>2, <2>3
<1>14. Joined(z, t)
    BY <1>10, <1>12 DEF Joined
<1>15. Timed(z, t)
    <2>1. u.task[t].timer /\ u.now <= u.task[t].deadline
        BY <1>2 DEF Timed
    <2> QED BY <1>9, <1>12, <2>1 DEF Timed
<1>16. Deciding(z, t)
    <2>1. z.task[t].state = "RECOVERING"
        BY <1>9, <1>12
    <2> QED BY <1>10, <1>12, <2>1 DEF Deciding
<1>17. z.task[t].generation = 1 /\ z.task[t].generation # 0
    <2>1. 1 # 0
        OBVIOUS
    <2> QED BY <1>9, <1>12, <2>1
<1>18. TaskOK(z, t)
    BY <1>13, <1>14, <1>15, <1>16, <1>17 DEF TaskOK, Recovery
<1>19. Exposed(z, t, closed, lost)
    BY <1>10, <1>12, <1>17 DEF Exposed
<1> QED BY <1>12, <1>18, <1>19 DEF Changes

\* Told of an outage or a loss at n, t has it behind it.
LEMMA FaultChanges ==
    ASSUME NEW u, WorldOK(u), NEW t \in Task, TaskOK(u, t), ~Terminal(u, t),
           NEW closed, NEW lost, Exposed(u, t, closed, lost),
           NEW n, NEW kind, NEW z, z = Fault(u, t, n, kind),
           NEW shut, shut = closed \ {n},
           NEW gone, gone = IF kind = "satellite" THEN lost \ {n} ELSE lost
    PROVE  /\ Changes(u, z, t, shut, gone)
           /\ kind = "compute" /\ u.task[t].generation = 1 => z = u
<1>1. u \in World /\ u.task[t] \in TaskRuntime /\ "compute" # "satellite"
    BY WorldTypes DEF WorldOK
<1>2. CASE u.task[t].generation = 1
    <2>1. u.attempt[t].live
        BY <1>2 DEF TaskOK, Recovery, Deciding, Waiting, Computing, Resulting, Past, Ended
    <2>2. u.task[t].generation # 0
        BY <1>2
    <2>3. CASE kind = "compute"
        <3>1. z = u
            BY <1>2, <2>3 DEF Fault
        <3>2. gone = lost
            BY <1>1, <2>3
        <3>3. Exposed(u, t, shut, gone)
            BY <2>2, <3>2 DEF Exposed
        <3> QED BY <3>1, <3>3, StaysSound
    <2>4. CASE kind # "compute"
        <3>1. z = LET v == ReleaseTask(u, t, {n}) IN IF Needs(u, t, n) THEN Fail(v, t) ELSE v
            BY <1>2, <2>1, <2>4 DEF Fault
        <3> DEFINE v == ReleaseTask(u, t, {n})
        <3>2. z = IF Needs(u, t, n) THEN Fail(v, t) ELSE v
            BY <3>1
        <3>3. v = ReleaseTask(u, t, {n})
            OBVIOUS
        <3> HIDE DEF v
        <3> DEFINE less == lost \ {n}
        <3> HIDE DEF less
        <3>4. less = lost \ {n}
            BY DEF less
        <3>5. Changes(u, z, t, shut, less)
            BY <2>1, <3>2, <3>3, <3>4, SatelliteFaultChanges
        <3>6. Exposed(z, t, shut, gone)
            BY <3>4, <3>5 DEF Changes, Exposed
        <3> QED BY <2>4, <3>5, <3>6 DEF Changes
    <2> QED BY <2>3, <2>4, SMTT(30)
<1>3. CASE u.task[t].generation = 0
    <2>1. u.task[t].generation # 1 /\ Primary(u, t)
        BY <1>3 DEF TaskOK
    <2>2. NoAttempt.live = FALSE
        BY DEF NoAttempt
    <2>3. ~u.attempt[t].live
        BY <2>1, <2>2 DEF Primary
    <2>4. CASE u.task[t].state # "RUNNING"
        <3>1. z = u
            BY <2>1, <2>4 DEF Fault
        <3>2. Exposed(u, t, shut, gone)
            BY <2>3, <2>4 DEF Exposed
        <3> QED BY <2>1, <3>1, <3>2, StaysSound
    <2>5. CASE u.task[t].state = "RUNNING" /\ n = HostNode[t]
        <3>1. z = Interrupt(u, t)
            BY <2>1, <2>5 DEF Fault
        <3> QED BY <1>3, <2>1, <2>5, <3>1, InterruptChanges
    <2>6. CASE u.task[t].state = "RUNNING" /\ n # HostNode[t]
        <3>1. Exposed(u, t, shut, gone)
            BY <2>3, <2>6 DEF Exposed
        <3>2. CASE /\ kind = "satellite" /\ n \in {LocalNode[t], RemoteNode[t]}
                   /\ \E o \in u.store : o.task = t
            <4> DEFINE q == QuiesceForRecovery(u, t)
            <4>1. z = ReleaseTask(q, t, {n})
                BY <2>1, <2>6, <3>2 DEF Fault
            <4>2. PICK kept : /\ Pared(u, t, kept)
                              /\ q = [u EXCEPT !.store = kept, !.stopped = u.stopped \cup {t}]
                BY QuiescePares
            <4> HIDE DEF q
            <4> DEFINE stopped == u.stopped \cup {t}
                       store == {o \in kept : o.task # t \/ o.node \notin {n}}
            <4>3. z = [q EXCEPT !.store = {o \in q.store : o.task # t \/ o.node \notin {n}}]
                BY <4>1 DEF ReleaseTask
            <4> HIDE DEF stopped
            <4>4. q = [u EXCEPT !.store = kept, !.stopped = stopped]
                BY <4>2 DEF stopped
            <4>5. q.store = kept
                BY <1>1, <4>4 DEF World
            <4>6. z = [q EXCEPT !.store = store]
                BY <4>3, <4>5
            <4>7. Pared(u, t, store)
                BY <4>2 DEF Pared
            <4> HIDE DEF store
            <4>8. z = [u EXCEPT !.store = store, !.stopped = stopped]
                BY <1>1, <4>4, <4>6 DEF World
            <4>9. stopped \in SUBSET Task
                BY <1>1, WorldTypes DEF stopped
            <4>10. Changes(u, z, t, shut, gone)
                BY <1>3, <3>1, <4>7, <4>8, <4>9, PrimaryPared
            <4> QED BY <2>1, <4>10
        <3>3. CASE ~(/\ kind = "satellite" /\ n \in {LocalNode[t], RemoteNode[t]}
                     /\ \E o \in u.store : o.task = t)
            <4>1. z = u
                BY <2>1, <2>6, <3>3 DEF Fault
            <4> QED BY <2>1, <3>1, <4>1, StaysSound
        <3> QED BY <3>2, <3>3
    <2> QED BY <2>4, <2>5, <2>6
<1> QED BY <1>1, <1>2, <1>3 DEF TaskRuntime

-----------------------------------------------------------------------------
(* Steps of a fault batch *)

\* u with other services and other lost satellites, in which no task has moved.
Resky(u, svc, dead) == [u EXCEPT !.dead = dead, !.svc = svc]

Unmoving(u, svc) ==
    \A n \in Server : /\ svc[n].running /\ ServiceCore(svc[n], u.now) /\ DispatchArmed(svc[n])
                      /\ \A x \in Task : Unmoved(svc[n], u.svc[n], x)

Reskied(u, z, svc, dead) ==
    /\ WorldOK(z) /\ z.svc = svc /\ z.dead = dead
    /\ \A x \in Task : /\ Beside(u, z, x) /\ z.task[x] = u.task[x] /\ z.attempt[x] = u.attempt[x]
                       /\ \A n : Needs(z, x, n) <=> Needs(u, x, n)

LEMMA ReskyKeeps ==
    ASSUME NEW u, WorldOK(u), NEW svc \in [Server -> Service], NEW dead \in SUBSET Sat,
           Unmoving(u, svc), NEW z, z = Resky(u, svc, dead)
    PROVE  Reskied(u, z, svc, dead)
<1>1. u \in World /\ u.ok /\ IsFiniteSet(u.store) /\ \A n \in Server : NodeOK(u, n)
    BY DEF WorldOK
<1>2. z = [u EXCEPT !.dead = dead, !.svc = svc]
    BY DEF Resky
<1>3. /\ z \in World /\ z.svc = svc /\ z.dead = dead /\ z.ok = u.ok /\ z.now = u.now
      /\ z.deferred = u.deferred /\ z.attempt = u.attempt /\ z.task = u.task /\ z.store = u.store
    BY <1>1, <1>2 DEF World
<1>4. ASSUME NEW n \in Server PROVE NodeOK(z, n)
    <2>1. Free(z, n) = Free(u, n)
        BY <1>3 DEF Free
    <2> QED BY <1>1, <1>3, <2>1 DEF NodeOK, Unmoving
<1>5. WorldOK(z)
    BY <1>1, <1>3, <1>4 DEF WorldOK
<1>6. \A x \in Task : Beside(u, z, x)
    BY <1>3 DEF Beside, Unmoving
<1>7. \A x \in Task : \A n : Needs(z, x, n) <=> Needs(u, x, n)
    BY <1>3 DEF Needs, Received
<1> QED BY <1>3, <1>5, <1>6, <1>7 DEF Reskied

\* Where outages end, everything goes on.
LEMMA ReopenSound ==
    ASSUME NEW u, Sound(u, {}, {}), NEW recovered, NEW z, z = Reopen(u, recovered)
    PROVE  Sound(z, {}, {}) /\ z.dead = u.dead /\ \A x \in Task : Beside(u, z, x)
<1> DEFINE none == {}
           yes == TRUE
           svc == [n \in Server |-> IF n \in recovered THEN SetComputeAvailable(u.svc[n], TRUE)
                                    ELSE u.svc[n]]
<1>1. /\ WorldOK(u) /\ \A x \in Task : TaskOK(u, x) /\ Exposed(u, x, none, none)
      /\ u \in World /\ u.svc \in [Server -> Service] /\ u.dead \in SUBSET Sat
      /\ \A n \in Server : NodeOK(u, n) /\ n \notin none
    BY WorldTypes DEF Sound, WorldOK
<1> HIDE DEF none
<1>2. ASSUME NEW n \in Server
      PROVE  /\ svc[n] \in Service /\ svc[n].running /\ ServiceCore(svc[n], u.now)
             /\ DispatchArmed(svc[n])
             /\ u.svc[n].available => svc[n].available
             /\ \A x \in Task : Unmoved(svc[n], u.svc[n], x)
    <2> DEFINE s == u.svc[n]
               r == SetComputeAvailable(s, TRUE)
    <2>1. s \in Service /\ ServiceCore(s, u.now) /\ DispatchArmed(s) /\ s.running /\ u.now \in Time
        BY <1>1, WorldTypes DEF NodeOK
    <2>2. ServiceInv(s, u.now)
        BY <1>1, Permitted DEF TaskOK
    <2>3. CASE n \in recovered
        <3>1. svc[n] = r
            BY <2>3
        <3>2. r \in Service /\ ServiceInv(r, u.now)
            BY <2>1, <2>2, OpenKeeps
        <3>3. r.running = s.running /\ r.available /\ \A x \in Task : Unmoved(r, s, x)
            <4>1. yes \in BOOLEAN
                OBVIOUS
            <4>2. r.running = s.running /\ r.available = TRUE /\ \A x \in Task : Unmoved(r, s, x)
                BY <2>1, <4>1, SetComputeAvailableUnmoved
            <4> HIDE DEF r
            <4> QED BY <4>2
        <3> HIDE DEF r, svc
        <3> QED BY <2>1, <3>1, <3>2, <3>3 DEF ServiceInv
    <2>4. CASE n \notin recovered
        <3>1. svc[n] = s
            BY <2>4
        <3> QED BY <2>1, <3>1, UnmovedReflexive
    <2> QED BY <2>3, <2>4
<1>3. svc \in [Server -> Service]
    BY <1>2
<1>4. z = Resky(u, svc, u.dead)
    BY <1>1 DEF Reopen, Resky, World
<1> HIDE DEF svc
<1>5. Reskied(u, z, svc, u.dead)
    <2>1. Unmoving(u, svc)
        BY <1>2 DEF Unmoving
    <2> QED BY <1>1, <1>3, <1>4, <2>1, ReskyKeeps
<1>6. ASSUME NEW x \in Task PROVE TaskOK(z, x) /\ Exposed(z, x, none, none)
    <2>1. TaskOK(z, x)
        BY <1>1, <1>5, BesideKeeps DEF WorldOK, Reskied
    <2>2. HostNode[x] \in Server
        BY NodeAssumption
    <2>3. Exposed(z, x, none, none)
        BY <1>1, <1>2, <1>5, <2>2 DEF Exposed, Reskied
    <2> QED BY <2>1, <2>3
<1> QED BY <1>5, <1>6 DEF Sound, none, Reskied

\* Nothing of a recovery changes, unless its completion is due.
DueAt(u, x) == \E m \in Server : Runs(u.svc[m], x) /\ CanCompleteIfDue(u.svc[m], x, u.now)

Spares(u, v, x) == Beside(u, v, x) \/ DueAt(u, x)

\* One change starts: its node goes down, and its satellite is lost with it.
Starts(u, v, n, kind) == v.dead = IF kind = "satellite" THEN u.dead \cup {n} ELSE u.dead

\* It is one of this batch.
Part(n, kind, closed, lost) == n \in closed /\ (kind = "satellite" => n \in lost)

\* A node goes down, and who was due at it has completed.  `closed' and `lost'
\* are all of the batch, of which no task has been told.
LEMMA TakeDownSound ==
    ASSUME NEW u, NEW closed, NEW lost, Sound(u, closed, lost),
           NEW n \in Sat, NEW kind, Part(n, kind, closed, lost), NEW cut,
           NEW z, z = TakeDown(u, n, kind, cut)
    PROVE  /\ Sound(z, closed, lost) /\ Starts(u, z, n, kind)
           /\ \A x \in Task : u.task[x].generation = 1 => Spares(u, z, x)
<1> DEFINE t == u.svc[n].current.task
           due == n \in Server /\ u.svc[n].hasCurrent /\ CanCompleteIfDue(u.svc[n], t, u.now)
           c == IF due THEN Complete(u, n, TRUE, cut) ELSE u
           dead == IF kind = "satellite" THEN c.dead \cup {n} ELSE c.dead
           svc == [m \in Server |-> IF m = n THEN SetComputeAvailable(c.svc[m], FALSE) ELSE c.svc[m]]
<1>1. /\ WorldOK(u) /\ \A x \in Task : TaskOK(u, x) /\ Exposed(u, x, closed, lost)
      /\ u \in World
    BY DEF Sound, WorldOK
<1>2. z = [c EXCEPT !.dead = dead, !.svc = svc]
    BY DEF TakeDown
<1>3. /\ Sound(c, closed, lost) /\ SameSky(u, c)
      /\ \A x \in Task : u.task[x].generation = 1 => Beside(u, c, x) \/ (due /\ x = t)
    <2>1. CASE due
        <3> DEFINE yes == TRUE
        <3>1. /\ n \in Server /\ CompletionLegal(u.svc[n], u.now) /\ yes \in BOOLEAN
              /\ c = Complete(u, n, yes, cut)
            BY <2>1 DEF CanCompleteIfDue
        <3>2. t \in Task
            <4>1. u.svc[n].hasCurrent /\ ServiceCore(u.svc[n], u.now) /\ u.svc[n] \in Service
                BY <1>1, <2>1, WorldTypes DEF WorldOK, NodeOK
            <4> QED BY <4>1 DEF ServiceCore, CurrentSane, Service, Run
        <3> HIDE DEF c, yes
        <3> DEFINE y == t
        <3>3. y \in Task /\ y = u.svc[n].current.task
            BY <3>2
        <3> HIDE DEF y
        <3>4. Finishing(u, n, y)
            BY <1>1, <3>1, <3>3, RunsFinishing
        <3>5. Finished(u, c, y, closed, lost)
            <4>1. \A x \in Task \ {y} : TaskOK(u, x) /\ Exposed(u, x, closed, lost)
                BY <1>1
            <4>2. Exposed(u, y, closed, lost)
                BY <1>1, <3>3
            <4> QED BY <1>1, <3>1, <3>4, <4>1, <4>2, CompleteFinishes
        <3> QED BY <2>1, <3>3, <3>5 DEF Finished, y
    <2>2. CASE ~due
        <3>1. c = u
            BY <2>2
        <3> HIDE DEF c
        <3> QED BY <3>1, BesideReflexive DEF SameSky
    <2> QED BY <2>1, <2>2
<1>4. dead = IF kind = "satellite" THEN u.dead \cup {n} ELSE u.dead
    BY <1>3 DEF SameSky
<1> HIDE DEF c, due, t
<1>5. /\ WorldOK(c) /\ c \in World /\ c.svc \in [Server -> Service] /\ c.dead \in SUBSET Sat
      /\ \A m \in Server : NodeOK(c, m)
      /\ \A x \in Task : TaskOK(c, x) /\ Exposed(c, x, closed, lost)
    BY <1>3, WorldTypes DEF Sound, WorldOK
<1>6. ASSUME NEW m \in Server
      PROVE  /\ svc[m] \in Service /\ svc[m].running /\ ServiceCore(svc[m], c.now)
             /\ DispatchArmed(svc[m])
             /\ c.svc[m].available => svc[m].available \/ m = n
             /\ \A x \in Task : Unmoved(svc[m], c.svc[m], x)
    <2> DEFINE s == c.svc[m]
               r == SetComputeAvailable(s, FALSE)
    <2>1. s \in Service /\ ServiceCore(s, c.now) /\ DispatchArmed(s) /\ s.running /\ c.now \in Time
        BY <1>5, WorldTypes DEF NodeOK
    <2>2. CASE m = n
        <3>1. svc[m] = r
            BY <2>2
        <3>2. r \in Service /\ ServiceCore(r, c.now) /\ DispatchArmed(r)
            BY <2>1, CloseKeeps
        <3>3. r.running = s.running /\ \A x \in Task : Unmoved(r, s, x)
            <4>1. FALSE \in BOOLEAN
                OBVIOUS
            <4>2. r.running = s.running /\ r.available = FALSE /\ \A x \in Task : Unmoved(r, s, x)
                BY <2>1, <4>1, SetComputeAvailableUnmoved
            <4> HIDE DEF r
            <4> QED BY <4>2
        <3> HIDE DEF r, svc
        <3> QED BY <2>1, <2>2, <3>1, <3>2, <3>3
    <2>3. CASE m # n
        <3>1. svc[m] = s
            BY <2>3
        <3> QED BY <2>1, <3>1, UnmovedReflexive
    <2> QED BY <2>2, <2>3
<1>7. svc \in [Server -> Service] /\ dead \in SUBSET Sat
    BY <1>5, <1>6
<1>8. z = Resky(c, svc, dead)
    BY <1>2 DEF Resky
<1> HIDE DEF svc, dead
<1>9. Reskied(c, z, svc, dead)
    <2>1. Unmoving(c, svc)
        BY <1>6 DEF Unmoving
    <2> QED BY <1>5, <1>7, <1>8, <2>1, ReskyKeeps
<1>10. ASSUME NEW x \in Task PROVE TaskOK(z, x) /\ Exposed(z, x, closed, lost)
    <2>1. TaskOK(z, x)
        BY <1>5, <1>9, BesideKeeps DEF WorldOK, Reskied
    <2>2. HostNode[x] \in Server
        BY NodeAssumption
    <2>3. \A m \in dead : m \in c.dead \/ m \in lost
        BY <1>3, <1>4 DEF SameSky, Part
    <2>4. Exposed(z, x, closed, lost)
        BY <1>5, <1>6, <1>9, <2>2, <2>3 DEF Exposed, Reskied, Part
    <2> QED BY <2>1, <2>4
<1>11. Sound(z, closed, lost)
    BY <1>9, <1>10 DEF Sound, Reskied
<1>12. ASSUME NEW x \in Task, u.task[x].generation = 1
       PROVE  Spares(u, z, x)
    <2>1. Beside(u, c, x) \/ (due /\ x = t)
        BY <1>3, <1>12
    <2>2. CASE Beside(u, c, x)
        BY <1>9, <2>2, BesideTransitive DEF Reskied, Spares
    <2>3. CASE due /\ x = t
        BY <2>3 DEF due, t, Spares, DueAt, Runs
    <2> QED BY <2>1, <2>2, <2>3
<1>13. Starts(u, z, n, kind)
    BY <1>4, <1>9 DEF Reskied, Starts
<1> QED BY <1>11, <1>12, <1>13

\* A task that no recovery owns fails.
LEMMA StrandedFails ==
    ASSUME NEW u, Sound(u, {}, {}), NEW t \in Task, u.task[t].generation = 0, ~Terminal(u, t),
           NEW z, z = FailTaskForSatelliteNode(u, t)
    PROVE  Changes(u, z, t, {}, {}) /\ Terminal(z, t)
<1> DEFINE none == {}
           n == HostNode[t]
           s == u.svc[n]
           q == CancelRunningTaskForFailure(s, t, u.now)
           r == RemoveQueuedTaskForFailure(q, t)
           state == "FAILED"
<1>1. /\ WorldOK(u) /\ \A x \in Task : TaskOK(u, x) /\ Exposed(u, x, none, none)
      /\ u \in World /\ u.svc \in [Server -> Service] /\ n \in Server /\ n \notin none
      /\ u.task[t] \in TaskRuntime
    BY WorldTypes, NodeAssumption DEF Sound, WorldOK
<1>2. Located(u, t) /\ Primary(u, t) /\ u.attempt[t] = NoAttempt
    BY <1>1 DEF TaskOK, Primary
<1>3. NoAttempt.live = FALSE
    BY DEF NoAttempt
<1>4. /\ s \in Service /\ ServiceCore(s, u.now) /\ DispatchArmed(s) /\ s.running /\ u.now \in Time
    BY <1>1, WorldTypes DEF NodeOK, WorldOK
<1> HIDE DEF none
<1>5. ServiceInv(s, u.now)
    BY <1>1, Permitted DEF TaskOK
<1>6. Runs(s, t) => ~s.runningRecovery
    BY <1>1, <1>2, <1>3 DEF Located
<1>7. q \in Service /\ ServiceInv(q, u.now)
    BY <1>4, <1>5, <1>6, CancelRunningKeeps DEF ServiceInv, Runs
<1>8. /\ q.running = s.running /\ q.available = s.available
      /\ ~Runs(q, t) /\ q.owner = s.owner /\ q.known = s.known /\ q.queue = s.queue
      /\ \A x \in Task : x # t => Unmoved(q, s, x)
    BY <1>4, CancelRunningUnmoved
<1>9. z = Left(Reslot(u, n, r), t, state)
    <2>1. [u EXCEPT !.svc[n] = RemoveQueuedTaskForFailure(CancelRunningTaskForFailure(@, t, u.now), t),
                    !.task[t].state = "FAILED", !.task[t].timer = FALSE,
                    !.stopped = @ \cup {t}]
            = [Reslot(u, n, r) EXCEPT !.task[t].state = "FAILED", !.task[t].timer = FALSE,
                                      !.stopped = @ \cup {t}]
        BY <1>1 DEF Reslot, World
    <2> QED BY <2>1 DEF FailTaskForSatelliteNode, Left
<1> HIDE DEF s, q
<1>10. r \in Service /\ ServiceInv(r, u.now) /\ r.queue \subseteq q.queue
    BY <1>4, <1>7, RemoveQueuedKeeps
<1>11. /\ r.running = q.running /\ r.available = q.available
       /\ r.owner = q.owner /\ r.known = q.known
       /\ r.hasCurrent = q.hasCurrent /\ r.current = q.current
       /\ \A i \in r.queue : i.task # t
       /\ \A x \in Task : x # t => Unmoved(r, q, x)
    BY <1>7, RemoveQueuedUnmoved
<1> HIDE DEF r
<1>12. Unhosts(u, n, r, t)
    <2>1. \A x \in Task \ {t} : Unmoved(r, s, x)
        BY <1>8, <1>11, UnmovedTransitive
    <2>2. ~Runs(r, t)
        BY <1>8, <1>11 DEF Runs
    <2> QED BY <1>4, <1>8, <1>10, <1>11, <2>1, <2>2 DEF Unhosts, ServiceInv, s
<1>13. state \in {"RESULT_TRANSFERRING", "FAILED"}
    OBVIOUS
<1>14. state \in TerminalState
    BY DEF TerminalState
<1> HIDE DEF n, state
<1>15. Changes(u, z, t, none, none) /\ z.task[t].state = state
    <2>1. /\ WorldOK(u) /\ Located(u, t) /\ u.task[t].generation = 0
          /\ u.attempt[t] = NoAttempt /\ n = HostNode[t] /\ Unhosts(u, n, r, t)
          /\ z = Left(Reslot(u, n, r), t, state)
        BY <1>1, <1>2, <1>9, <1>12 DEF n
    <2> QED BY <1>13, <2>1, PrimaryStops
<1> QED BY <1>14, <1>15 DEF none, Terminal

\* What is terminal has been told of everything.
LEMMA TerminalExposed ==
    ASSUME NEW u, NEW t, TaskOK(u, t), u.task[t] \in TaskRuntime, Terminal(u, t),
           NEW closed, NEW lost
    PROVE  Exposed(u, t, closed, lost) /\ ~u.attempt[t].live
<1>1. u.task[t].state # "RUNNING"
    BY DEF Terminal, TerminalState
<1>2. NoAttempt.live = FALSE
    BY DEF NoAttempt
<1>3. CASE u.task[t].generation = 0
    BY <1>1, <1>2, <1>3 DEF TaskOK, Primary, Exposed
<1>4. CASE u.task[t].generation = 1
    <2>1. Ended(u, t)
        BY <1>4 DEF TaskOK, Recovery, Deciding, Waiting, Computing, Resulting, Terminal, TerminalState
    <2> QED BY <1>1, <2>1 DEF Ended, Exposed
<1> QED BY <1>3, <1>4 DEF TaskRuntime

\* A recovery that is not live is over.
LEMMA RecoveredEnds ==
    ASSUME NEW u, NEW t, TaskOK(u, t), u.task[t].generation = 1, ~u.attempt[t].live
    PROVE  Terminal(u, t)
BY DEF TaskOK, Recovery, Deciding, Waiting, Computing, Resulting, Past, Ended

-----------------------------------------------------------------------------
(* The end of the run *)

\* An attempt that is ended leaves all in order,
LEMMA FailSound ==
    ASSUME NEW u, Sound(u, {}, {}), NEW t \in Task, NEW z, z = Fail(u, t)
    PROVE  /\ Sound(z, {}, {}) /\ \A x \in Task \ {t} : z.task[x] = u.task[x]
           /\ z.task[t].generation = 1 => Terminal(z, t)
<1> DEFINE none == {}
<1>1. WorldOK(u) /\ \A x \in Task : TaskOK(u, x) /\ Exposed(u, x, none, none)
    BY DEF Sound
<1>2. CASE u.attempt[t].live
    <2> HIDE DEF none
    <2>1. Active(u, t)
        BY <1>1, <1>2, LiveRecovers
    <2>2. Closes(u, z, t)
        BY <2>1, ActiveFails
    <2>3. Sound(z, none, none)
        BY <1>1, <2>2, ClosesChanges, ChangesSound
    <2>4. Terminal(z, t) /\ \A x \in Task \ {t} : z.task[x] = u.task[x]
        BY <2>2 DEF Closes, Only, Beside
    <2> QED BY <2>3, <2>4 DEF none
<1>3. CASE ~u.attempt[t].live
    <2>1. z = u
        BY <1>3 DEF Fail
    <2> QED BY <1>1, <1>3, <2>1, RecoveredEnds
<1> QED BY <1>2, <1>3

\* and so does the end of all of them.
LEMMA FailAllSound ==
    ASSUME NEW u, Sound(u, {}, {}), NEW z, z = FailAll(u)
    PROVE  Sound(z, {}, {}) /\ \A t \in Task : z.task[t].generation = 1 => Terminal(z, t)
<1> DEFINE none == {}
           Over(v, t) == v.task[t].generation = 1 => Terminal(v, t)
           P == [s \in SUBSET Task |-> {v \in World : Sound(v, none, none) /\ \A t \in s : Over(v, t)}]
           choose == [s \in SUBSET Task |-> CHOOSE x \in s : TRUE]
           step == [tv \in Task \X World |-> Fail(tv[2], tv[1])]
           F(g) == [s \in SUBSET Task |-> IF s = {} THEN u
                                          ELSE LET x == CHOOSE y \in s : TRUE IN Fail(g[s \ {x}], x)]
           it == CHOOSE g : g = F(g)
<1>1. \A s \in SUBSET Task : s # {} => choose[s] \in s
    OBVIOUS
<1>2. \A t \in Task : \A v \in World : step[<<t, v>>] = Fail(v, t)
    OBVIOUS
<1>3. ASSUME NEW g PROVE F(g) = [s \in SUBSET Task |-> F(g)[s]]
    OBVIOUS
<1>4. ASSUME NEW g, NEW s \in SUBSET Task
      PROVE  F(g)[s] = IF s = {} THEN u ELSE Fail(g[s \ {choose[s]}], choose[s])
    OBVIOUS
<1>5. z = it[Task]
    BY DEF FailAll, FoldSet, MapThenFoldSet
<1>6. ASSUME NEW s \in SUBSET Task, NEW v
      PROVE  v \in P[s] <=> v \in World /\ Sound(v, none, none) /\ \A t \in s : Over(v, t)
    OBVIOUS
<1>7. P \in [SUBSET Task -> SUBSET World]
    OBVIOUS
<1> HIDE DEF choose, step, F, P, none
<1>8. Carries(P, u, choose, step, Task, World)
    <2>1. u \in P[{}]
        <3>1. {} \in SUBSET Task /\ \A t \in {} : Over(u, t)
            OBVIOUS
        <3> QED BY <1>6, <3>1 DEF Sound, WorldOK, none
    <2>2. ASSUME NEW s \in SUBSET Task, s # {}, NEW v \in P[s \ {choose[s]}]
          PROVE  step[<<choose[s], v>>] \in P[s]
        <3> DEFINE t == choose[s]
                   y == Fail(v, t)
        <3>1. t \in s /\ t \in Task /\ s \ {t} \in SUBSET Task
            BY <1>1, <2>2
        <3>2. v \in World /\ Sound(v, none, none) /\ \A x \in s \ {t} : Over(v, x)
            BY <1>6, <2>2, <3>1
        <3>3. step[<<t, v>>] = y
            BY <1>2, <3>1, <3>2
        <3> HIDE DEF y
        <3>4. /\ Sound(y, {}, {}) /\ \A x \in Task \ {t} : y.task[x] = v.task[x]
              /\ y.task[t].generation = 1 => Terminal(y, t)
            <4> HIDE DEF t
            <4> QED BY <3>1, <3>2, FailSound DEF y, none
        <3>5. Sound(y, none, none) /\ y \in World
            BY <3>4 DEF Sound, WorldOK, none
        <3>6. \A x \in s : Over(y, x)
            BY <3>1, <3>2, <3>4 DEF Terminal
        <3> HIDE DEF Over
        <3> QED BY <1>6, <3>3, <3>5, <3>6
    <2> QED BY <1>1, <1>7, <2>1, <2>2 DEF Carries, Chooses
<1>9. \E g : g = F(g)
    <2>1. PICK g : Folds(g, P, u, choose, step, Task)
        BY <1>8, TaskAssumption, FoldKeeps
    <2>2. ASSUME NEW s \in SUBSET Task PROVE F(g)[s] = g[s]
        <3>1. CASE s # {}
            <4>1. choose[s] \in Task /\ s \ {choose[s]} \in SUBSET Task
                BY <1>1, <3>1
            <4>2. g[s \ {choose[s]}] \in World
                BY <1>6, <2>1, <4>1 DEF Folds
            <4>3. g[s] = step[<<choose[s], g[s \ {choose[s]}]>>]
                BY <2>1, <3>1 DEF Folds
            <4> QED BY <1>2, <1>4, <3>1, <4>1, <4>2, <4>3
        <3>2. CASE s = {}
            BY <1>4, <2>1, <3>2 DEF Folds
        <3> QED BY <3>1, <3>2
    <2>3. g = [s \in SUBSET Task |-> g[s]]
        BY <2>1 DEF Folds
    <2>4. F(g) = [s \in SUBSET Task |-> F(g)[s]]
        BY <1>3
    <2> QED BY <2>2, <2>3, <2>4
<1>10. it = F(it)
    BY <1>9
<1> HIDE DEF it
<1>11. Obeys(it, P, u, choose, step, Task)
    <2>1. it[{}] = u
        BY <1>4, <1>10
    <2>2. ASSUME NEW s \in SUBSET Task, s # {}, it[s \ {choose[s]}] \in P[s \ {choose[s]}]
          PROVE  it[s] = step[<<choose[s], it[s \ {choose[s]}]>>]
        <3>1. choose[s] \in Task /\ s \ {choose[s]} \in SUBSET Task
            BY <1>1, <2>2
        <3>2. it[s \ {choose[s]}] \in World
            BY <1>6, <2>2, <3>1
        <3>3. it[s] = Fail(it[s \ {choose[s]}], choose[s])
            BY <1>4, <1>10, <2>2
        <3> QED BY <1>2, <3>1, <3>2, <3>3
    <2> QED BY <2>1, <2>2 DEF Obeys
<1>12. it[Task] \in P[Task]
    BY <1>8, <1>11, TaskAssumption, FoldStays
<1> QED BY <1>5, <1>6, <1>12 DEF none

\* The tasks that no recovery owns fail too.
LEMMA RestSound ==
    ASSUME NEW u, Sound(u, {}, {}), NEW t \in Task, u.task[t].generation = 1 => Terminal(u, t),
           NEW z, z = IF Terminal(u, t) THEN u ELSE FailTaskForSatelliteNode(u, t)
    PROVE  Sound(z, {}, {}) /\ Terminal(z, t) /\ \A x \in Task \ {t} : z.task[x] = u.task[x]
<1>1. WorldOK(u) /\ u.task[t] \in TaskRuntime
    BY WorldTypes DEF Sound, WorldOK
<1>2. CASE ~Terminal(u, t)
    <2>1. u.task[t].generation = 0
        BY <1>1, <1>2 DEF TaskRuntime
    <2>2. Changes(u, z, t, {}, {}) /\ Terminal(z, t)
        BY <1>2, <2>1, StrandedFails
    <2>3. Sound(z, {}, {})
        BY <2>2, SoundChanges
    <2> QED BY <2>2, <2>3 DEF Changes, Only, Beside
<1> QED BY <1>2

LEMMA FailRestSound ==
    ASSUME NEW u, Sound(u, {}, {}), \A t \in Task : u.task[t].generation = 1 => Terminal(u, t),
           NEW z, z = FailRest(u)
    PROVE  Sound(z, {}, {}) /\ \A t \in Task : Terminal(z, t)
<1> DEFINE none == {}
           Over(v, t) == v.task[t].generation = 1 => Terminal(v, t)
           Rest(v, t) == IF Terminal(v, t) THEN v ELSE FailTaskForSatelliteNode(v, t)
           P == [s \in SUBSET Task |-> {v \in World : Sound(v, none, none) /\ (\A x \in Task : Over(v, x)) /\ (\A x \in s : Terminal(v, x))}]
           choose == [s \in SUBSET Task |-> CHOOSE x \in s : TRUE]
           step == [xv \in Task \X World |-> Rest(xv[2], xv[1])]
           F(g) == [s \in SUBSET Task |-> IF s = {} THEN u
                                  ELSE LET x == CHOOSE y \in s : TRUE IN Rest(g[s \ {x}], x)]
           it == CHOOSE g : g = F(g)
<1>1. \A s \in SUBSET Task : s # {} => choose[s] \in s
    OBVIOUS
<1>2. \A x \in Task : \A v \in World : step[<<x, v>>] = Rest(v, x)
    OBVIOUS
<1>3. ASSUME NEW g PROVE F(g) = [s \in SUBSET Task |-> F(g)[s]]
    OBVIOUS
<1>4. ASSUME NEW g, NEW s \in SUBSET Task, s # {}
      PROVE  F(g)[s] = Rest(g[s \ {choose[s]}], choose[s])
    <2> DEFINE c == CHOOSE x \in s : TRUE
    <2> HIDE DEF Rest
    <2>1. choose[s] = c
        OBVIOUS
    <2>2. F(g)[s] = Rest(g[s \ {c}], c)
        BY <1>4
    <2> HIDE DEF F, choose, c
    <2> QED BY <2>1, <2>2
<1>5. ASSUME NEW g PROVE F(g)[{}] = u
    OBVIOUS
<1>6. z = it[Task]
    BY DEF FailRest, FoldSet, MapThenFoldSet
<1>7. ASSUME NEW s \in SUBSET Task, NEW v
      PROVE  v \in P[s] <=> v \in World /\ Sound(v, none, none) /\ (\A x \in Task : Over(v, x)) /\ (\A x \in s : Terminal(v, x))
    OBVIOUS
<1>8. P \in [SUBSET Task -> SUBSET World]
    OBVIOUS
<1> HIDE DEF choose, step, F, P, none, Rest
<1>9. Carries(P, u, choose, step, Task, World)
    <2>1. u \in P[{}]
        <3>1. {} \in SUBSET Task /\ (\A x \in {} : Terminal(u, x)) /\ (\A x \in Task : Over(u, x))
            OBVIOUS
        <3> HIDE DEF Over
        <3> QED BY <1>7, <3>1 DEF Sound, WorldOK, none
    <2>2. ASSUME NEW s \in SUBSET Task, s # {}, NEW v \in P[s \ {choose[s]}]
          PROVE  step[<<choose[s], v>>] \in P[s]
        <3> DEFINE t == choose[s]
                   y == Rest(v, t)
        <3>1. t \in s /\ t \in Task /\ s \ {t} \in SUBSET Task
            BY <1>1, <2>2
        <3>2. /\ v \in World /\ Sound(v, none, none)
              /\ (\A x \in Task : Over(v, x)) /\ (\A x \in s \ {t} : Terminal(v, x))
            BY <1>7, <2>2, <3>1
        <3>3. step[<<t, v>>] = y
            BY <1>2, <3>1, <3>2
        <3> HIDE DEF y
        <3>4. Sound(y, {}, {}) /\ Terminal(y, t) /\ \A x \in Task \ {t} : y.task[x] = v.task[x]
            <4> HIDE DEF t
            <4>1. v.task[t].generation = 1 => Terminal(v, t)
                BY <3>1, <3>2
            <4>2. Sound(v, {}, {})
                BY <3>2 DEF none
            <4> QED BY <3>1, <4>1, <4>2, RestSound DEF y, Rest
        <3>5. Sound(y, none, none) /\ y \in World
            BY <3>4 DEF Sound, WorldOK, none
        <3>6. (\A x \in s : Terminal(y, x)) /\ (\A x \in Task : Over(y, x))
            BY <3>1, <3>2, <3>4 DEF Terminal
        <3> HIDE DEF Over
        <3> QED BY <1>7, <3>3, <3>5, <3>6
    <2> QED BY <1>1, <1>8, <2>1, <2>2 DEF Carries, Chooses
<1>10. \E g : g = F(g)
    <2>1. PICK g : Folds(g, P, u, choose, step, Task)
        BY <1>9, TaskAssumption, FoldKeeps
    <2>2. ASSUME NEW s \in SUBSET Task PROVE F(g)[s] = g[s]
        <3>1. CASE s # {}
            <4>1. choose[s] \in Task /\ s \ {choose[s]} \in SUBSET Task
                BY <1>1, <3>1
            <4>2. g[s \ {choose[s]}] \in World
                BY <1>7, <2>1, <4>1 DEF Folds
            <4>3. g[s] = step[<<choose[s], g[s \ {choose[s]}]>>]
                BY <2>1, <3>1 DEF Folds
            <4> QED BY <1>2, <1>4, <3>1, <4>1, <4>2, <4>3
        <3>2. CASE s = {}
            BY <1>5, <2>1, <3>2 DEF Folds
        <3> QED BY <3>1, <3>2
    <2>3. g = [s \in SUBSET Task |-> g[s]]
        BY <2>1 DEF Folds
    <2>4. F(g) = [s \in SUBSET Task |-> F(g)[s]]
        BY <1>3
    <2> QED BY <2>2, <2>3, <2>4
<1>11. it = F(it)
    BY <1>10
<1> HIDE DEF it
<1>12. Obeys(it, P, u, choose, step, Task)
    <2>1. it[{}] = u
        BY <1>5, <1>11
    <2>2. ASSUME NEW s \in SUBSET Task, s # {}, it[s \ {choose[s]}] \in P[s \ {choose[s]}]
          PROVE  it[s] = step[<<choose[s], it[s \ {choose[s]}]>>]
        <3>1. choose[s] \in Task /\ s \ {choose[s]} \in SUBSET Task
            BY <1>1, <2>2
        <3>2. it[s \ {choose[s]}] \in World
            BY <1>7, <2>2, <3>1
        <3>3. it[s] = Rest(it[s \ {choose[s]}], choose[s])
            BY <1>4, <1>11, <2>2
        <3> QED BY <1>2, <3>1, <3>2, <3>3
    <2> QED BY <2>1, <2>2 DEF Obeys
<1>13. it[Task] \in P[Task]
    BY <1>9, <1>12, TaskAssumption, FoldStays
<1> QED BY <1>6, <1>7, <1>13 DEF none

\* The end of the program leaves no task unfinished.
LEMMA FinalizeSound ==
    ASSUME NEW u, Sound(u, {}, {}), NEW z, z = Finalize(u)
    PROVE  Sound(z, {}, {}) /\ \A t \in Task : Terminal(z, t)
<1> DEFINE a == FailAll(u)
           b == FailRest(a)
<1>1. Sound(a, {}, {}) /\ \A t \in Task : a.task[t].generation = 1 => Terminal(a, t)
    BY FailAllSound
<1> HIDE DEF a
<1>2. Sound(b, {}, {}) /\ \A t \in Task : Terminal(b, t)
    BY <1>1, FailRestSound
<1> HIDE DEF b
<1>3. WorldOK(b) /\ b \in World
    BY <1>2 DEF Sound, WorldOK
<1>4. z = [b EXCEPT !.ended = TRUE]
    BY DEF Finalize, a, b
<1>5. /\ z \in World /\ z.ok = b.ok /\ z.svc = b.svc /\ z.store = b.store /\ z.task = b.task
      /\ z.attempt = b.attempt /\ z.now = b.now /\ z.deferred = b.deferred /\ z.dead = b.dead
    BY <1>3, <1>4 DEF World
<1>6. WorldOK(z)
    BY <1>3, <1>5 DEF WorldOK, NodeOK, Free
<1>7. SameSky(b, z) /\ \A x \in Task : Beside(b, z, x)
    BY <1>5, UnmovedReflexive DEF SameSky, Beside
<1> DEFINE none == {}
<1>8. \A x \in Task : TaskOK(b, x) /\ Exposed(b, x, none, none)
    BY <1>2 DEF Sound
<1> HIDE DEF none
<1>9. \A x \in Task : TaskOK(z, x) /\ Exposed(z, x, none, none)
    BY <1>3, <1>5, <1>7, <1>8, BesideKeeps, BesideExposed
<1>10. \A t \in Task : Terminal(z, t)
    BY <1>2, <1>5 DEF Terminal
<1> QED BY <1>6, <1>9, <1>10 DEF Sound, none

-----------------------------------------------------------------------------
(* A fault batch *)

\* The nodes of the changes s, and those that are lost.
Nodes(started, s) == {started[i].node : i \in s}
Lost(started, s) == {started[i].node : i \in {j \in s : started[j].kind = "satellite"}}

Batch(started, closed, lost) ==
    /\ \E size \in Nat : DOMAIN started = 1..size
    /\ \A i \in DOMAIN started : started[i].node \in Sat /\ started[i].kind \in {"compute", "satellite"}
    /\ closed = Nodes(started, DOMAIN started) /\ lost = Lost(started, DOMAIN started)

\* Of one more change there is one less to be told of.
Shrinks(a, b, n, kind, shut, gone) ==
    shut = a \ {n} /\ gone = IF kind = "satellite" THEN b \ {n} ELSE b

LEMMA ToldNodes ==
    ASSUME NEW started, NEW s, NEW i \in s, NEW n, n = started[i].node,
           NEW kind, kind = started[i].kind, NEW closed, NEW lost,
           NEW a, a = closed \ Nodes(started, s \ {i}), NEW b, b = lost \ Lost(started, s \ {i}),
           NEW shut, shut = closed \ Nodes(started, s), NEW gone, gone = lost \ Lost(started, s)
    PROVE  Shrinks(a, b, n, kind, shut, gone) /\ (kind = "satellite" => n \in Lost(started, s))
<1>1. \A m : m \in Nodes(started, s) <=> m \in Nodes(started, s \ {i}) \/ m = n
    BY DEF Nodes
<1>2. \A m : m \in Lost(started, s) <=>
              m \in Lost(started, s \ {i}) \/ (kind = "satellite" /\ m = n)
    BY DEF Lost
<1> QED BY <1>1, <1>2 DEF Shrinks

\* A task is told of one change.
Tells(u, z, t, n, kind) == z = IF Terminal(u, t) THEN u ELSE Fault(u, t, n, kind)

LEMMA ToldChanges ==
    ASSUME NEW u, WorldOK(u), NEW t \in Task, TaskOK(u, t),
           NEW closed, NEW lost, Exposed(u, t, closed, lost),
           NEW n, NEW kind, NEW z, Tells(u, z, t, n, kind),
           NEW shut, NEW gone, Shrinks(closed, lost, n, kind, shut, gone)
    PROVE  /\ Changes(u, z, t, shut, gone)
           /\ kind = "compute" /\ u.task[t].generation = 1 => z = u
<1>1. CASE Terminal(u, t)
    <2>1. u.task[t] \in TaskRuntime
        BY WorldTypes DEF WorldOK
    <2>2. Exposed(u, t, shut, gone)
        BY <1>1, <2>1, TerminalExposed
    <2>3. z = u
        BY <1>1 DEF Tells
    <2> QED BY <2>2, <2>3, StaysSound
<1>2. CASE ~Terminal(u, t)
    <2>1. z = Fault(u, t, n, kind)
        BY <1>2 DEF Tells
    <2>2. shut = closed \ {n} /\ gone = IF kind = "satellite" THEN lost \ {n} ELSE lost
        BY DEF Shrinks
    <2> QED BY <1>2, <2>1, <2>2, FaultChanges
<1> QED BY <1>1, <1>2

\* Told of every change, a task has the batch behind it; outages of compute
\* services take nothing from a recovery.
LEMMA FaultAllChanges ==
    ASSUME NEW u, WorldOK(u), NEW t \in Task, TaskOK(u, t), NEW started, NEW closed, NEW lost,
           Batch(started, closed, lost), Exposed(u, t, closed, lost),
           NEW z, z = FaultAll(u, t, started)
    PROVE  /\ Changes(u, z, t, {}, {})
           /\ lost = {} /\ u.task[t].generation = 1 => z = u
<1> DEFINE T == DOMAIN started
           Kept(v) == lost = {} /\ u.task[t].generation = 1 => v = u
           Told(v, i) == IF Terminal(v, t) THEN v
                         ELSE Fault(v, t, started[i].node, started[i].kind)
           P == [s \in SUBSET T |-> {v \in World : Changes(u, v, t, closed \ Nodes(started, s), lost \ Lost(started, s)) /\ Kept(v)}]
           choose == [s \in SUBSET T |-> Max(s)]
           step == [xv \in T \X World |-> Told(xv[2], xv[1])]
           F(g) == [s \in SUBSET T |-> IF s = {} THEN u
                                  ELSE LET x == Max(s) IN Told(g[s \ {x}], x)]
           it == CHOOSE g : g = F(g)
<1>0. /\ IsFiniteSet(T)
      /\ \A s \in SUBSET T : s # {} => Max(s) \in s
    <2>1. PICK size \in Nat : T = 1..size
        BY DEF Batch
    <2>2. IsFiniteSet(1..size)
        BY FS_Interval
    <2>3. \A s \in SUBSET (1..size) : s # {} => Max(s) \in s
        BY MaxIn
    <2> HIDE DEF T
    <2> QED BY <2>1, <2>2, <2>3
<1>1. \A s \in SUBSET T : s # {} => choose[s] \in s
    BY <1>0
<1>2. \A x \in T : \A v \in World : step[<<x, v>>] = Told(v, x)
    OBVIOUS
<1>3. ASSUME NEW g PROVE F(g) = [s \in SUBSET T |-> F(g)[s]]
    OBVIOUS
<1>4. ASSUME NEW g, NEW s \in SUBSET T, s # {}
      PROVE  F(g)[s] = Told(g[s \ {choose[s]}], choose[s])
    <2> DEFINE c == Max(s)
    <2> HIDE DEF Told
    <2>1. choose[s] = c
        OBVIOUS
    <2>2. F(g)[s] = Told(g[s \ {c}], c)
        BY <1>4
    <2> HIDE DEF F, choose, c
    <2> QED BY <2>1, <2>2
<1>5. ASSUME NEW g PROVE F(g)[{}] = u
    OBVIOUS
<1>6. z = it[T]
    BY DEF FaultAll, FoldLeft, MapThenFoldSet
<1>7. ASSUME NEW s \in SUBSET T, NEW v
      PROVE  v \in P[s] <=> v \in World /\ Changes(u, v, t, closed \ Nodes(started, s), lost \ Lost(started, s)) /\ Kept(v)
    OBVIOUS
<1>8. P \in [SUBSET T -> SUBSET World]
    OBVIOUS
<1> HIDE DEF choose, step, F, P, Told, T
<1>9. Carries(P, u, choose, step, T, World)
    <2>1. u \in P[{}]
        <3> DEFINE shut == closed \ Nodes(started, {})
                   gone == lost \ Lost(started, {})
        <3>1. shut = closed /\ gone = lost
            BY DEF Nodes, Lost
        <3>2. Changes(u, u, t, closed, lost) /\ u \in World
            BY StaysSound DEF WorldOK
        <3>3. {} \in SUBSET T
            OBVIOUS
        <3> QED BY <1>7, <3>1, <3>2, <3>3
    <2>2. ASSUME NEW s \in SUBSET T, s # {}, NEW v \in P[s \ {choose[s]}]
          PROVE  step[<<choose[s], v>>] \in P[s]
        <3> DEFINE i == choose[s]
                   n == started[i].node
                   kind == started[i].kind
                   y == Told(v, i)
                   a == closed \ Nodes(started, s \ {i})
                   b == lost \ Lost(started, s \ {i})
                   shut == closed \ Nodes(started, s)
                   gone == lost \ Lost(started, s)
        <3>1. i \in s /\ i \in T /\ s \ {i} \in SUBSET T
            BY <1>1, <2>2
        <3>2. v \in World /\ Changes(u, v, t, a, b) /\ Kept(v)
            <4> DEFINE r == s \ {i}
            <4>1. r \in SUBSET T /\ v \in P[r]
                BY <2>2, <3>1
            <4> HIDE DEF r, Kept
            <4>2. /\ v \in World /\ Kept(v)
                  /\ Changes(u, v, t, closed \ Nodes(started, r), lost \ Lost(started, r))
                BY <1>7, <4>1
            <4> QED BY <4>2 DEF r
        <3>3. step[<<i, v>>] = y
            BY <1>2, <3>1, <3>2
        <3>4. Shrinks(a, b, n, kind, shut, gone) /\ (kind = "satellite" => n \in Lost(started, s))
            <4>1. /\ n = started[i].node /\ kind = started[i].kind
                  /\ a = closed \ Nodes(started, s \ {i}) /\ b = lost \ Lost(started, s \ {i})
                  /\ shut = closed \ Nodes(started, s) /\ gone = lost \ Lost(started, s)
                OBVIOUS
            <4> HIDE DEF i, T, n, kind, a, b, shut, gone
            <4> QED BY <3>1, <4>1, ToldNodes
        <3>5. Tells(v, y, t, n, kind)
            BY DEF Told, Tells
        <3>6. kind = "satellite" => lost # {}
            <4>1. Lost(started, s) \subseteq Lost(started, T)
                BY DEF Lost
            <4> QED BY <3>4, <4>1 DEF Batch, T
        <3>7. kind \in {"compute", "satellite"}
            BY <3>1 DEF Batch, T
        <3> HIDE DEF y, n, kind, shut, gone, a, b
        <3>8. WorldOK(v) /\ TaskOK(v, t) /\ Exposed(v, t, a, b)
            BY <3>2 DEF Changes
        <3>9. /\ Changes(v, y, t, shut, gone)
              /\ kind = "compute" /\ v.task[t].generation = 1 => y = v
            BY <3>4, <3>5, <3>8, ToldChanges
        <3>10. Changes(u, y, t, shut, gone)
            BY <3>2, <3>9, ChangesAfter DEF Changes
        <3>11. Kept(y)
            BY <3>2, <3>6, <3>7, <3>9
        <3> HIDE DEF Kept
        <3> QED BY <1>7, <3>3, <3>10, <3>11 DEF shut, gone, Changes, WorldOK
    <2> QED BY <1>1, <1>8, <2>1, <2>2 DEF Carries, Chooses
<1>10. \E g : g = F(g)
    <2>1. PICK g : Folds(g, P, u, choose, step, T)
        BY <1>9, <1>0, FoldKeeps
    <2>2. ASSUME NEW s \in SUBSET T PROVE F(g)[s] = g[s]
        <3>1. CASE s # {}
            <4>1. choose[s] \in T /\ s \ {choose[s]} \in SUBSET T
                BY <1>1, <3>1
            <4>2. g[s \ {choose[s]}] \in World
                BY <1>7, <2>1, <4>1 DEF Folds
            <4>3. g[s] = step[<<choose[s], g[s \ {choose[s]}]>>]
                BY <2>1, <3>1 DEF Folds
            <4> QED BY <1>2, <1>4, <3>1, <4>1, <4>2, <4>3
        <3>2. CASE s = {}
            BY <1>5, <2>1, <3>2 DEF Folds
        <3> QED BY <3>1, <3>2
    <2>3. g = [s \in SUBSET T |-> g[s]]
        BY <2>1 DEF Folds
    <2>4. F(g) = [s \in SUBSET T |-> F(g)[s]]
        BY <1>3
    <2> QED BY <2>2, <2>3, <2>4
<1>11. it = F(it)
    BY <1>10
<1> HIDE DEF it
<1>12. Obeys(it, P, u, choose, step, T)
    <2>1. it[{}] = u
        BY <1>5, <1>11
    <2>2. ASSUME NEW s \in SUBSET T, s # {}, it[s \ {choose[s]}] \in P[s \ {choose[s]}]
          PROVE  it[s] = step[<<choose[s], it[s \ {choose[s]}]>>]
        <3>1. choose[s] \in T /\ s \ {choose[s]} \in SUBSET T
            BY <1>1, <2>2
        <3>2. it[s \ {choose[s]}] \in World
            BY <1>7, <2>2, <3>1
        <3>3. it[s] = Told(it[s \ {choose[s]}], choose[s])
            BY <1>4, <1>11, <2>2
        <3> QED BY <1>2, <3>1, <3>2, <3>3
    <2> QED BY <2>1, <2>2 DEF Obeys
<1>13. it[T] \in P[T]
    BY <1>9, <1>12, <1>0, FoldStays
<1> DEFINE shut == closed \ Nodes(started, T)
           gone == lost \ Lost(started, T)
<1>14. shut = {} /\ gone = {}
    BY DEF Batch, T
<1>15. Changes(u, z, t, shut, gone) /\ Kept(z)
    <2> HIDE DEF Kept
    <2> QED BY <1>6, <1>7, <1>13
<1> QED BY <1>14, <1>15

\* v is u after the tasks of s have been told of the batch; those in recovery
\* have lost nothing when no satellite has.
Halfway(u, v, s, closed, lost) ==
    /\ WorldOK(v) /\ v.dead = u.dead
    /\ \A x \in Task :
         /\ TaskOK(v, x)
         /\ x \in s => Exposed(v, x, {}, {})
         /\ x \notin s => Exposed(v, x, closed, lost)
         /\ lost = {} /\ u.task[x].generation = 1 => Beside(u, v, x)

LEMMA HalfwayOn ==
    ASSUME NEW u, NEW v, NEW t \in Task, NEW s, t \in s, NEW closed, NEW lost,
           Halfway(u, v, s \ {t}, closed, lost), NEW started, Batch(started, closed, lost),
           NEW z, z = FaultAll(v, t, started)
    PROVE  Halfway(u, z, s, closed, lost)
<1> DEFINE none == {}
<1>1. /\ WorldOK(v) /\ v \in World /\ TaskOK(v, t) /\ Exposed(v, t, closed, lost)
      /\ v.dead = u.dead
    BY DEF Halfway, WorldOK
<1>2. Changes(v, z, t, none, none) /\ (lost = none /\ v.task[t].generation = 1 => z = v)
    BY <1>1, FaultAllChanges
<1>3. ASSUME NEW x \in Task, x # t
      PROVE  /\ TaskOK(v, x) /\ Beside(v, z, x)
             /\ x \in s => Exposed(v, x, none, none)
             /\ x \notin s => Exposed(v, x, closed, lost)
             /\ lost = none /\ u.task[x].generation = 1 => Beside(u, v, x)
    BY <1>2, <1>3 DEF Halfway, Changes, Only
<1>4. lost = none /\ u.task[t].generation = 1 => Beside(u, v, t)
    BY DEF Halfway
<1> HIDE DEF none
<1>5. WorldOK(z) /\ z \in World /\ SameSky(v, z) /\ TaskOK(z, t) /\ Exposed(z, t, none, none)
    BY <1>2 DEF Changes, Only, WorldOK
<1>6. ASSUME NEW x \in Task
      PROVE  /\ TaskOK(z, x)
             /\ x \in s => Exposed(z, x, none, none)
             /\ x \notin s => Exposed(z, x, closed, lost)
             /\ lost = none /\ u.task[x].generation = 1 => Beside(u, z, x)
    <2>1. CASE x = t
        <3>1. lost = none /\ u.task[t].generation = 1 => Beside(u, z, t)
            <4>1. Beside(u, v, t) => v.task[t].generation = u.task[t].generation
                BY DEF Beside
            <4> QED BY <1>2, <1>4, <4>1
        <3> QED BY <1>5, <2>1, <3>1
    <2>2. CASE x # t
        <3>1. TaskOK(z, x)
            BY <1>1, <1>3, <1>5, <2>2, BesideKeeps
        <3>2. \A a, b : Exposed(v, x, a, b) => Exposed(z, x, a, b)
            BY <1>1, <1>3, <1>5, <2>2, BesideExposed
        <3>3. Beside(u, v, x) => Beside(u, z, x)
            BY <1>3, <2>2, BesideTransitive
        <3> QED BY <1>3, <2>2, <3>1, <3>2, <3>3
    <2> QED BY <2>1, <2>2
<1>7. z.dead = u.dead
    BY <1>1, <1>5 DEF SameSky
<1> QED BY <1>5, <1>6, <1>7 DEF Halfway, none

\* When all have been told, all are in order.
LEMMA HandleFaultsSound ==
    ASSUME NEW u, NEW closed, NEW lost, Sound(u, closed, lost),
           NEW started, Batch(started, closed, lost), NEW z, z = HandleFaults(u, started)
    PROVE  /\ Sound(z, {}, {}) /\ z.dead = u.dead
           /\ \A x \in Task : lost = {} /\ u.task[x].generation = 1 => Beside(u, z, x)
<1> DEFINE Told(v, t) == FaultAll(v, t, started)
           P == [s \in SUBSET Task |-> {v \in World : Halfway(u, v, s, closed, lost)}]
           choose == [s \in SUBSET Task |-> CHOOSE x \in s : TRUE]
           step == [xv \in Task \X World |-> Told(xv[2], xv[1])]
           F(g) == [s \in SUBSET Task |-> IF s = {} THEN u
                                  ELSE LET x == CHOOSE y \in s : TRUE IN Told(g[s \ {x}], x)]
           it == CHOOSE g : g = F(g)
<1>1. \A s \in SUBSET Task : s # {} => choose[s] \in s
    OBVIOUS
<1>2. \A x \in Task : \A v \in World : step[<<x, v>>] = Told(v, x)
    OBVIOUS
<1>3. ASSUME NEW g PROVE F(g) = [s \in SUBSET Task |-> F(g)[s]]
    OBVIOUS
<1>4. ASSUME NEW g, NEW s \in SUBSET Task, s # {}
      PROVE  F(g)[s] = Told(g[s \ {choose[s]}], choose[s])
    <2> DEFINE c == CHOOSE x \in s : TRUE
    <2> HIDE DEF Told
    <2>1. choose[s] = c
        OBVIOUS
    <2>2. F(g)[s] = Told(g[s \ {c}], c)
        BY <1>4
    <2> HIDE DEF F, choose, c
    <2> QED BY <2>1, <2>2
<1>5. ASSUME NEW g PROVE F(g)[{}] = u
    OBVIOUS
<1>6. z = it[Task]
    BY DEF HandleFaults, FoldSet, MapThenFoldSet
<1>7. ASSUME NEW s \in SUBSET Task, NEW v
      PROVE  v \in P[s] <=> v \in World /\ Halfway(u, v, s, closed, lost)
    OBVIOUS
<1>8. P \in [SUBSET Task -> SUBSET World]
    OBVIOUS
<1> HIDE DEF choose, step, F, P, Told
<1>9. Carries(P, u, choose, step, Task, World)
    <2>1. u \in P[{}]
        <3>1. {} \in SUBSET Task /\ u \in World
            BY DEF Sound, WorldOK
        <3>2. Halfway(u, u, {}, closed, lost)
            BY BesideReflexive DEF Halfway, Sound
        <3> QED BY <1>7, <3>1, <3>2
    <2>2. ASSUME NEW s \in SUBSET Task, s # {}, NEW v \in P[s \ {choose[s]}]
          PROVE  step[<<choose[s], v>>] \in P[s]
        <3> DEFINE t == choose[s]
                   y == Told(v, t)
        <3>1. t \in s /\ t \in Task /\ s \ {t} \in SUBSET Task
            BY <1>1, <2>2
        <3>2. v \in World /\ Halfway(u, v, s \ {t}, closed, lost)
            BY <1>7, <2>2, <3>1
        <3>3. step[<<t, v>>] = y
            BY <1>2, <3>1, <3>2
        <3>4. y = FaultAll(v, t, started)
            BY DEF Told
        <3> HIDE DEF y
        <3>5. Halfway(u, y, s, closed, lost)
            <4> HIDE DEF t
            <4> QED BY <3>1, <3>2, <3>4, HalfwayOn
        <3> QED BY <1>7, <3>3, <3>5 DEF Halfway, WorldOK
    <2> QED BY <1>1, <1>8, <2>1, <2>2 DEF Carries, Chooses
<1>10. \E g : g = F(g)
    <2>1. PICK g : Folds(g, P, u, choose, step, Task)
        BY <1>9, TaskAssumption, FoldKeeps
    <2>2. ASSUME NEW s \in SUBSET Task PROVE F(g)[s] = g[s]
        <3>1. CASE s # {}
            <4>1. choose[s] \in Task /\ s \ {choose[s]} \in SUBSET Task
                BY <1>1, <3>1
            <4>2. g[s \ {choose[s]}] \in World
                BY <1>7, <2>1, <4>1 DEF Folds
            <4>3. g[s] = step[<<choose[s], g[s \ {choose[s]}]>>]
                BY <2>1, <3>1 DEF Folds
            <4> QED BY <1>2, <1>4, <3>1, <4>1, <4>2, <4>3
        <3>2. CASE s = {}
            BY <1>5, <2>1, <3>2 DEF Folds
        <3> QED BY <3>1, <3>2
    <2>3. g = [s \in SUBSET Task |-> g[s]]
        BY <2>1 DEF Folds
    <2>4. F(g) = [s \in SUBSET Task |-> F(g)[s]]
        BY <1>3
    <2> QED BY <2>2, <2>3, <2>4
<1>11. it = F(it)
    BY <1>10
<1> HIDE DEF it
<1>12. Obeys(it, P, u, choose, step, Task)
    <2>1. it[{}] = u
        BY <1>5, <1>11
    <2>2. ASSUME NEW s \in SUBSET Task, s # {}, it[s \ {choose[s]}] \in P[s \ {choose[s]}]
          PROVE  it[s] = step[<<choose[s], it[s \ {choose[s]}]>>]
        <3>1. choose[s] \in Task /\ s \ {choose[s]} \in SUBSET Task
            BY <1>1, <2>2
        <3>2. it[s \ {choose[s]}] \in World
            BY <1>7, <2>2, <3>1
        <3>3. it[s] = Told(it[s \ {choose[s]}], choose[s])
            BY <1>4, <1>11, <2>2
        <3> QED BY <1>2, <3>1, <3>2, <3>3
    <2> QED BY <2>1, <2>2 DEF Obeys
<1>13. it[Task] \in P[Task]
    BY <1>9, <1>12, TaskAssumption, FoldStays
<1>14. Halfway(u, z, Task, closed, lost)
    BY <1>6, <1>7, <1>13
<1> QED BY <1>14 DEF Halfway, Sound

\* No recovery is stranded, whatever else is.
LEMMA FailStrandedSound ==
    ASSUME NEW u, Sound(u, {}, {}), NEW lost, NEW z, z = FailStranded(u, lost)
    PROVE  /\ Sound(z, {}, {}) /\ z.dead = u.dead
           /\ \A x \in Task : u.task[x].generation = 1 => Beside(u, z, x)
<1> DEFINE none == {}
           Spared(v) == \A x \in Task : u.task[x].generation = 1 => Beside(u, v, x)
           Rest(v, t) == IF Stranded(v, t, lost) THEN FailTaskForSatelliteNode(v, t) ELSE v
           P == [s \in SUBSET Task |-> {v \in World : Sound(v, none, none) /\ v.dead = u.dead /\ Spared(v)}]
           choose == [s \in SUBSET Task |-> CHOOSE x \in s : TRUE]
           step == [xv \in Task \X World |-> Rest(xv[2], xv[1])]
           F(g) == [s \in SUBSET Task |-> IF s = {} THEN u
                                  ELSE LET x == CHOOSE y \in s : TRUE IN Rest(g[s \ {x}], x)]
           it == CHOOSE g : g = F(g)
<1>1. \A s \in SUBSET Task : s # {} => choose[s] \in s
    OBVIOUS
<1>2. \A x \in Task : \A v \in World : step[<<x, v>>] = Rest(v, x)
    OBVIOUS
<1>3. ASSUME NEW g PROVE F(g) = [s \in SUBSET Task |-> F(g)[s]]
    OBVIOUS
<1>4. ASSUME NEW g, NEW s \in SUBSET Task, s # {}
      PROVE  F(g)[s] = Rest(g[s \ {choose[s]}], choose[s])
    <2> DEFINE c == CHOOSE x \in s : TRUE
    <2> HIDE DEF Rest
    <2>1. choose[s] = c
        OBVIOUS
    <2>2. F(g)[s] = Rest(g[s \ {c}], c)
        BY <1>4
    <2> HIDE DEF F, choose, c
    <2> QED BY <2>1, <2>2
<1>5. ASSUME NEW g PROVE F(g)[{}] = u
    OBVIOUS
<1>6. z = it[Task]
    BY DEF FailStranded, FoldSet, MapThenFoldSet
<1>7. ASSUME NEW s \in SUBSET Task, NEW v
      PROVE  v \in P[s] <=> v \in World /\ Sound(v, none, none) /\ v.dead = u.dead /\ Spared(v)
    OBVIOUS
<1>8. P \in [SUBSET Task -> SUBSET World]
    OBVIOUS
<1> HIDE DEF choose, step, F, P, none, Rest
<1>9. Carries(P, u, choose, step, Task, World)
    <2>1. u \in P[{}]
        <3>1. {} \in SUBSET Task /\ u \in World /\ Sound(u, none, none)
            BY DEF Sound, WorldOK, none
        <3>2. Spared(u)
            BY BesideReflexive
        <3> HIDE DEF Spared
        <3> QED BY <1>7, <3>1, <3>2
    <2>2. ASSUME NEW s \in SUBSET Task, s # {}, NEW v \in P[s \ {choose[s]}]
          PROVE  step[<<choose[s], v>>] \in P[s]
        <3> DEFINE t == choose[s]
                   y == Rest(v, t)
        <3>1. t \in s /\ t \in Task /\ s \ {t} \in SUBSET Task
            BY <1>1, <2>2
        <3>2. v \in World /\ Sound(v, none, none) /\ v.dead = u.dead /\ Spared(v)
            <4> HIDE DEF Spared
            <4> QED BY <1>7, <2>2, <3>1
        <3>3. step[<<t, v>>] = y
            BY <1>2, <3>1, <3>2
        <3>4. y = IF Stranded(v, t, lost) THEN FailTaskForSatelliteNode(v, t) ELSE v
            BY DEF Rest
        <3> HIDE DEF y, t
        <3>5. CASE Stranded(v, t, lost)
            <4>1. v.task[t].generation = 0 /\ ~Terminal(v, t)
                BY <3>5 DEF Stranded
            <4>2. Changes(v, y, t, none, none)
                BY <3>1, <3>2, <3>4, <3>5, <4>1, StrandedFails DEF none
            <4>3. Sound(y, none, none)
                BY <3>1, <3>2, <4>2, SoundChanges DEF none
            <4>4. y.dead = v.dead /\ \A x \in Task \ {t} : Beside(v, y, x)
                BY <4>2 DEF Changes, Only, SameSky
            <4>5. ASSUME NEW x \in Task, u.task[x].generation = 1 PROVE Beside(u, y, x)
                <5>1. Beside(u, v, x)
                    BY <3>2, <4>5
                <5>2. v.task[x].generation = 1 /\ 0 # 1
                    BY <4>5, <5>1 DEF Beside
                <5>3. x # t
                    BY <4>1, <5>2
                <5> QED BY <4>4, <5>1, <5>3, BesideTransitive
            <4>6. Spared(y)
                BY <4>5
            <4>7. y \in World
                BY <4>3 DEF Sound, WorldOK
            <4> HIDE DEF Spared
            <4> QED BY <1>7, <3>2, <3>3, <4>3, <4>4, <4>6, <4>7 DEF t
        <3>6. CASE ~Stranded(v, t, lost)
            <4> HIDE DEF Spared
            <4> QED BY <1>7, <3>2, <3>3, <3>4, <3>6 DEF t
        <3> QED BY <3>5, <3>6
    <2> QED BY <1>1, <1>8, <2>1, <2>2 DEF Carries, Chooses
<1>10. \E g : g = F(g)
    <2>1. PICK g : Folds(g, P, u, choose, step, Task)
        BY <1>9, TaskAssumption, FoldKeeps
    <2>2. ASSUME NEW s \in SUBSET Task PROVE F(g)[s] = g[s]
        <3>1. CASE s # {}
            <4>1. choose[s] \in Task /\ s \ {choose[s]} \in SUBSET Task
                BY <1>1, <3>1
            <4>2. g[s \ {choose[s]}] \in World
                BY <1>7, <2>1, <4>1 DEF Folds
            <4>3. g[s] = step[<<choose[s], g[s \ {choose[s]}]>>]
                BY <2>1, <3>1 DEF Folds
            <4> QED BY <1>2, <1>4, <3>1, <4>1, <4>2, <4>3
        <3>2. CASE s = {}
            BY <1>5, <2>1, <3>2 DEF Folds
        <3> QED BY <3>1, <3>2
    <2>3. g = [s \in SUBSET Task |-> g[s]]
        BY <2>1 DEF Folds
    <2>4. F(g) = [s \in SUBSET Task |-> F(g)[s]]
        BY <1>3
    <2> QED BY <2>2, <2>3, <2>4
<1>11. it = F(it)
    BY <1>10
<1> HIDE DEF it
<1>12. Obeys(it, P, u, choose, step, Task)
    <2>1. it[{}] = u
        BY <1>5, <1>11
    <2>2. ASSUME NEW s \in SUBSET Task, s # {}, it[s \ {choose[s]}] \in P[s \ {choose[s]}]
          PROVE  it[s] = step[<<choose[s], it[s \ {choose[s]}]>>]
        <3>1. choose[s] \in Task /\ s \ {choose[s]} \in SUBSET Task
            BY <1>1, <2>2
        <3>2. it[s \ {choose[s]}] \in World
            BY <1>7, <2>2, <3>1
        <3>3. it[s] = Rest(it[s \ {choose[s]}], choose[s])
            BY <1>4, <1>11, <2>2
        <3> QED BY <1>2, <3>1, <3>2, <3>3
    <2> QED BY <2>1, <2>2 DEF Obeys
<1>13. it[Task] \in P[Task]
    BY <1>9, <1>12, TaskAssumption, FoldStays
<1>14. Sound(z, none, none) /\ z.dead = u.dead /\ Spared(z)
    <2> HIDE DEF Spared
    <2> QED BY <1>6, <1>7, <1>13
<1> QED BY <1>14 DEF none

-----------------------------------------------------------------------------
(* The nodes of a batch go down *)

\* What is due of a recovery that nothing has changed was due before.
LEMMA DueBefore ==
    ASSUME NEW u, NEW v, Sound(u, {}, {}), NEW x \in Task, u.task[x].generation = 1,
           Beside(u, v, x), DueAt(v, x)
    PROVE  DueAt(u, x)
<1>1. PICK m \in Server : Runs(v.svc[m], x) /\ CanCompleteIfDue(v.svc[m], x, v.now)
    BY DEF DueAt
<1>2. WorldOK(u) /\ u \in World /\ TaskOK(u, x) /\ u.svc[m].running
    BY DEF Sound, WorldOK, NodeOK
<1>3. v.now = u.now /\ Unmoved(v.svc[m], u.svc[m], x)
    BY DEF Beside
<1>4. Runs(u.svc[m], x) /\ v.svc[m].current = u.svc[m].current
    BY <1>1, <1>3 DEF Unmoved
<1>5. u.svc[m].runningRecovery /\ u.svc[m].immune
    <2>1. u.svc[m].runningRecovery
        <3>1. 0 # 1
            OBVIOUS
        <3> QED BY <1>2, <1>4, <3>1, RunningNotQueued
    <2> QED BY <1>2, <1>4, <2>1, RunningNotQueued
<1>6. CanCompleteIfDue(u.svc[m], x, u.now)
    BY <1>1, <1>2, <1>3, <1>4, <1>5
    DEF CanCompleteIfDue, CompletionLegal, CompletionDue, ImmuneRun, Runs
<1> QED BY <1>4, <1>6 DEF DueAt

LEMMA SparesAfter ==
    ASSUME NEW u, NEW v, NEW z, Sound(u, {}, {}), NEW x \in Task, u.task[x].generation = 1,
           Spares(u, v, x), v.task[x].generation = 1 => Spares(v, z, x)
    PROVE  Spares(u, z, x)
<1>1. CASE DueAt(u, x)
    BY <1>1 DEF Spares
<1>2. CASE Beside(u, v, x)
    <2>1. v.task[x].generation = 1
        BY <1>2 DEF Beside
    <2>2. Beside(v, z, x) \/ DueAt(v, x)
        BY <2>1 DEF Spares
    <2> QED BY <1>2, <2>2, DueBefore, BesideTransitive DEF Spares
<1> QED BY <1>1, <1>2 DEF Spares

\* A batch that has not started yet.
LEMMA ExposedSooner ==
    ASSUME NEW u, Sound(u, {}, {}), NEW closed, NEW lost
    PROVE  Sound(u, closed, lost)
BY DEF Sound, Exposed

\* The changes that start, one after the other.
LEMMA TakeDownAllSound ==
    ASSUME NEW u, Sound(u, {}, {}), NEW started, NEW closed, NEW lost,
           Batch(started, closed, lost), NEW cut,
           NEW z, z = TakeDownAll(u, started, cut)
    PROVE  /\ Sound(z, closed, lost) /\ z.dead = u.dead \cup lost
           /\ \A x \in Task : u.task[x].generation = 1 => Spares(u, z, x)
<1>00. Sound(u, closed, lost)
    BY ExposedSooner
<1> DEFINE T == DOMAIN started
           Sparing(v) == \A x \in Task : u.task[x].generation = 1 => Spares(u, v, x)
           Down1(v, i) == TakeDown(v, started[i].node, started[i].kind, cut)
           P == [s \in SUBSET T |-> {v \in World : Sound(v, closed, lost) /\ v.dead = u.dead \cup Lost(started, s) /\ Sparing(v)}]
           choose == [s \in SUBSET T |-> Max(s)]
           step == [xv \in T \X World |-> Down1(xv[2], xv[1])]
           F(g) == [s \in SUBSET T |-> IF s = {} THEN u
                                  ELSE LET x == Max(s) IN Down1(g[s \ {x}], x)]
           it == CHOOSE g : g = F(g)
<1>0. /\ IsFiniteSet(T)
      /\ \A s \in SUBSET T : s # {} => Max(s) \in s
    <2>1. PICK size \in Nat : T = 1..size
        BY DEF Batch
    <2>2. IsFiniteSet(1..size)
        BY FS_Interval
    <2>3. \A s \in SUBSET (1..size) : s # {} => Max(s) \in s
        BY MaxIn
    <2> HIDE DEF T
    <2> QED BY <2>1, <2>2, <2>3
<1>1. \A s \in SUBSET T : s # {} => choose[s] \in s
    BY <1>0
<1>2. \A x \in T : \A v \in World : step[<<x, v>>] = Down1(v, x)
    OBVIOUS
<1>3. ASSUME NEW g PROVE F(g) = [s \in SUBSET T |-> F(g)[s]]
    OBVIOUS
<1>4. ASSUME NEW g, NEW s \in SUBSET T, s # {}
      PROVE  F(g)[s] = Down1(g[s \ {choose[s]}], choose[s])
    <2> DEFINE c == Max(s)
    <2> HIDE DEF Down1
    <2>1. choose[s] = c
        OBVIOUS
    <2>2. F(g)[s] = Down1(g[s \ {c}], c)
        BY <1>4
    <2> HIDE DEF F, choose, c
    <2> QED BY <2>1, <2>2
<1>5. ASSUME NEW g PROVE F(g)[{}] = u
    OBVIOUS
<1>6. z = it[T]
    BY DEF TakeDownAll, FoldLeft, MapThenFoldSet
<1>7. ASSUME NEW s \in SUBSET T, NEW v
      PROVE  v \in P[s] <=> v \in World /\ Sound(v, closed, lost) /\ v.dead = u.dead \cup Lost(started, s) /\ Sparing(v)
    OBVIOUS
<1>8. P \in [SUBSET T -> SUBSET World]
    OBVIOUS
<1> HIDE DEF choose, step, F, P, Down1, T
<1>9. Carries(P, u, choose, step, T, World)
    <2>1. u \in P[{}]
        <3>1. u \in World /\ u.dead = u.dead \cup Lost(started, {})
            BY DEF Lost, Sound, WorldOK
        <3>2. Sparing(u)
            BY BesideReflexive DEF Spares
        <3>3. {} \in SUBSET T
            OBVIOUS
        <3> HIDE DEF Sparing
        <3> QED BY <1>00, <1>7, <3>1, <3>2, <3>3
    <2>2. ASSUME NEW s \in SUBSET T, s # {}, NEW v \in P[s \ {choose[s]}]
          PROVE  step[<<choose[s], v>>] \in P[s]
        <3> DEFINE i == choose[s]
                   n == started[i].node
                   kind == started[i].kind
                   y == Down1(v, i)
        <3>1. i \in s /\ i \in T /\ s \ {i} \in SUBSET T
            BY <1>1, <2>2
        <3>2. /\ v \in World /\ Sound(v, closed, lost)
              /\ v.dead = u.dead \cup Lost(started, s \ {i}) /\ Sparing(v)
            <4> DEFINE r == s \ {i}
            <4>1. r \in SUBSET T /\ v \in P[r]
                BY <2>2, <3>1
            <4> HIDE DEF r, Sparing
            <4>2. /\ v \in World /\ Sparing(v)
                  /\ Sound(v, closed, lost) /\ v.dead = u.dead \cup Lost(started, r)
                BY <1>7, <4>1
            <4> QED BY <4>2 DEF r
        <3>3. step[<<i, v>>] = y
            BY <1>2, <3>1, <3>2
        <3>5. Lost(started, s) = Lost(started, s \ {i}) \cup (IF kind = "satellite" THEN {n} ELSE {})
            BY <3>1 DEF Lost
        <3>6. n \in Sat /\ y = TakeDown(v, n, kind, cut)
            BY <3>1 DEF Batch, T, Down1
        <3>7. Part(n, kind, closed, lost)
            BY <3>1 DEF Batch, T, Nodes, Lost, Part
        <3> HIDE DEF y, n, kind, i
        <3>8. /\ Sound(y, closed, lost) /\ Starts(v, y, n, kind)
              /\ \A x \in Task : v.task[x].generation = 1 => Spares(v, y, x)
            BY <3>2, <3>6, <3>7, TakeDownSound
        <3>9. y.dead = u.dead \cup Lost(started, s)
            BY <3>2, <3>5, <3>8 DEF Starts
        <3>10. Sparing(y)
            BY <3>2, <3>8, SparesAfter
        <3>11. y \in World
            BY <3>8 DEF Sound, WorldOK
        <3> HIDE DEF Sparing
        <3> QED BY <1>7, <3>3, <3>8, <3>9, <3>10, <3>11 DEF i
    <2> QED BY <1>1, <1>8, <2>1, <2>2 DEF Carries, Chooses
<1>10. \E g : g = F(g)
    <2>1. PICK g : Folds(g, P, u, choose, step, T)
        BY <1>9, <1>0, FoldKeeps
    <2>2. ASSUME NEW s \in SUBSET T PROVE F(g)[s] = g[s]
        <3>1. CASE s # {}
            <4>1. choose[s] \in T /\ s \ {choose[s]} \in SUBSET T
                BY <1>1, <3>1
            <4>2. g[s \ {choose[s]}] \in World
                BY <1>7, <2>1, <4>1 DEF Folds
            <4>3. g[s] = step[<<choose[s], g[s \ {choose[s]}]>>]
                BY <2>1, <3>1 DEF Folds
            <4> QED BY <1>2, <1>4, <3>1, <4>1, <4>2, <4>3
        <3>2. CASE s = {}
            BY <1>5, <2>1, <3>2 DEF Folds
        <3> QED BY <3>1, <3>2
    <2>3. g = [s \in SUBSET T |-> g[s]]
        BY <2>1 DEF Folds
    <2>4. F(g) = [s \in SUBSET T |-> F(g)[s]]
        BY <1>3
    <2> QED BY <2>2, <2>3, <2>4
<1>11. it = F(it)
    BY <1>10
<1> HIDE DEF it
<1>12. Obeys(it, P, u, choose, step, T)
    <2>1. it[{}] = u
        BY <1>5, <1>11
    <2>2. ASSUME NEW s \in SUBSET T, s # {}, it[s \ {choose[s]}] \in P[s \ {choose[s]}]
          PROVE  it[s] = step[<<choose[s], it[s \ {choose[s]}]>>]
        <3>1. choose[s] \in T /\ s \ {choose[s]} \in SUBSET T
            BY <1>1, <2>2
        <3>2. it[s \ {choose[s]}] \in World
            BY <1>7, <2>2, <3>1
        <3>3. it[s] = Down1(it[s \ {choose[s]}], choose[s])
            BY <1>4, <1>11, <2>2
        <3> QED BY <1>2, <3>1, <3>2, <3>3
    <2> QED BY <2>1, <2>2 DEF Obeys
<1>13. it[T] \in P[T]
    BY <1>9, <1>12, <1>0, FoldStays
<1>14. lost = Lost(started, T)
    BY DEF Batch, T
<1>15. Sound(z, closed, lost) /\ z.dead = u.dead \cup Lost(started, T) /\ Sparing(z)
    <2> HIDE DEF Sparing
    <2> QED BY <1>6, <1>7, <1>13
<1> QED BY <1>14, <1>15

\* A fault batch: outages end, others begin, the controller is told of each,
\* and the tasks it does not own fail with the lost satellites.
LEMMA ApplyFaultBatchSound ==
    ASSUME NEW u, Sound(u, {}, {}), NEW recovered, NEW started, NEW closed, NEW lost,
           Batch(started, closed, lost), NEW cut,
           NEW z, z = ApplyFaultBatch(u, recovered, started, cut)
    PROVE  /\ Sound(z, {}, {}) /\ z.dead = u.dead \cup lost
           /\ \A x \in Task : lost = {} /\ u.task[x].generation = 1 => Spares(u, z, x)
<1> DEFINE a == Reopen(u, recovered)
           b == TakeDownAll(a, started, cut)
           c == HandleFaults(b, started)
<1>1. Sound(a, {}, {}) /\ a.dead = u.dead /\ \A x \in Task : Beside(u, a, x)
    BY ReopenSound
<1>2. z = FailStranded(c, lost)
    <2>1. lost = {started[i].node : i \in {j \in DOMAIN started : started[j].kind = "satellite"}}
        BY DEF Batch, Lost
    <2> QED BY <2>1 DEF ApplyFaultBatch
<1> HIDE DEF a
<1>3. /\ Sound(b, closed, lost) /\ b.dead = a.dead \cup lost
      /\ \A x \in Task : a.task[x].generation = 1 => Spares(a, b, x)
    BY <1>1, TakeDownAllSound
<1> HIDE DEF b
<1>4. /\ Sound(c, {}, {}) /\ c.dead = b.dead
      /\ \A x \in Task : lost = {} /\ b.task[x].generation = 1 => Beside(b, c, x)
    BY <1>3, HandleFaultsSound
<1> HIDE DEF c
<1>5. /\ Sound(z, {}, {}) /\ z.dead = c.dead
      /\ \A x \in Task : c.task[x].generation = 1 => Beside(c, z, x)
    BY <1>2, <1>4, FailStrandedSound
<1>6. ASSUME NEW x \in Task, lost = {}, u.task[x].generation = 1
      PROVE  Spares(u, z, x)
    <2>1. Spares(u, a, x) /\ a.task[x].generation = 1
        BY <1>1, <1>6 DEF Spares, Beside
    <2>2. Spares(u, b, x)
        BY <1>1, <1>3, <1>6, <2>1, SparesAfter
    <2>3. b.task[x].generation = 1 => Spares(b, c, x)
        BY <1>4, <1>6 DEF Spares
    <2>4. Spares(u, c, x)
        BY <1>6, <2>2, <2>3, SparesAfter
    <2>5. c.task[x].generation = 1 => Spares(c, z, x)
        BY <1>5 DEF Spares
    <2> QED BY <1>6, <2>4, <2>5, SparesAfter
<1> QED BY <1>1, <1>3, <1>4, <1>5, <1>6

\* A batch of faults keeps what every event keeps.
LEMMA FaultBatchKeeps ==
    ASSUME IInv, FaultBatch
    PROVE  /\ IInv' /\ batched' # batched
           /\ w'.dead = w.dead =>
                \A x \in Task : w.task[x].generation = 1 => Spares(w, w', x)
<1>1. PICK recovered, size, nodes, kinds, cut :
             /\ size \in 0..(MaxFaults - faults)
             /\ nodes \in [1..size -> Sat] /\ kinds \in [1..size -> {"compute", "satellite"}]
             /\ \A i \in 1..size : ~Down(w, nodes[i])
             /\ w' = ApplyFaultBatch(w, recovered,
                                     [i \in 1..size |-> [node |-> nodes[i], kind |-> kinds[i]]], cut)
             /\ faults' = faults + size
    <2> DEFINE Result(recovered, size, nodes, kinds, cut) ==
                 /\ \A i \in 1..size : ~Down(w, nodes[i])
                 /\ w' = ApplyFaultBatch(w, recovered,
                                         [i \in 1..size |-> [node |-> nodes[i], kind |-> kinds[i]]], cut)
                 /\ faults' = faults + size
    <2>1. \E recovered \in SUBSET {n \in Server : ~w.svc[n].available /\ ~Down(w, n)} :
          \E size \in 0..(MaxFaults - faults) :
          \E nodes \in {q \in [1..size -> Sat] : IsInjective(q)} :
          \E kinds \in [1..size -> {"compute", "satellite"}] :
          \E cut \in Cuts : Result(recovered, size, nodes, kinds, cut)
        BY DEF FaultBatch
    <2> HIDE DEF Result
    <2>2. \E recovered, size, nodes, kinds, cut :
             /\ size \in 0..(MaxFaults - faults)
             /\ nodes \in [1..size -> Sat] /\ kinds \in [1..size -> {"compute", "satellite"}]
             /\ Result(recovered, size, nodes, kinds, cut)
        BY <2>1
    <2> QED BY <2>2 DEF Result
<1> DEFINE started == [i \in 1..size |-> [node |-> nodes[i], kind |-> kinds[i]]]
           closed == Nodes(started, DOMAIN started)
           lost == Lost(started, DOMAIN started)
           z == w'
<1>2. faults \in Nat /\ size \in Nat /\ faults + size \in 0..MaxFaults
    BY <1>1, BoundAssumption DEF IInv
<1>3. DOMAIN started = 1..size /\ \A i \in 1..size : started[i].node = nodes[i] /\ started[i].kind = kinds[i]
    OBVIOUS
<1>4. Batch(started, closed, lost)
    BY <1>1, <1>2, <1>3 DEF Batch
<1>5. \A n \in lost : n \notin w.dead
    <2>1. \A n \in lost : \E i \in 1..size : n = nodes[i]
        BY <1>3 DEF Lost
    <2> QED BY <1>1, <2>1 DEF Down
<1>6. Sound(w, {}, {}) /\ z = ApplyFaultBatch(w, recovered, started, cut)
    BY <1>1 DEF IInv
<1> HIDE DEF started, closed, lost, z
<1>7. /\ Sound(z, {}, {}) /\ z.dead = w.dead \cup lost
      /\ \A x \in Task : lost = {} /\ w.task[x].generation = 1 => Spares(w, z, x)
    BY <1>4, <1>6, ApplyFaultBatchSound
<1>8. batched' = TRUE /\ batched = FALSE
    BY DEF FaultBatch, IInv
<1>9. IInv'
    BY <1>1, <1>2, <1>7, <1>8 DEF IInv, z
<1>10. w'.dead = w.dead => lost = {}
    BY <1>5, <1>7 DEF z
<1> QED BY <1>7, <1>8, <1>9, <1>10 DEF z

-----------------------------------------------------------------------------
(* The behaviours *)

LEMMA InitSound ==
    ASSUME Init
    PROVE  Sound(w, {}, {})
<1> DEFINE fresh == [NewService EXCEPT !.running = TRUE]
<1>1. /\ w \in World /\ w.now = 0 /\ w.ok /\ w.store = {} /\ w.dead = {}
      /\ \A n \in Server : w.svc[n] = fresh
      /\ \A t \in Task : /\ w.task[t] = [state |-> "INPUT_TRANSFERRING", generation |-> 0,
                                         deadline |-> NoTime, timer |-> FALSE]
                         /\ w.attempt[t] = NoAttempt
    <2>1. fresh \in Service
        BY NewServiceSound DEF Service
    <2>2. NoAttempt \in Attempt
        BY DEF NoAttempt, Attempt, Absent, Delivery, Stage
    <2>3. [state |-> "INPUT_TRANSFERRING", generation |-> 0, deadline |-> NoTime, timer |-> FALSE]
             \in TaskRuntime
        BY DEF TaskRuntime, Alive
    <2> HIDE DEF fresh
    <2> QED BY <2>1, <2>2, <2>3 DEF Init, World, Time, fresh
<1>2. fresh \in Service /\ fresh.running /\ ServiceCore(fresh, 0) /\ DispatchArmed(fresh)
    <2>1. NewService \in Service /\ ServiceInv(NewService, 0)
        BY NewServiceSound DEF Time
    <2>2. /\ fresh \in Service /\ fresh.running /\ fresh.hasCurrent = FALSE
          /\ fresh.queue = NewService.queue /\ fresh.owner = NoTask /\ fresh.runningRecovery = FALSE
          /\ fresh.completion = FALSE /\ fresh.known = NewService.known /\ fresh.busy = 0
        BY <2>1 DEF NewService, Service
    <2>3. Conserved(fresh)
        BY <2>1 DEF ServiceInv, ServiceCore, Conserved, Service
    <2>4. QueueSane(fresh, 0) /\ CurrentSane(fresh, 0)
        BY <2>1, <2>2 DEF ServiceInv, ServiceCore, QueueSane, CurrentSane
    <2>5. SlotOwned(fresh) /\ CompletionTimely(fresh, 0) /\ BusyBounded(fresh, 0)
        BY <2>2 DEF SlotOwned, CompletionTimely, BusyBounded, BusyTimeNs
    <2>6. DispatchArmed(fresh)
        BY <2>2 DEF DispatchArmed, CanDispatch, NewService
    <2> QED BY <2>2, <2>3, <2>4, <2>5, <2>6 DEF ServiceCore
<1>3. /\ fresh.hasCurrent = FALSE /\ fresh.queue = {} /\ fresh.owner = NoTask /\ fresh.known = {}
      /\ fresh.available
    BY DEF NewService
<1> HIDE DEF fresh
<1>4. WorldOK(w)
    <2>1. IsFiniteSet(w.store)
        BY <1>1, FS_EmptySet
    <2>2. ASSUME NEW n \in Server PROVE NodeOK(w, n)
        <3>1. {o \in w.store : o.node = n} = {}
            BY <1>1
        <3>2. Free(w, n) = Capacity[n]
            BY <3>1, FS_EmptySet, WorkAssumption DEF Free
        <3>3. Free(w, n) >= 0
            BY <3>2, WorkAssumption
        <3> QED BY <1>1, <1>2, <3>3 DEF NodeOK
    <2> QED BY <1>1, <2>1, <2>2 DEF WorldOK
<1>5. ASSUME NEW t \in Task PROVE TaskOK(w, t) /\ Exposed(w, t, {}, {})
    <2>1. t # NoTask
        BY TaskAssumption DEF NoTask
    <2>2. /\ w.task[t].state = "INPUT_TRANSFERRING" /\ w.task[t].generation = 0
          /\ w.task[t].timer = FALSE /\ w.attempt[t] = NoAttempt
          /\ w.attempt[t].live = FALSE /\ w.attempt[t].started = FALSE
        <3>1. NoAttempt.live = FALSE /\ NoAttempt.started = FALSE
            BY DEF NoAttempt
        <3> QED BY <1>1, <3>1
    <2>3. Located(w, t)
        BY <1>1, <1>3, <2>1 DEF Located, Runs
    <2>4. Joined(w, t) /\ Timed(w, t) /\ Exposed(w, t, {}, {})
        BY <2>2 DEF Joined, Timed, Exposed
    <2>5. Primary(w, t)
        <3>1. HostNode[t] \in Server
            BY NodeAssumption
        <3> QED BY <1>1, <1>3, <2>2, <3>1 DEF Primary
    <2>6. 0 # 1
        OBVIOUS
    <2> QED BY <2>2, <2>3, <2>4, <2>5, <2>6 DEF TaskOK
<1> QED BY <1>4, <1>5 DEF Sound

LEMMA InitKeeps ==
    Init => IInv
<1> SUFFICES ASSUME Init PROVE IInv
    OBVIOUS
<1>1. faults = 0 /\ batched = FALSE
    BY DEF Init
<1>2. Sound(w, {}, {})
    BY InitSound
<1>3. faults \in 0..MaxFaults
    BY <1>1, BoundAssumption
<1>4. batched \in BOOLEAN
    BY <1>1
<1> QED BY <1>2, <1>3, <1>4 DEF IInv

LEMMA NextKeeps ==
    IInv /\ [Next]_vars => IInv'
<1> SUFFICES ASSUME IInv, [Next]_vars PROVE IInv'
    OBVIOUS
<1>1. Sound(w, {}, {}) /\ faults \in 0..MaxFaults /\ batched \in BOOLEAN
    BY DEF IInv
<1>2. ASSUME NEW t \in Task, Event(t), UNCHANGED <<faults, batched>> PROVE IInv'
    BY <1>1, <1>2, EventKeeps DEF IInv
<1>3. ASSUME NEW n \in Server, Dispatch(n) \/ Completes(n), UNCHANGED <<faults, batched>> PROVE IInv'
    BY <1>1, <1>3, ServiceEventKeeps DEF IInv
<1>4. CASE FaultBatch
    BY <1>4, FaultBatchKeeps
<1>5. CASE Tick
    <2>1. batched' = FALSE /\ faults' = faults
        BY <1>5 DEF Tick
    <2> QED BY <1>1, <1>5, <2>1, TickKeeps DEF IInv
<1>6. CASE FinalizeSimulation
    <2> DEFINE z == w'
    <2>1. z = Finalize(w) /\ faults' = faults /\ batched' = batched
        BY <1>6 DEF FinalizeSimulation
    <2> HIDE DEF z
    <2>2. Sound(z, {}, {})
        BY <1>1, <2>1, FinalizeSound
    <2> QED BY <1>1, <2>1, <2>2 DEF IInv, z
<1>7. CASE UNCHANGED vars
    BY <1>1, <1>7 DEF IInv, vars
<1> QED BY <1>2, <1>3, <1>4, <1>5, <1>6, <1>7 DEF Next

\* IInv is inductive: whatever the order of events, each of them finds what
\* the handlers before it left in agreement, and leaves it so.
THEOREM InductiveInvariant == Spec => []IInv
BY InitKeeps, NextKeeps, PTL DEF Spec

-----------------------------------------------------------------------------
(* What the invariant says of one task *)

LEMMA OwnInvariant ==
    ASSUME IInv, NEW t \in Task
    PROVE  /\ w \in World /\ TaskOK(w, t) /\ Exposed(w, t, {}, {})
           /\ w.task[t] \in TaskRuntime /\ w.attempt[t] \in Attempt
           /\ \A n \in Server : NodeOK(w, n) /\ w.svc[n] \in Service
<1>1. /\ WorldOK(w) /\ TaskOK(w, t) /\ Exposed(w, t, {}, {})
    BY DEF IInv, Sound
<1>2. w \in World
    BY <1>1 DEF WorldOK
<1>3. \A n \in Server : NodeOK(w, n)
    BY <1>1 DEF WorldOK
<1> QED BY <1>1, <1>2, <1>3, WorldTypes

\* A task without a recovery has no attempt; one with a recovery has passed
\* through exactly one of five stages.
LEMMA Phases ==
    ASSUME IInv, NEW t \in Task
    PROVE  \/ w.task[t].generation = 0 /\ Primary(w, t) /\ w.attempt[t] = NoAttempt
           \/ w.task[t].generation = 1 /\ Recovery(w, t)
<1>1. TaskOK(w, t) /\ w.task[t].generation \in {0, 1}
    BY OwnInvariant DEF TaskRuntime
<1> QED BY <1>1 DEF TaskOK, Primary

LEMMA Agreement ==
    ASSUME IInv
    PROVE  AttemptsAgree
<1> SUFFICES ASSUME NEW t \in Task, w.task[t].generation = 1
             PROVE  LET r == w.attempt[t] s == w.task[t].state IN
                    /\ Live(t) <=> s \notin TerminalState
                    /\ s = "RECOVERING" <=> Live(t) /\ r.stage \in {"RUNNING", "RECOVERING"}
                    /\ s = "RUNNING_BACKUP" <=> r.stage = "RUNNING_BACKUP"
                    /\ s = "RESULT_TRANSFERRING" <=> r.stage = "RESULT"
                    /\ s = "COMPLETED" <=> r.stage = "COMPLETED"
                    /\ r.stage = "RECOVERING" =>
                         w.svc[r.node].owner = t /\ ~w.svc[r.node].runningRecovery
                    /\ r.stage = "RUNNING_BACKUP" =>
                         w.svc[r.node].runningRecovery /\ Runs(w.svc[r.node], t)
    BY DEF AttemptsAgree
<1>1. Recovery(w, t)
    BY OwnInvariant DEF TaskOK
<1>2. CASE Deciding(w, t)
    BY <1>2 DEF Deciding, Live, TerminalState
<1>3. CASE Waiting(w, t, {})
    BY <1>3 DEF Waiting, Live, TerminalState
<1>4. CASE Computing(w, t) /\ Occupies(w, t, w.attempt[t].node, TRUE)
    BY <1>4 DEF Computing, Past, Occupies, Live, TerminalState
<1>5. CASE Resulting(w, t)
    BY <1>5 DEF Resulting, Past, Live, TerminalState
<1>6. CASE Ended(w, t)
    BY <1>6 DEF Ended, Live, Terminal, TerminalState
<1> QED BY <1>1, <1>2, <1>3, <1>4, <1>5, <1>6 DEF Recovery

\* What the attempt that owns a slot is doing.
LEMMA OwnersStage ==
    ASSUME IInv, NEW n \in Server, w.svc[n].owner # NoTask
    PROVE  LET o == w.svc[n].owner IN
           /\ o \in Task /\ w.attempt[o].live /\ w.attempt[o].node = n
           /\ w.task[o].state \in {"RECOVERING", "RUNNING_BACKUP"}
<1> DEFINE o == w.svc[n].owner
<1>1. o \in Task
    <2>1. w.svc[n] \in Service
        BY WorldTypes DEF IInv, Sound, WorldOK
    <2> QED BY <2>1 DEF Service
<1>2. w.attempt[o].live /\ w.attempt[o].node = n /\ w.attempt[o].stage \in {"RECOVERING", "RUNNING_BACKUP"}
    <2>1. Located(w, o)
        BY <1>1, OwnInvariant DEF TaskOK
    <2> QED BY <2>1 DEF Located
<1>3. w.task[o].generation = 1
    <2>1. NoAttempt.live = FALSE
        BY DEF NoAttempt
    <2> QED BY <1>1, <1>2, <2>1, Phases
<1>4. AttemptsAgree
    BY Agreement
<1>5. w.task[o].state \in {"RECOVERING", "RUNNING_BACKUP"}
    BY <1>1, <1>2, <1>3, <1>4 DEF AttemptsAgree, Live
<1> QED BY <1>1, <1>2, <1>5

LEMMA Released ==
    ASSUME IInv
    PROVE  NothingOutlives
<1>1. ASSUME NEW n \in Server, w.svc[n].owner # NoTask
      PROVE  Accepted(w.svc[n].owner) /\ w.attempt[w.svc[n].owner].node = n
    BY <1>1, OwnersStage, NodeAssumption DEF Accepted, Live
<1>2. ASSUME NEW t \in Task, Terminal(w, t)
      PROVE  /\ \A n \in Server : ~Runs(w.svc[n], t)
             /\ \A o \in w.store : o.task # t
             /\ ~w.task[t].timer
    <2>1. ~w.task[t].timer
        BY <1>2, OwnInvariant DEF TaskOK, Timed, Terminal, TerminalState
    <2>2. CASE w.task[t].generation = 0 /\ Primary(w, t)
        <3>1. NoAttempt.live = FALSE /\ w.attempt[t] = NoAttempt
            BY <2>2 DEF Primary, NoAttempt
        <3>2. \A n \in Server : ~Runs(w.svc[n], t)
            BY <1>2, <3>1, OwnInvariant DEF TaskOK, Located, Terminal, TerminalState
        <3>3. \A o \in w.store : o.task # t
            BY <1>2, <2>2 DEF Primary, Terminal, TerminalState
        <3> QED BY <2>1, <3>2, <3>3
    <2>3. CASE w.task[t].generation = 1 /\ Recovery(w, t)
        <3>1. Ended(w, t)
            BY <1>2, <2>3 DEF Recovery, Deciding, Waiting, Computing, Resulting, Terminal, TerminalState
        <3>2. \A n \in Server : ~Runs(w.svc[n], t)
            <4>1. ~w.attempt[t].live /\ w.task[t].state # "RUNNING"
                BY <3>1 DEF Ended, Terminal, TerminalState
            <4> QED BY <4>1, OwnInvariant DEF TaskOK, Located
        <3> QED BY <2>1, <3>1, <3>2 DEF Ended, Stores
    <2> QED BY <2>2, <2>3, Phases
<1>3. ASSUME NEW t \in Task, ~Live(t)
      PROVE  /\ {w.attempt[t].decide, w.attempt[t].merge} = {NoTime}
             /\ \A k \in Kind : w.attempt[t].delivery[k].step \notin {"local", "flying"}
    <2>1. CASE w.attempt[t] = NoAttempt
        <3>1. /\ NoAttempt.decide = NoTime /\ NoAttempt.merge = NoTime
              /\ \A k \in Kind : NoAttempt.delivery[k].step = "none"
            BY DEF NoAttempt, Absent
        <3> QED BY <2>1, <3>1
    <2>2. CASE Recovery(w, t)
        <3>1. Ended(w, t)
            BY <1>3, <2>2 DEF Recovery, Deciding, Waiting, Computing, Resulting, Past, Live
        <3> QED BY <3>1 DEF Ended
    <2> QED BY <2>1, <2>2, Phases
<1> QED BY <1>1, <1>2, <1>3 DEF NothingOutlives

LEMMA Bounded ==
    ASSUME IInv
    PROVE  SlotBounded
<1> SUFFICES ASSUME NEW n \in Server, w.svc[n].owner # NoTask
             PROVE  w.now <= w.task[w.svc[n].owner].deadline
    BY DEF SlotBounded
<1> DEFINE o == w.svc[n].owner
<1>1. o \in Task /\ w.task[o].state \in {"RECOVERING", "RUNNING_BACKUP"}
    BY OwnersStage
<1>2. Timed(w, o)
    BY <1>1, OwnInvariant DEF TaskOK
<1> QED BY <1>1, <1>2 DEF Timed

\* A recovery that waits has something to wait for.
LEMMA WaitsForSomething ==
    ASSUME IInv, NEW t \in Task, Waiting(w, t, {}), Merging(w, t),
           ~(StateReady(w, t) /\ InputReady(w, t)), w.attempt[t].merge = NoTime
    PROVE  \E k \in Kind : w.attempt[t].delivery[k].step \in {"local", "queued", "flying"}
<1> DEFINE r == w.attempt[t]
<1>1. r \in Attempt
    BY OwnInvariant
<1>2. SUFFICES ASSUME \A k \in Kind : r.delivery[k].step \notin {"local", "queued", "flying"}
               PROVE  FALSE
    OBVIOUS
<1>3. \A k \in Kind : r.delivery[k].step \in {"none", "received"}
    <2>1. \A k \in Kind : r.delivery[k] \in Delivery
        BY <1>1 DEF Attempt
    <2> QED BY <1>2, <2>1 DEF Delivery
<1>4. \A k \in Kind : Wanted(w, t, k) => Received(w, t, k)
    BY <1>3 DEF Waiting, Received
<1>5. InputReady(w, t)
    BY <1>4 DEF InputReady, Kind
<1>6. StateReady(w, t)
    <2>1. Migrates(r.path) => Received(w, t, "STATE")
        BY <1>4 DEF Wanted, Kind
    <2>2. TakesTail(r.path) => Received(w, t, "TAIL")
        BY <1>4 DEF Wanted, Kind
    <2>3. TakesTail(r.path) => r.committed
        BY <2>1, <2>2 DEF Merging, TailReady
    <2>4. r.path \in Path
        BY DEF Waiting
    <2> QED BY <2>1, <2>3, <2>4 DEF StateReady, Path, Migrates, TakesTail
<1> QED BY <1>2, <1>5, <1>6

LEMMA JoinIsExactNow ==
    ASSUME IInv
    PROVE  JoinExact
<1>1. ASSUME NEW t \in Task, w.attempt[t].stage = "RECOVERING"
      PROVE  \/ w.attempt[t].merge # NoTime
             \/ \E k \in Kind : w.attempt[t].delivery[k].step \in {"local", "queued", "flying"}
    <2>1. NoAttempt.stage = "RUNNING"
        BY DEF NoAttempt
    <2>2. Recovery(w, t)
        BY <1>1, <2>1, Phases
    <2>3. Waiting(w, t, {}) /\ Merging(w, t) /\ ~(StateReady(w, t) /\ InputReady(w, t))
        BY <1>1, <2>2 DEF Recovery, Deciding, Computing, Resulting, Ended, Terminal, TerminalState
    <2> QED BY <2>3, WaitsForSomething
<1>2. ASSUME NEW t \in Task, w.attempt[t].started
      PROVE  LET r == w.attempt[t] IN
             /\ w.deferred \/ r.path = "RECOMPUTE" => Received(w, t, "INPUT")
             /\ r.path \in {"MIGRATE_REDO", "MIGRATE_TAIL"} => Received(w, t, "STATE")
             /\ r.path \in {"TAIL", "MIGRATE_TAIL"} => r.committed
    <2>1. Joined(w, t)
        BY OwnInvariant DEF TaskOK
    <2> QED BY <1>2, <2>1 DEF Joined, InputReady, Wanted, Migrates, TakesTail
<1> QED BY <1>1, <1>2 DEF JoinExact

LEMMA Dependent ==
    ASSUME IInv
    PROVE  DependenciesAlive
<1> SUFFICES ASSUME NEW t \in Task, Accepted(t)
             PROVE  /\ ~Down(w, w.attempt[t].node) /\ ~Down(w, ResultNode[t])
                    /\ \A k \in Kind : w.attempt[t].delivery[k].step \in {"local", "queued", "flying"} =>
                                        ~Down(w, From(w, t, k)) /\ ~Down(w, Into(w, t, k))
    BY DEF DependenciesAlive
<1> DEFINE r == w.attempt[t]
<1>1. r.live /\ r.node # NoNode
    BY DEF Accepted, Live
<1>2. \A n : Needs(w, t, n) => ~Down(w, n)
    <2>1. \A n \in w.dead : ~Needs(w, t, n)
        BY <1>1, OwnInvariant DEF Exposed
    <2> QED BY <2>1 DEF Down
<1>3. ~Down(w, r.node) /\ ~Down(w, ResultNode[t])
    BY <1>2 DEF Needs
<1>4. ASSUME NEW k \in Kind, r.delivery[k].step \in {"local", "queued", "flying"}, k # "RESULT"
      PROVE  Wanted(w, t, k) /\ ~Received(w, t, k)
    <2>1. ~Received(w, t, k)
        BY <1>4 DEF Received
    <2>2. Recovery(w, t)
        <3>1. NoAttempt.live = FALSE
            BY DEF NoAttempt
        <3> QED BY <1>1, <3>1, Phases
    <2>3. ~Deciding(w, t)
        <3>1. ASSUME Deciding(w, t) PROVE r.node = NoNode
            BY <3>1, ZenonT(60) DEF Deciding, NoAttempt
        <3> QED BY <1>1, <3>1
    <2>4. ~Past(w, t)
        BY <1>4 DEF Past
    <2>5. Waiting(w, t, {})
        BY <1>1, <2>2, <2>3, <2>4 DEF Recovery, Computing, Resulting, Ended
    <2>6. r.delivery[k].step # "none"
        BY <1>4
    <2> QED BY <2>1, <2>5, <2>6 DEF Waiting
<1>5. ASSUME NEW k \in Kind, r.delivery[k].step \in {"local", "queued", "flying"}
      PROVE  ~Down(w, From(w, t, k)) /\ ~Down(w, Into(w, t, k))
    <2>1. CASE k = "RESULT"
        <3>1. From(w, t, k) = r.node /\ Into(w, t, k) = ResultNode[t]
            BY <2>1 DEF From, Into
        <3> QED BY <1>3, <3>1
    <2>2. CASE k # "RESULT"
        <3>1. Wanted(w, t, k) /\ ~Received(w, t, k)
            BY <1>4, <1>5, <2>2
        <3>2. Into(w, t, k) = r.node
            BY <2>2 DEF Into
        <3>3. Needs(w, t, From(w, t, k))
            <4>1. CASE k = "INPUT"
                BY <3>1, <4>1 DEF Wanted, Needs, From
            <4>2. CASE k = "STATE"
                BY <3>1, <4>2 DEF Wanted, Needs, From
            <4>3. CASE k = "TAIL"
                BY <3>1, <4>3 DEF Wanted, Needs, From
            <4> QED BY <2>2, <4>1, <4>2, <4>3 DEF Kind
        <3> QED BY <1>2, <1>3, <3>2, <3>3
    <2> QED BY <2>1, <2>2
<1> QED BY <1>3, <1>5

\* What a fault batch that loses no satellite does to an accepted recovery.
LEMMA OutageKeepsRecovery ==
    ASSUME IInv, FaultBatch, w'.dead = w.dead, NEW t \in Task, Accepted(t)
    PROVE  LET n == w.attempt[t].node IN
           \/ /\ w'.attempt[t] = w.attempt[t]
              /\ w.svc[n].owner = t => w'.svc[n].owner = t
              /\ Runs(w.svc[n], t) => w'.svc[n].current = w.svc[n].current /\ w'.svc[n].completion
           \/ CanCompleteIfDue(w.svc[n], t, w.now)
<1> DEFINE n == w.attempt[t].node
<1>1. w.attempt[t].live /\ n \in Server
    <2>1. w.attempt[t] \in Attempt
        BY OwnInvariant
    <2> QED BY <2>1 DEF Accepted, Live, Attempt
<1>2. w.task[t].generation = 1
    <2>1. NoAttempt.live = FALSE
        BY DEF NoAttempt
    <2> QED BY <1>1, <2>1, Phases
<1>3. IInv' /\ Spares(w, w', t)
    BY <1>2, FaultBatchKeeps
<1>4. CASE Beside(w, w', t)
    <2> DEFINE z == w'
    <2>1. z.attempt[t] = w.attempt[t] /\ Unmoved(z.svc[n], w.svc[n], t)
        BY <1>1, <1>4 DEF Beside
    <2>2. w.svc[n].owner = t => z.svc[n].owner = t
        BY <2>1 DEF Unmoved
    <2>3. ASSUME Runs(w.svc[n], t)
          PROVE  z.svc[n].current = w.svc[n].current /\ z.svc[n].completion
        <3>1. z.svc[n].current = w.svc[n].current /\ z.svc[n].hasCurrent
            BY <2>1, <2>3 DEF Unmoved, Runs
        <3>2. NodeOK(z, n)
            BY <1>1, <1>3, SMTT(30) DEF IInv, Sound, WorldOK
        <3>3. z.svc[n].completion <=> z.svc[n].running /\ z.svc[n].hasCurrent
            BY <3>2 DEF NodeOK, ServiceCore, CompletionTimely
        <3> QED BY <3>1, <3>2, <3>3 DEF NodeOK
    <2> QED BY <2>1, <2>2, <2>3
<1>5. CASE DueAt(w, t)
    <2>1. PICK m \in Server : Runs(w.svc[m], t) /\ CanCompleteIfDue(w.svc[m], t, w.now)
        BY <1>5 DEF DueAt
    <2>2. m = n
        BY <1>1, <2>1, <1>2, OwnInvariant, 0 # 1 DEF TaskOK, Located
    <2> QED BY <2>1, <2>2
<1> QED BY <1>3, <1>4, <1>5 DEF Spares

-----------------------------------------------------------------------------

\* The world keeps the types of its parts, whatever the order of events.
THEOREM TypeCorrect == Spec => []TypeOK
<1>1. IInv => TypeOK
    BY DEF IInv, Sound, WorldOK, TypeOK
<1> QED BY InductiveInvariant, <1>1, PTL

\* No check of the controller, the coordinator, the attempt or the storage
\* pools is ever tripped, and no pool holds more than its capacity.
THEOREM ChecksHold == Spec => []NeverAborts
<1>1. IInv => NeverAborts
    BY DEF IInv, Sound, WorldOK, NodeOK, TypeOK, NeverAborts
<1> QED BY InductiveInvariant, <1>1, PTL

\* A task, its attempt and the service that executes it tell the same story.
THEOREM StoriesAgree == Spec => []AttemptsAgree
BY InductiveInvariant, Agreement, PTL

\* What has ended, and what waits for a decision, holds nothing.
THEOREM EndsHoldNothing == Spec => []NothingOutlives
BY InductiveInvariant, Released, PTL

\* The join of a recovery's dependencies is exact, in every order of arrival.
THEOREM JoinIsExact == Spec => []JoinExact
BY InductiveInvariant, JoinIsExactNow, PTL

\* No accepted recovery survives a satellite that it still needs.
THEOREM DependenciesAreAlive == Spec => []DependenciesAlive
BY InductiveInvariant, Dependent, PTL

\* No slot is kept beyond the deadline of the task it is reserved for.
THEOREM SlotsAreBounded == Spec => []SlotBounded
BY InductiveInvariant, Bounded, PTL

\* Outages of compute services take nothing from an accepted recovery, except
\* that a completion which is due still counts.
THEOREM OutagesSpareRecoveries == Spec => OutageSpares
<1> DEFINE Keeps ==
             \A t \in Task :
               Accepted(t) /\ batched' # batched /\ w.now' = w.now /\ w.dead' = w.dead
                 => LET n == w.attempt[t].node IN
                    \/ /\ w'.attempt[t] = w.attempt[t]
                       /\ w.svc[n].owner = t => w'.svc[n].owner = t
                       /\ Runs(w.svc[n], t) => w'.svc[n].current = w.svc[n].current /\ w'.svc[n].completion
                    \/ CanCompleteIfDue(w.svc[n], t, w.now)
<1>1. ASSUME IInv, [Next]_vars PROVE [Keeps]_vars
    <2>1. CASE FaultBatch
        BY <1>1, <2>1, OutageKeepsRecovery
    <2>2. CASE Tick
        <3>1. w \in World
            BY <1>1 DEF IInv, Sound, WorldOK
        <3>2. w'.now = w.now + 1 /\ w.now \in Nat
            BY <2>2, <3>1, WorldTypes DEF Tick, World, Time
        <3> QED BY <3>2
    <2>3. CASE batched' = batched
        BY <2>3
    <2>4. CASE UNCHANGED vars
        BY <2>4
    <2> QED BY <1>1, <2>1, <2>2, <2>3, <2>4 DEF Next, FinalizeSimulation
<1>2. IInv /\ [Next]_vars => [Keeps]_vars
    BY <1>1
<1> QED BY InductiveInvariant, <1>2, PTL DEF Spec, OutageSpares

\* The run ends in agreement: when the program finalizes, every task has
\* either completed or failed.
THEOREM FinalizationEndsTasks ==
    Spec => [][FinalizeSimulation => \A t \in Task : Terminal(w', t)]_vars
<1>1. ASSUME IInv, FinalizeSimulation PROVE \A t \in Task : Terminal(w', t)
    <2> DEFINE z == w'
    <2>1. z = Finalize(w) /\ Sound(w, {}, {})
        BY <1>1 DEF FinalizeSimulation, IInv
    <2> HIDE DEF z
    <2>2. \A t \in Task : Terminal(z, t)
        BY <2>1, FinalizeSound
    <2> QED BY <2>2 DEF z
<1>2. IInv /\ [Next]_vars => [FinalizeSimulation => \A t \in Task : Terminal(w', t)]_vars
    BY <1>1
<1> QED BY InductiveInvariant, <1>2, PTL DEF Spec

=============================================================================
