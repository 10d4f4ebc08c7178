------------------------ MODULE ReplicaManager_proofs ------------------------
(***************************************************************************)
(* What 1+1 execution keeps, for every set of tasks and satellites, every   *)
(* choice of the policy, every sequence of faults and every order of        *)
(* results, deadlines and deliveries.                                       *)
(***************************************************************************)
EXTENDS ReplicaManager, ComputeServiceOps_proofs

-----------------------------------------------------------------------------
(* What holds inside an event *)

Held == {"INPUT", "READY", "RUNNING"}  \* a replica has its slot
Open == Held \cup {"RESULT"}           \* the attempt may still win

\* A service; that its run may complete is said of the task that runs.
NodeOK(u, n) ==
    LET s == u.svc[n] IN
    /\ s \in Service /\ s.running /\ ServiceCore(s, u.now) /\ DispatchArmed(s)
    /\ n \in u.dead => ~s.available

WorldOK(u) == u \in World /\ u.ok /\ \A n \in Server : NodeOK(u, n)

\* What the services hold of a task whose attempts are p.
PlacesAt(svc, p, state, t) ==
    /\ p.stage[1] = "ABSENT" <=> p.node = NoNode
    /\ p.node # HostNode[t]
    /\ \A n \in Server :
         LET s == svc[n] IN
         /\ t \in s.known => n = p.node \/ (n = HostNode[t] /\ state # "INPUT_TRANSFERRING")
         /\ \A i \in s.queue : i.task = t => n = HostNode[t] /\ state = "QUEUED"
         /\ s.owner = t <=> n = p.node /\ p.stage[1] \in Held
         /\ s.owner = t => (s.immune <=> p.immune)
         /\ Runs(s, t) <=> \/ n = HostNode[t] /\ p.stage[0] = "RUNNING"
                           \/ n = p.node /\ p.stage[1] = "RUNNING"
         /\ Runs(s, t) => (s.runningRecovery <=> n = p.node)

Places(u, t) == PlacesAt(u.svc, u.pair[t], u.task[t].state, t)

\* The load ledger has a replica that may win, and one that computes alone.
Ledger(u, t) ==
    LET p == u.pair[t] IN
    /\ u.assigned[t] = IF p.stage[1] \in Open THEN p.node ELSE NoNode
    /\ u.recovering[t] = IF p.immune /\ p.stage[1] \in Held THEN p.node ELSE NoNode

\* The attempt a delivery is of, and the stage it belongs to.
Of(k) == IF k = "PRIMARY_RESULT" THEN 0 ELSE 1
Needs(k) == IF k = "INPUT" THEN "INPUT" ELSE "RESULT"

\* The attempts of a task that has started,
Attempts(p, a, now) ==
    /\ p.stage[0] \notin {"ABSENT", "INPUT", "READY"} /\ a.deadline \in Time
    /\ a.state \notin {"INPUT_TRANSFERRING", "QUEUED"}
    /\ \A g \in Generation :
         /\ p.stage[g] \in Open => p.live
         /\ p.stage[g] \in Held => now <= a.deadline
         /\ p.stage[g] = "RESULT" =>
              /\ a.state = "RESULT_TRANSFERRING"
              /\ p.computed[g] # NoTime /\ p.computed[g] <= a.deadline
    /\ p.immune => p.stage[0] \notin Open
    /\ \A k \in Flow : p.flow[k].step = "flying" => p.flow[k] = Flying /\ p.stage[Of(k)] = Needs(k)

\* and its state.
Agrees(p, a) ==
    /\ p.live <=> a.state \in {"RUNNING", "RESULT_TRANSFERRING"}
    /\ ~p.live => a.state \in {"COMPLETED", "FAILED"} /\ ~a.timer
    /\ \A g \in Generation :
         p.stage[g] = "COMPLETED" => a.state = "COMPLETED" /\ p.stage[1 - g] # "COMPLETED"
    /\ a.state = "COMPLETED" => \E g \in Generation : p.stage[g] = "COMPLETED"

Unstarted(p, a) ==
    p = NoPair /\ a.state \in {"INPUT_TRANSFERRING", "QUEUED", "FAILED"} /\ ~a.timer

PairOK(u, t) ==
    \/ Unstarted(u.pair[t], u.task[t])
    \/ Attempts(u.pair[t], u.task[t], u.now) /\ Agrees(u.pair[t], u.task[t])

TaskOK(u, t) == PairOK(u, t) /\ Places(u, t) /\ Ledger(u, t)

\* A task that has started, in the middle of a handler.
Sane(u, t) == Attempts(u.pair[t], u.task[t], u.now) /\ Places(u, t) /\ Ledger(u, t)

\* Nothing that t needs is gone but for the satellites in `lost', and no attempt
\* runs on a closed service but for those in `closed'.
Exposed(u, t, closed, lost) ==
    LET p == u.pair[t] IN
    /\ u.task[t].state \in {"INPUT_TRANSFERRING", "QUEUED"} => ResultNode[t] \notin u.dead \ lost
    /\ \A g \in Generation :
         /\ p.stage[g] \in Open => {NodeOf(u, t, g), ResultNode[t]} \cap (u.dead \ lost) = {}
         /\ p.stage[g] = "RUNNING" =>
              \/ u.svc[NodeOf(u, t, g)].available \/ (g = 1 /\ p.immune)
              \/ NodeOf(u, t, g) \in closed

\* The deadline is still to come while something computes.
Timed(u, t) == \A g \in Generation : u.pair[t].stage[g] \in Held => u.task[t].timer

\* A live task has an attempt left, and one that is alone has taken over.
Backed(u, t) ==
    LET p == u.pair[t] IN
    p.live =>
      /\ \E g \in Generation : p.stage[g] \in Open
      /\ p.stage[1] \in Held /\ p.stage[0] \notin Open /\ u.svc[p.node].available => p.immune

Granted(u, t) ==
    LET p == u.pair[t] IN
    Backed(u, t) /\ (p.live /\ p.stage[1] = "READY" => ~u.svc[p.node].available /\ ~p.immune)

Calm(u, t) == TaskOK(u, t) /\ Exposed(u, t, {}, {}) /\ Timed(u, t) /\ Granted(u, t)

IInv ==
    /\ WorldOK(w) /\ \A t \in Task : Calm(w, t)
    /\ faults \in 0..MaxFaults /\ batched \in BOOLEAN

-----------------------------------------------------------------------------
(* Of a world, what concerns one task *)

\* v has of x what u has.
Beside(u, v, x) ==
    /\ v.now = u.now
    /\ v.task[x] = u.task[x] /\ v.pair[x] = u.pair[x]
    /\ v.assigned[x] = u.assigned[x] /\ v.recovering[x] = u.recovering[x]
    /\ \A n \in Server : Unmoved(v.svc[n], u.svc[n], x)

SameSky(u, v) == v.dead = u.dead /\ \A n \in Server : v.svc[n].available = u.svc[n].available

\* Nothing but the tasks of T has changed.
Only(u, v, T) == SameSky(u, v) /\ \A x \in Task \ T : Beside(u, v, x)

LEMMA BesideTransitive ==
    ASSUME NEW u, NEW v, NEW z, NEW x, Beside(u, v, x), Beside(v, z, x)
    PROVE  Beside(u, z, x)
BY UnmovedTransitive DEF Beside

LEMMA BesideReflexive ==
    ASSUME NEW u, NEW x
    PROVE  Beside(u, u, x)
BY UnmovedReflexive DEF Beside

LEMMA OnlyTransitive ==
    ASSUME NEW u, NEW v, NEW z, NEW T, Only(u, v, T), Only(v, z, T)
    PROVE  Only(u, z, T)
BY BesideTransitive DEF Only, SameSky

LEMMA OnlyReflexive ==
    ASSUME NEW u, NEW T
    PROVE  Only(u, u, T)
BY UnmovedReflexive DEF Only, SameSky, Beside

LEMMA WorldTypes ==
    ASSUME NEW u \in World
    PROVE  /\ u.now \in Time /\ u.ok \in BOOLEAN /\ u.ended \in BOOLEAN
           /\ u.svc \in [Server -> Service] /\ u.dead \subseteq Sat
           /\ u.task \in [Task -> TaskRuntime] /\ u.pair \in [Task -> Pair]
           /\ u.assigned \in [Task -> Server \cup {NoNode}]
           /\ u.recovering \in [Task -> Server \cup {NoNode}]
BY DEF World

LEMMA PairTypes ==
    ASSUME NEW p \in Pair
    PROVE  /\ p.live \in BOOLEAN /\ p.stage \in [Generation -> Stage]
           /\ p.stage[0] \in Stage /\ p.stage[1] \in Stage
           /\ p.node \in Server \cup {NoNode} /\ p.immune \in BOOLEAN
           /\ p.computed \in [Generation -> Time \cup {NoTime}]
           /\ p.flow \in [Flow -> Delivery]
BY DEF Pair, Generation

\* What is said of x in u can be said of it in v.
LEMMA BesidePlaces ==
    ASSUME NEW u, NEW v, NEW x \in Task, Beside(u, v, x), Places(u, x)
    PROVE  Places(v, x)
<1> DEFINE p == u.pair[x]
           state == u.task[x].state
<1>1. PlacesAt(u.svc, p, state, x)
    BY DEF Places
<1>2. \A n \in Server : Unmoved(v.svc[n], u.svc[n], x)
    BY DEF Beside
<1>3. v.pair[x] = p /\ v.task[x].state = state
    BY DEF Beside
<1> HIDE DEF p, state
<1>4. ASSUME NEW n \in Server
      PROVE  LET s == v.svc[n] IN
             /\ x \in s.known => n = p.node \/ (n = HostNode[x] /\ state # "INPUT_TRANSFERRING")
             /\ \A i \in s.queue : i.task = x => n = HostNode[x] /\ state = "QUEUED"
             /\ s.owner = x <=> n = p.node /\ p.stage[1] \in Held
             /\ s.owner = x => (s.immune <=> p.immune)
             /\ Runs(s, x) <=> \/ n = HostNode[x] /\ p.stage[0] = "RUNNING"
                               \/ n = p.node /\ p.stage[1] = "RUNNING"
             /\ Runs(s, x) => (s.runningRecovery <=> n = p.node)
    <2>1. Unmoved(v.svc[n], u.svc[n], x)
        BY <1>2
    <2> QED BY <1>1, <2>1 DEF PlacesAt, Unmoved
<1>5. PlacesAt(v.svc, p, state, x)
    BY <1>1, <1>4 DEF PlacesAt
<1> QED BY <1>3, <1>5 DEF Places

LEMMA BesideKeeps ==
    ASSUME NEW u, NEW v, NEW x \in Task, Beside(u, v, x)
    PROVE  /\ TaskOK(u, x) => TaskOK(v, x)
           /\ Sane(u, x) => Sane(v, x)
           /\ Timed(u, x) => Timed(v, x)
<1>1. Places(u, x) => Places(v, x)
    BY BesidePlaces
<1>2. PairOK(u, x) => PairOK(v, x)
    BY DEF PairOK, Beside
<1>3. Ledger(u, x) => Ledger(v, x)
    BY DEF Ledger, Beside
<1> QED BY <1>1, <1>2, <1>3 DEF TaskOK, Sane, Timed, Beside

LEMMA BesideExposed ==
    ASSUME NEW u \in World, NEW v, NEW x \in Task, NEW closed, NEW lost,
           Beside(u, v, x), SameSky(u, v), PairOK(u, x), Places(u, x), Exposed(u, x, closed, lost)
    PROVE  Exposed(v, x, closed, lost)
<1> DEFINE p == u.pair[x]
<1>1. p \in Pair /\ HostNode[x] \in Server
    BY WorldTypes, NodeAssumption
<1>2. p.stage[1] = "RUNNING" => p.node \in Server
    BY <1>1, PairTypes DEF Places, PlacesAt
<1>3. v.pair[x] = p /\ v.task[x] = u.task[x] /\ v.dead = u.dead
    BY DEF Beside, SameSky
<1>4. NodeOf(v, x, 0) = HostNode[x] /\ NodeOf(v, x, 1) = p.node
      /\ NodeOf(u, x, 0) = HostNode[x] /\ NodeOf(u, x, 1) = p.node
    BY <1>3 DEF NodeOf
<1>5. ASSUME NEW g \in Generation, p.stage[g] = "RUNNING"
      PROVE  \/ v.svc[NodeOf(v, x, g)].available \/ (g = 1 /\ p.immune)
             \/ NodeOf(v, x, g) \in closed
    <2>1. NodeOf(v, x, g) \in Server
        BY <1>1, <1>2, <1>4, <1>5 DEF Generation
    <2> QED BY <1>4, <1>5, <2>1 DEF Exposed, SameSky, Generation
<1> QED BY <1>3, <1>4, <1>5 DEF Exposed, Generation

LEMMA BesideGranted ==
    ASSUME NEW u \in World, NEW v, NEW x \in Task, Beside(u, v, x), SameSky(u, v), Places(u, x)
    PROVE  /\ Backed(u, x) => Backed(v, x)
           /\ Granted(u, x) => Granted(v, x)
<1> DEFINE p == u.pair[x]
<1>1. p \in Pair
    BY WorldTypes
<1>2. p.stage[1] \in Held => p.node \in Server
    BY <1>1, PairTypes DEF Places, PlacesAt, Held
<1>3. v.pair[x] = p
    BY DEF Beside
<1>4. p.stage[1] \in Held => v.svc[p.node].available = u.svc[p.node].available
    BY <1>2 DEF SameSky
<1> HIDE DEF p
<1>5. Backed(u, x) => Backed(v, x)
    BY <1>3, <1>4 DEF Backed, p
<1> QED BY <1>3, <1>4, <1>5 DEF Granted, Held, p

\* A task between two events keeps its order beside the events of others.
LEMMA BesideCalm ==
    ASSUME NEW u \in World, NEW v, NEW x \in Task, Beside(u, v, x), SameSky(u, v), Calm(u, x)
    PROVE  Calm(v, x)
<1>1. TaskOK(v, x) /\ Timed(v, x)
    BY BesideKeeps DEF Calm
<1>2. PairOK(u, x) /\ Places(u, x) /\ Exposed(u, x, {}, {}) /\ Granted(u, x)
    BY DEF Calm, TaskOK
<1>3. Exposed(v, x, {}, {}) /\ Granted(v, x)
    BY <1>2, BesideExposed, BesideGranted
<1> QED BY <1>1, <1>3 DEF Calm

\* The services svc may follow those of u when something is done for the tasks
\* of T.
Serves(u, svc, T) ==
    /\ svc \in [Server -> Service]
    /\ \A n \in Server :
         /\ svc[n].running /\ ServiceCore(svc[n], u.now) /\ DispatchArmed(svc[n])
         /\ svc[n].available = u.svc[n].available
         /\ \A x \in Task \ T : Unmoved(svc[n], u.svc[n], x)

LEMMA ServesSame ==
    ASSUME NEW u, WorldOK(u), NEW T
    PROVE  Serves(u, u.svc, T)
BY UnmovedReflexive, WorldTypes DEF Serves, WorldOK, NodeOK

LEMMA ServesOne ==
    ASSUME NEW u, WorldOK(u), NEW T, NEW n \in Server, NEW s \in Service,
           s.running, ServiceCore(s, u.now), DispatchArmed(s),
           s.available = u.svc[n].available, \A x \in Task \ T : Unmoved(s, u.svc[n], x)
    PROVE  Serves(u, [u.svc EXCEPT ![n] = s], T)
<1> DEFINE svc == [u.svc EXCEPT ![n] = s]
<1>1. u.svc \in [Server -> Service] /\ \A m \in Server : NodeOK(u, m)
    BY WorldTypes DEF WorldOK
<1>2. /\ svc \in [Server -> Service] /\ svc[n] = s
      /\ \A m \in Server : m # n => svc[m] = u.svc[m]
    BY <1>1
<1> HIDE DEF svc
<1>3. ASSUME NEW m \in Server
      PROVE  /\ svc[m].running /\ ServiceCore(svc[m], u.now) /\ DispatchArmed(svc[m])
             /\ svc[m].available = u.svc[m].available
             /\ \A x \in Task \ T : Unmoved(svc[m], u.svc[m], x)
    <2>1. CASE m = n
        BY <1>2, <2>1
    <2>2. CASE m # n
        BY <1>1, <1>2, <2>2, UnmovedReflexive DEF NodeOK
    <2> QED BY <2>1, <2>2
<1>4. Serves(u, svc, T)
    BY <1>2, <1>3 DEF Serves
<1> QED BY <1>4 DEF svc

\* z has the fields of a world.
Shaped(z) ==
    z = [now |-> z.now, ok |-> z.ok, ended |-> z.ended, svc |-> z.svc, dead |-> z.dead,
         task |-> z.task, pair |-> z.pair, assigned |-> z.assigned, recovering |-> z.recovering]

\* What an operation for t does to the world: other records of t, and other
\* services, where what is of the tasks of T has changed.
Sets(u, z, t, a, p, m, r, svc, T) ==
    /\ Shaped(z) /\ z.now = u.now /\ z.ok = TRUE /\ z.ended = u.ended /\ z.dead = u.dead
    /\ z.svc = svc
    /\ z.task = [u.task EXCEPT ![t] = a] /\ z.pair = [u.pair EXCEPT ![t] = p]
    /\ z.assigned = [u.assigned EXCEPT ![t] = m] /\ z.recovering = [u.recovering EXCEPT ![t] = r]
    /\ a \in TaskRuntime /\ p \in Pair /\ m \in Server \cup {NoNode} /\ r \in Server \cup {NoNode}
    /\ Serves(u, svc, T)

Puts(u, z, t, a, p, m, r, svc) == Sets(u, z, t, a, p, m, r, svc, {t})

LEMMA PutFields ==
    ASSUME NEW u \in World, NEW t \in Task, NEW z, NEW a, NEW p, NEW m, NEW r, NEW svc, NEW T,
           Sets(u, z, t, a, p, m, r, svc, T)
    PROVE  /\ z \in World /\ z.ok /\ z.now = u.now /\ z.dead = u.dead /\ z.ended = u.ended
           /\ z.svc = svc /\ z.task[t] = a /\ z.pair[t] = p
           /\ z.assigned[t] = m /\ z.recovering[t] = r
           /\ \A x \in Task \ {t} :
                /\ z.task[x] = u.task[x] /\ z.pair[x] = u.pair[x]
                /\ z.assigned[x] = u.assigned[x] /\ z.recovering[x] = u.recovering[x]
<1> DEFINE task == [u.task EXCEPT ![t] = a]
           pair == [u.pair EXCEPT ![t] = p]
           assigned == [u.assigned EXCEPT ![t] = m]
           recovering == [u.recovering EXCEPT ![t] = r]
<1>0. /\ a \in TaskRuntime /\ p \in Pair /\ m \in Server \cup {NoNode} /\ r \in Server \cup {NoNode}
      /\ svc \in [Server -> Service]
      /\ Shaped(z) /\ z.now = u.now /\ z.ok = TRUE /\ z.ended = u.ended /\ z.dead = u.dead /\ z.svc = svc
      /\ z.task = task /\ z.pair = pair /\ z.assigned = assigned /\ z.recovering = recovering
    BY DEF Sets, Serves
<1>1. /\ task \in [Task -> TaskRuntime] /\ task[t] = a /\ \A x \in Task \ {t} : task[x] = u.task[x]
      /\ pair \in [Task -> Pair] /\ pair[t] = p /\ \A x \in Task \ {t} : pair[x] = u.pair[x]
    BY <1>0, WorldTypes
<1>2. /\ assigned \in [Task -> Server \cup {NoNode}] /\ assigned[t] = m
      /\ \A x \in Task \ {t} : assigned[x] = u.assigned[x]
      /\ recovering \in [Task -> Server \cup {NoNode}] /\ recovering[t] = r
      /\ \A x \in Task \ {t} : recovering[x] = u.recovering[x]
    BY <1>0, WorldTypes
<1> HIDE DEF task, pair, assigned, recovering
<1>4. z \in World
    BY <1>0, <1>1, <1>2, WorldTypes DEF World, Shaped
<1> QED BY <1>0, <1>1, <1>2, <1>4

\* What is known of z after that.
Settles(u, z, t, a, p, m, r, svc, T) ==
    /\ WorldOK(z) /\ Only(u, z, {t} \cup T) /\ z.now = u.now /\ z.dead = u.dead
    /\ z.svc = svc /\ z.task[t] = a /\ z.pair[t] = p
    /\ z.assigned[t] = m /\ z.recovering[t] = r
    /\ \A x \in Task \ {t} :
         /\ z.task[x] = u.task[x] /\ z.pair[x] = u.pair[x]
         /\ z.assigned[x] = u.assigned[x] /\ z.recovering[x] = u.recovering[x]

LEMMA SetsSettles ==
    ASSUME NEW u, WorldOK(u), NEW t \in Task, NEW z, NEW a, NEW p, NEW m, NEW r, NEW svc, NEW T,
           Sets(u, z, t, a, p, m, r, svc, T)
    PROVE  Settles(u, z, t, a, p, m, r, svc, T)
<1>1. u \in World /\ u.ok /\ \A n \in Server : NodeOK(u, n)
    BY DEF WorldOK
<1>2. Serves(u, svc, T)
    BY DEF Sets
<1>3. /\ z \in World /\ z.ok /\ z.now = u.now /\ z.dead = u.dead
      /\ z.svc = svc /\ z.task[t] = a /\ z.pair[t] = p
      /\ z.assigned[t] = m /\ z.recovering[t] = r
      /\ \A x \in Task \ {t} :
           /\ z.task[x] = u.task[x] /\ z.pair[x] = u.pair[x]
           /\ z.assigned[x] = u.assigned[x] /\ z.recovering[x] = u.recovering[x]
    BY <1>1, PutFields
<1>4. \A n \in Server : NodeOK(z, n)
    BY <1>1, <1>2, <1>3 DEF Serves, NodeOK
<1>5. Only(u, z, {t} \cup T)
    BY <1>2, <1>3 DEF Serves, Only, SameSky, Beside
<1> QED BY <1>1, <1>3, <1>4, <1>5 DEF WorldOK, Settles

LEMMA SetsWorld ==
    ASSUME NEW u, WorldOK(u), NEW t \in Task, NEW z, NEW a, NEW p, NEW m, NEW r, NEW svc, NEW T,
           Sets(u, z, t, a, p, m, r, svc, T)
    PROVE  /\ WorldOK(z) /\ Only(u, z, {t} \cup T) /\ z.now = u.now /\ z.dead = u.dead
           /\ z.svc = svc /\ z.task[t] = a /\ z.pair[t] = p
           /\ z.assigned[t] = m /\ z.recovering[t] = r
           /\ \A x \in Task \ {t} :
                /\ z.task[x] = u.task[x] /\ z.pair[x] = u.pair[x]
                /\ z.assigned[x] = u.assigned[x] /\ z.recovering[x] = u.recovering[x]
<1>1. Settles(u, z, t, a, p, m, r, svc, T)
    BY SetsSettles
<1> QED BY <1>1 DEF Settles

LEMMA PutsWorld ==
    ASSUME NEW u, WorldOK(u), NEW t \in Task, NEW z, NEW a, NEW p, NEW m, NEW r, NEW svc,
           Puts(u, z, t, a, p, m, r, svc)
    PROVE  /\ WorldOK(z) /\ Only(u, z, {t}) /\ z.now = u.now /\ z.dead = u.dead
           /\ z.svc = svc /\ z.task[t] = a /\ z.pair[t] = p
           /\ z.assigned[t] = m /\ z.recovering[t] = r
<1>1. Sets(u, z, t, a, p, m, r, svc, {t})
    BY DEF Puts
<1>2. {t} \cup {t} = {t}
    OBVIOUS
<1> QED BY <1>1, <1>2, SetsWorld

-----------------------------------------------------------------------------
(* The end of an attempt *)

LEMMA ValidOpen ==
    ASSUME NEW u, NEW t, NEW g
    PROVE  Valid(u, t, g) <=> u.pair[t].stage[g] \in Open
BY DEF Valid, Open, Held

LEMMA TwoAttempts == Generation = {0, 1} /\ \A g \in Generation : 1 - g \in Generation /\ 1 - g # g
BY DEF Generation

LEMMA FlowsKnown ==
    /\ \A k \in Flow : Of(k) \in Generation /\ \A g \in Generation : k \in FlowsOf(g) <=> Of(k) = g
    /\ Absent \in Delivery /\ Flying \in Delivery
    /\ Absent.step = "none" /\ Flying.step = "flying" /\ Absent # Flying
<1>1. \A k \in Flow : Of(k) \in Generation /\ \A g \in Generation : k \in FlowsOf(g) <=> Of(k) = g
    BY DEF Flow, Of, FlowsOf, Generation
<1>2. Absent \in Delivery /\ Flying \in Delivery
    BY DEF Absent, Flying, Delivery
<1>3. Absent.step = "none" /\ Flying.step = "flying"
    BY DEF Absent, Flying
<1> QED BY <1>1, <1>2, <1>3

\* Of q, what is said of p can be said when attempts have ended.
Faded(p, q) ==
    /\ q.live = p.live /\ q.node = p.node /\ q.immune = p.immune /\ q.computed = p.computed
    /\ \A g \in Generation :
         \/ q.stage[g] = p.stage[g]
         \/ p.stage[g] \in Open /\ q.stage[g] \in {"FAILED", "CANCELLED"}

LEMMA EndedFacts ==
    ASSUME NEW p \in Pair, NEW g \in Generation, NEW end \in {"FAILED", "CANCELLED"},
           p.stage[g] \in Open, NEW q, q = Ended(p, g, end)
    PROVE  /\ q \in Pair /\ Faded(p, q) /\ q.stage[g] = end /\ q.stage[1 - g] = p.stage[1 - g]
           /\ \A k \in Flow : q.flow[k] = IF Of(k) = g /\ p.flow[k] = Flying THEN Absent ELSE p.flow[k]
           /\ \A a, now : Attempts(p, a, now) => Attempts(q, a, now)
<1> DEFINE stage == [p.stage EXCEPT ![g] = end]
           flow == [k \in Flow |-> IF k \in FlowsOf(g) /\ p.flow[k] = Flying THEN Absent ELSE p.flow[k]]
<1>1. stage \in [Generation -> Stage] /\ stage[g] = end /\ stage[1 - g] = p.stage[1 - g]
    BY PairTypes, TwoAttempts DEF Stage
<1>2. /\ flow \in [Flow -> Delivery]
      /\ \A k \in Flow : flow[k] = IF Of(k) = g /\ p.flow[k] = Flying THEN Absent ELSE p.flow[k]
    BY PairTypes, FlowsKnown
<1>3. q = [p EXCEPT !.stage = stage, !.flow = flow]
    BY DEF Ended
<1> HIDE DEF stage, flow
<1>4. q \in Pair /\ q.stage = stage /\ q.flow = flow /\ q.live = p.live /\ q.node = p.node
      /\ q.immune = p.immune /\ q.computed = p.computed
    BY <1>1, <1>2, <1>3 DEF Pair
<1>5. \A h \in Generation : h = g \/ h = 1 - g
    BY DEF Generation
<1>6. Faded(p, q)
    BY <1>1, <1>4, <1>5 DEF Faded
<1>7. ASSUME NEW a, NEW now, Attempts(p, a, now) PROVE Attempts(q, a, now)
    <2>1. q.stage[0] \notin {"ABSENT", "INPUT", "READY"}
        BY <1>6, <1>7 DEF Attempts, Faded, Generation
    <2>2. ASSUME NEW h \in Generation
          PROVE  /\ q.stage[h] \in Open => q.live
                 /\ q.stage[h] \in Held => now <= a.deadline
                 /\ q.stage[h] = "RESULT" =>
                      /\ a.state = "RESULT_TRANSFERRING"
                      /\ q.computed[h] # NoTime /\ q.computed[h] <= a.deadline
        <3>1. q.stage[h] = p.stage[h] \/ q.stage[h] \in {"FAILED", "CANCELLED"}
            BY <1>6 DEF Faded
        <3>2. CASE q.stage[h] = p.stage[h]
            BY <1>4, <1>7, <3>2 DEF Attempts
        <3>3. CASE q.stage[h] \in {"FAILED", "CANCELLED"}
            BY <3>3 DEF Open, Held
        <3> QED BY <3>1, <3>2, <3>3
    <2>3. q.immune => q.stage[0] \notin Open
        BY <1>4, <1>6, <1>7 DEF Attempts, Faded, Generation, Open, Held
    <2>4. ASSUME NEW k \in Flow, q.flow[k].step = "flying"
          PROVE  q.flow[k] = Flying /\ q.stage[Of(k)] = Needs(k)
        <3>1. q.flow[k] = p.flow[k] /\ p.flow[k] = Flying /\ p.stage[Of(k)] = Needs(k)
            BY <1>2, <1>4, <1>7, <2>4, FlowsKnown DEF Attempts
        <3>2. Of(k) # g /\ Of(k) \in Generation
            BY <1>2, <1>4, <3>1, FlowsKnown
        <3> QED BY <1>1, <1>4, <1>5, <3>1, <3>2
    <2> QED BY <1>7, <2>1, <2>2, <2>3, <2>4 DEF Attempts
<1> QED BY <1>1, <1>2, <1>4, <1>6, <1>7

\* In v, what t had in u and lost since is done with.
Fades(u, v, t) ==
    /\ WorldOK(v) /\ Only(u, v, {t}) /\ v.now = u.now /\ v.dead = u.dead
    /\ v.task[t] = u.task[t] /\ Faded(u.pair[t], v.pair[t])
    /\ Sane(v, t)

LEMMA FadesTransitive ==
    ASSUME NEW u, NEW v, NEW z, NEW t, Fades(u, v, t), Fades(v, z, t)
    PROVE  Fades(u, z, t)
<1>1. Only(u, z, {t})
    BY OnlyTransitive DEF Fades
<1>2. Faded(u.pair[t], z.pair[t])
    BY DEF Fades, Faded, Open, Held
<1> QED BY <1>1, <1>2 DEF Fades

LEMMA FadesReflexive ==
    ASSUME NEW u, NEW t, WorldOK(u), Sane(u, t)
    PROVE  Fades(u, u, t)
BY OnlyReflexive DEF Fades, Faded

\* Where t is, for a task that has started.
LEMMA SaneNode ==
    ASSUME NEW u, NEW t \in Task, WorldOK(u), Sane(u, t)
    PROVE  LET p == u.pair[t] IN
           /\ u \in World /\ u.ok /\ u.now \in Time
           /\ p \in Pair /\ u.task[t] \in TaskRuntime /\ HostNode[t] \in Server /\ HostNode[t] # NoNode
           /\ p.stage[0] # "ABSENT" /\ p.node # HostNode[t]
           /\ p.stage[1] # "ABSENT" <=> p.node \in Server
           /\ PlacesAt(u.svc, p, u.task[t].state, t)
           /\ u.task[t].state \notin {"INPUT_TRANSFERRING", "QUEUED"}
           /\ \A n \in Server : NodeOK(u, n) /\ u.svc[n] \in Service
<1>1. u \in World /\ u.ok /\ \A n \in Server : NodeOK(u, n)
    BY DEF WorldOK
<1>2. u.pair[t] \in Pair /\ u.task[t] \in TaskRuntime /\ u.now \in Time /\ u.svc \in [Server -> Service]
    BY <1>1, WorldTypes
<1>3. HostNode[t] \in Server /\ NoNode \notin Server
    BY NodeAssumption
<1>4. PlacesAt(u.svc, u.pair[t], u.task[t].state, t)
    BY DEF Sane, Places
<1>5. u.pair[t].node \in Server \cup {NoNode}
    BY <1>2, PairTypes
<1>6. u.pair[t].stage[0] # "ABSENT" /\ u.task[t].state \notin {"INPUT_TRANSFERRING", "QUEUED"}
    BY DEF Sane, Attempts
<1>7. /\ u.pair[t].node # HostNode[t]
      /\ u.pair[t].stage[1] # "ABSENT" <=> u.pair[t].node \in Server
    BY <1>3, <1>4, <1>5 DEF PlacesAt
<1> QED BY <1>1, <1>2, <1>3, <1>4, <1>6, <1>7

\* y is x without the entries of t in the ledger.
Frees(x, y, t) ==
    /\ y = [x EXCEPT !.assigned = y.assigned, !.recovering = y.recovering]
    /\ y.assigned = [x.assigned EXCEPT ![t] = NoNode]
    /\ y.recovering = [x.recovering EXCEPT ![t] = NoNode]

\* What is released is what is held, or nothing.
LEMMA ReleaseIs ==
    ASSUME NEW x \in World, x.ok, NEW t \in Task, NEW n,
           x.assigned[t] \in {NoNode, n}, x.recovering[t] \in {NoNode, n}
    PROVE  Frees(x, Release(x, t, n), t)
<1>1. Computes(x, t, n) = [x EXCEPT !.recovering = [x.recovering EXCEPT ![t] = NoNode]]
    BY DEF Computes, Must, World
<1> DEFINE y == Computes(x, t, n)
           z == Release(x, t, n)
<1>2. y.ok = TRUE /\ y.assigned = x.assigned
    BY <1>1 DEF World
<1>3. z = [Must(y, y.assigned[t] \in {NoNode, n})
           EXCEPT !.assigned = [y.assigned EXCEPT ![t] = NoNode]]
    BY <1>2 DEF Release, Must
<1>4. z.assigned = [x.assigned EXCEPT ![t] = NoNode]
    BY <1>1, <1>2, <1>3 DEF Must, World
<1>5. z.recovering = [x.recovering EXCEPT ![t] = NoNode]
    BY <1>1, <1>2, <1>3 DEF Must, World
<1>6. z = [x EXCEPT !.assigned = z.assigned, !.recovering = z.recovering]
    <2> DEFINE assigned == [x.assigned EXCEPT ![t] = NoNode]
               recovering == [x.recovering EXCEPT ![t] = NoNode]
    <2>1. y = [x EXCEPT !.recovering = recovering]
        BY <1>1
    <2>2. Must(y, y.assigned[t] \in {NoNode, n}) = y
        BY <1>1, <1>2 DEF Must, World
    <2>3. z = [y EXCEPT !.assigned = assigned]
        BY <1>2, <1>3, <2>2
    <2>4. z.assigned = assigned /\ z.recovering = recovering
        BY <1>4, <1>5
    <2> HIDE DEF assigned, recovering, y, z
    <2> QED BY <2>1, <2>3, <2>4 DEF World
<1> HIDE DEF z
<1> QED BY <1>4, <1>5, <1>6 DEF z, Frees

\* A replica that is ended gives its slot back, and leaves the ledger.
LEMMA CancelReplica ==
    ASSUME NEW u, NEW t \in Task, WorldOK(u), Sane(u, t), Valid(u, t, 1),
           NEW failed \in BOOLEAN, NEW v, v = Cancel(u, t, 1, failed)
    PROVE  /\ Fades(u, v, t) /\ v.pair[t].stage[1] \notin Open
           /\ v.pair[t].stage[0] = u.pair[t].stage[0]
<1> DEFINE p == u.pair[t]
           a == u.task[t]
           n == p.node
           s == u.svc[n]
           end == IF failed THEN "FAILED" ELSE "CANCELLED"
           q == Ended(p, 1, end)
           r == CancelRecovery(s, t, u.now)
           svc == [u.svc EXCEPT ![n] = r]
<1>1. /\ u \in World /\ u.ok /\ u.now \in Time /\ p \in Pair /\ a \in TaskRuntime
      /\ p.stage[1] # "ABSENT" <=> p.node \in Server
      /\ HostNode[t] \in Server /\ n # HostNode[t] /\ PlacesAt(u.svc, p, a.state, t)
      /\ \A m \in Server : NodeOK(u, m) /\ u.svc[m] \in Service
    BY SaneNode
<1>2. p.stage[1] \in Open
    BY ValidOpen
<1>3. n \in Server /\ n # NoNode
    BY <1>1, <1>2, NodeAssumption DEF Open, Held
<1>4. /\ q \in Pair /\ Faded(p, q) /\ q.stage[1] = end /\ q.stage[0] = p.stage[0]
      /\ Attempts(q, a, u.now)
    <2>1. end \in {"FAILED", "CANCELLED"} /\ 1 \in Generation /\ 1 - 1 = 0
        BY DEF Generation
    <2>2. Attempts(p, a, u.now)
        BY DEF Sane
    <2> HIDE DEF end
    <2> QED BY <1>1, <1>2, <2>1, <2>2, EndedFacts
<1>5. u.assigned[t] = n /\ u.recovering[t] \in {NoNode, n}
    BY <1>2 DEF Sane, Ledger
<1>6. /\ r \in Service /\ ServiceCore(r, u.now) /\ DispatchArmed(r)
      /\ r.running = s.running /\ r.available = s.available
      /\ r.owner # t /\ ~Runs(r, t)
      /\ r.known = s.known /\ r.queue = s.queue
      /\ \A x \in Task : x # t => Unmoved(r, s, x)
    <2>1. s \in Service /\ ServiceCore(s, u.now) /\ DispatchArmed(s) /\ s.running
        BY <1>1, <1>3 DEF NodeOK
    <2>2. Runs(s, t) => s.runningRecovery
        BY <1>1, <1>3 DEF PlacesAt
    <2> HIDE DEF s
    <2>3. r \in Service /\ ServiceCore(r, u.now) /\ DispatchArmed(r)
        BY <1>1, <2>1, GiveBackKeeps
    <2>4. /\ r.running = s.running /\ r.available = s.available
          /\ r.owner # t /\ ~Runs(r, t)
          /\ r.known = s.known /\ r.queue = s.queue
          /\ \A x \in Task : x # t => Unmoved(r, s, x)
        BY <1>1, <2>1, <2>2, CancelRecoveryUnmoved
    <2> QED BY <2>3, <2>4
<1>7. Serves(u, svc, {t})
    <2>1. s.running
        BY <1>1, <1>3 DEF NodeOK
    <2> HIDE DEF r
    <2> QED BY <1>3, <1>6, <2>1, ServesOne
<1>8. /\ Shaped(v) /\ v.now = u.now /\ v.ok = TRUE /\ v.ended = u.ended /\ v.dead = u.dead
      /\ v.svc = svc /\ v.task = [u.task EXCEPT ![t] = a] /\ v.pair = [u.pair EXCEPT ![t] = q]
      /\ v.assigned = [u.assigned EXCEPT ![t] = NoNode]
      /\ v.recovering = [u.recovering EXCEPT ![t] = NoNode]
    <2> DEFINE x == [u EXCEPT !.pair[t] = Ended(@, 1, IF failed THEN "FAILED" ELSE "CANCELLED")]
               pair == [u.pair EXCEPT ![t] = q]
               assigned == [u.assigned EXCEPT ![t] = NoNode]
               recovering == [u.recovering EXCEPT ![t] = NoNode]
    <2>1. NodeOf(u, t, 1) = n
        BY DEF NodeOf
    <2>2. v = [Release(x, t, n) EXCEPT !.svc[n] = CancelRecovery(@, t, u.now)]
        BY <2>1 DEF Cancel
    <2>3. x = [u EXCEPT !.pair = pair]
        OBVIOUS
    <2> HIDE DEF x
    <2>4. u.pair \in [Task -> Pair] /\ pair \in [Task -> Pair] /\ pair[t] = q
        BY <1>1, <1>4, WorldTypes
    <2> HIDE DEF pair, q
    <2>5. x \in World /\ x.ok /\ x.assigned = u.assigned /\ x.recovering = u.recovering /\ x.svc = u.svc
        BY <1>1, <2>3, <2>4 DEF World
    <2>6. x.assigned[t] \in {NoNode, n} /\ x.recovering[t] \in {NoNode, n}
        BY <1>5, <2>5
    <2> DEFINE y == Release(x, t, n)
    <2>7. /\ y = [x EXCEPT !.assigned = y.assigned, !.recovering = y.recovering]
          /\ y.assigned = assigned /\ y.recovering = recovering
        <3>1. Frees(x, y, t)
            BY <2>5, <2>6, ReleaseIs
        <3> HIDE DEF y
        <3> QED BY <2>5, <3>1 DEF Frees
    <2> HIDE DEF y, assigned, recovering
    <2>8. y = [u EXCEPT !.pair = pair, !.assigned = assigned, !.recovering = recovering]
        BY <2>3, <2>5, <2>7 DEF World
    <2>9. y.svc = u.svc
        BY <1>1, <2>8 DEF World
    <2>10. v = [y EXCEPT !.svc = svc]
        BY <2>2, <2>9 DEF y
    <2>11. u.task = [u.task EXCEPT ![t] = a] /\ u.ok = TRUE
        BY <1>1, WorldTypes
    <2> HIDE DEF svc
    <2>12. Shaped(y)
        BY <1>1, <2>8 DEF World, Shaped
    <2>13. /\ y.now = u.now /\ y.ok = u.ok /\ y.ended = u.ended /\ y.dead = u.dead /\ y.task = u.task
           /\ y.pair = pair /\ y.assigned = assigned /\ y.recovering = recovering
        BY <1>1, <2>8 DEF World
    <2>14. /\ Shaped(v) /\ v.now = u.now /\ v.ok = u.ok /\ v.ended = u.ended /\ v.dead = u.dead
           /\ v.svc = svc /\ v.task = u.task
           /\ v.pair = pair /\ v.assigned = assigned /\ v.recovering = recovering
        BY <2>10, <2>12, <2>13 DEF Shaped
    <2> QED BY <2>11, <2>14 DEF pair, assigned, recovering
<1>9. Puts(u, v, t, a, q, NoNode, NoNode, svc)
    BY <1>1, <1>4, <1>7, <1>8 DEF Puts, Sets
<1> HIDE DEF q, svc, r, end
<1>10. /\ WorldOK(v) /\ Only(u, v, {t}) /\ v.now = u.now /\ v.dead = u.dead /\ v.svc = svc
       /\ v.task[t] = a /\ v.pair[t] = q /\ v.assigned[t] = NoNode /\ v.recovering[t] = NoNode
    BY <1>9, PutsWorld
<1>11. end \notin Open /\ end \notin Held /\ end # "ABSENT" /\ end # "RUNNING"
    BY DEF end, Open, Held
<1>12. PlacesAt(svc, q, a.state, t)
    <2>1. q.node = p.node /\ q.immune = p.immune /\ q.stage[0] = p.stage[0]
        BY <1>4 DEF Faded
    <2>2. /\ svc[n] = r /\ \A m \in Server : m # n => svc[m] = u.svc[m]
        BY <1>1, <1>3, WorldTypes DEF svc
    <2>3. ASSUME NEW m \in Server
          PROVE  LET x == svc[m] IN
                 /\ t \in x.known => m = q.node \/ (m = HostNode[t] /\ a.state # "INPUT_TRANSFERRING")
                 /\ \A i \in x.queue : i.task = t => m = HostNode[t] /\ a.state = "QUEUED"
                 /\ x.owner = t <=> m = q.node /\ q.stage[1] \in Held
                 /\ x.owner = t => (x.immune <=> q.immune)
                 /\ Runs(x, t) <=> \/ m = HostNode[t] /\ q.stage[0] = "RUNNING"
                                   \/ m = q.node /\ q.stage[1] = "RUNNING"
                 /\ Runs(x, t) => (x.runningRecovery <=> m = q.node)
        <3>1. CASE m = n
            BY <1>1, <1>3, <1>4, <1>6, <1>11, <2>1, <2>2, <3>1 DEF PlacesAt
        <3>2. CASE m # n
            BY <1>1, <1>3, <1>4, <1>11, <2>1, <2>2, <3>2 DEF PlacesAt
        <3> QED BY <3>1, <3>2
    <2> QED BY <1>1, <1>3, <1>4, <1>11, <2>1, <2>3 DEF PlacesAt
<1>13. Sane(v, t)
    BY <1>4, <1>10, <1>11, <1>12 DEF Sane, Places, Ledger
<1> QED BY <1>4, <1>10, <1>11, <1>13 DEF Fades

\* The primary's run ends with it, and the slot is free for the queue.
LEMMA CancelPrimary ==
    ASSUME NEW u, NEW t \in Task, WorldOK(u), Sane(u, t), Valid(u, t, 0),
           NEW failed \in BOOLEAN, NEW v, v = Cancel(u, t, 0, failed)
    PROVE  /\ Fades(u, v, t) /\ v.pair[t].stage[0] \notin Open
           /\ v.pair[t].stage[1] = u.pair[t].stage[1]
<1> DEFINE p == u.pair[t]
           a == u.task[t]
           n == HostNode[t]
           s == u.svc[n]
           end == IF failed THEN "FAILED" ELSE "CANCELLED"
           q == Ended(p, 0, end)
           running == p.stage[0] = "RUNNING"
           r == CancelRunningTaskForFailure(s, t, u.now)
           svc == IF running THEN [u.svc EXCEPT ![n] = r] ELSE u.svc
<1>1. /\ u \in World /\ u.ok /\ u.now \in Time /\ p \in Pair /\ a \in TaskRuntime
      /\ n \in Server /\ n # NoNode /\ p.node # n /\ PlacesAt(u.svc, p, a.state, t)
      /\ \A m \in Server : NodeOK(u, m) /\ u.svc[m] \in Service
    BY SaneNode
<1>2. p.stage[0] \in Open
    BY ValidOpen
<1>3. /\ q \in Pair /\ Faded(p, q) /\ q.stage[0] = end /\ q.stage[1] = p.stage[1]
      /\ Attempts(q, a, u.now)
    <2>1. end \in {"FAILED", "CANCELLED"} /\ 0 \in Generation /\ 1 - 0 = 1
        BY DEF Generation
    <2>2. Attempts(p, a, u.now)
        BY DEF Sane
    <2> HIDE DEF end
    <2> QED BY <1>1, <1>2, <2>1, <2>2, EndedFacts
<1>4. running => Runs(s, t)
    BY <1>1 DEF PlacesAt
<1>5. ASSUME running
      PROVE  /\ r \in Service /\ ServiceCore(r, u.now) /\ DispatchArmed(r)
             /\ r.running = s.running /\ r.available = s.available
             /\ r.owner = s.owner /\ ~Runs(r, t)
             /\ r.known = s.known /\ r.queue = s.queue
             /\ \A x \in Task : x # t => Unmoved(r, s, x)
    <2>1. s \in Service /\ ServiceCore(s, u.now) /\ DispatchArmed(s) /\ s.running
        BY <1>1 DEF NodeOK
    <2>2. s.hasCurrent /\ s.current.task = t /\ ~s.runningRecovery
        BY <1>1, <1>4, <1>5 DEF PlacesAt, Runs
    <2> HIDE DEF s
    <2>3. r \in Service /\ ServiceInv(r, u.now)
        BY <1>1, <2>1, <2>2, CancelRunningKeeps
    <2>4. /\ r.running = s.running /\ r.available = s.available
          /\ r.owner = s.owner /\ ~Runs(r, t)
          /\ r.known = s.known /\ r.queue = s.queue
          /\ \A x \in Task : x # t => Unmoved(r, s, x)
        BY <1>1, <2>1, CancelRunningUnmoved
    <2> QED BY <2>3, <2>4 DEF ServiceInv
<1>6. Serves(u, svc, {t})
    <2>1. CASE running
        <3>1. s.running
            BY <1>1 DEF NodeOK
        <3> HIDE DEF r
        <3>2. Serves(u, [u.svc EXCEPT ![n] = r], {t})
            BY <1>1, <1>5, <2>1, <3>1, ServesOne
        <3> QED BY <2>1, <3>2
    <2>2. CASE ~running
        BY <2>2, ServesSame
    <2> QED BY <2>1, <2>2
<1>7. /\ Shaped(v) /\ v.now = u.now /\ v.ok = TRUE /\ v.ended = u.ended /\ v.dead = u.dead
      /\ v.svc = svc /\ v.task = [u.task EXCEPT ![t] = a] /\ v.pair = [u.pair EXCEPT ![t] = q]
      /\ v.assigned = [u.assigned EXCEPT ![t] = u.assigned[t]]
      /\ v.recovering = [u.recovering EXCEPT ![t] = u.recovering[t]]
    <2> DEFINE x == [u EXCEPT !.pair[t] = Ended(@, 0, IF failed THEN "FAILED" ELSE "CANCELLED")]
               pair == [u.pair EXCEPT ![t] = q]
    <2>1. NodeOf(u, t, 0) = n
        BY DEF NodeOf
    <2>2. v = IF running
              THEN [Must(x, Runs(s, t)) EXCEPT !.svc[n] = CancelRunningTaskForFailure(@, t, u.now)]
              ELSE x
        BY <2>1 DEF Cancel
    <2>3. x = [u EXCEPT !.pair = pair]
        OBVIOUS
    <2> HIDE DEF x, pair
    <2>4. /\ Shaped(x) /\ x.now = u.now /\ x.ok = TRUE /\ x.ended = u.ended /\ x.dead = u.dead
          /\ x.svc = u.svc /\ x.task = u.task /\ x.pair = pair
          /\ x.assigned = u.assigned /\ x.recovering = u.recovering
        BY <1>1, <2>3 DEF World, Shaped
    <2>5. /\ u.task = [u.task EXCEPT ![t] = a]
          /\ u.assigned = [u.assigned EXCEPT ![t] = u.assigned[t]]
          /\ u.recovering = [u.recovering EXCEPT ![t] = u.recovering[t]]
        BY <1>1, WorldTypes
    <2>6. CASE running
        <3>1. Must(x, Runs(s, t)) = [x EXCEPT !.ok = TRUE]
            BY <1>4, <2>4, <2>6 DEF Must
        <3>2. [x EXCEPT !.ok = TRUE] = x
            BY <2>4 DEF Shaped
        <3>3. v = [x EXCEPT !.svc = svc]
            <4>1. v = [x EXCEPT !.svc[n] = CancelRunningTaskForFailure(@, t, u.now)]
                BY <2>2, <2>6, <3>1, <3>2
            <4>2. x.svc[n] = s
                BY <2>4
            <4>3. svc = [x.svc EXCEPT ![n] = r]
                BY <2>4, <2>6
            <4> HIDE DEF s
            <4> QED BY <4>1, <4>2, <4>3
        <3> HIDE DEF svc
        <3>4. /\ Shaped(v) /\ v.now = x.now /\ v.ok = x.ok /\ v.ended = x.ended /\ v.dead = x.dead
              /\ v.svc = svc /\ v.task = x.task /\ v.pair = x.pair
              /\ v.assigned = x.assigned /\ v.recovering = x.recovering
            BY <2>4, <3>3 DEF Shaped
        <3> QED BY <2>4, <2>5, <3>4 DEF pair
    <2>7. CASE ~running
        BY <2>2, <2>4, <2>5, <2>7 DEF pair
    <2> QED BY <2>6, <2>7
<1>8. Puts(u, v, t, a, q, u.assigned[t], u.recovering[t], svc)
    BY <1>1, <1>3, <1>6, <1>7, WorldTypes DEF Puts, Sets
<1> HIDE DEF q, svc, r, end
<1>9. /\ WorldOK(v) /\ Only(u, v, {t}) /\ v.now = u.now /\ v.dead = u.dead /\ v.svc = svc
      /\ v.task[t] = a /\ v.pair[t] = q /\ v.assigned[t] = u.assigned[t]
      /\ v.recovering[t] = u.recovering[t]
    BY <1>8, PutsWorld
<1>10. end \notin Open /\ end # "RUNNING"
    BY DEF end, Open, Held
<1>11. PlacesAt(svc, q, a.state, t)
    <2>1. q.node = p.node /\ q.immune = p.immune
        BY <1>3 DEF Faded
    <2>2. \A m \in Server : svc[m] = IF running /\ m = n THEN r ELSE u.svc[m]
        BY <1>1, WorldTypes DEF svc
    <2>3. ASSUME NEW m \in Server
          PROVE  LET x == svc[m] IN
                 /\ t \in x.known => m = q.node \/ (m = HostNode[t] /\ a.state # "INPUT_TRANSFERRING")
                 /\ \A i \in x.queue : i.task = t => m = HostNode[t] /\ a.state = "QUEUED"
                 /\ x.owner = t <=> m = q.node /\ q.stage[1] \in Held
                 /\ x.owner = t => (x.immune <=> q.immune)
                 /\ Runs(x, t) <=> \/ m = HostNode[t] /\ q.stage[0] = "RUNNING"
                                   \/ m = q.node /\ q.stage[1] = "RUNNING"
                 /\ Runs(x, t) => (x.runningRecovery <=> m = q.node)
        <3>1. CASE m = n /\ running
            BY <1>1, <1>3, <1>5, <1>10, <2>1, <2>2, <3>1 DEF PlacesAt
        <3>2. CASE m # n \/ ~running
            BY <1>1, <1>3, <1>10, <2>1, <2>2, <3>2 DEF PlacesAt
        <3> QED BY <3>1, <3>2
    <2> QED BY <1>1, <1>3, <2>1, <2>3 DEF PlacesAt
<1>12. Sane(v, t)
    <2>1. q.immune = p.immune /\ q.node = p.node /\ q.stage[1] = p.stage[1]
        BY <1>3 DEF Faded
    <2> HIDE DEF p, a
    <2> QED BY <1>3, <1>9, <1>11, <2>1 DEF Sane, Places, Ledger, p
<1> QED BY <1>3, <1>9, <1>10, <1>12 DEF Fades

\* Whatever attempt is ended, or has ended before.
LEMMA CancelFades ==
    ASSUME NEW u, NEW t \in Task, WorldOK(u), Sane(u, t), NEW g \in Generation,
           NEW failed \in BOOLEAN, NEW v, v = Cancel(u, t, g, failed)
    PROVE  /\ Fades(u, v, t) /\ v.pair[t].stage[g] \notin Open
           /\ v.pair[t].stage[1 - g] = u.pair[t].stage[1 - g]
<1>1. CASE ~Valid(u, t, g)
    <2>1. v = u
        BY <1>1 DEF Cancel
    <2> QED BY <1>1, <2>1, FadesReflexive, ValidOpen
<1>2. CASE Valid(u, t, g) /\ g = 0
    BY <1>2, CancelPrimary
<1>3. CASE Valid(u, t, g) /\ g = 1
    BY <1>3, CancelReplica
<1> QED BY <1>1, <1>2, <1>3 DEF Generation

-----------------------------------------------------------------------------
(* The end of a task *)

\* What is true of a task stays true when its attempts end, but that it has one.
LEMMA FadesKeeps ==
    ASSUME NEW u, NEW v, NEW t \in Task, WorldOK(u), Fades(u, v, t)
    PROVE  /\ TaskOK(u, t) => TaskOK(v, t)
           /\ Timed(u, t) => Timed(v, t)
           /\ \A closed, lost : Exposed(u, t, closed, lost) => Exposed(v, t, closed, lost)
           /\ \A g \in Generation : v.pair[t].stage[g] \in Open => v.pair[t].stage[g] = u.pair[t].stage[g]
<1> DEFINE p == u.pair[t]
           q == v.pair[t]
           a == u.task[t]
<1>1. /\ WorldOK(v) /\ v.task[t] = a /\ Faded(p, q) /\ Sane(v, t)
      /\ v.dead = u.dead /\ v.now = u.now /\ \A n \in Server : v.svc[n].available = u.svc[n].available
    BY DEF Fades, Only, SameSky
<1>2. q \in Pair /\ HostNode[t] \in Server /\ (q.stage[1] # "ABSENT" <=> q.node \in Server)
    BY <1>1, SaneNode
<1>3. \A g \in Generation : q.stage[g] = p.stage[g] \/ q.stage[g] \in {"FAILED", "CANCELLED"}
    BY <1>1 DEF Faded
<1>4. \A g \in Generation : q.stage[g] \in Open => q.stage[g] = p.stage[g]
    BY <1>3 DEF Open, Held
<1>5. ASSUME TaskOK(u, t) PROVE TaskOK(v, t)
    <2>1. Attempts(q, a, v.now) /\ Places(v, t) /\ Ledger(v, t)
        BY <1>1 DEF Sane
    <2>2. Agrees(p, a)
        <3>1. a.state \notin {"INPUT_TRANSFERRING", "QUEUED"} /\ q.stage[0] # "ABSENT"
            BY <1>1, SaneNode
        <3>2. p.stage[0] # "ABSENT"
            BY <1>1, <3>1 DEF Faded, Generation, Open, Held
        <3>3. ~Unstarted(p, a)
            BY <3>2 DEF Unstarted, NoPair, Generation
        <3> QED BY <1>5, <3>3 DEF TaskOK, PairOK
    <2>3. Agrees(q, a)
        <3>1. q.live = p.live
            BY <1>1 DEF Faded
        <3>2. \A g \in Generation : q.stage[g] = "COMPLETED" => p.stage[g] = "COMPLETED"
            BY <1>3
        <3>3. ASSUME NEW g \in Generation, p.stage[g] = "COMPLETED" PROVE q.stage[g] = "COMPLETED"
            BY <1>1, <3>3 DEF Faded, Open, Held
        <3> HIDE DEF p, q, a
        <3> QED BY <2>2, <3>1, <3>2, <3>3, TwoAttempts DEF Agrees
    <2> QED BY <1>1, <2>1, <2>3 DEF TaskOK, PairOK
<1>6. Timed(u, t) => Timed(v, t)
    BY <1>1, <1>4 DEF Timed, Open
<1>7. ASSUME NEW closed, NEW lost, Exposed(u, t, closed, lost) PROVE Exposed(v, t, closed, lost)
    <2>1. q.node = p.node /\ q.immune = p.immune
        BY <1>1 DEF Faded
    <2>2. NodeOf(v, t, 0) = HostNode[t] /\ NodeOf(v, t, 1) = p.node
          /\ NodeOf(u, t, 0) = HostNode[t] /\ NodeOf(u, t, 1) = p.node
        BY <2>1 DEF NodeOf
    <2>3. ASSUME NEW g \in Generation
          PROVE  /\ q.stage[g] \in Open => {NodeOf(v, t, g), ResultNode[t]} \cap (v.dead \ lost) = {}
                 /\ q.stage[g] = "RUNNING" =>
                      \/ v.svc[NodeOf(v, t, g)].available \/ (g = 1 /\ q.immune)
                      \/ NodeOf(v, t, g) \in closed
        <3>1. NodeOf(v, t, g) = NodeOf(u, t, g)
            BY <2>2 DEF Generation
        <3>2. q.stage[g] = "RUNNING" => p.stage[g] = "RUNNING" /\ NodeOf(v, t, g) \in Server
            BY <1>2, <1>4, <2>1, <2>2 DEF Generation, Open, Held
        <3> QED BY <1>1, <1>4, <1>7, <2>1, <3>1, <3>2 DEF Exposed
    <2> QED BY <1>1, <1>7, <2>3 DEF Exposed
<1> QED BY <1>4, <1>5, <1>6, <1>7

\* v follows u by something done for t.
Follows(u, v, t) == WorldOK(v) /\ Only(u, v, {t}) /\ v.now = u.now

\* What can be said of a task whose attempts are over.
Over(u, t) ==
    /\ TaskOK(u, t) /\ ~u.pair[t].live
    /\ u.task[t].state \in {"COMPLETED", "FAILED"}

LEMMA OverCalm ==
    ASSUME NEW u, NEW t, Over(u, t)
    PROVE  Calm(u, t) /\ \A closed, lost : Exposed(u, t, closed, lost)
<1>1. \A g \in Generation : u.pair[t].stage[g] \notin Open
    <2>1. CASE Unstarted(u.pair[t], u.task[t])
        BY <2>1 DEF Unstarted, NoPair, Open, Held
    <2>2. CASE Attempts(u.pair[t], u.task[t], u.now)
        BY <2>2 DEF Attempts, Over
    <2> QED BY <2>1, <2>2 DEF Over, TaskOK, PairOK
<1>2. (\A closed, lost : Exposed(u, t, closed, lost)) /\ Timed(u, t) /\ Granted(u, t)
    BY <1>1 DEF Over, Exposed, Timed, Granted, Backed, Open, Held
<1> QED BY <1>2 DEF Calm, Over

\* How a task ends when its attempts are done with.
LEMMA ClosedOver ==
    ASSUME NEW u, NEW t \in Task, WorldOK(u), Sane(u, t),
           \A g \in Generation : u.pair[t].stage[g] \notin Open,
           NEW state \in {"COMPLETED", "FAILED"},
           \A g \in Generation :
             u.pair[t].stage[g] = "COMPLETED" => state = "COMPLETED" /\ u.pair[t].stage[1 - g] # "COMPLETED",
           state = "COMPLETED" => \E g \in Generation : u.pair[t].stage[g] = "COMPLETED",
           NEW v, v = Closed(u, t, state)
    PROVE  Follows(u, v, t) /\ Over(v, t) /\ v.task[t].state = state
<1> DEFINE p == u.pair[t]
           flow == [k \in Flow |-> IF p.flow[k].step = "local" THEN Absent ELSE p.flow[k]]
           q == Shut(p)
           a == u.task[t]
           b == [a EXCEPT !.state = state, !.timer = FALSE]
<1>1. /\ u \in World /\ u.ok /\ p \in Pair /\ a \in TaskRuntime /\ PlacesAt(u.svc, p, a.state, t)
      /\ a.state \notin {"INPUT_TRANSFERRING", "QUEUED"}
    BY SaneNode
<1>2. /\ flow \in [Flow -> Delivery]
      /\ \A k \in Flow : flow[k].step = "flying" => flow[k] = p.flow[k]
    BY <1>1, PairTypes, FlowsKnown
<1>3. /\ q \in Pair /\ ~q.live /\ q.stage = p.stage /\ q.node = p.node /\ q.immune = p.immune
      /\ q.flow = flow /\ q.computed = p.computed
    <2>1. q = [p EXCEPT !.live = FALSE, !.flow = flow]
        BY DEF Shut
    <2> HIDE DEF flow, q
    <2> QED BY <1>1, <1>2, <2>1 DEF Pair
<1>4. b \in TaskRuntime /\ b.state = state /\ ~b.timer /\ b.deadline = a.deadline
    BY <1>1 DEF TaskRuntime, TaskState
<1>5. /\ Shaped(v) /\ v.now = u.now /\ v.ok = TRUE /\ v.ended = u.ended /\ v.dead = u.dead
      /\ v.svc = u.svc /\ v.task = [u.task EXCEPT ![t] = b] /\ v.pair = [u.pair EXCEPT ![t] = q]
      /\ v.assigned = [u.assigned EXCEPT ![t] = u.assigned[t]]
      /\ v.recovering = [u.recovering EXCEPT ![t] = u.recovering[t]]
    <2> DEFINE pair == [u.pair EXCEPT ![t] = q]
               task == [u.task EXCEPT ![t] = b]
           x == [u EXCEPT !.pair = pair]
    <2>1. v = [u EXCEPT !.pair = pair, !.task = task]
        <3>1. v = [x EXCEPT !.task[t] = [@ EXCEPT !.state = state, !.timer = FALSE]]
            BY DEF Closed
        <3> HIDE DEF pair
        <3>2. x.task = u.task
            BY <1>1 DEF World
        <3> QED BY <3>1, <3>2
    <2> HIDE DEF pair, task, x
    <2>2. /\ Shaped(v) /\ v.now = u.now /\ v.ok = u.ok /\ v.ended = u.ended /\ v.dead = u.dead
          /\ v.svc = u.svc /\ v.task = task /\ v.pair = pair
          /\ v.assigned = u.assigned /\ v.recovering = u.recovering
        BY <1>1, <2>1 DEF World, Shaped
    <2>3. /\ u.assigned = [u.assigned EXCEPT ![t] = u.assigned[t]]
          /\ u.recovering = [u.recovering EXCEPT ![t] = u.recovering[t]]
        BY <1>1, WorldTypes
    <2>4. u.ok = TRUE
        BY <1>1, WorldTypes
    <2> QED BY <2>2, <2>3, <2>4 DEF pair, task
<1> HIDE DEF q, b, flow
<1>6. Puts(u, v, t, b, q, u.assigned[t], u.recovering[t], u.svc)
    <2>1. Serves(u, u.svc, {t})
        BY <1>1, ServesSame
    <2>2. u.assigned[t] \in Server \cup {NoNode} /\ u.recovering[t] \in Server \cup {NoNode}
        BY <1>1, WorldTypes
    <2> QED BY ONLY <1>3, <1>4, <1>5, <2>1, <2>2, Zenon DEF Puts, Sets
<1>7. /\ WorldOK(v) /\ Only(u, v, {t}) /\ v.now = u.now /\ v.svc = u.svc
      /\ v.task[t] = b /\ v.pair[t] = q /\ v.assigned[t] = u.assigned[t]
      /\ v.recovering[t] = u.recovering[t]
    BY <1>6, PutsWorld
<1>8. Attempts(p, a, u.now)
    BY DEF Sane
<1>9. Attempts(q, b, u.now)
    <2>1. \A g \in Generation : q.stage[g] \notin Open /\ q.stage[g] \notin Held /\ q.stage[g] # "RESULT"
        BY <1>3 DEF Open
    <2>2. /\ q.stage[0] \notin {"ABSENT", "INPUT", "READY"} /\ b.deadline \in Time
          /\ b.state \notin {"INPUT_TRANSFERRING", "QUEUED"}
        BY <1>3, <1>4, <1>8 DEF Attempts
    <2>3. \A k \in Flow : q.flow[k].step = "flying" => q.flow[k] = Flying /\ q.stage[Of(k)] = Needs(k)
        BY <1>2, <1>3, <1>8 DEF Attempts
    <2>4. q.stage[0] \notin Open
        BY <2>1 DEF Generation
    <2> QED BY <2>1, <2>2, <2>3, <2>4 DEF Attempts
<1>10. Agrees(q, b)
    <2>1. b.state \notin {"RUNNING", "RESULT_TRANSFERRING"} /\ b.state \in {"COMPLETED", "FAILED"}
        BY <1>4
    <2> QED BY <1>3, <1>4, <2>1 DEF Agrees
<1>11. Places(v, t)
    <2>1. PlacesAt(u.svc, q, state, t)
        BY <1>1, <1>3 DEF PlacesAt
    <2> QED BY <1>4, <1>7, <2>1 DEF Places
<1>12. Ledger(v, t)
    BY <1>3, <1>7 DEF Sane, Ledger
<1> QED BY <1>3, <1>4, <1>7, <1>9, <1>10, <1>11, <1>12 DEF Follows, Over, TaskOK, PairOK

\* The primary of t has started.
Started(u, t) == u.pair[t].stage[0] # "ABSENT"

LEMMA StartedSane ==
    ASSUME NEW u, NEW t, TaskOK(u, t)
    PROVE  /\ Started(u, t) => Sane(u, t) /\ Agrees(u.pair[t], u.task[t])
           /\ ~Started(u, t) => Unstarted(u.pair[t], u.task[t])
<1>1. Unstarted(u.pair[t], u.task[t]) => ~Started(u, t)
    BY DEF Unstarted, Started, NoPair, Generation
<1>2. Attempts(u.pair[t], u.task[t], u.now) => Started(u, t)
    BY DEF Attempts, Started
<1> QED BY <1>1, <1>2 DEF TaskOK, PairOK, Sane

\* What is done for t leaves it in order.
Goes(u, v, t) ==
    /\ Follows(u, v, t) /\ TaskOK(v, t)
    /\ Timed(u, t) => Timed(v, t)
    /\ \A closed, lost : Exposed(u, t, closed, lost) => Exposed(v, t, closed, lost)

LEMMA GoesTransitive ==
    ASSUME NEW u, NEW v, NEW z, NEW t, Goes(u, v, t), Goes(v, z, t)
    PROVE  Goes(u, z, t)
<1>1. Only(u, z, {t})
    BY OnlyTransitive DEF Goes, Follows
<1> QED BY <1>1 DEF Goes, Follows

LEMMA GoesReflexive ==
    ASSUME NEW u, NEW t, WorldOK(u), TaskOK(u, t)
    PROVE  Goes(u, u, t)
BY OnlyReflexive DEF Goes, Follows

LEMMA FadesGoes ==
    ASSUME NEW u, NEW v, NEW t \in Task, WorldOK(u), TaskOK(u, t), Fades(u, v, t)
    PROVE  Goes(u, v, t)
BY FadesKeeps DEF Goes, Follows, Fades

LEMMA OverGoes ==
    ASSUME NEW u, NEW v, NEW t \in Task, Follows(u, v, t), Over(v, t)
    PROVE  Goes(u, v, t)
BY OverCalm DEF Goes, Over, Calm

\* Both attempts end, and the task with them.
LEMMA FailOver ==
    ASSUME NEW u, NEW t \in Task, WorldOK(u), TaskOK(u, t), Started(u, t), NEW v, v = Fail(u, t)
    PROVE  Goes(u, v, t) /\ Over(v, t)
<1>1. Sane(u, t) /\ Agrees(u.pair[t], u.task[t])
    BY StartedSane
<1>2. CASE ~u.pair[t].live
    <2>1. v = u
        BY <1>2 DEF Fail
    <2>2. Over(v, t)
        BY <1>1, <1>2, <2>1 DEF Over, Agrees
    <2> QED BY <2>1, <2>2, GoesReflexive
<1>3. CASE u.pair[t].live
    <2> DEFINE x == Cancel(u, t, 0, TRUE)
               y == Cancel(x, t, 1, TRUE)
    <2>1. u \in World /\ u.ok = TRUE
        BY <1>1, SaneNode, WorldTypes
    <2>2. Must(u, ~Terminal(u, t)) = u
        <3>1. ~Terminal(u, t)
            BY <1>1, <1>3 DEF Agrees, Terminal
        <3> QED BY <2>1, <3>1 DEF Must, World
    <2>3. v = Closed(y, t, "FAILED")
        BY <1>3, <2>2 DEF Fail
    <2>4. 0 \in Generation /\ 1 \in Generation /\ 1 - 0 = 1 /\ 1 - 1 = 0 /\ TRUE \in BOOLEAN
        BY DEF Generation
    <2>5. Fades(u, x, t) /\ x.pair[t].stage[0] \notin Open
        BY <1>1, <2>4, CancelFades
    <2>6. WorldOK(x) /\ Sane(x, t)
        BY <2>5 DEF Fades
    <2> HIDE DEF x
    <2>7. Fades(x, y, t) /\ y.pair[t].stage[1] \notin Open
        <3>1. y = Cancel(x, t, 1, TRUE)
            OBVIOUS
        <3> HIDE DEF y
        <3> QED BY <2>4, <2>6, <3>1, CancelFades
    <2> HIDE DEF y
    <2>8. Fades(u, y, t) /\ WorldOK(y) /\ Sane(y, t)
        <3>1. Fades(u, y, t)
            BY ONLY <2>5, <2>7, FadesTransitive
        <3> QED BY ONLY <3>1 DEF Fades
    <2>9. \A g \in Generation : y.pair[t].stage[g] \notin Open /\ y.pair[t].stage[g] # "COMPLETED"
        <3>1. \A g \in Generation : u.pair[t].stage[g] # "COMPLETED"
            BY <1>1, <1>3 DEF Agrees
        <3>2. \A g \in Generation : y.pair[t].stage[g] # "COMPLETED"
            BY <2>8, <3>1 DEF Fades, Faded
        <3>3. y.pair[t].stage[0] \notin Open
            BY <2>5, <2>7, <2>4 DEF Fades, Faded, Open, Held
        <3> QED BY <2>7, <3>2, <3>3 DEF Generation
    <2>10. Follows(y, v, t) /\ Over(v, t)
        BY <2>3, <2>8, <2>9, ClosedOver
    <2>11. Follows(u, v, t)
        BY <2>8, <2>10, OnlyTransitive DEF Follows, Fades
    <2> QED BY <2>10, <2>11, OverGoes
<1> QED BY <1>2, <1>3

\* A live task goes on as long as an attempt may win.
LEMMA FailIfNoneGoes ==
    ASSUME NEW u, NEW t \in Task, WorldOK(u), TaskOK(u, t), Started(u, t),
           NEW v, v = FailIfNone(u, t)
    PROVE  /\ Goes(u, v, t)
           /\ Over(v, t) \/ (v = u /\ \E g \in Generation : v.pair[t].stage[g] \in Open)
<1>1. CASE Valid(u, t, 0) \/ Valid(u, t, 1)
    <2>1. v = u
        BY <1>1 DEF FailIfNone
    <2> QED BY <1>1, <2>1, ValidOpen, GoesReflexive, TwoAttempts
<1>2. CASE ~(Valid(u, t, 0) \/ Valid(u, t, 1))
    <2>1. v = Fail(u, t)
        BY <1>2 DEF FailIfNone
    <2> QED BY <2>1, FailOver
<1> QED BY <1>1, <1>2

LEMMA LapseFades ==
    ASSUME NEW u, NEW t \in Task, WorldOK(u), Sane(u, t), NEW g \in Generation,
           NEW v, v = Lapse(u, t, g)
    PROVE  /\ Fades(u, v, t) /\ v.pair[t].stage[g] \notin Held
           /\ v.pair[t].stage[1 - g] = u.pair[t].stage[1 - g]
<1>1. CASE u.pair[t].stage[g] = "RESULT"
    BY <1>1, FadesReflexive DEF Lapse, Held
<1>2. CASE u.pair[t].stage[g] # "RESULT"
    <2>1. v = Cancel(u, t, g, TRUE)
        BY <1>2 DEF Lapse
    <2>2. Fades(u, v, t) /\ v.pair[t].stage[g] \notin Open /\ v.pair[t].stage[1 - g] = u.pair[t].stage[1 - g]
        BY <2>1, CancelFades
    <2> QED BY <2>2 DEF Open
<1> QED BY <1>1, <1>2

\* At the deadline only what has been computed counts.
LEMMA ExpireGoes ==
    ASSUME NEW u, NEW t \in Task, WorldOK(u), TaskOK(u, t), Started(u, t), NEW v, v = Expire(u, t)
    PROVE  /\ Goes(u, v, t)
           /\ Over(v, t) \/ (Timed(v, t) /\ Granted(v, t))
           /\ v.task[t].state = u.task[t].state \/ \A g \in Generation : u.pair[t].stage[g] # "RESULT"
<1> DEFINE x == Lapse(u, t, 0)
           y == Lapse(x, t, 1)
<1>1. Sane(u, t)
    BY StartedSane
<1>2. 0 \in Generation /\ 1 \in Generation /\ 1 - 0 = 1 /\ 1 - 1 = 0
    BY DEF Generation
<1>3. Fades(u, x, t) /\ x.pair[t].stage[0] \notin Held
    BY <1>1, <1>2, LapseFades
<1>4. WorldOK(x) /\ Sane(x, t)
    BY <1>3 DEF Fades
<1> HIDE DEF x
<1>5. Fades(x, y, t) /\ y.pair[t].stage[1] \notin Held /\ y.pair[t].stage[0] = x.pair[t].stage[0]
    BY <1>2, <1>4, LapseFades
<1> HIDE DEF y
<1>6. Fades(u, y, t) /\ WorldOK(y) /\ Sane(y, t)
    BY <1>3, <1>5, FadesTransitive DEF Fades
<1>7. Goes(u, y, t) /\ TaskOK(y, t)
    BY <1>6, FadesGoes DEF Goes
<1>8. Started(y, t)
    BY <1>6 DEF Sane, Attempts, Started
<1>9. v = FailIfNone(y, t)
    BY DEF Expire, x, y
<1>10. /\ Goes(y, v, t)
       /\ Over(v, t) \/ (v = y /\ \E g \in Generation : v.pair[t].stage[g] \in Open)
    BY <1>6, <1>7, <1>8, <1>9, FailIfNoneGoes
<1>11. ASSUME v = y, \E g \in Generation : v.pair[t].stage[g] \in Open
       PROVE  Timed(v, t) /\ Granted(v, t)
    <2>1. \A g \in Generation : v.pair[t].stage[g] \notin Held
        BY <1>3, <1>5, <1>11 DEF Generation
    <2>2. v.pair[t].stage[1] \notin Held /\ v.pair[t].stage[1] # "READY"
        BY <1>2, <2>1 DEF Held
    <2> QED BY <1>11, <2>1, <2>2 DEF Timed, Granted, Backed
<1>12. ASSUME NEW g \in Generation, u.pair[t].stage[g] = "RESULT"
       PROVE  v.task[t].state = u.task[t].state
    <2>1. y.pair[t].stage[g] = "RESULT"
        <3>1. CASE g = 0
            BY <1>2, <1>5, <1>12, <3>1 DEF x, Lapse
        <3>2. CASE g = 1
            <4>1. x.pair[t].stage[1] = "RESULT"
                <5>1. x.pair[t].stage[1 - 0] = u.pair[t].stage[1 - 0]
                    BY <1>1, <1>2, LapseFades DEF x
                <5> QED BY <1>2, <1>12, <3>2, <5>1
            <4> QED BY <3>2, <4>1 DEF y, Lapse
        <3> QED BY <3>1, <3>2 DEF Generation
    <2>2. Valid(y, t, g)
        BY <2>1 DEF Valid
    <2>3. v = y
        BY <1>9, <1>12, <2>2 DEF FailIfNone, Generation
    <2> QED BY <1>6, <2>3 DEF Fades
<1> QED BY <1>7, <1>10, <1>11, <1>12, GoesTransitive

-----------------------------------------------------------------------------
(* A task begins *)

\* The slot of r has gone to y, which waited in s.
Gains(r, s, y) ==
    /\ Runs(r, y) /\ ~r.runningRecovery /\ r.owner = NoTask
    /\ r.available /\ r.known = s.known
    /\ \E i \in s.queue : i.task = y
    /\ \A i \in r.queue : i.task # y

\* A queued task that has been given its slot and does not know it yet.
Waits(z, y, n) ==
    /\ n = HostNode[y] /\ Unstarted(z.pair[y], z.task[y]) /\ z.task[y].state = "QUEUED"
    /\ z.assigned[y] = NoNode /\ z.recovering[y] = NoNode
    /\ z.svc[n].available /\ ~z.svc[n].runningRecovery
    /\ \A m \in Server :
         LET s == z.svc[m] IN
         /\ y \in s.known => m = n
         /\ \A i \in s.queue : i.task # y
         /\ s.owner # y
         /\ Runs(s, y) <=> m = n

\* What the places of a task say before it starts.
LEMMA UnstartedPlaces ==
    ASSUME NEW u, NEW y \in Task, TaskOK(u, y), Unstarted(u.pair[y], u.task[y])
    PROVE  /\ u.assigned[y] = NoNode /\ u.recovering[y] = NoNode
           /\ HostNode[y] \in Server
           /\ \A m \in Server :
                LET s == u.svc[m] IN
                /\ y \in s.known => m = HostNode[y] /\ u.task[y].state # "INPUT_TRANSFERRING"
                /\ \A i \in s.queue : i.task = y => m = HostNode[y] /\ u.task[y].state = "QUEUED"
                /\ s.owner # y
                /\ ~Runs(s, y)
<1> DEFINE p == u.pair[y]
           state == u.task[y].state
<1>1. p.stage[0] = "ABSENT" /\ p.stage[1] = "ABSENT" /\ p.node = NoNode
    BY DEF Unstarted, NoPair, Generation
<1>2. NoNode \notin Server /\ HostNode[y] \in Server
    BY NodeAssumption
<1>3. PlacesAt(u.svc, p, state, y) /\ Ledger(u, y)
    BY DEF TaskOK, Places
<1> HIDE DEF p, state
<1>4. \A m \in Server :
        LET s == u.svc[m] IN
        /\ y \in s.known => m = HostNode[y] /\ state # "INPUT_TRANSFERRING"
        /\ \A i \in s.queue : i.task = y => m = HostNode[y] /\ state = "QUEUED"
        /\ s.owner # y
        /\ ~Runs(s, y)
    BY <1>1, <1>2, <1>3 DEF PlacesAt
<1>5. u.assigned[y] = NoNode /\ u.recovering[y] = NoNode
    BY <1>1, <1>3 DEF Ledger, Open, Held, p
<1> QED BY <1>2, <1>4, <1>5 DEF state

LEMMA QueuedUnstarted ==
    ASSUME NEW u, NEW y, TaskOK(u, y), u.task[y].state \in {"INPUT_TRANSFERRING", "QUEUED"}
    PROVE  Unstarted(u.pair[y], u.task[y])
BY DEF TaskOK, PairOK, Attempts

LEMMA TakenWaits ==
    ASSUME NEW u, NEW z, NEW n \in Server, NEW y \in Task, TaskOK(u, y),
           z.task[y] = u.task[y], z.pair[y] = u.pair[y],
           z.assigned[y] = u.assigned[y], z.recovering[y] = u.recovering[y],
           \A m \in Server \ {n} : z.svc[m] = u.svc[m],
           Gains(z.svc[n], u.svc[n], y)
    PROVE  Waits(z, y, n)
<1>1. PICK i \in u.svc[n].queue : i.task = y
    BY DEF Gains
<1>2. n = HostNode[y] /\ u.task[y].state = "QUEUED"
    BY <1>1 DEF TaskOK, Places, PlacesAt
<1>3. Unstarted(u.pair[y], u.task[y])
    BY <1>2, QueuedUnstarted
<1>4. /\ u.assigned[y] = NoNode /\ u.recovering[y] = NoNode
      /\ \A m \in Server :
           LET s == u.svc[m] IN
           /\ y \in s.known => m = n
           /\ \A j \in s.queue : j.task = y => m = n
           /\ s.owner # y
           /\ ~Runs(s, y)
    BY <1>2, <1>3, UnstartedPlaces
<1>5. y # NoTask
    BY TaskAssumption DEF NoTask
<1>6. ASSUME NEW m \in Server
      PROVE  LET s == z.svc[m] IN
             /\ y \in s.known => m = n
             /\ \A j \in s.queue : j.task # y
             /\ s.owner # y
             /\ Runs(s, y) <=> m = n
    <2>1. CASE m = n
        BY <1>5, <2>1 DEF Gains
    <2>2. CASE m # n
        BY <1>4, <2>2
    <2> QED BY <2>1, <2>2
<1> QED BY <1>2, <1>3, <1>4, <1>6 DEF Waits, Gains

\* The attempts of a task that has just begun.
LEMMA BegunCalm ==
    ASSUME NEW x, NEW y \in Task, NEW q, q = x.pair[y], NEW a, a = x.task[y],
           a.deadline \in Time, x.now <= a.deadline, a.state = "RUNNING", a.timer,
           q.live, ~q.immune, q.stage[0] = "RUNNING", q.stage[1] \in {"ABSENT", "INPUT"},
           q.stage[1] = "INPUT" => q.node \notin x.dead,
           \A k \in Flow : q.flow[k].step # "flying",
           Places(x, y), Ledger(x, y),
           {HostNode[y], ResultNode[y]} \cap x.dead = {}, x.svc[HostNode[y]].available
    PROVE  Calm(x, y)
<1>1. \A g \in Generation : q.stage[g] # "COMPLETED" /\ q.stage[g] # "RESULT"
    BY DEF Generation
<1>2. Attempts(q, a, x.now)
    BY <1>1 DEF Attempts
<1>3. Agrees(q, a)
    BY <1>1 DEF Agrees
<1>4. NodeOf(x, y, 0) = HostNode[y] /\ NodeOf(x, y, 1) = q.node
    BY DEF NodeOf
<1>5. Exposed(x, y, {}, {})
    <2>1. ASSUME NEW g \in Generation, q.stage[g] \in Open
          PROVE  {NodeOf(x, y, g), ResultNode[y]} \cap (x.dead \ {}) = {}
        <3>1. CASE g = 0
            BY <1>4, <3>1
        <3>2. CASE g = 1
            BY <1>4, <2>1, <3>2 DEF Open, Held
        <3> QED BY <3>1, <3>2 DEF Generation
    <2>2. ASSUME NEW g \in Generation, q.stage[g] = "RUNNING"
          PROVE  x.svc[NodeOf(x, y, g)].available
        <3>1. g = 0
            BY <2>2 DEF Generation
        <3> QED BY <1>4, <3>1
    <2> QED BY <2>1, <2>2 DEF Exposed
<1>6. Timed(x, y)
    BY DEF Timed
<1>7. Granted(x, y)
    BY DEF Granted, Backed, Open, Held, Generation
<1> QED BY <1>2, <1>3, <1>5, <1>6, <1>7 DEF Calm, TaskOK, PairOK

\* A replica is admitted to a slot that is idle.
LEMMA Reserved ==
    ASSUME NEW z, WorldOK(z), NEW m \in Server, NEW s, s = z.svc[m], NEW y \in Task,
           CanReserve(s, y), NEW r, r = ReserveRecovery(s, y)
    PROVE  /\ r \in Service /\ ServiceCore(r, z.now) /\ DispatchArmed(r)
           /\ r.running /\ r.available = s.available
           /\ r.owner = y /\ ~r.immune /\ ~r.hasCurrent /\ r.known = s.known /\ r.queue = s.queue
           /\ \A x \in Task : x # y => Unmoved(r, s, x)
<1>1. s \in Service /\ ServiceCore(s, z.now) /\ DispatchArmed(s) /\ s.running /\ z.now \in Time
    BY WorldTypes DEF WorldOK, NodeOK
<1>2. CompletionAllowed(s)
    BY DEF CanReserve, CompletionAllowed
<1>3. ServiceInv(s, z.now)
    BY <1>1, <1>2 DEF ServiceInv
<1>4. r \in Service /\ ServiceInv(r, z.now)
    BY <1>1, <1>3, ReserveKeeps
<1>5. /\ r.running = s.running /\ r.available = s.available
      /\ r.owner = y /\ ~r.hasCurrent /\ r.known = s.known /\ r.queue = s.queue
      /\ \A x \in Task : x # y => Unmoved(r, s, x)
    <2> DEFINE now == z.now
               x == ReserveRecovery(s, y)
    <2>1. ServiceCore(s, now) /\ s \in Service /\ now \in Time
        BY <1>1
    <2> HIDE DEF now
    <2>2. /\ x.running = s.running /\ x.available = s.available
          /\ x.owner = y /\ ~x.hasCurrent /\ x.known = s.known /\ x.queue = s.queue
          /\ \A i \in Task : i # y => Unmoved(x, s, i)
        BY ONLY <2>1, ReserveUnmoved, CanReserve(s, y), y \in Task
    <2>3. r = x
        OBVIOUS
    <2> HIDE DEF x
    <2> QED BY ONLY <2>2, <2>3
<1>6. r = [s EXCEPT !.owner = y, !.immune = FALSE, !.dispatch = FALSE]
    BY DEF ReserveRecovery
<1>7. ~r.immune
    BY <1>1, <1>6 DEF Service
<1> QED BY <1>1, <1>4, <1>5, <1>7 DEF ServiceInv

\* The pair of a task whose primary starts, alone,
Lone == [NoPair EXCEPT !.live = TRUE, !.stage[0] = "RUNNING"]

\* and with a replica on m, whose input is under way.
Twin(m, delivery) ==
    [Lone EXCEPT !.node = m, !.stage[1] = "INPUT", !.flow["INPUT"] = delivery]

LEMMA NoPairFacts ==
    /\ NoPair \in Pair /\ ~NoPair.live /\ ~NoPair.immune /\ NoPair.node = NoNode
    /\ \A g \in Generation : NoPair.stage[g] = "ABSENT"
    /\ \A k \in Flow : NoPair.flow[k].step # "flying"
<1> DEFINE stage == [g \in Generation |-> "ABSENT"]
           flow == [k \in Flow |-> Absent]
           computed == [g \in Generation |-> NoTime]
<1>1. stage \in [Generation -> Stage] /\ \A g \in Generation : stage[g] = "ABSENT"
    BY DEF Stage
<1>2. flow \in [Flow -> Delivery] /\ \A k \in Flow : flow[k].step # "flying"
    BY FlowsKnown
<1>3. computed \in [Generation -> Time \cup {NoTime}]
    OBVIOUS
<1>4. NoPair = [live |-> FALSE, stage |-> stage, node |-> NoNode, immune |-> FALSE,
                computed |-> computed, flow |-> flow]
    BY DEF NoPair
<1> HIDE DEF stage, flow, computed
<1> QED BY <1>1, <1>2, <1>3, <1>4 DEF Pair

LEMMA LoneFacts ==
    /\ Lone \in Pair /\ Lone.live /\ ~Lone.immune /\ Lone.node = NoNode
    /\ Lone.stage[0] = "RUNNING" /\ Lone.stage[1] = "ABSENT"
    /\ \A k \in Flow : Lone.flow[k].step # "flying"
<1> DEFINE stage == [NoPair.stage EXCEPT ![0] = "RUNNING"]
           x == [NoPair EXCEPT !.live = TRUE]
<1>1. stage \in [Generation -> Stage] /\ stage[0] = "RUNNING" /\ stage[1] = "ABSENT"
    BY NoPairFacts, PairTypes DEF Generation, Stage
<1>2. /\ x \in Pair /\ x.live /\ x.stage = NoPair.stage /\ x.node = NoNode /\ ~x.immune
      /\ x.flow = NoPair.flow
    BY NoPairFacts DEF Pair
<1>3. Lone = [x EXCEPT !.stage[0] = "RUNNING"]
    BY DEF Lone
<1> HIDE DEF x
<1>4. Lone = [x EXCEPT !.stage = stage]
    BY <1>2, <1>3
<1> HIDE DEF stage
<1> QED BY <1>1, <1>2, <1>4, NoPairFacts DEF Pair

LEMMA TwinFacts ==
    ASSUME NEW m \in Server, NEW delivery \in Delivery, delivery.step # "flying",
           NEW q, q = Twin(m, delivery)
    PROVE  /\ q \in Pair /\ q.live /\ ~q.immune /\ q.node = m
           /\ q.stage[0] = "RUNNING" /\ q.stage[1] = "INPUT"
           /\ \A k \in Flow : q.flow[k].step # "flying"
<1> DEFINE stage == [Lone.stage EXCEPT ![1] = "INPUT"]
           flow == [Lone.flow EXCEPT !["INPUT"] = delivery]
<1>1. stage \in [Generation -> Stage] /\ stage[0] = "RUNNING" /\ stage[1] = "INPUT"
    BY LoneFacts, PairTypes DEF Generation, Stage
<1>2. flow \in [Flow -> Delivery] /\ \A k \in Flow : flow[k].step # "flying"
    BY LoneFacts, PairTypes DEF Flow
<1>3. q = [Lone EXCEPT !.node = m, !.stage = stage, !.flow = flow]
    <2> DEFINE x == [Lone EXCEPT !.node = m]
               y == [x EXCEPT !.stage = stage]
    <2>1. x.stage = Lone.stage /\ x \in Pair
        BY LoneFacts DEF Pair
    <2>2. y.flow = Lone.flow
        BY <2>1, <1>1, LoneFacts DEF Pair
    <2>3. q = [y EXCEPT !.flow["INPUT"] = delivery]
        BY <2>1 DEF Twin
    <2> QED BY <2>2, <2>3
<1> HIDE DEF stage, flow
<1> QED BY <1>1, <1>2, <1>3, LoneFacts DEF Pair

\* The record of a task when its primary starts.
Running(y, now) == [state |-> "RUNNING", timer |-> TRUE, deadline |-> now + Budget[y]]

\* The replica of y may go to m.
Admits(z, y, m) ==
    /\ m \in Server /\ m # HostNode[y] /\ m \notin z.dead /\ ResultNode[y] \notin z.dead
    /\ CanReserve(z.svc[m], y)

Replicated(svc, y, m) == [svc EXCEPT ![m] = ReserveRecovery(svc[m], y)]

\* What the start of y does, without a replica or with one on m.
LEMMA RequestIs ==
    ASSUME NEW z, WorldOK(z), NEW y \in Task, z.assigned[y] = NoNode,
           NEW m \in Server \cup {NoNode},
           NEW a, a = Running(y, z.now), NEW x, x = Request([z EXCEPT !.task[y] = a], y, m)
    PROVE  \/ Puts(z, x, y, a, Lone, NoNode, z.recovering[y], z.svc)
           \/ /\ Admits(z, y, m)
              /\ \E delivery \in Delivery :
                   /\ delivery.step # "flying"
                   /\ Puts(z, x, y, a, Twin(m, delivery), m, z.recovering[y], Replicated(z.svc, y, m))
<1> DEFINE task == [z.task EXCEPT ![y] = a]
           c == [z EXCEPT !.task[y] = a]
           lone == [z.pair EXCEPT ![y] = Lone]
           P == [c EXCEPT !.pair[y] = [NoPair EXCEPT !.live = TRUE, !.stage[0] = "RUNNING"]]
           refused == \/ m \in {NoNode, HostNode[y]} \cup P.dead
                      \/ {SourceNode[y], ResultNode[y]} \cap P.dead # {} \/ ~CanReserve(P.svc[m], y)
           delivery == [step |-> IF Cardinality({SourceNode[y], m}) = 1 THEN "local" ELSE "queued",
                        due |-> z.now + 1]
           q == Twin(m, delivery)
           s == ReserveRecovery(z.svc[m], y)
           svc == Replicated(z.svc, y, m)
<1>1. /\ z \in World /\ z.ok = TRUE /\ z.now \in Time /\ z.svc \in [Server -> Service]
      /\ z.task \in [Task -> TaskRuntime] /\ z.pair \in [Task -> Pair]
      /\ z.assigned \in [Task -> Server \cup {NoNode}] /\ z.recovering \in [Task -> Server \cup {NoNode}]
    BY WorldTypes DEF WorldOK
<1>2. a \in TaskRuntime
    BY <1>1, WorkAssumption DEF Running, TaskRuntime, TaskState, Time
<1>3. /\ Shaped(P) /\ P.now = z.now /\ P.ok = TRUE /\ P.ended = z.ended /\ P.dead = z.dead
      /\ P.svc = z.svc /\ P.task = task /\ P.pair = lone
      /\ P.assigned = z.assigned /\ P.recovering = z.recovering
    <2>1. c = [z EXCEPT !.task = task]
        OBVIOUS
    <2> HIDE DEF task, c
    <2>2. /\ Shaped(c) /\ c.now = z.now /\ c.ok = TRUE /\ c.ended = z.ended /\ c.dead = z.dead
          /\ c.svc = z.svc /\ c.task = task /\ c.pair = z.pair
          /\ c.assigned = z.assigned /\ c.recovering = z.recovering
        BY <1>1, <2>1 DEF World, Shaped
    <2>3. P = [c EXCEPT !.pair = lone]
        BY <2>2 DEF Lone
    <2> HIDE DEF P, lone
    <2> QED BY <2>2, <2>3 DEF Shaped
<1>4. x = IF refused THEN P
          ELSE DeliverReplica(
                 [Assign(P, y, m) EXCEPT !.svc[m] = ReserveRecovery(@, y),
                                         !.pair[y] = [@ EXCEPT !.node = m, !.stage[1] = "INPUT"]],
                 y, "INPUT")
    BY DEF Request
<1>5. Serves(z, z.svc, {y}) /\ z.recovering = [z.recovering EXCEPT ![y] = z.recovering[y]]
      /\ z.assigned = [z.assigned EXCEPT ![y] = NoNode]
    BY <1>1, ServesSame
<1>6. CASE refused
    <2>1. x = P
        BY <1>4, <1>6
    <2> HIDE DEF P, refused
    <2>2. Puts(z, x, y, a, Lone, NoNode, z.recovering[y], z.svc)
        BY <1>1, <1>2, <1>3, <1>5, <2>1, LoneFacts DEF Puts, Sets
    <2> QED BY <2>2
<1>7. CASE ~refused
    <2>1. Admits(z, y, m)
        BY <1>3, <1>7 DEF Admits
    <2> DEFINE A == Assign(P, y, m)
               assigned == [z.assigned EXCEPT ![y] = m]
               B == [A EXCEPT !.svc[m] = ReserveRecovery(@, y),
                              !.pair[y] = [@ EXCEPT !.node = m, !.stage[1] = "INPUT"]]
               b == [Lone EXCEPT !.node = m, !.stage[1] = "INPUT"]
    <2>2. x = DeliverReplica(B, y, "INPUT")
        BY <1>4, <1>7
    <2> HIDE DEF P, refused
    <2>3. /\ Shaped(A) /\ A.now = z.now /\ A.ok = TRUE /\ A.ended = z.ended /\ A.dead = z.dead
          /\ A.svc = z.svc /\ A.task = task /\ A.pair = lone
          /\ A.assigned = assigned /\ A.recovering = z.recovering
        <3>1. P.assigned[y] = NoNode
            BY <1>3
        <3>2. Must(P, P.assigned[y] = NoNode) = P
            BY <1>3, <3>1 DEF Must, Shaped
        <3>3. A = [P EXCEPT !.assigned = assigned]
            BY <1>3, <3>2 DEF Assign
        <3> HIDE DEF A, assigned
        <3> QED BY <1>3, <3>3 DEF Shaped
    <2> HIDE DEF A
    <2>4. /\ Shaped(B) /\ B.now = z.now /\ B.ok = TRUE /\ B.ended = z.ended /\ B.dead = z.dead
          /\ B.svc = svc /\ B.task = task /\ B.pair = [lone EXCEPT ![y] = b]
          /\ B.assigned = assigned /\ B.recovering = z.recovering
        <3> DEFINE C == [A EXCEPT !.svc = svc]
                   pair == [lone EXCEPT ![y] = b]
        <3>1. C = [A EXCEPT !.svc[m] = ReserveRecovery(@, y)]
            BY <2>3 DEF Replicated
        <3>2. /\ Shaped(C) /\ C.now = z.now /\ C.ok = TRUE /\ C.ended = z.ended /\ C.dead = z.dead
              /\ C.svc = svc /\ C.task = task /\ C.pair = lone
              /\ C.assigned = assigned /\ C.recovering = z.recovering
            <4> HIDE DEF svc, task, lone, assigned
            <4> QED BY <2>3 DEF Shaped
        <3>3. B = [C EXCEPT !.pair[y] = [@ EXCEPT !.node = m, !.stage[1] = "INPUT"]]
            BY <3>1
        <3> HIDE DEF C
        <3>4. lone[y] = Lone
            BY <1>1
        <3>5. B = [C EXCEPT !.pair = pair]
            BY <3>2, <3>3, <3>4
        <3> HIDE DEF B, pair, svc, task, lone, assigned
        <3>6. /\ Shaped(B) /\ B.now = z.now /\ B.ok = TRUE /\ B.ended = z.ended /\ B.dead = z.dead
              /\ B.svc = svc /\ B.task = task /\ B.pair = pair
              /\ B.assigned = assigned /\ B.recovering = z.recovering
            BY <3>2, <3>5 DEF Shaped
        <3> QED BY <3>6 DEF pair
    <2> HIDE DEF B
    <2>5. x = [B EXCEPT !.pair[y].flow["INPUT"] = delivery]
        <3>1. lone \in [Task -> Pair] /\ y \in Task
            BY <1>1, LoneFacts
        <3>2. B.pair[y] = b
            BY <2>4, <3>1
        <3>3. b.node = m
            BY LoneFacts DEF Pair
        <3>4. B.pair[y].node = m
            BY <3>2, <3>3
        <3> QED BY <2>2, <2>4, <3>4 DEF DeliverReplica
    <2>6. /\ Shaped(x) /\ x.now = z.now /\ x.ok = TRUE /\ x.ended = z.ended /\ x.dead = z.dead
          /\ x.svc = svc /\ x.task = task /\ x.pair = [z.pair EXCEPT ![y] = q]
          /\ x.assigned = assigned /\ x.recovering = z.recovering
        <3> DEFINE pair == [z.pair EXCEPT ![y] = q]
        <3>1. [B.pair EXCEPT ![y].flow["INPUT"] = delivery] = pair
            <4>1. B.pair = [z.pair EXCEPT ![y] = b]
                BY <1>1, <2>4
            <4>2. q = [b EXCEPT !.flow["INPUT"] = delivery]
                BY DEF Twin
            <4> HIDE DEF b, q, delivery
            <4> QED BY <1>1, <4>1, <4>2
        <3>2. x = [B EXCEPT !.pair = pair]
            BY <2>5, <3>1
        <3> HIDE DEF pair, svc, task, lone, assigned, b
        <3>3. /\ Shaped(x) /\ x.now = z.now /\ x.ok = TRUE /\ x.ended = z.ended /\ x.dead = z.dead
              /\ x.svc = svc /\ x.task = task /\ x.pair = pair
              /\ x.assigned = assigned /\ x.recovering = z.recovering
            BY <2>4, <3>2 DEF Shaped
        <3> QED BY <3>3 DEF pair
    <2>7. delivery \in Delivery /\ delivery.step # "flying"
        BY <1>1 DEF Delivery, Time
    <2>8. m \in Server /\ CanReserve(z.svc[m], y)
        BY <2>1 DEF Admits
    <2>9. q \in Pair
        <3> HIDE DEF delivery
        <3> QED BY <2>7, <2>8, TwinFacts
    <2>10. Serves(z, svc, {y})
        <3>1. /\ s \in Service /\ ServiceCore(s, z.now) /\ DispatchArmed(s)
              /\ s.running /\ s.available = z.svc[m].available
              /\ \A t \in Task : t # y => Unmoved(s, z.svc[m], t)
            BY <2>8, Reserved
        <3> HIDE DEF s
        <3>2. Serves(z, [z.svc EXCEPT ![m] = s], {y})
            BY <2>8, <3>1, ServesOne
        <3> QED BY <3>2 DEF s, Replicated
    <2> HIDE DEF delivery, q, svc
    <2>11. Puts(z, x, y, a, q, m, z.recovering[y], svc)
        BY <1>1, <1>2, <1>5, <2>6, <2>8, <2>9, <2>10 DEF Puts, Sets
    <2> QED BY <2>1, <2>7, <2>11 DEF q, svc
<1> QED BY <1>6, <1>7

\* Where a task is that has just begun.
LEMMA BegunPlaces ==
    ASSUME NEW z, NEW y \in Task, NEW n \in Server, WorldOK(z), Waits(z, y, n),
           NEW q, q.stage[0] = "RUNNING", ~q.immune,
           NEW svc, NEW m,
           \/ svc = z.svc /\ m = NoNode /\ q.node = NoNode /\ q.stage[1] = "ABSENT"
           \/ /\ Admits(z, y, m) /\ svc = Replicated(z.svc, y, m)
              /\ q.node = m /\ q.stage[1] = "INPUT"
    PROVE  PlacesAt(svc, q, "RUNNING", y)
<1>1. NoNode \notin Server /\ n = HostNode[y]
    BY NodeAssumption DEF Waits
<1>2. CASE svc = z.svc /\ m = NoNode /\ q.node = NoNode /\ q.stage[1] = "ABSENT"
    <2>1. ASSUME NEW k \in Server
          PROVE  LET s == svc[k] IN
                 /\ y \in s.known => k = HostNode[y]
                 /\ \A i \in s.queue : i.task # y
                 /\ s.owner # y
                 /\ Runs(s, y) <=> k = HostNode[y]
                 /\ Runs(s, y) => ~s.runningRecovery
        BY <1>1, <1>2 DEF Waits
    <2> QED BY <1>1, <1>2, <2>1 DEF PlacesAt, Held
<1>3. CASE /\ Admits(z, y, m) /\ svc = Replicated(z.svc, y, m)
           /\ q.node = m /\ q.stage[1] = "INPUT"
    <2> DEFINE r == ReserveRecovery(z.svc[m], y)
    <2>1. m \in Server /\ m # n /\ CanReserve(z.svc[m], y) /\ z.svc \in [Server -> Service]
        BY <1>1, <1>3, WorldTypes DEF Admits, WorldOK
    <2>2. /\ r.owner = y /\ ~r.immune /\ ~r.hasCurrent
          /\ r.known = z.svc[m].known /\ r.queue = z.svc[m].queue
        BY <2>1, Reserved
    <2>3. \A k \in Server : svc[k] = IF k = m THEN r ELSE z.svc[k]
        BY <1>3, <2>1 DEF Replicated
    <2> HIDE DEF r
    <2>4. ASSUME NEW k \in Server
          PROVE  LET s == svc[k] IN
                 /\ y \in s.known => k = HostNode[y]
                 /\ \A i \in s.queue : i.task # y
                 /\ s.owner = y <=> k = m
                 /\ s.owner = y => ~s.immune
                 /\ Runs(s, y) <=> k = HostNode[y]
                 /\ Runs(s, y) => ~s.runningRecovery
        <3>1. CASE k = m
            BY <1>1, <2>1, <2>2, <2>3, <3>1 DEF Waits, Runs
        <3>2. CASE k # m
            BY <1>1, <2>1, <2>3, <3>2 DEF Waits
        <3> QED BY <3>1, <3>2
    <2> QED BY <1>1, <1>3, <2>1, <2>4 DEF PlacesAt, Held
<1> QED BY <1>2, <1>3

\* A queued task that is given its slot begins, and nothing else does.
LEMMA DispatchedBegins ==
    ASSUME NEW z, WorldOK(z), NEW n \in Server, NEW y \in Task, Runs(z.svc[n], y), Waits(z, y, n),
           ResultNode[y] \notin z.dead, NEW pick \in [Task -> Server \cup {NoNode}],
           NEW x, x = Dispatched(z, n, pick)
    PROVE  Follows(z, x, y) /\ Calm(x, y) /\ x.task[y].state = "RUNNING"
<1> DEFINE a == Running(y, z.now)
           m == pick[y]
<1>1. z.task[y].state = "QUEUED" /\ z.assigned[y] = NoNode /\ z.recovering[y] = NoNode
      /\ n = HostNode[y] /\ z.svc[n].available
    BY DEF Waits
<1>2. n \notin z.dead /\ z.now \in Time
    BY <1>1, WorldTypes DEF WorldOK, NodeOK
<1>3. a.state = "RUNNING" /\ a.timer /\ a.deadline \in Time /\ z.now <= a.deadline
    BY <1>2, WorkAssumption DEF Running, Time
<1>4. x = Request([z EXCEPT !.task[y] = a], y, m)
    BY <1>1 DEF Dispatched, Runs, Running
<1>5. m \in Server \cup {NoNode}
    OBVIOUS
<1> HIDE DEF a, m
<1>6. \/ Puts(z, x, y, a, Lone, NoNode, z.recovering[y], z.svc)
      \/ /\ Admits(z, y, m)
         /\ \E delivery \in Delivery :
              /\ delivery.step # "flying"
              /\ Puts(z, x, y, a, Twin(m, delivery), m, z.recovering[y], Replicated(z.svc, y, m))
    BY <1>1, <1>4, <1>5, RequestIs DEF a
<1>7. CASE Puts(z, x, y, a, Lone, NoNode, z.recovering[y], z.svc)
    <2>1. /\ WorldOK(x) /\ Only(z, x, {y}) /\ x.now = z.now /\ x.dead = z.dead
          /\ x.svc = z.svc /\ x.task[y] = a /\ x.pair[y] = Lone
          /\ x.assigned[y] = NoNode /\ x.recovering[y] = NoNode
        <3>1. /\ WorldOK(x) /\ Only(z, x, {y}) /\ x.now = z.now /\ x.dead = z.dead
              /\ x.svc = z.svc /\ x.task[y] = a /\ x.pair[y] = Lone
              /\ x.assigned[y] = NoNode /\ x.recovering[y] = z.recovering[y]
            BY ONLY <1>7, PutsWorld, WorldOK(z), y \in Task
        <3> QED BY ONLY <1>1, <3>1
    <2>2. PlacesAt(z.svc, Lone, "RUNNING", y)
        BY LoneFacts, BegunPlaces
    <2>3. Places(x, y)
        BY <1>3, <2>1, <2>2 DEF Places
    <2>4. Ledger(x, y)
        BY <2>1, LoneFacts DEF Ledger, Open, Held
    <2>5. Calm(x, y)
        BY <1>1, <1>2, <1>3, <2>1, <2>3, <2>4, LoneFacts, BegunCalm
    <2> QED BY <1>3, <2>1, <2>5 DEF Follows
<1>8. ASSUME Admits(z, y, m), NEW delivery \in Delivery, delivery.step # "flying",
             Puts(z, x, y, a, Twin(m, delivery), m, z.recovering[y], Replicated(z.svc, y, m))
      PROVE  Follows(z, x, y) /\ Calm(x, y) /\ x.task[y].state = "RUNNING"
    <2> DEFINE q == Twin(m, delivery)
               svc == Replicated(z.svc, y, m)
    <2>1. m \in Server /\ m # HostNode[y] /\ m \notin z.dead
        BY <1>8 DEF Admits
    <2>2. /\ q \in Pair /\ q.live /\ ~q.immune /\ q.node = m
          /\ q.stage[0] = "RUNNING" /\ q.stage[1] = "INPUT"
          /\ \A k \in Flow : q.flow[k].step # "flying"
        BY <1>8, <2>1, TwinFacts
    <2> HIDE DEF q, svc
    <2>3. /\ WorldOK(x) /\ Only(z, x, {y}) /\ x.now = z.now /\ x.dead = z.dead
          /\ x.svc = svc /\ x.task[y] = a /\ x.pair[y] = q
          /\ x.assigned[y] = m /\ x.recovering[y] = NoNode
        <3>1. Puts(z, x, y, a, q, m, NoNode, svc)
            BY <1>1, <1>8 DEF q, svc
        <3> QED BY <3>1, PutsWorld
    <2>4. PlacesAt(svc, q, "RUNNING", y)
        BY <1>8, <2>2, BegunPlaces DEF svc
    <2>5. Places(x, y)
        BY <1>3, <2>3, <2>4 DEF Places
    <2>6. Ledger(x, y)
        BY <2>2, <2>3 DEF Ledger, Open, Held
    <2>7. x.svc[HostNode[y]].available
        BY <1>1, <2>3 DEF Only, SameSky
    <2>8. Calm(x, y)
        BY <1>1, <1>2, <1>3, <2>1, <2>2, <2>3, <2>5, <2>6, <2>7, BegunCalm
    <2> QED BY <1>3, <2>3, <2>8 DEF Follows
<1> QED BY <1>6, <1>7, <1>8

-----------------------------------------------------------------------------
(* A run ends *)

\* The pair p once its attempt g has computed, with the delivery of its result,
Yielded(p, g, now, k, delivery) ==
    [p EXCEPT !.stage[g] = "RESULT", !.computed[g] = now, !.flow[k] = delivery]

\* and the record of its task.
Returning(a) == [a EXCEPT !.state = "RESULT_TRANSFERRING"]

\* How a result of attempt g is delivered.
Delivers(g, k, delivery) ==
    /\ k \in Flow /\ Of(k) = g /\ Needs(k) = "RESULT"
    /\ delivery \in Delivery /\ (delivery.step = "flying" => delivery = Flying)

\* What is known of a pair and a task record after that.
Yields(p, q, g, a, b, now) ==
    /\ q \in Pair /\ q.live = p.live /\ q.node = p.node /\ q.immune = p.immune
    /\ q.stage[g] = "RESULT" /\ q.stage[1 - g] = p.stage[1 - g]
    /\ Attempts(q, b, now)
    /\ b \in TaskRuntime /\ b.timer = a.timer /\ b.state = "RESULT_TRANSFERRING"
    /\ b.deadline = a.deadline

LEMMA YieldedFacts ==
    ASSUME NEW p \in Pair, NEW g \in Generation, NEW now \in Time, NEW k, NEW delivery,
           Delivers(g, k, delivery), NEW a \in TaskRuntime, NEW b, b = Returning(a),
           Attempts(p, a, now), p.stage[g] = "RUNNING",
           NEW q, q = Yielded(p, g, now, k, delivery)
    PROVE  Yields(p, q, g, a, b, now)
<1> DEFINE stage == [p.stage EXCEPT ![g] = "RESULT"]
           computed == [p.computed EXCEPT ![g] = now]
           flow == [p.flow EXCEPT ![k] = delivery]
           x == [p EXCEPT !.stage[g] = "RESULT"]
           y == [x EXCEPT !.computed[g] = now]
<1>1. stage \in [Generation -> Stage] /\ stage[g] = "RESULT" /\ stage[1 - g] = p.stage[1 - g]
    BY PairTypes, TwoAttempts DEF Stage
<1>2. computed \in [Generation -> Time \cup {NoTime}] /\ computed[g] = now
      /\ computed[1 - g] = p.computed[1 - g]
    BY PairTypes, TwoAttempts
<1>3. flow \in [Flow -> Delivery] /\ flow[k] = delivery /\ \A j \in Flow : j # k => flow[j] = p.flow[j]
    BY PairTypes DEF Delivers
<1>4. /\ q \in Pair /\ q.live = p.live /\ q.node = p.node /\ q.immune = p.immune
      /\ q.stage = stage /\ q.computed = computed /\ q.flow = flow
    <2>1. x = [p EXCEPT !.stage = stage]
        OBVIOUS
    <2>2. q = [y EXCEPT !.flow[k] = delivery]
        BY DEF Yielded
    <2> HIDE DEF stage, x
    <2>3. /\ x \in Pair /\ x.live = p.live /\ x.node = p.node /\ x.immune = p.immune
          /\ x.stage = stage /\ x.computed = p.computed /\ x.flow = p.flow
        BY <1>1, <2>1 DEF Pair
    <2>4. y = [x EXCEPT !.computed = computed]
        BY <2>3
    <2> HIDE DEF computed, y
    <2>5. /\ y \in Pair /\ y.live = p.live /\ y.node = p.node /\ y.immune = p.immune
          /\ y.stage = stage /\ y.computed = computed /\ y.flow = p.flow
        BY <1>2, <2>3, <2>4 DEF Pair
    <2>6. q = [y EXCEPT !.flow = flow]
        BY <2>2, <2>5
    <2> HIDE DEF flow
    <2> QED BY <1>3, <2>5, <2>6 DEF Pair
<1> HIDE DEF stage, computed, flow
<1>5. b \in TaskRuntime /\ b.timer = a.timer /\ b.state = "RESULT_TRANSFERRING" /\ b.deadline = a.deadline
    BY DEF Returning, TaskRuntime, TaskState
<1>6. \A h \in Generation : h = g \/ h = 1 - g
    BY DEF Generation
<1>7. now <= a.deadline /\ a.deadline \in Time /\ p.live
    BY DEF Attempts, Open, Held
<1>8. Attempts(q, b, now)
    <2>1. q.stage[0] \notin {"ABSENT", "INPUT", "READY"}
        <3>1. CASE g = 0
            BY <1>1, <1>4, <3>1
        <3>2. CASE g = 1
            BY <1>1, <1>4, <3>2 DEF Attempts
        <3> QED BY <3>1, <3>2 DEF Generation
    <2>2. ASSUME NEW h \in Generation
          PROVE  /\ q.stage[h] \in Open => q.live
                 /\ q.stage[h] \in Held => now <= b.deadline
                 /\ q.stage[h] = "RESULT" =>
                      /\ b.state = "RESULT_TRANSFERRING"
                      /\ q.computed[h] # NoTime /\ q.computed[h] <= b.deadline
        <3>1. CASE h = g
            <4>1. now # NoTime
                BY DEF Time, NoTime
            <4> QED BY <1>1, <1>2, <1>4, <1>5, <1>7, <3>1, <4>1
        <3>2. CASE h = 1 - g
            <4>1. q.stage[h] = p.stage[h] /\ q.computed[h] = p.computed[h]
                BY <1>1, <1>2, <1>4, <3>2
            <4> QED BY <1>4, <1>5, <1>7, <4>1 DEF Attempts
        <3> QED BY <1>6, <3>1, <3>2
    <2>3. q.immune => q.stage[0] \notin Open
        <3>1. CASE g = 0
            BY <1>4, <3>1 DEF Attempts, Open, Held
        <3>2. CASE g = 1
            BY <1>1, <1>4, <3>2 DEF Attempts
        <3> QED BY <3>1, <3>2 DEF Generation
    <2>4. ASSUME NEW j \in Flow, q.flow[j].step = "flying"
          PROVE  q.flow[j] = Flying /\ q.stage[Of(j)] = Needs(j)
        <3>1. CASE j = k
            BY <1>1, <1>3, <1>4, <2>4, <3>1 DEF Delivers
        <3>2. CASE j # k
            <4>1. q.flow[j] = p.flow[j] /\ p.flow[j] = Flying /\ p.stage[Of(j)] = Needs(j)
                BY <1>3, <1>4, <2>4, <3>2 DEF Attempts
            <4>2. Of(j) # g
                BY <4>1 DEF Needs
            <4>3. Of(j) \in Generation
                BY FlowsKnown
            <4> QED BY <1>1, <1>4, <1>6, <4>1, <4>2, <4>3
        <3> QED BY <3>1, <3>2
    <2>5. b.state \notin {"INPUT_TRANSFERRING", "QUEUED"}
        BY <1>5
    <2> QED BY <1>5, <1>7, <2>1, <2>2, <2>3, <2>4, <2>5 DEF Attempts
<1> QED BY <1>1, <1>4, <1>5, <1>8 DEF Yields

\* What becomes of a task when an attempt of it has computed.
LEMMA ComputedIs ==
    ASSUME NEW u, WorldOK(u), NEW t \in Task, TaskOK(u, t), NEW g \in Generation,
           u.pair[t].stage[g] = "RUNNING", NEW n \in Server, n = NodeOf(u, t, g), n \notin u.dead,
           NEW r \in Service, NEW T, Serves(u, [u.svc EXCEPT ![n] = r], T),
           NEW z, z = Computed([u EXCEPT !.svc[n] = r], t, g)
    PROVE  \E k, delivery :
             /\ Delivers(g, k, delivery)
             /\ Sets(u, z, t, Returning(u.task[t]), Yielded(u.pair[t], g, u.now, k, delivery),
                     u.assigned[t], NoNode, [u.svc EXCEPT ![n] = r], T)
<1> DEFINE p == u.pair[t]
           a == u.task[t]
           svc == [u.svc EXCEPT ![n] = r]
           w0 == [u EXCEPT !.svc[n] = r]
           c0 == Must(w0, n \notin w0.dead /\ ~Terminal(w0, t))
           b == [a EXCEPT !.state = "RESULT_TRANSFERRING"]
           e == [p EXCEPT !.stage[g] = "RESULT", !.computed[g] = u.now]
           c == [c0 EXCEPT !.task[t].state = "RESULT_TRANSFERRING",
                           !.pair[t] = [@ EXCEPT !.stage[g] = "RESULT", !.computed[g] = u.now]]
           task == [u.task EXCEPT ![t] = b]
           mid == [u.pair EXCEPT ![t] = e]
<1>1. /\ u \in World /\ u.ok = TRUE /\ u.now \in Time /\ u.svc \in [Server -> Service]
      /\ u.task \in [Task -> TaskRuntime] /\ u.pair \in [Task -> Pair] /\ p \in Pair /\ a \in TaskRuntime
      /\ u.assigned \in [Task -> Server \cup {NoNode}] /\ u.recovering \in [Task -> Server \cup {NoNode}]
    BY WorldTypes DEF WorldOK
<1>2. Sane(u, t) /\ Agrees(p, a)
    <2>1. ~Unstarted(p, a)
        BY DEF Unstarted, NoPair, Generation
    <2> QED BY <2>1 DEF TaskOK, PairOK, Sane
<1>3. p.live /\ u.now <= a.deadline /\ a.deadline \in Time
    BY <1>2 DEF Sane, Attempts, Open, Held
<1>4. a.state \notin {"COMPLETED", "FAILED"}
    BY <1>2, <1>3 DEF Agrees
<1>5. /\ Shaped(w0) /\ w0.now = u.now /\ w0.ok = TRUE /\ w0.ended = u.ended /\ w0.dead = u.dead
      /\ w0.svc = svc /\ w0.task = u.task /\ w0.pair = u.pair
      /\ w0.assigned = u.assigned /\ w0.recovering = u.recovering
    <2>1. w0 = [u EXCEPT !.svc = svc]
        OBVIOUS
    <2> HIDE DEF w0, svc
    <2> QED BY <1>1, <2>1 DEF World, Shaped
<1>6. c0 = w0
    <2>1. n \notin w0.dead /\ ~Terminal(w0, t)
        BY <1>4, <1>5 DEF Terminal
    <2> HIDE DEF w0
    <2> QED BY <1>5, <2>1 DEF Must, Shaped
<1> HIDE DEF w0, c0
<1>7. /\ Shaped(c) /\ c.now = u.now /\ c.ok = TRUE /\ c.ended = u.ended /\ c.dead = u.dead
      /\ c.svc = svc /\ c.task = task /\ c.pair = mid
      /\ c.assigned = u.assigned /\ c.recovering = u.recovering
    <2> DEFINE x == [w0 EXCEPT !.task = task]
    <2>1. x = [c0 EXCEPT !.task[t].state = "RESULT_TRANSFERRING"]
        BY <1>1, <1>5, <1>6
    <2>2. /\ Shaped(x) /\ x.now = u.now /\ x.ok = TRUE /\ x.ended = u.ended /\ x.dead = u.dead
          /\ x.svc = svc /\ x.task = task /\ x.pair = u.pair
          /\ x.assigned = u.assigned /\ x.recovering = u.recovering
        <3> HIDE DEF svc, task
        <3> QED BY <1>5 DEF Shaped
    <2>3. c = [x EXCEPT !.pair[t] = [@ EXCEPT !.stage[g] = "RESULT", !.computed[g] = u.now]]
        BY <2>1
    <2> HIDE DEF x, c
    <2>4. c = [x EXCEPT !.pair = mid]
        BY <2>2, <2>3
    <2> HIDE DEF mid, svc, task
    <2> QED BY <2>2, <2>4 DEF Shaped
<1>8. z = IF g = 1 THEN DeliverReplica(Computes(c, t, n), t, "RESULT")
          ELSE [c EXCEPT !.pair[t].flow["PRIMARY_RESULT"] = Flying]
    <2>1. NodeOf(w0, t, g) = n
        BY <1>5 DEF NodeOf
    <2>2. ~(~w0.pair[t].live \/ w0.pair[t].stage[g] # "RUNNING") /\ ~(w0.now > w0.task[t].deadline)
        BY <1>1, <1>3, <1>5 DEF Time
    <2>3. z = Computed(w0, t, g)
        BY DEF w0
    <2>4. c = [Must(w0, n \notin w0.dead /\ ~Terminal(w0, t))
              EXCEPT !.task[t].state = "RESULT_TRANSFERRING",
                     !.pair[t] = [@ EXCEPT !.stage[g] = "RESULT", !.computed[g] = w0.now]]
        BY <1>5 DEF c0
    <2> HIDE DEF c, w0
    <2> QED BY ONLY <2>1, <2>2, <2>3, <2>4 DEF Computed
<1> HIDE DEF c
<1>9. e \in Pair /\ e.node = p.node
    <2> DEFINE x == [p EXCEPT !.stage[g] = "RESULT"]
               stage == [p.stage EXCEPT ![g] = "RESULT"]
               computed == [p.computed EXCEPT ![g] = u.now]
    <2>1. stage \in [Generation -> Stage] /\ computed \in [Generation -> Time \cup {NoTime}]
        BY <1>1, PairTypes DEF Stage
    <2> HIDE DEF stage, computed
    <2>2. x \in Pair /\ x.computed = p.computed /\ x.node = p.node
        <3>1. x = [p EXCEPT !.stage = stage]
            BY DEF stage
        <3> QED BY <1>1, <2>1, <3>1 DEF Pair
    <2>3. e = [x EXCEPT !.computed = computed]
        BY <2>2 DEF computed
    <2> HIDE DEF x, e
    <2> QED BY <2>1, <2>2, <2>3 DEF Pair
<1>10. mid[t] = e
    BY <1>1
<1>11. CASE g = 1
    <2> DEFINE y == Computes(c, t, n)
               none == [u.recovering EXCEPT ![t] = NoNode]
               ends == {n, ResultNode[t]}
               delivery == [step |-> IF Cardinality(ends) = 1 THEN "local" ELSE "queued",
                            due |-> u.now + 1]
               q == Yielded(p, g, u.now, "RESULT", delivery)
    <2>1. p.node = n
        BY <1>11 DEF NodeOf
    <2>2. u.recovering[t] \in {NoNode, n}
        BY <1>2, <2>1 DEF Sane, Ledger
    <2>3. /\ Shaped(y) /\ y.now = u.now /\ y.ok = TRUE /\ y.ended = u.ended /\ y.dead = u.dead
          /\ y.svc = svc /\ y.task = task /\ y.pair = mid
          /\ y.assigned = u.assigned /\ y.recovering = none
        <3> HIDE DEF svc, task, mid
        <3>1. c.recovering[t] \in {NoNode, n}
            BY <1>7, <2>2
        <3>2. Must(c, c.recovering[t] \in {NoNode, n}) = c
            BY <1>7, <3>1 DEF Must, Shaped
        <3>3. y = [c EXCEPT !.recovering = none]
            BY <1>7, <3>2 DEF Computes
        <3> HIDE DEF y, none
        <3> QED BY <1>7, <3>3 DEF Shaped
    <2> HIDE DEF y
    <2>4. z = [y EXCEPT !.pair[t].flow["RESULT"] = delivery]
        <3>1. y.pair[t].node = n
            BY <1>9, <1>10, <2>1, <2>3
        <3>2. z = DeliverReplica(y, t, "RESULT")
            BY <1>8, <1>11 DEF y
        <3>3. DeliverReplica(y, t, "RESULT")
                = [y EXCEPT !.pair[t].flow["RESULT"] =
                     [step |-> IF Cardinality({y.pair[t].node, ResultNode[t]}) = 1 THEN "local"
                               ELSE "queued",
                      due |-> y.now + 1]]
            BY DEF DeliverReplica
        <3> QED BY <2>3, <3>1, <3>2, <3>3
    <2>5. Delivers(g, "RESULT", delivery)
        BY <1>1, <1>11 DEF Delivers, Flow, Of, Needs, Delivery, Time
    <2>6. [mid EXCEPT ![t].flow["RESULT"] = delivery] = [u.pair EXCEPT ![t] = q]
        <3>1. q = [e EXCEPT !.flow["RESULT"] = delivery]
            BY DEF Yielded
        <3> HIDE DEF q, e, delivery
        <3> QED BY <1>1, <3>1
    <2> HIDE DEF delivery, q
    <2>7. q \in Pair
        <3>1. Attempts(p, a, u.now)
            BY <1>2 DEF Sane
        <3> QED BY <1>1, <2>5, <3>1, YieldedFacts DEF q, Yields
    <2>8. z = [y EXCEPT !.pair = [u.pair EXCEPT ![t] = q]]
        BY <2>3, <2>4, <2>6
    <2>9. /\ Shaped(z) /\ z.now = u.now /\ z.ok = TRUE /\ z.ended = u.ended /\ z.dead = u.dead
          /\ z.svc = svc /\ z.task = task /\ z.pair = [u.pair EXCEPT ![t] = q]
          /\ z.assigned = u.assigned /\ z.recovering = none
        <3> DEFINE pair == [u.pair EXCEPT ![t] = q]
        <3>1. z = [y EXCEPT !.pair = pair]
            BY <2>8
        <3> HIDE DEF pair, svc, task, mid, none
        <3>2. /\ Shaped(z) /\ z.now = u.now /\ z.ok = TRUE /\ z.ended = u.ended /\ z.dead = u.dead
              /\ z.svc = svc /\ z.task = task /\ z.pair = pair
              /\ z.assigned = u.assigned /\ z.recovering = none
            BY <2>3, <3>1 DEF Shaped
        <3> QED BY <3>2 DEF pair
    <2>10. u.assigned = [u.assigned EXCEPT ![t] = u.assigned[t]] /\ u.assigned[t] \in Server \cup {NoNode}
        BY <1>1
    <2>11. Returning(a) = b /\ Returning(a) \in TaskRuntime
        BY <1>1 DEF Returning, TaskRuntime, TaskState
    <2>12. Sets(u, z, t, Returning(a), q, u.assigned[t], NoNode, svc, T)
        BY <2>7, <2>9, <2>10, <2>11 DEF Sets
    <2> QED BY <2>5, <2>12 DEF q
<1>12. CASE g = 0
    <2> DEFINE q == Yielded(p, g, u.now, "PRIMARY_RESULT", Flying)
    <2>1. z = [c EXCEPT !.pair[t].flow["PRIMARY_RESULT"] = Flying]
        BY <1>8, <1>12
    <2>2. Delivers(g, "PRIMARY_RESULT", Flying)
        BY <1>12, FlowsKnown DEF Delivers, Flow, Of, Needs
    <2>3. [mid EXCEPT ![t].flow["PRIMARY_RESULT"] = Flying] = [u.pair EXCEPT ![t] = q]
        <3>1. q = [e EXCEPT !.flow["PRIMARY_RESULT"] = Flying]
            BY DEF Yielded
        <3> HIDE DEF q, e
        <3> QED BY <1>1, <3>1
    <2> HIDE DEF q
    <2>4. q \in Pair
        <3>1. Attempts(p, a, u.now)
            BY <1>2 DEF Sane
        <3> QED BY <1>1, <2>2, <3>1, YieldedFacts DEF q, Yields
    <2>5. /\ Shaped(z) /\ z.now = u.now /\ z.ok = TRUE /\ z.ended = u.ended /\ z.dead = u.dead
          /\ z.svc = svc /\ z.task = task /\ z.pair = [u.pair EXCEPT ![t] = q]
          /\ z.assigned = u.assigned /\ z.recovering = u.recovering
        <3> DEFINE pair == [u.pair EXCEPT ![t] = q]
        <3>1. z = [c EXCEPT !.pair = pair]
            BY <1>7, <2>1, <2>3
        <3> HIDE DEF pair, svc, task, mid
        <3>2. /\ Shaped(z) /\ z.now = u.now /\ z.ok = TRUE /\ z.ended = u.ended /\ z.dead = u.dead
              /\ z.svc = svc /\ z.task = task /\ z.pair = pair
              /\ z.assigned = u.assigned /\ z.recovering = u.recovering
            BY <1>7, <3>1 DEF Shaped
        <3> QED BY <3>2 DEF pair
    <2>6. u.recovering[t] = NoNode
        <3>1. p.stage[0] \in Open
            BY <1>12 DEF Open, Held
        <3> QED BY <1>2, <3>1 DEF Sane, Attempts, Ledger
    <2>7. /\ u.assigned = [u.assigned EXCEPT ![t] = u.assigned[t]] /\ u.assigned[t] \in Server \cup {NoNode}
          /\ u.recovering = [u.recovering EXCEPT ![t] = NoNode]
        BY <1>1, <2>6
    <2>8. Returning(a) = b /\ Returning(a) \in TaskRuntime
        BY <1>1 DEF Returning, TaskRuntime, TaskState
    <2>9. Sets(u, z, t, Returning(a), q, u.assigned[t], NoNode, svc, T)
        BY <2>4, <2>5, <2>7, <2>8 DEF Sets
    <2> QED BY <2>2, <2>9 DEF q
<1> QED BY <1>11, <1>12 DEF Generation

\* What an attempt needs, it needs until it is over.
LEMMA ExposedStays ==
    ASSUME NEW u, NEW v \in World, NEW t \in Task, SameSky(u, v), Places(v, t),
           v.pair[t].node = u.pair[t].node, u.pair[t].immune => v.pair[t].immune,
           v.task[t].state \notin {"INPUT_TRANSFERRING", "QUEUED"},
           \A g \in Generation :
             /\ v.pair[t].stage[g] \in Open => u.pair[t].stage[g] \in Open
             /\ v.pair[t].stage[g] = "RUNNING" => u.pair[t].stage[g] = "RUNNING"
    PROVE  \A closed, lost : Exposed(u, t, closed, lost) => Exposed(v, t, closed, lost)
<1> DEFINE p == u.pair[t]
           q == v.pair[t]
<1>1. ASSUME NEW closed, NEW lost, Exposed(u, t, closed, lost), NEW g \in Generation
      PROVE  /\ q.stage[g] \in Open => {NodeOf(v, t, g), ResultNode[t]} \cap (v.dead \ lost) = {}
             /\ q.stage[g] = "RUNNING" =>
                  \/ v.svc[NodeOf(v, t, g)].available \/ (g = 1 /\ q.immune)
                  \/ NodeOf(v, t, g) \in closed
    <2>1. NodeOf(v, t, g) = NodeOf(u, t, g)
        BY DEF NodeOf
    <2>2. q.stage[g] = "RUNNING" => NodeOf(v, t, g) \in Server
        <3>1. CASE g = 0
            BY <3>1, NodeAssumption DEF NodeOf
        <3>2. CASE g = 1
            <4>1. q.node \in Server \cup {NoNode}
                BY WorldTypes, PairTypes
            <4> QED BY <3>2, <4>1 DEF NodeOf, Places, PlacesAt
        <3> QED BY <3>1, <3>2 DEF Generation
    <2> QED BY <1>1, <2>1, <2>2 DEF Exposed, SameSky
<1> QED BY <1>1 DEF Exposed

\* The attempt that runs on n.
LEMMA RunOf ==
    ASSUME NEW u, WorldOK(u), NEW n \in Server, NEW s, s = u.svc[n], NEW t \in Task, Runs(s, t),
           TaskOK(u, t), NEW g, g = IF s.runningRecovery THEN 1 ELSE 0
    PROVE  /\ g \in Generation /\ n = NodeOf(u, t, g) /\ u.pair[t].stage[g] = "RUNNING"
           /\ u.pair[t].stage[1 - g] = "RUNNING" => n # NodeOf(u, t, 1 - g)
           /\ Started(u, t) /\ Sane(u, t) /\ Agrees(u.pair[t], u.task[t]) /\ u.pair[t].live
<1>1. PlacesAt(u.svc, u.pair[t], u.task[t].state, t)
    BY DEF TaskOK, Places
<1>2. ~Unstarted(u.pair[t], u.task[t])
    BY <1>1 DEF PlacesAt, Unstarted, NoPair, Generation
<1>3. Started(u, t) /\ Sane(u, t) /\ Agrees(u.pair[t], u.task[t])
    BY <1>2, StartedSane
<1>4. g \in Generation /\ n = NodeOf(u, t, g) /\ u.pair[t].stage[g] = "RUNNING"
    BY <1>1 DEF PlacesAt, NodeOf, Generation
<1>5. n # NodeOf(u, t, 1 - g)
    BY <1>1 DEF PlacesAt, NodeOf
<1>6. u.pair[t].live
    BY <1>3, <1>4 DEF Sane, Attempts, Open, Held
<1> QED BY <1>3, <1>4, <1>5, <1>6

\* The slot of t is free, and nothing of t waits.
Leaves(r, s, t) ==
    /\ r.known = s.known /\ ~Runs(r, t) /\ r.owner = NoTask
    /\ \A i \in r.queue : i.task # t

\* The attempts of t are what they were, or one that ran has its result.
Advances(u, v, t) ==
    LET p == u.pair[t]
        q == v.pair[t]
    IN /\ q.live = p.live /\ q.node = p.node /\ q.immune = p.immune
       /\ v.task[t].deadline = u.task[t].deadline
       /\ \A g \in Generation :
            q.stage[g] = p.stage[g] \/ (p.stage[g] = "RUNNING" /\ q.stage[g] = "RESULT")

LEMMA AdvancesTransitive ==
    ASSUME NEW u, NEW v, NEW z, NEW t, Advances(u, v, t), Advances(v, z, t)
    PROVE  Advances(u, z, t)
BY DEF Advances

LEMMA BesideAdvances ==
    ASSUME NEW u, NEW v, NEW t, Beside(u, v, t)
    PROVE  Advances(u, v, t)
BY DEF Beside, Advances

\* A task is in order when an attempt of it has computed.
Returned(u, z, t) ==
    /\ Advances(u, z, t)
    /\ TaskOK(z, t) /\ (Timed(u, t) => Timed(z, t)) /\ (Granted(u, t) => Granted(z, t))
    /\ \A closed, lost : Exposed(u, t, closed, lost) => Exposed(z, t, closed, lost)
    /\ Started(z, t) /\ z.pair[t].live

LEMMA YieldsSound ==
    ASSUME NEW u, NEW z, WorldOK(u), WorldOK(z), SameSky(u, z), z.now = u.now,
           NEW t \in Task, NEW n \in Server, \A m \in Server \ {n} : z.svc[m] = u.svc[m],
           Leaves(z.svc[n], u.svc[n], t), TaskOK(u, t),
           NEW g \in Generation, n = NodeOf(u, t, g), u.pair[t].stage[g] = "RUNNING",
           Yields(u.pair[t], z.pair[t], g, u.task[t], z.task[t], u.now),
           z.assigned[t] = u.assigned[t], z.recovering[t] = NoNode
    PROVE  Returned(u, z, t)
<1> DEFINE p == u.pair[t]
           q == z.pair[t]
           a == u.task[t]
           b == z.task[t]
<1>4. p.stage[g] = "RUNNING" /\ g \in {0, 1} /\ n = (IF g = 0 THEN HostNode[t] ELSE p.node)
    BY DEF NodeOf, Generation
<1>5. Sane(u, t) /\ Agrees(p, a) /\ p.live
    <2>1. Started(u, t)
        BY DEF TaskOK, PairOK, Unstarted, NoPair, Attempts, Started
    <2> QED BY <2>1, StartedSane DEF Sane, Attempts, Open, Held
<1>9. /\ q \in Pair /\ q.live = p.live /\ q.node = p.node /\ q.immune = p.immune
      /\ q.stage[g] = "RESULT" /\ q.stage[1 - g] = p.stage[1 - g]
      /\ Attempts(q, b, u.now)
      /\ b \in TaskRuntime /\ b.timer = a.timer /\ b.state = "RESULT_TRANSFERRING"
    BY DEF Yields
<1>10. /\ z.now = u.now /\ z.dead = u.dead /\ z.task[t] = b /\ z.pair[t] = q
       /\ z.assigned[t] = u.assigned[t] /\ z.recovering[t] = NoNode
    BY DEF SameSky
<1>11. /\ Leaves(z.svc[n], u.svc[n], t)
       /\ \A m \in Server : m # n => z.svc[m] = u.svc[m]
    OBVIOUS
<1>13. \A h \in Generation : h = g \/ h = 1 - g
    BY <1>5 DEF Generation
<1>14. /\ q.stage[1] = "ABSENT" <=> p.stage[1] = "ABSENT"
       /\ q.stage[1] \in Held => p.stage[1] \in Held /\ g = 0
       /\ p.stage[1] \in Held /\ g = 0 => q.stage[1] \in Held
       /\ q.stage[0] = "RUNNING" <=> (p.stage[0] = "RUNNING" /\ g = 1)
       /\ q.stage[1] = "RUNNING" <=> (p.stage[1] = "RUNNING" /\ g = 0)
    <2>1. CASE g = 0
        BY <1>5, <1>9, <2>1
    <2>2. CASE g = 1
        BY <1>5, <1>9, <2>2 DEF Held
    <2> QED BY <1>5, <2>1, <2>2 DEF Generation
<1>15. PlacesAt(z.svc, q, "RESULT_TRANSFERRING", t)
    <2>1. /\ PlacesAt(u.svc, p, a.state, t) /\ a.state \notin {"INPUT_TRANSFERRING", "QUEUED"}
          /\ p.node # HostNode[t]
        BY <1>4, <1>5, SaneNode
    <2>2. n = IF g = 0 THEN HostNode[t] ELSE p.node
        BY <1>4
    <2>3. g \in {0, 1} /\ t # NoTask
        BY <1>4, TaskAssumption DEF NoTask
    <2>4. ASSUME NEW m \in Server
          PROVE  LET x == z.svc[m] IN
                 /\ t \in x.known => m = q.node \/ m = HostNode[t]
                 /\ \A i \in x.queue : i.task # t
                 /\ x.owner = t <=> m = q.node /\ q.stage[1] \in Held
                 /\ x.owner = t => (x.immune <=> q.immune)
                 /\ Runs(x, t) <=> \/ m = HostNode[t] /\ q.stage[0] = "RUNNING"
                                   \/ m = q.node /\ q.stage[1] = "RUNNING"
                 /\ Runs(x, t) => (x.runningRecovery <=> m = q.node)
        <3>1. CASE m = n
            BY <1>4, <1>9, <1>11, <1>14, <2>1, <2>2, <2>3, <3>1 DEF PlacesAt, Leaves
        <3>2. CASE m # n
            <4>1. /\ t \in u.svc[m].known => m = p.node \/ m = HostNode[t]
                  /\ \A i \in u.svc[m].queue : i.task # t
                  /\ u.svc[m].owner = t <=> m = p.node /\ p.stage[1] \in Held
                  /\ u.svc[m].owner = t => (u.svc[m].immune <=> p.immune)
                  /\ Runs(u.svc[m], t) <=> \/ m = HostNode[t] /\ p.stage[0] = "RUNNING"
                                           \/ m = p.node /\ p.stage[1] = "RUNNING"
                  /\ Runs(u.svc[m], t) => (u.svc[m].runningRecovery <=> m = p.node)
                BY <2>1 DEF PlacesAt
            <4>2. z.svc[m] = u.svc[m] /\ q.node = p.node /\ q.immune = p.immune
                BY <1>9, <1>11, <3>2
            <4> HIDE DEF p
            <4> QED BY <1>14, <2>2, <2>3, <3>2, <4>1, <4>2
        <3> QED BY <3>1, <3>2
    <2> QED BY <1>9, <1>14, <2>1, <2>4 DEF PlacesAt
<1>16. Ledger(z, t)
    <2>1. q.stage[1] \in Open <=> p.stage[1] \in Open
        <3>1. CASE g = 0
            BY <1>9, <3>1
        <3>2. CASE g = 1
            BY <1>5, <1>9, <3>2 DEF Open, Held
        <3> QED BY <1>5, <3>1, <3>2 DEF Generation
    <2>2. ~(q.immune /\ q.stage[1] \in Held)
        BY <1>5, <1>9, <1>14 DEF Sane, Attempts, Open, Held
    <2> QED BY <1>5, <1>9, <1>10, <2>1, <2>2 DEF Sane, Ledger
<1>17. Agrees(q, b)
    <2>1. \A h \in Generation : p.stage[h] # "COMPLETED"
        BY <1>5 DEF Agrees
    <2>2. \A h \in Generation : q.stage[h] # "COMPLETED"
        BY <1>5, <1>9, <1>13, <2>1, TwoAttempts
    <2> QED BY <1>5, <1>9, <2>2 DEF Agrees
<1>18. TaskOK(z, t)
    BY <1>9, <1>10, <1>15, <1>16, <1>17 DEF TaskOK, PairOK, Places
<1>19. \A h \in Generation :
         /\ q.stage[h] \in Open => p.stage[h] \in Open
         /\ q.stage[h] \in Held => p.stage[h] \in Held
         /\ q.stage[h] = "RUNNING" => p.stage[h] = "RUNNING"
    <2>1. ASSUME NEW h \in Generation, h = g
          PROVE  p.stage[h] \in Open /\ p.stage[h] \in Held /\ q.stage[h] # "RUNNING"
        BY <1>5, <1>9, <2>1 DEF Open, Held
    <2>2. ASSUME NEW h \in Generation, h = 1 - g
          PROVE  q.stage[h] = p.stage[h]
        BY <1>9, <2>2
    <2> QED BY <1>13, <2>1, <2>2
<1>20. Timed(u, t) => Timed(z, t)
    BY <1>9, <1>10, <1>19 DEF Timed
<1>21. \A closed, lost : Exposed(u, t, closed, lost) => Exposed(z, t, closed, lost)
    <2>1. z \in World /\ SameSky(u, z) /\ Places(z, t)
        BY <1>18 DEF WorldOK, TaskOK
    <2> QED BY <1>4, <1>9, <1>10, <1>19, <2>1, ExposedStays DEF p
<1>22. ASSUME Granted(u, t) PROVE Granted(z, t)
    <2>1. q.stage[g] \in Open
        BY <1>9 DEF Open
    <2>2. CASE g = 0
        <3>1. q.stage[0] \in Open /\ q.stage[1] = p.stage[1]
            BY <1>9, <2>1, <2>2
        <3>2. q.stage[1] = "READY" => z.svc[q.node].available = u.svc[p.node].available
            <4>1. q.stage[1] = "READY" => p.node \in Server
                BY <1>4, <1>5, <3>1, SaneNode
            <4> QED BY <1>9, <1>10, <4>1 DEF SameSky
        <3> QED BY <1>5, <1>9, <1>10, <1>22, <2>1, <3>1, <3>2 DEF Granted, Backed
    <2>3. CASE g = 1
        <3>1. q.stage[1] \notin Held /\ q.stage[1] # "READY"
            BY <1>9, <2>3 DEF Held
        <3> QED BY <1>5, <1>9, <1>10, <2>1, <3>1 DEF Granted, Backed
    <2> QED BY <1>5, <2>2, <2>3 DEF Generation
<1>23. Started(z, t) /\ z.pair[t].live
    BY <1>5, <1>9, <1>10 DEF Started, Attempts
<1>24. Advances(u, z, t)
    <2>1. b.deadline = a.deadline
        BY DEF Yields
    <2>2. \A h \in Generation : q.stage[h] = p.stage[h] \/ (p.stage[h] = "RUNNING" /\ q.stage[h] = "RESULT")
        BY <1>4, <1>9, <1>13
    <2> QED BY <1>9, <1>10, <2>1, <2>2 DEF Advances
<1> QED BY <1>18, <1>20, <1>21, <1>22, <1>23, <1>24 DEF Returned

\* What becomes of a slot when the run of t in it is completed.
Hands(r, s, t, now) ==
    /\ t \in Task
    /\ r.running = s.running /\ r.available = s.available
    /\ r.known = s.known /\ ~Runs(r, t) /\ r.owner = NoTask
    /\ \A i \in r.queue : i.task # t /\ i \in s.queue
    /\ \/ ~r.hasCurrent /\ \A x \in Task : x # t => Unmoved(r, s, x)
       \/ /\ r.hasCurrent /\ ~r.runningRecovery /\ r.current.task \in Task \ {t}
          /\ r.current.start = now
          /\ \E i \in s.queue : i.task = r.current.task
          /\ \A i \in r.queue : i.task # r.current.task
          /\ \A x \in Task : x # t /\ x # r.current.task => Unmoved(r, s, x)

LEMMA RunHanded ==
    ASSUME NEW s \in Service, NEW now \in Time, NEW rate \in Nat \ {0},
           NEW defer \in BOOLEAN, ServiceCore(s, now), CompletionLegal(s, now)
    PROVE  Hands(CompleteCurrentTask(s, now, rate, defer), s, s.current.task, now)
BY CompleteCurrentTaskTakes DEF Hands

\* The run of t in s has been completed in r.
Vacates(r, s, t, now) ==
    /\ r \in Service /\ r.running /\ ServiceCore(r, now) /\ DispatchArmed(r)
    /\ r.available = s.available /\ Leaves(r, s, t)
    /\ \A x \in Task \ {t} : Unmoved(r, s, x) \/ Gains(r, s, x)

\* What a completed run leaves behind in its service.
LEMMA RunVacated ==
    ASSUME NEW s \in Service, NEW now \in Time, s.running, ServiceCore(s, now),
           CompletionLegal(s, now), NEW defer \in BOOLEAN
    PROVE  LET r == CompleteCurrentTask(s, now, 1, defer)
               t == s.current.task
           IN /\ t \in Task /\ Runs(s, t) /\ Vacates(r, s, t, now)
              /\ defer => ~r.hasCurrent
<1> DEFINE r == CompleteCurrentTask(s, now, 1, defer)
           t == s.current.task
<1>1. 1 \in Nat \ {0} /\ Runs(s, t)
    BY DEF CompletionLegal, CompletionDue, Runs
<1>2. r \in Service /\ ServiceInv(r, now)
    BY <1>1, CompleteCurrentTaskKeeps
<1>3. Hands(r, s, t, now)
    BY <1>1, RunHanded
<1>8. /\ t \in Task
      /\ r.running = s.running /\ r.available = s.available
      /\ r.known = s.known /\ ~Runs(r, t) /\ r.owner = NoTask
      /\ \A i \in r.queue : i.task # t /\ i \in s.queue
    BY <1>3 DEF Hands
<1>9. \/ ~r.hasCurrent /\ \A x \in Task : x # t => Unmoved(r, s, x)
      \/ /\ r.hasCurrent /\ ~r.runningRecovery /\ r.current.task \in Task \ {t}
         /\ \E i \in s.queue : i.task = r.current.task
         /\ \A i \in r.queue : i.task # r.current.task
         /\ \A x \in Task : x # t /\ x # r.current.task => Unmoved(r, s, x)
    BY <1>3 DEF Hands
<1>4. ASSUME defer PROVE ~r.hasCurrent
    <2>1. r = RequestDispatch(Vacated(s))
        BY <1>4 DEF CompleteCurrentTask
    <2>2. Vacated(s) \in Service /\ ~Vacated(s).hasCurrent
        BY VacatedKeeps
    <2> QED BY <2>1, <2>2, RequestDispatchFrame
<1> HIDE DEF r, t
<1>5. ASSUME r.hasCurrent PROVE Gains(r, s, r.current.task)
    <2>1. ~r.runningRecovery
        BY <1>9, <1>5
    <2>2. r.available
        BY <1>2, <1>5, <1>8, <2>1
           DEF ServiceInv, ServiceCore, CompletionTimely, CompletionAllowed, ImmuneRun
    <2> QED BY <1>5, <1>8, <1>9, <2>1, <2>2 DEF Gains, Runs
<1>6. \A x \in Task \ {t} : Unmoved(r, s, x) \/ Gains(r, s, x)
    BY <1>5, <1>9
<1>7. Vacates(r, s, t, now)
    BY <1>2, <1>6, <1>8 DEF ServiceInv, Leaves, Vacates
<1> QED BY <1>1, <1>4, <1>7, <1>8 DEF r, t

\* The result of t is on its way, and the slot of n is left to the next.
Passes(u, z, n, r, t) ==
    /\ WorldOK(z) /\ SameSky(u, z) /\ z.now = u.now
    /\ z.svc[n] = r /\ \A m \in Server \ {n} : z.svc[m] = u.svc[m]
    /\ \A x \in Task \ {t} :
         /\ z.task[x] = u.task[x] /\ z.pair[x] = u.pair[x]
         /\ z.assigned[x] = u.assigned[x] /\ z.recovering[x] = u.recovering[x]
         /\ Beside(u, z, x) \/ Gains(r, u.svc[n], x)
    /\ Returned(u, z, t)

LEMMA ResultPasses ==
    ASSUME NEW u, WorldOK(u), NEW n \in Server, NEW t \in Task, TaskOK(u, t),
           NEW r, Vacates(r, u.svc[n], t, u.now),
           NEW g \in Generation, n = NodeOf(u, t, g), u.pair[t].stage[g] = "RUNNING",
           NEW z, NEW q, NEW b, NEW svc, NEW T, T = {t} \cup {x \in Task : Gains(r, u.svc[n], x)},
           Yields(u.pair[t], q, g, u.task[t], b, u.now),
           Sets(u, z, t, b, q, u.assigned[t], NoNode, svc, T), svc = [u.svc EXCEPT ![n] = r]
    PROVE  Passes(u, z, n, r, t)
<1>1. Leaves(r, u.svc[n], t)
    BY DEF Vacates
<1>5. svc[n] = r /\ \A m \in Server : m # n => svc[m] = u.svc[m]
    BY WorldTypes DEF WorldOK
<1>6. /\ WorldOK(z) /\ Only(u, z, {t} \cup T) /\ z.now = u.now /\ z.dead = u.dead
      /\ z.svc = svc /\ z.task[t] = b /\ z.pair[t] = q
      /\ z.assigned[t] = u.assigned[t] /\ z.recovering[t] = NoNode
      /\ \A x \in Task \ {t} :
           /\ z.task[x] = u.task[x] /\ z.pair[x] = u.pair[x]
           /\ z.assigned[x] = u.assigned[x] /\ z.recovering[x] = u.recovering[x]
    <2>1. Settles(u, z, t, b, q, u.assigned[t], NoNode, svc, T)
        BY SetsSettles
    <2> QED BY <2>1 DEF Settles
<1>7. \A x \in Task \ {t} : Beside(u, z, x) \/ Gains(r, u.svc[n], x)
    BY <1>6 DEF Only
<1>8. /\ SameSky(u, z) /\ z.svc[n] = r /\ \A m \in Server \ {n} : z.svc[m] = u.svc[m]
      /\ Leaves(z.svc[n], u.svc[n], t)
      /\ Yields(u.pair[t], z.pair[t], g, u.task[t], z.task[t], u.now)
    BY <1>1, <1>5, <1>6 DEF Only
<1>9. Returned(u, z, t)
    <2>1. z.assigned[t] = u.assigned[t] /\ z.recovering[t] = NoNode /\ WorldOK(z) /\ z.now = u.now
        BY <1>6
    <2> QED BY <1>8, <2>1, YieldsSound
<1> QED BY <1>6, <1>7, <1>8, <1>9 DEF Passes

\* What a completed run leaves: others are as they were, but for a task that
\* gets the slot.
LEMMA RunEnds ==
    ASSUME NEW u, WorldOK(u), NEW n \in Server, n \notin u.dead,
           NEW t \in Task, TaskOK(u, t), NEW r, Vacates(r, u.svc[n], t, u.now),
           NEW g \in Generation, n = NodeOf(u, t, g), u.pair[t].stage[g] = "RUNNING",
           NEW z, z = Computed([u EXCEPT !.svc[n] = r], t, g)
    PROVE  Passes(u, z, n, r, t)
<1> DEFINE svc == [u.svc EXCEPT ![n] = r]
           T == {t} \cup {x \in Task : Gains(r, u.svc[n], x)}
<1>1. /\ Leaves(r, u.svc[n], t)
      /\ r \in Service /\ r.running /\ ServiceCore(r, u.now) /\ DispatchArmed(r)
      /\ r.available = u.svc[n].available
      /\ \A x \in Task \ {t} : Unmoved(r, u.svc[n], x) \/ Gains(r, u.svc[n], x)
    BY DEF Vacates
<1>2. Attempts(u.pair[t], u.task[t], u.now)
    BY DEF TaskOK, PairOK, Unstarted, NoPair
<1>3. Serves(u, svc, T)
    <2>1. \A x \in Task \ T : Unmoved(r, u.svc[n], x)
        BY <1>1
    <2> HIDE DEF T
    <2> QED BY <1>1, <2>1, ServesOne
<1>0. T = {t} \cup {x \in Task : Gains(r, u.svc[n], x)}
    OBVIOUS
<1> HIDE DEF T
<1>4. PICK q, b :
        /\ Yields(u.pair[t], q, g, u.task[t], b, u.now)
        /\ Sets(u, z, t, b, q, u.assigned[t], NoNode, svc, T)
    <2>1. PICK k, delivery :
            /\ Delivers(g, k, delivery)
            /\ Sets(u, z, t, Returning(u.task[t]), Yielded(u.pair[t], g, u.now, k, delivery),
                    u.assigned[t], NoNode, svc, T)
        BY <1>1, <1>3, ComputedIs
    <2>2. u.pair[t] \in Pair /\ u.task[t] \in TaskRuntime /\ u.now \in Time
        BY WorldTypes DEF WorldOK
    <2>3. Yields(u.pair[t], Yielded(u.pair[t], g, u.now, k, delivery), g, u.task[t],
                 Returning(u.task[t]), u.now)
        BY <1>2, <2>1, <2>2, YieldedFacts
    <2> QED BY <2>1, <2>3
<1>5. Passes(u, z, n, r, t)
    <2>1. svc = [u.svc EXCEPT ![n] = r]
        OBVIOUS
    <2> HIDE DEF svc
    <2> QED BY <1>0, <1>4, <2>1, ResultPasses
<1> QED BY <1>5

-----------------------------------------------------------------------------
(* What an event may do to the tasks it is not about *)

\* A task that waited in its queue begins.
Begins(u, v, x) ==
    u.task[x].state = "QUEUED" /\ v.task[x].state = "RUNNING" /\ Calm(v, x)

\* Others are as they were, or have begun and are in order.
Spares(u, v, t) ==
    /\ WorldOK(v) /\ SameSky(u, v) /\ v.now = u.now
    /\ \A x \in Task \ {t} : Beside(u, v, x) \/ Begins(u, v, x)

LEMMA SparesTransitive ==
    ASSUME NEW u, NEW v, NEW z, NEW t, Spares(u, v, t), Spares(v, z, t)
    PROVE  Spares(u, z, t)
<1>1. WorldOK(z) /\ SameSky(u, z) /\ z.now = u.now
    BY DEF Spares, SameSky
<1>2. ASSUME NEW x \in Task \ {t}
      PROVE  Beside(u, z, x) \/ Begins(u, z, x)
    <2>1. (Beside(u, v, x) \/ Begins(u, v, x)) /\ (Beside(v, z, x) \/ Begins(v, z, x))
          /\ SameSky(v, z) /\ v \in World
        BY <1>2 DEF Spares, WorldOK
    <2>2. Beside(u, v, x) /\ Beside(v, z, x) => Beside(u, z, x)
        BY BesideTransitive
    <2>3. Begins(u, v, x) /\ Beside(v, z, x) => Begins(u, z, x)
        <3>1. Calm(v, x) /\ Beside(v, z, x) => Calm(z, x)
            BY <1>2, <2>1, BesideCalm
        <3> QED BY <3>1 DEF Begins, Beside
    <2>4. Beside(u, v, x) /\ Begins(v, z, x) => Begins(u, z, x)
        BY DEF Begins, Beside
    <2>5. ~(Begins(u, v, x) /\ Begins(v, z, x))
        BY DEF Begins
    <2> QED BY <2>1, <2>2, <2>3, <2>4, <2>5
<1> QED BY <1>1, <1>2 DEF Spares

LEMMA FollowsSpares ==
    ASSUME NEW u, NEW v, NEW t, Follows(u, v, t)
    PROVE  Spares(u, v, t)
BY DEF Follows, Only, Spares

LEMMA SparesReflexive ==
    ASSUME NEW u, NEW t, WorldOK(u)
    PROVE  Spares(u, u, t)
BY OnlyReflexive, FollowsSpares DEF Follows

\* Nothing that x needs is gone.
Fit(u, x) == TaskOK(u, x) /\ Exposed(u, x, {}, {})

Orderly(u) == WorldOK(u) /\ \A x \in Task : Fit(u, x)

LEMMA CalmFit ==
    ASSUME NEW u, NEW x, Calm(u, x)
    PROVE  Fit(u, x)
BY DEF Calm, Fit

LEMMA SparesFit ==
    ASSUME NEW u, WorldOK(u), NEW v, NEW t, Spares(u, v, t), NEW x \in Task \ {t}
    PROVE  /\ Fit(u, x) => Fit(v, x)
           /\ Calm(u, x) => Calm(v, x)
           /\ Timed(u, x) => Timed(v, x)
           /\ Fit(u, x) /\ Granted(u, x) => Granted(v, x)
           /\ Fit(u, x) /\ Backed(u, x) => Backed(v, x)
<1>1. (Beside(u, v, x) \/ Calm(v, x)) /\ SameSky(u, v) /\ u \in World
    BY DEF Spares, WorldOK, Begins
<1>2. CASE Calm(v, x)
    BY <1>2, CalmFit DEF Calm, Granted
<1>3. CASE Beside(u, v, x)
    <2>1. Calm(u, x) => Calm(v, x)
        BY <1>1, <1>3, BesideCalm
    <2>2. /\ TaskOK(u, x) => TaskOK(v, x)
          /\ Timed(u, x) => Timed(v, x)
        BY <1>3, BesideKeeps
    <2>3. Fit(u, x) => PairOK(u, x) /\ Places(u, x) /\ Exposed(u, x, {}, {})
        BY DEF Fit, TaskOK
    <2>4. Fit(u, x) => Exposed(v, x, {}, {})
        BY <1>1, <1>3, <2>3, BesideExposed
    <2>5. Fit(u, x) => (Backed(u, x) => Backed(v, x)) /\ (Granted(u, x) => Granted(v, x))
        BY <1>1, <1>3, <2>3, BesideGranted
    <2> QED BY <2>1, <2>2, <2>4, <2>5 DEF Fit
<1> QED BY <1>1, <1>2, <1>3

LEMMA SparesOrderly ==
    ASSUME NEW u, Orderly(u), NEW v, NEW t, Spares(u, v, t), Fit(v, t)
    PROVE  Orderly(v)
<1>1. WorldOK(v)
    BY DEF Spares
<1>2. ASSUME NEW x \in Task PROVE Fit(v, x)
    BY <1>2, SparesFit DEF Orderly
<1> QED BY <1>1, <1>2 DEF Orderly

-----------------------------------------------------------------------------
(* A run completes *)

\* The two steps of a completion.
Completing(u, v, n, t, defer, pick) ==
    \E z, r :
       /\ t \in Task /\ Runs(u.svc[n], t)
       /\ Vacates(r, u.svc[n], t, u.now) /\ Passes(u, z, n, r, t)
       /\ v = Dispatched(z, n, pick)
       /\ defer => ~r.hasCurrent

\* A run that completes ends, and the task that gets its slot begins.
LEMMA CompleteIs ==
    ASSUME NEW u, WorldOK(u), \A x \in Task : TaskOK(u, x), NEW n \in Server, n \notin u.dead,
           CompletionLegal(u.svc[n], u.now), NEW defer \in BOOLEAN, NEW pick,
           NEW v, v = Complete(u, n, defer, pick)
    PROVE  Completing(u, v, n, u.svc[n].current.task, defer, pick)
<1> DEFINE s == u.svc[n]
           t == s.current.task
           r == CompleteCurrentTask(s, u.now, 1, defer)
           g == IF s.runningRecovery THEN 1 ELSE 0
           z == Computed([u EXCEPT !.svc[n] = r], t, g)
<1>1. /\ u.now \in Time /\ s \in Service /\ s.running /\ ServiceCore(s, u.now)
    BY WorldTypes DEF WorldOK, NodeOK
<1>2. t \in Task /\ Runs(s, t) /\ Vacates(r, s, t, u.now)
    BY <1>1, RunVacated
<1>3. ASSUME defer PROVE ~r.hasCurrent
    BY <1>1, <1>3, RunVacated
<1>4. g \in Generation /\ n = NodeOf(u, t, g) /\ u.pair[t].stage[g] = "RUNNING"
    <2>1. s = u.svc[n] /\ g = (IF s.runningRecovery THEN 1 ELSE 0) /\ TaskOK(u, t)
        BY <1>2
    <2> HIDE DEF s, t, r, z, g
    <2> QED BY ONLY <1>2, <2>1, RunOf, WorldOK(u), n \in Server
<1>5. Passes(u, z, n, r, t)
    <2> HIDE DEF r, g
    <2> QED BY <1>2, <1>4, RunEnds
<1>6. v = Dispatched(z, n, pick)
    <2>1. [u EXCEPT !.svc[n] = CompleteCurrentTask(@, u.now, 1, defer)] = [u EXCEPT !.svc[n] = r]
        OBVIOUS
    <2> QED BY <2>1 DEF Complete
<1> HIDE DEF z, r, t
<1>7. /\ t \in Task /\ Runs(s, t)
      /\ Vacates(r, s, t, u.now) /\ Passes(u, z, n, r, t)
      /\ v = Dispatched(z, n, pick)
      /\ defer => ~r.hasCurrent
    BY <1>2, <1>3, <1>5, <1>6
<1>8. Completing(u, v, n, t, defer, pick)
    BY <1>7 DEF Completing
<1> QED BY <1>8 DEF t

\* The one task that may get a slot that has been left.
LeftTo(r, s, t) ==
    /\ \A x \in Task \ {t} : Gains(r, s, x) <=> r.hasCurrent /\ x = r.current.task
    /\ r.hasCurrent => r.current.task \in Task \ {t}

LEMMA SlotTaken ==
    ASSUME NEW r, NEW s, NEW t, NEW now, Vacates(r, s, t, now), Runs(s, t)
    PROVE  LeftTo(r, s, t)
<1>1. /\ r \in Service /\ ServiceCore(r, now) /\ ~Runs(r, t)
      /\ \A x \in Task \ {t} : Unmoved(r, s, x) \/ Gains(r, s, x)
    BY DEF Vacates, Leaves
<1>2. r.hasCurrent => r.current.task \in Task \ {t}
    BY <1>1 DEF ServiceCore, CurrentSane, Service, Run, Runs
<1>3. \A x \in Task \ {t} : ~Runs(s, x)
    BY DEF Runs
<1>4. \A x \in Task \ {t} : Runs(r, x) => Gains(r, s, x)
    BY <1>1, <1>3 DEF Unmoved
<1>5. \A x \in Task \ {t} : Gains(r, s, x) => Runs(r, x)
    BY DEF Gains
<1> QED BY <1>2, <1>4, <1>5 DEF Runs, LeftTo

LEMMA ReturnedBeside ==
    ASSUME NEW u, NEW z \in World, NEW v, NEW t \in Task, Returned(u, z, t), Beside(z, v, t), SameSky(z, v)
    PROVE  Returned(u, v, t)
<1>1. /\ TaskOK(z, t) /\ (Timed(u, t) => Timed(z, t)) /\ (Granted(u, t) => Granted(z, t))
      /\ \A closed, lost : Exposed(u, t, closed, lost) => Exposed(z, t, closed, lost)
      /\ Started(z, t) /\ z.pair[t].live
    BY DEF Returned
<1>2. TaskOK(v, t) /\ (Timed(z, t) => Timed(v, t))
    BY <1>1, BesideKeeps
<1>3. PairOK(z, t) /\ Places(z, t)
    BY <1>1 DEF TaskOK
<1>4. \A closed, lost : Exposed(z, t, closed, lost) => Exposed(v, t, closed, lost)
    BY <1>3, BesideExposed
<1>5. Granted(z, t) => Granted(v, t)
    BY <1>3, BesideGranted
<1>6. Started(v, t) /\ v.pair[t].live
    BY <1>1 DEF Beside, Started
<1>7. Advances(u, v, t)
    BY BesideAdvances, AdvancesTransitive DEF Returned
<1> QED BY <1>1, <1>2, <1>4, <1>5, <1>6, <1>7 DEF Returned

\* y begins in the slot that t has left.
LEMMA NextBegins ==
    ASSUME NEW u, Orderly(u), NEW n \in Server, NEW t \in Task, NEW r, NEW z, Passes(u, z, n, r, t),
           NEW y \in Task \ {t}, Gains(r, u.svc[n], y), r.current.task = y,
           NEW pick \in [Task -> Server \cup {NoNode}], NEW v, v = Dispatched(z, n, pick)
    PROVE  Follows(z, v, y) /\ Begins(u, v, y)
<1>1. /\ TaskOK(u, y) /\ Exposed(u, y, {}, {}) /\ WorldOK(z) /\ SameSky(u, z)
      /\ z.svc[n] = r /\ \A m \in Server \ {n} : z.svc[m] = u.svc[m]
      /\ z.task[y] = u.task[y] /\ z.pair[y] = u.pair[y]
      /\ z.assigned[y] = u.assigned[y] /\ z.recovering[y] = u.recovering[y]
    BY DEF Orderly, Fit, Passes
<1>2. Waits(z, y, n)
    BY <1>1, TakenWaits
<1>3. Runs(z.svc[n], y)
    BY <1>1 DEF Gains
<1>4. u.task[y].state = "QUEUED"
    BY <1>1, <1>2 DEF Waits
<1>5. ResultNode[y] \notin z.dead
    BY <1>1, <1>4 DEF Exposed, SameSky
<1>6. Follows(z, v, y) /\ Calm(v, y) /\ v.task[y].state = "RUNNING"
    BY <1>1, <1>2, <1>3, <1>5, DispatchedBegins
<1> QED BY <1>4, <1>6 DEF Begins

LEMMA PassesSound ==
    ASSUME NEW u, Orderly(u), NEW n \in Server, NEW t \in Task, Runs(u.svc[n], t),
           NEW r, Vacates(r, u.svc[n], t, u.now), NEW z, Passes(u, z, n, r, t),
           NEW pick \in [Task -> Server \cup {NoNode}], NEW v, v = Dispatched(z, n, pick)
    PROVE  Spares(u, v, t) /\ Returned(u, v, t)
<1>1. /\ WorldOK(z) /\ SameSky(u, z) /\ z.now = u.now /\ z.svc[n] = r
      /\ \A x \in Task \ {t} : Beside(u, z, x) \/ Gains(r, u.svc[n], x)
      /\ Returned(u, z, t)
    BY DEF Passes
<1>2. /\ \A x \in Task \ {t} : Gains(r, u.svc[n], x) <=> r.hasCurrent /\ x = r.current.task
      /\ r.hasCurrent => r.current.task \in Task \ {t}
    <2>1. LeftTo(r, u.svc[n], t)
        BY SlotTaken
    <2> QED BY <2>1 DEF LeftTo
<1>3. CASE ~r.hasCurrent
    <2>1. v = z
        BY <1>1, <1>3 DEF Dispatched
    <2>2. Spares(u, z, t)
        BY <1>1, <1>2, <1>3 DEF Spares
    <2> QED BY <1>1, <2>1, <2>2
<1>4. CASE r.hasCurrent
    <2> DEFINE y == r.current.task
    <2>1. y \in Task \ {t} /\ Gains(r, u.svc[n], y)
        BY <1>2, <1>4
    <2>2. Follows(z, v, y) /\ Begins(u, v, y)
        BY <2>1, NextBegins
    <2>3. WorldOK(v) /\ SameSky(z, v) /\ v.now = u.now
          /\ \A x \in Task \ {y} : Beside(z, v, x)
        BY <1>1, <2>2 DEF Follows, Only
    <2>4. \A x \in Task \ {t, y} : Beside(u, z, x)
        BY <1>1, <1>2
    <2>5. \A x \in Task \ {t} : Beside(u, v, x) \/ Begins(u, v, x)
        BY <2>2, <2>3, <2>4, BesideTransitive
    <2>6. SameSky(u, v)
        BY <1>1, <2>3 DEF SameSky
    <2>7. Returned(u, v, t)
        BY <1>1, <2>1, <2>3, ReturnedBeside DEF WorldOK
    <2> QED BY <2>3, <2>5, <2>6, <2>7 DEF Spares
<1> QED BY <1>3, <1>4

\* The due run of a service completes: its task has its result under way, and
\* every other task is as it was or has begun.
LEMMA CompleteSound ==
    ASSUME NEW u, Orderly(u), NEW n \in Server, CompletionLegal(u.svc[n], u.now),
           NEW pick \in [Task -> Server \cup {NoNode}],
           NEW t, t = u.svc[n].current.task, NEW v, v = Complete(u, n, FALSE, pick)
    PROVE  t \in Task /\ Spares(u, v, t) /\ Returned(u, v, t)
<1>1. WorldOK(u) /\ \A x \in Task : TaskOK(u, x) /\ Exposed(u, x, {}, {})
    BY DEF Orderly, Fit
<1>2. t \in Task /\ Runs(u.svc[n], t)
    <2>1. u.svc[n] \in Service /\ ServiceCore(u.svc[n], u.now) /\ u.svc[n].hasCurrent
        BY <1>1 DEF WorldOK, NodeOK, CompletionLegal, CompletionDue
    <2> QED BY <2>1 DEF ServiceCore, CurrentSane, Service, Run, Runs
<1>3. n \notin u.dead
    <2> DEFINE g == IF u.svc[n].runningRecovery THEN 1 ELSE 0
    <2>1. g \in Generation /\ n = NodeOf(u, t, g) /\ u.pair[t].stage[g] = "RUNNING"
        BY <1>1, <1>2, RunOf
    <2> HIDE DEF g
    <2> QED BY <1>1, <1>2, <2>1 DEF Exposed, Open, Held
<1>4. PICK z, r :
        /\ Vacates(r, u.svc[n], t, u.now) /\ Passes(u, z, n, r, t)
        /\ v = Dispatched(z, n, pick)
    <2>1. Completing(u, v, n, t, FALSE, pick)
        BY <1>1, <1>3, CompleteIs
    <2> QED BY <2>1 DEF Completing
<1> QED BY <1>2, <1>4, PassesSound

-----------------------------------------------------------------------------
(* How a task may fail *)

\* What may end attempt g of t from u to v.
EndsBy(u, v, t, g) ==
    LET p == u.pair[t]
        n == NodeOf(u, t, g)
    IN \/ {n, ResultNode[t]} \cap v.dead # {}
       \/ g = 1 /\ p.stage[1] = "INPUT" /\ SourceNode[t] \in v.dead
       \/ p.stage[g] = "RUNNING" /\ u.svc[n].available /\ ~v.svc[n].available /\ ~(g = 1 /\ p.immune)
       \/ p.stage[g] # "RESULT" /\ u.now >= u.task[t].deadline
       \/ g = 1 /\ \E k \in FlowsOf(1) : /\ k = p.stage[1]
                                        /\ p.flow[k].step = "queued" /\ p.flow[k].due = u.now

\* t fails when each attempt has been ended.
FailsLast(u, v, t) ==
    u.pair[t].live /\ v.task[t].state = "FAILED"
        => \A g \in Generation : Valid(u, t, g) => EndsBy(u, v, t, g)

AllFailLast(u, v) == \A x \in Task : FailsLast(u, v, x)

\* No result of t is under way,
Unreturned(u, t) == \A g \in Generation : u.pair[t].stage[g] # "RESULT"

\* and it is too late for one.
Lapsed(u, t) == Unreturned(u, t) /\ u.now >= u.task[t].deadline

LEMMA LapsedEnds ==
    ASSUME NEW u, NEW v, NEW t, u.pair[t].live /\ v.task[t].state = "FAILED" => Lapsed(u, t)
    PROVE  FailsLast(u, v, t)
BY DEF Lapsed, Unreturned, FailsLast, EndsBy

LEMMA LiveState ==
    ASSUME NEW u, NEW t, TaskOK(u, t), u.pair[t].live
    PROVE  Started(u, t) /\ u.task[t].state \in {"RUNNING", "RESULT_TRANSFERRING"}
<1>1. Started(u, t)
    BY StartedSane, NoPairFacts DEF Unstarted
<1> QED BY <1>1, StartedSane DEF Agrees

\* A live task goes on beside the events of others.
LEMMA SparedGoesOn ==
    ASSUME NEW u, NEW v, NEW t, Spares(u, v, t), NEW x \in Task \ {t}, TaskOK(u, x), u.pair[x].live
    PROVE  Beside(u, v, x) /\ v.task[x].state # "FAILED"
<1>1. u.task[x].state \in {"RUNNING", "RESULT_TRANSFERRING"}
    BY LiveState
<1>2. Beside(u, v, x)
    BY <1>1 DEF Spares, Begins
<1> QED BY <1>1, <1>2 DEF Beside

LEMMA SameTasksFail ==
    ASSUME NEW u, NEW v, \A x \in Task : TaskOK(u, x), v.task = u.task
    PROVE  AllFailLast(u, v)
<1>1. \A x \in Task : u.pair[x].live => v.task[x].state # "FAILED"
    BY LiveState
<1> QED BY <1>1 DEF AllFailLast, FailsLast

LEMMA SparesFail ==
    ASSUME NEW u, NEW v, NEW t, \A x \in Task : TaskOK(u, x), Spares(u, v, t), FailsLast(u, v, t)
    PROVE  AllFailLast(u, v)
<1>1. ASSUME NEW x \in Task PROVE FailsLast(u, v, x)
    <2>1. CASE x = t
        BY <2>1
    <2>2. CASE x # t
        <3>1. u.pair[x].live => v.task[x].state # "FAILED"
            BY <2>2, SparedGoesOn
        <3> QED BY <3>1 DEF FailsLast
    <2> QED BY <2>1, <2>2
<1> QED BY <1>1 DEF AllFailLast

-----------------------------------------------------------------------------
(* The deadline *)

\* t is in order in v, if it was in u.
Holds(u, v, t) ==
    /\ TaskOK(v, t) /\ (Timed(u, t) => Timed(v, t)) /\ (Granted(u, t) => Granted(v, t))
    /\ \A closed, lost : Exposed(u, t, closed, lost) => Exposed(v, t, closed, lost)
    /\ (Started(u, t) => Started(v, t)) /\ (u.pair[t].live => v.pair[t].live)
    /\ Advances(u, v, t)

LEMMA HoldsFit ==
    ASSUME NEW u, NEW v, NEW t \in Task, Orderly(u), Spares(u, v, t), Holds(u, v, t)
    PROVE  Orderly(v)
<1>1. Exposed(u, t, {}, {})
    BY DEF Orderly, Fit
<1>2. Fit(v, t)
    BY <1>1 DEF Holds, Fit
<1> QED BY <1>2, SparesOrderly

LEMMA HoldsTransitive ==
    ASSUME NEW u, NEW v, NEW z, NEW t, Holds(u, v, t), Holds(v, z, t)
    PROVE  Holds(u, z, t)
<1>1. Advances(u, z, t)
    BY AdvancesTransitive DEF Holds
<1> QED BY <1>1 DEF Holds

\* What is due counts.
LEMMA SettleSound ==
    ASSUME NEW u, Orderly(u), NEW t \in Task, NEW g \in Generation,
           NEW pick \in [Task -> Server \cup {NoNode}], NEW v, v = Settle(u, t, g, pick)
    PROVE  Spares(u, v, t) /\ Holds(u, v, t)
<1>1. WorldOK(u) /\ TaskOK(u, t)
    BY DEF Orderly, Fit
<1> DEFINE n == NodeOf(u, t, g)
           due == u.pair[t].stage[g] = "RUNNING" /\ CanCompleteIfDue(u.svc[n], t, u.now)
<1>2. CASE ~due
    <2>1. v = u
        BY <1>2 DEF Settle
    <2>2. Advances(u, u, t)
        BY DEF Advances
    <2> QED BY <1>1, <2>1, <2>2, SparesReflexive DEF Holds
<1>3. CASE due
    <2>1. v = Complete(u, n, FALSE, pick)
        BY <1>3 DEF Settle
    <2>2. CompletionLegal(u.svc[n], u.now) /\ t = u.svc[n].current.task
        BY <1>3 DEF CanCompleteIfDue
    <2>3. n \in Server
        <3>1. ~Unstarted(u.pair[t], u.task[t])
            BY <1>3 DEF Unstarted, NoPair
        <3>2. Sane(u, t)
            BY <1>1, <3>1, StartedSane
        <3>3. /\ HostNode[t] \in Server
              /\ u.pair[t].stage[1] # "ABSENT" <=> u.pair[t].node \in Server
            BY <1>1, <3>2, SaneNode
        <3> QED BY <1>3, <3>3 DEF NodeOf, Generation
    <2>4. Spares(u, v, t) /\ Returned(u, v, t)
        <3> HIDE DEF n
        <3> QED BY <2>1, <2>2, <2>3, CompleteSound
    <2> QED BY <2>4 DEF Returned, Holds
<1> QED BY <1>2, <1>3

\* The deadline leaves no attempt that still computes.
LEMMA DeadlineSound ==
    ASSUME NEW u, Orderly(u), NEW t \in Task, u.pair[t].live,
           NEW pick \in [Task -> Server \cup {NoNode}], NEW v, v = Deadline(u, t, pick)
    PROVE  Spares(u, v, t) /\ Calm(v, t) /\ (v.task[t].state = "FAILED" => Unreturned(u, t))
<1> DEFINE x == Settle(u, t, 0, pick)
           y == Settle(x, t, 1, pick)
<1>1. 0 \in Generation /\ 1 \in Generation
    BY DEF Generation
<1>2. Spares(u, x, t) /\ Holds(u, x, t)
    BY <1>1, SettleSound
<1> HIDE DEF x
<1>3. Orderly(x)
    BY <1>2, HoldsFit
<1>4. Spares(x, y, t) /\ Holds(x, y, t)
    BY <1>1, <1>3, SettleSound
<1> HIDE DEF y
<1>5. Orderly(y)
    BY <1>3, <1>4, HoldsFit
<1>6. Spares(u, y, t) /\ Holds(u, y, t)
    BY <1>2, <1>4, SparesTransitive, HoldsTransitive
<1>7. y.pair[t].live
    BY <1>6 DEF Holds
<1>8. v = Expire(y, t)
    BY <1>7 DEF Deadline, x, y
<1>9. WorldOK(y) /\ TaskOK(y, t) /\ Exposed(y, t, {}, {})
    BY <1>5 DEF Orderly, Fit
<1>10. Started(y, t)
    BY <1>7, <1>9 DEF TaskOK, PairOK, Unstarted, NoPair, Attempts, Started
<1>11. /\ Goes(y, v, t)
       /\ Over(v, t) \/ (Timed(v, t) /\ Granted(v, t))
       /\ v.task[t].state = y.task[t].state \/ Unreturned(y, t)
    BY <1>8, <1>9, <1>10, ExpireGoes DEF Unreturned
<1>12. Spares(u, v, t)
    BY <1>6, <1>11, FollowsSpares, SparesTransitive DEF Goes
<1>13. Over(v, t) => Calm(v, t)
    BY OverCalm
<1>14. TaskOK(v, t) /\ Exposed(v, t, {}, {})
    BY <1>9, <1>11 DEF Goes
<1>15. v.task[t].state = "FAILED" => Unreturned(u, t)
    <2>1. y.task[t].state # "FAILED"
        BY <1>7, <1>9, LiveState
    <2>2. Unreturned(y, t) => Unreturned(u, t)
        BY <1>6 DEF Holds, Advances, Unreturned
    <2> QED BY <1>11, <2>1, <2>2
<1> QED BY <1>11, <1>12, <1>13, <1>14, <1>15 DEF Calm

-----------------------------------------------------------------------------
(* A replica starts *)

LEMMA SlotPuts ==
    ASSUME NEW u, WorldOK(u), NEW t \in Task, NEW q \in Pair, NEW svc, Serves(u, svc, {t}),
           NEW v, v = [u EXCEPT !.svc = svc, !.pair = [u.pair EXCEPT ![t] = q]]
    PROVE  Puts(u, v, t, u.task[t], q, u.assigned[t], u.recovering[t], svc)
<1>1. /\ u \in World /\ u.ok = TRUE /\ u.task[t] \in TaskRuntime
      /\ u.assigned[t] \in Server \cup {NoNode} /\ u.recovering[t] \in Server \cup {NoNode}
      /\ u.task = [u.task EXCEPT ![t] = u.task[t]]
      /\ u.assigned = [u.assigned EXCEPT ![t] = u.assigned[t]]
      /\ u.recovering = [u.recovering EXCEPT ![t] = u.recovering[t]]
    BY WorldTypes DEF WorldOK
<1> DEFINE pair == [u.pair EXCEPT ![t] = q]
<1>2. v = [u EXCEPT !.svc = svc, !.pair = pair]
    OBVIOUS
<1> HIDE DEF pair
<1>3. /\ Shaped(v) /\ v.now = u.now /\ v.ok = u.ok /\ v.ended = u.ended /\ v.dead = u.dead
      /\ v.svc = svc /\ v.task = u.task /\ v.pair = pair
      /\ v.assigned = u.assigned /\ v.recovering = u.recovering
    <2>1. u \in World
        BY DEF WorldOK
    <2> QED BY <1>2, <2>1 DEF World, Shaped
<1> QED BY <1>1, <1>3 DEF pair, Puts, Sets

LEMMA PutsSettles ==
    ASSUME NEW u, WorldOK(u), NEW t \in Task, NEW z, NEW a, NEW p, NEW m, NEW r, NEW svc,
           Puts(u, z, t, a, p, m, r, svc)
    PROVE  Settles(u, z, t, a, p, m, r, svc, {t}) /\ Follows(u, z, t)
<1>1. Settles(u, z, t, a, p, m, r, svc, {t})
    BY SetsSettles DEF Puts
<1>2. {t} \cup {t} = {t}
    OBVIOUS
<1> QED BY <1>1, <1>2 DEF Settles, Follows

\* r is s with its reserved slot taken for the replica of t.
Runner(r, s, t, now) ==
    /\ r \in Service /\ r.running /\ ServiceCore(r, now) /\ DispatchArmed(r)
    /\ r.available = s.available /\ r.owner = t /\ r.runningRecovery /\ r.immune = s.immune
    /\ Runs(r, t)
    /\ r.known = s.known \cup {t} /\ r.queue = s.queue
    /\ \A x \in Task : x # t => Unmoved(r, s, x)

LEMMA StartReplicaUnmoved ==
    ASSUME NEW s \in Service, NEW now \in Time, NEW t \in Task, s.running,
           ServiceCore(s, now), DispatchArmed(s),
           CanStartAttempt(s, t, s.immune), \A i \in s.queue : i.task # t, NEW work \in Work,
           NEW r, r = StartReplica(s, t, work, now, 1)
    PROVE  Runner(r, s, t, now)
<1> DEFINE run == [task |-> t, start |-> now, service |-> ServiceTimeNs(work, 1)]
           q == [s EXCEPT !.known = s.known \cup {t}, !.enqueued = s.enqueued + 1,
                          !.hasCurrent = TRUE, !.current = run,
                          !.runningRecovery = TRUE, !.immune = s.immune,
                          !.catchup = s.catchup, !.completion = TRUE]
<1>1. r = q
    BY DEF StartReplica, StartReservedAttempt
<1>2. run.task = t
    OBVIOUS
<1>3. ServiceInv(s, now)
    BY DEF ServiceInv, ServiceCore, CompletionTimely, CompletionAllowed, CanStartAttempt
<1>4. r \in Service /\ ServiceInv(r, now)
    <2>1. 0 \in Nat /\ 1 \in Nat \ {0} /\ FALSE \in BOOLEAN /\ s.immune \in BOOLEAN
        BY DEF Service
    <2> HIDE DEF q
    <2> QED BY <1>3, <2>1, StartReservedAttemptKeeps DEF StartReplica
<1> HIDE DEF run
<1>5. /\ r.running = s.running /\ r.available = s.available
      /\ r.queue = s.queue /\ r.known = s.known \cup {t}
      /\ r.hasCurrent /\ r.current = run
      /\ r.owner = s.owner /\ r.runningRecovery /\ r.immune = s.immune
    <2>1. r = q
        BY ONLY <1>1
    <2> QED BY ONLY <2>1, s \in Service DEF Service
<1>6. s.owner = t /\ ~s.hasCurrent
    BY DEF CanStartAttempt
<1>7. \A x \in Task : x # t => Unmoved(r, s, x)
    BY <1>2, <1>5, <1>6 DEF Unmoved, Runs
<1>8. Runs(r, t)
    BY <1>2, <1>5 DEF Runs
<1> QED BY <1>4, <1>5, <1>6, <1>7, <1>8 DEF Runner, ServiceInv

\* The replica's slot is free for it.
LEMMA ReadySlot ==
    ASSUME NEW u, WorldOK(u), NEW t \in Task, TaskOK(u, t), u.pair[t].stage[1] = "READY",
           NEW n, n = u.pair[t].node, u.svc[n].available \/ u.pair[t].immune
    PROVE  /\ n \in Server /\ n # HostNode[t] /\ Sane(u, t)
           /\ CanStartAttempt(u.svc[n], t, u.svc[n].immune)
           /\ \A i \in u.svc[n].queue : i.task # t
<1>1. Sane(u, t)
    BY StartedSane DEF Unstarted, NoPair, Generation
<1>2. /\ PlacesAt(u.svc, u.pair[t], u.task[t].state, t) /\ n \in Server /\ n # HostNode[t]
      /\ u.svc[n].running /\ ServiceCore(u.svc[n], u.now)
    BY <1>1, SaneNode DEF NodeOK
<1>3. u.svc[n].owner = t /\ (u.svc[n].immune <=> u.pair[t].immune) /\ ~Runs(u.svc[n], t)
      /\ \A i \in u.svc[n].queue : i.task # t
    BY <1>2 DEF PlacesAt, Held
<1>4. ~u.svc[n].hasCurrent
    BY <1>2, <1>3, TaskAssumption DEF ServiceCore, SlotOwned, Runs, NoTask
<1> QED BY <1>1, <1>2, <1>3, <1>4 DEF CanStartAttempt

LEMMA ReplicaPair ==
    ASSUME NEW p \in Pair, NEW q, q = [p EXCEPT !.stage = [p.stage EXCEPT ![1] = "RUNNING"]]
    PROVE  /\ q \in Pair /\ q.live = p.live /\ q.node = p.node /\ q.immune = p.immune
           /\ q.computed = p.computed /\ q.flow = p.flow
           /\ q.stage[0] = p.stage[0] /\ q.stage[1] = "RUNNING"
<1> DEFINE stage == [p.stage EXCEPT ![1] = "RUNNING"]
<1>1. stage \in [Generation -> Stage] /\ stage[0] = p.stage[0] /\ stage[1] = "RUNNING"
    BY DEF Pair, Generation, Stage
<1>2. q = [p EXCEPT !.stage = stage]
    OBVIOUS
<1> HIDE DEF stage
<1> QED BY <1>1, <1>2 DEF Pair

\* What a replica that has started is; q is its pair, p the pair before.
Launches(u, v, t, p, q) ==
    /\ Follows(u, v, t) /\ v.dead = u.dead /\ v.task[t] = u.task[t] /\ v.pair[t] = q
    /\ v.assigned[t] = u.assigned[t] /\ v.recovering[t] = u.recovering[t]
    /\ q \in Pair /\ q.live = p.live /\ q.node = p.node /\ q.immune = p.immune
    /\ q.computed = p.computed /\ q.flow = p.flow
    /\ q.stage[0] = p.stage[0] /\ q.stage[1] = "RUNNING"
    /\ \A m \in Server : m # p.node => v.svc[m] = u.svc[m]
    /\ Runner(v.svc[p.node], u.svc[p.node], t, u.now)

LEMMA ReplicaLaunches ==
    ASSUME NEW u, WorldOK(u), NEW t \in Task, TaskOK(u, t), NEW p, p = u.pair[t], p.stage[1] = "READY",
           NEW n, n = p.node, u.svc[n].available \/ p.immune,
           NEW v, v = [Must(u, CanStartAttempt(u.svc[n], t, u.svc[n].immune))
                       EXCEPT !.svc[n] = StartReplica(@, t, WorkOf[t], u.now, 1),
                              !.pair[t].stage[1] = "RUNNING"]
    PROVE  \E q : Launches(u, v, t, p, q)
<1> DEFINE s == u.svc[n]
           r == StartReplica(s, t, WorkOf[t], u.now, 1)
           svc == [u.svc EXCEPT ![n] = r]
           q == [p EXCEPT !.stage = [p.stage EXCEPT ![1] = "RUNNING"]]
           pair == [u.pair EXCEPT ![t] = q]
           x == [u EXCEPT !.svc = svc]
<1>1. u \in World /\ u.ok /\ u.now \in Time /\ p \in Pair
    BY WorldTypes DEF WorldOK
<1>2. /\ n \in Server /\ CanStartAttempt(s, t, s.immune) /\ \A i \in s.queue : i.task # t
    BY ReadySlot
<1>3. /\ s \in Service /\ s.running /\ ServiceCore(s, u.now) /\ DispatchArmed(s)
    BY <1>1, <1>2, WorldTypes DEF WorldOK, NodeOK
<1>4. Runner(r, s, t, u.now)
    <2>1. WorkOf[t] \in Work
        BY WorkAssumption
    <2> HIDE DEF s
    <2> QED BY <1>1, <1>2, <1>3, <2>1, StartReplicaUnmoved
<1> HIDE DEF r
<1>5. Serves(u, svc, {t})
    <2>1. \A y \in Task \ {t} : Unmoved(r, u.svc[n], y)
        BY <1>4 DEF Runner
    <2> QED BY <1>2, <1>4, <2>1, ServesOne DEF Runner
<1>6. /\ q \in Pair /\ q.live = p.live /\ q.node = p.node /\ q.immune = p.immune
      /\ q.computed = p.computed /\ q.flow = p.flow
      /\ q.stage[0] = p.stage[0] /\ q.stage[1] = "RUNNING"
    BY <1>1, ReplicaPair
<1>7. svc[n] = r /\ \A m \in Server : m # n => svc[m] = u.svc[m]
    BY <1>1, <1>2, WorldTypes
<1>8. v = [u EXCEPT !.svc = svc, !.pair = pair]
    <2>1. Must(u, CanStartAttempt(u.svc[n], t, u.svc[n].immune)) = u
        BY <1>1, <1>2 DEF Must, World
    <2>2. v = [x EXCEPT !.pair[t].stage[1] = "RUNNING"]
        BY <2>1 DEF r
    <2> HIDE DEF svc
    <2>3. x.pair = u.pair
        BY <1>1 DEF World
    <2> HIDE DEF x
    <2>4. [x EXCEPT !.pair[t].stage[1] = "RUNNING"] = [x EXCEPT !.pair = pair]
        BY <2>3
    <2> QED BY <2>2, <2>4 DEF x
<1> HIDE DEF svc, q
<1>9. Puts(u, v, t, u.task[t], q, u.assigned[t], u.recovering[t], svc)
    BY <1>5, <1>6, <1>8, SlotPuts
<1>10. Settles(u, v, t, u.task[t], q, u.assigned[t], u.recovering[t], svc, {t}) /\ Follows(u, v, t)
    BY <1>9, PutsSettles
<1>11. Runner(v.svc[p.node], u.svc[p.node], t, u.now) /\ \A m \in Server : m # p.node => v.svc[m] = u.svc[m]
    BY <1>4, <1>7, <1>10 DEF Settles
<1>12. Launches(u, v, t, p, q)
    BY <1>6, <1>10, <1>11 DEF Launches, Settles
<1> QED BY <1>12

LEMMA LaunchedPlaces ==
    ASSUME NEW u, NEW v, NEW t \in Task, NEW p, NEW q, Launches(u, v, t, p, q),
           p.stage[1] = "READY", p.node # HostNode[t], p.node \in Server,
           NEW state, state \notin {"INPUT_TRANSFERRING", "QUEUED"}, PlacesAt(u.svc, p, state, t)
    PROVE  PlacesAt(v.svc, q, state, t)
<1>1. /\ q.node = p.node /\ q.immune = p.immune
      /\ q.stage[0] = p.stage[0] /\ q.stage[1] = "RUNNING"
      /\ \A m \in Server : m # p.node => v.svc[m] = u.svc[m]
      /\ Runner(v.svc[p.node], u.svc[p.node], t, u.now)
    BY DEF Launches
<1>2. ASSUME NEW m \in Server
      PROVE  LET x == v.svc[m] IN
             /\ t \in x.known => m = q.node \/ m = HostNode[t]
             /\ \A i \in x.queue : i.task # t
             /\ x.owner = t <=> m = q.node /\ q.stage[1] \in Held
             /\ x.owner = t => (x.immune <=> q.immune)
             /\ Runs(x, t) <=> \/ m = HostNode[t] /\ q.stage[0] = "RUNNING"
                               \/ m = q.node /\ q.stage[1] = "RUNNING"
             /\ Runs(x, t) => (x.runningRecovery <=> m = q.node)
    <2>1. /\ t \in u.svc[m].known => m = p.node \/ m = HostNode[t]
          /\ \A i \in u.svc[m].queue : i.task # t
          /\ u.svc[m].owner = t <=> m = p.node
          /\ u.svc[m].owner = t => (u.svc[m].immune <=> p.immune)
          /\ m # p.node => (Runs(u.svc[m], t) <=> m = HostNode[t] /\ p.stage[0] = "RUNNING")
          /\ Runs(u.svc[m], t) => (u.svc[m].runningRecovery <=> m = p.node)
        BY DEF PlacesAt, Held
    <2>2. CASE m = p.node
        BY <1>1, <2>1, <2>2 DEF Runner, Held
    <2>3. CASE m # p.node
        BY <1>1, <2>1, <2>3
    <2> QED BY <2>2, <2>3
<1> QED BY <1>1, <1>2 DEF PlacesAt

LEMMA LaunchesSound ==
    ASSUME NEW u, WorldOK(u), NEW v, NEW t \in Task, Fit(u, t), NEW p, p = u.pair[t],
           p.stage[1] = "READY", u.svc[p.node].available \/ p.immune, NEW q, Launches(u, v, t, p, q)
    PROVE  /\ Follows(u, v, t) /\ Fit(v, t) /\ (Timed(u, t) => Timed(v, t))
           /\ Backed(u, t) => Granted(v, t)
<1>1. /\ Sane(u, t) /\ p.node \in Server /\ p.node # HostNode[t]
      /\ TaskOK(u, t) /\ Exposed(u, t, {}, {})
    BY ReadySlot DEF Fit
<1>2. /\ Follows(u, v, t) /\ v.dead = u.dead /\ v.task[t] = u.task[t] /\ v.pair[t] = q
      /\ v.assigned[t] = u.assigned[t] /\ v.recovering[t] = u.recovering[t]
      /\ q \in Pair /\ q.live = p.live /\ q.node = p.node /\ q.immune = p.immune
      /\ q.computed = p.computed /\ q.flow = p.flow
      /\ q.stage[0] = p.stage[0] /\ q.stage[1] = "RUNNING"
    BY DEF Launches
<1>3. /\ PlacesAt(u.svc, p, u.task[t].state, t) /\ Attempts(p, u.task[t], u.now) /\ Ledger(u, t)
      /\ u.task[t].state \notin {"INPUT_TRANSFERRING", "QUEUED"} /\ Agrees(p, u.task[t])
      /\ Started(u, t)
    <2>1. Started(u, t)
        BY <1>1 DEF Sane, Attempts, Started
    <2> QED BY <1>1, <2>1, StartedSane DEF Sane, Places, Attempts
<1>4. Places(v, t)
    <2>1. PlacesAt(v.svc, q, u.task[t].state, t)
        <3> DEFINE state == u.task[t].state
        <3>1. PlacesAt(u.svc, p, state, t) /\ state \notin {"INPUT_TRANSFERRING", "QUEUED"}
            BY <1>3
        <3> HIDE DEF state
        <3>2. PlacesAt(v.svc, q, state, t)
            BY ONLY <1>1, <3>1, LaunchedPlaces, Launches(u, v, t, p, q), t \in Task,
                    p.stage[1] = "READY"
        <3> QED BY <3>2 DEF state
    <2> QED BY <1>2, <2>1, Zenon DEF Places
<1>5. Ledger(v, t)
    BY <1>2, <1>3 DEF Ledger, Open, Held
<1>6. \A g \in Generation :
        /\ q.stage[g] \in Open <=> p.stage[g] \in Open
        /\ q.stage[g] \in Held <=> p.stage[g] \in Held
        /\ q.stage[g] = "RESULT" <=> p.stage[g] = "RESULT"
        /\ q.stage[g] = "COMPLETED" <=> p.stage[g] = "COMPLETED"
    BY <1>2 DEF Generation, Open, Held
<1>7. Attempts(q, u.task[t], v.now)
    <2>1. v.now = u.now
        BY <1>2 DEF Follows
    <2>2. \A k \in Flow : q.flow[k].step = "flying" => q.flow[k] = Flying /\ q.stage[Of(k)] = Needs(k)
        <3>1. ASSUME NEW k \in Flow, q.flow[k].step = "flying"
              PROVE  q.flow[k] = Flying /\ q.stage[Of(k)] = Needs(k)
            <4>1. p.flow[k] = Flying /\ p.stage[Of(k)] = Needs(k)
                BY <1>2, <1>3, <3>1 DEF Attempts
            <4> QED BY <1>2, <4>1 DEF Of, Needs
        <3> QED BY <3>1
    <2>3. p.stage[0] \notin {"ABSENT", "INPUT", "READY"} /\ u.task[t].deadline \in Time
        BY <1>3 DEF Attempts
    <2>4. \A g \in Generation :
            /\ q.stage[g] \in Open => q.live
            /\ q.stage[g] \in Held => u.now <= u.task[t].deadline
            /\ q.stage[g] = "RESULT" =>
                 /\ u.task[t].state = "RESULT_TRANSFERRING"
                 /\ q.computed[g] # NoTime /\ q.computed[g] <= u.task[t].deadline
        <3>1. /\ Attempts(p, u.task[t], u.now)
              /\ q.live = p.live /\ q.computed = p.computed
            BY <1>2, <1>3
        <3> QED BY ONLY <1>6, <3>1 DEF Attempts
    <2>5. q.immune => q.stage[0] \notin Open
        BY <1>2, <1>3 DEF Attempts
    <2> QED BY <1>2, <1>3, <2>1, <2>2, <2>3, <2>4, <2>5 DEF Attempts
<1>8. Agrees(q, u.task[t])
    BY <1>2, <1>3, <1>6, TwoAttempts DEF Agrees
<1>9. TaskOK(v, t)
    BY <1>2, <1>4, <1>5, <1>7, <1>8 DEF TaskOK, PairOK
<1>10. SameSky(u, v)
    BY <1>2 DEF Follows, Only
<1>11. Exposed(v, t, {}, {})
    <2>1. NodeOf(v, t, 0) = HostNode[t] /\ NodeOf(v, t, 1) = p.node
          /\ NodeOf(u, t, 0) = HostNode[t] /\ NodeOf(u, t, 1) = p.node
        BY <1>2 DEF NodeOf
    <2>2. HostNode[t] \in Server
        BY NodeAssumption
    <2>3. \A m \in Server : v.svc[m].available = u.svc[m].available
        BY <1>10 DEF SameSky
    <2>4. v.svc[p.node].available \/ q.immune
        BY <1>1, <1>2, <2>3
    <2>5. ASSUME NEW g \in Generation
          PROVE  /\ q.stage[g] \in Open => {NodeOf(v, t, g), ResultNode[t]} \cap v.dead = {}
                 /\ q.stage[g] = "RUNNING" => v.svc[NodeOf(v, t, g)].available \/ (g = 1 /\ q.immune)
        <3>1. CASE g = 0
            BY <1>1, <1>2, <2>1, <2>2, <2>3, <3>1 DEF Exposed, Generation
        <3>2. CASE g = 1
            <4>1. p.stage[1] \in Open
                BY DEF Open, Held
            <4> QED BY <1>1, <1>2, <2>1, <2>4, <3>2, <4>1 DEF Exposed, Generation
        <3> QED BY <3>1, <3>2 DEF Generation
    <2> QED BY <1>2, <1>3, <2>5 DEF Exposed
<1>12. Timed(u, t) => Timed(v, t)
    BY <1>2, <1>6 DEF Timed
<1>13. ASSUME Backed(u, t) PROVE Granted(v, t)
    <2>1. v.svc[p.node].available = u.svc[p.node].available
        BY <1>1, <1>10 DEF SameSky
    <2>2. q.stage[1] \in Open /\ p.stage[1] \in Held
        BY <1>2 DEF Open, Held
    <2> QED BY <1>2, <1>13, <2>1, <2>2 DEF Backed, Granted, Generation
<1> QED BY <1>2, <1>9, <1>11, <1>12, <1>13 DEF Fit

\* A replica that has its input starts, waits for its node or is too late.
LEMMA StartIfReadySound ==
    ASSUME NEW u, Orderly(u), NEW t \in Task, Timed(u, t),
           NEW pick \in [Task -> Server \cup {NoNode}], NEW v, v = StartIfReady(u, t, pick)
    PROVE  /\ Spares(u, v, t) /\ Fit(v, t) /\ Timed(v, t)
           /\ Backed(u, t) => Granted(v, t)
           /\ u.pair[t].live /\ v.task[t].state = "FAILED" => Lapsed(u, t)
<1> DEFINE p == u.pair[t]
           n == p.node
<1>1. /\ WorldOK(u) /\ Fit(u, t) /\ TaskOK(u, t)
      /\ p.live => u.task[t].state # "FAILED"
    BY LiveState DEF Orderly, Fit
<1>2. CASE ~p.live \/ p.stage[1] # "READY"
    <2>1. v = u
        BY <1>2 DEF StartIfReady
    <2>2. Backed(u, t) => Granted(u, t)
        BY <1>2 DEF Granted
    <2> QED BY <1>1, <2>1, <2>2, SparesReflexive
<1>3. CASE p.live /\ p.stage[1] = "READY" /\ u.now >= u.task[t].deadline
    <2>1. v = Deadline(u, t, pick)
        BY <1>3 DEF StartIfReady
    <2>2. Spares(u, v, t) /\ Calm(v, t) /\ (v.task[t].state = "FAILED" => Unreturned(u, t))
        BY <1>3, <2>1, DeadlineSound
    <2> QED BY <1>3, <2>2, CalmFit DEF Calm, Lapsed
<1>4. CASE p.live /\ p.stage[1] = "READY" /\ ~(u.now >= u.task[t].deadline) /\ ~u.svc[n].available /\ ~p.immune
    <2>1. v = u
        BY <1>4 DEF StartIfReady
    <2>2. Backed(u, t) => Granted(u, t)
        BY <1>4 DEF Granted
    <2> QED BY <1>1, <2>1, <2>2, SparesReflexive
<1>5. CASE p.live /\ p.stage[1] = "READY" /\ ~(u.now >= u.task[t].deadline) /\ (u.svc[n].available \/ p.immune)
    <2>1. v = [Must(u, CanStartAttempt(u.svc[n], t, u.svc[n].immune))
               EXCEPT !.svc[n] = StartReplica(@, t, WorkOf[t], u.now, 1),
                      !.pair[t].stage[1] = "RUNNING"]
        BY <1>5 DEF StartIfReady
    <2>2. PICK q : Launches(u, v, t, p, q)
        BY <1>1, <1>5, <2>1, ReplicaLaunches
    <2>3. /\ Follows(u, v, t) /\ Fit(v, t) /\ (Timed(u, t) => Timed(v, t))
          /\ Backed(u, t) => Granted(v, t)
        BY <1>1, <1>5, <2>2, LaunchesSound
    <2>4. v.task[t] = u.task[t]
        BY <2>2 DEF Launches
    <2> QED BY <1>1, <2>3, <2>4, FollowsSpares
<1> QED BY <1>2, <1>3, <1>4, <1>5

-----------------------------------------------------------------------------
(* Deliveries *)

LEMMA PairPuts ==
    ASSUME NEW u, WorldOK(u), NEW t \in Task, NEW q \in Pair,
           NEW v, v = [u EXCEPT !.pair = [u.pair EXCEPT ![t] = q]]
    PROVE  Puts(u, v, t, u.task[t], q, u.assigned[t], u.recovering[t], u.svc)
<1> DEFINE pair == [u.pair EXCEPT ![t] = q]
<1>1. Serves(u, u.svc, {t})
    BY ServesSame
<1>2. v = [u EXCEPT !.svc = u.svc, !.pair = pair]
    <2>1. u \in World
        BY DEF WorldOK
    <2>2. v = [u EXCEPT !.pair = pair]
        OBVIOUS
    <2> HIDE DEF pair
    <2> QED BY <2>1, <2>2 DEF World
<1> QED BY <1>1, <1>2, SlotPuts

\* Only the pair of t changes, and of that no more than its deliveries and
\* the stage of the replica.
Delivered(u, v, t, q) ==
    /\ Follows(u, v, t) /\ v.dead = u.dead /\ v.task[t] = u.task[t] /\ v.pair[t] = q
    /\ v.assigned[t] = u.assigned[t] /\ v.recovering[t] = u.recovering[t] /\ v.svc = u.svc
    /\ q \in Pair

LEMMA PairDelivered ==
    ASSUME NEW u, WorldOK(u), NEW t \in Task, NEW q \in Pair,
           NEW v, v = [u EXCEPT !.pair = [u.pair EXCEPT ![t] = q]]
    PROVE  Delivered(u, v, t, q)
<1>1. Puts(u, v, t, u.task[t], q, u.assigned[t], u.recovering[t], u.svc)
    BY PairPuts
<1>2. Settles(u, v, t, u.task[t], q, u.assigned[t], u.recovering[t], u.svc, {t}) /\ Follows(u, v, t)
    BY <1>1, PutsSettles
<1> QED BY <1>2 DEF Delivered, Settles

\* The deliveries of q are those of p but for some that are over, or one that
\* has its attempt in its stage.
Traffic(p, q) ==
    /\ q.live = p.live /\ q.node = p.node /\ q.immune = p.immune /\ q.computed = p.computed
    /\ \A k \in Flow : q.flow[k].step = "flying" => q.flow[k] = Flying /\ q.stage[Of(k)] = Needs(k)

\* Where the attempts are has not changed.
LEMMA TrafficSound ==
    ASSUME NEW u, WorldOK(u), NEW v, NEW t \in Task, Fit(u, t), Started(u, t), NEW p, p = u.pair[t], NEW q,
           Delivered(u, v, t, q), Traffic(p, q), q.stage[0] = p.stage[0],
           q.stage[1] = p.stage[1] \/ (p.stage[1] = "INPUT" /\ q.stage[1] = "READY")
    PROVE  /\ Follows(u, v, t) /\ Fit(v, t) /\ (Timed(u, t) => Timed(v, t))
           /\ Backed(u, t) => Backed(v, t)
           /\ q.stage = p.stage => (Granted(u, t) => Granted(v, t))
<1>1. /\ TaskOK(u, t) /\ Exposed(u, t, {}, {}) /\ Sane(u, t) /\ Agrees(p, u.task[t])
    BY StartedSane DEF Fit
<1>2. /\ Follows(u, v, t) /\ v.dead = u.dead /\ v.task[t] = u.task[t] /\ v.pair[t] = q
      /\ v.assigned[t] = u.assigned[t] /\ v.recovering[t] = u.recovering[t] /\ v.svc = u.svc
      /\ q \in Pair /\ v.now = u.now
    BY DEF Delivered, Follows
<1>3. /\ q.live = p.live /\ q.node = p.node /\ q.immune = p.immune /\ q.computed = p.computed
      /\ \A k \in Flow : q.flow[k].step = "flying" => q.flow[k] = Flying /\ q.stage[Of(k)] = Needs(k)
    BY DEF Traffic
<1>4. \A g \in Generation :
        /\ q.stage[g] \in Open <=> p.stage[g] \in Open
        /\ q.stage[g] \in Held <=> p.stage[g] \in Held
        /\ q.stage[g] = "RUNNING" <=> p.stage[g] = "RUNNING"
        /\ q.stage[g] = "RESULT" <=> p.stage[g] = "RESULT"
        /\ q.stage[g] = "ABSENT" <=> p.stage[g] = "ABSENT"
        /\ q.stage[g] = "COMPLETED" <=> p.stage[g] = "COMPLETED"
    BY DEF Generation, Open, Held
<1>5. q.stage[0] \in Open <=> p.stage[0] \in Open
    OBVIOUS
<1>6. /\ q.stage[1] \in Open <=> p.stage[1] \in Open
      /\ q.stage[1] \in Held <=> p.stage[1] \in Held
      /\ q.stage[1] = "ABSENT" <=> p.stage[1] = "ABSENT"
      /\ q.stage[1] = "RUNNING" <=> p.stage[1] = "RUNNING"
    BY <1>4 DEF Generation
<1>7. Places(v, t)
    <2>1. PlacesAt(u.svc, p, u.task[t].state, t)
        BY <1>1 DEF Sane, Places
    <2>2. PlacesAt(u.svc, q, u.task[t].state, t)
        BY <1>3, <1>6, <2>1 DEF PlacesAt
    <2> QED BY <1>2, <2>2 DEF Places
<1>8. Ledger(v, t)
    BY <1>1, <1>2, <1>3, <1>6 DEF Sane, Ledger
<1>9. Attempts(q, u.task[t], v.now)
    <2>1. Attempts(p, u.task[t], u.now)
        BY <1>1 DEF Sane
    <2> QED BY <1>2, <1>3, <1>4, <1>5, <2>1 DEF Attempts
<1>10. Agrees(q, u.task[t])
    BY <1>1, <1>3, <1>4, TwoAttempts DEF Agrees
<1>11. TaskOK(v, t)
    BY <1>2, <1>7, <1>8, <1>9, <1>10 DEF TaskOK, PairOK
<1>12. Exposed(v, t, {}, {})
    <2>1. \A g \in Generation : NodeOf(v, t, g) = NodeOf(u, t, g)
        BY <1>2, <1>3 DEF NodeOf
    <2> QED BY <1>1, <1>2, <1>3, <1>4, <2>1 DEF Exposed
<1>13. Timed(u, t) => Timed(v, t)
    BY <1>2, <1>4 DEF Timed
<1>14. Backed(u, t) => Backed(v, t)
    BY <1>2, <1>3, <1>4, <1>5, <1>6 DEF Backed
<1>15. q.stage = p.stage => (Granted(u, t) => Granted(v, t))
    BY <1>2, <1>3, <1>14 DEF Granted
<1> QED BY <1>2, <1>11, <1>12, <1>13, <1>14, <1>15 DEF Fit

-----------------------------------------------------------------------------
(* The first result counts *)

WonPair(p, g) == [p EXCEPT !.stage = [p.stage EXCEPT ![g] = "COMPLETED"]]

LEMMA WonPairFacts ==
    ASSUME NEW p \in Pair, NEW g \in Generation, NEW q, q = WonPair(p, g)
    PROVE  /\ q \in Pair /\ q.live = p.live /\ q.node = p.node /\ q.immune = p.immune
           /\ q.computed = p.computed /\ q.flow = p.flow
           /\ q.stage[g] = "COMPLETED" /\ q.stage[1 - g] = p.stage[1 - g]
<1> DEFINE stage == [p.stage EXCEPT ![g] = "COMPLETED"]
<1>1. stage \in [Generation -> Stage] /\ stage[1 - g] = p.stage[1 - g] /\ stage[g] = "COMPLETED"
    BY TwoAttempts DEF Pair, Stage
<1>2. q = [p EXCEPT !.stage = stage]
    BY DEF WonPair
<1> HIDE DEF stage
<1> QED BY <1>1, <1>2 DEF Pair

\* What is required of a result is true of it.
LEMMA ResultCounts ==
    ASSUME NEW u, WorldOK(u), NEW t \in Task, Fit(u, t), NEW g \in Generation,
           u.pair[t].stage[g] = "RESULT"
    PROVE  /\ u.pair[t].computed[g] # NoTime /\ u.pair[t].computed[g] <= u.task[t].deadline
           /\ u.task[t].state = "RESULT_TRANSFERRING"
           /\ {NodeOf(u, t, g), ResultNode[t]} \cap u.dead = {}
           /\ Started(u, t) /\ Sane(u, t) /\ Agrees(u.pair[t], u.task[t])
<1>1. TaskOK(u, t) /\ Exposed(u, t, {}, {})
    BY DEF Fit
<1>2. ~Unstarted(u.pair[t], u.task[t])
    BY DEF Unstarted, NoPair
<1>3. Started(u, t) /\ Sane(u, t) /\ Agrees(u.pair[t], u.task[t])
    BY <1>1, <1>2, StartedSane
<1>4. u.pair[t].stage[g] \in Open
    BY DEF Open
<1> QED BY <1>1, <1>3, <1>4 DEF Sane, Attempts, Exposed

LEMMA WinCounts ==
    ASSUME NEW u, WorldOK(u), NEW t \in Task, Fit(u, t), NEW g \in Generation,
           NEW p, p = u.pair[t], p.stage[g] = "RESULT", NEW n, n = NodeOf(u, t, g),
           NEW v, v = [Must(u, /\ p.computed[g] # NoTime /\ p.computed[g] <= u.task[t].deadline
                               /\ u.task[t].state = "RESULT_TRANSFERRING"
                               /\ {n, ResultNode[t]} \cap u.dead = {})
                       EXCEPT !.pair[t].stage[g] = "COMPLETED"]
    PROVE  Puts(u, v, t, u.task[t], WonPair(p, g), u.assigned[t], u.recovering[t], u.svc)
<1> DEFINE q == WonPair(p, g)
           pair == [u.pair EXCEPT ![t] = q]
<1>1. u \in World /\ u.ok = TRUE /\ p \in Pair
    BY WorldTypes DEF WorldOK
<1>2. q \in Pair
    BY <1>1, WonPairFacts
<1>3. v = [u EXCEPT !.pair = pair]
    <2> DEFINE holds == /\ p.computed[g] # NoTime /\ p.computed[g] <= u.task[t].deadline
                        /\ u.task[t].state = "RESULT_TRANSFERRING"
                        /\ {n, ResultNode[t]} \cap u.dead = {}
    <2>1. holds
        BY ResultCounts
    <2> HIDE DEF holds
    <2>2. Must(u, holds) = u
        BY <1>1, <2>1 DEF Must, World
    <2>3. v = [u EXCEPT !.pair[t].stage[g] = "COMPLETED"]
        BY <2>2 DEF holds
    <2> QED BY <2>3 DEF WonPair
<1> HIDE DEF q
<1>4. Puts(u, v, t, u.task[t], q, u.assigned[t], u.recovering[t], u.svc)
    BY <1>2, <1>3, PairPuts
<1> QED BY <1>4 DEF q

\* A replica that has computed leaves the ledger.
LEMMA WinReleases ==
    ASSUME NEW u, WorldOK(u), NEW t \in Task, NEW q, NEW v, NEW n, u.assigned[t] = n, u.recovering[t] = NoNode,
           Puts(u, v, t, u.task[t], q, u.assigned[t], u.recovering[t], u.svc),
           NEW y, y = Release(v, t, n)
    PROVE  Puts(u, y, t, u.task[t], q, NoNode, NoNode, u.svc)
<1>1. Settles(u, v, t, u.task[t], q, u.assigned[t], u.recovering[t], u.svc, {t})
    BY PutsSettles
<1>2. v \in World /\ v.ok /\ v.assigned[t] = u.assigned[t] /\ v.recovering[t] = u.recovering[t]
    BY <1>1 DEF Settles, WorldOK
<1>3. Frees(v, y, t)
    BY <1>2, ReleaseIs
<1>4. /\ y = [v EXCEPT !.assigned = y.assigned, !.recovering = y.recovering]
      /\ y.assigned = [v.assigned EXCEPT ![t] = NoNode]
      /\ y.recovering = [v.recovering EXCEPT ![t] = NoNode]
    BY <1>3 DEF Frees
<1>5. /\ v.now = u.now /\ v.ok = TRUE /\ v.ended = u.ended /\ v.dead = u.dead
      /\ v.svc = u.svc
      /\ v.task = [u.task EXCEPT ![t] = u.task[t]] /\ v.pair = [u.pair EXCEPT ![t] = q]
      /\ v.assigned = [u.assigned EXCEPT ![t] = u.assigned[t]]
      /\ v.recovering = [u.recovering EXCEPT ![t] = u.recovering[t]]
      /\ u.task[t] \in TaskRuntime /\ q \in Pair /\ Serves(u, u.svc, {t})
    BY DEF Puts, Sets
<1>6. /\ Shaped(y) /\ y.now = v.now /\ y.ok = v.ok /\ y.ended = v.ended /\ y.dead = v.dead
      /\ y.svc = v.svc /\ y.task = v.task /\ y.pair = v.pair
    <2>1. v \in World /\ y = [v EXCEPT !.assigned = y.assigned, !.recovering = y.recovering]
        BY <1>2, <1>4
    <2> QED BY <2>1 DEF World, Shaped
<1>7. v.assigned = u.assigned /\ v.recovering = u.recovering
    <2>1. u \in World
        BY DEF WorldOK
    <2> QED BY <1>5, <2>1, WorldTypes
<1> QED BY <1>4, <1>5, <1>6, <1>7 DEF Puts, Sets

\* The attempt that has won leaves the other's in order.
LEMMA WonSane ==
    ASSUME NEW u, WorldOK(u), NEW t \in Task, Fit(u, t), NEW g \in Generation,
           NEW p, p = u.pair[t], p.stage[g] = "RESULT",
           \A k \in Flow : Of(k) = g => p.flow[k].step # "flying",
           NEW q, q = WonPair(p, g), NEW m, g = 1 => m = NoNode, g = 0 => m = u.assigned[t],
           NEW y, Puts(u, y, t, u.task[t], q, m, u.recovering[t], u.svc)
    PROVE  Follows(u, y, t) /\ Sane(y, t) /\ y.pair[t] = q /\ y.task[t] = u.task[t]
<1>1. Settles(u, y, t, u.task[t], q, m, u.recovering[t], u.svc, {t}) /\ Follows(u, y, t)
    BY PutsSettles
<1>2. /\ y.pair[t] = q /\ y.task[t] = u.task[t] /\ y.assigned[t] = m
      /\ y.recovering[t] = u.recovering[t] /\ y.svc = u.svc /\ y.now = u.now
    BY <1>1 DEF Settles
<1>3. Sane(u, t)
    BY ResultCounts
<1>4. p \in Pair
    BY <1>3, SaneNode
<1>5. /\ q.live = p.live /\ q.node = p.node /\ q.immune = p.immune
      /\ q.computed = p.computed /\ q.flow = p.flow
      /\ q.stage[g] = "COMPLETED" /\ q.stage[1 - g] = p.stage[1 - g]
    BY <1>4, WonPairFacts
<1>6. \A h \in Generation : h = g \/ h = 1 - g
    BY DEF Generation
<1>7. Attempts(q, u.task[t], u.now)
    <2>1. Attempts(p, u.task[t], u.now)
        BY <1>3 DEF Sane
    <2>2. q.stage[0] \notin {"ABSENT", "INPUT", "READY"} /\ (q.immune => q.stage[0] \notin Open)
        BY <1>5, <2>1 DEF Attempts, Generation, Open, Held
    <2>3. \A h \in Generation : q.stage[h] \in Open => h # g /\ q.stage[h] = p.stage[h]
        BY <1>5, <1>6 DEF Open, Held
    <2>4. \A k \in Flow : q.flow[k].step = "flying" => q.flow[k] = Flying /\ q.stage[Of(k)] = Needs(k)
        <3> SUFFICES ASSUME NEW k \in Flow, q.flow[k].step = "flying"
                     PROVE  q.flow[k] = Flying /\ q.stage[Of(k)] = Needs(k)
            OBVIOUS
        <3>1. Of(k) # g /\ Of(k) \in Generation
            BY <1>5, FlowsKnown
        <3>2. q.stage[Of(k)] = p.stage[Of(k)]
            BY <1>5, <1>6, <3>1
        <3> QED BY <1>5, <2>1, <3>2 DEF Attempts
    <2> QED BY ONLY <1>5, <2>1, <2>2, <2>3, <2>4 DEF Attempts, Open, Held
<1>8. Places(y, t)
    <2>1. PlacesAt(u.svc, p, u.task[t].state, t)
        BY <1>3, SaneNode
    <2>2. \A h \in Generation, s \in {"RUNNING", "ABSENT", "INPUT", "READY"} :
            q.stage[h] = s <=> p.stage[h] = s
        BY <1>5, <1>6
    <2>3. /\ q.stage[1] = "ABSENT" <=> p.stage[1] = "ABSENT"
          /\ q.stage[1] \in Held <=> p.stage[1] \in Held
          /\ \A h \in Generation : q.stage[h] = "RUNNING" <=> p.stage[h] = "RUNNING"
        BY <2>2 DEF Generation, Held
    <2>4. q.stage[0] = "RUNNING" <=> p.stage[0] = "RUNNING"
        BY <2>3 DEF Generation
    <2>5. q.stage[1] = "RUNNING" <=> p.stage[1] = "RUNNING"
        BY <2>3 DEF Generation
    <2>6. PlacesAt(u.svc, q, u.task[t].state, t)
        <3> DEFINE state == u.task[t].state
                   svc == u.svc
        <3>1. PlacesAt(svc, p, state, t) /\ q.node = p.node /\ q.immune = p.immune
            BY <1>5, <2>1
        <3> HIDE DEF state, svc
        <3>2. PlacesAt(svc, q, state, t)
            BY ONLY <2>3, <2>4, <2>5, <3>1 DEF PlacesAt
        <3> QED BY <3>2 DEF state, svc
    <2> QED BY <1>2, <2>6 DEF Places
<1>9. Ledger(y, t)
    <2>1. Ledger(u, t)
        BY <1>3 DEF Sane
    <2>2. q.stage[1] \in Held <=> p.stage[1] \in Held
        BY <1>5, <1>6 DEF Generation, Held
    <2>3. CASE g = 1
        <3>1. q.stage[1] \notin Open
            BY <1>5, <2>3 DEF Open, Held
        <3> QED BY <1>2, <1>5, <2>1, <2>2, <2>3, <3>1 DEF Ledger
    <2>4. CASE g = 0
        <3>1. q.stage[1] = p.stage[1]
            BY <1>5, <2>4
        <3> QED BY <1>2, <1>5, <2>1, <2>4, <3>1 DEF Ledger
    <2> QED BY <2>3, <2>4 DEF Generation
<1> QED BY <1>1, <1>2, <1>7, <1>8, <1>9 DEF Sane

\* What a win does to the pair and to the ledger, before the other is ended.
LEMMA WinPuts ==
    ASSUME NEW u, WorldOK(u), NEW t \in Task, Fit(u, t), NEW g \in Generation,
           NEW p, p = u.pair[t], p.stage[g] = "RESULT", NEW n, n = NodeOf(u, t, g),
           NEW v, Puts(u, v, t, u.task[t], WonPair(p, g), u.assigned[t], u.recovering[t], u.svc),
           NEW y, y = IF g = 1 THEN Release(v, t, n) ELSE v
    PROVE  \E m : /\ (g = 1 => m = NoNode) /\ (g = 0 => m = u.assigned[t])
                  /\ Puts(u, y, t, u.task[t], WonPair(p, g), m, u.recovering[t], u.svc)
<1>1. CASE g = 1
    <2>1. Ledger(u, t)
        BY ResultCounts DEF Sane
    <2>2. u.assigned[t] = n /\ u.recovering[t] = NoNode
        BY <1>1, <2>1 DEF Ledger, NodeOf, Open, Held
    <2>3. Puts(u, y, t, u.task[t], WonPair(p, g), NoNode, NoNode, u.svc)
        BY <1>1, <2>2, WinReleases
    <2> QED BY <1>1, <2>2, <2>3
<1>2. CASE g = 0
    BY <1>2
<1> QED BY <1>1, <1>2 DEF Generation

LEMMA LoserFades ==
    ASSUME NEW u, NEW t \in Task, WorldOK(u), Sane(u, t), NEW g \in Generation,
           NEW failed \in BOOLEAN, NEW v, v = Cancel(u, t, 1 - g, failed)
    PROVE  /\ Fades(u, v, t) /\ v.pair[t].stage[1 - g] \notin Open
           /\ v.pair[t].stage[g] = u.pair[t].stage[g]
<1>1. PICK h \in Generation : h = 1 - g /\ 1 - h = g
    BY DEF Generation
<1>3. v = Cancel(u, t, h, failed)
    BY <1>1
<1>4. /\ Fades(u, v, t) /\ v.pair[t].stage[h] \notin Open
      /\ v.pair[t].stage[1 - h] = u.pair[t].stage[1 - h]
    BY <1>1, <1>3, CancelFades
<1> QED BY <1>1, <1>4

\* The first result completes its task and ends the other attempt.
LEMMA WinSound ==
    ASSUME NEW u, WorldOK(u), NEW t \in Task, Fit(u, t), NEW g \in Generation,
           u.pair[t].stage[g] = "RESULT",
           \A k \in Flow : Of(k) = g => u.pair[t].flow[k].step # "flying",
           NEW v, v = Win(u, t, g)
    PROVE  Follows(u, v, t) /\ Over(v, t) /\ v.task[t].state = "COMPLETED"
<1> DEFINE p == u.pair[t]
           n == NodeOf(u, t, g)
           x == [Must(u, /\ p.computed[g] # NoTime /\ p.computed[g] <= u.task[t].deadline
                         /\ u.task[t].state = "RESULT_TRANSFERRING"
                         /\ {n, ResultNode[t]} \cap u.dead = {})
                 EXCEPT !.pair[t].stage[g] = "COMPLETED"]
           y == IF g = 1 THEN Release(x, t, n) ELSE x
           z == Cancel(y, t, 1 - g, FALSE)
           q == WonPair(p, g)
<1>1. v = Closed(z, t, "COMPLETED")
    BY DEF Win
<1>2. Puts(u, x, t, u.task[t], q, u.assigned[t], u.recovering[t], u.svc)
    BY WinCounts
<1> HIDE DEF x
<1>3. \E m : /\ (g = 1 => m = NoNode) /\ (g = 0 => m = u.assigned[t])
             /\ Puts(u, y, t, u.task[t], q, m, u.recovering[t], u.svc)
    BY <1>2, WinPuts
<1> HIDE DEF y, n
<1>4. Follows(u, y, t) /\ Sane(y, t) /\ y.pair[t] = q /\ y.task[t] = u.task[t]
    <2>1. PICK m : /\ (g = 1 => m = NoNode) /\ (g = 0 => m = u.assigned[t])
                   /\ Puts(u, y, t, u.task[t], q, m, u.recovering[t], u.svc)
        BY <1>3
    <2>2. q = WonPair(p, g) /\ p = u.pair[t]
        OBVIOUS
    <2> HIDE DEF q, p, z
    <2> QED BY <2>1, <2>2, WonSane
<1>5. WorldOK(y)
    BY <1>4 DEF Follows
<1>6. 1 - g \in Generation /\ 1 - (1 - g) = g /\ FALSE \in BOOLEAN
    BY DEF Generation
<1>7. Fades(y, z, t) /\ z.pair[t].stage[1 - g] \notin Open /\ z.pair[t].stage[g] = y.pair[t].stage[g]
    <2>1. z = Cancel(y, t, 1 - g, FALSE)
        OBVIOUS
    <2> HIDE DEF z
    <2>2. FALSE \in BOOLEAN
        OBVIOUS
    <2>3. \A failed \in BOOLEAN : z = Cancel(y, t, 1 - g, failed) =>
            /\ Fades(y, z, t) /\ z.pair[t].stage[1 - g] \notin Open
            /\ z.pair[t].stage[g] = y.pair[t].stage[g]
        BY <1>4, <1>5, LoserFades
    <2> QED BY <2>1, <2>2, <2>3, Zenon
<1> HIDE DEF z
<1>8. WorldOK(z) /\ Sane(z, t) /\ Only(y, z, {t}) /\ z.now = y.now /\ z.task[t] = y.task[t]
      /\ Faded(q, z.pair[t])
    BY <1>4, <1>7 DEF Fades
<1>9. p \in Pair
    BY ResultCounts, SaneNode
<1>10. q.stage[g] = "COMPLETED" /\ q.stage[1 - g] = p.stage[1 - g]
    BY <1>9, WonPairFacts
<1> HIDE DEF q
<1>11. p.stage[1 - g] # "COMPLETED"
    BY <1>6, ResultCounts DEF Agrees
<1>12. \A h \in Generation : h = g \/ h = 1 - g
    BY DEF Generation
<1>13. z.pair[t].stage[g] = "COMPLETED"
    BY <1>4, <1>7, <1>10
<1>14. z.pair[t].stage[1 - g] # "COMPLETED"
    BY <1>6, <1>8, <1>10, <1>11 DEF Faded
<1>15. /\ \A h \in Generation : z.pair[t].stage[h] \notin Open
       /\ \A h \in Generation : z.pair[t].stage[h] = "COMPLETED" => z.pair[t].stage[1 - h] # "COMPLETED"
       /\ \E h \in Generation : z.pair[t].stage[h] = "COMPLETED"
    <2>1. z.pair[t].stage[g] \notin Open
        BY <1>13 DEF Open, Held
    <2> QED BY <1>7, <1>12, <1>13, <1>14, <2>1
<1>16. Follows(z, v, t) /\ Over(v, t) /\ v.task[t].state = "COMPLETED"
    BY <1>1, <1>8, <1>15, ClosedOver
<1> QED BY <1>4, <1>8, <1>16, OnlyTransitive DEF Follows

-----------------------------------------------------------------------------
(* A delivery arrives *)

\* The pair p with another delivery k,
FlowPair(p, k, d) == [p EXCEPT !.flow = [p.flow EXCEPT ![k] = d]]

\* and with its replica in another stage.
ReadyPair(p) ==
    [p EXCEPT !.flow = [p.flow EXCEPT !["INPUT"] = Absent], !.stage = [p.stage EXCEPT ![1] = "READY"]]

LEMMA FlowPairFacts ==
    ASSUME NEW p \in Pair, NEW k \in Flow, NEW d \in Delivery, NEW q, q = FlowPair(p, k, d)
    PROVE  /\ q \in Pair /\ q.live = p.live /\ q.node = p.node /\ q.immune = p.immune
           /\ q.computed = p.computed /\ q.stage = p.stage
           /\ q.flow[k] = d /\ \A j \in Flow : j # k => q.flow[j] = p.flow[j]
<1> DEFINE flow == [p.flow EXCEPT ![k] = d]
<1>1. flow \in [Flow -> Delivery] /\ flow[k] = d /\ \A j \in Flow : j # k => flow[j] = p.flow[j]
    BY DEF Pair
<1>2. q = [p EXCEPT !.flow = flow]
    BY DEF FlowPair
<1> HIDE DEF flow
<1> QED BY <1>1, <1>2 DEF Pair

LEMMA ReadyPairFacts ==
    ASSUME NEW p \in Pair, NEW q, q = ReadyPair(p)
    PROVE  /\ q \in Pair /\ q.live = p.live /\ q.node = p.node /\ q.immune = p.immune
           /\ q.computed = p.computed /\ q.stage[0] = p.stage[0] /\ q.stage[1] = "READY"
           /\ q.flow["INPUT"] = Absent
           /\ \A j \in Flow : j # "INPUT" => q.flow[j] = p.flow[j]
<1> DEFINE flow == [p.flow EXCEPT !["INPUT"] = Absent]
           stage == [p.stage EXCEPT ![1] = "READY"]
<1>1. flow \in [Flow -> Delivery] /\ flow["INPUT"] = Absent
      /\ \A j \in Flow : j # "INPUT" => flow[j] = p.flow[j]
    BY FlowsKnown DEF Pair, Flow
<1>2. stage \in [Generation -> Stage] /\ stage[0] = p.stage[0] /\ stage[1] = "READY"
    BY DEF Pair, Generation, Stage
<1>3. q = [p EXCEPT !.flow = flow, !.stage = stage]
    BY DEF ReadyPair
<1> HIDE DEF flow, stage
<1> QED BY <1>1, <1>2, <1>3 DEF Pair

\* What a changed delivery leaves as it was.
Reroutes(u, v, t, k, d) ==
    /\ Follows(u, v, t) /\ Fit(v, t) /\ v.pair[t].stage = u.pair[t].stage /\ v.pair[t].flow[k] = d
    /\ v.pair[t].live = u.pair[t].live
    /\ Timed(u, t) => Timed(v, t)
    /\ Granted(u, t) => Granted(v, t)
    /\ Calm(u, t) => Calm(v, t)

LEMMA FlowReroutes ==
    ASSUME NEW u, WorldOK(u), NEW t \in Task, Fit(u, t), Started(u, t), NEW k \in Flow,
           NEW d \in Delivery, NEW p, p = u.pair[t],
           d.step = "flying" => d = Flying /\ p.stage[Of(k)] = Needs(k),
           NEW q, q = FlowPair(p, k, d), NEW v, Delivered(u, v, t, q)
    PROVE  Reroutes(u, v, t, k, d)
<1>1. Sane(u, t)
    BY StartedSane DEF Fit
<1>2. p \in Pair
    BY <1>1, SaneNode
<1>3. /\ q \in Pair /\ q.live = p.live /\ q.node = p.node /\ q.immune = p.immune
      /\ q.computed = p.computed /\ q.stage = p.stage
      /\ q.flow[k] = d /\ \A j \in Flow : j # k => q.flow[j] = p.flow[j]
    BY <1>2, FlowPairFacts
<1>6. \A j \in Flow : p.flow[j].step = "flying" => p.flow[j] = Flying /\ p.stage[Of(j)] = Needs(j)
    BY <1>1 DEF Sane, Attempts
<1>7. Traffic(p, q)
    <2>1. \A j \in Flow : q.flow[j].step = "flying" => q.flow[j] = Flying /\ q.stage[Of(j)] = Needs(j)
        BY <1>3, <1>6
    <2> QED BY <1>3, <2>1 DEF Traffic
<1>8. q.stage[0] = p.stage[0] /\ q.stage[1] = p.stage[1]
    BY <1>3
<1>9. /\ Follows(u, v, t) /\ Fit(v, t) /\ (Timed(u, t) => Timed(v, t))
      /\ Backed(u, t) => Backed(v, t)
      /\ q.stage = p.stage => (Granted(u, t) => Granted(v, t))
    BY <1>7, <1>8, TrafficSound
<1>10. v.pair[t] = q
    BY DEF Delivered
<1>11. Calm(u, t) => Calm(v, t)
    BY <1>3, <1>9 DEF Calm, Fit
<1> QED BY <1>3, <1>9, <1>10, <1>11 DEF Reroutes

LEMMA FlowSound ==
    ASSUME NEW u, WorldOK(u), NEW t \in Task, Fit(u, t), Started(u, t), NEW k \in Flow,
           NEW d \in Delivery,
           d.step = "flying" => d = Flying /\ u.pair[t].stage[Of(k)] = Needs(k),
           NEW v, v = [u EXCEPT !.pair[t].flow[k] = d]
    PROVE  Reroutes(u, v, t, k, d)
<1> DEFINE q == FlowPair(u.pair[t], k, d)
<1>1. u.pair[t] \in Pair
    BY WorldTypes DEF WorldOK
<1>2. q \in Pair
    BY <1>1, FlowPairFacts
<1>3. v = [u EXCEPT !.pair = [u.pair EXCEPT ![t] = q]]
    BY DEF FlowPair
<1> HIDE DEF q
<1>4. Delivered(u, v, t, q)
    BY <1>2, <1>3, PairDelivered
<1> QED BY <1>4, FlowReroutes DEF q

\* The input of the replica has arrived.
LEMMA ReadySound ==
    ASSUME NEW u, WorldOK(u), NEW t \in Task, Fit(u, t), u.pair[t].stage[1] = "INPUT",
           NEW v, v = [u EXCEPT !.pair = [u.pair EXCEPT ![t] = ReadyPair(u.pair[t])]]
    PROVE  /\ Follows(u, v, t) /\ Fit(v, t) /\ (Timed(u, t) => Timed(v, t))
           /\ Backed(u, t) => Backed(v, t)
<1> DEFINE p == u.pair[t]
           q == ReadyPair(p)
<1>1. Started(u, t)
    <2>1. ~Unstarted(p, u.task[t])
        BY DEF Unstarted, NoPair, Generation
    <2> QED BY <2>1, StartedSane DEF Fit
<1>2. Sane(u, t)
    BY <1>1, StartedSane DEF Fit
<1>3. p \in Pair
    BY <1>2, SaneNode
<1>4. /\ q \in Pair /\ q.live = p.live /\ q.node = p.node /\ q.immune = p.immune
      /\ q.computed = p.computed /\ q.stage[0] = p.stage[0] /\ q.stage[1] = "READY"
      /\ q.flow["INPUT"] = Absent
      /\ \A j \in Flow : j # "INPUT" => q.flow[j] = p.flow[j]
    BY <1>3, ReadyPairFacts
<1> HIDE DEF q
<1>5. Delivered(u, v, t, q)
    BY <1>4, PairDelivered DEF q
<1>6. \A j \in Flow : p.flow[j].step = "flying" => p.flow[j] = Flying /\ p.stage[Of(j)] = Needs(j)
    BY <1>2 DEF Sane, Attempts
<1>7. Traffic(p, q)
    <2>1. ASSUME NEW j \in Flow, q.flow[j].step = "flying"
          PROVE  q.flow[j] = Flying /\ q.stage[Of(j)] = Needs(j)
        <3>1. j # "INPUT"
            BY <1>4, <2>1, FlowsKnown
        <3>2. q.flow[j] = Flying /\ p.stage[Of(j)] = Needs(j) /\ Needs(j) = "RESULT"
            BY <1>4, <1>6, <2>1, <3>1 DEF Needs
        <3>3. Of(j) = 0
            BY <3>2 DEF Of
        <3> QED BY <1>4, <3>2, <3>3
    <2> QED BY <1>4, <2>1 DEF Traffic
<1> HIDE DEF p
<1>8. p = u.pair[t] /\ q.stage[0] = p.stage[0] /\ p.stage[1] = "INPUT" /\ q.stage[1] = "READY"
    BY <1>4 DEF p
<1> QED BY <1>1, <1>5, <1>7, <1>8, TrafficSound

\* What is received moves its attempt on: the input starts the replica, a result
\* ends the task.
LEMMA ReceivedInput ==
    ASSUME NEW u, Orderly(u), NEW t \in Task, Calm(u, t), u.pair[t].stage[1] = "INPUT",
           NEW pick \in [Task -> Server \cup {NoNode}],
           NEW x, x = [u EXCEPT !.pair = [u.pair EXCEPT ![t] = ReadyPair(u.pair[t])]],
           NEW v, v = StartIfReady(x, t, pick)
    PROVE  /\ Spares(u, v, t) /\ Calm(v, t)
           /\ u.pair[t].live /\ v.task[t].state = "FAILED" => Lapsed(u, t)
<1>1. WorldOK(u) /\ Fit(u, t) /\ Timed(u, t) /\ Backed(u, t)
    BY DEF Orderly, Calm, Granted, Fit
<1>2. Follows(u, x, t) /\ Fit(x, t) /\ Timed(x, t) /\ Backed(x, t)
    BY <1>1, ReadySound
<1>3. Spares(u, x, t)
    BY <1>2, FollowsSpares
<1>4. Orderly(x)
    BY <1>2, <1>3, SparesOrderly
<1>5. /\ Spares(x, v, t) /\ Fit(v, t) /\ Timed(v, t) /\ (Backed(x, t) => Granted(v, t))
      /\ x.pair[t].live /\ v.task[t].state = "FAILED" => Lapsed(x, t)
    BY <1>2, <1>4, StartIfReadySound
<1>6. Spares(u, v, t)
    BY <1>3, <1>5, SparesTransitive
<1>7. u.pair[t].live /\ v.task[t].state = "FAILED" => Lapsed(u, t)
    <2>1. u \in World /\ u.pair[t] \in Pair
        BY <1>1, WorldTypes DEF WorldOK
    <2>2. x.now = u.now /\ x.task = u.task /\ x.pair[t] = ReadyPair(u.pair[t])
        BY <2>1, WorldTypes DEF World
    <2>3. x.pair[t].live = u.pair[t].live /\ x.pair[t].stage[0] = u.pair[t].stage[0]
        BY <2>1, <2>2, ReadyPairFacts
    <2>4. Lapsed(x, t) => Lapsed(u, t)
        BY <2>2, <2>3 DEF Lapsed, Unreturned, Generation
    <2> QED BY <1>5, <2>3, <2>4
<1> QED BY <1>2, <1>5, <1>6, <1>7 DEF Calm, Fit

LEMMA ReceivedResult ==
    ASSUME NEW u, Orderly(u), NEW t \in Task, NEW g \in Generation, u.pair[t].stage[g] = "RESULT",
           NEW k \in Flow, Of(k) = g, NEW x, Reroutes(u, x, t, k, Absent),
           \A j \in Flow : j # k /\ Of(j) = g => u.pair[t].flow[j].step # "flying",
           \A j \in Flow : j # k => x.pair[t].flow[j] = u.pair[t].flow[j],
           NEW v, v = Win(x, t, g)
    PROVE  Spares(u, v, t) /\ Calm(v, t) /\ v.task[t].state = "COMPLETED"
<1>1. /\ Follows(u, x, t) /\ Fit(x, t) /\ x.pair[t].stage = u.pair[t].stage
      /\ x.pair[t].flow[k] = Absent
    BY DEF Reroutes
<1>2. WorldOK(x)
    BY <1>1 DEF Follows
<1>3. \A j \in Flow : Of(j) = g => x.pair[t].flow[j].step # "flying"
    BY <1>1, FlowsKnown
<1>4. x.pair[t].stage[g] = "RESULT"
    BY <1>1
<1>5. Follows(x, v, t) /\ Over(v, t) /\ v.task[t].state = "COMPLETED"
    BY <1>1, <1>2, <1>3, <1>4, WinSound
<1>6. Spares(u, v, t)
    BY <1>1, <1>5, FollowsSpares, SparesTransitive
<1> QED BY <1>5, <1>6, OverCalm

\* The two forms of what is received in order.
Received(u, v, t, k, pick) ==
    /\ k = "INPUT" =>
         v = StartIfReady([u EXCEPT !.pair = [u.pair EXCEPT ![t] = ReadyPair(u.pair[t])]], t, pick)
    /\ k # "INPUT" => v = Win([u EXCEPT !.pair[t].flow[k] = Absent], t, Of(k))

LEMMA ReceiveIs ==
    ASSUME NEW u \in World, u.ok, NEW t \in Task, NEW k \in Flow,
           u.pair[t].live, Valid(u, t, Of(k)), u.pair[t].stage[Of(k)] = Needs(k),
           NEW pick, NEW v, v = Receive(u, t, k, pick)
    PROVE  Received(u, v, t, k, pick)
<1> DEFINE x == [u EXCEPT !.pair[t].flow[k] = Absent]
<1>1. x \in World /\ x.ok = TRUE
    <2>1. Absent \in Delivery
        BY FlowsKnown
    <2>2. u.pair[t] \in Pair
        BY WorldTypes
    <2>3. FlowPair(u.pair[t], k, Absent) \in Pair
        BY <2>1, <2>2, FlowPairFacts
    <2>4. x = [u EXCEPT !.pair = [u.pair EXCEPT ![t] = FlowPair(u.pair[t], k, Absent)]]
        BY DEF FlowPair
    <2> HIDE DEF x
    <2>5. [u.pair EXCEPT ![t] = FlowPair(u.pair[t], k, Absent)] \in [Task -> Pair]
        BY <2>3, WorldTypes
    <2> QED BY <2>4, <2>5 DEF World
<1>2. \A holds : holds => Must(x, holds) = x
    BY <1>1 DEF Must, World
<1>3. CASE k = "INPUT"
    <2>1. Of(k) = 1 /\ u.pair[t].stage[1] = "INPUT"
        BY <1>3 DEF Of, Needs
    <2>2. Must(x, u.pair[t].stage[1] = "INPUT") = x
        BY <1>2, <2>1
    <2>3. v = StartIfReady([x EXCEPT !.pair[t].stage[1] = "READY"], t, pick)
        BY <1>3, <2>1, <2>2 DEF Receive
    <2>4. [x EXCEPT !.pair[t].stage[1] = "READY"]
            = [u EXCEPT !.pair = [u.pair EXCEPT ![t] = ReadyPair(u.pair[t])]]
        <3> DEFINE pair == u.pair
                   flow == [pair[t].flow EXCEPT !["INPUT"] = Absent]
                   y == [u EXCEPT !.pair = [pair EXCEPT ![t] = [pair[t] EXCEPT !.flow = flow]]]
        <3>1. pair \in [Task -> Pair] /\ u \in World
            BY WorldTypes
        <3>2. x = y
            BY <1>3
        <3> DEFINE bare == [pair EXCEPT ![t] = [pair[t] EXCEPT !.flow = flow]]
        <3> HIDE DEF x
        <3>3. [bare EXCEPT ![t].stage[1] = "READY"] = [pair EXCEPT ![t] = ReadyPair(pair[t])]
            <4> HIDE DEF pair
            <4> QED BY ONLY <3>1, t \in Task DEF ReadyPair, Pair, bare, flow
        <3> HIDE DEF bare
        <3>4. y = [u EXCEPT !.pair = bare]
            BY DEF bare
        <3> HIDE DEF y, flow, pair
        <3>5. [y EXCEPT !.pair[t].stage[1] = "READY"]
                = [u EXCEPT !.pair = [bare EXCEPT ![t].stage[1] = "READY"]]
            BY ONLY <3>1, <3>4 DEF World
        <3> QED BY ONLY <3>2, <3>3, <3>5 DEF pair
    <2> QED BY <1>3, <2>3, <2>4 DEF Received
<1>4. CASE k # "INPUT"
    <2>1. u.pair[t].stage[Of(k)] = "RESULT"
        BY <1>4 DEF Needs
    <2>2. Must(x, u.pair[t].stage[Of(k)] = "RESULT") = x
        BY <1>2, <2>1
    <2> QED BY <1>4, <2>2 DEF Receive, Of, Received
<1> QED BY <1>3, <1>4

LEMMA ReceiveSound ==
    ASSUME NEW u, Orderly(u), NEW t \in Task, Calm(u, t), Started(u, t), NEW k \in Flow,
           u.pair[t].live /\ Valid(u, t, Of(k)) => u.pair[t].stage[Of(k)] = Needs(k),
           NEW pick \in [Task -> Server \cup {NoNode}], NEW v, v = Receive(u, t, k, pick)
    PROVE  /\ Spares(u, v, t) /\ Calm(v, t)
           /\ u.pair[t].live /\ v.task[t].state = "FAILED" => Lapsed(u, t)
<1>1. WorldOK(u) /\ Fit(u, t) /\ u \in World /\ u.ok
    BY DEF Orderly, WorldOK
<1> DEFINE x == [u EXCEPT !.pair[t].flow[k] = Absent]
<1>2. Reroutes(u, x, t, k, Absent)
    BY <1>1, FlowsKnown, FlowSound
<1>3. CASE ~u.pair[t].live \/ ~Valid(u, t, Of(k))
    <2>1. v = x
        BY <1>3 DEF Receive, Of
    <2>2. u.pair[t].live => x.task[t].state # "FAILED"
        BY <1>2, LiveState DEF Reroutes, Fit
    <2> HIDE DEF x
    <2> QED BY <1>2, <2>1, <2>2, FollowsSpares DEF Reroutes
<1>4. CASE u.pair[t].live /\ Valid(u, t, Of(k)) /\ k = "INPUT"
    <2>1. v = StartIfReady([u EXCEPT !.pair = [u.pair EXCEPT ![t] = ReadyPair(u.pair[t])]], t, pick)
        <3>1. Received(u, v, t, k, pick)
            BY <1>1, <1>4, ReceiveIs
        <3> QED BY <1>4, <3>1 DEF Received
    <2>2. u.pair[t].stage[1] = "INPUT"
        BY <1>4 DEF Of, Needs
    <2> QED BY <2>1, <2>2, ReceivedInput
<1>5. CASE u.pair[t].live /\ Valid(u, t, Of(k)) /\ k # "INPUT"
    <2>1. v = Win(x, t, Of(k))
        <3>1. Received(u, v, t, k, pick)
            BY <1>1, <1>5, ReceiveIs
        <3> QED BY <1>5, <3>1 DEF Received
    <2>2. u.pair[t].stage[Of(k)] = "RESULT" /\ Of(k) \in Generation
        BY <1>5, FlowsKnown DEF Needs
    <2>3. \A j \in Flow : j # k /\ Of(j) = Of(k) => u.pair[t].flow[j].step # "flying"
        <3>1. \A j \in Flow : u.pair[t].flow[j].step = "flying" => u.pair[t].stage[Of(j)] = Needs(j)
            BY <1>1, StartedSane DEF Fit, Sane, Attempts
        <3>2. \A j \in Flow : j # k /\ Of(j) = Of(k) => j = "INPUT"
            BY <1>5 DEF Flow, Of
        <3> QED BY <2>2, <3>1, <3>2 DEF Needs
    <2>4. \A j \in Flow : j # k => x.pair[t].flow[j] = u.pair[t].flow[j]
        BY <1>1, WorldTypes DEF World, Pair
    <2> HIDE DEF x
    <2> QED BY <1>2, <2>1, <2>2, <2>3, <2>4, ReceivedResult
<1> QED BY <1>3, <1>4, <1>5

-----------------------------------------------------------------------------
(* The events of one task *)

\* The world between two events.
AllCalm(u) == WorldOK(u) /\ \A x \in Task : Calm(u, x)

LEMMA AllCalmOrderly ==
    ASSUME NEW u, AllCalm(u)
    PROVE  Orderly(u) /\ WorldOK(u)
    BY CalmFit DEF AllCalm, Orderly

LEMMA SparesAllCalm ==
    ASSUME NEW u, AllCalm(u), NEW t, NEW v, Spares(u, v, t), Calm(v, t)
    PROVE  AllCalm(v)
<1>1. WorldOK(u) /\ WorldOK(v) /\ \A x \in Task : Calm(u, x)
    BY DEF AllCalm, Spares
<1>2. ASSUME NEW x \in Task
      PROVE  Calm(v, x)
    <2>1. CASE x = t
        BY <2>1
    <2>2. CASE x # t
        BY <1>1, <2>2, SparesFit
    <2> QED BY <2>1, <2>2
<1> QED BY <1>1, <1>2 DEF AllCalm

LEMMA FollowsAllCalm ==
    ASSUME NEW u, AllCalm(u), NEW t, NEW v, Follows(u, v, t), Calm(v, t)
    PROVE  AllCalm(v)
    BY FollowsSpares, SparesAllCalm

LEMMA PicksKnown ==
    ASSUME TypeOK, NEW pick \in Picks
    PROVE  pick \in [Task -> Server \cup {NoNode}]
    BY DEF Picks

\* Only what has started has deliveries.
LEMMA DeliveryStarted ==
    ASSUME NEW u, NEW t, TaskOK(u, t), NEW k \in Flow, u.pair[t].flow[k].step # "none"
    PROVE  Started(u, t) /\ Sane(u, t)
<1>1. ~Unstarted(u.pair[t], u.task[t])
    BY FlowsKnown DEF Unstarted, NoPair
<1> QED BY <1>1, StartedSane

LEMMA ReceiveKeeps ==
    ASSUME NEW u, AllCalm(u), NEW t \in Task, NEW k \in Flow, u.pair[t].flow[k].step # "none",
           u.pair[t].live /\ Valid(u, t, Of(k)) => u.pair[t].stage[Of(k)] = Needs(k),
           NEW pick \in [Task -> Server \cup {NoNode}], NEW v, v = Receive(u, t, k, pick)
    PROVE  AllCalm(v) /\ AllFailLast(u, v)
<1>1. Orderly(u) /\ Calm(u, t) /\ TaskOK(u, t)
    BY AllCalmOrderly DEF AllCalm, Calm
<1>2. Started(u, t)
    BY <1>1, DeliveryStarted
<1>3. /\ Spares(u, v, t) /\ Calm(v, t)
      /\ u.pair[t].live /\ v.task[t].state = "FAILED" => Lapsed(u, t)
    BY <1>1, <1>2, ReceiveSound
<1>4. \A x \in Task : TaskOK(u, x)
    BY DEF AllCalm, Calm
<1>5. AllFailLast(u, v)
    BY <1>3, <1>4, LapsedEnds, SparesFail
<1> QED BY <1>3, <1>5, SparesAllCalm

\* A transfer that is under way is of an attempt in its stage.
LEMMA FlyingInStage ==
    ASSUME NEW u, NEW t, TaskOK(u, t), NEW k \in Flow, u.pair[t].flow[k].step = "flying"
    PROVE  u.pair[t].stage[Of(k)] = Needs(k)
    BY DeliveryStarted DEF Sane, Attempts

\* So is a delivery that is still wanted.
LEMMA WantedInStage ==
    ASSUME NEW u, NEW t, u.pair[t].stage[1] \in Stage, NEW k \in Flow, Wanted(u, t, k)
    PROVE  u.pair[t].stage[Of(k)] = Needs(k) /\ Of(k) = 1
    BY DEF Wanted, Flow, Stage, Of, Needs

LEMMA FlowKeeps ==
    ASSUME NEW u, AllCalm(u), NEW t \in Task, NEW k \in Flow, u.pair[t].flow[k].step # "none",
           NEW d \in Delivery,
           d.step = "flying" => d = Flying /\ u.pair[t].stage[Of(k)] = Needs(k),
           NEW v, v = [u EXCEPT !.pair[t].flow[k] = d]
    PROVE  AllCalm(v) /\ Reroutes(u, v, t, k, d) /\ AllFailLast(u, v)
<1>1. Fit(u, t) /\ Calm(u, t) /\ TaskOK(u, t) /\ WorldOK(u)
    BY CalmFit DEF AllCalm, Calm
<1>2. Started(u, t)
    BY <1>1, DeliveryStarted
<1>3. Reroutes(u, v, t, k, d)
    BY <1>1, <1>2, FlowSound
<1>4. FailsLast(u, v, t)
    <2>1. v.pair[t].live = u.pair[t].live /\ TaskOK(v, t)
        BY <1>3 DEF Reroutes, Fit
    <2>2. u.pair[t].live => v.task[t].state # "FAILED"
        BY <2>1, LiveState
    <2> QED BY <2>2 DEF FailsLast
<1>5. Spares(u, v, t) /\ \A x \in Task : TaskOK(u, x)
    BY <1>3, FollowsSpares DEF Reroutes, AllCalm, Calm
<1> QED BY <1>1, <1>3, <1>4, <1>5, FollowsAllCalm, SparesFail DEF Reroutes

LEMMA LocalDeliveryKeeps ==
    ASSUME TypeOK, AllCalm(w), NEW t \in Task, NEW k \in Flow, LocalDelivery(t, k)
    PROVE  AllCalm(w') /\ AllFailLast(w, w')
<1>1. w.pair[t].flow[k].step # "none"
    BY DEF LocalDelivery, At
<1>2. w.pair[t].stage[1] \in Stage
    BY WorldTypes, PairTypes DEF TypeOK
<1>3. PICK pick \in Picks :
        w' = IF Wanted(w, t, k) /\ w.pair[t].node \notin w.dead THEN Receive(w, t, k, pick)
             ELSE [w EXCEPT !.pair[t].flow[k] = Absent]
    BY DEF LocalDelivery
<1>4. pick \in [Task -> Server \cup {NoNode}]
    BY PicksKnown
<1>5. CASE Wanted(w, t, k) /\ w.pair[t].node \notin w.dead
    <2>1. w' = Receive(w, t, k, pick)
        BY <1>3, <1>5
    <2>2. w.pair[t].stage[Of(k)] = Needs(k)
        BY <1>2, <1>5, WantedInStage
    <2> QED BY <1>1, <1>4, <2>1, <2>2, ReceiveKeeps
<1>6. CASE ~(Wanted(w, t, k) /\ w.pair[t].node \notin w.dead)
    <2>1. w' = [w EXCEPT !.pair[t].flow[k] = Absent]
        BY <1>3, <1>6
    <2> QED BY <1>1, <2>1, FlowsKnown, FlowKeeps
<1> QED BY <1>5, <1>6

LEMMA TransferTerminalKeeps ==
    ASSUME TypeOK, AllCalm(w), NEW t \in Task, NEW k \in Flow, TransferTerminal(t, k)
    PROVE  AllCalm(w') /\ AllFailLast(w, w')
<1>1. w.pair[t].flow[k].step = "flying" /\ TaskOK(w, t)
    BY DEF TransferTerminal, AllCalm, Calm
<1>2. PICK pick \in Picks : w' = Receive(w, t, k, pick)
    BY DEF TransferTerminal
<1>3. pick \in [Task -> Server \cup {NoNode}]
    BY PicksKnown
<1>4. w.pair[t].stage[Of(k)] = Needs(k)
    BY <1>1, FlyingInStage
<1> QED BY <1>1, <1>2, <1>3, <1>4, ReceiveKeeps

\* A refused delivery ends the replica, and its task if nothing else is left.
LEMMA RefusalCalm ==
    ASSUME NEW u, WorldOK(u), NEW t \in Task, Calm(u, t), Started(u, t),
           NEW v, v = FailIfNone(Cancel(u, t, 1, TRUE), t)
    PROVE  /\ Follows(u, v, t) /\ Calm(v, t)
           /\ u.pair[t].live /\ v.task[t].state = "FAILED" => ~Valid(u, t, 0)
<1> DEFINE y == Cancel(u, t, 1, TRUE)
<1>1. TaskOK(u, t) /\ Exposed(u, t, {}, {}) /\ Timed(u, t) /\ Sane(u, t)
    BY StartedSane DEF Calm
<1>2. 1 \in Generation /\ TRUE \in BOOLEAN /\ 1 - 1 = 0
    BY DEF Generation
<1>3. Fades(u, y, t) /\ y.pair[t].stage[1] \notin Open /\ y.pair[t].stage[1 - 1] = u.pair[t].stage[1 - 1]
    <2>1. y = Cancel(u, t, 1, TRUE)
        OBVIOUS
    <2> HIDE DEF y
    <2>2. \A failed \in BOOLEAN : y = Cancel(u, t, 1, failed) =>
            /\ Fades(u, y, t) /\ y.pair[t].stage[1] \notin Open
            /\ y.pair[t].stage[1 - 1] = u.pair[t].stage[1 - 1]
        BY <1>1, <1>2, CancelFades
    <2> QED BY <1>2, <2>1, <2>2, Zenon
<1> HIDE DEF y
<1>4. Goes(u, y, t) /\ WorldOK(y) /\ TaskOK(y, t) /\ Started(y, t)
    <2>1. Goes(u, y, t) /\ WorldOK(y) /\ Sane(y, t)
        BY <1>1, <1>3, FadesGoes DEF Fades
    <2> QED BY <2>1 DEF Goes, Sane, Attempts, Started
<1>5. v = FailIfNone(y, t)
    BY DEF y
<1>6. /\ Goes(y, v, t)
      /\ Over(v, t) \/ (v = y /\ \E g \in Generation : v.pair[t].stage[g] \in Open)
    BY <1>4, <1>5, FailIfNoneGoes
<1>7. Goes(u, v, t)
    BY <1>4, <1>6, GoesTransitive
<1>8. Follows(u, v, t) /\ Fit(v, t) /\ Timed(v, t)
    BY <1>1, <1>7 DEF Goes, Fit
<1>11. u.pair[t].live /\ v.task[t].state = "FAILED" => ~Valid(u, t, 0)
    <2> SUFFICES ASSUME u.pair[t].live, Valid(u, t, 0) PROVE v.task[t].state # "FAILED"
        OBVIOUS
    <2>1. Valid(y, t, 0)
        BY <1>2, <1>3 DEF Valid
    <2>2. v = y
        BY <1>5, <2>1 DEF FailIfNone
    <2>3. v.task[t] = u.task[t]
        BY <1>3, <2>2 DEF Fades
    <2> QED BY <1>1, <2>3, LiveState
<1>9. CASE Over(v, t)
    BY <1>8, <1>9, <1>11, OverCalm
<1>10. CASE v = y /\ \E g \in Generation : v.pair[t].stage[g] \in Open
    <2>1. v.pair[t].stage[1] \notin Held /\ v.pair[t].stage[1] # "READY"
        BY <1>3, <1>10 DEF Open, Held
    <2>2. Granted(v, t)
        BY <1>10, <2>1 DEF Granted, Backed
    <2> QED BY <1>8, <1>11, <2>2 DEF Calm, Fit
<1> QED BY <1>6, <1>9, <1>10

LEMMA FlushRequestKeeps ==
    ASSUME TypeOK, AllCalm(w), NEW t \in Task, NEW k \in Flow, FlushRequest(t, k)
    PROVE  AllCalm(w') /\ AllFailLast(w, w')
<1>1. w.pair[t].flow[k].step # "none"
    BY DEF FlushRequest, At
<1>2. w.pair[t].stage[1] \in Stage
    BY WorldTypes, PairTypes DEF TypeOK
<1>3. PICK registers \in BOOLEAN : w' = Flush(w, t, k, registers)
    BY DEF FlushRequest
<1> DEFINE x == [w EXCEPT !.pair[t].flow[k] = Absent]
<1>4. AllCalm(x) /\ Reroutes(w, x, t, k, Absent) /\ AllFailLast(w, x)
    BY <1>1, FlowsKnown, FlowKeeps
<1>5. CASE ~Wanted(w, t, k)
    <2>1. w' = x
        BY <1>3, <1>5 DEF Flush
    <2> QED BY <1>4, <2>1
<1>6. CASE Wanted(w, t, k) /\ registers
    <2>1. w' = [w EXCEPT !.pair[t].flow[k] = Flying]
        BY <1>3, <1>6 DEF Flush
    <2>2. w.pair[t].stage[Of(k)] = Needs(k)
        BY <1>2, <1>6, WantedInStage
    <2> QED BY <1>1, <2>1, <2>2, FlowsKnown, FlowKeeps
<1>7. CASE Wanted(w, t, k) /\ ~registers
    <2>1. w' = FailIfNone(Cancel(x, t, 1, TRUE), t)
        BY <1>3, <1>7 DEF Flush
    <2>2. Started(w, t)
        BY <1>1, DeliveryStarted DEF AllCalm, Calm
    <2> HIDE DEF x
    <2>3. Started(x, t) /\ WorldOK(x) /\ Calm(x, t)
        BY <1>4, <2>2 DEF Reroutes, Started, AllCalm
    <2>4. /\ Follows(x, w', t) /\ Calm(w', t)
          /\ x.pair[t].live /\ w'.task[t].state = "FAILED" => ~Valid(x, t, 0)
        BY <2>1, <2>3, RefusalCalm
    <2>5. /\ x.pair[t].live = w.pair[t].live /\ x.pair[t].stage = w.pair[t].stage
          /\ Follows(w, x, t)
        BY <1>4 DEF Reroutes
    <2>6. EndsBy(w, w', t, 1)
        <3>1. k \in FlowsOf(1) /\ k = w.pair[t].stage[1]
            <4>1. Of(k) = 1 /\ 1 \in Generation
                BY <1>2, <1>7, WantedInStage DEF Generation
            <4>2. k \in FlowsOf(1)
                BY <4>1, FlowsKnown
            <4> QED BY <1>7, <4>2 DEF Wanted
        <3>2. w.pair[t].flow[k].step = "queued" /\ w.pair[t].flow[k].due = w.now
            BY DEF FlushRequest, At
        <3> QED BY <3>1, <3>2 DEF EndsBy
    <2>7. FailsLast(w, w', t)
        <3>1. w.pair[t].live /\ w'.task[t].state = "FAILED" => ~Valid(w, t, 0)
            BY <2>4, <2>5 DEF Valid
        <3> QED BY ONLY <2>6, <3>1 DEF FailsLast, Generation
    <2>8. Spares(w, w', t) /\ \A y \in Task : TaskOK(w, y)
        <3>1. Spares(w, x, t) /\ Spares(x, w', t)
            BY <2>4, <2>5, FollowsSpares
        <3> QED BY <3>1, SparesTransitive DEF AllCalm, Calm
    <2>9. AllFailLast(w, w')
        BY <2>7, <2>8, SparesFail
    <2> QED BY <1>4, <2>4, <2>9, FollowsAllCalm
<1> QED BY <1>5, <1>6, <1>7

\* The deadline's timer is off.
LEMMA TimerOff ==
    ASSUME NEW u, Orderly(u), NEW t \in Task, Started(u, t), u.pair[t].live,
           NEW v, v = [u EXCEPT !.task[t].timer = FALSE]
    PROVE  Follows(u, v, t) /\ Fit(v, t) /\ v.pair[t].live /\ v.pair[t] = u.pair[t]
<1> DEFINE a == [u.task[t] EXCEPT !.timer = FALSE]
<1>1. WorldOK(u) /\ Fit(u, t) /\ u \in World /\ u.ok = TRUE /\ u.task[t] \in TaskRuntime
    BY WorldTypes DEF Orderly, WorldOK
<1>2. a \in TaskRuntime /\ a.state = u.task[t].state /\ a.deadline = u.task[t].deadline
    BY <1>1 DEF TaskRuntime
<1>3. v = [u EXCEPT !.task = [u.task EXCEPT ![t] = a]]
    OBVIOUS
<1> HIDE DEF a
<1>4. Puts(u, v, t, a, u.pair[t], u.assigned[t], u.recovering[t], u.svc)
    <2>1. Serves(u, u.svc, {t})
        BY <1>1, ServesSame
    <2>2. /\ Shaped(v) /\ v.now = u.now /\ v.ok = u.ok /\ v.ended = u.ended /\ v.dead = u.dead
          /\ v.svc = u.svc /\ v.task = [u.task EXCEPT ![t] = a] /\ v.pair = u.pair
          /\ v.assigned = u.assigned /\ v.recovering = u.recovering
        BY <1>1, <1>3 DEF World, Shaped
    <2> HIDE <1>3
    <2> QED BY <1>1, <1>2, <2>1, <2>2, WorldTypes DEF Puts, Sets
<1>5. Settles(u, v, t, a, u.pair[t], u.assigned[t], u.recovering[t], u.svc, {t}) /\ Follows(u, v, t)
    BY <1>1, <1>4, PutsSettles
<1>6. /\ v.now = u.now /\ v.dead = u.dead /\ v.svc = u.svc /\ v.task[t] = a /\ v.pair[t] = u.pair[t]
      /\ v.assigned[t] = u.assigned[t] /\ v.recovering[t] = u.recovering[t]
    BY <1>5 DEF Settles
<1>7. Sane(u, t) /\ Agrees(u.pair[t], u.task[t]) /\ Exposed(u, t, {}, {})
    BY <1>1, StartedSane DEF Fit
<1>8. Attempts(v.pair[t], v.task[t], v.now) /\ Places(v, t) /\ Ledger(v, t)
    <2>1. Attempts(u.pair[t], u.task[t], u.now) /\ Places(u, t) /\ Ledger(u, t)
        BY ONLY <1>7 DEF Sane
    <2>2. Attempts(u.pair[t], a, u.now)
        BY ONLY <1>2, <2>1 DEF Attempts
    <2>3. Attempts(v.pair[t], v.task[t], v.now)
        BY ONLY <1>6, <2>2
    <2>4. v.task[t].state = u.task[t].state
        BY ONLY <1>2, <1>6
    <2>5. Places(v, t)
        BY ONLY <1>6, <2>1, <2>4 DEF Places
    <2>6. Ledger(v, t)
        BY ONLY <1>6, <2>1 DEF Ledger
    <2> QED BY ONLY <2>3, <2>5, <2>6
<1>9. Agrees(v.pair[t], v.task[t])
    BY <1>2, <1>6, <1>7 DEF Agrees
<1>10. Exposed(v, t, {}, {})
    BY <1>2, <1>6, <1>7 DEF Exposed, NodeOf
<1> QED BY <1>5, <1>6, <1>8, <1>9, <1>10 DEF Fit, TaskOK, PairOK

LEMMA DeadlinePassesKeeps ==
    ASSUME TypeOK, AllCalm(w), NEW t \in Task, DeadlinePasses(t)
    PROVE  AllCalm(w') /\ AllFailLast(w, w')
<1> DEFINE x == [w EXCEPT !.task[t].timer = FALSE]
<1>1. w.task[t].timer
    BY DEF DeadlinePasses
<1>2. PICK pick \in Picks : w' = Deadline(x, t, pick)
    BY DEF DeadlinePasses
<1>3. pick \in [Task -> Server \cup {NoNode}]
    BY PicksKnown
<1>4. Orderly(w) /\ TaskOK(w, t)
    BY AllCalmOrderly DEF AllCalm, Calm
<1>5. Started(w, t) /\ w.pair[t].live
    <2>1. ~Unstarted(w.pair[t], w.task[t])
        BY <1>1 DEF Unstarted
    <2>2. Started(w, t) /\ Agrees(w.pair[t], w.task[t])
        BY <1>4, <2>1, StartedSane
    <2>3. w.pair[t].live \in BOOLEAN
        BY WorldTypes, PairTypes DEF TypeOK
    <2> QED BY <1>1, <2>2, <2>3 DEF Agrees
<1>6. Follows(w, x, t) /\ Fit(x, t) /\ x.pair[t].live /\ x.pair[t] = w.pair[t]
    BY <1>4, <1>5, TimerOff
<1> HIDE DEF x
<1>7. Spares(w, x, t)
    BY <1>6, FollowsSpares
<1>8. Orderly(x)
    BY <1>4, <1>6, <1>7, SparesOrderly
<1>9. Spares(x, w', t) /\ Calm(w', t) /\ (w'.task[t].state = "FAILED" => Unreturned(x, t))
    BY <1>2, <1>3, <1>6, <1>8, DeadlineSound
<1>10. Spares(w, w', t)
    BY <1>7, <1>9, SparesTransitive
<1>11. FailsLast(w, w', t)
    <2>1. w.now >= w.task[t].deadline
        <3>1. w.now \in Nat /\ w.now = w.task[t].deadline
            BY WorldTypes DEF TypeOK, Time, DeadlinePasses
        <3> QED BY <3>1
    <2>2. Unreturned(x, t) => Lapsed(w, t)
        BY <1>6, <2>1 DEF Unreturned, Lapsed
    <2> QED BY <1>9, <2>2, LapsedEnds
<1>12. \A y \in Task : TaskOK(w, y)
    BY DEF AllCalm, Calm
<1> QED BY <1>9, <1>10, <1>11, <1>12, SparesAllCalm, SparesFail

-----------------------------------------------------------------------------
(* The events of one service *)

\* No run goes on in a closed service without leave.
LEMMA Allowed ==
    ASSUME NEW u, WorldOK(u), NEW lost, \A x \in Task : TaskOK(u, x) /\ Exposed(u, x, {}, lost),
           NEW n \in Server
    PROVE  ServiceInv(u.svc[n], u.now)
<1> DEFINE s == u.svc[n]
<1>1. s \in Service /\ ServiceCore(s, u.now) /\ DispatchArmed(s)
    BY DEF WorldOK, NodeOK
<1>2. ASSUME s.completion
      PROVE  s.available \/ ImmuneRun(s)
    <2> DEFINE x == s.current.task
    <2>1. s.hasCurrent /\ x \in s.known
        BY <1>1, <1>2 DEF ServiceCore, CompletionTimely, CurrentSane
    <2>2. x \in Task /\ Runs(s, x)
        BY <1>1, <2>1 DEF Service, Runs
    <2> HIDE DEF x, s
    <2>3. TaskOK(u, x) /\ Exposed(u, x, {}, lost) /\ Runs(u.svc[n], x)
        BY <2>2 DEF s
    <2> DEFINE g == IF u.svc[n].runningRecovery THEN 1 ELSE 0
    <2>4. g \in Generation /\ n = NodeOf(u, x, g) /\ u.pair[x].stage[g] = "RUNNING" /\ Sane(u, x)
        BY <2>2, <2>3, RunOf
    <2>5. u.svc[n].available \/ (g = 1 /\ u.pair[x].immune)
        BY <2>3, <2>4 DEF Exposed
    <2>6. ASSUME g = 1, u.pair[x].immune
          PROVE  ImmuneRun(s)
        <3>1. s.runningRecovery
            BY <2>6 DEF s
        <3>2. s.owner = x
            BY <1>1, <2>2, <3>1 DEF ServiceCore, SlotOwned, Runs
        <3>3. s.immune <=> u.pair[x].immune
            BY <2>2, <2>4, <3>2 DEF Sane, Places, PlacesAt, s
        <3> QED BY <2>6, <3>1, <3>3 DEF ImmuneRun
    <2> QED BY <2>5, <2>6 DEF s
<1> QED BY <1>1, <1>2 DEF ServiceInv, CompletionAllowed

LEMMA CalmAllowed ==
    ASSUME NEW u, AllCalm(u), NEW n \in Server
    PROVE  ServiceInv(u.svc[n], u.now)
<1>1. WorldOK(u) /\ \A x \in Task : TaskOK(u, x) /\ Exposed(u, x, {}, {})
    BY DEF AllCalm, Calm
<1> QED BY <1>1, Allowed

LEMMA TaskSlotPuts ==
    ASSUME NEW u, WorldOK(u), NEW t \in Task, NEW a \in TaskRuntime, NEW svc, Serves(u, svc, {t}),
           NEW v, v = [u EXCEPT !.svc = svc, !.task = [u.task EXCEPT ![t] = a]]
    PROVE  Puts(u, v, t, a, u.pair[t], u.assigned[t], u.recovering[t], svc)
<1>1. /\ u \in World /\ u.ok = TRUE /\ u.pair[t] \in Pair
      /\ u.assigned[t] \in Server \cup {NoNode} /\ u.recovering[t] \in Server \cup {NoNode}
      /\ u.pair = [u.pair EXCEPT ![t] = u.pair[t]]
      /\ u.assigned = [u.assigned EXCEPT ![t] = u.assigned[t]]
      /\ u.recovering = [u.recovering EXCEPT ![t] = u.recovering[t]]
    BY WorldTypes DEF WorldOK
<1> DEFINE task == [u.task EXCEPT ![t] = a]
<1>2. v = [u EXCEPT !.svc = svc, !.task = task]
    OBVIOUS
<1> HIDE DEF task
<1>3. /\ Shaped(v) /\ v.now = u.now /\ v.ok = u.ok /\ v.ended = u.ended /\ v.dead = u.dead
      /\ v.svc = svc /\ v.task = task /\ v.pair = u.pair
      /\ v.assigned = u.assigned /\ v.recovering = u.recovering
    <2>1. u \in World
        BY DEF WorldOK
    <2> QED BY <1>2, <2>1 DEF World, Shaped
<1> QED BY <1>1, <1>3 DEF task, Puts, Sets

\* A task whose input has arrived is queued at its host.
Submitted(u, v, t, r) ==
    /\ \E a \in TaskRuntime :
         /\ a.state = "QUEUED" /\ a.timer = u.task[t].timer
         /\ Puts(u, v, t, a, u.pair[t], u.assigned[t], u.recovering[t],
                 [u.svc EXCEPT ![HostNode[t]] = r])
    /\ r.owner = u.svc[HostNode[t]].owner /\ (Runs(r, t) <=> Runs(u.svc[HostNode[t]], t))

LEMMA SubmittedPuts ==
    ASSUME NEW u, AllCalm(u), NEW t \in Task, u.task[t].state = "INPUT_TRANSFERRING",
           NEW r, r = SubmitTask(u.svc[HostNode[t]], t, WorkOf[t], u.now),
           NEW v, v = [u EXCEPT !.svc[HostNode[t]] = r, !.task[t].state = "QUEUED"]
    PROVE  Submitted(u, v, t, r)
<1> DEFINE h == HostNode[t]
           s == u.svc[h]
           a == [u.task[t] EXCEPT !.state = "QUEUED"]
<1>1. WorldOK(u) /\ TaskOK(u, t)
    BY DEF AllCalm, Calm
<1>2. h \in Server /\ WorkOf[t] \in Work
    BY NodeAssumption, WorkAssumption
<1>3. s \in Service /\ s.running /\ u.now \in Time /\ u.task[t] \in TaskRuntime
    BY <1>1, <1>2, WorldTypes DEF WorldOK, NodeOK
<1>4. t \notin s.known
    <2>1. Unstarted(u.pair[t], u.task[t])
        BY <1>1, QueuedUnstarted
    <2> QED BY <1>1, <1>2, <2>1, UnstartedPlaces
<1>5. ServiceInv(s, u.now)
    BY <1>2, CalmAllowed
<1> HIDE DEF h, s
<1>6. r = SubmitTask(s, t, WorkOf[t], u.now)
    BY DEF h, s
<1>7. r \in Service /\ ServiceInv(r, u.now)
    BY <1>2, <1>3, <1>4, <1>5, <1>6, SubmitTaskKeeps
<1>8. /\ r.running = s.running /\ r.available = s.available
      /\ r.hasCurrent = s.hasCurrent /\ r.current = s.current
      /\ r.owner = s.owner /\ r.runningRecovery = s.runningRecovery
      /\ \A x \in Task : x # t => Unmoved(r, s, x)
    <2>1. LET y == SubmitTask(s, t, WorkOf[t], u.now) IN
          /\ y.running = s.running /\ y.available = s.available
          /\ y.hasCurrent = s.hasCurrent /\ y.current = s.current
          /\ y.owner = s.owner /\ y.runningRecovery = s.runningRecovery
          /\ \A x \in Task : x # t => Unmoved(y, s, x)
        BY <1>3, SubmitTaskUnmoved
    <2> QED BY <1>6, <2>1, Zenon
<1>9. Serves(u, [u.svc EXCEPT ![h] = r], {t})
    BY <1>1, <1>2, <1>3, <1>7, <1>8, ServesOne DEF ServiceInv, s
<1>10. a \in TaskRuntime /\ a.state = "QUEUED" /\ a.timer = u.task[t].timer
    BY <1>3 DEF TaskRuntime, TaskState
<1>11. v = [u EXCEPT !.svc = [u.svc EXCEPT ![h] = r], !.task = [u.task EXCEPT ![t] = a]]
    BY DEF h
<1> HIDE DEF a
<1>12. Puts(u, v, t, a, u.pair[t], u.assigned[t], u.recovering[t], [u.svc EXCEPT ![h] = r])
    BY <1>1, <1>9, <1>10, <1>11, TaskSlotPuts
<1>13. Runs(r, t) <=> Runs(s, t)
    BY <1>8 DEF Runs
<1> QED BY <1>8, <1>10, <1>12, <1>13 DEF h, s, Submitted

LEMMA InputArrivesKeeps ==
    ASSUME AllCalm(w), NEW t \in Task, InputArrives(t)
    PROVE  AllCalm(w') /\ AllFailLast(w, w')
<1> DEFINE h == HostNode[t]
           r == SubmitTask(w.svc[h], t, WorkOf[t], w.now)
           svc == [w.svc EXCEPT ![h] = r]
<1>1. WorldOK(w) /\ TaskOK(w, t) /\ Exposed(w, t, {}, {}) /\ w \in World /\ h \in Server
    BY NodeAssumption DEF AllCalm, Calm, WorldOK
<1>2. Unstarted(w.pair[t], w.task[t]) /\ w.task[t].state = "INPUT_TRANSFERRING"
    BY <1>1, QueuedUnstarted DEF InputArrives
<1>3. w' = [w EXCEPT !.svc[h] = r, !.task[t].state = "QUEUED"]
    BY DEF InputArrives
<1>3a. Submitted(w, w', t, r)
    BY <1>2, <1>3, SubmittedPuts
<1> HIDE DEF r
<1>4. PICK a \in TaskRuntime :
        /\ a.state = "QUEUED" /\ a.timer = w.task[t].timer
        /\ Puts(w, w', t, a, w.pair[t], w.assigned[t], w.recovering[t], svc)
    BY <1>3a DEF Submitted, svc, h
<1>5. r.owner = w.svc[h].owner /\ (Runs(r, t) <=> Runs(w.svc[h], t))
    BY <1>3a DEF Submitted, h
<1>6. /\ svc[h] = r /\ \A m \in Server : m # h => svc[m] = w.svc[m]
    BY <1>1, WorldTypes
<1> HIDE DEF svc, h
<1>7. Settles(w, w', t, a, w.pair[t], w.assigned[t], w.recovering[t], svc, {t}) /\ Follows(w, w', t)
    BY <1>1, <1>4, PutsSettles
<1>8. /\ w'.pair[t] = w.pair[t] /\ w'.task[t] = a /\ w'.svc = svc /\ w'.dead = w.dead
      /\ w'.assigned[t] = w.assigned[t] /\ w'.recovering[t] = w.recovering[t]
    BY <1>7 DEF Settles
<1>9. Unstarted(w'.pair[t], w'.task[t])
    BY <1>2, <1>4, <1>8 DEF Unstarted
<1>10. w.pair[t] = NoPair /\ NoPair.stage[0] = "ABSENT" /\ NoPair.stage[1] = "ABSENT" /\ NoPair.node = NoNode
       /\ ~NoPair.live
    BY <1>2 DEF Unstarted, NoPair, Generation
<1>11. Places(w', t)
    <2>1. \A m \in Server :
            LET s == w.svc[m] IN
            /\ t \in s.known => m = h
            /\ \A i \in s.queue : i.task = t => m = h
            /\ s.owner # t
            /\ ~Runs(s, t)
        BY <1>1, <1>2, UnstartedPlaces DEF h
    <2>2. \A m \in Server :
            LET s == svc[m] IN
            /\ t \in s.known => m = h
            /\ \A i \in s.queue : i.task = t => m = h
            /\ s.owner # t
            /\ ~Runs(s, t)
        BY <1>1, <1>5, <1>6, <2>1
    <2>3. NoNode \notin Server /\ NoNode # h
        BY <1>1, NodeAssumption
    <2>4. PlacesAt(svc, NoPair, "QUEUED", t)
        BY <1>10, <2>2, <2>3 DEF PlacesAt, Held, h
    <2> QED BY <1>4, <1>8, <1>10, <2>4 DEF Places
<1>12. Ledger(w', t)
    BY <1>1, <1>8 DEF TaskOK, Ledger
<1>13. TaskOK(w', t)
    BY <1>9, <1>11, <1>12 DEF TaskOK, PairOK
<1>14. \A g \in Generation : NoPair.stage[g] = "ABSENT"
    BY <1>10 DEF Generation
<1>15. Exposed(w', t, {}, {})
    BY <1>1, <1>2, <1>8, <1>10, <1>14 DEF Exposed, Open, Held
<1>16. Timed(w', t) /\ Granted(w', t)
    BY <1>8, <1>10, <1>14 DEF Timed, Granted, Backed, Held
<1>17. FailsLast(w, w', t)
    BY <1>4, <1>8 DEF FailsLast
<1>18. \A x \in Task : TaskOK(w, x)
    BY DEF AllCalm, Calm
<1>19. AllFailLast(w, w')
    BY <1>7, <1>17, <1>18, FollowsSpares, SparesFail
<1> QED BY <1>7, <1>13, <1>15, <1>16, <1>19, FollowsAllCalm DEF Calm

\* Only services change.
Serviced(u, z, svc, T) ==
    /\ WorldOK(z) /\ Only(u, z, T) /\ z.now = u.now /\ z.dead = u.dead /\ z.svc = svc
    /\ z.task = u.task /\ z.pair = u.pair
    /\ z.assigned = u.assigned /\ z.recovering = u.recovering

LEMMA ServesServiced ==
    ASSUME NEW u, WorldOK(u), NEW T, NEW svc, Serves(u, svc, T), NEW z, z = [u EXCEPT !.svc = svc]
    PROVE  Serviced(u, z, svc, T)
<1>1. u \in World /\ u.ok /\ \A n \in Server : NodeOK(u, n)
    BY DEF WorldOK
<1>2. svc \in [Server -> Service]
    BY DEF Serves
<1>3. /\ z \in World /\ z.now = u.now /\ z.ok = u.ok /\ z.dead = u.dead /\ z.svc = svc
      /\ z.task = u.task /\ z.pair = u.pair
      /\ z.assigned = u.assigned /\ z.recovering = u.recovering
    <2>1. u \in World
        BY <1>1
    <2> QED BY <1>2, <2>1 DEF World
<1>4. \A n \in Server : NodeOK(z, n)
    BY <1>1, <1>2, <1>3 DEF Serves, NodeOK
<1>5. Only(u, z, T)
    BY <1>3 DEF Serves, Only, SameSky, Beside
<1> QED BY <1>1, <1>3, <1>4, <1>5 DEF WorldOK, Serviced

LEMMA ServicedCalm ==
    ASSUME NEW u, AllCalm(u), NEW z, NEW svc, NEW T, Serviced(u, z, svc, T), NEW x \in Task \ T
    PROVE  Calm(z, x)
<1>1. u \in World /\ Calm(u, x)
    BY DEF AllCalm, WorldOK
<1>2. Beside(u, z, x) /\ SameSky(u, z)
    BY DEF Serviced, Only
<1> QED BY <1>1, <1>2, BesideCalm

\* What the pending dispatch of s does: nothing, or y gets the slot.
Fires(r, s, now) ==
    /\ r \in Service /\ r.running /\ ServiceCore(r, now) /\ DispatchArmed(r)
    /\ r.available = s.available
    /\ \/ \A x \in Task : Unmoved(r, s, x)
       \/ /\ r.current.task \in Task /\ Gains(r, s, r.current.task)
          /\ \A x \in Task : x # r.current.task => Unmoved(r, s, x)

LEMMA DispatchFires ==
    ASSUME NEW s \in Service, NEW now \in Time, s.running, ServiceInv(s, now),
           NEW r, r = FireDispatch(s, now, 1)
    PROVE  Fires(r, s, now)
<1>1. 1 \in Nat \ {0} /\ ServiceCore(s, now)
    BY DEF ServiceInv
<1>2. r \in Service /\ ServiceInv(r, now)
    BY <1>1, FireDispatchKeeps
<1>3. /\ r.running = s.running /\ r.available = s.available
      /\ \/ \A x \in Task : Unmoved(r, s, x)
         \/ Takes(r, s, now) /\ \A x \in Task : x # r.current.task => Unmoved(r, s, x)
    BY <1>1, FireDispatchTakes
<1>4. r.hasCurrent /\ ~s.hasCurrent => s.available
    <2> DEFINE q == [s EXCEPT !.dispatch = FALSE]
    <2>1. q.available = s.available /\ q.hasCurrent = s.hasCurrent
        BY DEF Service
    <2>2. r = DispatchNextTask(q, now, 1)
        BY DEF FireDispatch
    <2> HIDE DEF q
    <2>3. CASE CanDispatch(q)
        BY <2>1, <2>3 DEF CanDispatch
    <2>4. CASE ~CanDispatch(q)
        BY <2>1, <2>2, <2>4 DEF DispatchNextTask
    <2> QED BY <2>3, <2>4
<1>5. Takes(r, s, now) => r.current.task \in Task /\ Gains(r, s, r.current.task)
    BY <1>3, <1>4 DEF Takes, Gains, Runs
<1> QED BY <1>2, <1>3, <1>5 DEF Fires, ServiceInv

\* A slot that has changed for nobody dispatches nobody.
LEMMA DispatchedIdle ==
    ASSUME NEW z, AllCalm(z), NEW n \in Server, NEW pick, NEW v, v = Dispatched(z, n, pick)
    PROVE  v = z
<1> DEFINE s == z.svc[n]
           y == s.current.task
<1>1. CASE ~s.hasCurrent
    BY <1>1 DEF Dispatched
<1>2. CASE s.hasCurrent
    <2>1. WorldOK(z) /\ s \in Service /\ ServiceCore(s, z.now)
        BY DEF AllCalm, WorldOK, NodeOK
    <2>2. y \in Task /\ Runs(s, y)
        BY <1>2, <2>1 DEF ServiceCore, CurrentSane, Service, Runs
    <2> HIDE DEF y
    <2>3. TaskOK(z, y)
        BY <2>2 DEF AllCalm, Calm
    <2> DEFINE g == IF s.runningRecovery THEN 1 ELSE 0
    <2>4. Sane(z, y)
        BY <2>1, <2>2, <2>3, RunOf
    <2>5. z.task[y].state # "QUEUED"
        BY <2>4 DEF Sane, Attempts
    <2> QED BY <2>5 DEF Dispatched, y
<1> QED BY <1>1, <1>2

\* The task that the dispatch gives the slot begins.
LEMMA FiredBegins ==
    ASSUME NEW u, AllCalm(u), NEW n \in Server, NEW r, Fires(r, u.svc[n], u.now),
           NEW y \in Task, y = r.current.task, Gains(r, u.svc[n], y),
           \A x \in Task : x # y => Unmoved(r, u.svc[n], x),
           NEW z, z = [u EXCEPT !.svc[n] = r],
           NEW pick \in [Task -> Server \cup {NoNode}], NEW v, v = Dispatched(z, n, pick)
    PROVE  AllCalm(v) /\ AllFailLast(u, v)
<1> DEFINE svc == [u.svc EXCEPT ![n] = r]
<1>1. WorldOK(u) /\ Orderly(u) /\ Calm(u, y) /\ u.svc \in [Server -> Service]
    BY AllCalmOrderly, WorldTypes DEF AllCalm, WorldOK
<1>2. Serves(u, svc, {y})
    BY <1>1, ServesOne DEF Fires
<1>3. svc[n] = r /\ \A m \in Server \ {n} : svc[m] = u.svc[m]
    BY <1>1
<1>4. z = [u EXCEPT !.svc = svc]
    OBVIOUS
<1> HIDE DEF svc
<1>5. Serviced(u, z, svc, {y})
    BY <1>1, <1>2, <1>4, ServesServiced
<1>6. /\ WorldOK(z) /\ Only(u, z, {y}) /\ z.now = u.now /\ z.dead = u.dead /\ z.svc = svc
      /\ z.task = u.task /\ z.pair = u.pair
      /\ z.assigned = u.assigned /\ z.recovering = u.recovering
    BY <1>5 DEF Serviced
<1>7. TaskOK(u, y) /\ Exposed(u, y, {}, {}) /\ Gains(z.svc[n], u.svc[n], y)
    BY <1>1, <1>3, <1>6 DEF Calm
<1>8. Waits(z, y, n)
    <2>1. /\ z.task[y] = u.task[y] /\ z.pair[y] = u.pair[y]
          /\ z.assigned[y] = u.assigned[y] /\ z.recovering[y] = u.recovering[y]
          /\ \A m \in Server \ {n} : z.svc[m] = u.svc[m]
        BY ONLY <1>3, <1>6
    <2> QED BY ONLY <1>7, <2>1, TakenWaits, n \in Server, y \in Task
<1>9. ResultNode[y] \notin z.dead
    BY <1>6, <1>7, <1>8 DEF Waits, Exposed
<1>10. Runs(z.svc[n], y)
    BY <1>7 DEF Gains
<1>11. Follows(z, v, y) /\ Calm(v, y) /\ v.task[y].state = "RUNNING"
    <2>1. WorldOK(z)
        BY <1>6
    <2>2. \A x : x = Dispatched(z, n, pick) =>
            Follows(z, x, y) /\ Calm(x, y) /\ x.task[y].state = "RUNNING"
        BY ONLY <1>8, <1>9, <1>10, <2>1, DispatchedBegins, n \in Server, y \in Task,
                pick \in [Task -> Server \cup {NoNode}]
    <2> QED BY <2>2
<1>12. Follows(u, v, y)
    BY <1>6, <1>11, OnlyTransitive DEF Follows
<1>13. FailsLast(u, v, y) /\ \A x \in Task : TaskOK(u, x)
    BY <1>11 DEF FailsLast, AllCalm, Calm
<1> QED BY <1>11, <1>12, <1>13, FollowsAllCalm, FollowsSpares, SparesFail

LEMMA DispatchKeeps ==
    ASSUME TypeOK, AllCalm(w), NEW n \in Server, Dispatch(n)
    PROVE  AllCalm(w') /\ AllFailLast(w, w')
<1> DEFINE r == FireDispatch(w.svc[n], w.now, 1)
           z == [w EXCEPT !.svc[n] = r]
<1>1. PICK pick \in Picks : w' = Dispatched(z, n, pick)
    BY DEF Dispatch
<1>2. pick \in [Task -> Server \cup {NoNode}]
    BY PicksKnown
<1>3. WorldOK(w) /\ w.svc[n] \in Service /\ w.svc[n].running /\ w.now \in Time
    BY WorldTypes DEF AllCalm, WorldOK, NodeOK
<1>4. ServiceInv(w.svc[n], w.now)
    BY CalmAllowed
<1>5. Fires(r, w.svc[n], w.now)
    BY <1>3, <1>4, DispatchFires
<1> HIDE DEF r
<1>6. CASE \A x \in Task : Unmoved(r, w.svc[n], x)
    <2> DEFINE svc == [w.svc EXCEPT ![n] = r]
    <2>1. Serves(w, svc, {})
        BY <1>3, <1>5, <1>6, ServesOne DEF Fires
    <2>2. z = [w EXCEPT !.svc = svc]
        OBVIOUS
    <2> HIDE DEF svc, z
    <2>3. Serviced(w, z, svc, {})
        BY <1>3, <2>1, <2>2, ServesServiced
    <2>4. AllCalm(z)
        BY <2>3, ServicedCalm DEF AllCalm, Serviced
    <2>5. w' = z
        BY <1>1, <2>4, DispatchedIdle
    <2>6. AllFailLast(w, z)
        BY <2>3, SameTasksFail DEF Serviced, AllCalm, Calm
    <2> QED BY <2>4, <2>5, <2>6
<1>7. CASE ~\A x \in Task : Unmoved(r, w.svc[n], x)
    <2>1. /\ r.current.task \in Task /\ Gains(r, w.svc[n], r.current.task)
          /\ \A x \in Task : x # r.current.task => Unmoved(r, w.svc[n], x)
        BY <1>5, <1>7 DEF Fires
    <2> QED BY <1>1, <1>2, <1>5, <2>1, FiredBegins
<1> QED BY <1>6, <1>7

LEMMA CompletesKeeps ==
    ASSUME TypeOK, AllCalm(w), NEW n \in Server, Completes(n)
    PROVE  AllCalm(w') /\ AllFailLast(w, w')
<1> DEFINE s == w.svc[n]
           t == s.current.task
<1>1. PICK pick \in Picks : w' = Complete(w, n, FALSE, pick)
    BY DEF Completes
<1>2. pick \in [Task -> Server \cup {NoNode}]
    BY PicksKnown
<1>3. Orderly(w) /\ s.running /\ s.completion /\ CompletionDue(s, w.now)
    BY AllCalmOrderly DEF AllCalm, WorldOK, NodeOK, Completes
<1>4. CompletionLegal(s, w.now)
    <2>1. CompletionAllowed(s)
        BY CalmAllowed DEF ServiceInv
    <2> QED BY <1>3, <2>1 DEF CompletionAllowed, CompletionLegal
<1> HIDE DEF t
<1>5. t \in Task /\ Spares(w, w', t) /\ Returned(w, w', t)
    BY <1>1, <1>2, <1>3, <1>4, CompleteSound DEF t
<1>6. Calm(w, t)
    BY <1>5 DEF AllCalm
<1>7. Calm(w', t)
    BY <1>5, <1>6 DEF Calm, Returned
<1>8. w'.task[t].state # "FAILED"
    BY <1>5, LiveState DEF Returned
<1>9. FailsLast(w, w', t) /\ \A x \in Task : TaskOK(w, x)
    BY <1>8 DEF FailsLast, AllCalm, Calm
<1> QED BY <1>5, <1>7, <1>9, SparesAllCalm, SparesFail

-----------------------------------------------------------------------------
(* A fault batch: nodes come back and go down *)

\* In the middle of a batch, before what is gone has struck.
Struck(u, closed, lost) ==
    WorldOK(u) /\ \A x \in Task : TaskOK(u, x) /\ Timed(u, x) /\ Exposed(u, x, closed, lost)

\* v has of every task what u has; nodes may have come back or gone down.
Shifts(u, v, svc, dead) ==
    /\ WorldOK(v) /\ v.now = u.now /\ v.svc = svc /\ v.dead = dead
    /\ \A x \in Task : Beside(u, v, x)

LEMMA ShiftsIs ==
    ASSUME NEW u \in World, u.ok, NEW svc \in [Server -> Service], NEW dead \in SUBSET Sat,
           \A n \in Server :
             /\ svc[n].running /\ ServiceCore(svc[n], u.now) /\ DispatchArmed(svc[n])
             /\ n \in dead => ~svc[n].available
             /\ \A x \in Task : Unmoved(svc[n], u.svc[n], x),
           NEW v, v = [u EXCEPT !.svc = svc, !.dead = dead]
    PROVE  Shifts(u, v, svc, dead)
<1>1. /\ v \in World /\ v.now = u.now /\ v.ok = u.ok /\ v.dead = dead /\ v.svc = svc
      /\ v.task = u.task /\ v.pair = u.pair
      /\ v.assigned = u.assigned /\ v.recovering = u.recovering
    BY DEF World
<1>2. \A n \in Server : NodeOK(v, n)
    BY <1>1 DEF NodeOK
<1>3. \A x \in Task : Beside(u, v, x)
    BY <1>1 DEF Beside
<1> QED BY <1>1, <1>2, <1>3 DEF Shifts, WorldOK

LEMMA ShiftsKeeps ==
    ASSUME NEW u, NEW closed, NEW lost, Struck(u, closed, lost), NEW v, NEW svc, NEW dead,
           Shifts(u, v, svc, dead),
           u.dead \subseteq dead, dead \ lost \subseteq u.dead \ lost,
           \A n \in Server \ closed : u.svc[n].available => svc[n].available
    PROVE  Struck(v, closed, lost)
<1>1. WorldOK(v) /\ v.now = u.now /\ v.svc = svc /\ v.dead = dead /\ \A x \in Task : Beside(u, v, x)
    BY DEF Shifts
<1>2. ASSUME NEW x \in Task
      PROVE  TaskOK(v, x) /\ Timed(v, x) /\ Exposed(v, x, closed, lost)
    <2>1. TaskOK(u, x) /\ Timed(u, x) /\ Exposed(u, x, closed, lost) /\ Beside(u, v, x)
        BY <1>1 DEF Struck
    <2>2. TaskOK(v, x) /\ Timed(v, x)
        BY <2>1, BesideKeeps
    <2> DEFINE p == u.pair[x]
    <2>3. v.pair[x] = p /\ v.task[x] = u.task[x]
        BY <2>1 DEF Beside
    <2>4. \A g \in Generation : NodeOf(v, x, g) = NodeOf(u, x, g)
        BY <2>3 DEF NodeOf
    <2>5. \A g \in Generation : p.stage[g] = "RUNNING" => NodeOf(u, x, g) \in Server
        <3> SUFFICES ASSUME NEW g \in Generation, p.stage[g] = "RUNNING"
                     PROVE  NodeOf(u, x, g) \in Server
            OBVIOUS
        <3>1. HostNode[x] \in Server
            BY NodeAssumption
        <3>2. p.node \in Server \cup {NoNode}
            BY WorldTypes, PairTypes DEF Struck, WorldOK
        <3>3. p.stage[1] = "ABSENT" <=> p.node = NoNode
            BY <2>1 DEF TaskOK, Places, PlacesAt
        <3> QED BY <3>1, <3>2, <3>3 DEF NodeOf, Generation
    <2>6. \A g \in Generation : p.stage[g] = "RUNNING" =>
              \/ v.svc[NodeOf(u, x, g)].available \/ (g = 1 /\ p.immune)
              \/ NodeOf(u, x, g) \in closed
        BY <1>1, <2>1, <2>5 DEF Exposed
    <2>7. v.dead \ lost \subseteq u.dead \ lost
        BY <1>1
    <2>8. Exposed(v, x, closed, lost)
        BY <2>1, <2>3, <2>4, <2>6, <2>7 DEF Exposed
    <2> QED BY <2>2, <2>8
<1> QED BY <1>1, <1>2 DEF Struck

\* Nothing but nodes that have come back.
Reopens(u, v) ==
    /\ v.now = u.now /\ v.dead = u.dead /\ \A x \in Task : Beside(u, v, x)
    /\ \A n \in Server : u.svc[n].available => v.svc[n].available

LEMMA ReopenSound ==
    ASSUME NEW u, AllCalm(u), NEW recovered, recovered \cap u.dead = {},
           NEW v, v = Reopen(u, recovered)
    PROVE  Struck(v, {}, {}) /\ Reopens(u, v)
<1> DEFINE svc == [n \in Server |-> IF n \in recovered THEN SetComputeAvailable(u.svc[n], TRUE)
                                    ELSE u.svc[n]]
<1>1. WorldOK(u) /\ u \in World /\ u.ok /\ u.now \in Time /\ u.dead \in SUBSET Sat
    BY WorldTypes DEF AllCalm, WorldOK
<1>2. ASSUME NEW n \in Server
      PROVE  /\ svc[n] \in Service /\ svc[n].running /\ ServiceCore(svc[n], u.now) /\ DispatchArmed(svc[n])
             /\ n \in u.dead => ~svc[n].available
             /\ u.svc[n].available => svc[n].available
             /\ \A x \in Task : Unmoved(svc[n], u.svc[n], x)
    <2> DEFINE s == u.svc[n]
    <2>1. /\ s \in Service /\ s.running /\ ServiceCore(s, u.now) /\ DispatchArmed(s)
          /\ n \in u.dead => ~s.available
        BY <1>1 DEF WorldOK, NodeOK
    <2>2. ServiceInv(s, u.now)
        BY CalmAllowed
    <2>3. CASE n \notin recovered
        BY <2>1, <2>3, UnmovedReflexive
    <2>4. CASE n \in recovered
        <3> DEFINE r == SetComputeAvailable(s, TRUE)
        <3>1. r \in Service /\ ServiceInv(r, u.now)
            BY <1>1, <2>1, <2>2, OpenKeeps
        <3>2. TRUE \in BOOLEAN
            OBVIOUS
        <3>3. r.running = s.running /\ r.available = TRUE /\ \A x \in Task : Unmoved(r, s, x)
            BY <2>1, <3>2, SetComputeAvailableUnmoved
        <3>4. svc[n] = r
            BY <2>4
        <3> HIDE DEF r, svc, s
        <3>5. n \notin u.dead
            BY <2>4
        <3> QED BY <2>1, <3>1, <3>3, <3>4, <3>5 DEF ServiceInv, s
    <2> QED BY <2>3, <2>4
<1>3. v = [u EXCEPT !.svc = svc, !.dead = u.dead]
    <2>1. v = [u EXCEPT !.svc = svc]
        BY DEF Reopen
    <2> HIDE DEF svc
    <2> QED BY <1>1, <2>1 DEF World
<1>4. svc \in [Server -> Service]
    <2>1. svc = [n \in Server |-> svc[n]]
        OBVIOUS
    <2> QED BY <1>2, <2>1
<1> HIDE DEF svc
<1>5. Shifts(u, v, svc, u.dead)
    BY <1>1, <1>2, <1>3, <1>4, ShiftsIs
<1>6. Struck(u, {}, {})
    BY DEF AllCalm, Calm, Struck
<1>7. Struck(v, {}, {})
    BY <1>2, <1>5, <1>6, ShiftsKeeps
<1>8. Reopens(u, v)
    BY <1>2, <1>5 DEF Shifts, Reopens
<1> QED BY <1>7, <1>8

\* Nodes have gone down, and attempts that ran have their results.
Ebbs(u, v) ==
    /\ v.now = u.now
    /\ \A n \in Server : v.svc[n].available => u.svc[n].available
    /\ \A x \in Task : Advances(u, v, x)

LEMMA EbbsTransitive ==
    ASSUME NEW u, NEW v, NEW z, Ebbs(u, v), Ebbs(v, z)
    PROVE  Ebbs(u, z)
<1>1. \A x \in Task : Advances(u, z, x)
    BY AdvancesTransitive DEF Ebbs
<1> QED BY <1>1 DEF Ebbs

LEMMA EbbsReflexive ==
    ASSUME NEW u
    PROVE  Ebbs(u, u)
BY DEF Ebbs, Advances

Downs(u, v, closed, lost, gone) ==
    Struck(v, closed, lost) /\ v.dead = u.dead \cup gone /\ Ebbs(u, v)

\* A run that is due when its node goes down completes first, and its slot is
\* left empty.
LEMMA DueCompletes ==
    ASSUME NEW u, NEW closed, NEW lost, Struck(u, closed, lost), NEW n \in Server, n \notin u.dead,
           CompletionLegal(u.svc[n], u.now), NEW pick, NEW v, v = Complete(u, n, TRUE, pick)
    PROVE  Downs(u, v, closed, lost, {})
<1>1. WorldOK(u) /\ \A x \in Task : TaskOK(u, x) /\ Timed(u, x) /\ Exposed(u, x, closed, lost)
    BY DEF Struck
<1> DEFINE t == u.svc[n].current.task
<1>2. \A defer \in BOOLEAN : v = Complete(u, n, defer, pick) => Completing(u, v, n, t, defer, pick)
    BY <1>1, CompleteIs
<1>3. Completing(u, v, n, t, TRUE, pick)
    BY <1>2, Zenon
<1> HIDE DEF t
<1>4. PICK z, r :
        /\ t \in Task /\ Runs(u.svc[n], t)
        /\ Vacates(r, u.svc[n], t, u.now) /\ Passes(u, z, n, r, t)
        /\ v = Dispatched(z, n, pick)
        /\ TRUE => ~r.hasCurrent
    BY <1>3, Zenon DEF Completing
<1>5. /\ WorldOK(z) /\ SameSky(u, z) /\ z.now = u.now /\ z.svc[n] = r
      /\ \A x \in Task \ {t} : Beside(u, z, x) \/ Gains(r, u.svc[n], x)
      /\ Returned(u, z, t)
    BY <1>4 DEF Passes
<1>6. v = z
    BY <1>4, <1>5 DEF Dispatched
<1>7. \A x \in Task \ {t} : Beside(u, z, x)
    BY <1>4, <1>5 DEF Gains, Runs
<1>8. ASSUME NEW x \in Task
      PROVE  TaskOK(z, x) /\ Timed(z, x) /\ Exposed(z, x, closed, lost)
    <2>1. CASE x = t
        BY <1>1, <1>4, <1>5, <2>1 DEF Returned
    <2>2. CASE x # t
        <3>1. Beside(u, z, x) /\ TaskOK(u, x) /\ Timed(u, x) /\ Exposed(u, x, closed, lost)
            BY <1>1, <1>7, <2>2
        <3>2. TaskOK(z, x) /\ Timed(z, x)
            BY <3>1, BesideKeeps
        <3>3. u \in World /\ PairOK(u, x) /\ Places(u, x)
            BY <1>1, <3>1 DEF WorldOK, TaskOK
        <3>4. Exposed(z, x, closed, lost)
            BY <1>5, <3>1, <3>3, BesideExposed
        <3> QED BY <3>2, <3>4
    <2> QED BY <2>1, <2>2
<1>9. \A x \in Task : Advances(u, z, x)
    <2>1. Advances(u, z, t)
        BY <1>5 DEF Returned
    <2> QED BY <1>7, <2>1, BesideAdvances
<1>10. Ebbs(u, z)
    BY <1>5, <1>9 DEF Ebbs, SameSky
<1> QED BY <1>5, <1>6, <1>8, <1>10 DEF Struck, SameSky, Downs

\* Then the node is closed, for good if it is a satellite that is lost.
LEMMA NodeDown ==
    ASSUME NEW u, NEW closed, NEW lost, Struck(u, closed, lost), NEW n \in closed, n \in Sat,
           NEW gone, gone \subseteq {n} \cap lost,
           NEW v, v = [u EXCEPT !.dead = @ \cup gone,
                                !.svc = [m \in Server |-> IF m = n THEN SetComputeAvailable(@[m], FALSE)
                                                          ELSE @[m]]]
    PROVE  Downs(u, v, closed, lost, gone) /\ (n \in Server => ~v.svc[n].available)
<1> DEFINE svc == [m \in Server |-> IF m = n THEN SetComputeAvailable(u.svc[m], FALSE) ELSE u.svc[m]]
           dead == u.dead \cup gone
<1>1. WorldOK(u) /\ u \in World /\ u.ok /\ u.now \in Time /\ dead \in SUBSET Sat
    BY WorldTypes DEF Struck, WorldOK
<1>2. ASSUME NEW m \in Server
      PROVE  /\ svc[m] \in Service /\ svc[m].running /\ ServiceCore(svc[m], u.now) /\ DispatchArmed(svc[m])
             /\ m \in dead => ~svc[m].available
             /\ m # n => svc[m].available = u.svc[m].available
             /\ m = n => ~svc[m].available
             /\ \A x \in Task : Unmoved(svc[m], u.svc[m], x)
    <2> DEFINE s == u.svc[m]
    <2>1. /\ s \in Service /\ s.running /\ ServiceCore(s, u.now) /\ DispatchArmed(s)
          /\ m \in u.dead => ~s.available
        BY <1>1 DEF WorldOK, NodeOK
    <2>2. CASE m # n
        BY <2>1, <2>2, UnmovedReflexive
    <2>3. CASE m = n
        <3> DEFINE r == SetComputeAvailable(s, FALSE)
        <3>1. r \in Service /\ ServiceCore(r, u.now) /\ DispatchArmed(r) /\ r.available = FALSE
            BY <1>1, <2>1, CloseKeeps
        <3>2. \A available \in BOOLEAN :
                LET q == SetComputeAvailable(s, available) IN
                q.running = s.running /\ \A x \in Task : Unmoved(q, s, x)
            BY <2>1, SetComputeAvailableUnmoved
        <3>3. FALSE \in BOOLEAN
            OBVIOUS
        <3>4. r.running = s.running /\ \A x \in Task : Unmoved(r, s, x)
            BY <3>2, <3>3, Zenon
        <3>5. svc[m] = r
            BY <2>3
        <3> HIDE DEF r, svc, s
        <3> QED BY <2>1, <2>3, <3>1, <3>4, <3>5 DEF s
    <2> QED BY <2>2, <2>3
<1>3. v = [u EXCEPT !.svc = svc, !.dead = dead]
    BY <1>1 DEF World
<1>4. svc \in [Server -> Service]
    <2>1. svc = [m \in Server |-> svc[m]]
        OBVIOUS
    <2> QED BY <1>2, <2>1
<1> HIDE DEF svc
<1>5. Shifts(u, v, svc, dead)
    BY <1>1, <1>2, <1>3, <1>4, ShiftsIs
<1>6. /\ u.dead \subseteq dead /\ dead \ lost \subseteq u.dead \ lost
      /\ \A m \in Server \ closed : u.svc[m].available => svc[m].available
    BY <1>2
<1>7. Struck(v, closed, lost)
    BY <1>5, <1>6, ShiftsKeeps
<1>8. Ebbs(u, v) /\ (n \in Server => ~v.svc[n].available)
    <2>1. v.svc = svc /\ v.now = u.now /\ \A x \in Task : Beside(u, v, x)
        BY <1>5 DEF Shifts
    <2>2. \A m \in Server : (v.svc[m].available => u.svc[m].available) /\ (m = n => ~v.svc[m].available)
        BY <1>2, <2>1
    <2> QED BY <2>1, <2>2, BesideAdvances DEF Ebbs
<1> QED BY <1>5, <1>7, <1>8 DEF Shifts, Downs

\* What is lost when c starts.
Gone(c) == IF c.kind = "satellite" THEN {c.node} ELSE {}

LEMMA TakeDownSound ==
    ASSUME NEW u, NEW closed, NEW lost, Struck(u, closed, lost), NEW c, c.node \in closed, c.node \in Sat,
           Gone(c) \subseteq lost, c.node \notin u.dead,
           NEW pick, NEW v, v = TakeDown(u, c, pick)
    PROVE  Downs(u, v, closed, lost, Gone(c)) /\ (c.node \in Server => ~v.svc[c.node].available)
<1> DEFINE n == c.node
           z == IF n \in Server /\ Due(u.svc[n], u.now) THEN Complete(u, n, TRUE, pick) ELSE u
<1>1. Downs(u, z, closed, lost, {})
    <2>1. CASE n \in Server /\ Due(u.svc[n], u.now)
        <3>1. CompletionLegal(u.svc[n], u.now)
            BY <2>1 DEF Due
        <3>2. z = Complete(u, n, TRUE, pick)
            BY <2>1
        <3> HIDE DEF z, n
        <3> QED BY <2>1, <3>1, <3>2, DueCompletes DEF n
    <2>2. CASE ~(n \in Server /\ Due(u.svc[n], u.now))
        BY <2>2, EbbsReflexive DEF Downs
    <2> QED BY <2>1, <2>2
<1>2. v = [z EXCEPT !.dead = IF c.kind = "satellite" THEN @ \cup {n} ELSE @,
                    !.svc = [m \in Server |-> IF m = n THEN SetComputeAvailable(@[m], FALSE) ELSE @[m]]]
    BY DEF TakeDown
<1> HIDE DEF z
<1>3. v = [z EXCEPT !.dead = @ \cup Gone(c),
                    !.svc = [m \in Server |-> IF m = n THEN SetComputeAvailable(@[m], FALSE) ELSE @[m]]]
    <2>1. (IF c.kind = "satellite" THEN z.dead \cup {n} ELSE z.dead) = z.dead \cup Gone(c)
        BY DEF Gone
    <2> QED BY <1>2, <2>1
<1>4. n \in closed /\ n \in Sat /\ Gone(c) \subseteq {n} \cap lost
    BY DEF Gone
<1> HIDE DEF n
<1>5. Downs(z, v, closed, lost, Gone(c)) /\ (n \in Server => ~v.svc[n].available)
    <2>1. Struck(z, closed, lost)
        BY <1>1 DEF Downs
    <2>2. ASSUME NEW gone, gone = Gone(c), NEW x,
                 x = [z EXCEPT !.dead = @ \cup gone,
                               !.svc = [m \in Server |-> IF m = n THEN SetComputeAvailable(@[m], FALSE)
                                                         ELSE @[m]]]
          PROVE  Downs(z, x, closed, lost, gone) /\ (n \in Server => ~x.svc[n].available)
        BY ONLY <1>4, <2>1, <2>2, NodeDown
    <2> QED BY <1>3, <2>2
<1>6. Ebbs(u, v)
    BY <1>1, <1>5, EbbsTransitive DEF Downs
<1> QED BY <1>1, <1>5, <1>6 DEF Downs, n

\* The faults of a batch that starts in u.
Batch(u, started) ==
    /\ \E size \in Nat : DOMAIN started = 1..size
    /\ \A i \in DOMAIN started : started[i].node \in Sat \ u.dead
    /\ \A i, j \in DOMAIN started : i # j => started[i].node # started[j].node

Nodes(started) == {started[i].node : i \in DOMAIN started}

\* The node of c is down,
Felled(v, c) ==
    /\ c.node \in Server => ~v.svc[c.node].available
    /\ c.kind = "satellite" => c.node \in v.dead

\* and so are those of the faults in S.
Closes(v, started, S) == \A i \in S : Felled(v, started[i])

LEMMA ClosesOn ==
    ASSUME NEW v, NEW y, NEW started, NEW S, NEW c, Closes(v, started, S), Ebbs(v, y),
           y.dead = v.dead \cup Gone(c), c.node \in Server => ~y.svc[c.node].available,
           NEW i, c = started[i]
    PROVE  Closes(y, started, S \cup {i})
<1>1. ASSUME NEW d, Felled(v, d) PROVE Felled(y, d)
    BY <1>1 DEF Felled, Ebbs
<1>2. Felled(y, c)
    BY DEF Gone, Felled
<1> QED BY <1>1, <1>2 DEF Closes

LEMMA TakeDownAllSound ==
    ASSUME NEW u, Struck(u, {}, {}), NEW started, Batch(u, started), NEW pick,
           NEW z, z = TakeDownAll(u, started, pick)
    PROVE  /\ Struck(z, Nodes(started), Lost(started))
           /\ Ebbs(u, z) /\ Closes(z, started, DOMAIN started)
<1> DEFINE closed == Nodes(started)
           lost == Lost(started)
           Gathers(v, S) == v.dead \subseteq u.dead \cup {started[i].node : i \in S}
<1> DEFINE T == DOMAIN started
           Told(v, i) == TakeDown(v, started[i], pick)
           Good(v, S) == /\ Struck(v, closed, lost) /\ Gathers(v, S)
                         /\ Ebbs(u, v) /\ Closes(v, started, S)
           P == [s \in SUBSET T |-> {v \in World : Good(v, s)}]
           choose == [s \in SUBSET T |-> Max(s)]
           step == [xv \in T \X World |-> Told(xv[2], xv[1])]
           F(h) == [s \in SUBSET T |-> IF s = {} THEN u
                                      ELSE LET x == Max(s) IN Told(h[s \ {x}], x)]
           it == CHOOSE h : h = F(h)
<1>1. IsFiniteSet(T) /\ \A s \in SUBSET T : s # {} => Max(s) \in s
    <2>1. PICK size \in Nat : T = 1..size
        BY DEF Batch
    <2>2. IsFiniteSet(1..size)
        BY FS_Interval
    <2>3. \A s \in SUBSET (1..size) : s # {} => Max(s) \in s
        BY MaxIn
    <2> HIDE DEF T
    <2> QED BY <2>1, <2>2, <2>3
<1>2. \A s \in SUBSET T : s # {} => choose[s] \in s
    BY <1>1
<1>3. \A x \in T : \A v \in World : step[<<x, v>>] = Told(v, x)
    OBVIOUS
<1>4. ASSUME NEW h PROVE F(h) = [s \in SUBSET T |-> F(h)[s]]
    OBVIOUS
<1>5. ASSUME NEW h, NEW s \in SUBSET T, s # {}
      PROVE  F(h)[s] = Told(h[s \ {choose[s]}], choose[s])
    <2> DEFINE c == Max(s)
    <2> HIDE DEF Told
    <2>1. choose[s] = c
        OBVIOUS
    <2>2. F(h)[s] = Told(h[s \ {c}], c)
        BY <1>5
    <2> HIDE DEF F, choose, c
    <2> QED BY <2>1, <2>2
<1>6. ASSUME NEW h PROVE F(h)[{}] = u
    OBVIOUS
<1>7. z = it[T]
    BY DEF TakeDownAll, FoldLeft, MapThenFoldSet
<1>8. ASSUME NEW s \in SUBSET T, NEW v PROVE v \in P[s] <=> v \in World /\ Good(v, s)
    OBVIOUS
<1>9. P \in [SUBSET T -> SUBSET World]
    OBVIOUS
<1>10. Good(u, {}) /\ u \in World
    <2>1. Struck(u, closed, lost)
        BY DEF Struck, Exposed
    <2>2. Ebbs(u, u) /\ Closes(u, started, {}) /\ Gathers(u, {}) /\ u \in World
        BY EbbsReflexive DEF Closes, Struck, WorldOK
    <2> QED BY <2>1, <2>2
<1>11. ASSUME NEW S \in SUBSET T, NEW i \in T, i \notin S, NEW v \in World, Good(v, S)
       PROVE  Good(Told(v, i), S \cup {i}) /\ Told(v, i) \in World
    <2> DEFINE c == started[i]
               y == TakeDown(v, c, pick)
    <2>1. c.node \in closed /\ c.node \in Sat /\ c.node \notin u.dead
        BY <1>11 DEF Nodes, Batch
    <2>2. Gone(c) \subseteq lost
        BY <1>11 DEF Gone, Lost
    <2>3. c.node \notin v.dead
        <3>1. \A j \in S : started[j].node # c.node
            BY <1>11 DEF Batch
        <3> QED BY <1>11, <2>1, <3>1
    <2> HIDE DEF c, closed, lost, y
    <2>4. Struck(v, closed, lost) /\ Gathers(v, S) /\ Ebbs(u, v) /\ Closes(v, started, S)
        BY <1>11
    <2>5. y = TakeDown(v, c, pick)
        BY DEF y
    <2>6. Downs(v, y, closed, lost, Gone(c)) /\ (c.node \in Server => ~y.svc[c.node].available)
        BY <2>1, <2>2, <2>3, <2>4, <2>5, TakeDownSound
    <2>7. Struck(y, closed, lost) /\ y.dead = v.dead \cup Gone(c) /\ Ebbs(v, y)
        BY <2>4, <2>6 DEF Downs
    <2>10. Ebbs(u, y)
        BY <2>4, <2>7, EbbsTransitive
    <2>11. Closes(y, started, S \cup {i})
        BY <2>4, <2>6, <2>7, ClosesOn DEF c
    <2>8. y \in World
        BY <2>7 DEF Struck, WorldOK
    <2>9. Gathers(y, S \cup {i})
        BY <2>4, <2>7 DEF Gone, c
    <2> QED BY <2>7, <2>8, <2>9, <2>10, <2>11 DEF c, y
<1> HIDE DEF choose, step, F, P, Told, Good, T
<1>12. Carries(P, u, choose, step, T, World)
    <2>1. u \in P[{}]
        <3>1. {} \in SUBSET T
            OBVIOUS
        <3> QED BY <1>8, <1>10, <3>1
    <2>2. ASSUME NEW s \in SUBSET T, s # {}, NEW v \in P[s \ {choose[s]}]
          PROVE  step[<<choose[s], v>>] \in P[s]
        <3> DEFINE i == choose[s]
                   r == s \ {i}
        <3>1. i \in s /\ i \in T /\ r \in SUBSET T /\ v \in P[r] /\ i \notin r /\ r \cup {i} = s
            BY <1>2, <2>2
        <3> HIDE DEF i, r
        <3>2. v \in World /\ Good(v, r)
            BY <1>8, <3>1
        <3>3. Good(Told(v, i), s) /\ Told(v, i) \in World
            BY <1>11, <3>1, <3>2
        <3>4. step[<<i, v>>] = Told(v, i)
            BY <1>3, <3>1, <3>2
        <3> QED BY <1>8, <3>3, <3>4 DEF i
    <2> QED BY <1>2, <1>9, <2>1, <2>2 DEF Carries, Chooses
<1>13. \E h : h = F(h)
    <2>1. PICK h : Folds(h, P, u, choose, step, T)
        BY <1>1, <1>12, FoldKeeps
    <2>2. ASSUME NEW s \in SUBSET T PROVE F(h)[s] = h[s]
        <3>1. CASE s # {}
            <4>1. choose[s] \in T /\ s \ {choose[s]} \in SUBSET T
                BY <1>2, <3>1
            <4>2. h[s \ {choose[s]}] \in World
                BY <1>8, <2>1, <4>1 DEF Folds
            <4>3. h[s] = step[<<choose[s], h[s \ {choose[s]}]>>]
                BY <2>1, <3>1 DEF Folds
            <4>4. F(h)[s] = Told(h[s \ {choose[s]}], choose[s])
                BY ONLY <1>5, <3>1, s \in SUBSET T
            <4>5. step[<<choose[s], h[s \ {choose[s]}]>>] = Told(h[s \ {choose[s]}], choose[s])
                BY ONLY <1>3, <4>1, <4>2
            <4> QED BY ONLY <4>3, <4>4, <4>5
        <3>2. CASE s = {}
            BY <1>6, <2>1, <3>2 DEF Folds
        <3> QED BY <3>1, <3>2
    <2>3. h = [s \in SUBSET T |-> h[s]]
        BY <2>1 DEF Folds
    <2>4. F(h) = [s \in SUBSET T |-> F(h)[s]]
        BY <1>4
    <2> QED BY <2>2, <2>3, <2>4
<1>14. it = F(it)
    BY <1>13
<1> HIDE DEF it
<1>15. Obeys(it, P, u, choose, step, T)
    <2>1. it[{}] = u
        BY <1>6, <1>14
    <2>2. ASSUME NEW s \in SUBSET T, s # {}, it[s \ {choose[s]}] \in P[s \ {choose[s]}]
          PROVE  it[s] = step[<<choose[s], it[s \ {choose[s]}]>>]
        <3>1. choose[s] \in T /\ s \ {choose[s]} \in SUBSET T
            BY <1>2, <2>2
        <3>2. it[s \ {choose[s]}] \in World
            BY <1>8, <2>2, <3>1
        <3>3. it[s] = Told(it[s \ {choose[s]}], choose[s])
            BY <1>5, <1>14, <2>2
        <3> QED BY <1>3, <3>1, <3>2, <3>3
    <2> QED BY <2>1, <2>2 DEF Obeys
<1>16. Good(z, T)
    <2>1. it[T] \in P[T]
        BY <1>1, <1>12, <1>15, FoldStays
    <2>2. T \in SUBSET T
        OBVIOUS
    <2> QED BY <1>7, <1>8, <2>1, <2>2

<1> QED BY <1>16 DEF Good, T

-----------------------------------------------------------------------------
(* A fault batch: what is gone strikes *)

\* No fault of the list ends an attempt of t any more.
Missed(u, t, c) == \A g \in Generation : ~Hit(u, t, g, c)

\* An attempt that has not ended is where it was.
LEMMA HitFades ==
    ASSUME NEW u, NEW v, NEW t, Fades(u, v, t), NEW g \in Generation, NEW c, Hit(v, t, g, c)
    PROVE  Hit(u, t, g, c)
<1>1. v.pair[t].stage[g] \in Open
    BY ValidOpen DEF Hit
<1>2. Faded(u.pair[t], v.pair[t])
    BY DEF Fades
<1>3. v.pair[t].stage[g] = u.pair[t].stage[g]
    BY <1>1, <1>2 DEF Faded, Open, Held
<1>4. v.pair[t].node = u.pair[t].node /\ v.pair[t].immune = u.pair[t].immune
    BY <1>2 DEF Faded
<1>5. NodeOf(v, t, g) = NodeOf(u, t, g)
    BY <1>4 DEF NodeOf
<1>6. g = 1 => v.pair[t].stage[1] = u.pair[t].stage[1]
    BY <1>3
<1>7. Valid(v, t, g) <=> Valid(u, t, g)
    BY <1>3 DEF Valid
<1> QED BY <1>3, <1>4, <1>5, <1>6, <1>7 DEF Hit

LEMMA MissedFades ==
    ASSUME NEW u, NEW v, NEW t, Fades(u, v, t), NEW c, Missed(u, t, c)
    PROVE  Missed(v, t, c)
    BY HitFades DEF Missed

LEMMA StrikeAttemptFades ==
    ASSUME NEW u, NEW t \in Task, WorldOK(u), Sane(u, t), NEW g \in Generation, NEW c,
           NEW v, v = StrikeAttempt(u, t, g, c)
    PROVE  /\ Fades(u, v, t) /\ ~Hit(v, t, g, c)
           /\ v.pair[t].stage[1 - g] = u.pair[t].stage[1 - g]
           /\ v.pair[t].stage[g] = u.pair[t].stage[g] \/ Hit(u, t, g, c)
<1>1. CASE ~Hit(u, t, g, c)
    BY <1>1, FadesReflexive DEF StrikeAttempt
<1>2. CASE Hit(u, t, g, c)
    <2>1. v = Cancel(u, t, g, TRUE)
        BY <1>2 DEF StrikeAttempt
    <2>2. /\ Fades(u, v, t) /\ v.pair[t].stage[g] \notin Open
          /\ v.pair[t].stage[1 - g] = u.pair[t].stage[1 - g]
        BY <2>1, CancelFades
    <2> QED BY <1>2, <2>2, ValidOpen DEF Hit
<1> QED BY <1>1, <1>2

\* An attempt goes on unless c ends it.
Marks(u, v, t, c) ==
    \A g \in Generation : v.pair[t].stage[g] = u.pair[t].stage[g] \/ Hit(u, t, g, c)

LEMMA StrikeBothFades ==
    ASSUME NEW u, NEW t \in Task, WorldOK(u), Sane(u, t), NEW c, NEW v, v = StrikeBoth(u, t, c)
    PROVE  Fades(u, v, t) /\ Missed(v, t, c) /\ Marks(u, v, t, c)
<1> DEFINE x == StrikeAttempt(u, t, 0, c)
<1>1. /\ 0 \in Generation /\ 1 \in Generation /\ \A g \in Generation : g = 0 \/ g = 1
      /\ 1 - 0 = 1 /\ 1 - 1 = 0
    BY DEF Generation
<1>2. /\ Fades(u, x, t) /\ ~Hit(x, t, 0, c)
      /\ x.pair[t].stage[1 - 0] = u.pair[t].stage[1 - 0]
      /\ x.pair[t].stage[0] = u.pair[t].stage[0] \/ Hit(u, t, 0, c)
    BY <1>1, StrikeAttemptFades
<1>3. v = StrikeAttempt(x, t, 1, c)
    BY DEF StrikeBoth
<1> HIDE DEF x
<1>4. WorldOK(x) /\ Sane(x, t)
    BY <1>2 DEF Fades
<1>5. /\ Fades(x, v, t) /\ ~Hit(v, t, 1, c)
      /\ v.pair[t].stage[1 - 1] = x.pair[t].stage[1 - 1]
      /\ v.pair[t].stage[1] = x.pair[t].stage[1] \/ Hit(x, t, 1, c)
    BY <1>1, <1>3, <1>4, StrikeAttemptFades
<1>6. ~Hit(v, t, 0, c)
    BY <1>1, <1>2, <1>5, HitFades
<1>7. Fades(u, v, t)
    BY <1>2, <1>5, FadesTransitive
<1>8. Marks(u, v, t, c)
    <2>1. Hit(x, t, 1, c) => Hit(u, t, 1, c)
        BY <1>1, <1>2, HitFades
    <2> QED BY <1>1, <1>2, <1>5, <2>1 DEF Marks
<1> QED BY <1>1, <1>5, <1>6, <1>7, <1>8 DEF Missed

\* A task is what it was, but for the attempts that the faults end.
Wounds(u, v, t, started) ==
    /\ v.task[t] = u.task[t] /\ v.pair[t].live = u.pair[t].live
    /\ \A g \in Generation :
         \/ v.pair[t].stage[g] = u.pair[t].stage[g]
         \/ \E i \in DOMAIN started : Hit(u, t, g, started[i])

LEMMA MarksWounds ==
    ASSUME NEW u, NEW v, NEW y, NEW t, NEW started, NEW i \in DOMAIN started,
           Fades(u, v, t), Wounds(u, v, t, started), Fades(v, y, t), Marks(v, y, t, started[i])
    PROVE  Wounds(u, y, t, started)
<1>1. \A g \in Generation : Hit(v, t, g, started[i]) => Hit(u, t, g, started[i])
    BY HitFades
<1>2. y.task[t] = u.task[t] /\ y.pair[t].live = u.pair[t].live
    BY DEF Fades, Faded
<1> QED BY <1>1, <1>2 DEF Wounds, Marks

LEMMA WoundsBeside ==
    ASSUME NEW u, NEW v, NEW y, NEW t, NEW started
    PROVE  /\ Wounds(u, v, t, started) /\ Beside(v, y, t) => Wounds(u, y, t, started)
           /\ Beside(u, v, t) /\ Wounds(v, y, t, started) => Wounds(u, y, t, started)
<1>1. Wounds(u, v, t, started) /\ Beside(v, y, t) => Wounds(u, y, t, started)
    BY DEF Wounds, Beside
<1>2. ASSUME Beside(u, v, t), Wounds(v, y, t, started) PROVE Wounds(u, y, t, started)
    <2>1. v.pair[t] = u.pair[t] /\ v.task[t] = u.task[t]
        BY <1>2 DEF Beside
    <2>2. \A g \in Generation : NodeOf(v, t, g) = NodeOf(u, t, g) /\ (Valid(v, t, g) <=> Valid(u, t, g))
        BY <2>1 DEF NodeOf, Valid
    <2>3. \A g \in Generation : \A c : Hit(v, t, g, c) => Hit(u, t, g, c)
        BY <2>1, <2>2 DEF Hit
    <2> QED BY <1>2, <2>1, <2>3 DEF Wounds
<1> QED BY <1>1, <1>2

\* What every fault of a batch leaves of a task that has started.
LEMMA StrikesFade ==
    ASSUME NEW u, NEW t \in Task, WorldOK(u), Sane(u, t), NEW started,
           \E size \in Nat : DOMAIN started = 1..size,
           NEW z, z = Strikes(u, t, started)
    PROVE  /\ Fades(u, z, t) /\ \A i \in DOMAIN started : Missed(z, t, started[i])
           /\ Wounds(u, z, t, started)
<1> DEFINE T == DOMAIN started
           Told(v, i) == StrikeBoth(v, t, started[i])
           Good(v, S) == /\ Fades(u, v, t) /\ \A j \in S : Missed(v, t, started[j])
                         /\ Wounds(u, v, t, started)
           P == [s \in SUBSET T |-> {v \in World : Good(v, s)}]
           choose == [s \in SUBSET T |-> Max(s)]
           step == [xv \in T \X World |-> Told(xv[2], xv[1])]
           F(h) == [s \in SUBSET T |-> IF s = {} THEN u
                                      ELSE LET x == Max(s) IN Told(h[s \ {x}], x)]
           it == CHOOSE h : h = F(h)
<1>1. IsFiniteSet(T) /\ \A s \in SUBSET T : s # {} => Max(s) \in s
    <2>1. PICK size \in Nat : T = 1..size
        OBVIOUS
    <2>2. IsFiniteSet(1..size)
        BY FS_Interval
    <2>3. \A s \in SUBSET (1..size) : s # {} => Max(s) \in s
        BY MaxIn
    <2> HIDE DEF T
    <2> QED BY <2>1, <2>2, <2>3
<1>2. \A s \in SUBSET T : s # {} => choose[s] \in s
    BY <1>1
<1>3. \A x \in T : \A v \in World : step[<<x, v>>] = Told(v, x)
    OBVIOUS
<1>4. ASSUME NEW h PROVE F(h) = [s \in SUBSET T |-> F(h)[s]]
    OBVIOUS
<1>5. ASSUME NEW h, NEW s \in SUBSET T, s # {}
      PROVE  F(h)[s] = Told(h[s \ {choose[s]}], choose[s])
    <2> DEFINE c == Max(s)
    <2> HIDE DEF Told
    <2>1. choose[s] = c
        OBVIOUS
    <2>2. F(h)[s] = Told(h[s \ {c}], c)
        BY <1>5
    <2> HIDE DEF F, choose, c
    <2> QED BY <2>1, <2>2
<1>6. ASSUME NEW h PROVE F(h)[{}] = u
    OBVIOUS
<1>7. z = it[T]
    BY DEF Strikes, FoldLeft, MapThenFoldSet
<1>8. ASSUME NEW s \in SUBSET T, NEW v PROVE v \in P[s] <=> v \in World /\ Good(v, s)
    OBVIOUS
<1>9. P \in [SUBSET T -> SUBSET World]
    OBVIOUS
<1>10. Good(u, {}) /\ u \in World
    BY FadesReflexive DEF WorldOK, Wounds
<1>11. ASSUME NEW S \in SUBSET T, NEW i \in T, i \notin S, NEW v \in World, Good(v, S)
       PROVE  Good(Told(v, i), S \cup {i}) /\ Told(v, i) \in World
    <2> DEFINE c == started[i]
               y == StrikeBoth(v, t, c)
    <2>1. Fades(u, v, t) /\ (\A j \in S : Missed(v, t, started[j])) /\ Wounds(u, v, t, started)
        BY <1>11
    <2>2. WorldOK(v) /\ Sane(v, t)
        BY <2>1 DEF Fades
    <2>3. Fades(v, y, t) /\ Missed(y, t, c) /\ Marks(v, y, t, c)
        BY <2>2, StrikeBothFades
    <2> HIDE DEF y
    <2>4. Fades(u, y, t)
        BY <2>1, <2>3, FadesTransitive
    <2>5. \A j \in S : Missed(y, t, started[j])
        BY <2>1, <2>3, MissedFades
    <2>6. y \in World
        BY <2>3 DEF Fades, WorldOK
    <2>7. \A j \in S \cup {i} : Missed(y, t, started[j])
        BY <2>3, <2>5
    <2>8. Wounds(u, y, t, started)
        BY <2>1, <2>3, MarksWounds
    <2> QED BY <2>4, <2>6, <2>7, <2>8 DEF y
<1> HIDE DEF choose, step, F, P, Told, Good, T
<1>12. Carries(P, u, choose, step, T, World)
    <2>1. u \in P[{}]
        <3>1. {} \in SUBSET T
            OBVIOUS
        <3> QED BY <1>8, <1>10, <3>1
    <2>2. ASSUME NEW s \in SUBSET T, s # {}, NEW v \in P[s \ {choose[s]}]
          PROVE  step[<<choose[s], v>>] \in P[s]
        <3> DEFINE i == choose[s]
                   r == s \ {i}
        <3>1. i \in s /\ i \in T /\ r \in SUBSET T /\ v \in P[r] /\ i \notin r /\ r \cup {i} = s
            BY <1>2, <2>2
        <3> HIDE DEF i, r
        <3>2. v \in World /\ Good(v, r)
            BY <1>8, <3>1
        <3>3. Good(Told(v, i), s) /\ Told(v, i) \in World
            BY <1>11, <3>1, <3>2
        <3>4. step[<<i, v>>] = Told(v, i)
            BY <1>3, <3>1, <3>2
        <3> QED BY <1>8, <3>3, <3>4 DEF i
    <2> QED BY <1>2, <1>9, <2>1, <2>2 DEF Carries, Chooses
<1>13. \E h : h = F(h)
    <2>1. PICK h : Folds(h, P, u, choose, step, T)
        BY <1>1, <1>12, FoldKeeps
    <2>2. ASSUME NEW s \in SUBSET T PROVE F(h)[s] = h[s]
        <3>1. CASE s # {}
            <4>1. choose[s] \in T /\ s \ {choose[s]} \in SUBSET T
                BY <1>2, <3>1
            <4>2. h[s \ {choose[s]}] \in World
                BY <1>8, <2>1, <4>1 DEF Folds
            <4>3. h[s] = step[<<choose[s], h[s \ {choose[s]}]>>]
                BY <2>1, <3>1 DEF Folds
            <4>4. F(h)[s] = Told(h[s \ {choose[s]}], choose[s])
                BY ONLY <1>5, <3>1, s \in SUBSET T
            <4>5. step[<<choose[s], h[s \ {choose[s]}]>>] = Told(h[s \ {choose[s]}], choose[s])
                BY ONLY <1>3, <4>1, <4>2
            <4> QED BY ONLY <4>3, <4>4, <4>5
        <3>2. CASE s = {}
            BY <1>6, <2>1, <3>2 DEF Folds
        <3> QED BY <3>1, <3>2
    <2>3. h = [s \in SUBSET T |-> h[s]]
        BY <2>1 DEF Folds
    <2>4. F(h) = [s \in SUBSET T |-> F(h)[s]]
        BY <1>4
    <2> QED BY <2>2, <2>3, <2>4
<1>14. it = F(it)
    BY <1>13
<1> HIDE DEF it
<1>15. Obeys(it, P, u, choose, step, T)
    <2>1. it[{}] = u
        BY <1>6, <1>14
    <2>2. ASSUME NEW s \in SUBSET T, s # {}, it[s \ {choose[s]}] \in P[s \ {choose[s]}]
          PROVE  it[s] = step[<<choose[s], it[s \ {choose[s]}]>>]
        <3>1. choose[s] \in T /\ s \ {choose[s]} \in SUBSET T
            BY <1>2, <2>2
        <3>2. it[s \ {choose[s]}] \in World
            BY <1>8, <2>2, <3>1
        <3>3. it[s] = Told(it[s \ {choose[s]}], choose[s])
            BY <1>5, <1>14, <2>2
        <3> QED BY <1>3, <3>1, <3>2, <3>3
    <2> QED BY <2>1, <2>2 DEF Obeys
<1>16. Good(z, T)
    <2>1. it[T] \in P[T]
        BY <1>1, <1>12, <1>15, FoldStays
    <2>2. T \in SUBSET T
        OBVIOUS
    <2> QED BY <1>7, <1>8, <2>1, <2>2

<1> QED BY <1>16 DEF Good, T

\* An attempt that may win is out of reach of the faults.
Unhit(u, t, started) == \A i \in DOMAIN started : Missed(u, t, started[i])

LEMMA StrikeSound ==
    ASSUME NEW u, NEW t \in Task, WorldOK(u), TaskOK(u, t), NEW started,
           \E size \in Nat : DOMAIN started = 1..size, NEW z, z = Strike(u, t, started)
    PROVE  Goes(u, z, t) /\ Unhit(z, t, started) /\ Wounds(u, z, t, started)
<1>1. CASE ~u.pair[t].live
    <2>1. z = u
        BY <1>1 DEF Strike
    <2>2. \A g \in Generation : u.pair[t].stage[g] \notin Open
        <3>1. CASE Started(u, t)
            BY <1>1, <3>1, StartedSane DEF Sane, Attempts
        <3>2. CASE ~Started(u, t)
            <4>1. u.pair[t] = NoPair
                BY <3>2, StartedSane DEF Unstarted
            <4> QED BY <4>1, NoPairFacts DEF Open, Held
        <3> QED BY <3>1, <3>2
    <2>3. Unhit(u, t, started)
        BY <2>2, ValidOpen DEF Unhit, Missed, Hit
    <2> QED BY <2>1, <2>3, GoesReflexive DEF Wounds
<1>2. CASE u.pair[t].live
    <2>1. Started(u, t)
        BY <1>2, StartedSane, NoPairFacts DEF Unstarted
    <2>2. Sane(u, t)
        BY <2>1, StartedSane
    <2>3. z = Strikes(u, t, started)
        BY <1>2 DEF Strike
    <2>4. /\ Fades(u, z, t) /\ \A i \in DOMAIN started : Missed(z, t, started[i])
          /\ Wounds(u, z, t, started)
        BY <2>2, <2>3, StrikesFade
    <2> QED BY <2>4, FadesGoes DEF Unhit
<1> QED BY <1>1, <1>2

LEMMA GoesStruck ==
    ASSUME NEW u, NEW closed, NEW lost, Struck(u, closed, lost), NEW t \in Task, NEW v, Goes(u, v, t)
    PROVE  /\ Struck(v, closed, lost) /\ v.now = u.now /\ SameSky(u, v)
           /\ \A x \in Task \ {t} : Beside(u, v, x)
<1>1. WorldOK(u) /\ \A x \in Task : TaskOK(u, x) /\ Timed(u, x) /\ Exposed(u, x, closed, lost)
    BY DEF Struck
<1>2. WorldOK(v) /\ v.now = u.now /\ SameSky(u, v) /\ \A x \in Task \ {t} : Beside(u, v, x)
    BY DEF Goes, Follows, Only
<1>3. ASSUME NEW x \in Task PROVE TaskOK(v, x) /\ Timed(v, x) /\ Exposed(v, x, closed, lost)
    <2>1. CASE x = t
        BY <1>1, <2>1 DEF Goes
    <2>2. CASE x # t
        <3>1. Beside(u, v, x) /\ TaskOK(u, x) /\ Timed(u, x) /\ Exposed(u, x, closed, lost)
            BY <1>1, <1>2, <2>2
        <3>2. TaskOK(v, x) /\ Timed(v, x)
            BY <3>1, BesideKeeps
        <3>3. u \in World /\ PairOK(u, x) /\ Places(u, x)
            BY <1>1, <3>1 DEF WorldOK, TaskOK
        <3>4. Exposed(v, x, closed, lost)
            BY <1>2, <3>1, <3>3, BesideExposed
        <3> QED BY <3>2, <3>4
    <2> QED BY <2>1, <2>2
<1> QED BY <1>2, <1>3 DEF Struck

LEMMA UnhitBeside ==
    ASSUME NEW u, NEW v, NEW x, Beside(u, v, x), NEW started, Unhit(u, x, started)
    PROVE  Unhit(v, x, started)
<1>1. v.pair[x] = u.pair[x]
    BY DEF Beside
<1>2. \A g \in Generation : NodeOf(v, x, g) = NodeOf(u, x, g) /\ (Valid(v, x, g) <=> Valid(u, x, g))
    BY <1>1 DEF NodeOf, Valid
<1>3. ASSUME NEW g \in Generation, NEW c, Hit(v, x, g, c) PROVE Hit(u, x, g, c)
    BY <1>1, <1>2, <1>3 DEF Hit
<1> QED BY <1>3 DEF Unhit, Missed

\* The strikes of a batch reach every task.
LEMMA StrikeAllSound ==
    ASSUME NEW u, NEW closed, NEW lost, Struck(u, closed, lost), NEW started,
           \E size \in Nat : DOMAIN started = 1..size, NEW z, z = StrikeAll(u, started)
    PROVE  /\ Struck(z, closed, lost) /\ z.now = u.now /\ SameSky(u, z)
           /\ \A x \in Task : Unhit(z, x, started) /\ Wounds(u, z, x, started)
<1> DEFINE T == Task
           Told(v, i) == Strike(v, i, started)
           Good(v, S) == /\ Struck(v, closed, lost) /\ v.now = u.now /\ SameSky(u, v)
                         /\ \A x \in S : Unhit(v, x, started) /\ Wounds(u, v, x, started)
                         /\ \A x \in Task \ S : Beside(u, v, x)
           P == [s \in SUBSET T |-> {v \in World : Good(v, s)}]
           choose == [s \in SUBSET T |-> CHOOSE y \in s : TRUE]
           step == [xv \in T \X World |-> Told(xv[2], xv[1])]
           F(h) == [s \in SUBSET T |-> IF s = {} THEN u
                                      ELSE LET x == CHOOSE y \in s : TRUE IN Told(h[s \ {x}], x)]
           it == CHOOSE h : h = F(h)
<1>1. IsFiniteSet(T) /\ \A s \in SUBSET T : s # {} => (CHOOSE y \in s : TRUE) \in s
    BY TaskAssumption
<1>2. \A s \in SUBSET T : s # {} => choose[s] \in s
    BY <1>1
<1>3. \A x \in T : \A v \in World : step[<<x, v>>] = Told(v, x)
    OBVIOUS
<1>4. ASSUME NEW h PROVE F(h) = [s \in SUBSET T |-> F(h)[s]]
    OBVIOUS
<1>5. ASSUME NEW h, NEW s \in SUBSET T, s # {}
      PROVE  F(h)[s] = Told(h[s \ {choose[s]}], choose[s])
    <2> DEFINE c == CHOOSE y \in s : TRUE
    <2> HIDE DEF Told
    <2>1. choose[s] = c
        OBVIOUS
    <2>2. F(h)[s] = Told(h[s \ {c}], c)
        BY <1>5
    <2> HIDE DEF F, choose, c
    <2> QED BY <2>1, <2>2
<1>6. ASSUME NEW h PROVE F(h)[{}] = u
    OBVIOUS
<1>7. z = it[T]
    BY DEF StrikeAll, FoldSet, MapThenFoldSet
<1>8. ASSUME NEW s \in SUBSET T, NEW v PROVE v \in P[s] <=> v \in World /\ Good(v, s)
    OBVIOUS
<1>9. P \in [SUBSET T -> SUBSET World]
    OBVIOUS
<1>10. Good(u, {}) /\ u \in World
    BY BesideReflexive DEF Struck, WorldOK, SameSky
<1>11. ASSUME NEW S \in SUBSET T, NEW i \in T, i \notin S, NEW v \in World, Good(v, S)
       PROVE  Good(Told(v, i), S \cup {i}) /\ Told(v, i) \in World
    <2> DEFINE y == Strike(v, i, started)
    <2>1. /\ Struck(v, closed, lost) /\ v.now = u.now /\ SameSky(u, v)
          /\ \A x \in S : Unhit(v, x, started) /\ Wounds(u, v, x, started)
          /\ \A x \in Task \ S : Beside(u, v, x)
        BY <1>11
    <2>2. WorldOK(v) /\ TaskOK(v, i) /\ i \in Task
        BY <2>1 DEF Struck
    <2>3. Goes(v, y, i) /\ Unhit(y, i, started) /\ Wounds(v, y, i, started)
        BY <2>2, StrikeSound
    <2> HIDE DEF y
    <2>4. /\ Struck(y, closed, lost) /\ y.now = v.now /\ SameSky(v, y)
          /\ \A x \in Task \ {i} : Beside(v, y, x)
        BY <2>1, <2>2, <2>3, GoesStruck
    <2>5. \A x \in S \cup {i} : Unhit(y, x, started)
        BY <1>11, <2>1, <2>3, <2>4, UnhitBeside
    <2>6. y \in World
        BY <2>4 DEF Struck, WorldOK
    <2>7. Wounds(u, y, i, started)
        BY <1>11, <2>1, <2>3, WoundsBeside
    <2>8. \A x \in S \cup {i} : Wounds(u, y, x, started)
        BY <1>11, <2>1, <2>4, <2>7, WoundsBeside
    <2>9. \A x \in Task \ (S \cup {i}) : Beside(u, y, x)
        BY <2>1, <2>4, BesideTransitive
    <2>10. SameSky(u, y)
        BY <2>1, <2>4 DEF SameSky
    <2> QED BY <2>1, <2>4, <2>5, <2>6, <2>8, <2>9, <2>10 DEF y
<1> HIDE DEF choose, step, F, P, Told, Good, T
<1>12. Carries(P, u, choose, step, T, World)
    <2>1. u \in P[{}]
        <3>1. {} \in SUBSET T
            OBVIOUS
        <3> QED BY <1>8, <1>10, <3>1
    <2>2. ASSUME NEW s \in SUBSET T, s # {}, NEW v \in P[s \ {choose[s]}]
          PROVE  step[<<choose[s], v>>] \in P[s]
        <3> DEFINE i == choose[s]
                   r == s \ {i}
        <3>1. i \in s /\ i \in T /\ r \in SUBSET T /\ v \in P[r] /\ i \notin r /\ r \cup {i} = s
            BY <1>2, <2>2
        <3> HIDE DEF i, r
        <3>2. v \in World /\ Good(v, r)
            BY <1>8, <3>1
        <3>3. Good(Told(v, i), s) /\ Told(v, i) \in World
            BY <1>11, <3>1, <3>2
        <3>4. step[<<i, v>>] = Told(v, i)
            BY <1>3, <3>1, <3>2
        <3> QED BY <1>8, <3>3, <3>4 DEF i
    <2> QED BY <1>2, <1>9, <2>1, <2>2 DEF Carries, Chooses
<1>13. \E h : h = F(h)
    <2>1. PICK h : Folds(h, P, u, choose, step, T)
        BY <1>1, <1>12, FoldKeeps
    <2>2. ASSUME NEW s \in SUBSET T PROVE F(h)[s] = h[s]
        <3>1. CASE s # {}
            <4>1. choose[s] \in T /\ s \ {choose[s]} \in SUBSET T
                BY <1>2, <3>1
            <4>2. h[s \ {choose[s]}] \in World
                BY <1>8, <2>1, <4>1 DEF Folds
            <4>3. h[s] = step[<<choose[s], h[s \ {choose[s]}]>>]
                BY <2>1, <3>1 DEF Folds
            <4>4. F(h)[s] = Told(h[s \ {choose[s]}], choose[s])
                BY ONLY <1>5, <3>1, s \in SUBSET T
            <4>5. step[<<choose[s], h[s \ {choose[s]}]>>] = Told(h[s \ {choose[s]}], choose[s])
                BY ONLY <1>3, <4>1, <4>2
            <4> QED BY ONLY <4>3, <4>4, <4>5
        <3>2. CASE s = {}
            BY <1>6, <2>1, <3>2 DEF Folds
        <3> QED BY <3>1, <3>2
    <2>3. h = [s \in SUBSET T |-> h[s]]
        BY <2>1 DEF Folds
    <2>4. F(h) = [s \in SUBSET T |-> F(h)[s]]
        BY <1>4
    <2> QED BY <2>2, <2>3, <2>4
<1>14. it = F(it)
    BY <1>13
<1> HIDE DEF it
<1>15. Obeys(it, P, u, choose, step, T)
    <2>1. it[{}] = u
        BY <1>6, <1>14
    <2>2. ASSUME NEW s \in SUBSET T, s # {}, it[s \ {choose[s]}] \in P[s \ {choose[s]}]
          PROVE  it[s] = step[<<choose[s], it[s \ {choose[s]}]>>]
        <3>1. choose[s] \in T /\ s \ {choose[s]} \in SUBSET T
            BY <1>2, <2>2
        <3>2. it[s \ {choose[s]}] \in World
            BY <1>8, <2>2, <3>1
        <3>3. it[s] = Told(it[s \ {choose[s]}], choose[s])
            BY <1>5, <1>14, <2>2
        <3> QED BY <1>3, <3>1, <3>2, <3>3
    <2> QED BY <2>1, <2>2 DEF Obeys
<1>16. Good(z, T)
    <2>1. it[T] \in P[T]
        BY <1>1, <1>12, <1>15, FoldStays
    <2>2. T \in SUBSET T
        OBVIOUS
    <2> QED BY <1>7, <1>8, <2>1, <2>2
<1> QED BY <1>16 DEF Good, T

\* No attempt that may win runs on a closed service without leave, or needs
\* what is lost.
Survives(u, lost) ==
    /\ Struck(u, {}, lost)
    /\ \A x \in Task, g \in Generation :
         u.pair[x].stage[g] \in Open => {NodeOf(u, x, g), ResultNode[x]} \cap lost = {}

LEMMA StrikesSurvive ==
    ASSUME NEW u, NEW started, Struck(u, Nodes(started), Lost(started)),
           \A x \in Task : Unhit(u, x, started)
    PROVE  Survives(u, Lost(started))
<1> DEFINE closed == Nodes(started)
           lost == Lost(started)
<1>1. WorldOK(u) /\ \A x \in Task : TaskOK(u, x) /\ Timed(u, x) /\ Exposed(u, x, closed, lost)
    BY DEF Struck
<1>2. ASSUME NEW x \in Task, NEW g \in Generation, u.pair[x].stage[g] \in Open,
             {NodeOf(u, x, g), ResultNode[x]} \cap lost # {}
      PROVE  FALSE
    <2>1. PICK i \in DOMAIN started :
            started[i].kind = "satellite" /\ started[i].node \in {NodeOf(u, x, g), ResultNode[x]}
        BY <1>2 DEF Lost
    <2>2. Valid(u, x, g)
        BY <1>2, ValidOpen
    <2>3. Hit(u, x, g, started[i])
        BY <2>1, <2>2 DEF Hit
    <2> QED BY <2>1, <2>3 DEF Unhit, Missed
<1>3. ASSUME NEW x \in Task, NEW g \in Generation, u.pair[x].stage[g] = "RUNNING",
             NodeOf(u, x, g) \in closed
      PROVE  g = 1 /\ u.pair[x].immune
    <2>1. PICK i \in DOMAIN started : started[i].node = NodeOf(u, x, g)
        BY <1>3 DEF Nodes
    <2>2. Valid(u, x, g)
        BY <1>3 DEF Valid
    <2>3. ~Hit(u, x, g, started[i])
        BY <2>1 DEF Unhit, Missed
    <2> QED BY <1>3, <2>1, <2>2, <2>3 DEF Hit
<1>4. ASSUME NEW x \in Task PROVE Exposed(u, x, {}, lost)
    <2>1. Exposed(u, x, closed, lost)
        BY <1>1
    <2>2. \A g \in Generation : u.pair[x].stage[g] = "RUNNING" =>
              u.svc[NodeOf(u, x, g)].available \/ (g = 1 /\ u.pair[x].immune)
        BY <1>3, <2>1 DEF Exposed
    <2> HIDE DEF closed, lost
    <2> QED BY <2>1, <2>2 DEF Exposed
<1>5. Struck(u, {}, lost)
    BY <1>1, <1>4 DEF Struck
<1> QED BY <1>2, <1>5 DEF Survives

\* What a task that has not started, and will not, leaves at its host.
Withdrawn(u, v, t, r) ==
    /\ \E a \in TaskRuntime :
         /\ a.state = "FAILED" /\ a.timer = u.task[t].timer
         /\ Puts(u, v, t, a, u.pair[t], u.assigned[t], u.recovering[t],
                 [u.svc EXCEPT ![HostNode[t]] = r])
    /\ r.owner = u.svc[HostNode[t]].owner /\ (Runs(r, t) <=> Runs(u.svc[HostNode[t]], t))
    /\ r.known = u.svc[HostNode[t]].known /\ \A i \in r.queue : i.task # t

LEMMA WithdrawnPuts ==
    ASSUME NEW u, WorldOK(u), NEW t \in Task, ServiceInv(u.svc[HostNode[t]], u.now),
           NEW r, r = RemoveQueuedTaskForFailure(u.svc[HostNode[t]], t),
           NEW v, v = FailTaskForSatelliteNode(u, t)
    PROVE  Withdrawn(u, v, t, r)
<1> DEFINE h == HostNode[t]
           s == u.svc[h]
           a == [u.task[t] EXCEPT !.state = "FAILED"]
<1>2. h \in Server
    BY NodeAssumption
<1>3. s \in Service /\ s.running /\ u.now \in Time /\ u.task[t] \in TaskRuntime
    BY <1>2, WorldTypes DEF WorldOK, NodeOK
<1>5. ServiceInv(s, u.now)
    OBVIOUS
<1>11. v = [u EXCEPT !.svc = [u.svc EXCEPT ![h] = r], !.task = [u.task EXCEPT ![t] = a]]
    BY DEF FailTaskForSatelliteNode
<1> HIDE DEF h, s
<1>6. r = RemoveQueuedTaskForFailure(s, t)
    BY DEF h, s
<1>7. r \in Service /\ ServiceInv(r, u.now)
    BY <1>3, <1>5, <1>6, RemoveQueuedKeeps
<1>8. /\ r.running = s.running /\ r.available = s.available
      /\ r.owner = s.owner /\ r.known = s.known
      /\ r.hasCurrent = s.hasCurrent /\ r.current = s.current
      /\ \A i \in r.queue : i.task # t
      /\ \A x \in Task : x # t => Unmoved(r, s, x)
    <2>1. LET y == RemoveQueuedTaskForFailure(s, t) IN
          /\ y.running = s.running /\ y.available = s.available
          /\ y.owner = s.owner /\ y.known = s.known
          /\ y.hasCurrent = s.hasCurrent /\ y.current = s.current
          /\ \A i \in y.queue : i.task # t
          /\ \A x \in Task : x # t => Unmoved(y, s, x)
        BY <1>3, RemoveQueuedUnmoved
    <2> QED BY <1>6, <2>1, Zenon
<1>9. Serves(u, [u.svc EXCEPT ![h] = r], {t})
    BY <1>2, <1>3, <1>7, <1>8, ServesOne DEF ServiceInv, s
<1>10. a \in TaskRuntime /\ a.state = "FAILED" /\ a.timer = u.task[t].timer
    BY <1>3 DEF TaskRuntime, TaskState
<1> HIDE DEF a
<1>12. Puts(u, v, t, a, u.pair[t], u.assigned[t], u.recovering[t], [u.svc EXCEPT ![h] = r])
    BY <1>9, <1>10, <1>11, TaskSlotPuts
<1>13. Runs(r, t) <=> Runs(s, t)
    BY <1>8 DEF Runs
<1> QED BY <1>8, <1>10, <1>12, <1>13 DEF h, s, Withdrawn

\* A task that has not started fails, and leaves nothing behind.
LEMMA WithdrawnOver ==
    ASSUME NEW u, WorldOK(u), NEW t \in Task, TaskOK(u, t), Unstarted(u.pair[t], u.task[t]),
           ServiceInv(u.svc[HostNode[t]], u.now), NEW v, v = FailTaskForSatelliteNode(u, t)
    PROVE  Goes(u, v, t) /\ Over(v, t)
<1> DEFINE h == HostNode[t]
           r == RemoveQueuedTaskForFailure(u.svc[h], t)
           svc == [u.svc EXCEPT ![h] = r]
<1>1. u \in World /\ h \in Server
    BY NodeAssumption DEF WorldOK
<1>3a. Withdrawn(u, v, t, r)
    BY WithdrawnPuts
<1> HIDE DEF r
<1>4. PICK a \in TaskRuntime :
        /\ a.state = "FAILED" /\ a.timer = u.task[t].timer
        /\ Puts(u, v, t, a, u.pair[t], u.assigned[t], u.recovering[t], svc)
    BY <1>3a DEF Withdrawn, svc, h
<1>5. /\ r.owner = u.svc[h].owner /\ (Runs(r, t) <=> Runs(u.svc[h], t))
      /\ r.known = u.svc[h].known /\ \A i \in r.queue : i.task # t
    BY <1>3a DEF Withdrawn, h
<1>6. /\ svc[h] = r /\ \A m \in Server : m # h => svc[m] = u.svc[m]
    BY <1>1, WorldTypes
<1> HIDE DEF svc, h
<1>7. Settles(u, v, t, a, u.pair[t], u.assigned[t], u.recovering[t], svc, {t}) /\ Follows(u, v, t)
    BY <1>4, PutsSettles
<1>8. /\ v.pair[t] = u.pair[t] /\ v.task[t] = a /\ v.svc = svc /\ v.dead = u.dead
      /\ v.assigned[t] = u.assigned[t] /\ v.recovering[t] = u.recovering[t]
    BY <1>7 DEF Settles
<1>9. Unstarted(v.pair[t], v.task[t])
    BY <1>4, <1>8 DEF Unstarted
<1>10. u.pair[t] = NoPair /\ NoPair.stage[0] = "ABSENT" /\ NoPair.stage[1] = "ABSENT" /\ NoPair.node = NoNode
       /\ ~NoPair.live
    BY DEF Unstarted, NoPair, Generation
<1>11. Places(v, t)
    <2>1. \A m \in Server :
            LET s == u.svc[m] IN
            /\ t \in s.known => m = h
            /\ \A i \in s.queue : i.task = t => m = h
            /\ s.owner # t
            /\ ~Runs(s, t)
        BY UnstartedPlaces DEF h
    <2>2. ASSUME NEW m \in Server
          PROVE  LET s == svc[m] IN
                 /\ t \in s.known => m = h
                 /\ \A i \in s.queue : i.task # t
                 /\ s.owner # t
                 /\ ~Runs(s, t)
        <3>1. CASE m = h
            BY <1>5, <1>6, <2>1, <3>1
        <3>2. CASE m # h
            BY <1>6, <2>1, <3>2
        <3> QED BY <3>1, <3>2
    <2>3. h # NoNode /\ \A m \in Server : m # NoNode
        BY <1>1, NodeAssumption
    <2> HIDE DEF svc
    <2>4. v.task[t].state = "FAILED" /\ v.pair[t] = NoPair /\ v.svc = svc
        BY <1>4, <1>8, <1>10
    <2> QED BY <1>10, <2>2, <2>3, <2>4 DEF Places, PlacesAt, h, Held
<1>12. Ledger(v, t)
    BY <1>8 DEF Ledger, TaskOK
<1>13. TaskOK(v, t)
    BY <1>9, <1>11, <1>12 DEF TaskOK, PairOK
<1>14. Over(v, t)
    BY <1>4, <1>8, <1>10, <1>13 DEF Over
<1> QED BY <1>7, <1>14, OverGoes

\* No attempt of a task that is not live may win.
LEMMA NoneOpen ==
    ASSUME NEW u, NEW t, TaskOK(u, t), ~u.pair[t].live
    PROVE  \A g \in Generation : u.pair[t].stage[g] \notin Open
<1>1. CASE Started(u, t)
    BY <1>1, StartedSane DEF Sane, Attempts
<1>2. CASE ~Started(u, t)
    <2>1. u.pair[t] = NoPair
        BY <1>2, StartedSane DEF Unstarted
    <2> QED BY <2>1, NoPairFacts DEF Open, Held
<1> QED BY <1>1, <1>2

\* A live task is left alone.
Intact(u, v, t) == u.pair[t].live => Beside(u, v, t)

LEMMA IntactOn ==
    ASSUME NEW u, NEW v, NEW z, NEW t, Intact(u, v, t), Intact(v, z, t)
    PROVE  Intact(u, z, t)
<1>1. Beside(u, v, t) => (v.pair[t].live <=> u.pair[t].live)
    BY DEF Beside
<1> QED BY <1>1, BesideTransitive DEF Intact

\* A task that needs what is lost has failed, or does not need it any more.
Spared(u, v, t, lost) ==
    /\ Goes(u, v, t) /\ Exposed(v, t, {}, {}) /\ Intact(u, v, t)
    /\ \A g \in Generation :
         v.pair[t].stage[g] \in Open => {NodeOf(v, t, g), ResultNode[t]} \cap lost = {}

LEMMA FailIfStrandedSound ==
    ASSUME NEW u, NEW lost, Survives(u, lost), NEW t \in Task, NEW v, v = FailIfStranded(u, t, lost)
    PROVE  Spared(u, v, t, lost)
<1>1. /\ WorldOK(u) /\ \A x \in Task : TaskOK(u, x) /\ Exposed(u, x, {}, lost)
      /\ \A g \in Generation :
           u.pair[t].stage[g] \in Open => {NodeOf(u, t, g), ResultNode[t]} \cap lost = {}
    BY DEF Survives, Struck
<1>2. CASE Stranded(u, t, lost)
    <2>1. v = FailTaskForSatelliteNode(u, t)
        BY <1>2 DEF FailIfStranded
    <2>2. Unstarted(u.pair[t], u.task[t])
        BY <1>1, <1>2, QueuedUnstarted DEF Stranded
    <2>3. HostNode[t] \in Server
        BY NodeAssumption
    <2>4. ServiceInv(u.svc[HostNode[t]], u.now)
        BY <1>1, <2>3, Allowed
    <2>5. Goes(u, v, t) /\ Over(v, t)
        BY <1>1, <2>1, <2>2, <2>4, WithdrawnOver
    <2>6. Exposed(v, t, {}, {})
        BY <2>5, OverCalm
    <2>7. \A g \in Generation : v.pair[t].stage[g] \notin Open
        BY <2>5, NoneOpen DEF Over
    <2>8. ~u.pair[t].live
        BY <2>2, NoPairFacts DEF Unstarted
    <2> QED BY <2>5, <2>6, <2>7, <2>8 DEF Spared, Intact
<1>3. CASE ~Stranded(u, t, lost)
    <2>1. v = u
        BY <1>3 DEF FailIfStranded
    <2>2. u.task[t].state \in {"INPUT_TRANSFERRING", "QUEUED"} => ResultNode[t] \notin u.dead
        BY <1>1, <1>3 DEF Exposed, Stranded
    <2>3. ASSUME NEW g \in Generation, u.pair[t].stage[g] \in Open
          PROVE  {NodeOf(u, t, g), ResultNode[t]} \cap u.dead = {}
        <3>1. {NodeOf(u, t, g), ResultNode[t]} \cap lost = {}
            BY <1>1, <2>3
        <3>2. {NodeOf(u, t, g), ResultNode[t]} \cap (u.dead \ lost) = {}
            BY <1>1, <2>3 DEF Exposed
        <3> QED BY <3>1, <3>2
    <2>4. Exposed(u, t, {}, {})
        BY <1>1, <2>2, <2>3 DEF Exposed
    <2>5. Goes(u, u, t) /\ Intact(u, u, t)
        BY <1>1, GoesReflexive, BesideReflexive DEF Intact
    <2> QED BY <1>1, <2>1, <2>4, <2>5 DEF Spared
<1> QED BY <1>2, <1>3

LEMMA SparedSurvives ==
    ASSUME NEW u, NEW lost, Survives(u, lost), NEW t \in Task, NEW v, Spared(u, v, t, lost)
    PROVE  /\ Survives(v, lost) /\ v.now = u.now /\ SameSky(u, v)
           /\ \A x \in Task \ {t} : Exposed(u, x, {}, {}) => Exposed(v, x, {}, {})
           /\ \A x \in Task : Intact(u, v, x)
<1>1. Struck(u, {}, lost) /\ Goes(u, v, t)
    BY DEF Survives, Spared
<1>2. Struck(v, {}, lost) /\ v.now = u.now /\ \A x \in Task \ {t} : Beside(u, v, x)
    BY <1>1, GoesStruck
<1>3. SameSky(u, v) /\ u \in World /\ \A x \in Task : TaskOK(u, x)
    BY <1>1 DEF Goes, Follows, Only, Struck, WorldOK
<1>4. ASSUME NEW x \in Task, NEW g \in Generation, v.pair[x].stage[g] \in Open
      PROVE  {NodeOf(v, x, g), ResultNode[x]} \cap lost = {}
    <2>1. CASE x = t
        BY <1>4, <2>1 DEF Spared
    <2>2. CASE x # t
        <3>1. v.pair[x] = u.pair[x]
            BY <1>2, <2>2 DEF Beside
        <3>2. NodeOf(v, x, g) = NodeOf(u, x, g)
            BY <3>1 DEF NodeOf
        <3>3. u.pair[x].stage[g] \in Open
            BY <1>4, <3>1
        <3>4. {NodeOf(u, x, g), ResultNode[x]} \cap lost = {}
            BY <3>3 DEF Survives
        <3> QED BY <3>2, <3>4
    <2> QED BY <2>1, <2>2
<1>5. ASSUME NEW x \in Task \ {t}, Exposed(u, x, {}, {}) PROVE Exposed(v, x, {}, {})
    <2>1. Beside(u, v, x) /\ PairOK(u, x) /\ Places(u, x)
        BY <1>2, <1>3 DEF TaskOK
    <2> QED BY <1>3, <1>5, <2>1, BesideExposed
<1>6. Survives(v, lost)
    BY <1>2, <1>4 DEF Survives
<1>7. \A x \in Task : Intact(u, v, x)
    BY <1>2 DEF Spared, Intact
<1> QED BY <1>2, <1>3, <1>5, <1>6, <1>7

\* When those that cannot go on have failed, nobody needs what is gone.
LEMMA FailStrandedSound ==
    ASSUME NEW u, NEW lost, Survives(u, lost), NEW z, z = FailStranded(u, lost)
    PROVE  /\ Orderly(z) /\ z.now = u.now /\ SameSky(u, z)
           /\ \A x \in Task : Timed(z, x) /\ Intact(u, z, x)
<1> DEFINE T == Task
           Told(v, i) == FailIfStranded(v, i, lost)
           Good(v, S) == /\ Survives(v, lost) /\ v.now = u.now /\ SameSky(u, v)
                         /\ \A x \in S : Exposed(v, x, {}, {})
                         /\ \A x \in Task : Intact(u, v, x)
           P == [s \in SUBSET T |-> {v \in World : Good(v, s)}]
           choose == [s \in SUBSET T |-> CHOOSE y \in s : TRUE]
           step == [xv \in T \X World |-> Told(xv[2], xv[1])]
           F(h) == [s \in SUBSET T |-> IF s = {} THEN u
                                      ELSE LET x == CHOOSE y \in s : TRUE IN Told(h[s \ {x}], x)]
           it == CHOOSE h : h = F(h)
<1>1. IsFiniteSet(T) /\ \A s \in SUBSET T : s # {} => (CHOOSE y \in s : TRUE) \in s
    BY TaskAssumption
<1>2. \A s \in SUBSET T : s # {} => choose[s] \in s
    BY <1>1
<1>3. \A x \in T : \A v \in World : step[<<x, v>>] = Told(v, x)
    OBVIOUS
<1>4. ASSUME NEW h PROVE F(h) = [s \in SUBSET T |-> F(h)[s]]
    OBVIOUS
<1>5. ASSUME NEW h, NEW s \in SUBSET T, s # {}
      PROVE  F(h)[s] = Told(h[s \ {choose[s]}], choose[s])
    <2> DEFINE c == CHOOSE y \in s : TRUE
    <2> HIDE DEF Told
    <2>1. choose[s] = c
        OBVIOUS
    <2>2. F(h)[s] = Told(h[s \ {c}], c)
        BY <1>5
    <2> HIDE DEF F, choose, c
    <2> QED BY <2>1, <2>2
<1>6. ASSUME NEW h PROVE F(h)[{}] = u
    OBVIOUS
<1>7. z = it[T]
    BY DEF FailStranded, FoldSet, MapThenFoldSet
<1>8. ASSUME NEW s \in SUBSET T, NEW v PROVE v \in P[s] <=> v \in World /\ Good(v, s)
    OBVIOUS
<1>9. P \in [SUBSET T -> SUBSET World]
    OBVIOUS
<1>10. Good(u, {}) /\ u \in World
    BY BesideReflexive DEF Survives, Struck, WorldOK, SameSky, Intact
<1>11. ASSUME NEW S \in SUBSET T, NEW i \in T, i \notin S, NEW v \in World, Good(v, S)
       PROVE  Good(Told(v, i), S \cup {i}) /\ Told(v, i) \in World
    <2> DEFINE y == FailIfStranded(v, i, lost)
    <2>1. /\ Survives(v, lost) /\ v.now = u.now /\ SameSky(u, v)
          /\ \A x \in S : Exposed(v, x, {}, {})
          /\ \A x \in Task : Intact(u, v, x)
        BY <1>11
    <2>2. Spared(v, y, i, lost)
        BY <2>1, FailIfStrandedSound
    <2> HIDE DEF y
    <2>3. /\ Survives(y, lost) /\ y.now = v.now /\ SameSky(v, y)
          /\ \A x \in Task \ {i} : Exposed(v, x, {}, {}) => Exposed(y, x, {}, {})
          /\ \A x \in Task : Intact(v, y, x)
        BY <2>1, <2>2, SparedSurvives
    <2>4. \A x \in S \cup {i} : Exposed(y, x, {}, {})
        BY <1>11, <2>1, <2>2, <2>3 DEF Spared
    <2>5. y \in World
        BY <2>3 DEF Survives, Struck, WorldOK
    <2>6. SameSky(u, y) /\ \A x \in Task : Intact(u, y, x)
        BY <2>1, <2>3, IntactOn DEF SameSky
    <2> QED BY <2>1, <2>3, <2>4, <2>5, <2>6 DEF y
<1> HIDE DEF choose, step, F, P, Told, Good, T
<1>12. Carries(P, u, choose, step, T, World)
    <2>1. u \in P[{}]
        <3>1. {} \in SUBSET T
            OBVIOUS
        <3> QED BY <1>8, <1>10, <3>1
    <2>2. ASSUME NEW s \in SUBSET T, s # {}, NEW v \in P[s \ {choose[s]}]
          PROVE  step[<<choose[s], v>>] \in P[s]
        <3> DEFINE i == choose[s]
                   r == s \ {i}
        <3>1. i \in s /\ i \in T /\ r \in SUBSET T /\ v \in P[r] /\ i \notin r /\ r \cup {i} = s
            BY <1>2, <2>2
        <3> HIDE DEF i, r
        <3>2. v \in World /\ Good(v, r)
            BY <1>8, <3>1
        <3>3. Good(Told(v, i), s) /\ Told(v, i) \in World
            BY <1>11, <3>1, <3>2
        <3>4. step[<<i, v>>] = Told(v, i)
            BY <1>3, <3>1, <3>2
        <3> QED BY <1>8, <3>3, <3>4 DEF i
    <2> QED BY <1>2, <1>9, <2>1, <2>2 DEF Carries, Chooses
<1>13. \E h : h = F(h)
    <2>1. PICK h : Folds(h, P, u, choose, step, T)
        BY <1>1, <1>12, FoldKeeps
    <2>2. ASSUME NEW s \in SUBSET T PROVE F(h)[s] = h[s]
        <3>1. CASE s # {}
            <4>1. choose[s] \in T /\ s \ {choose[s]} \in SUBSET T
                BY <1>2, <3>1
            <4>2. h[s \ {choose[s]}] \in World
                BY <1>8, <2>1, <4>1 DEF Folds
            <4>3. h[s] = step[<<choose[s], h[s \ {choose[s]}]>>]
                BY <2>1, <3>1 DEF Folds
            <4>4. F(h)[s] = Told(h[s \ {choose[s]}], choose[s])
                BY ONLY <1>5, <3>1, s \in SUBSET T
            <4>5. step[<<choose[s], h[s \ {choose[s]}]>>] = Told(h[s \ {choose[s]}], choose[s])
                BY ONLY <1>3, <4>1, <4>2
            <4> QED BY ONLY <4>3, <4>4, <4>5
        <3>2. CASE s = {}
            BY <1>6, <2>1, <3>2 DEF Folds
        <3> QED BY <3>1, <3>2
    <2>3. h = [s \in SUBSET T |-> h[s]]
        BY <2>1 DEF Folds
    <2>4. F(h) = [s \in SUBSET T |-> F(h)[s]]
        BY <1>4
    <2> QED BY <2>2, <2>3, <2>4
<1>14. it = F(it)
    BY <1>13
<1> HIDE DEF it
<1>15. Obeys(it, P, u, choose, step, T)
    <2>1. it[{}] = u
        BY <1>6, <1>14
    <2>2. ASSUME NEW s \in SUBSET T, s # {}, it[s \ {choose[s]}] \in P[s \ {choose[s]}]
          PROVE  it[s] = step[<<choose[s], it[s \ {choose[s]}]>>]
        <3>1. choose[s] \in T /\ s \ {choose[s]} \in SUBSET T
            BY <1>2, <2>2
        <3>2. it[s \ {choose[s]}] \in World
            BY <1>8, <2>2, <3>1
        <3>3. it[s] = Told(it[s \ {choose[s]}], choose[s])
            BY <1>5, <1>14, <2>2
        <3> QED BY <1>3, <3>1, <3>2, <3>3
    <2> QED BY <2>1, <2>2 DEF Obeys
<1>16. Good(z, T)
    <2>1. it[T] \in P[T]
        BY <1>1, <1>12, <1>15, FoldStays
    <2>2. T \in SUBSET T
        OBVIOUS
    <2> QED BY <1>7, <1>8, <2>1, <2>2
<1>17. /\ Survives(z, lost) /\ z.now = u.now /\ SameSky(u, z)
       /\ \A x \in Task : Exposed(z, x, {}, {}) /\ Intact(u, z, x)
    BY <1>16 DEF Good, T
<1> QED BY <1>17 DEF Orderly, Fit, Survives, Struck

-----------------------------------------------------------------------------
(* The end of the simulation *)

\* Every live task fails,
LEMMA FailAllSound ==
    ASSUME NEW u, AllCalm(u), NEW z, z = FailAll(u)
    PROVE  AllCalm(z) /\ \A x \in Task : ~z.pair[x].live
<1> DEFINE T == Task
           Told(v, i) == Fail(v, i)
           Good(v, S) == AllCalm(v) /\ \A x \in S : ~v.pair[x].live
           P == [s \in SUBSET T |-> {v \in World : Good(v, s)}]
           choose == [s \in SUBSET T |-> CHOOSE y \in s : TRUE]
           step == [xv \in T \X World |-> Told(xv[2], xv[1])]
           F(h) == [s \in SUBSET T |-> IF s = {} THEN u
                                      ELSE LET x == CHOOSE y \in s : TRUE IN Told(h[s \ {x}], x)]
           it == CHOOSE h : h = F(h)
<1>1. IsFiniteSet(T) /\ \A s \in SUBSET T : s # {} => (CHOOSE y \in s : TRUE) \in s
    BY TaskAssumption
<1>2. \A s \in SUBSET T : s # {} => choose[s] \in s
    BY <1>1
<1>3. \A x \in T : \A v \in World : step[<<x, v>>] = Told(v, x)
    OBVIOUS
<1>4. ASSUME NEW h PROVE F(h) = [s \in SUBSET T |-> F(h)[s]]
    OBVIOUS
<1>5. ASSUME NEW h, NEW s \in SUBSET T, s # {}
      PROVE  F(h)[s] = Told(h[s \ {choose[s]}], choose[s])
    <2> DEFINE c == CHOOSE y \in s : TRUE
    <2> HIDE DEF Told
    <2>1. choose[s] = c
        OBVIOUS
    <2>2. F(h)[s] = Told(h[s \ {c}], c)
        BY <1>5
    <2> HIDE DEF F, choose, c
    <2> QED BY <2>1, <2>2
<1>6. ASSUME NEW h PROVE F(h)[{}] = u
    OBVIOUS
<1>7. z = it[T]
    BY DEF FailAll, FoldSet, MapThenFoldSet
<1>8. ASSUME NEW s \in SUBSET T, NEW v PROVE v \in P[s] <=> v \in World /\ Good(v, s)
    OBVIOUS
<1>9. P \in [SUBSET T -> SUBSET World]
    OBVIOUS
<1>10. Good(u, {}) /\ u \in World
    BY DEF AllCalm, WorldOK
<1>11. ASSUME NEW S \in SUBSET T, NEW i \in T, i \notin S, NEW v \in World, Good(v, S)
       PROVE  Good(Told(v, i), S \cup {i}) /\ Told(v, i) \in World
    <2> DEFINE y == Fail(v, i)
    <2>1. AllCalm(v) /\ \A x \in S : ~v.pair[x].live
        BY <1>11
    <2>2. CASE ~v.pair[i].live
        <3>1. y = v
            BY <2>2 DEF Fail
        <3> QED BY <2>1, <2>2, <3>1
    <2>3. CASE v.pair[i].live
        <3>1. WorldOK(v) /\ TaskOK(v, i)
            BY <2>1 DEF AllCalm, Calm
        <3>2. Started(v, i)
            BY <2>3, <3>1, StartedSane, NoPairFacts DEF Unstarted
        <3>3. Goes(v, y, i) /\ Over(y, i)
            BY <3>1, <3>2, FailOver
        <3> HIDE DEF y
        <3>4. Follows(v, y, i) /\ Calm(y, i)
            BY <3>3, OverCalm DEF Goes
        <3>5. AllCalm(y)
            BY <2>1, <3>4, FollowsAllCalm
        <3>6. ~y.pair[i].live /\ \A x \in Task \ {i} : y.pair[x] = v.pair[x]
            BY <3>3, <3>4 DEF Over, Follows, Only, Beside
        <3>7. \A x \in S \cup {i} : ~y.pair[x].live
            BY <1>11, <2>1, <3>6
        <3>8. y \in World
            BY <3>5 DEF AllCalm, WorldOK
        <3> QED BY <3>5, <3>7, <3>8 DEF y
    <2> QED BY <2>2, <2>3
<1> HIDE DEF choose, step, F, P, Told, Good, T
<1>12. Carries(P, u, choose, step, T, World)
    <2>1. u \in P[{}]
        <3>1. {} \in SUBSET T
            OBVIOUS
        <3> QED BY <1>8, <1>10, <3>1
    <2>2. ASSUME NEW s \in SUBSET T, s # {}, NEW v \in P[s \ {choose[s]}]
          PROVE  step[<<choose[s], v>>] \in P[s]
        <3> DEFINE i == choose[s]
                   r == s \ {i}
        <3>1. i \in s /\ i \in T /\ r \in SUBSET T /\ v \in P[r] /\ i \notin r /\ r \cup {i} = s
            BY <1>2, <2>2
        <3> HIDE DEF i, r
        <3>2. v \in World /\ Good(v, r)
            BY <1>8, <3>1
        <3>3. Good(Told(v, i), s) /\ Told(v, i) \in World
            BY <1>11, <3>1, <3>2
        <3>4. step[<<i, v>>] = Told(v, i)
            BY <1>3, <3>1, <3>2
        <3> QED BY <1>8, <3>3, <3>4 DEF i
    <2> QED BY <1>2, <1>9, <2>1, <2>2 DEF Carries, Chooses
<1>13. \E h : h = F(h)
    <2>1. PICK h : Folds(h, P, u, choose, step, T)
        BY <1>1, <1>12, FoldKeeps
    <2>2. ASSUME NEW s \in SUBSET T PROVE F(h)[s] = h[s]
        <3>1. CASE s # {}
            <4>1. choose[s] \in T /\ s \ {choose[s]} \in SUBSET T
                BY <1>2, <3>1
            <4>2. h[s \ {choose[s]}] \in World
                BY <1>8, <2>1, <4>1 DEF Folds
            <4>3. h[s] = step[<<choose[s], h[s \ {choose[s]}]>>]
                BY <2>1, <3>1 DEF Folds
            <4>4. F(h)[s] = Told(h[s \ {choose[s]}], choose[s])
                BY ONLY <1>5, <3>1, s \in SUBSET T
            <4>5. step[<<choose[s], h[s \ {choose[s]}]>>] = Told(h[s \ {choose[s]}], choose[s])
                BY ONLY <1>3, <4>1, <4>2
            <4> QED BY ONLY <4>3, <4>4, <4>5
        <3>2. CASE s = {}
            BY <1>6, <2>1, <3>2 DEF Folds
        <3> QED BY <3>1, <3>2
    <2>3. h = [s \in SUBSET T |-> h[s]]
        BY <2>1 DEF Folds
    <2>4. F(h) = [s \in SUBSET T |-> F(h)[s]]
        BY <1>4
    <2> QED BY <2>2, <2>3, <2>4
<1>14. it = F(it)
    BY <1>13
<1> HIDE DEF it
<1>15. Obeys(it, P, u, choose, step, T)
    <2>1. it[{}] = u
        BY <1>6, <1>14
    <2>2. ASSUME NEW s \in SUBSET T, s # {}, it[s \ {choose[s]}] \in P[s \ {choose[s]}]
          PROVE  it[s] = step[<<choose[s], it[s \ {choose[s]}]>>]
        <3>1. choose[s] \in T /\ s \ {choose[s]} \in SUBSET T
            BY <1>2, <2>2
        <3>2. it[s \ {choose[s]}] \in World
            BY <1>8, <2>2, <3>1
        <3>3. it[s] = Told(it[s \ {choose[s]}], choose[s])
            BY <1>5, <1>14, <2>2
        <3> QED BY <1>3, <3>1, <3>2, <3>3
    <2> QED BY <2>1, <2>2 DEF Obeys
<1>16. Good(z, T)
    <2>1. it[T] \in P[T]
        BY <1>1, <1>12, <1>15, FoldStays
    <2>2. T \in SUBSET T
        OBVIOUS
    <2> QED BY <1>7, <1>8, <2>1, <2>2
<1> QED BY <1>16 DEF Good, T

\* then every task that has not started.
LEMMA FailRestSound ==
    ASSUME NEW u, AllCalm(u), \A x \in Task : ~u.pair[x].live, NEW z, z = FailRest(u)
    PROVE  AllCalm(z) /\ \A x \in Task : ~z.pair[x].live /\ Terminal(z, x)
<1> DEFINE T == Task
           Told(v, i) == FailIfOpen(v, i)
           Good(v, S) == AllCalm(v) /\ (\A x \in Task : ~v.pair[x].live) /\ \A x \in S : Terminal(v, x)
           P == [s \in SUBSET T |-> {v \in World : Good(v, s)}]
           choose == [s \in SUBSET T |-> CHOOSE y \in s : TRUE]
           step == [xv \in T \X World |-> Told(xv[2], xv[1])]
           F(h) == [s \in SUBSET T |-> IF s = {} THEN u
                                      ELSE LET x == CHOOSE y \in s : TRUE IN Told(h[s \ {x}], x)]
           it == CHOOSE h : h = F(h)
<1>1. IsFiniteSet(T) /\ \A s \in SUBSET T : s # {} => (CHOOSE y \in s : TRUE) \in s
    BY TaskAssumption
<1>2. \A s \in SUBSET T : s # {} => choose[s] \in s
    BY <1>1
<1>3. \A x \in T : \A v \in World : step[<<x, v>>] = Told(v, x)
    OBVIOUS
<1>4. ASSUME NEW h PROVE F(h) = [s \in SUBSET T |-> F(h)[s]]
    OBVIOUS
<1>5. ASSUME NEW h, NEW s \in SUBSET T, s # {}
      PROVE  F(h)[s] = Told(h[s \ {choose[s]}], choose[s])
    <2> DEFINE c == CHOOSE y \in s : TRUE
    <2> HIDE DEF Told
    <2>1. choose[s] = c
        OBVIOUS
    <2>2. F(h)[s] = Told(h[s \ {c}], c)
        BY <1>5
    <2> HIDE DEF F, choose, c
    <2> QED BY <2>1, <2>2
<1>6. ASSUME NEW h PROVE F(h)[{}] = u
    OBVIOUS
<1>7. z = it[T]
    BY DEF FailRest, FoldSet, MapThenFoldSet
<1>8. ASSUME NEW s \in SUBSET T, NEW v PROVE v \in P[s] <=> v \in World /\ Good(v, s)
    OBVIOUS
<1>9. P \in [SUBSET T -> SUBSET World]
    OBVIOUS
<1>10. Good(u, {}) /\ u \in World
    BY DEF AllCalm, WorldOK
<1>11. ASSUME NEW S \in SUBSET T, NEW i \in T, i \notin S, NEW v \in World, Good(v, S)
       PROVE  Good(Told(v, i), S \cup {i}) /\ Told(v, i) \in World
    <2> DEFINE y == FailIfOpen(v, i)
    <2>1. AllCalm(v) /\ (\A x \in Task : ~v.pair[x].live) /\ \A x \in S : Terminal(v, x)
        BY <1>11
    <2>2. CASE Terminal(v, i)
        <3>1. y = v
            BY <2>2 DEF FailIfOpen
        <3> QED BY <2>1, <2>2, <3>1
    <2>3. CASE ~Terminal(v, i)
        <3>1. WorldOK(v) /\ TaskOK(v, i) /\ HostNode[i] \in Server /\ i \in Task
            BY <2>1, NodeAssumption DEF AllCalm, Calm
        <3>2. Unstarted(v.pair[i], v.task[i])
            BY <2>1, <2>3, <3>1, StartedSane DEF Agrees, Terminal
        <3>3. ServiceInv(v.svc[HostNode[i]], v.now)
            BY <2>1, <3>1, CalmAllowed
        <3>4. y = FailTaskForSatelliteNode(v, i)
            BY <2>3 DEF FailIfOpen
        <3>5. Goes(v, y, i) /\ Over(y, i)
            BY <3>1, <3>2, <3>3, <3>4, WithdrawnOver
        <3> HIDE DEF y
        <3>6. Follows(v, y, i) /\ Calm(y, i)
            BY <3>5, OverCalm DEF Goes
        <3>7. AllCalm(y)
            BY <2>1, <3>6, FollowsAllCalm
        <3>8. /\ ~y.pair[i].live /\ Terminal(y, i)
              /\ \A x \in Task \ {i} : y.pair[x] = v.pair[x] /\ y.task[x] = v.task[x]
            BY <3>5, <3>6 DEF Over, Follows, Only, Beside, Terminal
        <3>9. \A x \in S \cup {i} : Terminal(y, x)
            BY <1>11, <2>1, <3>8 DEF Terminal
        <3>10. \A x \in Task : ~y.pair[x].live
            BY <2>1, <3>8
        <3>11. y \in World
            BY <3>7 DEF AllCalm, WorldOK
        <3> QED BY <3>7, <3>9, <3>10, <3>11 DEF y
    <2> QED BY <2>2, <2>3
<1> HIDE DEF choose, step, F, P, Told, Good, T
<1>12. Carries(P, u, choose, step, T, World)
    <2>1. u \in P[{}]
        <3>1. {} \in SUBSET T
            OBVIOUS
        <3> QED BY <1>8, <1>10, <3>1
    <2>2. ASSUME NEW s \in SUBSET T, s # {}, NEW v \in P[s \ {choose[s]}]
          PROVE  step[<<choose[s], v>>] \in P[s]
        <3> DEFINE i == choose[s]
                   r == s \ {i}
        <3>1. i \in s /\ i \in T /\ r \in SUBSET T /\ v \in P[r] /\ i \notin r /\ r \cup {i} = s
            BY <1>2, <2>2
        <3> HIDE DEF i, r
        <3>2. v \in World /\ Good(v, r)
            BY <1>8, <3>1
        <3>3. Good(Told(v, i), s) /\ Told(v, i) \in World
            BY <1>11, <3>1, <3>2
        <3>4. step[<<i, v>>] = Told(v, i)
            BY <1>3, <3>1, <3>2
        <3> QED BY <1>8, <3>3, <3>4 DEF i
    <2> QED BY <1>2, <1>9, <2>1, <2>2 DEF Carries, Chooses
<1>13. \E h : h = F(h)
    <2>1. PICK h : Folds(h, P, u, choose, step, T)
        BY <1>1, <1>12, FoldKeeps
    <2>2. ASSUME NEW s \in SUBSET T PROVE F(h)[s] = h[s]
        <3>1. CASE s # {}
            <4>1. choose[s] \in T /\ s \ {choose[s]} \in SUBSET T
                BY <1>2, <3>1
            <4>2. h[s \ {choose[s]}] \in World
                BY <1>8, <2>1, <4>1 DEF Folds
            <4>3. h[s] = step[<<choose[s], h[s \ {choose[s]}]>>]
                BY <2>1, <3>1 DEF Folds
            <4>4. F(h)[s] = Told(h[s \ {choose[s]}], choose[s])
                BY ONLY <1>5, <3>1, s \in SUBSET T
            <4>5. step[<<choose[s], h[s \ {choose[s]}]>>] = Told(h[s \ {choose[s]}], choose[s])
                BY ONLY <1>3, <4>1, <4>2
            <4> QED BY ONLY <4>3, <4>4, <4>5
        <3>2. CASE s = {}
            BY <1>6, <2>1, <3>2 DEF Folds
        <3> QED BY <3>1, <3>2
    <2>3. h = [s \in SUBSET T |-> h[s]]
        BY <2>1 DEF Folds
    <2>4. F(h) = [s \in SUBSET T |-> F(h)[s]]
        BY <1>4
    <2> QED BY <2>2, <2>3, <2>4
<1>14. it = F(it)
    BY <1>13
<1> HIDE DEF it
<1>15. Obeys(it, P, u, choose, step, T)
    <2>1. it[{}] = u
        BY <1>6, <1>14
    <2>2. ASSUME NEW s \in SUBSET T, s # {}, it[s \ {choose[s]}] \in P[s \ {choose[s]}]
          PROVE  it[s] = step[<<choose[s], it[s \ {choose[s]}]>>]
        <3>1. choose[s] \in T /\ s \ {choose[s]} \in SUBSET T
            BY <1>2, <2>2
        <3>2. it[s \ {choose[s]}] \in World
            BY <1>8, <2>2, <3>1
        <3>3. it[s] = Told(it[s \ {choose[s]}], choose[s])
            BY <1>5, <1>14, <2>2
        <3> QED BY <1>3, <3>1, <3>2, <3>3
    <2> QED BY <2>1, <2>2 DEF Obeys
<1>16. Good(z, T)
    <2>1. it[T] \in P[T]
        BY <1>1, <1>12, <1>15, FoldStays
    <2>2. T \in SUBSET T
        OBVIOUS
    <2> QED BY <1>7, <1>8, <2>1, <2>2
<1> QED BY <1>16 DEF Good, T

\* The program may end in any order of its tasks.
LEMMA EndedKeeps ==
    ASSUME NEW u, AllCalm(u), NEW v, v = [u EXCEPT !.ended = TRUE]
    PROVE  AllCalm(v)
<1>1. WorldOK(u) /\ u \in World
    BY DEF AllCalm, WorldOK
<1>2. v \in World
    BY <1>1 DEF World
<1>3. /\ v.now = u.now /\ v.ok = u.ok /\ v.svc = u.svc /\ v.dead = u.dead /\ v.task = u.task
      /\ v.pair = u.pair /\ v.assigned = u.assigned /\ v.recovering = u.recovering
    BY <1>1 DEF World
<1>4. WorldOK(v) /\ SameSky(u, v)
    BY <1>1, <1>2, <1>3 DEF WorldOK, NodeOK, SameSky
<1>5. \A x \in Task : Beside(u, v, x)
    BY <1>3, UnmovedReflexive DEF Beside
<1>6. \A x \in Task : Calm(v, x)
    BY <1>1, <1>4, <1>5, BesideCalm DEF AllCalm
<1> QED BY <1>4, <1>6 DEF AllCalm

\* The ledger is empty when the program ends.
LEMMA FinalizeKeeps ==
    ASSUME NEW u, AllCalm(u), NEW v, v = Finalize(u)
    PROVE  AllCalm(v) /\ v.ended
<1> DEFINE f == FailAll(u)
           g == FailRest(f)
<1>1. AllCalm(f) /\ \A x \in Task : ~f.pair[x].live
    BY FailAllSound
<1> HIDE DEF f
<1>2. AllCalm(g) /\ \A x \in Task : ~g.pair[x].live
    BY <1>1, FailRestSound
<1>3. v = [Must(g, \A t \in Task : {g.assigned[t], g.recovering[t]} = {NoNode}) EXCEPT !.ended = TRUE]
    BY DEF Finalize, f
<1> HIDE DEF g
<1>4. ASSUME NEW t \in Task PROVE {g.assigned[t], g.recovering[t]} = {NoNode}
    <2>1. TaskOK(g, t) /\ ~g.pair[t].live
        BY <1>2 DEF AllCalm, Calm
    <2>2. g.pair[t].stage[1] \notin Open
        BY <2>1, NoneOpen, TwoAttempts
    <2> QED BY <2>1, <2>2 DEF TaskOK, Ledger, Open
<1>5. \A t \in Task : {g.assigned[t], g.recovering[t]} = {NoNode}
    BY <1>4
<1>6. g \in World /\ g.ok
    BY <1>2 DEF AllCalm, WorldOK
<1>7. Must(g, \A t \in Task : {g.assigned[t], g.recovering[t]} = {NoNode}) = g
    BY <1>5, <1>6 DEF Must, World
<1>8. v = [g EXCEPT !.ended = TRUE]
    BY <1>3, <1>7
<1>9. v.ended
    BY <1>6, <1>8 DEF World
<1> QED BY <1>2, <1>8, <1>9, EndedKeeps

-----------------------------------------------------------------------------
(* A batch is complete: who is alone takes over *)

ImmunePair(p) == [p EXCEPT !.immune = TRUE]

LEMMA ImmunePairFacts ==
    ASSUME NEW p \in Pair, NEW q, q = ImmunePair(p)
    PROVE  /\ q \in Pair /\ q.live = p.live /\ q.node = p.node /\ q.immune
           /\ q.computed = p.computed /\ q.flow = p.flow /\ q.stage = p.stage
    BY DEF ImmunePair, Pair

\* The replica has leave to go on alone.
Licensed(u, v, t) ==
    LET p == u.pair[t] IN
    /\ Follows(u, v, t) /\ v.dead = u.dead /\ v.task[t] = u.task[t] /\ v.pair[t] = ImmunePair(p)
    /\ v.assigned[t] = u.assigned[t]
    /\ v.recovering[t] = IF p.stage[1] \in Held THEN p.node ELSE NoNode
    /\ Places(v, t)

\* What a batch makes of a task that goes on.
Survivor(u, v, t) ==
    /\ Follows(u, v, t) /\ Fit(v, t) /\ Timed(v, t) /\ Backed(v, t)
    /\ v.task[t] = u.task[t]
    /\ v.pair[t].live = u.pair[t].live /\ v.pair[t].stage = u.pair[t].stage

LEMMA LicensedSound ==
    ASSUME NEW u, WorldOK(u), NEW t \in Task, Fit(u, t), Timed(u, t), Started(u, t),
           u.pair[t].stage[0] \notin Open, u.pair[t].stage[1] \in Open, NEW v, Licensed(u, v, t)
    PROVE  Survivor(u, v, t)
<1> DEFINE p == u.pair[t]
           q == ImmunePair(p)
<1>1. /\ TaskOK(u, t) /\ Exposed(u, t, {}, {}) /\ Sane(u, t) /\ Agrees(p, u.task[t])
    BY StartedSane DEF Fit
<1>2. p \in Pair
    BY WorldTypes DEF WorldOK
<1>3. /\ q \in Pair /\ q.live = p.live /\ q.node = p.node /\ q.immune
      /\ q.computed = p.computed /\ q.flow = p.flow /\ q.stage = p.stage
    BY <1>2, ImmunePairFacts
<1>4. /\ Follows(u, v, t) /\ v.dead = u.dead /\ v.task[t] = u.task[t] /\ v.pair[t] = q
      /\ v.assigned[t] = u.assigned[t]
      /\ v.recovering[t] = IF p.stage[1] \in Held THEN p.node ELSE NoNode
      /\ Places(v, t) /\ v.now = u.now /\ SameSky(u, v)
    BY DEF Licensed, Follows, Only
<1>5. p.stage[0] \notin Open /\ p.stage[1] \in Open
    OBVIOUS
<1> HIDE DEF q
<1>6. Ledger(v, t)
    BY <1>1, <1>3, <1>4 DEF Sane, Ledger
<1>7. Attempts(q, u.task[t], v.now)
    <2>1. Attempts(p, u.task[t], u.now)
        BY <1>1 DEF Sane
    <2> QED BY <1>3, <1>4, <1>5, <2>1 DEF Attempts
<1>8. Agrees(q, u.task[t])
    BY <1>1, <1>3 DEF Agrees
<1>9. TaskOK(v, t)
    BY <1>4, <1>6, <1>7, <1>8 DEF TaskOK, PairOK
<1>10. Exposed(v, t, {}, {})
    <2>1. u.task[t].state \notin {"INPUT_TRANSFERRING", "QUEUED"} /\ v.task[t] = u.task[t]
        BY <1>1, <1>4 DEF Sane, Attempts
    <2>2. v \in World /\ Places(v, t) /\ v.pair[t].node = p.node /\ v.pair[t].immune
        BY <1>3, <1>4 DEF Follows, WorldOK
    <2>3. \A g \in Generation : v.pair[t].stage[g] = p.stage[g]
        BY <1>3, <1>4
    <2>4. \A closed, lost : Exposed(u, t, closed, lost) => Exposed(v, t, closed, lost)
        BY <1>4, <2>1, <2>2, <2>3, ExposedStays
    <2> QED BY <1>1, <2>4
<1>11. Timed(v, t)
    BY <1>3, <1>4 DEF Timed
<1>12. Backed(v, t)
    <2>1. 1 \in Generation
        BY TwoAttempts
    <2> QED BY <1>3, <1>4, <1>5, <2>1 DEF Backed
<1> QED BY <1>3, <1>4, <1>9, <1>10, <1>11, <1>12 DEF Survivor, Fit

\* r is s when its replica, of t, takes over.
Promoted(r, s, t, now) ==
    /\ r \in Service /\ r.running /\ ServiceCore(r, now) /\ DispatchArmed(r)
    /\ r.available = s.available /\ r.owner = s.owner /\ r.immune
    /\ r.known = s.known /\ r.queue = s.queue /\ r.runningRecovery = s.runningRecovery
    /\ \A x \in Task : Runs(r, x) <=> Runs(s, x)
    /\ \A x \in Task : x # t => Unmoved(r, s, x)

LEMMA SlotPromoted ==
    ASSUME NEW s \in Service, NEW now \in Time, NEW t \in Task, ServiceInv(s, now), s.running,
           s.owner = t, s.available, NEW r, r = PromoteReplica(s, t)
    PROVE  Promoted(r, s, t, now)
<1>1. r = [s EXCEPT !.immune = TRUE]
    BY DEF PromoteReplica
<1>2. r \in Service /\ ServiceInv(r, now)
    BY PromoteKeeps
<1>3. /\ r.available = s.available /\ r.owner = s.owner /\ r.immune /\ r.running = s.running
      /\ r.known = s.known /\ r.queue = s.queue /\ r.runningRecovery = s.runningRecovery
      /\ r.hasCurrent = s.hasCurrent /\ r.current = s.current
    BY <1>1 DEF Service
<1>4. \A x \in Task : Runs(r, x) <=> Runs(s, x)
    BY <1>3 DEF Runs
<1>5. ASSUME NEW x \in Task, x # t PROVE s.owner # x /\ ~Runs(s, x)
    <2>1. t # NoTask
        BY TaskAssumption DEF NoTask
    <2> QED BY <1>5, <2>1 DEF ServiceInv, ServiceCore, SlotOwned, Runs
<1>6. ASSUME NEW x \in Task, x # t PROVE Unmoved(r, s, x)
    BY <1>3, <1>4, <1>5, <1>6 DEF Unmoved
<1> QED BY <1>2, <1>3, <1>4, <1>6 DEF ServiceInv, Promoted

LEMMA TakeOverPuts ==
    ASSUME NEW u, WorldOK(u), NEW t \in Task, u.recovering[t] = NoNode, NEW q \in Pair,
           NEW n \in Server, NEW svc, Serves(u, svc, {t}),
           NEW v, v = TakeOver([u EXCEPT !.pair = [u.pair EXCEPT ![t] = q], !.svc = svc], t, n)
    PROVE  Puts(u, v, t, u.task[t], q, u.assigned[t], n, svc)
<1>1. /\ u \in World /\ u.ok = TRUE /\ u.task[t] \in TaskRuntime
      /\ u.assigned[t] \in Server \cup {NoNode}
      /\ u.task = [u.task EXCEPT ![t] = u.task[t]]
      /\ u.assigned = [u.assigned EXCEPT ![t] = u.assigned[t]]
    BY WorldTypes DEF WorldOK
<1> DEFINE pair == [u.pair EXCEPT ![t] = q]
           recovering == [u.recovering EXCEPT ![t] = n]
           x == [u EXCEPT !.pair = pair, !.svc = svc]
<1>2. x.recovering[t] = NoNode /\ x.recovering = u.recovering
    BY <1>1 DEF World
<1>3. v = [Must(x, x.recovering[t] = NoNode) EXCEPT !.recovering[t] = n]
    BY DEF TakeOver
<1>4. x.ok = TRUE
    BY <1>1 DEF World
<1>5. v = [u EXCEPT !.pair = pair, !.svc = svc, !.recovering = recovering]
    <2>1. Must(x, x.recovering[t] = NoNode) = x
        BY <1>1, <1>2, <1>4 DEF Must, World
    <2> HIDE DEF pair
    <2> QED BY <1>1, <1>3, <2>1 DEF World
<1> HIDE DEF pair, recovering, x
<1>6. /\ Shaped(v) /\ v.now = u.now /\ v.ok = u.ok /\ v.ended = u.ended /\ v.dead = u.dead
      /\ v.svc = svc /\ v.task = u.task /\ v.pair = pair
      /\ v.assigned = u.assigned /\ v.recovering = recovering
    BY ONLY <1>1, <1>5 DEF World, Shaped
<1> QED BY <1>1, <1>6 DEF pair, recovering, Puts, Sets

\* A replica that has computed, or has its slot, gets leave.
LEMMA ComputedLicensed ==
    ASSUME NEW u, WorldOK(u), NEW t \in Task, TaskOK(u, t), ~u.pair[t].immune,
           u.pair[t].stage[1] = "RESULT", NEW v, v = [u EXCEPT !.pair[t].immune = TRUE]
    PROVE  Licensed(u, v, t)
<1> DEFINE p == u.pair[t]
           q == ImmunePair(p)
<1>1. p \in Pair /\ TaskOK(u, t)
    BY WorldTypes DEF WorldOK
<1>2. /\ q \in Pair /\ q.live = p.live /\ q.node = p.node /\ q.immune
      /\ q.computed = p.computed /\ q.flow = p.flow /\ q.stage = p.stage
    BY <1>1, ImmunePairFacts
<1>3. v = [u EXCEPT !.pair = [u.pair EXCEPT ![t] = q]]
    BY DEF ImmunePair
<1> HIDE DEF q
<1>4. Delivered(u, v, t, q)
    BY <1>2, <1>3, PairDelivered
<1>5. /\ Follows(u, v, t) /\ v.dead = u.dead /\ v.task[t] = u.task[t] /\ v.pair[t] = q
      /\ v.assigned[t] = u.assigned[t] /\ v.recovering[t] = u.recovering[t] /\ v.svc = u.svc
    BY <1>4 DEF Delivered
<1>6. PlacesAt(u.svc, p, u.task[t].state, t) /\ Ledger(u, t)
    BY DEF TaskOK, Places
<1>7. p.stage[1] = "RESULT"
    OBVIOUS
<1>8. PlacesAt(u.svc, q, u.task[t].state, t)
    BY <1>2, <1>6, <1>7 DEF PlacesAt, Held
<1>9. Places(v, t)
    BY <1>5, <1>8 DEF Places
<1>10. v.recovering[t] = IF p.stage[1] \in Held THEN p.node ELSE NoNode
    BY <1>5, <1>6, <1>7 DEF Ledger, Held
<1> QED BY <1>5, <1>9, <1>10 DEF Licensed, q

LEMMA SlotLicensed ==
    ASSUME NEW u, Orderly(u), NEW t \in Task, ~u.pair[t].immune, Started(u, t),
           NEW n, n = u.pair[t].node, u.pair[t].stage[1] \in Held,
           u.svc[n].owner = t, u.svc[n].available,
           NEW v, v = TakeOver([u EXCEPT !.pair[t].immune = TRUE,
                                         !.svc[n] = PromoteReplica(@, t)], t, n)
    PROVE  Licensed(u, v, t)
<1> DEFINE p == u.pair[t]
           q == ImmunePair(p)
           s == u.svc[n]
           r == PromoteReplica(s, t)
           svc == [u.svc EXCEPT ![n] = r]
<1>1. /\ WorldOK(u) /\ TaskOK(u, t) /\ \A x \in Task : TaskOK(u, x) /\ Exposed(u, x, {}, {})
      /\ p \in Pair /\ u.now \in Time /\ u.svc \in [Server -> Service]
    BY WorldTypes DEF Orderly, Fit, WorldOK
<1>2. n \in Server /\ n # HostNode[t]
    BY <1>1, StartedSane, SaneNode DEF Held
<1>3. /\ q \in Pair /\ q.live = p.live /\ q.node = p.node /\ q.immune
      /\ q.computed = p.computed /\ q.flow = p.flow /\ q.stage = p.stage
    BY <1>1, ImmunePairFacts
<1>4. v = TakeOver([u EXCEPT !.pair = [u.pair EXCEPT ![t] = q], !.svc = svc], t, n)
    BY DEF ImmunePair
<1>5. s \in Service /\ s.running /\ ServiceInv(s, u.now) /\ s.owner = t /\ s.available
    BY <1>1, <1>2, Allowed DEF WorldOK, NodeOK
<1>6. svc[n] = r /\ \A m \in Server : m # n => svc[m] = u.svc[m]
    BY <1>1, <1>2
<1>6a. r = PromoteReplica(s, t) /\ t \in Task
    OBVIOUS
<1> HIDE DEF q, s, r
<1>7. /\ r \in Service /\ r.running /\ ServiceCore(r, u.now) /\ DispatchArmed(r)
      /\ r.available = s.available /\ r.owner = s.owner /\ r.immune
      /\ r.known = s.known /\ r.queue = s.queue /\ r.runningRecovery = s.runningRecovery
      /\ \A x \in Task : Runs(r, x) <=> Runs(s, x)
      /\ \A x \in Task : x # t => Unmoved(r, s, x)
    <2>1. Promoted(r, s, t, u.now)
        BY <1>1, <1>5, <1>6a, SlotPromoted
    <2> QED BY <2>1 DEF Promoted
<1>8. Serves(u, svc, {t})
    <2>1. Serves(u, [u.svc EXCEPT ![n] = r], {t})
        BY <1>1, <1>2, <1>7, ServesOne DEF s
    <2> QED BY <2>1
<1>9. PlacesAt(u.svc, p, u.task[t].state, t) /\ Ledger(u, t) /\ p.stage[1] \in Held /\ p.node = n /\ ~p.immune
    BY <1>1 DEF TaskOK, Places
<1>10. u.recovering[t] = NoNode
    BY <1>9 DEF Ledger
<1> HIDE DEF svc
<1>11. Puts(u, v, t, u.task[t], q, u.assigned[t], n, svc)
    BY <1>1, <1>2, <1>3, <1>4, <1>8, <1>10, TakeOverPuts
<1>12. Settles(u, v, t, u.task[t], q, u.assigned[t], n, svc, {t}) /\ Follows(u, v, t)
    BY <1>1, <1>11, PutsSettles
<1>13. /\ v.dead = u.dead /\ v.svc = svc /\ v.task[t] = u.task[t] /\ v.pair[t] = q
       /\ v.assigned[t] = u.assigned[t] /\ v.recovering[t] = n
    BY <1>12 DEF Settles
<1>14. PlacesAt(svc, q, u.task[t].state, t)
    <2>1. ASSUME NEW m \in Server
          PROVE  LET x == svc[m] IN
                 /\ t \in x.known => m = q.node \/ (m = HostNode[t] /\ u.task[t].state # "INPUT_TRANSFERRING")
                 /\ \A i \in x.queue : i.task = t => m = HostNode[t] /\ u.task[t].state = "QUEUED"
                 /\ x.owner = t <=> m = q.node /\ q.stage[1] \in Held
                 /\ x.owner = t => (x.immune <=> q.immune)
                 /\ Runs(x, t) <=> \/ m = HostNode[t] /\ q.stage[0] = "RUNNING"
                                   \/ m = q.node /\ q.stage[1] = "RUNNING"
                 /\ Runs(x, t) => (x.runningRecovery <=> m = q.node)
        <3>1. CASE m = n
            <4>1. /\ t \in s.known => n = p.node \/ (n = HostNode[t] /\ u.task[t].state # "INPUT_TRANSFERRING")
                  /\ \A i \in s.queue : i.task = t => n = HostNode[t] /\ u.task[t].state = "QUEUED"
                  /\ s.owner = t <=> n = p.node /\ p.stage[1] \in Held
                  /\ Runs(s, t) <=> \/ n = HostNode[t] /\ p.stage[0] = "RUNNING"
                                    \/ n = p.node /\ p.stage[1] = "RUNNING"
                  /\ Runs(s, t) => (s.runningRecovery <=> n = p.node)
                BY ONLY <1>2, <1>9 DEF PlacesAt, s
            <4>2. /\ r.known = s.known /\ r.queue = s.queue /\ r.owner = s.owner /\ r.immune
                  /\ r.runningRecovery = s.runningRecovery /\ (Runs(r, t) <=> Runs(s, t))
                BY ONLY <1>7, t \in Task
            <4>3. /\ t \in r.known => n = q.node \/ (n = HostNode[t] /\ u.task[t].state # "INPUT_TRANSFERRING")
                  /\ \A i \in r.queue : i.task = t => n = HostNode[t] /\ u.task[t].state = "QUEUED"
                BY ONLY <1>3, <4>1, <4>2
            <4>4. /\ r.owner = t <=> n = q.node /\ q.stage[1] \in Held
                  /\ r.owner = t => (r.immune <=> q.immune)
                BY ONLY <1>3, <4>1, <4>2
            <4>5. /\ Runs(r, t) <=> \/ n = HostNode[t] /\ q.stage[0] = "RUNNING"
                                    \/ n = q.node /\ q.stage[1] = "RUNNING"
                  /\ Runs(r, t) => (r.runningRecovery <=> n = q.node)
                BY ONLY <1>3, <4>1, <4>2
            <4>6. svc[m] = r
                BY <1>6, <3>1
            <4> QED BY ONLY <3>1, <4>3, <4>4, <4>5, <4>6
        <3>2. CASE m # n
            <4>1. svc[m] = u.svc[m]
                BY <1>6, <3>2
            <4>2. u.svc[m].owner # t
                BY <1>9, <3>2 DEF PlacesAt
            <4> QED BY <1>3, <1>9, <4>1, <4>2 DEF PlacesAt
        <3> QED BY <3>1, <3>2
    <2>2. /\ q.stage[1] = "ABSENT" <=> q.node = NoNode
          /\ q.node # HostNode[t]
        BY <1>3, <1>9 DEF PlacesAt
    <2> QED BY <2>1, <2>2 DEF PlacesAt
<1>15. Places(v, t)
    BY <1>13, <1>14 DEF Places
<1> QED BY <1>9, <1>12, <1>13, <1>15 DEF Licensed, q

\* A replica that is alone takes over, unless its node is down.
LEMMA PromoteSound ==
    ASSUME NEW u, Orderly(u), NEW t \in Task, Timed(u, t), u.pair[t].live,
           Valid(u, t, 0) \/ Valid(u, t, 1), NEW v, v = Promote(u, t)
    PROVE  Survivor(u, v, t)
<1> DEFINE p == u.pair[t]
           n == p.node
           ready == p.stage[1] = "RESULT" \/ (u.svc[n].owner = t /\ u.svc[n].available)
<1>1. WorldOK(u) /\ TaskOK(u, t) /\ Fit(u, t)
    BY DEF Orderly, Fit
<1>2. Started(u, t)
    BY <1>1, StartedSane, NoPairFacts DEF Unstarted
<1>3. PlacesAt(u.svc, p, u.task[t].state, t) /\ 0 \in Generation /\ 1 \in Generation
    BY <1>1, TwoAttempts DEF TaskOK, Places
<1>4. p.stage[0] \in Open \/ p.stage[1] \in Open
    BY ValidOpen
<1>5. p.stage[1] # "ABSENT" <=> n \in Server
    BY <1>1, <1>2, StartedSane, SaneNode
<1>6. CASE Valid(u, t, 0) \/ p.immune \/ ~ready
    <2>1. v = u
        BY <1>6 DEF Promote
    <2>2. p.stage[1] \in Held => n \in Server /\ u.svc[n].owner = t
        BY <1>3, <1>5 DEF PlacesAt, Held
    <2>3. p.stage[1] \in Held /\ p.stage[0] \notin Open /\ u.svc[n].available => p.immune
        BY <1>6, <2>2, ValidOpen
    <2>4. Backed(u, t)
        BY <1>3, <1>4, <2>3 DEF Backed
    <2>5. Follows(u, u, t)
        BY <1>1, OnlyReflexive DEF Follows
    <2> QED BY <1>1, <2>1, <2>4, <2>5 DEF Survivor
<1>7. CASE ~(Valid(u, t, 0) \/ p.immune \/ ~ready)
    <2>1. p.stage[0] \notin Open /\ p.stage[1] \in Open /\ ~p.immune /\ ready
        BY <1>4, <1>7, ValidOpen
    <2>2. Licensed(u, v, t)
        <3>1. CASE p.stage[1] = "RESULT"
            <4>1. v = [u EXCEPT !.pair[t].immune = TRUE]
                BY <1>7, <3>1 DEF Promote
            <4> QED BY <1>1, <2>1, <3>1, <4>1, ComputedLicensed
        <3>2. CASE p.stage[1] # "RESULT"
            <4>1. v = TakeOver([u EXCEPT !.pair[t].immune = TRUE,
                                         !.svc[n] = PromoteReplica(@, t)], t, n)
                BY <1>7, <3>2 DEF Promote
            <4>2. p.stage[1] \in Held /\ u.svc[n].owner = t /\ u.svc[n].available
                BY <2>1, <3>2 DEF Open
            <4> HIDE DEF ready
            <4> QED BY <1>2, <2>1, <4>1, <4>2, SlotLicensed
        <3> QED BY <3>1, <3>2
    <2> HIDE DEF ready
    <2> QED BY <1>1, <1>2, <2>1, <2>2, LicensedSound
<1> QED BY <1>6, <1>7

\* Nothing of t is left, or it is too late for what is left.
Doomed(u, t) == (\A g \in Generation : u.pair[t].stage[g] \notin Open) \/ Lapsed(u, t)

\* t fails only then.
Fated(u, v, t) == u.pair[t].live /\ v.task[t].state = "FAILED" => Doomed(u, t)

LEMMA DoomedBeside ==
    ASSUME NEW u, NEW v, NEW t, Beside(u, v, t), Doomed(v, t)
    PROVE  Doomed(u, t)
BY DEF Beside, Doomed, Lapsed, Unreturned

\* A task fails at the end of a batch, or one of its attempts goes on.
LEMMA BatchCompleteSound ==
    ASSUME NEW u, Orderly(u), NEW t \in Task, Timed(u, t),
           NEW pick \in [Task -> Server \cup {NoNode}], NEW v, v = BatchComplete(u, t, pick)
    PROVE  Spares(u, v, t) /\ Calm(v, t) /\ Fated(u, v, t)
<1>1. WorldOK(u) /\ TaskOK(u, t) /\ Fit(u, t) /\ Exposed(u, t, {}, {})
    BY DEF Orderly, Fit
<1>2. CASE ~u.pair[t].live
    <2>1. v = u
        BY <1>2 DEF BatchComplete
    <2>2. Granted(u, t)
        BY <1>2 DEF Granted, Backed
    <2> QED BY <1>1, <1>2, <2>1, <2>2, SparesReflexive DEF Calm, Fated
<1>3. CASE u.pair[t].live /\ ~Valid(u, t, 0) /\ ~Valid(u, t, 1)
    <2>1. v = Fail(u, t)
        BY <1>3 DEF BatchComplete
    <2>2. Started(u, t)
        BY <1>1, <1>3, StartedSane, NoPairFacts DEF Unstarted
    <2>3. Goes(u, v, t) /\ Over(v, t)
        BY <1>1, <2>1, <2>2, FailOver
    <2>4. Follows(u, v, t) /\ Calm(v, t)
        BY <2>3, OverCalm DEF Goes
    <2>5. \A g \in Generation : u.pair[t].stage[g] \notin Open
        BY <1>3, TwoAttempts, ValidOpen
    <2> QED BY <2>4, <2>5, FollowsSpares DEF Fated, Doomed
<1>4. CASE u.pair[t].live /\ (Valid(u, t, 0) \/ Valid(u, t, 1))
    <2> DEFINE x == Promote(u, t)
    <2>1. v = StartIfReady(x, t, pick)
        BY <1>4 DEF BatchComplete
    <2>2. Survivor(u, x, t)
        BY <1>4, PromoteSound
    <2> HIDE DEF x
    <2>3. Spares(u, x, t) /\ Fit(x, t) /\ Timed(x, t) /\ Backed(x, t)
        BY <2>2, FollowsSpares DEF Survivor
    <2>4. Orderly(x)
        BY <2>3, SparesOrderly
    <2>5. /\ Spares(x, v, t) /\ Fit(v, t) /\ Timed(v, t) /\ (Backed(x, t) => Granted(v, t))
          /\ x.pair[t].live /\ v.task[t].state = "FAILED" => Lapsed(x, t)
        BY <2>1, <2>3, <2>4, StartIfReadySound
    <2>6. Spares(u, v, t)
        BY <2>3, <2>5, SparesTransitive
    <2>7. Lapsed(x, t) => Lapsed(u, t)
        BY <2>2 DEF Survivor, Follows, Lapsed, Unreturned
    <2>8. Fated(u, v, t)
        BY <2>2, <2>5, <2>7 DEF Survivor, Fated, Doomed
    <2> QED BY <2>3, <2>5, <2>6, <2>8 DEF Calm, Fit
<1> QED BY <1>2, <1>3, <1>4

LEMMA BatchCompleteAllSound ==
    ASSUME NEW u, Orderly(u), \A x \in Task : Timed(u, x),
           NEW pick \in [Task -> Server \cup {NoNode}], NEW z, z = BatchCompleteAll(u, pick)
    PROVE  AllCalm(z) /\ SameSky(u, z) /\ \A x \in Task : Fated(u, z, x)
<1> DEFINE T == Task
           Told(v, i) == BatchComplete(v, i, pick)
           Good(v, S) == /\ Orderly(v) /\ SameSky(u, v) /\ \A x \in Task : Timed(v, x)
                         /\ \A x \in S : Calm(v, x) /\ Fated(u, v, x)
                         /\ \A x \in Task \ S : Intact(u, v, x)
           P == [s \in SUBSET T |-> {v \in World : Good(v, s)}]
           choose == [s \in SUBSET T |-> CHOOSE y \in s : TRUE]
           step == [xv \in T \X World |-> Told(xv[2], xv[1])]
           F(h) == [s \in SUBSET T |-> IF s = {} THEN u
                                      ELSE LET x == CHOOSE y \in s : TRUE IN Told(h[s \ {x}], x)]
           it == CHOOSE h : h = F(h)
<1>1. IsFiniteSet(T) /\ \A s \in SUBSET T : s # {} => (CHOOSE y \in s : TRUE) \in s
    BY TaskAssumption
<1>2. \A s \in SUBSET T : s # {} => choose[s] \in s
    BY <1>1
<1>3. \A x \in T : \A v \in World : step[<<x, v>>] = Told(v, x)
    OBVIOUS
<1>4. ASSUME NEW h PROVE F(h) = [s \in SUBSET T |-> F(h)[s]]
    OBVIOUS
<1>5. ASSUME NEW h, NEW s \in SUBSET T, s # {}
      PROVE  F(h)[s] = Told(h[s \ {choose[s]}], choose[s])
    <2> DEFINE c == CHOOSE y \in s : TRUE
    <2> HIDE DEF Told
    <2>1. choose[s] = c
        OBVIOUS
    <2>2. F(h)[s] = Told(h[s \ {c}], c)
        BY <1>5
    <2> HIDE DEF F, choose, c
    <2> QED BY <2>1, <2>2
<1>6. ASSUME NEW h PROVE F(h)[{}] = u
    OBVIOUS
<1>7. z = it[T]
    BY DEF BatchCompleteAll, FoldSet, MapThenFoldSet
<1>8. ASSUME NEW s \in SUBSET T, NEW v PROVE v \in P[s] <=> v \in World /\ Good(v, s)
    OBVIOUS
<1>9. P \in [SUBSET T -> SUBSET World]
    OBVIOUS
<1>10. Good(u, {}) /\ u \in World
    BY BesideReflexive DEF Orderly, WorldOK, SameSky, Intact
<1>11. ASSUME NEW S \in SUBSET T, NEW i \in T, i \notin S, NEW v \in World, Good(v, S)
       PROVE  Good(Told(v, i), S \cup {i}) /\ Told(v, i) \in World
    <2> DEFINE y == BatchComplete(v, i, pick)
    <2>1. /\ Orderly(v) /\ SameSky(u, v) /\ (\A x \in Task : Timed(v, x)) /\ WorldOK(v)
          /\ \A x \in S : Calm(v, x) /\ Fated(u, v, x)
          /\ \A x \in Task \ S : Intact(u, v, x)
        BY <1>11 DEF Orderly
    <2>2. Spares(v, y, i) /\ Calm(y, i) /\ Fated(v, y, i) /\ i \in Task
        BY <2>1, BatchCompleteSound
    <2> HIDE DEF y
    <2>3. Fit(y, i) /\ Timed(y, i)
        BY <2>2, CalmFit DEF Calm
    <2>4. Orderly(y)
        BY <2>1, <2>2, <2>3, SparesOrderly
    <2>5. \A x \in Task \ {i} : (Timed(v, x) => Timed(y, x)) /\ (Calm(v, x) => Calm(y, x))
        BY <2>1, <2>2, SparesFit
    <2>6. \A x \in Task : Timed(y, x)
        BY <2>1, <2>3, <2>5
    <2>7. \A x \in S \cup {i} : Calm(y, x)
        BY <1>11, <2>1, <2>2, <2>5
    <2>8. y \in World
        BY <2>4 DEF Orderly, WorldOK
    <2>9. SameSky(u, y)
        BY <2>1, <2>2 DEF Spares, SameSky
    <2>10. Fated(u, y, i)
        <3>1. u.pair[i].live => Beside(u, v, i) /\ v.pair[i].live
            BY <1>11, <2>1 DEF Intact, Beside
        <3> QED BY <2>2, <3>1, DoomedBeside DEF Fated
    <2>11. ASSUME NEW x \in S, x # i PROVE Fated(u, y, x)
        <3>1. Beside(v, y, x) \/ Begins(v, y, x)
            BY <2>2, <2>11 DEF Spares
        <3>2. y.task[x].state = "FAILED" => v.task[x].state = "FAILED"
            BY <3>1 DEF Beside, Begins
        <3> QED BY <2>1, <3>2 DEF Fated
    <2>12. ASSUME NEW x \in Task \ (S \cup {i}) PROVE Intact(u, y, x)
        <3>1. TaskOK(v, x) /\ Intact(u, v, x)
            BY <2>1 DEF Orderly, Fit
        <3>2. Intact(v, y, x)
            BY <2>2, <3>1, SparedGoesOn DEF Intact
        <3> QED BY <3>1, <3>2, IntactOn
    <2> QED BY <2>4, <2>6, <2>7, <2>8, <2>9, <2>10, <2>11, <2>12 DEF y
<1> HIDE DEF choose, step, F, P, Told, Good, T
<1>12. Carries(P, u, choose, step, T, World)
    <2>1. u \in P[{}]
        <3>1. {} \in SUBSET T
            OBVIOUS
        <3> QED BY <1>8, <1>10, <3>1
    <2>2. ASSUME NEW s \in SUBSET T, s # {}, NEW v \in P[s \ {choose[s]}]
          PROVE  step[<<choose[s], v>>] \in P[s]
        <3> DEFINE i == choose[s]
                   r == s \ {i}
        <3>1. i \in s /\ i \in T /\ r \in SUBSET T /\ v \in P[r] /\ i \notin r /\ r \cup {i} = s
            BY <1>2, <2>2
        <3> HIDE DEF i, r
        <3>2. v \in World /\ Good(v, r)
            BY <1>8, <3>1
        <3>3. Good(Told(v, i), s) /\ Told(v, i) \in World
            BY <1>11, <3>1, <3>2
        <3>4. step[<<i, v>>] = Told(v, i)
            BY <1>3, <3>1, <3>2
        <3> QED BY <1>8, <3>3, <3>4 DEF i
    <2> QED BY <1>2, <1>9, <2>1, <2>2 DEF Carries, Chooses
<1>13. \E h : h = F(h)
    <2>1. PICK h : Folds(h, P, u, choose, step, T)
        BY <1>1, <1>12, FoldKeeps
    <2>2. ASSUME NEW s \in SUBSET T PROVE F(h)[s] = h[s]
        <3>1. CASE s # {}
            <4>1. choose[s] \in T /\ s \ {choose[s]} \in SUBSET T
                BY <1>2, <3>1
            <4>2. h[s \ {choose[s]}] \in World
                BY <1>8, <2>1, <4>1 DEF Folds
            <4>3. h[s] = step[<<choose[s], h[s \ {choose[s]}]>>]
                BY <2>1, <3>1 DEF Folds
            <4>4. F(h)[s] = Told(h[s \ {choose[s]}], choose[s])
                BY ONLY <1>5, <3>1, s \in SUBSET T
            <4>5. step[<<choose[s], h[s \ {choose[s]}]>>] = Told(h[s \ {choose[s]}], choose[s])
                BY ONLY <1>3, <4>1, <4>2
            <4> QED BY ONLY <4>3, <4>4, <4>5
        <3>2. CASE s = {}
            BY <1>6, <2>1, <3>2 DEF Folds
        <3> QED BY <3>1, <3>2
    <2>3. h = [s \in SUBSET T |-> h[s]]
        BY <2>1 DEF Folds
    <2>4. F(h) = [s \in SUBSET T |-> F(h)[s]]
        BY <1>4
    <2> QED BY <2>2, <2>3, <2>4
<1>14. it = F(it)
    BY <1>13
<1> HIDE DEF it
<1>15. Obeys(it, P, u, choose, step, T)
    <2>1. it[{}] = u
        BY <1>6, <1>14
    <2>2. ASSUME NEW s \in SUBSET T, s # {}, it[s \ {choose[s]}] \in P[s \ {choose[s]}]
          PROVE  it[s] = step[<<choose[s], it[s \ {choose[s]}]>>]
        <3>1. choose[s] \in T /\ s \ {choose[s]} \in SUBSET T
            BY <1>2, <2>2
        <3>2. it[s \ {choose[s]}] \in World
            BY <1>8, <2>2, <3>1
        <3>3. it[s] = Told(it[s \ {choose[s]}], choose[s])
            BY <1>5, <1>14, <2>2
        <3> QED BY <1>3, <3>1, <3>2, <3>3
    <2> QED BY <2>1, <2>2 DEF Obeys
<1>16. Good(z, T)
    <2>1. it[T] \in P[T]
        BY <1>1, <1>12, <1>15, FoldStays
    <2>2. T \in SUBSET T
        OBVIOUS
    <2> QED BY <1>7, <1>8, <2>1, <2>2
<1>17. /\ Orderly(z) /\ SameSky(u, z)
       /\ \A x \in Task : Calm(z, x) /\ Fated(u, z, x)
    BY <1>16 DEF Good, T
<1> QED BY <1>17 DEF AllCalm, Orderly

\* What a fault has hit has ended by a cause of its own.
LEMMA HitEnds ==
    ASSUME NEW u, WorldOK(u), NEW t \in Task, Fit(u, t), u.pair[t].live,
           NEW b, Advances(u, b, t), NEW g \in Generation, NEW c, Hit(b, t, g, c), Felled(b, c),
           NEW v, SameSky(b, v)
    PROVE  EndsBy(u, v, t, g)
<1> DEFINE n == NodeOf(u, t, g)
           p == u.pair[t]
           q == b.pair[t]
<1>1. /\ q.node = p.node /\ q.immune = p.immune
      /\ q.stage[g] = p.stage[g] \/ (p.stage[g] = "RUNNING" /\ q.stage[g] = "RESULT")
    BY DEF Advances
<1>2. NodeOf(b, t, g) = n
    BY <1>1 DEF NodeOf
<1>3. q.stage[g] # "RESULT" => q.stage[g] = p.stage[g]
    BY <1>1
<1>4. v.dead = b.dead /\ \A m \in Server : v.svc[m].available = b.svc[m].available
    BY DEF SameSky
<1>5. /\ c.node \in Server => ~b.svc[c.node].available
      /\ c.kind = "satellite" => c.node \in b.dead
    BY DEF Felled
<1> HIDE DEF n, p, q
<1>6. CASE c.kind = "satellite" /\ c.node \in {n, ResultNode[t]}
    BY <1>4, <1>5, <1>6 DEF EndsBy, n
<1>7. CASE c.kind = "satellite" /\ g = 1 /\ q.stage[1] = "INPUT" /\ c.node = SourceNode[t]
    <2>1. p.stage[1] = "INPUT"
        BY <1>3, <1>7
    <2> QED BY <1>4, <1>5, <1>7, <2>1 DEF EndsBy, p
<1>8. CASE c.node = n /\ q.stage[g] = "RUNNING" /\ ~(g = 1 /\ q.immune)
    <2>1. p.stage[g] = "RUNNING" /\ ~(g = 1 /\ p.immune)
        BY <1>1, <1>3, <1>8
    <2>2. n \in Server
        <3>1. CASE g = 0
            BY <3>1, NodeAssumption DEF n, NodeOf
        <3>2. CASE g = 1
            <4>1. TaskOK(u, t) /\ Started(u, t)
                BY LiveState DEF Fit
            <4>2. p.stage[1] # "ABSENT" <=> p.node \in Server
                BY <4>1, StartedSane, SaneNode DEF p
            <4> QED BY <2>1, <3>2, <4>2 DEF n, p, NodeOf
        <3> QED BY <3>1, <3>2 DEF Generation
    <2>3. u.svc[n].available
        BY <2>1 DEF Fit, Exposed, n, p
    <2>4. ~v.svc[n].available
        BY <1>4, <1>5, <1>8, <2>2
    <2> QED BY <2>1, <2>3, <2>4 DEF EndsBy, n, p
<1> QED BY <1>2, <1>6, <1>7, <1>8 DEF Hit, q

\* A task fails in a batch when each attempt has been hit, or has run out of time.
LEMMA DoomEnds ==
    ASSUME NEW u, WorldOK(u), NEW t \in Task, Fit(u, t), u.pair[t].live,
           NEW b, Advances(u, b, t), NEW started, Closes(b, started, DOMAIN started),
           NEW c, Wounds(b, c, t, started), NEW d, Beside(c, d, t), d.now = u.now, Doomed(d, t),
           NEW v, SameSky(b, v)
    PROVE  \A g \in Generation : Valid(u, t, g) => EndsBy(u, v, t, g)
<1> SUFFICES ASSUME NEW g \in Generation, Valid(u, t, g) PROVE EndsBy(u, v, t, g)
    OBVIOUS
<1>1. CASE \E i \in DOMAIN started : Hit(b, t, g, started[i])
    <2>1. PICK i \in DOMAIN started : Hit(b, t, g, started[i])
        BY <1>1
    <2>2. Felled(b, started[i])
        BY <2>1 DEF Closes
    <2> QED BY <2>1, <2>2, HitEnds
<1>2. CASE c.pair[t].stage[g] = b.pair[t].stage[g]
    <2>1. d.pair[t].stage[g] = b.pair[t].stage[g] /\ d.task[t].deadline = u.task[t].deadline
        BY <1>2 DEF Beside, Wounds, Advances
    <2>2. \/ b.pair[t].stage[g] = u.pair[t].stage[g]
          \/ u.pair[t].stage[g] = "RUNNING" /\ b.pair[t].stage[g] = "RESULT"
        BY DEF Advances
    <2>3. u.pair[t].stage[g] \in Open
        BY ValidOpen
    <2>4. d.pair[t].stage[g] \in Open
        BY <2>1, <2>2, <2>3 DEF Open
    <2>5. Lapsed(d, t)
        BY <2>4 DEF Doomed
    <2>6. u.pair[t].stage[g] # "RESULT" /\ u.now >= u.task[t].deadline
        BY <2>1, <2>2, <2>5 DEF Lapsed, Unreturned
    <2> QED BY <2>6 DEF EndsBy
<1> QED BY <1>1, <1>2 DEF Wounds

LEMMA BatchKeeps ==
    ASSUME NEW u, AllCalm(u), NEW recovered, recovered \cap u.dead = {},
           NEW started, Batch(u, started), NEW pick \in [Task -> Server \cup {NoNode}],
           NEW v, v = ApplyFaultBatch(u, recovered, started, pick)
    PROVE  AllCalm(v) /\ AllFailLast(u, v)
<1> DEFINE a == Reopen(u, recovered)
           b == TakeDownAll(a, started, pick)
           c == StrikeAll(b, started)
           d == FailStranded(c, Lost(started))
<1>1. v = BatchCompleteAll(d, pick)
    BY DEF ApplyFaultBatch
<1>2. Struck(a, {}, {}) /\ a.now = u.now /\ a.dead = u.dead /\ \A x \in Task : Beside(u, a, x)
    BY ReopenSound DEF Reopens
<1> HIDE DEF a
<1>3. Batch(a, started)
    BY <1>2 DEF Batch
<1>4. Struck(b, Nodes(started), Lost(started)) /\ Ebbs(a, b) /\ Closes(b, started, DOMAIN started)
    BY <1>2, <1>3, TakeDownAllSound
<1> HIDE DEF b
<1>5. \E size \in Nat : DOMAIN started = 1..size
    BY DEF Batch
<1>6. /\ Struck(c, Nodes(started), Lost(started)) /\ c.now = b.now /\ SameSky(b, c)
      /\ \A x \in Task : Unhit(c, x, started) /\ Wounds(b, c, x, started)
    BY <1>4, <1>5, StrikeAllSound
<1> HIDE DEF c
<1>7. Survives(c, Lost(started))
    BY <1>6, StrikesSurvive
<1>8. /\ Orderly(d) /\ d.now = c.now /\ SameSky(c, d)
      /\ \A x \in Task : Timed(d, x) /\ Intact(c, d, x)
    BY <1>7, FailStrandedSound
<1> HIDE DEF d
<1>9. AllCalm(v) /\ SameSky(d, v) /\ \A x \in Task : Fated(d, v, x)
    BY <1>1, <1>8, BatchCompleteAllSound
<1>10. SameSky(b, v) /\ d.now = u.now
    BY <1>2, <1>4, <1>6, <1>8, <1>9 DEF SameSky, Ebbs
<1>11. ASSUME NEW x \in Task, u.pair[x].live, v.task[x].state = "FAILED"
       PROVE  \A g \in Generation : Valid(u, x, g) => EndsBy(u, v, x, g)
    <2>1. Advances(u, b, x)
        <3>1. Advances(u, a, x) /\ Advances(a, b, x)
            BY <1>2, <1>4, BesideAdvances DEF Ebbs
        <3> QED BY <3>1, AdvancesTransitive
    <2>2. c.pair[x].live
        BY <1>6, <1>11, <2>1 DEF Wounds, Advances
    <2>3. Beside(c, d, x)
        BY <1>8, <2>2 DEF Intact
    <2>4. Doomed(d, x)
        BY <1>9, <1>11, <2>2, <2>3 DEF Fated, Beside
    <2>5. WorldOK(u) /\ Fit(u, x)
        BY CalmFit DEF AllCalm
    <2> QED BY <1>4, <1>6, <1>10, <1>11, <2>1, <2>3, <2>4, <2>5, DoomEnds
<1>12. AllFailLast(u, v)
    BY <1>11 DEF AllFailLast, FailsLast
<1> QED BY <1>9, <1>12

LEMMA FaultBatchKeeps ==
    ASSUME TypeOK, AllCalm(w), FaultBatch
    PROVE  /\ AllCalm(w') /\ faults' \in 0..MaxFaults /\ batched' \in BOOLEAN
           /\ AllFailLast(w, w')
<1>1. PICK recovered \in SUBSET {n \in Server : ~w.svc[n].available /\ n \notin w.dead} :
      \E size \in 0..(MaxFaults - faults) :
      \E nodes \in {q \in [1..size -> Sat] : IsInjective(q)} :
      \E kinds \in [1..size -> {"compute", "satellite"}] :
      \E pick \in Picks :
        /\ recovered # {} \/ size > 0
        /\ \A i \in 1..size :
             /\ nodes[i] \notin w.dead
             /\ kinds[i] = "compute" => nodes[i] \in Server
             /\ nodes[i] \in Server => w.svc[nodes[i]].available \/ nodes[i] \in recovered
        /\ w' = ApplyFaultBatch(w, recovered,
                                [i \in 1..size |-> [node |-> nodes[i], kind |-> kinds[i]]], pick)
        /\ faults' = faults + size
    BY Zenon DEF FaultBatch
<1>1a. PICK size \in 0..(MaxFaults - faults) :
      \E nodes \in {q \in [1..size -> Sat] : IsInjective(q)} :
      \E kinds \in [1..size -> {"compute", "satellite"}] :
      \E pick \in Picks :
        /\ recovered # {} \/ size > 0
        /\ \A i \in 1..size :
             /\ nodes[i] \notin w.dead
             /\ kinds[i] = "compute" => nodes[i] \in Server
             /\ nodes[i] \in Server => w.svc[nodes[i]].available \/ nodes[i] \in recovered
        /\ w' = ApplyFaultBatch(w, recovered,
                                [i \in 1..size |-> [node |-> nodes[i], kind |-> kinds[i]]], pick)
        /\ faults' = faults + size
    BY ONLY <1>1, Zenon
<1>2. PICK nodes \in {q \in [1..size -> Sat] : IsInjective(q)},
           kinds \in [1..size -> {"compute", "satellite"}],
           pick \in Picks :
        /\ recovered # {} \/ size > 0
        /\ \A i \in 1..size :
             /\ nodes[i] \notin w.dead
             /\ kinds[i] = "compute" => nodes[i] \in Server
             /\ nodes[i] \in Server => w.svc[nodes[i]].available \/ nodes[i] \in recovered
        /\ w' = ApplyFaultBatch(w, recovered,
                                [i \in 1..size |-> [node |-> nodes[i], kind |-> kinds[i]]], pick)
        /\ faults' = faults + size
    BY ONLY <1>1a, Zenon
<1>2a. \A i \in 1..size : nodes[i] \notin w.dead
    BY ONLY <1>2
<1> DEFINE started == [i \in 1..size |-> [node |-> nodes[i], kind |-> kinds[i]]]
<1>3. recovered \cap w.dead = {}
    BY <1>1
<1>4. DOMAIN started = 1..size /\ \A i \in 1..size : started[i].node = nodes[i]
    OBVIOUS
<1>5. w' = ApplyFaultBatch(w, recovered, started, pick)
    BY <1>2
<1> HIDE DEF started
<1>6. Batch(w, started)
    <2>1. size \in Nat
        BY <1>1a DEF TypeOK
    <2>2. \A i \in DOMAIN started : started[i].node \in Sat \ w.dead
        BY <1>2a, <1>4
    <2>3. \A i, j \in DOMAIN started : i # j => started[i].node # started[j].node
        BY <1>2, <1>4 DEF IsInjective
    <2> QED BY <1>4, <2>1, <2>2, <2>3 DEF Batch
<1>7. pick \in [Task -> Server \cup {NoNode}]
    BY <1>2, PicksKnown
<1>8. AllCalm(w') /\ AllFailLast(w, w')
    BY <1>3, <1>5, <1>6, <1>7, BatchKeeps
<1>9. faults' \in 0..MaxFaults
    <2>1. faults' = faults + size
        BY <1>2
    <2>2. size \in 0..(MaxFaults - faults) /\ faults \in 0..MaxFaults
        BY <1>1a DEF TypeOK
    <2> QED BY ONLY <2>1, <2>2, BoundAssumption
<1>10. batched' \in BOOLEAN
    BY DEF FaultBatch
<1> QED BY ONLY <1>8, <1>9, <1>10

-----------------------------------------------------------------------------
(* Time passes *)

\* Nothing has become overdue.
LEMMA LaterCalm ==
    ASSUME NEW u, WorldOK(u), NEW x \in Task, Calm(u, x),
           u.task[x].timer => u.task[x].deadline # u.now,
           NEW v, v.now = u.now + 1, v.svc = u.svc, v.dead = u.dead, v.task = u.task,
           v.pair = u.pair, v.assigned = u.assigned, v.recovering = u.recovering
    PROVE  Calm(v, x)
<1>1. TaskOK(u, x) /\ Exposed(u, x, {}, {}) /\ Timed(u, x) /\ Granted(u, x)
    BY DEF Calm
<1>2. Places(v, x) /\ Ledger(v, x) /\ Timed(v, x) /\ Granted(v, x)
    BY <1>1 DEF TaskOK, Places, Ledger, Timed, Granted, Backed
<1>3. Exposed(v, x, {}, {})
    BY <1>1 DEF Exposed, NodeOf
<1>4. u.now \in Nat
    BY WorldTypes DEF WorldOK, Time
<1>5. ASSUME Attempts(u.pair[x], u.task[x], u.now) PROVE Attempts(u.pair[x], u.task[x], u.now + 1)
    <2>1. u.task[x].deadline \in Nat
        BY <1>5 DEF Attempts, Time
    <2>2. \A g \in Generation : u.pair[x].stage[g] \in Held => u.now + 1 <= u.task[x].deadline
        BY <1>1, <1>4, <1>5, <2>1 DEF Attempts, Timed
    <2> QED BY <1>5, <2>2 DEF Attempts
<1>6. PairOK(v, x)
    BY <1>1, <1>5 DEF TaskOK, PairOK
<1> QED BY <1>2, <1>3, <1>6 DEF Calm, TaskOK

LEMMA LaterNode ==
    ASSUME NEW u, AllCalm(u), NEW n \in Server,
           ~(u.svc[n].completion /\ CompletionDue(u.svc[n], u.now))
    PROVE  ServiceCore(u.svc[n], u.now + 1)
<1> DEFINE s == u.svc[n]
<1>1. s \in Service /\ u.now \in Time /\ u.now + 1 \in Time /\ u.now <= u.now + 1
    BY WorldTypes DEF AllCalm, WorldOK, NodeOK, Time
<1>2. ServiceInv(s, u.now)
    BY CalmAllowed
<1>3. s.completion => u.now + 1 <= s.current.start + s.current.service
    <2>1. s.completion => s.hasCurrent /\ u.now <= s.current.start + s.current.service /\ s.current # NoRun
        BY <1>2 DEF ServiceInv, ServiceCore, CompletionTimely, CurrentSane
    <2>2. s.hasCurrent => s.current.start \in Nat
        BY <1>1, <1>2 DEF ServiceInv, ServiceCore, CurrentSane, Service, Run, Time
    <2>3. s.hasCurrent => s.current.service \in Nat
        BY <1>1, <1>2 DEF ServiceInv, ServiceCore, CurrentSane, Service, Run
    <2> QED BY <1>1, <2>1, <2>2, <2>3 DEF CompletionDue, Time
<1> HIDE DEF s
<1>4. ServiceInv(s, u.now + 1)
    BY <1>1, <1>2, <1>3, ClockKeeps
<1> QED BY <1>4 DEF ServiceInv, s

LEMMA TickKeeps ==
    ASSUME AllCalm(w), Tick
    PROVE  AllCalm(w') /\ AllFailLast(w, w')
<1>1. WorldOK(w) /\ w \in World /\ w.ok /\ w.now \in Nat
    BY WorldTypes DEF AllCalm, WorldOK, Time
<1>2. w' = [w EXCEPT !.now = w.now + 1] /\ Quiet
    BY DEF Tick
<1>3. w' \in World
    <2>1. w.now + 1 \in Time
        BY <1>1 DEF Time
    <2> QED BY <1>1, <1>2, <2>1 DEF World
<1>4. /\ w'.now = w.now + 1 /\ w'.ok /\ w'.svc = w.svc /\ w'.dead = w.dead /\ w'.task = w.task
      /\ w'.pair = w.pair /\ w'.assigned = w.assigned /\ w'.recovering = w.recovering
    BY <1>1, <1>2 DEF World
<1>5. ASSUME NEW n \in Server PROVE NodeOK(w', n)
    <2>1. ServiceCore(w.svc[n], w.now + 1)
        BY <1>2, LaterNode DEF Quiet
    <2>2. NodeOK(w, n)
        BY <1>1 DEF WorldOK
    <2> QED BY <1>4, <2>1, <2>2 DEF NodeOK
<1>6. ASSUME NEW x \in Task PROVE Calm(w', x)
    <2>1. w.task[x].timer => w.task[x].deadline # w.now
        BY <1>2 DEF Quiet
    <2>2. Calm(w, x)
        BY DEF AllCalm
    <2> QED BY <1>1, <1>4, <2>1, <2>2, LaterCalm
<1>7. AllFailLast(w, w')
    BY <1>4, SameTasksFail DEF AllCalm, Calm
<1> QED BY <1>3, <1>4, <1>5, <1>6, <1>7 DEF AllCalm, WorldOK

-----------------------------------------------------------------------------
(* The beginning *)

LEMMA FreshService ==
    ASSUME NEW s, s = [NewService EXCEPT !.running = TRUE]
    PROVE  /\ s \in Service /\ ServiceInv(s, 0) /\ s.running /\ s.available
           /\ s.known = {} /\ s.queue = {} /\ s.owner = NoTask /\ ~s.hasCurrent
<1>1. NewService \in Service /\ ServiceInv(NewService, 0)
    BY NewServiceSound DEF Time
<1>2. s \in Service
    BY <1>1 DEF Service
<1>3. /\ s.running /\ s.available = NewService.available /\ s.queue = NewService.queue
      /\ s.known = NewService.known /\ s.hasCurrent = NewService.hasCurrent
      /\ s.current = NewService.current /\ s.dispatch = NewService.dispatch
      /\ s.completion = NewService.completion /\ s.owner = NewService.owner
      /\ s.runningRecovery = NewService.runningRecovery
      /\ s.enqueued = NewService.enqueued /\ s.completed = NewService.completed
      /\ s.cancelled = NewService.cancelled /\ s.removed = NewService.removed
      /\ s.busy = NewService.busy
    BY DEF NewService
<1>4. /\ NewService.available /\ NewService.queue = {} /\ NewService.known = {}
      /\ NewService.owner = NoTask /\ ~NewService.hasCurrent /\ ~NewService.completion
    BY DEF NewService
<1>5. SlotOwned(s) /\ CompletionTimely(s, 0) /\ CompletionAllowed(s) /\ DispatchArmed(s)
    BY <1>1, <1>3, <1>4
       DEF ServiceInv, ServiceCore, SlotOwned, CompletionTimely, CompletionAllowed, DispatchArmed, CanDispatch
<1>6. QueueSane(s, 0) /\ CurrentSane(s, 0)
    BY <1>1, <1>3, <1>4 DEF ServiceInv, ServiceCore, QueueSane, CurrentSane
<1>7. Conserved(s) /\ BusyBounded(s, 0)
    BY <1>1, <1>3, <1>4 DEF ServiceInv, ServiceCore, Conserved, BusyBounded, BusyTimeNs
<1> QED BY <1>2, <1>3, <1>4, <1>5, <1>6, <1>7 DEF ServiceInv, ServiceCore

LEMMA InitCalm ==
    ASSUME Init
    PROVE  AllCalm(w)
<1> DEFINE fresh == [NewService EXCEPT !.running = TRUE]
           idle == [state |-> "INPUT_TRANSFERRING", deadline |-> NoTime, timer |-> FALSE]
<1>1. /\ w.now = 0 /\ w.ok = TRUE /\ w.ended = FALSE /\ w.dead = {}
      /\ w.svc = [n \in Server |-> fresh] /\ w.task = [t \in Task |-> idle]
      /\ w.pair = [t \in Task |-> NoPair]
      /\ w.assigned = [t \in Task |-> NoNode] /\ w.recovering = [t \in Task |-> NoNode]
      /\ Shaped(w)
    BY DEF Init, Shaped
<1>2. /\ fresh \in Service /\ ServiceInv(fresh, 0) /\ fresh.running /\ fresh.available
      /\ fresh.known = {} /\ fresh.queue = {} /\ fresh.owner = NoTask /\ ~fresh.hasCurrent
    BY FreshService
<1>3. idle \in TaskRuntime /\ idle.state = "INPUT_TRANSFERRING" /\ ~idle.timer
    BY DEF TaskRuntime, TaskState
<1> HIDE DEF fresh, idle
<1>4. NoPair \in Pair /\ ~NoPair.live /\ ~NoPair.immune /\ NoPair.node = NoNode
      /\ NoPair.stage[0] = "ABSENT" /\ NoPair.stage[1] = "ABSENT"
      /\ \A g \in Generation : NoPair.stage[g] = "ABSENT"
    BY NoPairFacts, TwoAttempts
<1>5. w \in World
    <2>1. /\ w.now \in Time /\ w.ok \in BOOLEAN /\ w.ended \in BOOLEAN
          /\ w.svc \in [Server -> Service] /\ w.dead \in SUBSET Sat
          /\ w.task \in [Task -> TaskRuntime] /\ w.pair \in [Task -> Pair]
          /\ w.assigned \in [Task -> Server \cup {NoNode}]
          /\ w.recovering \in [Task -> Server \cup {NoNode}]
        <3>1. w.svc \in [Server -> Service]
            BY <1>1, <1>2
        <3>2. w.task \in [Task -> TaskRuntime]
            BY <1>1, <1>3
        <3>3. w.pair \in [Task -> Pair]
            BY <1>1, <1>4
        <3>4. w.assigned \in [Task -> Server \cup {NoNode}] /\ w.recovering \in [Task -> Server \cup {NoNode}]
            BY <1>1
        <3>5. w.now \in Time /\ w.dead \in SUBSET Sat
            BY <1>1 DEF Time
        <3>6. w.ok \in BOOLEAN /\ w.ended \in BOOLEAN
            <4>1. w.ok = TRUE /\ w.ended = FALSE
                BY <1>1
            <4> QED BY <4>1, Zenon
        <3> QED BY <3>1, <3>2, <3>3, <3>4, <3>5, <3>6
    <2> QED BY <1>1, <2>1 DEF World, Shaped
<1>6. WorldOK(w)
    BY <1>1, <1>2, <1>5 DEF WorldOK, NodeOK, ServiceInv
<1>7. ASSUME NEW t \in Task PROVE Calm(w, t)
    <2>1. /\ w.pair[t] = NoPair /\ w.task[t] = idle /\ w.assigned[t] = NoNode /\ w.recovering[t] = NoNode
          /\ \A n \in Server : w.svc[n] = fresh
        BY <1>1
    <2>2. t # NoTask /\ HostNode[t] # NoNode /\ NoNode \notin Server
        BY TaskAssumption, NodeAssumption DEF NoTask
    <2>3. Unstarted(w.pair[t], w.task[t])
        BY <1>3, <2>1 DEF Unstarted
    <2>4. Places(w, t)
        BY <1>2, <1>4, <2>1, <2>2 DEF Places, PlacesAt, Runs, Held
    <2>5. Ledger(w, t)
        BY <1>4, <2>1 DEF Ledger, Open, Held
    <2>6. Exposed(w, t, {}, {})
        BY <1>1, <1>4, <2>1 DEF Exposed, Open, Held
    <2>7. Timed(w, t) /\ Granted(w, t)
        BY <1>4, <2>1 DEF Timed, Granted, Backed, Held
    <2> QED BY <2>3, <2>4, <2>5, <2>6, <2>7 DEF Calm, TaskOK, PairOK
<1> QED BY <1>6, <1>7 DEF AllCalm

-----------------------------------------------------------------------------
(* Every step *)

LEMMA EventKeeps ==
    ASSUME TypeOK, AllCalm(w), NEW t \in Task, Event(t)
    PROVE  AllCalm(w') /\ AllFailLast(w, w')
<1>1. CASE InputArrives(t)
    BY <1>1, InputArrivesKeeps
<1>2. CASE DeadlinePasses(t)
    BY <1>2, DeadlinePassesKeeps
<1>3. ASSUME NEW k \in Flow, LocalDelivery(t, k)
      PROVE  AllCalm(w') /\ AllFailLast(w, w')
    BY <1>3, LocalDeliveryKeeps
<1>4. ASSUME NEW k \in Flow, FlushRequest(t, k)
      PROVE  AllCalm(w') /\ AllFailLast(w, w')
    BY <1>4, FlushRequestKeeps
<1>5. ASSUME NEW k \in Flow, TransferTerminal(t, k)
      PROVE  AllCalm(w') /\ AllFailLast(w, w')
    BY <1>5, TransferTerminalKeeps
<1> QED BY <1>1, <1>2, <1>3, <1>4, <1>5 DEF Event

Kept(u, count, done) == AllCalm(u) /\ count \in 0..MaxFaults /\ done \in BOOLEAN

LEMMA NextKeeps ==
    ASSUME IInv, [Next]_vars
    PROVE  IInv'
<1>1. AllCalm(w) /\ TypeOK /\ faults \in 0..MaxFaults /\ batched \in BOOLEAN
    BY DEF IInv, AllCalm, TypeOK, WorldOK
<1>2. ASSUME UNCHANGED vars
      PROVE  Kept(w', faults', batched')
    BY <1>1, <1>2 DEF vars, Kept
<1>3. ASSUME NEW t \in Task, Event(t), UNCHANGED <<faults, batched>>
      PROVE  Kept(w', faults', batched')
    BY <1>1, <1>3, EventKeeps DEF Kept
<1>4. ASSUME NEW n \in Server, Dispatch(n), UNCHANGED <<faults, batched>>
      PROVE  Kept(w', faults', batched')
    BY <1>1, <1>4, DispatchKeeps DEF Kept
<1>5. ASSUME NEW n \in Server, Completes(n), UNCHANGED <<faults, batched>>
      PROVE  Kept(w', faults', batched')
    BY <1>1, <1>5, CompletesKeeps DEF Kept
<1>6. ASSUME FaultBatch
      PROVE  Kept(w', faults', batched')
    BY <1>1, <1>6, FaultBatchKeeps DEF Kept
<1>7. ASSUME Tick
      PROVE  Kept(w', faults', batched')
    <2>1. AllCalm(w')
        BY <1>1, <1>7, TickKeeps
    <2> QED BY <1>1, <1>7, <2>1 DEF Tick, Kept
<1>8. ASSUME FinalizeSimulation
      PROVE  Kept(w', faults', batched')
    <2>1. AllCalm(w')
        BY <1>1, <1>8, FinalizeKeeps DEF FinalizeSimulation
    <2> QED BY <1>1, <1>8, <2>1 DEF FinalizeSimulation, Kept
<1>9. Kept(w', faults', batched')
    BY <1>2, <1>3, <1>4, <1>5, <1>6, <1>7, <1>8 DEF Next
<1> QED BY <1>9 DEF Kept, IInv, AllCalm

\* The services, the attempts and the load ledger agree, and nothing that goes
\* on needs what is gone, after every event.
THEOREM InductiveInvariant == Spec => []IInv
<1>1. Init => IInv
    <2> SUFFICES ASSUME Init PROVE IInv
        OBVIOUS
    <2>1. AllCalm(w)
        BY InitCalm
    <2>2. faults = 0 /\ batched = FALSE
        BY DEF Init
    <2>3. faults \in 0..MaxFaults
        BY <2>2, BoundAssumption
    <2>4. batched \in BOOLEAN
        BY <2>2, Zenon
    <2> QED BY <2>1, <2>3, <2>4 DEF IInv, AllCalm
<1>2. IInv /\ [Next]_vars => IInv'
    BY NextKeeps
<1> QED BY <1>1, <1>2, PTL DEF Spec

\* Types.
THEOREM TypeCorrect == Spec => []TypeOK
<1>1. IInv => TypeOK
    BY DEF IInv, TypeOK, WorldOK
<1> QED BY <1>1, InductiveInvariant, PTL

\* No check of the replica manager, the coordinator or the load ledger fails,
\* and the ledger is empty when the program ends.
THEOREM NoAssertionFails == Spec => []NeverAborts
<1>1. IInv => NeverAborts
    BY DEF IInv, NeverAborts, TypeOK, WorldOK
<1> QED BY <1>1, InductiveInvariant, PTL

\* What an attempt that cannot win does not hold.
Empty(u, t) ==
    LET p == u.pair[t] IN
    /\ u.assigned[t] = IF Valid(u, t, 1) THEN p.node ELSE NoNode
    /\ u.recovering[t] = IF p.immune /\ p.stage[1] \in {"INPUT", "READY", "RUNNING"}
                         THEN p.node ELSE NoNode
    /\ \A n \in Server : u.svc[n].owner = t => n = p.node /\ Valid(u, t, 1)
    /\ \A g \in Generation : p.stage[g] # "ABSENT" =>
         /\ Runs(u.svc[NodeOf(u, t, g)], t) <=> p.stage[g] = "RUNNING"
         /\ ~Valid(u, t, g) => \A k \in FlowsOf(g) : p.flow[k].step # "flying"
    /\ Terminal(u, t) => ~u.task[t].timer /\ ~p.live
    /\ Cardinality({g \in Generation : p.stage[g] = "COMPLETED"}) =
         IF u.task[t].state = "COMPLETED" THEN 1 ELSE 0

LEMMA LoserEmpty ==
    ASSUME NEW u, u \in World, NEW t \in Task, TaskOK(u, t)
    PROVE  Empty(u, t)
<1> DEFINE p == u.pair[t]
<1>1. PlacesAt(u.svc, p, u.task[t].state, t) /\ Ledger(u, t) /\ p \in Pair
    BY WorldTypes DEF TaskOK, Places
<1>2. p.node \in Server \cup {NoNode} /\ HostNode[t] \in Server /\ p.node # HostNode[t]
    BY <1>1, NodeAssumption DEF Pair, PlacesAt
<1>3. \A g \in Generation : Valid(u, t, g) <=> p.stage[g] \in Open
    BY ValidOpen
<1>4. Generation = {0, 1}
    BY DEF Generation
<1>5. /\ u.assigned[t] = IF Valid(u, t, 1) THEN p.node ELSE NoNode
      /\ u.recovering[t] = IF p.immune /\ p.stage[1] \in {"INPUT", "READY", "RUNNING"}
                           THEN p.node ELSE NoNode
    BY <1>1, <1>3, <1>4 DEF Ledger, Held
<1>6. \A n \in Server : u.svc[n].owner = t => n = p.node /\ Valid(u, t, 1)
    BY <1>1, <1>3, <1>4 DEF PlacesAt, Open
<1>7. ASSUME NEW g \in Generation, p.stage[g] # "ABSENT"
      PROVE  Runs(u.svc[NodeOf(u, t, g)], t) <=> p.stage[g] = "RUNNING"
    <2>1. CASE g = 0
        BY <1>1, <1>2, <2>1 DEF PlacesAt, NodeOf
    <2>2. CASE g = 1
        <3>1. p.node \in Server
            BY <1>1, <1>2, <1>7, <2>2 DEF PlacesAt
        <3> QED BY <1>1, <1>2, <2>2, <3>1 DEF PlacesAt, NodeOf
    <2> QED BY <1>4, <2>1, <2>2
<1>8. ASSUME NEW g \in Generation, ~Valid(u, t, g), NEW k \in FlowsOf(g)
      PROVE  p.flow[k].step # "flying"
    <2>1. k \in Flow /\ Of(k) = g /\ Needs(k) \in Open
        BY FlowsKnown, <1>4 DEF FlowsOf, Flow, Needs, Of, Open, Held
    <2>2. CASE Started(u, t)
        BY <1>3, <1>8, <2>1, <2>2, StartedSane DEF Sane, Attempts
    <2>3. CASE ~Started(u, t)
        <3>1. p = NoPair
            BY <2>3, StartedSane DEF Unstarted
        <3> QED BY <2>1, <3>1, NoPairFacts
    <2> QED BY <2>2, <2>3
<1>9. Terminal(u, t) => ~u.task[t].timer /\ ~p.live
    <2>1. CASE Started(u, t)
        BY <2>1, StartedSane DEF Agrees, Terminal
    <2>2. CASE ~Started(u, t)
        BY <2>2, StartedSane, NoPairFacts DEF Unstarted
    <2> QED BY <2>1, <2>2
<1>10. Cardinality({g \in Generation : p.stage[g] = "COMPLETED"}) =
                IF u.task[t].state = "COMPLETED" THEN 1 ELSE 0
    <2> DEFINE won == {g \in Generation : p.stage[g] = "COMPLETED"}
    <2>1. CASE u.task[t].state = "COMPLETED"
        <3>1. Agrees(p, u.task[t])
            BY <2>1, StartedSane DEF Unstarted
        <3>2. PICK g \in Generation : p.stage[g] = "COMPLETED"
            BY <2>1, <3>1 DEF Agrees
        <3>3. p.stage[1 - g] # "COMPLETED"
            BY <3>1, <3>2 DEF Agrees
        <3>4. won = {g}
            BY <1>4, <3>2, <3>3
        <3> QED BY <2>1, <3>4, FS_Singleton
    <2>2. CASE u.task[t].state # "COMPLETED"
        <3>1. won = {}
            <4>1. CASE Started(u, t)
                BY <2>2, <4>1, StartedSane DEF Agrees
            <4>2. CASE ~Started(u, t)
                BY <4>2, StartedSane, NoPairFacts DEF Unstarted
            <4> QED BY <4>1, <4>2
        <3> QED BY <2>2, <3>1, FS_EmptySet
    <2> QED BY <2>1, <2>2
<1> QED BY <1>5, <1>6, <1>7, <1>8, <1>9, <1>10 DEF Empty

\* An attempt that lost, failed or was never admitted holds nothing, and a task
\* is completed by one attempt.
THEOREM LosersAreEmpty == Spec => []LosersHoldNothing
<1>1. IInv => LosersHoldNothing
    <2>1. IInv => \A t \in Task : Empty(w, t)
        BY LoserEmpty DEF IInv, Calm, WorldOK
    <2> QED BY <2>1 DEF LosersHoldNothing, Empty
<1> QED BY <1>1, InductiveInvariant, PTL

\* A replica that has its input runs unless its node is down, and one that is
\* alone on a node that is up is beyond the reach of outages.
THEOREM TakeoverIsGranted == Spec => []TakeoverGranted
<1>1. ASSUME NEW t \in Task, Calm(w, t), w \in World, w.pair[t].live,
             w.pair[t].stage[1] \in {"INPUT", "READY", "RUNNING"}
      PROVE  LET p == w.pair[t] IN
             /\ p.stage[1] = "READY" => ~w.svc[p.node].available /\ ~p.immune
             /\ ~Valid(w, t, 0) /\ w.svc[p.node].available => p.immune
             /\ p.immune => ~Valid(w, t, 0) /\ w.svc[p.node].immune
    <2> DEFINE p == w.pair[t]
    <2>1. TaskOK(w, t) /\ Granted(w, t) /\ p.stage[1] \in Held /\ p.live
        BY <1>1 DEF Calm, Held
    <2>2. Started(w, t)
        BY <2>1, StartedSane, NoPairFacts DEF Unstarted
    <2>3. Sane(w, t) /\ PlacesAt(w.svc, p, w.task[t].state, t) /\ p.node \in Server \cup {NoNode}
        BY <1>1, <2>1, <2>2, StartedSane, WorldTypes, PairTypes DEF TaskOK, Places
    <2>4. p.node \in Server
        BY <2>1, <2>3 DEF PlacesAt, Held
    <2>5. w.svc[p.node].immune <=> p.immune
        BY <2>1, <2>3, <2>4 DEF PlacesAt
    <2>6. p.immune => p.stage[0] \notin Open
        BY <2>3 DEF Sane, Attempts
    <2>7. /\ p.stage[1] = "READY" => ~w.svc[p.node].available /\ ~p.immune
          /\ p.stage[0] \notin Open /\ w.svc[p.node].available => p.immune
        BY <2>1 DEF Granted, Backed
    <2> QED BY <2>5, <2>6, <2>7, ValidOpen
<1>2. IInv => TakeoverGranted
    BY <1>1 DEF IInv, TakeoverGranted, WorldOK
<1> QED BY <1>2, InductiveInvariant, PTL

\* A task with a replica fails before the end of the simulation only when each
\* attempt that could still have won has ended by a cause of its own: a satellite
\* it needs is lost, its node goes down, it is too late or its transfer is refused.
THEOREM FailsWithLastAttempt == Spec => FailsWithLast
<1> DEFINE Keeps ==
             \A t \in Task :
               w.pair[t].live /\ w'.task[t].state = "FAILED" /\ ~w'.ended
                 => \A g \in Generation : Valid(w, t, g) => EndedBy(t, g)
<1>1. ASSUME IInv, [Next]_vars PROVE [Keeps]_vars
    <2>1. AllCalm(w) /\ TypeOK
        BY <1>1 DEF IInv, AllCalm, TypeOK, WorldOK
    <2>2. AllFailLast(w, w') => Keeps
        BY DEF AllFailLast, FailsLast, EndsBy, EndedBy, At
    <2>3. ASSUME NEW t \in Task, Event(t) PROVE AllFailLast(w, w')
        BY <2>1, <2>3, EventKeeps
    <2>4. ASSUME NEW n \in Server, Dispatch(n) \/ Completes(n) PROVE AllFailLast(w, w')
        BY <2>1, <2>4, DispatchKeeps, CompletesKeeps
    <2>5. CASE FaultBatch
        BY <2>1, <2>2, <2>5, FaultBatchKeeps
    <2>6. CASE Tick
        BY <2>1, <2>2, <2>6, TickKeeps
    <2>7. CASE FinalizeSimulation
        BY <2>1, <2>7, FinalizeKeeps DEF FinalizeSimulation
    <2>8. CASE UNCHANGED vars
        BY <2>8
    <2> HIDE DEF Keeps
    <2> QED BY <1>1, <2>2, <2>3, <2>4, <2>5, <2>6, <2>7, <2>8 DEF Next
<1>2. IInv /\ [Next]_vars => [Keeps]_vars
    BY <1>1
<1> QED BY InductiveInvariant, <1>2, PTL DEF Spec, FailsWithLast

=============================================================================
