-------------------- MODULE NetworkTransferEngine_proofs --------------------
(***************************************************************************)
(* What the transfer engine keeps, whatever the constellation, the         *)
(* transfers, their routes and the calls are.  The first part is about     *)
(* the path search, the second about the ledger, the third about the       *)
(* operations of the engine, the last about its steps.                     *)
(***************************************************************************)
EXTENDS NetworkTransferEngine, FoldTheorems, SequenceTheorems

-----------------------------------------------------------------------------
(* What holds inside an operation *)

\* The packets of a transfer.
Counted(e, t) ==
    /\ e.flying[t] + e.received[t] <= e.sent[t]
    /\ e.sent[t] <= PacketCount[t]

\* What each state of a transfer means for its packets and events.
StageOK(e, t) ==
    /\ e.state[t] \in {"UNKNOWN", "REGISTERED"} =>
         e.sent[t] = 0 /\ t \notin e.starting \cup e.optional \cup e.activation
    /\ e.state[t] = "UNKNOWN" => t \in Runtime
    /\ e.state[t] = "REGISTERED" => t \notin Runtime
    /\ e.state[t] = "WAITING_ADMISSION" => CapacityAware(e) /\ e.sent[t] = 0
    /\ e.state[t] = "PAUSED_ROUTE" =>
         CapacityAware(e) /\ 0 < e.sent[t] /\ e.sent[t] < PacketCount[t]
    /\ e.state[t] = "ACTIVE" =>
         /\ e.sent[t] < PacketCount[t]
         /\ CapacityAware(e) => 0 < e.sent[t] /\ e.path[t] # NoPath
    /\ e.state[t] = "SENDER_FINISHED" => e.sent[t] = PacketCount[t]
    /\ t \in e.activation <=> e.state[t] = "ACTIVE" /\ e.sent[t] = 0
    /\ t \in e.sendEvent <=> e.state[t] = "ACTIVE" /\ 0 < e.sent[t]
    /\ t \in e.paused <=> e.state[t] = "PAUSED_ROUTE"
    /\ t \in e.waiting <=> Waits(e, t)
    /\ t \in e.starting => e.sent[t] = 0
    /\ t \in Optional /\ e.state[t] = "WAITING_ADMISSION" => t \in e.optional

\* The flow of a transfer in the registry, and its path.
FlowOK(e, t) ==
    /\ t \in e.active <=>
         /\ 0 < e.sent[t] /\ HasRegistry(e)
         /\ IF CapacityAware(e) THEN e.state[t] \notin Ended ELSE e.state[t] = "ACTIVE"
    /\ e.assigned[t] = e.path[t].hops
    /\ e.path[t] # NoPath =>
         /\ CapacityAware(e) /\ e.state[t] \in {"ACTIVE", "SENDER_FINISHED"}
         /\ e.path[t].rate > 0 /\ \E m \in Sat : <<Source[t], m>> \in e.path[t].hops
         /\ \A h \in e.path[t].hops : {h[1], h[2]} \in UNION Topology

Path == [hops : SUBSET Hop, rate : Nat]
Paths == [Transfer -> Path]

\* What a transfer takes of the link h.
Load(path, h) == [t \in Transfer |-> IF h \in path[t].hops THEN path[t].rate ELSE 0]

\* The ledger adds up the active paths.
Sums(reserved, path) ==
    \A h \in Hop : reserved[h] = SumFunctionOnSet(Load(path, h), Transfer)

\* Every packet sent has a route.
Routed(e, g) == CapacityAware(e) \/ \A t \in Transfer : Reachable(g, t)

\* Whoever received everything has ended, but for the transfers in x.
Open(e, x) ==
    \A t \in Transfer \ x : e.received[t] = PacketCount[t] => e.state[t] \in Ended

Sane(e, x) ==
    /\ e \in Engine /\ e.ok
    /\ \A t \in Transfer : Counted(e, t) /\ StageOK(e, t) /\ FlowOK(e, t)
    /\ Sums(e.reserved, e.path) /\ Open(e, x)

\* All active paths are valid under the routes g.
Valid(e, g) == \A t \in Transfer : e.path[t] # NoPath => IsActivePathValid(e, g, t)

\* The queue holds those that wait, each once.
Queued(e) ==
    /\ \A i, j \in DOMAIN e.pending : i # j => e.pending[i] # e.pending[j]
    /\ \A t \in Transfer : Waits(e, t) <=> \E i \in DOMAIN e.pending : e.pending[i] = t

\* Who waits has no path to be admitted on.
Settled(e, g) ==
    \A t \in Transfer : Waits(e, t) /\ t \notin e.starting => FindPath(e, g, t) = NoPath

\* An optional transfer waits only until its application is up.
OptionalOK(e) ==
    \A t \in Optional : e.state[t] = "WAITING_ADMISSION" => t \in e.starting

Stable(e, g) ==
    /\ Sane(e, {}) /\ Routed(e, g) /\ Valid(e, g) /\ Queued(e) /\ Settled(e, g)
    /\ OptionalOK(e) /\ e.depth = 0

IInv ==
    /\ Stable(eng, links) /\ links \in Topology /\ now \in Nat
    /\ lost \in 0..MaxLoss /\ updates \in 0..MaxUpdates

-----------------------------------------------------------------------------
(* The path search *)

\* The next hops towards d come closer to it.
LEMMA CandidatesDescend ==
    ASSUME NEW g \in Topology, NEW d \in Sat
    PROVE  \E N \in Nat : \E level \in [Sat -> 0..N] :
             \A n \in Sat \ {d} : \A m \in Candidates[g][n][d] :
                m \in Sat /\ {n, m} \in g /\ level[m] < level[n]
<1> DEFINE K == Cardinality(Sat)
           Wider(v) == v \cup UNION {Adjacent(g, m) : m \in v}
           F(f) == [k \in 0..K |-> IF k = 0 THEN {d} ELSE Wider(f[k - 1])]
           within == Within(g, d)
<1>1. K \in Nat
    BY FS_CardinalityType, NetworkAssumption
<1>2. within = CHOOSE f : f = F(f)
    BY DEF Within
<1>3. \E f : f = F(f)
    <2> DEFINE V == SUBSET Sat
               base == {d}
               step == [kv \in (1..K) \X V |-> Wider(kv[2])]
    <2>1. step \in [(1..K) \X V -> V] /\ base \in V
        BY DEF Adjacent
    <2>2. PICK h : IsListFold(h, base, step, K, V)
        <3> HIDE DEF K, base, step, V
        <3> QED BY <1>1, <2>1, ListFold
    <2> DEFINE f == [k \in 0..K |-> h[1..k]]
    <2>3. ASSUME NEW k \in 0..K PROVE F(f)[k] = f[k]
        <3>1. CASE k = 0
            <4>1. 1..k = {}
                BY <3>1
            <4> QED BY <2>2, <3>1, <4>1 DEF IsListFold
        <3>2. CASE k # 0
            <4>1. k \in 1..K /\ k - 1 \in 0..K /\ (1..k) \ {k} = 1..(k - 1) /\ 1..k \in SUBSET (1..K) /\ 1..k # {}
                <5> HIDE DEF K
                <5>1. k \in 1..K /\ k - 1 \in 0..K /\ k \in 1..k
                    BY <1>1, <3>2
                <5>2. (1..k) \ {k} = 1..(k - 1)
                    BY <5>1
                <5>3. 1..k \in SUBSET (1..K)
                    BY <1>1, <5>1
                <5> QED BY <5>1, <5>2, <5>3
            <4>2. Max(1..k) = k
                BY <4>1 DEF Max
            <4>3. h[1..(k - 1)] \in V
                <5>1. 1..(k - 1) \in SUBSET (1..K)
                    BY <1>1, <4>1
                <5> QED BY <2>2, <5>1 DEF IsListFold
            <4>4. h[1..k] = step[<<k, h[1..(k - 1)]>>]
                <5> DEFINE a == 1..k
                <5>1. a \in SUBSET (1..K) /\ a # {} /\ Max(a) = k /\ a \ {k} = 1..(k - 1)
                    BY <4>1, <4>2
                <5> HIDE DEF a, step, V
                <5>2. h[a] = step[<<Max(a), h[a \ {Max(a)}]>>]
                    BY <2>2, <5>1 DEF IsListFold
                <5> QED BY <5>1, <5>2 DEF a
            <4>5. step[<<k, h[1..(k - 1)]>>] = Wider(h[1..(k - 1)])
                BY <4>1, <4>3
            <4>6. F(f)[k] = Wider(f[k - 1]) /\ f[k - 1] = h[1..(k - 1)] /\ f[k] = h[1..k]
                BY <3>2, <4>1
            <4> QED BY <4>4, <4>5, <4>6
        <3> QED BY <3>1, <3>2
    <2>4. F(f) = [k \in 0..K |-> F(f)[k]] /\ f = [k \in 0..K |-> f[k]]
        OBVIOUS
    <2> HIDE DEF f, F
    <2>5. f = F(f)
        BY <2>3, <2>4
    <2> QED BY <2>5
<1>4. within = F(within)
    <2> HIDE DEF F, within
    <2> QED BY <1>2, <1>3
<1>5. within[0] = {d}
    BY <1>1, <1>4
<1> HIDE DEF within, F
<1> DEFINE Near(n) == {k \in 1..K : n \in within[k] \ within[k - 1]}
           level == [n \in Sat |-> IF n = d THEN 0 ELSE IF Near(n) = {} THEN K ELSE Min(Near(n))]
<1>6. ASSUME NEW n \in Sat, Near(n) # {}
      PROVE  /\ Min(Near(n)) \in Near(n) /\ Min(Near(n)) \in 1..K
             /\ \A k \in Near(n) : Min(Near(n)) <= k
    <2>1. Near(n) \subseteq Nat
        OBVIOUS
    <2> DEFINE T == Near(n)
    <2>2. \E k \in T : \A j \in T : k <= j
        <3> HIDE DEF T
        <3> QED BY <1>6, <2>1, NatLeast DEF T
    <2> HIDE DEF T
    <2>3. Min(T) \in T /\ \A k \in T : Min(T) <= k
        BY <2>2 DEF Min
    <2>4. Min(Near(n)) \in Near(n) /\ \A k \in Near(n) : Min(Near(n)) <= k
        BY <2>3 DEF T
    <2>5. Near(n) \subseteq 1..K
        OBVIOUS
    <2> HIDE DEF Near
    <2> QED BY <2>4, <2>5
<1> HIDE DEF K
<1>7. level \in [Sat -> 0..K]
    <2>1. ASSUME NEW n \in Sat PROVE level[n] \in 0..K
        <3>1. Near(n) # {} => Min(Near(n)) \in 1..K
            BY <1>6
        <3> HIDE DEF Near
        <3> QED BY <1>1, <3>1
    <2> QED BY <2>1
<1>8. ASSUME NEW m \in Sat \ {d}, NEW k \in 0..K, m \in within[k]
      PROVE  Near(m) # {} /\ Min(Near(m)) <= k
    <2> DEFINE I == {i \in 0..K : m \in within[i]}
    <2>1. I \subseteq Nat /\ k \in I
        BY <1>8
    <2>2. PICK i \in I : \A j \in I : i <= j
        <3> HIDE DEF I
        <3> QED BY <2>1, NatLeast
    <2>3. i # 0
        BY <1>5
    <2>4. i \in Near(m)
        <3>1. i \in 1..K /\ i - 1 \in 0..K /\ ~(i <= i - 1)
            BY <1>1, <2>3
        <3>2. i - 1 \notin I
            BY <2>2, <3>1
        <3> QED BY <3>1, <3>2
    <2>5. Min(Near(m)) <= i /\ Min(Near(m)) \in 1..K
        BY <1>6, <2>4
    <2>6. i <= k /\ i \in 0..K /\ Near(m) # {}
        BY <2>1, <2>2, <2>4
    <2> HIDE DEF Near
    <2> QED BY <1>1, <2>5, <2>6
<1>9. ASSUME NEW n \in Sat \ {d}, NEW m \in Candidates[g][n][d]
      PROVE  m \in Sat /\ {n, m} \in g /\ level[m] < level[n]
    <2>1. Candidates[g][n][d] = IF Near(n) = {} THEN {} ELSE Adjacent(g, n) \cap within[Min(Near(n)) - 1]
        BY DEF Candidates, within, K
    <2>2. Near(n) # {} /\ m \in Adjacent(g, n) /\ m \in within[Min(Near(n)) - 1]
        BY <1>9, <2>1
    <2>3. m \in Sat /\ {n, m} \in g
        BY <2>2 DEF Adjacent
    <2> DEFINE k == Min(Near(n))
    <2>4. k \in 1..K /\ k - 1 \in 0..K /\ level[n] = k
        <3>1. k \in 1..K /\ level[n] = k
            BY <1>6, <2>2
        <3> HIDE DEF k, level
        <3> QED BY <1>1, <3>1
    <2>5. CASE m = d
        BY <2>3, <2>4, <2>5
    <2>6. CASE m # d
        <3>1. Near(m) # {} /\ Min(Near(m)) <= k - 1 /\ Min(Near(m)) \in 1..K
            <4>1. m \in Sat \ {d} /\ k - 1 \in 0..K /\ m \in within[k - 1]
                BY <2>2, <2>3, <2>4, <2>6
            <4> HIDE DEF k, Near
            <4>2. Near(m) # {} /\ Min(Near(m)) <= k - 1
                BY <1>8, <4>1
            <4> QED BY <1>6, <4>1, <4>2
        <3>2. level[m] = Min(Near(m))
            BY <2>3, <2>6, <3>1
        <3> HIDE DEF level, k, Near
        <3> QED BY <1>1, <2>3, <2>4, <3>1, <3>2
    <2> QED BY <2>5, <2>6
<1> HIDE DEF level
<1> QED BY <1>1, <1>7, <1>9

\* What the search makes of the paths b[m] of the next hops m.
Onward(e, g, t, b, n) ==
    [m \in Candidates[g][n][Destination[t]] |-> Extend(e, <<n, m>>, b[m], m = Destination[t])]

Step(e, g, t, b, n) ==
    IF n = Destination[t] THEN NoPath ELSE Pick(t, Usable(Onward(e, g, t, b, n)))

\* Rates are compared as numbers, and one of finitely many is the widest.
LEMMA WidestIsThere ==
    ASSUME NEW t \in Transfer, NEW paths, DOMAIN paths \subseteq Sat, DOMAIN paths # {},
           \A m \in DOMAIN paths : paths[m].rate \in Nat
    PROVE  Widest(t, paths) \in DOMAIN paths
<1> DEFINE D == DOMAIN paths
           Beats(m, o) == \/ paths[m].rate > paths[o].rate
                          \/ paths[m].rate = paths[o].rate /\ Rank[t][m] <= Rank[t][o]
           good == {s \in SUBSET D : s = {} \/ \E m \in s : \A o \in s : Beats(m, o)}
<1>1. IsFiniteSet(D)
    BY FS_Subset, NetworkAssumption
<1>2. \A m \in D : paths[m].rate \in Nat /\ Rank[t][m] \in Nat
    BY NetworkAssumption
<1>3. \A m, o \in D : Beats(m, o) \/ Beats(o, m)
    BY <1>2
<1>4. \A m, o, p \in D : Beats(m, o) /\ Beats(o, p) => Beats(m, p)
    BY <1>2
<1>5. ASSUME NEW s \in SUBSET D, \A x \in s : s \ {x} \in good PROVE s \in good
    <2>1. CASE s = {}
        BY <2>1
    <2>2. CASE s # {}
        <3>1. PICK x \in s : TRUE
            BY <2>2
        <3>2. Beats(x, x)
            BY <1>3, <3>1
        <3>3. CASE s \ {x} = {}
            BY <3>1, <3>2, <3>3
        <3>4. CASE s \ {x} # {}
            <4>1. PICK m \in s \ {x} : \A o \in s \ {x} : Beats(m, o)
                BY <1>5, <3>1, <3>4
            <4>2. CASE Beats(m, x)
                BY <3>1, <4>1, <4>2
            <4>3. CASE Beats(x, m)
                <5>1. x \in D /\ m \in D /\ \A o \in s : o \in D
                    BY <3>1, <4>1
                <5> HIDE DEF Beats, D
                <5>2. \A o \in s : Beats(x, o)
                    BY <1>4, <3>2, <4>1, <4>3, <5>1
                <5> QED BY <3>1, <5>2
            <4> QED BY <1>3, <3>1, <4>1, <4>2, <4>3
        <3> QED BY <3>3, <3>4
    <2> QED BY <2>1, <2>2
<1>6. \A s \in SUBSET D : s \in good
    <2> HIDE DEF good, D
    <2> QED BY <1>1, <1>5, SubsetInduction
<1>7. D \in good /\ D # {}
    BY <1>6
<1>8. \E m \in D : \A o \in D : Beats(m, o)
    BY <1>7
<1> QED BY <1>8 DEF Widest

\* A step of the search gives the path over one of the next hops, or none.
LEMMA StepPicks ==
    ASSUME NEW e, e.reserved \in [Hop -> Nat], NEW g \in Topology, NEW t \in Transfer,
           NEW b \in [Sat -> Path], NEW n \in Sat, n # Destination[t],
           NEW z, z = Step(e, g, t, b, n)
    PROVE  \/ /\ z = NoPath
              /\ \A m \in Candidates[g][n][Destination[t]] : Onward(e, g, t, b, n)[m].rate <= 0
           \/ \E m \in Candidates[g][n][Destination[t]] :
                z = Onward(e, g, t, b, n)[m] /\ z.rate > 0
<1> DEFINE d == Destination[t]
           C == Candidates[g][n][d]
           o == Onward(e, g, t, b, n)
           u == Usable(o)
<1>1. \A m \in C : m \in Sat /\ {n, m} \in g
    <2>1. d \in Sat /\ n \in Sat \ {d}
        BY NetworkAssumption
    <2> QED BY <2>1, CandidatesDescend
<1>2. ASSUME NEW m \in C PROVE o[m].rate \in Int
    <2>1. Residual(e, <<n, m>>) \in Int
        <3>1. {n, m} \in UNION Topology
            BY <1>1
        <3>2. <<n, m>> \in Hop
            BY <1>1 DEF Hop
        <3>3. Residual(e, <<n, m>>) = Bandwidth[{n, m}] - e.reserved[<<n, m>>]
            BY DEF Residual
        <3>4. Bandwidth[{n, m}] \in Nat
            BY <3>1, NetworkAssumption
        <3>5. e.reserved[<<n, m>>] \in Nat
            BY <3>2
        <3> QED BY <3>3, <3>4, <3>5
    <2>2. b[m].rate \in Nat
        BY <1>1 DEF Path
    <2>3. o[m] = Extend(e, <<n, m>>, b[m], m = d)
        BY DEF Onward
    <2> HIDE DEF o
    <2>4. Min({Residual(e, <<n, m>>), b[m].rate}) \in Int
        <3> DEFINE r == Residual(e, <<n, m>>)
                   q == b[m].rate
        <3>1. r \in Int /\ q \in Int
            BY <2>1, <2>2
        <3> HIDE DEF r, q
        <3>2. \E x \in {r, q} : \A y \in {r, q} : x <= y
            BY <3>1
        <3>3. Min({r, q}) \in {r, q}
            BY <3>2 DEF Min
        <3>4. Min({r, q}) \in Int
            BY <3>1, <3>3
        <3> QED BY <3>4 DEF r, q
    <2> QED BY <2>1, <2>3, <2>4 DEF Extend
<1>3. DOMAIN o = C
    BY DEF Onward
<1>4. DOMAIN u = {m \in C : o[m].rate > 0} /\ \A m \in DOMAIN u : u[m] = o[m]
    BY <1>3 DEF Usable, Restrict
<1> HIDE DEF o, u, C
<1>5. CASE DOMAIN u = {}
    <2>1. z = NoPath
        BY <1>5 DEF Step, Pick, u, o
    <2>2. \A m \in C : o[m].rate <= 0
        BY <1>2, <1>4, <1>5
    <2> QED BY <2>1, <2>2 DEF C, o
<1>6. CASE DOMAIN u # {}
    <2>1. \A m \in DOMAIN u : u[m].rate \in Nat
        BY <1>2, <1>4
    <2>2. DOMAIN u \subseteq Sat
        BY <1>1, <1>4
    <2>3. Widest(t, u) \in DOMAIN u
        BY <1>6, <2>1, <2>2, WidestIsThere
    <2>4. z = u[Widest(t, u)]
        BY <1>6 DEF Step, Pick, u, o
    <2> QED BY <1>4, <2>3, <2>4 DEF C, o
<1> QED BY <1>5, <1>6

LEMMA ResidualInt ==
    ASSUME NEW e, e.reserved \in [Hop -> Nat], NEW g \in Topology,
           NEW n \in Sat, NEW m \in Sat, {n, m} \in g
    PROVE  <<n, m>> \in Hop /\ Residual(e, <<n, m>>) \in Int
<1>1. {n, m} \in UNION Topology /\ <<n, m>> \in Hop
    BY DEF Hop
<1>2. Residual(e, <<n, m>>) = Bandwidth[{n, m}] - e.reserved[<<n, m>>]
    BY DEF Residual
<1>3. Bandwidth[{n, m}] \in Nat /\ e.reserved[<<n, m>>] \in Nat
    BY <1>1, NetworkAssumption
<1> QED BY <1>1, <1>2, <1>3

LEMMA MinOfTwo ==
    ASSUME NEW a \in Int, NEW b \in Int
    PROVE  Min({a, b}) \in Int /\ Min({a, b}) <= a /\ Min({a, b}) <= b /\ Min({a, b}) \in {a, b}
<1>1. \E x \in {a, b} : \A y \in {a, b} : x <= y
    OBVIOUS
<1>2. Min({a, b}) \in {a, b} /\ \A y \in {a, b} : Min({a, b}) <= y
    BY <1>1 DEF Min
<1> QED BY <1>2

LEMMA StepTyped ==
    ASSUME NEW e, e.reserved \in [Hop -> Nat], NEW g \in Topology, NEW t \in Transfer,
           NEW b \in [Sat -> Path], NEW n \in Sat
    PROVE  Step(e, g, t, b, n) \in Path
<1> SUFFICES ASSUME NEW z, z = Step(e, g, t, b, n) PROVE z \in Path
    OBVIOUS
<1> DEFINE d == Destination[t]
<1>1. NoPath \in Path
    BY DEF NoPath, Path
<1>2. CASE n = d \/ z = NoPath
    BY <1>1, <1>2 DEF Step
<1>3. CASE n # d /\ z # NoPath
    <2>1. PICK m \in Candidates[g][n][d] : z = Onward(e, g, t, b, n)[m] /\ z.rate > 0
        BY <1>3, StepPicks
    <2>2. m \in Sat /\ {n, m} \in g
        <3>1. d \in Sat /\ n \in Sat \ {d}
            BY <1>3, NetworkAssumption
        <3> QED BY <3>1, CandidatesDescend
    <2>3. z = Extend(e, <<n, m>>, b[m], m = d)
        BY <2>1 DEF Onward
    <2>4. Residual(e, <<n, m>>) \in Int /\ <<n, m>> \in Hop
        BY <2>2, ResidualInt
    <2>5. b[m].rate \in Nat /\ b[m].hops \in SUBSET Hop
        BY <2>2 DEF Path
    <2>6. Min({Residual(e, <<n, m>>), b[m].rate}) \in Int
        <3> DEFINE r == Residual(e, <<n, m>>)
                   q == b[m].rate
        <3>1. r \in Int /\ q \in Int
            BY <2>4, <2>5
        <3> HIDE DEF r, q
        <3>2. Min({r, q}) \in Int
            BY <3>1, MinOfTwo
        <3> QED BY <3>2 DEF r, q
    <2> DEFINE hops == {<<n, m>>} \cup b[m].hops
               rate == IF m = d THEN Residual(e, <<n, m>>)
                       ELSE Min({Residual(e, <<n, m>>), b[m].rate})
    <2>7. z = [hops |-> hops, rate |-> rate]
        BY <2>3 DEF Extend
    <2>8. hops \in SUBSET Hop /\ rate \in Int
        BY <2>4, <2>5, <2>6
    <2> HIDE DEF hops, rate
    <2>9. rate \in Nat
        BY <2>1, <2>7, <2>8
    <2> QED BY <2>7, <2>8, <2>9 DEF Path
<1> QED BY <1>2, <1>3

\* b is what the search finds from every satellite.
Searched(e, g, t, b) ==
    /\ b \in [Sat -> Path] /\ FindPath(e, g, t) = b[Source[t]]
    /\ \A n \in Sat : b[n] = Step(e, g, t, b, n)

LEMMA SearchEnds ==
    ASSUME NEW e, e.reserved \in [Hop -> Nat], NEW g \in Topology, NEW t \in Transfer
    PROVE  \E b : Searched(e, g, t, b)
<1> DEFINE d == Destination[t]
           F(b) == [n \in Sat |-> Step(e, g, t, b, n)]
           best == CHOOSE b : b = F(b)
           step == [nb \in Sat \X [Sat -> Path] |-> Step(e, g, t, nb[2], nb[1])]
<1>1. d \in Sat
    BY NetworkAssumption
<1>2. PICK N \in Nat : \E level \in [Sat -> 0..N] :
             \A n \in Sat \ {d} : \A m \in Candidates[g][n][d] :
                m \in Sat /\ {n, m} \in g /\ level[m] < level[n]
    BY <1>1, CandidatesDescend
<1>3. PICK level \in [Sat -> 0..N] :
             \A n \in Sat \ {d} : \A m \in Candidates[g][n][d] :
                m \in Sat /\ {n, m} \in g /\ level[m] < level[n]
    BY <1>2
<1>4. NoPath \in Path
    BY DEF NoPath, Path
<1>5. ASSUME NEW b \in [Sat -> Path], NEW n \in Sat PROVE Step(e, g, t, b, n) \in Path
    BY StepTyped
<1>6. step \in [Sat \X [Sat -> Path] -> Path]
    BY <1>5
<1>7. Descends(step, level, Sat, Path)
    <2>1. ASSUME NEW n \in Sat, NEW b \in [Sat -> Path], NEW c \in [Sat -> Path],
                 \A m \in Sat : level[m] < level[n] => b[m] = c[m]
          PROVE  Step(e, g, t, b, n) = Step(e, g, t, c, n)
        <3>1. CASE n = d
            BY <3>1 DEF Step
        <3>2. CASE n # d
            <4>1. \A m \in Candidates[g][n][d] : b[m] = c[m]
                BY <1>3, <2>1, <3>2
            <4>2. Onward(e, g, t, b, n) = Onward(e, g, t, c, n)
                BY <4>1 DEF Onward
            <4> QED BY <4>2 DEF Step
        <3> QED BY <3>1, <3>2
    <2>2. \A n \in Sat : \A b \in [Sat -> Path] : step[<<n, b>>] = Step(e, g, t, b, n)
        OBVIOUS
    <2> HIDE DEF step
    <2> QED BY <2>1, <2>2 DEF Descends
<1>8. PICK b : Recurs(b, step, Sat, Path)
    <2> HIDE DEF step
    <2>1. Path # {}
        BY <1>4
    <2> HIDE DEF Path
    <2> QED BY <1>2, <1>3, <1>6, <1>7, <2>1, LevelRecursion
<1>9. b = F(b) /\ b \in [Sat -> Path]
    BY <1>8 DEF Recurs
<1>10. best = F(best)
    <2> HIDE DEF F
    <2> QED BY <1>9
<1> HIDE DEF best, step
<1>11. \A n \in Sat : best[n] = b[n]
    <2> DEFINE good == {n \in Sat : best[n] = b[n]}
    <2>1. ASSUME NEW n \in Sat, \A m \in Sat : level[m] < level[n] => m \in good
          PROVE  n \in good
        <3>1. best[n] = Step(e, g, t, best, n) /\ b[n] = Step(e, g, t, b, n)
            BY <1>9, <1>10
        <3>2. CASE n = d
            BY <3>1, <3>2 DEF Step
        <3>3. CASE n # d
            <4>1. \A m \in Candidates[g][n][d] : b[m] = best[m]
                BY <1>3, <2>1, <3>3
            <4>2. Onward(e, g, t, b, n) = Onward(e, g, t, best, n)
                BY <4>1 DEF Onward
            <4> QED BY <3>1, <4>2 DEF Step
        <3> QED BY <3>2, <3>3
    <2>2. level \in [Sat -> Nat]
        BY <1>2, <1>3
    <2> HIDE DEF good
    <2>3. \A n \in Sat : n \in good
        BY <2>1, <2>2, LevelInduction
    <2> QED BY <2>3 DEF good
<1>12. FindPath(e, g, t) = best[Source[t]]
    BY DEF FindPath, best, Step, Onward
<1>13. Searched(e, g, t, b)
    <2>1. Source[t] \in Sat
        BY NetworkAssumption
    <2> QED BY <1>9, <1>11, <1>12, <2>1 DEF Searched
<1> QED BY <1>13

\* A path a transfer may be admitted on: wide enough over links of shortest
\* paths, from its source.
Offered(e, g, t, p) ==
    /\ p \in Path /\ p.rate > 0
    /\ \A h \in p.hops : /\ h[2] \in Candidates[g][h[1]][Destination[t]]
                         /\ {h[1], h[2]} \in g /\ Residual(e, h) >= p.rate
    /\ \E m \in Sat : <<Source[t], m>> \in p.hops

LEMMA FoundIsOffered ==
    ASSUME NEW e, e.reserved \in [Hop -> Nat], NEW g \in Topology, NEW t \in Transfer,
           NEW p, p = FindPath(e, g, t), p # NoPath
    PROVE  Offered(e, g, t, p)
<1> DEFINE d == Destination[t]
           Fits(n) == \A h \in n.hops : /\ h[2] \in Candidates[g][h[1]][d]
                                        /\ {h[1], h[2]} \in g /\ Residual(e, h) >= n.rate
<1>1. d \in Sat /\ Source[t] \in Sat /\ Source[t] # d
    BY NetworkAssumption
<1>2. PICK b : Searched(e, g, t, b)
    BY SearchEnds
<1>3. PICK N \in Nat : \E level \in [Sat -> 0..N] :
             \A n \in Sat \ {d} : \A m \in Candidates[g][n][d] :
                m \in Sat /\ {n, m} \in g /\ level[m] < level[n]
    BY <1>1, CandidatesDescend
<1>4. PICK level \in [Sat -> 0..N] :
             \A n \in Sat \ {d} : \A m \in Candidates[g][n][d] :
                m \in Sat /\ {n, m} \in g /\ level[m] < level[n]
    BY <1>3
<1>5. ASSUME NEW n \in Sat, n # d, b[n] # NoPath
      PROVE  \E m \in Candidates[g][n][d] : b[n] = Extend(e, <<n, m>>, b[m], m = d) /\ b[n].rate > 0
    <2>1. b[n] = Step(e, g, t, b, n) /\ b \in [Sat -> Path]
        BY <1>2 DEF Searched
    <2>2. PICK m \in Candidates[g][n][d] : b[n] = Onward(e, g, t, b, n)[m] /\ b[n].rate > 0
        BY <1>5, <2>1, StepPicks
    <2>3. Onward(e, g, t, b, n)[m] = Extend(e, <<n, m>>, b[m], m = d)
        BY DEF Onward
    <2> QED BY <2>2, <2>3
<1>6. ASSUME NEW n \in Sat, n # d, b[n] # NoPath, NEW m \in Candidates[g][n][d],
             b[n] = Extend(e, <<n, m>>, b[m], m = d), b[n].rate > 0
      PROVE  /\ b[n].hops = {<<n, m>>} \cup b[m].hops /\ m \in Sat /\ {n, m} \in g
             /\ b[n].rate <= Residual(e, <<n, m>>) /\ (m # d => b[n].rate <= b[m].rate)
             /\ b[m] \in Path /\ b[n] \in Path /\ Residual(e, <<n, m>>) \in Int
    <2>1. m \in Sat /\ {n, m} \in g
        BY <1>4, <1>6
    <2>2. b[m] \in Path /\ b[n] \in Path
        BY <1>2, <2>1 DEF Searched
    <2>3. Residual(e, <<n, m>>) \in Int
        BY <2>1, ResidualInt
    <2> DEFINE r == Residual(e, <<n, m>>)
               q == b[m].rate
    <2>4. Min({r, q}) <= r /\ Min({r, q}) <= q
        <3>1. r \in Int /\ q \in Int
            BY <2>2, <2>3 DEF Path
        <3> HIDE DEF r, q
        <3> QED BY <3>1, MinOfTwo
    <2>5. b[n].hops = {<<n, m>>} \cup b[m].hops
        BY <1>6 DEF Extend
    <2>6. b[n].rate = IF m = d THEN r ELSE Min({r, q})
        BY <1>6 DEF Extend
    <2>7. b[n].rate <= r /\ (m # d => b[n].rate <= q)
        <3> HIDE DEF r, q
        <3> QED BY <2>3, <2>4, <2>6 DEF r
    <2> QED BY <2>1, <2>2, <2>3, <2>5, <2>7
<1> DEFINE good == {n \in Sat : Fits(b[n])}
<1>7. ASSUME NEW n \in Sat, \A m \in Sat : level[m] < level[n] => m \in good
      PROVE  n \in good
    <2>1. CASE b[n] = NoPath
        <3>1. b[n].hops = {}
            BY <2>1 DEF NoPath
        <3> QED BY <3>1
    <2>2. CASE n = d
        <3>1. b[n] = NoPath
            BY <1>2, <2>2 DEF Searched, Step
        <3> QED BY <2>1, <3>1
    <2>3. CASE n # d /\ b[n] # NoPath
        <3>1. PICK m \in Candidates[g][n][d] : b[n] = Extend(e, <<n, m>>, b[m], m = d) /\ b[n].rate > 0
            BY <1>5, <2>3
        <3>2. /\ b[n].hops = {<<n, m>>} \cup b[m].hops /\ m \in Sat /\ {n, m} \in g
              /\ b[n].rate <= Residual(e, <<n, m>>) /\ (m # d => b[n].rate <= b[m].rate)
              /\ b[m] \in Path /\ b[n] \in Path /\ Residual(e, <<n, m>>) \in Int
            BY <1>6, <2>3, <3>1
        <3>3. level[m] < level[n]
            BY <1>4, <2>3
        <3>4. m \in good
            BY <1>7, <3>2, <3>3
        <3>5. m = d => b[m].hops = {}
            BY <1>2, <1>1 DEF Searched, Step, NoPath
        <3>6. ASSUME NEW h \in b[n].hops
              PROVE  h[2] \in Candidates[g][h[1]][d] /\ {h[1], h[2]} \in g /\ Residual(e, h) >= b[n].rate
            <4>1. CASE h = <<n, m>>
                <5>1. h[1] = n /\ h[2] = m
                    BY <4>1
                <5>2. b[n].rate \in Nat
                    BY <3>2 DEF Path
                <5> QED BY <3>2, <4>1, <5>1, <5>2
            <4>2. CASE h \in b[m].hops
                <5>1. m # d
                    BY <3>5, <4>2
                <5>2. /\ h[2] \in Candidates[g][h[1]][d] /\ {h[1], h[2]} \in g
                      /\ Residual(e, h) >= b[m].rate
                    BY <3>4, <4>2
                <5>3. Residual(e, h) \in Int
                    <6>1. h \in Hop
                        BY <3>2, <4>2 DEF Path
                    <6>2. h = <<h[1], h[2]>> /\ h[1] \in Sat /\ h[2] \in Sat
                        BY <6>1 DEF Hop
                    <6>3. Residual(e, <<h[1], h[2]>>) \in Int
                        BY <5>2, <6>2, ResidualInt
                    <6> QED BY <6>2, <6>3
                <5>4. b[n].rate \in Nat /\ b[m].rate \in Nat /\ b[n].rate <= b[m].rate
                    BY <3>2, <5>1 DEF Path
                <5> QED BY <5>2, <5>3, <5>4
            <4> QED BY <3>2, <4>1, <4>2
        <3> QED BY <3>6
    <2> QED BY <2>1, <2>2, <2>3
<1>8. \A n \in Sat : n \in good
    <2> HIDE DEF good
    <2>1. level \in [Sat -> Nat]
        BY <1>3, <1>4
    <2> QED BY <1>7, <2>1, LevelInduction
<1>9. p = b[Source[t]]
    BY <1>2 DEF Searched
<1>10. Fits(p) /\ p \in Path
    BY <1>1, <1>2, <1>8, <1>9 DEF Searched
<1>11. PICK m \in Candidates[g][Source[t]][d] : p = Extend(e, <<Source[t], m>>, b[m], m = d) /\ p.rate > 0
    BY <1>1, <1>5, <1>9
<1>12. p.hops = {<<Source[t], m>>} \cup b[m].hops /\ m \in Sat
    BY <1>1, <1>6, <1>9, <1>11
<1> QED BY <1>10, <1>11, <1>12 DEF Offered

\* More capacity taken opens no path.
LEMMA ClosedStaysClosed ==
    ASSUME NEW e, e.reserved \in [Hop -> Nat], NEW f, f.reserved \in [Hop -> Nat],
           NEW g \in Topology, NEW t \in Transfer,
           \A h \in Hop : e.reserved[h] <= f.reserved[h],
           FindPath(e, g, t) = NoPath
    PROVE  FindPath(f, g, t) = NoPath
<1> DEFINE d == Destination[t]
<1>1. d \in Sat /\ Source[t] \in Sat
    BY NetworkAssumption
<1>2. PICK b : Searched(e, g, t, b)
    BY SearchEnds
<1>3. PICK c : Searched(f, g, t, c)
    BY SearchEnds
<1>4. PICK N \in Nat : \E level \in [Sat -> 0..N] :
             \A n \in Sat \ {d} : \A m \in Candidates[g][n][d] :
                m \in Sat /\ {n, m} \in g /\ level[m] < level[n]
    BY <1>1, CandidatesDescend
<1>5. PICK level \in [Sat -> 0..N] :
             \A n \in Sat \ {d} : \A m \in Candidates[g][n][d] :
                m \in Sat /\ {n, m} \in g /\ level[m] < level[n]
    BY <1>4
<1> DEFINE good == {n \in Sat : b[n] = NoPath => c[n] = NoPath}
<1>6. ASSUME NEW n \in Sat, \A m \in Sat : level[m] < level[n] => m \in good
      PROVE  n \in good
    <2> SUFFICES ASSUME b[n] = NoPath, c[n] # NoPath PROVE FALSE
        OBVIOUS
    <2>1. n # d
        BY <1>3 DEF Searched, Step
    <2>2. c \in [Sat -> Path] /\ c[n] = Step(f, g, t, c, n) /\ b \in [Sat -> Path] /\ b[n] = Step(e, g, t, b, n)
        BY <1>2, <1>3 DEF Searched
    <2>3. PICK m \in Candidates[g][n][d] : c[n] = Onward(f, g, t, c, n)[m] /\ c[n].rate > 0
        BY <2>1, <2>2, StepPicks
    <2>4. m \in Sat /\ {n, m} \in g /\ level[m] < level[n]
        BY <1>5, <2>1
    <2>5. Onward(e, g, t, b, n)[m].rate <= 0
        <3>1. NoPath.rate = 0
            BY DEF NoPath
        <3>2. \A k \in Candidates[g][n][d] : b[n] = Onward(e, g, t, b, n)[k] => ~(b[n].rate > 0)
            BY <3>1
        <3> QED BY <2>1, <2>2, <3>2, StepPicks
    <2> DEFINE r == Residual(e, <<n, m>>)
               s == Residual(f, <<n, m>>)
               p == b[m].rate
               q == c[m].rate
    <2>6. r \in Int /\ s \in Int /\ <<n, m>> \in Hop
        BY <2>4, ResidualInt
    <2>7. s <= r
        <3>1. r = Bandwidth[{n, m}] - e.reserved[<<n, m>>] /\ s = Bandwidth[{n, m}] - f.reserved[<<n, m>>]
            BY DEF Residual
        <3>2. Bandwidth[{n, m}] \in Nat
            BY <2>4, NetworkAssumption
        <3>3. e.reserved[<<n, m>>] \in Nat /\ f.reserved[<<n, m>>] \in Nat /\ e.reserved[<<n, m>>] <= f.reserved[<<n, m>>]
            BY <2>6
        <3> HIDE DEF r, s
        <3> QED BY <3>1, <3>2, <3>3
    <2>8. p \in Nat /\ q \in Nat /\ b[m] \in Path /\ c[m] \in Path
        BY <2>2, <2>4 DEF Path
    <2>9. Onward(e, g, t, b, n)[m].rate = (IF m = d THEN r ELSE Min({r, p})) /\ c[n].rate = IF m = d THEN s ELSE Min({s, q})
        BY <2>3 DEF Onward, Extend
    <2>10. p = 0 => b[m] = NoPath
        <3>1. b[m] = NoPath \/ b[m].rate > 0
            <4>1. CASE m = d
                BY <1>1, <1>2, <4>1 DEF Searched, Step
            <4>2. CASE m # d
                <5>1. b[m] = Step(e, g, t, b, m)
                    BY <1>2, <2>4 DEF Searched
                <5> QED BY <2>2, <2>4, <4>2, <5>1, StepPicks
            <4> QED BY <4>1, <4>2
        <3> HIDE DEF p
        <3> QED BY <2>8, <3>1 DEF p
    <2>11. b[m] = NoPath => q = 0
        <3>1. b[m] = NoPath => c[m] = NoPath
            BY <1>6, <2>4
        <3> QED BY <3>1 DEF NoPath
    <2> HIDE DEF r, s, p, q
    <2>12. CASE m = d
        BY <2>3, <2>5, <2>6, <2>7, <2>9, <2>12
    <2>13. CASE m # d
        <3>1. Min({r, p}) <= 0 /\ Min({s, q}) > 0
            BY <2>3, <2>5, <2>9, <2>13
        <3>2. Min({r, p}) \in {r, p} /\ Min({s, q}) <= s /\ Min({s, q}) <= q /\ Min({s, q}) \in Int
            <4>1. r \in Int /\ s \in Int /\ p \in Int /\ q \in Int
                BY <2>6, <2>8
            <4>2. Min({r, p}) \in {r, p}
                BY <4>1, MinOfTwo
            <4>3. Min({s, q}) <= s /\ Min({s, q}) <= q /\ Min({s, q}) \in Int
                BY <4>1, MinOfTwo
            <4> QED BY <4>2, <4>3
        <3> QED BY <2>6, <2>7, <2>8, <2>10, <2>11, <3>1, <3>2
    <2> QED BY <2>12, <2>13
<1>7. \A n \in Sat : n \in good
    <2> HIDE DEF good
    <2>1. level \in [Sat -> Nat]
        BY <1>4, <1>5
    <2> QED BY <1>6, <2>1, LevelInduction
<1> QED BY <1>1, <1>2, <1>3, <1>7 DEF Searched

-----------------------------------------------------------------------------
(* The ledger *)

LEMMA LoadTyped ==
    ASSUME NEW path \in Paths, NEW h
    PROVE  Load(path, h) \in [Transfer -> Int] /\ \A t \in Transfer : Load(path, h)[t] >= 0
BY DEF Paths, Path, Load

\* Those that use a link are those that add to its load.
LEMMA LoadIsUse ==
    ASSUME NEW path \in Paths, NEW h
    PROVE  SumFunctionOnSet([t \in Transfer |-> path[t].rate],
                            {t \in Transfer : h \in path[t].hops})
             = SumFunctionOnSet(Load(path, h), Transfer)
<1> DEFINE w == [t \in Transfer |-> path[t].rate]
           v == Load(path, h)
           S == {t \in Transfer : h \in path[t].hops}
           T == Transfer
<1>1. IsFiniteSet(Transfer)
    BY NetworkAssumption
<1>2. w \in [Transfer -> Int]
    BY DEF Paths, Path
<1>3. v \in [Transfer -> Int]
    BY LoadTyped
<1>4. (\A t \in S : w[t] = v[t]) /\ (\A t \in T \ S : v[t] = 0) /\ S \in SUBSET T /\ T \in SUBSET Transfer
    BY DEF Load
<1> HIDE DEF w, v, S, T
<1>5. PICK k : IsSum(k, w, Transfer)
    BY <1>1, <1>2, SumExists
<1>6. PICK l : IsSum(l, v, Transfer)
    BY <1>1, <1>3, SumExists
<1>7. k[S] = l[T]
    BY <1>1, <1>2, <1>3, <1>4, <1>5, <1>6, SumsAgree
<1>8. SumFunctionOnSet(w, S) = k[S] /\ SumFunctionOnSet(v, T) = l[T]
    <2>1. S \in SUBSET Transfer
        BY <1>4
    <2>2. SumFunctionOnSet(w, S) = k[S]
        BY <1>1, <1>2, <1>5, <2>1, SumFunctionIsSum
    <2> QED BY <1>1, <1>3, <1>4, <1>6, <2>2, SumFunctionIsSum
<1> QED BY <1>7, <1>8 DEF w, v, S, T

\* When the path of t changes, each load changes by what t takes.
LEMMA LoadMoves ==
    ASSUME NEW path \in Paths, NEW other \in Paths, NEW t \in Transfer,
           \A u \in Transfer \ {t} : other[u] = path[u], NEW h
    PROVE  LET a == SumFunctionOnSet(Load(path, h), Transfer)
               b == SumFunctionOnSet(Load(other, h), Transfer)
           IN /\ a \in Int /\ b \in Int /\ a >= 0
              /\ b = a + (Load(other, h)[t] - Load(path, h)[t])
              /\ Load(path, h)[t] <= a
<1> DEFINE w == Load(path, h)
           v == Load(other, h)
           T == Transfer
<1>1. IsFiniteSet(Transfer)
    BY NetworkAssumption
<1>2. w \in [Transfer -> Int] /\ v \in [Transfer -> Int] /\ \A u \in Transfer : w[u] >= 0
    BY LoadTyped
<1>3. (\A u \in T \ {t} : w[u] = v[u]) /\ t \in T /\ T \in SUBSET Transfer
    BY DEF Load
<1> HIDE DEF w, v
<1>5. PICK k : IsSum(k, w, Transfer)
    BY <1>1, <1>2, SumExists
<1>6. PICK l : IsSum(l, v, Transfer)
    BY <1>1, <1>2, SumExists
<1>7. l[T] = k[T] + (v[t] - w[t])
    <2> HIDE DEF T
    <2> QED BY <1>1, <1>2, <1>3, <1>5, <1>6, SumMoves
<1>8. SumFunctionOnSet(w, T) = k[T] /\ SumFunctionOnSet(v, T) = l[T]
    <2> HIDE DEF T
    <2> QED BY <1>1, <1>2, <1>3, <1>5, <1>6, SumFunctionIsSum
<1>9. k[Transfer] >= 0 /\ w[t] <= k[Transfer]
    BY <1>1, <1>2, <1>5, SumBounds
<1>10. k[T] \in Int /\ l[T] \in Int
    BY <1>5, <1>6 DEF IsSum
<1> QED BY <1>7, <1>8, <1>9, <1>10 DEF w, v

\* A path reserved, and a path released.
LEMMA ReservedSums ==
    ASSUME NEW path \in Paths, NEW reserved \in [Hop -> Nat], Sums(reserved, path),
           NEW t \in Transfer, path[t] = NoPath, NEW p \in Path
    PROVE  LET after == [h \in Hop |-> reserved[h] + (IF h \in p.hops THEN p.rate ELSE 0)]
           IN after \in [Hop -> Nat] /\ Sums(after, [path EXCEPT ![t] = p])
<1> DEFINE after == [h \in Hop |-> reserved[h] + (IF h \in p.hops THEN p.rate ELSE 0)]
           other == [path EXCEPT ![t] = p]
<1>1. p.rate \in Nat
    BY DEF Path
<1>2. after \in [Hop -> Nat]
    BY <1>1
<1>3. other \in Paths /\ other[t] = p /\ \A u \in Transfer \ {t} : other[u] = path[u]
    BY DEF Paths
<1>4. ASSUME NEW h \in Hop PROVE after[h] = SumFunctionOnSet(Load(other, h), Transfer)
    <2> DEFINE a == SumFunctionOnSet(Load(path, h), Transfer)
               b == SumFunctionOnSet(Load(other, h), Transfer)
    <2>1. reserved[h] = a /\ reserved[h] \in Nat
        BY DEF Sums
    <2>2. Load(path, h)[t] = 0 /\ Load(other, h)[t] = IF h \in p.hops THEN p.rate ELSE 0
        BY <1>3 DEF Load, NoPath
    <2> HIDE DEF other
    <2>3. b = a + (Load(other, h)[t] - Load(path, h)[t]) /\ a \in Int /\ b \in Int
        BY <1>3, LoadMoves
    <2> HIDE DEF a, b
    <2>4. after[h] = reserved[h] + (IF h \in p.hops THEN p.rate ELSE 0)
        OBVIOUS
    <2> QED BY <1>1, <2>1, <2>2, <2>3, <2>4 DEF b
<1> QED BY <1>2, <1>4 DEF Sums

LEMMA ReleasedSums ==
    ASSUME NEW path \in Paths, NEW reserved \in [Hop -> Nat], Sums(reserved, path),
           NEW t \in Transfer, NEW p, p = path[t]
    PROVE  LET after == [h \in Hop |-> reserved[h] - (IF h \in p.hops THEN p.rate ELSE 0)]
           IN /\ after \in [Hop -> Nat] /\ Sums(after, [path EXCEPT ![t] = NoPath])
              /\ \A h \in p.hops : h \in Hop /\ reserved[h] >= p.rate
              /\ \A h \in Hop : after[h] <= reserved[h]
<1> DEFINE after == [h \in Hop |-> reserved[h] - (IF h \in p.hops THEN p.rate ELSE 0)]
           other == [path EXCEPT ![t] = NoPath]
<1>1. p.rate \in Nat /\ p.hops \in SUBSET Hop
    BY DEF Path, Paths
<1>3. other \in Paths /\ other[t] = NoPath /\ \A u \in Transfer \ {t} : other[u] = path[u]
    BY DEF Paths, NoPath, Path
<1>4. ASSUME NEW h \in Hop
      PROVE  /\ after[h] = SumFunctionOnSet(Load(other, h), Transfer) /\ after[h] \in Nat
             /\ after[h] <= reserved[h] /\ (h \in p.hops => reserved[h] >= p.rate)
    <2> DEFINE a == SumFunctionOnSet(Load(path, h), Transfer)
               b == SumFunctionOnSet(Load(other, h), Transfer)
    <2>1. reserved[h] = a /\ reserved[h] \in Nat
        BY DEF Sums
    <2>2. Load(other, h)[t] = 0 /\ Load(path, h)[t] = IF h \in p.hops THEN p.rate ELSE 0
        BY <1>3 DEF Load, NoPath
    <2> HIDE DEF other
    <2>3. b = a + (Load(other, h)[t] - Load(path, h)[t]) /\ a \in Int /\ b \in Int /\ Load(path, h)[t] <= a
        BY <1>3, LoadMoves
    <2> HIDE DEF a, b
    <2>4. after[h] = reserved[h] - (IF h \in p.hops THEN p.rate ELSE 0)
        OBVIOUS
    <2> QED BY <1>1, <2>1, <2>2, <2>3, <2>4 DEF b
<1>5. after \in [Hop -> Nat]
    BY <1>4
<1> QED BY <1>1, <1>4, <1>5 DEF Sums

-----------------------------------------------------------------------------
(* The operations of one transfer *)

LEMMA CheckHolds ==
    ASSUME NEW e \in Engine, e.ok, NEW c, c
    PROVE  Check(e, c) = e
BY DEF Check, Engine

Fields ==
    {"routing", "state", "arrival", "path", "reserved", "pending", "waiting", "starting",
     "optional", "activation", "depth", "sent", "sendEvent", "paused", "flying", "received",
     "active", "assigned", "notified", "ok"}

\* The engine is the same but for the fields in F.
Keeps(e, z, F) == \A k \in Fields \ F : z[k] = e[k]

\* What the engine knows of u is the same.
Same(e, z, u) ==
    /\ z.state[u] = e.state[u] /\ z.path[u] = e.path[u] /\ z.assigned[u] = e.assigned[u]
    /\ z.sent[u] = e.sent[u] /\ z.flying[u] = e.flying[u] /\ z.received[u] = e.received[u]
    /\ u \in z.waiting <=> u \in e.waiting
    /\ u \in z.starting <=> u \in e.starting
    /\ u \in z.optional <=> u \in e.optional
    /\ u \in z.activation <=> u \in e.activation
    /\ u \in z.sendEvent <=> u \in e.sendEvent
    /\ u \in z.paused <=> u \in e.paused
    /\ u \in z.active <=> u \in e.active

\* Only t moves, and not what it has received.
Only(e, z, t) ==
    /\ z \in Engine /\ z.ok = e.ok /\ z.routing = e.routing /\ z.pending = e.pending
    /\ z.depth = e.depth /\ z.arrival = e.arrival /\ z.received = e.received
    /\ \A u \in Transfer \ {t} : Same(e, z, u)

LEMMA OnlyAfter ==
    ASSUME NEW e, NEW y, NEW z, NEW t, Only(e, y, t), Only(y, z, t)
    PROVE  Only(e, z, t)
BY DEF Only, Same

LEMMA SameOK ==
    ASSUME NEW e, NEW z, NEW u, Same(e, z, u), z.routing = e.routing
    PROVE  /\ Counted(e, u) => Counted(z, u)
           /\ StageOK(e, u) => StageOK(z, u)
           /\ FlowOK(e, u) => FlowOK(z, u)
<1>1. CapacityAware(z) = CapacityAware(e) /\ HasRegistry(z) = HasRegistry(e) /\ Waits(z, u) = Waits(e, u)
    BY DEF Same, CapacityAware, HasRegistry, Waits
<1>2. Counted(e, u) => Counted(z, u)
    BY DEF Same, Counted
<1>3. StageOK(e, u) => StageOK(z, u)
    BY <1>1 DEF Same, StageOK
<1>4. FlowOK(e, u) => FlowOK(z, u)
    BY <1>1 DEF Same, FlowOK
<1> QED BY <1>2, <1>3, <1>4

\* A sender hands over its next packet.
Sends(e, z, t) ==
    LET last == e.sent[t] + 1 = PacketCount[t] IN
    /\ z.path = e.path /\ z.reserved = e.reserved
    /\ z.sent[t] = e.sent[t] + 1 /\ z.flying[t] = e.flying[t] + 1
    /\ z.state[t] = IF last THEN "SENDER_FINISHED" ELSE "ACTIVE"
    /\ t \in z.sendEvent <=> ~last
    /\ t \in z.active <=> t \in e.active /\ (CapacityAware(e) \/ ~last)
    /\ z.assigned[t] = IF CapacityAware(e) \/ ~HasRegistry(e) \/ ~last THEN e.assigned[t] ELSE {}
    /\ z.waiting = e.waiting /\ z.starting = e.starting
    /\ z.activation = e.activation /\ z.paused = e.paused

LEMMA SendNextPacketSends ==
    ASSUME NEW e \in Engine, e.ok, NEW g, NEW t \in Transfer, Reachable(g, t),
           e.state[t] = "ACTIVE", t \notin e.paused, e.sent[t] < PacketCount[t],
           HasRegistry(e) => t \in e.active, ~HasRegistry(e) => t \notin e.active,
           NEW z, z = SendNextPacket(e, g, t)
    PROVE  Only(e, z, t) /\ Sends(e, z, t)
<1>1. /\ e.sent[t] \in Nat /\ PacketCount[t] \in Nat /\ e.sent \in [Transfer -> Nat]
      /\ e.flying \in [Transfer -> Nat] /\ e.state \in [Transfer -> State]
      /\ e.assigned \in [Transfer -> SUBSET Hop] /\ e.active \subseteq Transfer
      /\ e.sendEvent \subseteq Transfer
    BY NetworkAssumption DEF Engine
<1>2. Check(e, MaySend(e, g, t)) = e
    <2>1. MaySend(e, g, t)
        BY <1>1 DEF MaySend, Ended, HasFinishedSending
    <2> QED BY <2>1, CheckHolds
<1> DEFINE X == [e.sent EXCEPT ![t] = e.sent[t] + 1]
           Y == [e.flying EXCEPT ![t] = e.flying[t] + 1]
           f == [e EXCEPT !.sent = X, !.flying = Y]
           last == e.sent[t] + 1 = PacketCount[t]
           S == [e.state EXCEPT ![t] = "SENDER_FINISHED"]
           A == [e.assigned EXCEPT ![t] = {}]
<1>3. /\ X \in [Transfer -> Nat] /\ X[t] = e.sent[t] + 1 /\ \A u \in Transfer \ {t} : X[u] = e.sent[u]
      /\ Y \in [Transfer -> Nat] /\ Y[t] = e.flying[t] + 1 /\ \A u \in Transfer \ {t} : Y[u] = e.flying[u]
    BY <1>1
<1>4. /\ S \in [Transfer -> State] /\ S[t] = "SENDER_FINISHED" /\ \A u \in Transfer \ {t} : S[u] = e.state[u]
      /\ A \in [Transfer -> SUBSET Hop] /\ A[t] = {} /\ \A u \in Transfer \ {t} : A[u] = e.assigned[u]
    BY <1>1 DEF State
<1>5. Sent(e, t) = f
    BY DEF Sent, Engine
<1>6. z = IF HasFinishedSending(f, t)
          THEN HandleSenderComplete([f EXCEPT !.sendEvent = f.sendEvent \ {t}], t)
          ELSE [f EXCEPT !.sendEvent = f.sendEvent \cup {t}]
    <2> HIDE DEF f
    <2> QED BY <1>2, <1>5 DEF SendNextPacket
<1> HIDE DEF X, Y, S, A
<1>7. f.sent = X /\ f.sendEvent = e.sendEvent
    BY DEF Engine
<1>8. HasFinishedSending(f, t) <=> last
    BY <1>3, <1>7 DEF HasFinishedSending
<1>9. CASE ~last
    <2> DEFINE E == e.sendEvent \cup {t}
    <2>1. z = [e EXCEPT !.sent = X, !.flying = Y, !.sendEvent = E]
        BY <1>6, <1>7, <1>8, <1>9 DEF Engine
    <2>2. E \subseteq Transfer
        BY <1>1
    <2> HIDE DEF E
    <2>3. z \in Engine
        BY <1>3, <2>1, <2>2, ZenonT(60) DEF Engine
    <2>4. /\ z.sent = X /\ z.flying = Y /\ z.sendEvent = E /\ z.routing = e.routing /\ z.state = e.state
          /\ z.arrival = e.arrival /\ z.path = e.path /\ z.reserved = e.reserved /\ z.pending = e.pending
          /\ z.waiting = e.waiting /\ z.starting = e.starting /\ z.optional = e.optional
          /\ z.activation = e.activation /\ z.depth = e.depth /\ z.paused = e.paused
          /\ z.received = e.received /\ z.active = e.active /\ z.assigned = e.assigned /\ z.ok = e.ok
        BY <2>1 DEF Engine
    <2>5. Only(e, z, t)
        BY <1>3, <2>3, <2>4 DEF Only, Same, E
    <2>6. Sends(e, z, t)
        BY <1>3, <1>9, <2>4 DEF Sends, E
    <2> QED BY <2>5, <2>6
<1>10. CASE last
    <2> DEFINE E == e.sendEvent \ {t}
               y == [e EXCEPT !.sent = X, !.flying = Y, !.sendEvent = E]
               w == [e EXCEPT !.sent = X, !.flying = Y, !.sendEvent = E, !.state = S]
               B == e.active \ {t}
    <2>1. z = HandleSenderComplete(y, t)
        BY <1>6, <1>7, <1>8, <1>10 DEF Engine
    <2>2. E \subseteq Transfer /\ B \subseteq Transfer
        BY <1>1
    <2> HIDE DEF E, B
    <2>3. y \in Engine /\ w \in Engine
        BY <1>3, <1>4, <2>2 DEF Engine
    <2>4. /\ y.state = e.state /\ y.ok = e.ok /\ y.routing = e.routing
          /\ w.active = e.active /\ w.ok = e.ok /\ w.routing = e.routing /\ w.assigned = e.assigned
        BY DEF Engine
    <2>5. Check(y, y.state[t] = "ACTIVE") = y
        BY <2>3, <2>4, CheckHolds
    <2>6. [y EXCEPT !.state[t] = "SENDER_FINISHED"] = w
        BY <2>4 DEF Engine, S
    <2>7. z = IF HasRegistry(e) /\ ~CapacityAware(e) THEN FinalizeFlow(Check(w, t \in w.active), t) ELSE w
        <3> HIDE DEF y, w
        <3> QED BY <2>1, <2>4, <2>5, <2>6 DEF HandleSenderComplete, HasRegistry, CapacityAware
    <2>8. CASE ~(HasRegistry(e) /\ ~CapacityAware(e))
        <3>1. z = w
            BY <2>7, <2>8
        <3>2. /\ z.sent = X /\ z.flying = Y /\ z.sendEvent = E /\ z.routing = e.routing /\ z.state = S
              /\ z.arrival = e.arrival /\ z.path = e.path /\ z.reserved = e.reserved /\ z.pending = e.pending
              /\ z.waiting = e.waiting /\ z.starting = e.starting /\ z.optional = e.optional
              /\ z.activation = e.activation /\ z.depth = e.depth /\ z.paused = e.paused
              /\ z.received = e.received /\ z.active = e.active /\ z.assigned = e.assigned /\ z.ok = e.ok
            BY <3>1 DEF Engine
        <3>3. CapacityAware(e) => HasRegistry(e)
            BY DEF CapacityAware, HasRegistry
        <3> HIDE DEF w, y
        <3>4. Only(e, z, t)
            BY <1>3, <1>4, <2>3, <3>1, <3>2 DEF Only, Same, E
        <3>5. Sends(e, z, t)
            BY <1>3, <1>4, <1>10, <2>8, <3>2, <3>3 DEF Sends, E
        <3> QED BY <3>4, <3>5
    <2>9. CASE HasRegistry(e) /\ ~CapacityAware(e)
        <3>1. Check(w, t \in w.active) = w
            BY <2>3, <2>4, <2>9, CheckHolds
        <3>2. z = [w EXCEPT !.active = B, !.assigned = A]
            BY <2>4, <2>7, <2>9, <3>1 DEF FinalizeFlow, B, A, Engine
        <3>3. z \in Engine
            <4> HIDE DEF w, y
            <4>1. w \in Engine
                BY <2>3
            <4>2. B \in SUBSET Transfer /\ A \in [Transfer -> SUBSET Hop]
                BY <1>4, <2>2
            <4> QED BY <3>2, <4>1, <4>2, ZenonT(60) DEF Engine
        <3>4. /\ z.sent = X /\ z.flying = Y /\ z.sendEvent = E /\ z.routing = e.routing /\ z.state = S
              /\ z.arrival = e.arrival /\ z.path = e.path /\ z.reserved = e.reserved /\ z.pending = e.pending
              /\ z.waiting = e.waiting /\ z.starting = e.starting /\ z.optional = e.optional
              /\ z.activation = e.activation /\ z.depth = e.depth /\ z.paused = e.paused
              /\ z.received = e.received /\ z.active = B /\ z.assigned = A /\ z.ok = e.ok
            BY <3>2, ZenonT(60) DEF Engine
        <3> HIDE DEF w, y
        <3>5. Only(e, z, t)
            BY <1>3, <1>4, <3>3, <3>4 DEF Only, Same, E, B
        <3>6. Sends(e, z, t)
            BY <1>3, <1>4, <1>10, <2>9, <3>4 DEF Sends, E, B
        <3> QED BY <3>5, <3>6
    <2> QED BY <2>8, <2>9
<1> QED BY <1>9, <1>10

LEMMA BeginSendingAdds ==
    ASSUME NEW e \in Engine, e.ok, NEW t \in Transfer, t \notin e.active, e.assigned[t] = {},
           NEW z, z = BeginSending(e, t)
    PROVE  z \in Engine /\ Keeps(e, z, {"active"}) /\ z.active = e.active \cup {t}
<1> DEFINE X == e.active \cup {t}
<1>1. Check(e, t \notin e.active /\ e.assigned[t] = {}) = e
    BY CheckHolds
<1>2. z = [e EXCEPT !.active = X]
    BY <1>1 DEF BeginSending
<1>3. X \in SUBSET Transfer
    BY DEF Engine
<1> HIDE DEF X
<1> QED BY <1>2, <1>3 DEF Engine, Keeps, Fields, X

LEMMA AssignSets ==
    ASSUME NEW e \in Engine, e.ok, NEW t \in Transfer, t \in e.active, e.assigned[t] = {},
           NEW hops \in SUBSET Hop, NEW z, z = Assign(e, t, hops)
    PROVE  /\ z \in Engine /\ Keeps(e, z, {"assigned"})
           /\ z.assigned = [e.assigned EXCEPT ![t] = hops]
<1> DEFINE X == [e.assigned EXCEPT ![t] = hops]
<1>1. Check(e, t \in e.active /\ e.assigned[t] = {}) = e
    BY CheckHolds
<1>2. z = [e EXCEPT !.assigned = X]
    BY <1>1 DEF Assign
<1>3. X \in [Transfer -> SUBSET Hop]
    BY DEF Engine
<1> HIDE DEF X
<1> QED BY <1>2, <1>3 DEF Engine, Keeps, Fields, X

LEMMA EndWaitActivates ==
    ASSUME NEW e \in Engine, e.ok, NEW t \in Transfer, t \in e.waiting,
           NEW z, z = EndWait(e, t)
    PROVE  /\ z \in Engine /\ Keeps(e, z, {"waiting", "state"})
           /\ z.waiting = e.waiting \ {t} /\ z.state = [e.state EXCEPT ![t] = "ACTIVE"]
<1> DEFINE X == e.waiting \ {t}
           Y == [e.state EXCEPT ![t] = "ACTIVE"]
<1>1. Check(e, t \in e.waiting) = e
    BY CheckHolds
<1>2. z = [e EXCEPT !.waiting = X, !.state = Y]
    BY <1>1 DEF EndWait
<1>3. X \in SUBSET Transfer /\ Y \in [Transfer -> State]
    BY DEF Engine, State
<1> HIDE DEF X, Y
<1> QED BY <1>2, <1>3 DEF Engine, Keeps, Fields, X, Y

LEMMA ResumeResumes ==
    ASSUME NEW e \in Engine, e.ok, NEW t \in Transfer, t \in e.paused,
           NEW z, z = ResumeAfterRouteUpdate(e, t)
    PROVE  /\ z \in Engine /\ Keeps(e, z, {"paused", "sendEvent"})
           /\ z.paused = e.paused \ {t} /\ z.sendEvent = e.sendEvent \cup {t}
<1> DEFINE X == e.paused \ {t}
           Y == e.sendEvent \cup {t}
<1>1. Check(e, t \in e.paused) = e
    BY CheckHolds
<1>2. z = [e EXCEPT !.paused = X, !.sendEvent = Y]
    BY <1>1 DEF ResumeAfterRouteUpdate
<1>3. X \in SUBSET Transfer /\ Y \in SUBSET Transfer
    BY DEF Engine
<1> HIDE DEF X, Y
<1> QED BY <1>2, <1>3 DEF Engine, Keeps, Fields, X, Y

LEMMA ReserveReserves ==
    ASSUME NEW e \in Engine, e.ok, Sums(e.reserved, e.path), NEW t \in Transfer, e.path[t] = NoPath,
           NEW p \in Path, p.rate > 0, \A h \in p.hops : Residual(e, h) >= p.rate,
           NEW z, z = Reserve(e, t, p)
    PROVE  /\ z \in Engine /\ Keeps(e, z, {"path", "reserved"})
           /\ z.path = [e.path EXCEPT ![t] = p] /\ Sums(z.reserved, z.path)
           /\ z.reserved = [h \in Hop |-> e.reserved[h] + (IF h \in p.hops THEN p.rate ELSE 0)]
<1> DEFINE X == [e.path EXCEPT ![t] = p]
           Y == [h \in Hop |-> e.reserved[h] + (IF h \in p.hops THEN p.rate ELSE 0)]
<1>1. Check(e, /\ e.path[t] = NoPath /\ p.rate > 0
               /\ \A h \in p.hops : Residual(e, h) >= p.rate) = e
    BY CheckHolds
<1>2. z = [e EXCEPT !.path = X, !.reserved = Y]
    BY <1>1 DEF Reserve
<1>3. e.path \in Paths /\ e.reserved \in [Hop -> Nat]
    BY DEF Engine, Paths, Path
<1>4. X \in Paths /\ Y \in [Hop -> Nat] /\ Sums(Y, X)
    <2>1. Y \in [Hop -> Nat] /\ Sums(Y, X)
        BY <1>3, ReservedSums
    <2> QED BY <1>3, <2>1 DEF Paths
<1> HIDE DEF X, Y
<1>5. z.path = X /\ z.reserved = Y /\ Keeps(e, z, {"path", "reserved"})
    BY <1>2 DEF Engine, Keeps, Fields
<1>6. z \in Engine
    <2>1. X \in [Transfer -> [hops : SUBSET Hop, rate : Nat]]
        BY <1>4 DEF Paths, Path
    <2> QED BY <1>2, <1>4, <2>1 DEF Engine
<1> QED BY <1>4, <1>5, <1>6 DEF X, Y

\* The waiting transfer t gets the path p.
Placed(e, t, p) == EndWait(Reserve(Assign(e, t, p.hops), t, p), t)

Places(e, z, t, p) ==
    /\ z \in Engine /\ Keeps(e, z, {"assigned", "path", "reserved", "waiting", "state"})
    /\ z.assigned = [e.assigned EXCEPT ![t] = p.hops] /\ z.path = [e.path EXCEPT ![t] = p]
    /\ Sums(z.reserved, z.path)
    /\ z.reserved = [h \in Hop |-> e.reserved[h] + (IF h \in p.hops THEN p.rate ELSE 0)]
    /\ z.waiting = e.waiting \ {t} /\ z.state = [e.state EXCEPT ![t] = "ACTIVE"]

LEMMA PlacedPlaces ==
    ASSUME NEW e \in Engine, e.ok, Sums(e.reserved, e.path), NEW t \in Transfer,
           t \in e.active, e.assigned[t] = {}, e.path[t] = NoPath, t \in e.waiting,
           NEW g, NEW p, Offered(e, g, t, p), NEW z, z = Placed(e, t, p)
    PROVE  Places(e, z, t, p)
<1> DEFINE a == Assign(e, t, p.hops)
           r == Reserve(a, t, p)
<1>1. p \in Path /\ p.hops \in SUBSET Hop /\ p.rate > 0 /\ \A h \in p.hops : Residual(e, h) >= p.rate
    BY DEF Offered, Path
<1>2. a \in Engine /\ Keeps(e, a, {"assigned"}) /\ a.assigned = [e.assigned EXCEPT ![t] = p.hops]
    BY <1>1, AssignSets
<1>3. a.ok /\ a.reserved = e.reserved /\ a.path = e.path
    BY <1>2 DEF Keeps, Fields
<1>4. \A h \in p.hops : Residual(a, h) >= p.rate
    BY <1>1, <1>3 DEF Residual
<1> HIDE DEF a
<1>5. /\ r \in Engine /\ Keeps(a, r, {"path", "reserved"})
      /\ r.path = [a.path EXCEPT ![t] = p] /\ Sums(r.reserved, r.path)
      /\ r.reserved = [h \in Hop |-> a.reserved[h] + (IF h \in p.hops THEN p.rate ELSE 0)]
    BY <1>1, <1>2, <1>3, <1>4, ReserveReserves
<1>6. r.ok /\ r.waiting = a.waiting /\ a.waiting = e.waiting /\ r.state = a.state /\ a.state = e.state
    BY <1>2, <1>3, <1>5 DEF Keeps, Fields
<1>7. z = EndWait(r, t)
    BY DEF Placed, r, a
<1> HIDE DEF r
<1>8. /\ z \in Engine /\ Keeps(r, z, {"waiting", "state"})
      /\ z.waiting = r.waiting \ {t} /\ z.state = [r.state EXCEPT ![t] = "ACTIVE"]
    BY <1>5, <1>6, <1>7, EndWaitActivates
<1>9. /\ Keeps(e, z, {"assigned", "path", "reserved", "waiting", "state"})
      /\ z.assigned = a.assigned /\ z.path = r.path /\ z.reserved = r.reserved
    BY <1>2, <1>5, <1>8 DEF Keeps, Fields
<1> QED BY <1>2, <1>3, <1>5, <1>6, <1>8, <1>9 DEF Places

\* The engine after admission was tried for the waiting transfer t.
Tried(e, z, g, t, found) ==
    /\ Only(e, z, t) /\ Sane(z, {}) /\ Valid(z, g)
    /\ z.starting = e.starting
    /\ \A h \in Hop : e.reserved[h] <= z.reserved[h]
    /\ IF found /\ t \notin e.starting THEN z.state[t] \in {"ACTIVE", "SENDER_FINISHED"}
       ELSE z = e

\* A transfer that waits has a path to get, and no packet is missing.
LEMMA WaitingStage ==
    ASSUME NEW e, Sane(e, {}), NEW t \in Transfer, Waits(e, t)
    PROVE  /\ CapacityAware(e) /\ HasRegistry(e) /\ e.path[t] = NoPath /\ e.assigned[t] = {}
           /\ t \in e.waiting /\ t \notin e.sendEvent /\ t \notin e.activation
           /\ e.sent[t] \in Nat /\ PacketCount[t] \in Nat /\ e.sent[t] < PacketCount[t]
           /\ e.received[t] < PacketCount[t]
           /\ t \in e.active <=> 0 < e.sent[t]
           /\ t \in e.paused <=> 0 < e.sent[t]
           /\ MayBeAdmitted(e, t)
<1>1. e \in Engine /\ StageOK(e, t) /\ FlowOK(e, t) /\ Counted(e, t)
    BY DEF Sane
<1>2. /\ e.sent[t] \in Nat /\ PacketCount[t] \in Nat /\ PacketCount[t] > 0
      /\ e.flying[t] \in Nat /\ e.received[t] \in Nat
    BY <1>1, NetworkAssumption DEF Engine
<1>3. e.state[t] \in {"WAITING_ADMISSION", "PAUSED_ROUTE"}
    BY DEF Waits
<1>4. CapacityAware(e) /\ HasRegistry(e)
    BY <1>1, <1>3 DEF StageOK, CapacityAware, HasRegistry
<1>5. e.path[t] = NoPath /\ e.assigned[t] = {}
    BY <1>1, <1>3 DEF FlowOK, NoPath
<1>6. /\ t \in e.waiting /\ t \notin e.sendEvent /\ t \notin e.activation
      /\ e.sent[t] < PacketCount[t] /\ (t \in e.paused <=> 0 < e.sent[t])
    BY <1>1, <1>2, <1>3 DEF StageOK, Waits
<1>7. e.received[t] < PacketCount[t]
    BY <1>1, <1>2, <1>6 DEF Counted
<1>8. t \in e.active <=> 0 < e.sent[t]
    BY <1>1, <1>3, <1>4 DEF FlowOK, Ended
<1>9. MayBeAdmitted(e, t)
    BY <1>2, <1>5, <1>6 DEF MayBeAdmitted, HasFinishedSending
<1> QED BY <1>2, <1>4, <1>5, <1>6, <1>7, <1>8, <1>9

\* An optional transfer that begins is optional no more.
LEMMA OptionalDrops ==
    ASSUME NEW e \in Engine, NEW t, NEW z, z = [e EXCEPT !.optional = @ \ {t}]
    PROVE  z \in Engine /\ Keeps(e, z, {"optional"}) /\ z.optional = e.optional \ {t}
<1> DEFINE X == e.optional \ {t}
<1>1. z = [e EXCEPT !.optional = X]
    OBVIOUS
<1>2. X \in SUBSET Transfer
    BY DEF Engine
<1> HIDE DEF X
<1> QED BY <1>1, <1>2 DEF Engine, Keeps, Fields, X

\* What admission makes of a transfer that begins or goes on.
Begins(e, z, t, p) ==
    LET sent == IF e.sent[t] = 0 THEN 1 ELSE e.sent[t] IN
    /\ Only(e, z, t) /\ z.starting = e.starting /\ z.activation = e.activation
    /\ z.path = [e.path EXCEPT ![t] = p] /\ Sums(z.reserved, z.path)
    /\ z.reserved = [h \in Hop |-> e.reserved[h] + (IF h \in p.hops THEN p.rate ELSE 0)]
    /\ z.assigned[t] = p.hops /\ t \in z.active
    /\ z.sent[t] = sent
    /\ z.flying[t] = e.flying[t] + (sent - e.sent[t])
    /\ z.state[t] = IF sent = PacketCount[t] THEN "SENDER_FINISHED" ELSE "ACTIVE"
    /\ t \in z.sendEvent <=> sent # PacketCount[t]
    /\ t \notin z.paused /\ t \notin z.waiting /\ t \notin z.optional

\* Whether t begins or goes on with the path p.
Beginning(e, g, t, p) == StartSender(Placed(BeginSending(e, t), t, p), g, t)
GoingOn(e, t, p) == ResumeAfterRouteUpdate(Placed(e, t, p), t)

LEMMA BeginningBegins ==
    ASSUME NEW e, Sane(e, {}), NEW g, NEW t \in Transfer, Waits(e, t),
           NEW p, Offered(e, g, t, p), t \notin e.starting, e.sent[t] = 0,
           NEW y, y = Beginning(e, g, t, p), NEW z, z = [y EXCEPT !.optional = @ \ {t}]
    PROVE  Begins(e, z, t, p)
<1> DEFINE b == BeginSending(e, t)
           d == Placed(b, t, p)
<1>1. /\ CapacityAware(e) /\ HasRegistry(e) /\ e.path[t] = NoPath /\ e.assigned[t] = {}
      /\ t \in e.waiting /\ t \notin e.sendEvent /\ t \notin e.activation
      /\ PacketCount[t] \in Nat /\ e.sent[t] < PacketCount[t]
      /\ t \notin e.active /\ t \notin e.paused
    BY WaitingStage
<1>2. e \in Engine /\ e.ok /\ Sums(e.reserved, e.path)
    BY DEF Sane
<1>3. b \in Engine /\ Keeps(e, b, {"active"}) /\ b.active = e.active \cup {t}
    BY <1>1, <1>2, BeginSendingAdds
<1>4. /\ b.ok /\ b.reserved = e.reserved /\ b.path = e.path /\ b.assigned = e.assigned
      /\ b.waiting = e.waiting /\ b.state = e.state
    BY <1>2, <1>3 DEF Keeps, Fields
<1>5. Offered(b, g, t, p)
    BY <1>4 DEF Offered, Residual
<1> HIDE DEF b
<1>6. Places(b, d, t, p)
    <2>1. t \in b.active
        BY <1>3
    <2> QED BY <1>1, <1>2, <1>3, <1>4, <1>5, <2>1, PlacedPlaces
<1> HIDE DEF d
<1>7. /\ d \in Engine /\ Keeps(e, d, {"active", "assigned", "path", "reserved", "waiting", "state"})
      /\ d.active = e.active \cup {t}
      /\ d.assigned = [e.assigned EXCEPT ![t] = p.hops] /\ d.path = [e.path EXCEPT ![t] = p]
      /\ Sums(d.reserved, d.path)
      /\ d.reserved = [h \in Hop |-> e.reserved[h] + (IF h \in p.hops THEN p.rate ELSE 0)]
      /\ d.waiting = e.waiting \ {t} /\ d.state = [e.state EXCEPT ![t] = "ACTIVE"]
    BY <1>3, <1>4, <1>6 DEF Places, Keeps, Fields
<1>8. /\ d.ok = e.ok /\ d.routing = e.routing /\ d.pending = e.pending /\ d.depth = e.depth
      /\ d.arrival = e.arrival /\ d.received = e.received /\ d.sent = e.sent /\ d.flying = e.flying
      /\ d.starting = e.starting /\ d.optional = e.optional /\ d.activation = e.activation
      /\ d.sendEvent = e.sendEvent /\ d.paused = e.paused
    BY <1>7 DEF Keeps, Fields
<1>9. /\ e.state \in [Transfer -> State] /\ e.path \in [Transfer -> [hops : SUBSET Hop, rate : Nat]]
      /\ e.assigned \in [Transfer -> SUBSET Hop] /\ e.flying \in [Transfer -> Nat] /\ e.sent[t] \in Nat
      /\ e.active \subseteq Transfer
    BY <1>2 DEF Engine
<1>10. /\ d.state[t] = "ACTIVE" /\ \A u \in Transfer \ {t} : d.state[u] = e.state[u]
       /\ d.path[t] = p /\ \A u \in Transfer \ {t} : d.path[u] = e.path[u]
       /\ d.assigned[t] = p.hops /\ \A u \in Transfer \ {t} : d.assigned[u] = e.assigned[u]
    BY <1>7, <1>9
<1>11. Only(e, d, t)
    BY <1>7, <1>8, <1>10 DEF Only, Same
<1>12. y = SendNextPacket(d, g, t)
    <2>1. Check(d, d.sent[t] = 0 /\ t \notin d.starting) = d
        BY <1>2, <1>7, <1>8, CheckHolds
    <2> QED BY <2>1 DEF Beginning, StartSender, d, b
<1>13. Only(d, y, t) /\ Sends(d, y, t)
    <2>1. Reachable(g, t)
        BY DEF Offered, Reachable
    <2>2. HasRegistry(d)
        BY <1>1, <1>8 DEF HasRegistry
    <2>3. d.sent[t] < PacketCount[t] /\ d.ok /\ t \notin d.paused /\ t \in d.active /\ d \in Engine
        BY <1>1, <1>2, <1>7, <1>8
    <2> QED BY <1>10, <1>12, <2>1, <2>2, <2>3, SendNextPacketSends
<1>14. z \in Engine /\ Keeps(y, z, {"optional"}) /\ z.optional = y.optional \ {t}
    BY <1>13, OptionalDrops DEF Only
<1>15. /\ z.ok = y.ok /\ z.routing = y.routing /\ z.pending = y.pending /\ z.depth = y.depth
       /\ z.arrival = y.arrival /\ z.received = y.received /\ z.sent = y.sent /\ z.flying = y.flying
       /\ z.starting = y.starting /\ z.activation = y.activation /\ z.state = y.state
       /\ z.sendEvent = y.sendEvent /\ z.paused = y.paused /\ z.path = y.path /\ z.reserved = y.reserved
       /\ z.assigned = y.assigned /\ z.active = y.active /\ z.waiting = y.waiting
    BY <1>14 DEF Keeps, Fields
<1>16. Only(y, z, t)
    BY <1>14, <1>15 DEF Only, Same
<1>17. Only(e, z, t)
    BY <1>11, <1>13, <1>16, OnlyAfter
<1>18. CapacityAware(d)
    BY <1>1, <1>8 DEF CapacityAware
<1>19. /\ y.path = d.path /\ y.reserved = d.reserved
       /\ y.sent[t] = 1 /\ y.flying[t] = e.flying[t] + 1
       /\ y.state[t] = IF 1 = PacketCount[t] THEN "SENDER_FINISHED" ELSE "ACTIVE"
       /\ t \in y.sendEvent <=> 1 # PacketCount[t]
       /\ t \in y.active /\ y.assigned[t] = d.assigned[t]
       /\ y.waiting = d.waiting /\ y.starting = d.starting
       /\ y.activation = d.activation /\ y.paused = d.paused
    <2>1. t \in d.active
        BY <1>7
    <2> QED BY <1>8, <1>13, <1>18, <2>1 DEF Sends
<1>20. t \notin d.waiting /\ t \notin z.optional
    BY <1>7, <1>14
<1> QED BY <1>1, <1>7, <1>8, <1>9, <1>10, <1>15, <1>17, <1>19, <1>20 DEF Begins

LEMMA GoingOnBegins ==
    ASSUME NEW e, Sane(e, {}), NEW g, NEW t \in Transfer, Waits(e, t),
           NEW p, Offered(e, g, t, p), e.sent[t] # 0,
           NEW y, y = GoingOn(e, t, p), NEW z, z = [y EXCEPT !.optional = @ \ {t}]
    PROVE  Begins(e, z, t, p)
<1> DEFINE d == Placed(e, t, p)
<1>1. /\ CapacityAware(e) /\ HasRegistry(e) /\ e.path[t] = NoPath /\ e.assigned[t] = {}
      /\ t \in e.waiting /\ t \notin e.sendEvent /\ t \notin e.activation
      /\ PacketCount[t] \in Nat /\ e.sent[t] < PacketCount[t] /\ e.sent[t] \in Nat
      /\ t \in e.active /\ t \in e.paused
    BY WaitingStage
<1>2. e \in Engine /\ e.ok /\ Sums(e.reserved, e.path)
    BY DEF Sane
<1>3. Places(e, d, t, p)
    BY <1>1, <1>2, PlacedPlaces
<1> HIDE DEF d
<1>4. /\ d \in Engine /\ Keeps(e, d, {"assigned", "path", "reserved", "waiting", "state"})
      /\ d.assigned = [e.assigned EXCEPT ![t] = p.hops] /\ d.path = [e.path EXCEPT ![t] = p]
      /\ Sums(d.reserved, d.path)
      /\ d.reserved = [h \in Hop |-> e.reserved[h] + (IF h \in p.hops THEN p.rate ELSE 0)]
      /\ d.waiting = e.waiting \ {t} /\ d.state = [e.state EXCEPT ![t] = "ACTIVE"]
    BY <1>3 DEF Places
<1>5. /\ d.ok = e.ok /\ d.routing = e.routing /\ d.pending = e.pending /\ d.depth = e.depth
      /\ d.arrival = e.arrival /\ d.received = e.received /\ d.sent = e.sent /\ d.flying = e.flying
      /\ d.starting = e.starting /\ d.optional = e.optional /\ d.activation = e.activation
      /\ d.sendEvent = e.sendEvent /\ d.paused = e.paused /\ d.active = e.active
    BY <1>4 DEF Keeps, Fields
<1>6. /\ e.state \in [Transfer -> State] /\ e.path \in [Transfer -> [hops : SUBSET Hop, rate : Nat]]
      /\ e.assigned \in [Transfer -> SUBSET Hop] /\ e.flying \in [Transfer -> Nat]
    BY <1>2 DEF Engine
<1>7. /\ d.state[t] = "ACTIVE" /\ \A u \in Transfer \ {t} : d.state[u] = e.state[u]
      /\ d.path[t] = p /\ \A u \in Transfer \ {t} : d.path[u] = e.path[u]
      /\ d.assigned[t] = p.hops /\ \A u \in Transfer \ {t} : d.assigned[u] = e.assigned[u]
    BY <1>4, <1>6
<1>8. /\ y \in Engine /\ Keeps(d, y, {"paused", "sendEvent"})
      /\ y.paused = d.paused \ {t} /\ y.sendEvent = d.sendEvent \cup {t}
    <2>1. y = ResumeAfterRouteUpdate(d, t)
        BY DEF GoingOn, d
    <2>2. t \in d.paused /\ d.ok
        BY <1>1, <1>2, <1>5
    <2> QED BY <1>4, <2>1, <2>2, ResumeResumes
<1>9. z \in Engine /\ Keeps(y, z, {"optional"}) /\ z.optional = y.optional \ {t}
    BY <1>8, OptionalDrops
<1>10. /\ z.ok = e.ok /\ z.routing = e.routing /\ z.pending = e.pending /\ z.depth = e.depth
       /\ z.arrival = e.arrival /\ z.received = e.received /\ z.sent = e.sent /\ z.flying = e.flying
       /\ z.starting = e.starting /\ z.activation = e.activation /\ z.state = d.state
       /\ z.sendEvent = e.sendEvent \cup {t} /\ z.paused = e.paused \ {t} /\ z.path = d.path
       /\ z.reserved = d.reserved /\ z.optional = e.optional \ {t}
       /\ z.assigned = d.assigned /\ z.active = e.active /\ z.waiting = e.waiting \ {t}
    BY <1>4, <1>5, <1>8, <1>9 DEF Keeps, Fields
<1>11. Only(e, z, t)
    BY <1>7, <1>9, <1>10 DEF Only, Same
<1>12. z.flying[t] = e.flying[t] + (e.sent[t] - e.sent[t])
    BY <1>1, <1>6, <1>10
<1>13. /\ t \in z.sendEvent /\ t \notin z.paused /\ t \notin z.waiting /\ t \notin z.optional
       /\ t \in z.active /\ z.sent[t] = e.sent[t] /\ z.state[t] = "ACTIVE" /\ e.sent[t] # PacketCount[t]
       /\ z.assigned[t] = p.hops
    BY <1>1, <1>7, <1>10
<1>14. /\ z.path = [e.path EXCEPT ![t] = p] /\ Sums(z.reserved, z.path)
       /\ z.reserved = [h \in Hop |-> e.reserved[h] + (IF h \in p.hops THEN p.rate ELSE 0)]
    BY <1>4, <1>10
<1> DEFINE sent == IF e.sent[t] = 0 THEN 1 ELSE e.sent[t]
<1>15. sent = e.sent[t]
    OBVIOUS
<1> HIDE DEF sent
<1> QED BY <1>10, <1>11, <1>12, <1>13, <1>14, <1>15 DEF Begins, sent

\* Who begins is in a legal state again, and on a path that the routes have.
LEMMA BeginsSound ==
    ASSUME NEW e, Sane(e, {}), NEW g \in Topology, Valid(e, g), NEW t \in Transfer, Waits(e, t),
           t \notin e.starting, NEW p, Offered(e, g, t, p), NEW z, Begins(e, z, t, p)
    PROVE  Tried(e, z, g, t, TRUE)
<1>1. /\ CapacityAware(e) /\ HasRegistry(e) /\ t \notin e.sendEvent /\ t \notin e.activation
      /\ PacketCount[t] \in Nat /\ e.sent[t] < PacketCount[t] /\ e.sent[t] \in Nat
      /\ e.received[t] < PacketCount[t] /\ e.path[t] = NoPath
    BY WaitingStage
<1>2. e \in Engine /\ e.ok /\ Counted(e, t) /\ StageOK(e, t)
    BY DEF Sane
<1>3. /\ e.flying[t] \in Nat /\ e.received[t] \in Nat
      /\ e.path \in [Transfer -> [hops : SUBSET Hop, rate : Nat]]
    BY <1>2 DEF Engine
<1> DEFINE sent == IF e.sent[t] = 0 THEN 1 ELSE e.sent[t]
<1>4. /\ Only(e, z, t) /\ z.starting = e.starting /\ z.activation = e.activation
      /\ z.path = [e.path EXCEPT ![t] = p] /\ Sums(z.reserved, z.path)
      /\ z.reserved = [h \in Hop |-> e.reserved[h] + (IF h \in p.hops THEN p.rate ELSE 0)]
      /\ z.assigned[t] = p.hops /\ t \in z.active
      /\ z.sent[t] = sent
      /\ z.flying[t] = e.flying[t] + (sent - e.sent[t])
      /\ z.state[t] = (IF sent = PacketCount[t] THEN "SENDER_FINISHED" ELSE "ACTIVE")
      /\ (t \in z.sendEvent <=> sent # PacketCount[t])
      /\ t \notin z.paused /\ t \notin z.waiting /\ t \notin z.optional
    BY DEF Begins
<1>5. sent \in Nat /\ 0 < sent /\ sent <= PacketCount[t] /\ e.sent[t] <= sent
    BY <1>1
<1> HIDE DEF sent
<1>6. /\ p \in Path /\ p.rate > 0 /\ \E m \in Sat : <<Source[t], m>> \in p.hops
      /\ \A h \in p.hops : h \in Hop /\ h[2] \in Candidates[g][h[1]][Destination[t]]
                           /\ Residual(e, h) >= p.rate /\ {h[1], h[2]} \in g
      /\ p.rate \in Nat
    BY DEF Offered, Path
<1>7. p # NoPath
    BY <1>6 DEF NoPath
<1>8. z \in Engine /\ z.ok /\ z.routing = e.routing /\ z.received = e.received
      /\ \A u \in Transfer \ {t} : Same(e, z, u)
    BY <1>2, <1>4 DEF Only
<1>9. CapacityAware(z) /\ HasRegistry(z)
    BY <1>1, <1>8 DEF CapacityAware, HasRegistry
<1>10. Counted(z, t)
    BY <1>1, <1>2, <1>3, <1>4, <1>5, <1>8 DEF Counted
<1>11. z.path[t] = p
    BY <1>3, <1>4
<1>12. StageOK(z, t)
    <2>1. z.state[t] \in {"ACTIVE", "SENDER_FINISHED"}
        BY <1>4
    <2>2. ~Waits(z, t)
        BY <2>1 DEF Waits
    <2> QED BY <1>1, <1>4, <1>5, <1>7, <1>9, <1>11, <2>1, <2>2 DEF StageOK
<1>13. FlowOK(z, t)
    <2>1. z.state[t] \in {"ACTIVE", "SENDER_FINISHED"}
        BY <1>4
    <2>2. \A h \in p.hops : {h[1], h[2]} \in UNION Topology
        BY <1>6
    <2> QED BY <1>4, <1>5, <1>6, <1>9, <1>11, <2>1, <2>2 DEF FlowOK, Ended
<1>14. \A u \in Transfer : Counted(z, u) /\ StageOK(z, u) /\ FlowOK(z, u)
    <2>1. ASSUME NEW u \in Transfer \ {t} PROVE Counted(z, u) /\ StageOK(z, u) /\ FlowOK(z, u)
        <3>1. Counted(e, u) /\ StageOK(e, u) /\ FlowOK(e, u) /\ Same(e, z, u)
            BY <1>8 DEF Sane
        <3> QED BY <1>8, <3>1, SameOK
    <2> QED BY <1>10, <1>12, <1>13, <2>1
<1>15. Open(z, {})
    <2>1. ASSUME NEW u \in Transfer, z.received[u] = PacketCount[u] PROVE z.state[u] \in Ended
        <3>1. u # t
            BY <1>1, <1>3, <1>8, <2>1
        <3>2. e.state[u] \in Ended
            BY <1>8, <2>1 DEF Sane, Open
        <3> QED BY <1>8, <3>1, <3>2 DEF Same
    <2> QED BY <2>1 DEF Open
<1>16. \A h \in Hop : /\ e.reserved[h] \in Nat /\ z.reserved[h] = e.reserved[h] + (IF h \in p.hops THEN p.rate ELSE 0)
                      /\ e.reserved[h] <= z.reserved[h]
    <2>1. \A h \in Hop : e.reserved[h] \in Nat
        BY <1>2 DEF Engine
    <2> QED BY <1>4, <1>6, <2>1
<1>17. \A h \in p.hops : z.reserved[h] <= Bandwidth[{h[1], h[2]}]
    <2>1. ASSUME NEW h \in p.hops PROVE z.reserved[h] <= Bandwidth[{h[1], h[2]}]
        <3>1. Bandwidth[{h[1], h[2]}] - e.reserved[h] >= p.rate /\ h \in Hop /\ {h[1], h[2]} \in UNION Topology
            BY <1>6 DEF Residual
        <3>2. Bandwidth[{h[1], h[2]}] \in Nat
            BY <3>1, NetworkAssumption
        <3>3. z.reserved[h] = e.reserved[h] + p.rate /\ e.reserved[h] \in Nat
            BY <1>16, <3>1
        <3> QED BY <1>6, <3>1, <3>2, <3>3
    <2> QED BY <2>1
<1>18. Valid(z, g)
    <2>1. ASSUME NEW u \in Transfer, z.path[u] # NoPath, NEW h \in z.path[u].hops
          PROVE  /\ h[2] \in Candidates[g][h[1]][Destination[u]]
                 /\ z.reserved[h] <= Bandwidth[{h[1], h[2]}]
        <3>1. CASE u = t
            BY <1>6, <1>11, <1>17, <3>1
        <3>2. CASE u # t
            <4>1. z.path[u] = e.path[u]
                BY <1>8, <3>2 DEF Same
            <4>2. h[2] \in Candidates[g][h[1]][Destination[u]] /\ e.reserved[h] <= Bandwidth[{h[1], h[2]}]
                BY <2>1, <4>1 DEF Valid, IsActivePathValid
            <4>3. CASE h \in p.hops
                BY <1>17, <4>2, <4>3
            <4>4. CASE h \notin p.hops
                <5>1. h \in Hop
                    BY <1>3, <2>1, <4>1
                <5>2. z.reserved[h] = e.reserved[h]
                    BY <1>16, <4>4, <5>1
                <5> QED BY <4>2, <5>2
            <4> QED BY <4>3, <4>4
        <3> QED BY <3>1, <3>2
    <2> QED BY <2>1 DEF Valid, IsActivePathValid
<1>19. Sane(z, {})
    BY <1>4, <1>8, <1>14, <1>15 DEF Sane
<1> QED BY <1>4, <1>16, <1>18, <1>19 DEF Tried

LEMMA TryTries ==
    ASSUME NEW e, Sane(e, {}), NEW g \in Topology, Valid(e, g), NEW t \in Transfer, Waits(e, t),
           NEW z, z = Try(e, g, t)
    PROVE  Tried(e, z, g, t, FindPath(e, g, t) # NoPath)
<1> DEFINE p == FindPath(e, g, t)
           b == BeginSending(e, t)
<1>1. e \in Engine /\ e.ok /\ e.reserved \in [Hop -> Nat]
    BY DEF Sane, Engine
<1>2. MayBeAdmitted(e, t) /\ e.sent[t] < PacketCount[t] /\ e.sent[t] \in Nat /\ PacketCount[t] \in Nat
    BY WaitingStage
<1>3. Check(e, MayBeAdmitted(e, t)) = e
    BY <1>1, <1>2, CheckHolds
<1>4. z = Admit(e, g, t, p)
    <2>1. e.state[t] \notin Ended
        BY DEF Waits, Ended
    <2> QED BY <2>1 DEF Try, TryActivate
<1>5. p # NoPath => Offered(e, g, t, p)
    BY <1>1, FoundIsOffered
<1> HIDE DEF p
<1>6. CASE t \in e.starting \/ p = NoPath
    <2>1. z = e
        BY <1>3, <1>4, <1>6 DEF Admit
    <2>2. Only(e, z, t)
        BY <1>1, <2>1 DEF Only, Same
    <2>3. \A h \in Hop : e.reserved[h] <= z.reserved[h]
        BY <1>1, <2>1
    <2> QED BY <1>6, <2>1, <2>2, <2>3 DEF Tried, p
<1>7. CASE t \notin e.starting /\ p # NoPath
    <2>1. CASE e.sent[t] = 0
        <3> DEFINE y == Beginning(e, g, t, p)
        <3>1. z = [y EXCEPT !.optional = @ \ {t}]
            BY <1>3, <1>4, <1>7, <2>1 DEF Admit, Beginning, Placed
        <3> HIDE DEF y
        <3>2. Begins(e, z, t, p)
            BY <1>5, <1>7, <2>1, <3>1, BeginningBegins DEF y
        <3>3. Tried(e, z, g, t, TRUE)
            BY <1>5, <1>7, <3>2, BeginsSound
        <3> QED BY <1>7, <3>3 DEF Tried, p
    <2>2. CASE e.sent[t] # 0
        <3> DEFINE y == GoingOn(e, t, p)
        <3>1. ~HasFinishedSending(e, t)
            BY <1>2 DEF HasFinishedSending
        <3>2. z = [y EXCEPT !.optional = @ \ {t}]
            BY <1>3, <1>4, <1>7, <2>2, <3>1 DEF Admit, GoingOn, Placed
        <3> HIDE DEF y
        <3>3. Begins(e, z, t, p)
            BY <1>5, <1>7, <2>2, <3>2, GoingOnBegins DEF y
        <3>4. Tried(e, z, g, t, TRUE)
            BY <1>5, <1>7, <3>3, BeginsSound
        <3> QED BY <1>7, <3>4 DEF Tried, p
    <2> QED BY <2>1, <2>2
<1> QED BY <1>6, <1>7

-----------------------------------------------------------------------------
(* The queue is tried in order *)

\* A transfer that was admitted.
Admitted(e, z, t) == Waits(e, t) /\ z.state[t] \in {"ACTIVE", "SENDER_FINISHED"}

\* The transfers at S of the queue of e were tried.
Attempted(e, z, g, S) ==
    /\ Sane(z, {}) /\ Valid(z, g) /\ z.starting = e.starting /\ z.pending = e.pending
    /\ z.routing = e.routing /\ z.depth = e.depth /\ z.arrival = e.arrival /\ z.received = e.received
    /\ \A u \in Transfer : Same(e, z, u) \/ (Admitted(e, z, u) /\ \E i \in S : e.pending[i] = u)
    /\ \A i \in S : LET u == e.pending[i] IN
         Waits(z, u) /\ u \notin e.starting => FindPath(z, g, u) = NoPath

LEMMA AttemptNext ==
    ASSUME NEW e, Sane(e, {}), Queued(e), NEW g \in Topology,
           NEW S, S \subseteq DOMAIN e.pending, NEW i \in DOMAIN e.pending, i \notin S,
           NEW v, Attempted(e, v, g, S), NEW z, z = Try(v, g, e.pending[i])
    PROVE  Attempted(e, z, g, S \cup {i})
<1> DEFINE t == e.pending[i]
<1>1. t \in Transfer /\ e.pending \in Seq(Transfer)
    BY DEF Sane, Engine
<1>2. Waits(e, t)
    BY <1>1 DEF Queued
<1>3. /\ Sane(v, {}) /\ Valid(v, g) /\ v.starting = e.starting /\ v.pending = e.pending
      /\ v.routing = e.routing /\ v.depth = e.depth /\ v.arrival = e.arrival /\ v.received = e.received
      /\ \A u \in Transfer : Same(e, v, u) \/ (Admitted(e, v, u) /\ \E j \in S : e.pending[j] = u)
      /\ \A j \in S : Waits(v, e.pending[j]) /\ e.pending[j] \notin e.starting =>
                        FindPath(v, g, e.pending[j]) = NoPath
    BY DEF Attempted
<1>4. Same(e, v, t)
    <2>1. \A j \in S : e.pending[j] # t
        BY DEF Queued
    <2> QED BY <1>1, <1>3, <2>1
<1>5. Waits(v, t)
    BY <1>2, <1>4 DEF Waits, Same
<1> HIDE DEF t
<1> DEFINE found == FindPath(v, g, t) # NoPath
<1>6. Tried(v, z, g, t, found)
    BY <1>1, <1>3, <1>5, TryTries DEF t
<1>7. /\ Only(v, z, t) /\ Sane(z, {}) /\ Valid(z, g) /\ z.starting = v.starting
      /\ \A h \in Hop : v.reserved[h] <= z.reserved[h]
      /\ IF found /\ t \notin v.starting THEN z.state[t] \in {"ACTIVE", "SENDER_FINISHED"} ELSE z = v
    BY <1>6 DEF Tried
<1>8. /\ z.pending = v.pending /\ z.routing = v.routing /\ z.depth = v.depth /\ z.arrival = v.arrival
      /\ z.received = v.received /\ \A u \in Transfer \ {t} : Same(v, z, u)
    BY <1>7 DEF Only
<1>9. ASSUME NEW u \in Transfer
      PROVE  Same(e, z, u) \/ (Admitted(e, z, u) /\ \E j \in S \cup {i} : e.pending[j] = u)
    <2>1. CASE u = t
        <3>1. CASE z = v
            BY <1>4, <2>1, <3>1
        <3>2. CASE z # v
            BY <1>2, <1>7, <2>1, <3>2 DEF Admitted, t
        <3> QED BY <3>1, <3>2
    <2>2. CASE u # t
        <3>1. Same(v, z, u)
            BY <1>8, <2>2
        <3>2. CASE Same(e, v, u)
            BY <3>1, <3>2 DEF Same
        <3>3. CASE Admitted(e, v, u) /\ \E j \in S : e.pending[j] = u
            BY <3>1, <3>3 DEF Admitted, Same
        <3> QED BY <1>3, <3>2, <3>3
    <2> QED BY <2>1, <2>2
<1>10. ASSUME NEW j \in S \cup {i}, Waits(z, e.pending[j]), e.pending[j] \notin e.starting
       PROVE  FindPath(z, g, e.pending[j]) = NoPath
    <2> DEFINE u == e.pending[j]
    <2>1. u \in Transfer
        BY <1>1
    <2>2. CASE u = t
        <3>1. ~(found /\ t \notin v.starting)
            BY <1>7, <1>10, <2>2 DEF Waits
        <3>2. z = v /\ ~found
            BY <1>3, <1>7, <1>10, <2>2, <3>1
        <3> QED BY <2>2, <3>2
    <2>3. CASE u # t
        <3>1. j \in S
            BY <2>3 DEF t
        <3>2. Waits(v, u)
            BY <1>8, <1>10, <2>1, <2>3 DEF Same, Waits
        <3>3. FindPath(v, g, u) = NoPath
            BY <1>3, <1>10, <3>1, <3>2
        <3>4. v.reserved \in [Hop -> Nat] /\ z.reserved \in [Hop -> Nat]
            BY <1>3, <1>7 DEF Sane, Engine
        <3> HIDE DEF u
        <3>5. FindPath(z, g, u) = NoPath
            BY <1>7, <2>1, <3>3, <3>4, ClosedStaysClosed
        <3> QED BY <3>5 DEF u
    <2> QED BY <2>2, <2>3
<1> HIDE DEF found
<1> QED BY <1>3, <1>7, <1>8, <1>9, <1>10 DEF Attempted

LEMMA AllAttempted ==
    ASSUME NEW e, Sane(e, {}), Queued(e), NEW g \in Topology, Valid(e, g),
           NEW z, z = TryAll(e, g)
    PROVE  Attempted(e, z, g, DOMAIN e.pending)
<1> DEFINE T == DOMAIN e.pending
           Told(v, i) == Try(v, g, e.pending[i])
           Good(v, S) == Attempted(e, v, g, S)
           P == [s \in SUBSET T |-> {v \in Engine : Good(v, s)}]
           choose == [s \in SUBSET T |-> Max(s)]
           step == [xv \in T \X Engine |-> Told(xv[2], xv[1])]
           F(h) == [s \in SUBSET T |-> IF s = {} THEN e
                                      ELSE LET x == Max(s) IN Told(h[s \ {x}], x)]
           it == CHOOSE h : h = F(h)
<1>1. IsFiniteSet(T) /\ \A s \in SUBSET T : s # {} => Max(s) \in s
    <2>1. PICK size \in Nat : T = 1..size
        <3>1. e.pending \in Seq(Transfer)
            BY DEF Sane, Engine
        <3>2. Len(e.pending) \in Nat /\ DOMAIN e.pending = 1..Len(e.pending)
            BY <3>1, LenProperties
        <3> QED BY <3>2
    <2>2. IsFiniteSet(1..size)
        BY FS_Interval
    <2>3. \A s \in SUBSET (1..size) : s # {} => Max(s) \in s
        BY MaxIn
    <2> HIDE DEF T
    <2> QED BY <2>1, <2>2, <2>3
<1>2. \A s \in SUBSET T : s # {} => choose[s] \in s
    BY <1>1
<1>3. \A x \in T : \A v \in Engine : step[<<x, v>>] = Told(v, x)
    OBVIOUS
<1>4. ASSUME NEW h PROVE F(h) = [s \in SUBSET T |-> F(h)[s]]
    OBVIOUS
<1>5. ASSUME NEW h, NEW s \in SUBSET T, s # {}
      PROVE  F(h)[s] = Told(h[s \ {choose[s]}], choose[s])
    <2> DEFINE c == Max(s)
    <2> HIDE DEF Told
    <2>1. choose[s] = c
        OBVIOUS
    <2>2. F(h)[s] = Told(h[s \ {c}], c)
        BY <1>5
    <2> HIDE DEF F, choose, c
    <2> QED BY <2>1, <2>2
<1>6. ASSUME NEW h PROVE F(h)[{}] = e
    OBVIOUS
<1>7. z = it[T]
    BY DEF TryAll, FoldLeft, MapThenFoldSet
<1>8. ASSUME NEW s \in SUBSET T, NEW v PROVE v \in P[s] <=> v \in Engine /\ Good(v, s)
    OBVIOUS
<1>9. P \in [SUBSET T -> SUBSET Engine]
    OBVIOUS
<1>10. Good(e, {}) /\ e \in Engine
    <2>1. \A u \in Transfer : Same(e, e, u)
        BY DEF Same
    <2> QED BY <2>1 DEF Attempted, Sane
<1>11. ASSUME NEW S \in SUBSET T, NEW i \in T, i \notin S, NEW v \in Engine, Good(v, S)
       PROVE  Good(Told(v, i), S \cup {i}) /\ Told(v, i) \in Engine
    <2>1. Attempted(e, Told(v, i), g, S \cup {i})
        BY <1>11, AttemptNext
    <2> QED BY <2>1 DEF Attempted, Sane
<1> HIDE DEF choose, step, F, P, Told, Good, T
<1>12. Carries(P, e, choose, step, T, Engine)
    <2>1. e \in P[{}]
        <3>1. {} \in SUBSET T
            OBVIOUS
        <3> QED BY <1>8, <1>10, <3>1
    <2>2. ASSUME NEW s \in SUBSET T, s # {}, NEW v \in P[s \ {choose[s]}]
          PROVE  step[<<choose[s], v>>] \in P[s]
        <3> DEFINE i == choose[s]
                   r == s \ {i}
        <3>1. i \in s /\ i \in T /\ r \in SUBSET T /\ v \in P[r] /\ i \notin r /\ r \cup {i} = s
            BY <1>2, <2>2
        <3> HIDE DEF i, r
        <3>2. v \in Engine /\ Good(v, r)
            BY <1>8, <3>1
        <3>3. Good(Told(v, i), s) /\ Told(v, i) \in Engine
            BY <1>11, <3>1, <3>2
        <3>4. step[<<i, v>>] = Told(v, i)
            BY <1>3, <3>1, <3>2
        <3> QED BY <1>8, <3>3, <3>4 DEF i
    <2> QED BY <1>2, <1>9, <2>1, <2>2 DEF Carries, Chooses
<1>13. \E h : h = F(h)
    <2>1. PICK h : Folds(h, P, e, choose, step, T)
        BY <1>1, <1>12, FoldKeeps
    <2>2. ASSUME NEW s \in SUBSET T PROVE F(h)[s] = h[s]
        <3>1. CASE s # {}
            <4>1. choose[s] \in T /\ s \ {choose[s]} \in SUBSET T
                BY <1>2, <3>1
            <4>2. h[s \ {choose[s]}] \in Engine
                BY <1>8, <2>1, <4>1 DEF Folds
            <4>3. h[s] = step[<<choose[s], h[s \ {choose[s]}]>>]
                BY <2>1, <3>1 DEF Folds
            <4>4. F(h)[s] = Told(h[s \ {choose[s]}], choose[s])
                BY ONLY <1>5, <3>1, s \in SUBSET T
            <4>5. step[<<choose[s], h[s \ {choose[s]}]>>] = Told(h[s \ {choose[s]}], choose[s])
                BY ONLY <1>3, <4>1, <4>2
            <4> QED BY ONLY <4>3, <4>4, <4>5
        <3>2. CASE s = {}
            BY <1>6, <2>1, <3>2 DEF Folds
        <3> QED BY <3>1, <3>2
    <2>3. h = [s \in SUBSET T |-> h[s]]
        BY <2>1 DEF Folds
    <2>4. F(h) = [s \in SUBSET T |-> F(h)[s]]
        BY <1>4
    <2> QED BY <2>2, <2>3, <2>4
<1>14. it = F(it)
    BY <1>13
<1> HIDE DEF it
<1>15. Obeys(it, P, e, choose, step, T)
    <2>1. it[{}] = e
        BY <1>6, <1>14
    <2>2. ASSUME NEW s \in SUBSET T, s # {}, it[s \ {choose[s]}] \in P[s \ {choose[s]}]
          PROVE  it[s] = step[<<choose[s], it[s \ {choose[s]}]>>]
        <3>1. choose[s] \in T /\ s \ {choose[s]} \in SUBSET T
            BY <1>2, <2>2
        <3>2. it[s \ {choose[s]}] \in Engine
            BY <1>8, <2>2, <3>1
        <3>3. it[s] = Told(it[s \ {choose[s]}], choose[s])
            BY <1>5, <1>14, <2>2
        <3> QED BY <1>3, <3>1, <3>2, <3>3
    <2> QED BY <2>1, <2>2 DEF Obeys
<1>16. Good(z, T)
    <2>1. it[T] \in P[T]
        BY <1>1, <1>12, <1>15, FoldStays
    <2>2. T \in SUBSET T
        OBVIOUS
    <2> QED BY <1>7, <1>8, <2>1, <2>2
<1> QED BY <1>16 DEF Good, T

-----------------------------------------------------------------------------
(* Admission again *)

\* What the queue, the instants and the nesting say does not matter to the rest.
LEMMA SaneKept ==
    ASSUME NEW e, NEW x, Sane(e, x), NEW z \in Engine,
           Keeps(e, z, {"pending", "arrival", "depth", "notified"}), NEW g \in Topology
    PROVE  /\ Sane(z, x) /\ \A u \in Transfer : Same(e, z, u)
           /\ z.routing = e.routing /\ z.starting = e.starting /\ z.received = e.received
           /\ z.reserved = e.reserved /\ z.path = e.path /\ z.state = e.state
           /\ Valid(e, g) => Valid(z, g)
           /\ Settled(e, g) => Settled(z, g)
<1>1. /\ z.routing = e.routing /\ z.state = e.state /\ z.path = e.path /\ z.reserved = e.reserved
      /\ z.waiting = e.waiting /\ z.starting = e.starting /\ z.optional = e.optional
      /\ z.activation = e.activation /\ z.sent = e.sent /\ z.sendEvent = e.sendEvent
      /\ z.paused = e.paused /\ z.flying = e.flying /\ z.received = e.received
      /\ z.active = e.active /\ z.assigned = e.assigned /\ z.ok = e.ok
    BY DEF Keeps, Fields
<1>2. \A u \in Transfer : Same(e, z, u)
    BY <1>1 DEF Same
<1>3. \A u \in Transfer : Counted(z, u) /\ StageOK(z, u) /\ FlowOK(z, u)
    BY <1>1, <1>2, SameOK DEF Sane
<1>4. Open(z, x)
    BY <1>1 DEF Sane, Open
<1>5. Sane(z, x)
    BY <1>1, <1>3, <1>4 DEF Sane
<1>6. ASSUME Valid(e, g) PROVE Valid(z, g)
    BY <1>1, <1>6 DEF Valid, IsActivePathValid
<1>7. ASSUME Settled(e, g) PROVE Settled(z, g)
    <2>1. e.reserved \in [Hop -> Nat] /\ \A h \in Hop : e.reserved[h] <= z.reserved[h]
        BY <1>1 DEF Sane, Engine
    <2>2. ASSUME NEW u \in Transfer, Waits(z, u), u \notin z.starting
          PROVE  FindPath(z, g, u) = NoPath
        <3>1. FindPath(e, g, u) = NoPath
            BY <1>1, <1>7, <2>2 DEF Settled, Waits
        <3> QED BY <1>1, <2>1, <3>1, ClosedStaysClosed
    <2> QED BY <2>2 DEF Settled
<1> QED BY <1>1, <1>2, <1>5, <1>6, <1>7

LEMMA PendingSets ==
    ASSUME NEW e \in Engine, NEW q \in Seq(Transfer), NEW z, z = [e EXCEPT !.pending = q]
    PROVE  z \in Engine /\ Keeps(e, z, {"pending"}) /\ z.pending = q
BY DEF Engine, Keeps, Fields

\* Nobody starts to wait, and who ended stays so.
Advances(e, z) ==
    /\ z.routing = e.routing /\ z.starting = e.starting /\ z.depth = e.depth
    /\ z.received = e.received
    /\ \A u \in Transfer :
         /\ z.state[u] = "WAITING_ADMISSION" => e.state[u] = "WAITING_ADMISSION"
         /\ e.state[u] \in Ended => z.state[u] = e.state[u]

\* The engine between two of its calls.
Steady(e, g) == Sane(e, {}) /\ Valid(e, g) /\ Queued(e)

LEMMA AdvancesOn ==
    ASSUME NEW e, NEW y, NEW z, Advances(e, y), Advances(y, z)
    PROVE  Advances(e, z)
BY DEF Advances

LEMMA TryActivatePendingActivates ==
    ASSUME NEW e, NEW g \in Topology, Steady(e, g), NEW z, z = TryActivatePending(e, g)
    PROVE  Steady(z, g) /\ Settled(z, g) /\ Advances(e, z)
<1> DEFINE f == TryAll(e, g)
           W == {t \in Transfer : Waits(f, t)}
           q == Keep(e.pending, W)
<1>1. Attempted(e, f, g, DOMAIN e.pending)
    BY AllAttempted DEF Steady
<1> HIDE DEF f
<1>2. /\ Sane(f, {}) /\ Valid(f, g) /\ f.starting = e.starting /\ f.pending = e.pending
      /\ f.routing = e.routing /\ f.depth = e.depth /\ f.received = e.received
      /\ \A u \in Transfer : Same(e, f, u) \/ Admitted(e, f, u)
      /\ \A i \in DOMAIN e.pending : LET u == e.pending[i] IN
           Waits(f, u) /\ u \notin e.starting => FindPath(f, g, u) = NoPath
    BY <1>1 DEF Attempted
<1>3. f \in Engine /\ e.pending \in Seq(Transfer) /\ Queued(e)
    BY <1>2 DEF Steady, Sane, Engine
<1>4. z = [f EXCEPT !.pending = q]
    BY <1>2 DEF TryActivatePending, f
<1>5. q \in Seq(Transfer) /\ \E at : KeptAt(q, e.pending, W, at)
    BY <1>3, KeepKeeps
<1>6. \A u \in W : Waits(e, u) /\ Same(e, f, u)
    BY <1>2 DEF Waits, Admitted, Same
<1>7. Settled(f, g)
    <2>1. ASSUME NEW u \in Transfer, Waits(f, u), u \notin f.starting
          PROVE  FindPath(f, g, u) = NoPath
        <3>1. Waits(e, u)
            BY <1>6, <2>1
        <3>2. PICK i \in DOMAIN e.pending : e.pending[i] = u
            BY <1>3, <3>1 DEF Queued
        <3> QED BY <1>2, <2>1, <3>2
    <2> QED BY <2>1 DEF Settled
<1> HIDE DEF q
<1>8. z \in Engine /\ Keeps(f, z, {"pending"}) /\ z.pending = q
    BY <1>3, <1>4, <1>5, PendingSets
<1>9. Keeps(f, z, {"pending", "arrival", "depth", "notified"}) /\ z.depth = f.depth
    BY <1>8 DEF Keeps, Fields
<1>10. /\ Sane(z, {}) /\ z.routing = f.routing /\ z.starting = f.starting /\ z.received = f.received
       /\ Valid(z, g) /\ Settled(z, g) /\ z.state = f.state
    BY <1>2, <1>7, <1>8, <1>9, SaneKept
<1>11. Queued(z)
    <2>1. PICK at : KeptAt(q, e.pending, W, at)
        BY <1>5
    <2>2. /\ at \in [DOMAIN q -> DOMAIN e.pending]
          /\ \A i \in DOMAIN q : q[i] = e.pending[at[i]] /\ q[i] \in W
          /\ \A i, j \in DOMAIN q : i # j => at[i] # at[j]
          /\ \A i \in DOMAIN e.pending : e.pending[i] \in W => \E j \in DOMAIN q : at[j] = i
        BY <2>1 DEF KeptAt
    <2> HIDE DEF W
    <2>3. \A i, j \in DOMAIN q : i # j => q[i] # q[j]
        BY <1>3, <2>2 DEF Queued
    <2>4. ASSUME NEW u \in W PROVE \E i \in DOMAIN q : q[i] = u
        <3>1. u \in Transfer /\ Waits(e, u)
            BY <1>6 DEF W
        <3>2. PICK i \in DOMAIN e.pending : e.pending[i] = u
            BY <1>3, <3>1 DEF Queued
        <3> QED BY <2>2, <3>2
    <2>5. \A u \in Transfer : Waits(z, u) <=> u \in W
        BY <1>10 DEF Waits, W
    <2> QED BY <1>8, <2>2, <2>3, <2>4, <2>5 DEF Queued
<1>12. Advances(e, z)
    <2>1. \A u \in Transfer : /\ f.state[u] = "WAITING_ADMISSION" => e.state[u] = "WAITING_ADMISSION"
                              /\ e.state[u] \in Ended => f.state[u] = e.state[u]
        BY <1>2 DEF Admitted, Same, Waits, Ended
    <2> QED BY <1>2, <1>9, <1>10, <2>1 DEF Advances
<1> QED BY <1>10, <1>11, <1>12 DEF Steady

LEMMA DrainDrains ==
    ASSUME NEW e, NEW g \in Topology, Steady(e, g), e.depth = 0, NEW z, z = Drain(e, g)
    PROVE  Steady(z, g) /\ Settled(z, g) /\ Advances(e, z)
<1>1. CASE CapacityAware(e) /\ e.pending # <<>>
    BY <1>1, TryActivatePendingActivates DEF Drain
<1>2. CASE ~(CapacityAware(e) /\ e.pending # <<>>)
    <2>1. z = e
        BY <1>2 DEF Drain
    <2>2. \A u \in Transfer : ~Waits(e, u)
        <3>1. CASE ~CapacityAware(e)
            BY <3>1, WaitingStage DEF Steady
        <3>2. CASE e.pending = <<>>
            BY <3>2 DEF Steady, Queued
        <3> QED BY <1>2, <3>1, <3>2
    <2> QED BY <2>1, <2>2 DEF Settled, Advances
<1> QED BY <1>1, <1>2

-----------------------------------------------------------------------------
(* Ending transfers *)

Withdrawn(e, z, t) ==
    /\ z \in Engine
    /\ Keeps(e, z, {"activation", "sendEvent", "paused", "pending", "waiting"})
    /\ z.activation = e.activation \ {t} /\ z.sendEvent = e.sendEvent \ {t}
    /\ z.paused = e.paused \ {t} /\ z.waiting = e.waiting \ {t}
    /\ z.pending = Keep(e.pending, Transfer \ {t})

LEMMA WithdrawWithdraws ==
    ASSUME NEW e \in Engine, NEW t \in Transfer, NEW z, z = Withdraw(e, t)
    PROVE  Withdrawn(e, z, t)
<1> DEFINE a == e.activation \ {t}
           s == e.sendEvent \ {t}
           p == e.paused \ {t}
           w == e.waiting \ {t}
           q == Keep(e.pending, Transfer \ {t})
<1>1. z = [e EXCEPT !.activation = a, !.sendEvent = s, !.paused = p, !.pending = q, !.waiting = w]
    BY DEF Withdraw
<1>2. a \in SUBSET Transfer /\ s \in SUBSET Transfer /\ p \in SUBSET Transfer /\ w \in SUBSET Transfer
    BY DEF Engine
<1>3. q \in Seq(Transfer)
    <2>1. e.pending \in Seq(Transfer)
        BY DEF Engine
    <2> QED BY <2>1, KeepKeeps
<1> HIDE DEF a, s, p, w, q
<1>4. /\ z \in Engine
      /\ z.activation = a /\ z.sendEvent = s /\ z.paused = p /\ z.waiting = w /\ z.pending = q
    BY <1>1, <1>2, <1>3, ZenonT(60) DEF Engine
<1>5. Keeps(e, z, {"activation", "sendEvent", "paused", "pending", "waiting"})
    BY <1>1 DEF Engine, Keeps, Fields
<1> QED BY <1>4, <1>5 DEF Withdrawn, a, s, p, w, q

LEMMA ReleaseReleases ==
    ASSUME NEW e \in Engine, e.ok, Sums(e.reserved, e.path), NEW t \in Transfer,
           e.path[t] # NoPath, NEW z, z = Release(e, t)
    PROVE  /\ z \in Engine /\ Keeps(e, z, {"path", "reserved"})
           /\ z.path = [e.path EXCEPT ![t] = NoPath] /\ Sums(z.reserved, z.path)
           /\ \A h \in Hop : z.reserved[h] <= e.reserved[h]
<1> DEFINE p == e.path[t]
           X == [e.path EXCEPT ![t] = NoPath]
           Y == [h \in Hop |-> e.reserved[h] - (IF h \in p.hops THEN p.rate ELSE 0)]
<1>1. e.path \in Paths /\ e.reserved \in [Hop -> Nat]
    BY DEF Engine, Paths, Path
<1>2. /\ Y \in [Hop -> Nat] /\ Sums(Y, X)
      /\ \A h \in p.hops : h \in Hop /\ e.reserved[h] >= p.rate
      /\ \A h \in Hop : Y[h] <= e.reserved[h]
    BY <1>1, ReleasedSums
<1>3. Check(e, p # NoPath /\ \A h \in p.hops : e.reserved[h] >= p.rate) = e
    BY <1>2, CheckHolds
<1>4. z = [e EXCEPT !.path = X, !.reserved = Y]
    BY <1>3 DEF Release
<1>5. X \in [Transfer -> [hops : SUBSET Hop, rate : Nat]]
    BY <1>1 DEF Paths, Path, NoPath
<1> HIDE DEF X, Y
<1>6. z \in Engine /\ Keeps(e, z, {"path", "reserved"}) /\ z.path = X /\ z.reserved = Y
    BY ONLY <1>2, <1>4, <1>5, e \in Engine DEF Engine, Keeps, Fields
<1> QED BY <1>2, <1>6 DEF X

LEMMA FinalizeFlowEnds ==
    ASSUME NEW e \in Engine, NEW t \in Transfer, NEW z, z = FinalizeFlow(e, t)
    PROVE  /\ z \in Engine /\ Keeps(e, z, {"active", "assigned"})
           /\ z.active = e.active \ {t} /\ z.assigned = [e.assigned EXCEPT ![t] = {}]
<1> DEFINE X == e.active \ {t}
           Y == [e.assigned EXCEPT ![t] = {}]
<1>1. z = [e EXCEPT !.active = X, !.assigned = Y]
    BY DEF FinalizeFlow
<1>2. X \in SUBSET Transfer /\ Y \in [Transfer -> SUBSET Hop]
    BY DEF Engine
<1> HIDE DEF X, Y
<1>3. z \in Engine /\ Keeps(e, z, {"active", "assigned"}) /\ z.active = X /\ z.assigned = Y
    BY ONLY <1>1, <1>2, e \in Engine DEF Engine, Keeps, Fields
<1> QED BY ONLY <1>3 DEF X, Y

\* What is left of a transfer that ended.
Closes(e, z, t, outcome) ==
    /\ z \in Engine /\ z.ok
    /\ Keeps(e, z, {"activation", "sendEvent", "paused", "pending", "waiting", "path", "reserved",
                    "active", "assigned", "state", "optional"})
    /\ z.activation = e.activation \ {t} /\ z.sendEvent = e.sendEvent \ {t}
    /\ z.paused = e.paused \ {t} /\ z.waiting = e.waiting \ {t}
    /\ z.pending = Keep(e.pending, Transfer \ {t})
    /\ z.optional = e.optional \ {t} /\ z.state = [e.state EXCEPT ![t] = outcome]
    /\ z.path = [e.path EXCEPT ![t] = NoPath] /\ Sums(z.reserved, z.path)
    /\ \A h \in Hop : z.reserved[h] <= e.reserved[h]
    /\ z.active = e.active \ {t} /\ z.assigned = [e.assigned EXCEPT ![t] = {}]

LEMMA CloseEnds ==
    ASSUME NEW e, NEW x, Sane(e, x), NEW t \in Transfer, NEW outcome \in Ended,
           MayEnd(e, t, outcome), NEW z, z = Close(e, t, outcome)
    PROVE  Closes(e, z, t, outcome)
<1> DEFINE f == Withdraw(e, t)
           free == IF CapacityAware(e) /\ f.path[t] # NoPath THEN Release(f, t) ELSE f
           end == IF HasRegistry(e) THEN FinalizeFlow(free, t) ELSE free
<1>1. e \in Engine /\ e.ok /\ Sums(e.reserved, e.path) /\ FlowOK(e, t)
    BY DEF Sane
<1>2. /\ f \in Engine
      /\ Keeps(e, f, {"activation", "sendEvent", "paused", "pending", "waiting"})
      /\ f.activation = e.activation \ {t} /\ f.sendEvent = e.sendEvent \ {t}
      /\ f.paused = e.paused \ {t} /\ f.waiting = e.waiting \ {t}
      /\ f.pending = Keep(e.pending, Transfer \ {t})
    <2>1. Withdrawn(e, f, t)
        BY <1>1, WithdrawWithdraws, Zenon
    <2> HIDE DEF f
    <2> QED BY ONLY <2>1 DEF Withdrawn
<1> HIDE DEF f
<1>3. f.ok /\ f.path = e.path /\ f.reserved = e.reserved
    BY <1>1, <1>2 DEF Keeps, Fields
<1>4. /\ free \in Engine /\ Keeps(f, free, {"path", "reserved"})
      /\ free.path = [e.path EXCEPT ![t] = NoPath] /\ Sums(free.reserved, free.path)
      /\ \A h \in Hop : free.reserved[h] <= e.reserved[h]
    <2>1. CASE e.path[t] # NoPath
        <3>1. free = Release(f, t)
            BY <1>1, <1>3, <2>1 DEF FlowOK
        <3> HIDE DEF free
        <3> QED BY <1>1, <1>2, <1>3, <2>1, <3>1, ReleaseReleases
    <2>2. CASE e.path[t] = NoPath
        <3>1. free = f
            BY <1>3, <2>2
        <3>2. e.path = [e.path EXCEPT ![t] = NoPath]
            BY <1>1, <2>2 DEF Engine
        <3>3. \A h \in Hop : e.reserved[h] \in Nat
            BY <1>1 DEF Engine
        <3>4. Keeps(f, f, {"path", "reserved"})
            BY DEF Keeps
        <3> HIDE DEF free
        <3> QED BY <1>1, <1>2, <1>3, <3>1, <3>2, <3>3, <3>4
    <2> QED BY <2>1, <2>2
<1> HIDE DEF free
<1>5. free.active = e.active /\ free.assigned = e.assigned
    BY <1>2, <1>4 DEF Keeps, Fields
<1>6. /\ end \in Engine /\ Keeps(free, end, {"active", "assigned"})
      /\ end.active = e.active \ {t} /\ end.assigned = [e.assigned EXCEPT ![t] = {}]
    <2>1. CASE HasRegistry(e)
        <3>1. end = FinalizeFlow(free, t)
            BY <2>1
        <3> HIDE DEF end
        <3> QED BY <1>4, <1>5, <3>1, FinalizeFlowEnds
    <2>2. CASE ~HasRegistry(e)
        <3>1. end = free
            BY <2>2
        <3>2. t \notin e.active /\ e.assigned[t] = {}
            <4>1. ~CapacityAware(e)
                BY <2>2 DEF HasRegistry, CapacityAware
            <4> QED BY <1>1, <2>2, <4>1 DEF FlowOK, NoPath
        <3>3. e.assigned = [e.assigned EXCEPT ![t] = {}] /\ e.active = e.active \ {t}
            BY <1>1, <3>2 DEF Engine
        <3>4. Keeps(free, free, {"active", "assigned"})
            BY DEF Keeps
        <3> HIDE DEF end
        <3> QED BY <1>4, <1>5, <3>1, <3>3, <3>4
    <2> QED BY <2>1, <2>2
<1>7. end.ok /\ end.state = e.state /\ end.optional = e.optional
    BY <1>1, <1>2, <1>4, <1>6 DEF Keeps, Fields
<1> DEFINE S == [e.state EXCEPT ![t] = outcome]
           O == e.optional \ {t}
<1>8. z = [end EXCEPT !.state = S, !.optional = O]
    <2> HIDE DEF end
    <2>1. Check(end, MayEnd(e, t, outcome)) = end
        BY <1>6, <1>7, CheckHolds
    <2>2. z = [Check(end, MayEnd(e, t, outcome)) EXCEPT !.state[t] = outcome, !.optional = @ \ {t}]
        BY DEF Close, end, free, f
    <2>3. z = [end EXCEPT !.state[t] = outcome, !.optional = @ \ {t}]
        BY <2>1, <2>2
    <2> QED BY <1>7, <2>3
<1> HIDE DEF end
<1>9. S \in [Transfer -> State] /\ O \in SUBSET Transfer
    BY <1>1 DEF Engine, State
<1> HIDE DEF S, O
<1>10. z \in Engine /\ Keeps(end, z, {"state", "optional"}) /\ z.state = S /\ z.optional = O
    BY <1>6, <1>8, <1>9, ZenonT(60) DEF Engine, Keeps, Fields
<1>11. /\ z.ok /\ z.activation = f.activation /\ z.sendEvent = f.sendEvent /\ z.paused = f.paused
       /\ z.waiting = f.waiting /\ z.pending = f.pending /\ z.path = free.path
       /\ z.reserved = free.reserved /\ z.active = end.active /\ z.assigned = end.assigned
    BY <1>2, <1>4, <1>6, <1>7, <1>10 DEF Keeps, Fields
<1>12. Keeps(e, z, {"activation", "sendEvent", "paused", "pending", "waiting", "path", "reserved",
                    "active", "assigned", "state", "optional"})
    BY <1>2, <1>4, <1>6, <1>10 DEF Keeps, Fields
<1> QED BY <1>2, <1>4, <1>6, <1>10, <1>11, <1>12 DEF Closes, S, O

\* The transfer t has ended, and the others have not noticed.
HasClosed(e, z, g, t, outcome) == Steady(z, g) /\ Advances(e, z) /\ z.state[t] = outcome

LEMMA CloseCloses ==
    ASSUME NEW e, NEW t \in Transfer, Sane(e, {t}), e.state[t] \notin Ended,
           NEW g \in Topology, Valid(e, g), Queued(e), NEW outcome \in Ended, MayEnd(e, t, outcome), NEW z, z = Close(e, t, outcome)
    PROVE  HasClosed(e, z, g, t, outcome)
<1>1. Closes(e, z, t, outcome)
    BY CloseEnds
<1>2. e \in Engine /\ Counted(e, t) /\ StageOK(e, t)
    BY DEF Sane
<1>3. /\ e.path \in [Transfer -> [hops : SUBSET Hop, rate : Nat]] /\ e.state \in [Transfer -> State]
      /\ e.assigned \in [Transfer -> SUBSET Hop] /\ e.pending \in Seq(Transfer)
      /\ \A h \in Hop : e.reserved[h] \in Nat
    BY <1>2 DEF Engine
<1>4. /\ z.routing = e.routing /\ z.arrival = e.arrival /\ z.starting = e.starting /\ z.depth = e.depth
      /\ z.sent = e.sent /\ z.flying = e.flying /\ z.received = e.received
    BY <1>1 DEF Closes, Keeps, Fields
<1>5. /\ z \in Engine /\ z.ok
      /\ z.activation = e.activation \ {t} /\ z.sendEvent = e.sendEvent \ {t}
      /\ z.paused = e.paused \ {t} /\ z.waiting = e.waiting \ {t}
      /\ z.pending = Keep(e.pending, Transfer \ {t})
      /\ z.optional = e.optional \ {t} /\ z.active = e.active \ {t}
      /\ Sums(z.reserved, z.path)
      /\ \A h \in Hop : z.reserved[h] <= e.reserved[h] /\ z.reserved[h] \in Nat
    <2>1. z \in Engine
        BY <1>1 DEF Closes
    <2>2. \A h \in Hop : z.reserved[h] \in Nat
        BY <2>1 DEF Engine
    <2> QED BY <1>1, <2>2 DEF Closes
<1>6. /\ z.state[t] = outcome /\ \A u \in Transfer \ {t} : z.state[u] = e.state[u]
      /\ z.path[t] = NoPath /\ \A u \in Transfer \ {t} : z.path[u] = e.path[u]
      /\ z.assigned[t] = {} /\ \A u \in Transfer \ {t} : z.assigned[u] = e.assigned[u]
    BY <1>1, <1>3 DEF Closes
<1>7. \A u \in Transfer \ {t} : Same(e, z, u)
    BY <1>4, <1>5, <1>6 DEF Same
<1>8. Counted(z, t) /\ StageOK(z, t) /\ FlowOK(z, t)
    <2>1. Counted(z, t)
        BY <1>2, <1>4 DEF Counted
    <2>2. outcome \notin {"UNKNOWN", "REGISTERED", "WAITING_ADMISSION", "PAUSED_ROUTE", "ACTIVE", "SENDER_FINISHED"}
        BY DEF Ended
    <2>3. ~Waits(z, t)
        BY <1>6, <2>2 DEF Waits
    <2>4. t \in z.starting => z.sent[t] = 0
        BY <1>2, <1>4 DEF StageOK
    <2>5. StageOK(z, t)
        BY <1>5, <1>6, <2>2, <2>3, <2>4 DEF StageOK
    <2>6. NoPath.hops = {}
        BY DEF NoPath
    <2>7. FlowOK(z, t)
        BY <1>5, <1>6, <2>2, <2>6 DEF FlowOK
    <2> QED BY <2>1, <2>5, <2>7
<1>9. \A u \in Transfer : Counted(z, u) /\ StageOK(z, u) /\ FlowOK(z, u)
    <2>1. ASSUME NEW u \in Transfer \ {t} PROVE Counted(z, u) /\ StageOK(z, u) /\ FlowOK(z, u)
        <3>1. Counted(e, u) /\ StageOK(e, u) /\ FlowOK(e, u) /\ Same(e, z, u)
            BY <1>7 DEF Sane
        <3> QED BY <1>4, <3>1, SameOK
    <2> QED BY <1>8, <2>1
<1>10. Open(z, {})
    <2>1. ASSUME NEW u \in Transfer, z.received[u] = PacketCount[u] PROVE z.state[u] \in Ended
        <3>1. CASE u = t
            BY <1>6, <3>1
        <3>2. CASE u # t
            BY <1>4, <1>6, <2>1, <3>2 DEF Sane, Open
        <3> QED BY <3>1, <3>2
    <2> QED BY <2>1 DEF Open
<1>11. Sane(z, {})
    BY <1>5, <1>9, <1>10 DEF Sane
<1>12. Valid(z, g)
    <2>1. ASSUME NEW u \in Transfer, z.path[u] # NoPath, NEW h \in z.path[u].hops
          PROVE  /\ h[2] \in Candidates[g][h[1]][Destination[u]]
                 /\ z.reserved[h] <= Bandwidth[{h[1], h[2]}]
        <3>1. u # t /\ z.path[u] = e.path[u]
            BY <1>6, <2>1
        <3>2. h[2] \in Candidates[g][h[1]][Destination[u]] /\ e.reserved[h] <= Bandwidth[{h[1], h[2]}]
            BY <2>1, <3>1 DEF Valid, IsActivePathValid
        <3>3. h \in Hop
            BY <1>3, <2>1, <3>1
        <3>4. Bandwidth[{h[1], h[2]}] \in Nat
            <4>1. {h[1], h[2]} \in UNION Topology
                BY <2>1, <3>1 DEF Sane, FlowOK
            <4> QED BY <4>1, NetworkAssumption
        <3> QED BY <1>3, <1>5, <3>2, <3>3, <3>4
    <2> QED BY <2>1 DEF Valid, IsActivePathValid
<1>13. Queued(z)
    <2> DEFINE q == z.pending
               W == Transfer \ {t}
    <2>1. PICK at : KeptAt(q, e.pending, W, at)
        BY <1>3, <1>5, KeepKeeps
    <2>2. /\ at \in [DOMAIN q -> DOMAIN e.pending]
          /\ \A i \in DOMAIN q : q[i] = e.pending[at[i]] /\ q[i] \in W
          /\ \A i, j \in DOMAIN q : i # j => at[i] # at[j]
          /\ \A i \in DOMAIN e.pending : e.pending[i] \in W => \E j \in DOMAIN q : at[j] = i
        BY <2>1 DEF KeptAt
    <2> HIDE DEF q, W
    <2>3. \A i, j \in DOMAIN q : i # j => q[i] # q[j]
        BY <2>2 DEF Queued
    <2>4. ASSUME NEW u \in Transfer PROVE Waits(z, u) <=> \E i \in DOMAIN q : q[i] = u
        <3>1. CASE u = t
            <4>1. ~Waits(z, u)
                BY <1>6, <3>1 DEF Waits, Ended
            <4> QED BY <2>2, <3>1, <4>1 DEF W
        <3>2. CASE u # t
            <4>1. Waits(z, u) <=> Waits(e, u)
                BY <1>6, <3>2 DEF Waits
            <4>2. u \in W
                BY <3>2 DEF W
            <4>3. Waits(e, u) <=> \E i \in DOMAIN e.pending : e.pending[i] = u
                BY DEF Queued
            <4> QED BY <2>2, <4>1, <4>2, <4>3
        <3> QED BY <3>1, <3>2
    <2> QED BY <2>3, <2>4 DEF Queued, q
<1>14. Advances(e, z)
    BY <1>4, <1>6 DEF Advances, Ended
<1> QED BY <1>6, <1>11, <1>12, <1>13, <1>14 DEF Steady, HasClosed

\* A batch has ended some of its transfers.
Closing(e, z, g) == Steady(z, g) /\ Advances(e, z)

LEMMA CloseNextCloses ==
    ASSUME NEW e, NEW g \in Topology, Steady(e, g), e.depth # 0, NEW t \in Transfer,
           NEW outcome \in {"FAILED", "CANCELLED"}, NEW z, z = CloseNext(e, g, t, outcome)
    PROVE  Closing(e, z, g)
<1>1. CASE e.state[t] \in Ended
    <2>1. z = e
        BY <1>1 DEF CloseNext
    <2> QED BY <2>1 DEF Closing, Advances
<1>2. CASE e.state[t] \notin Ended
    <2> DEFINE y == Close(e, t, outcome)
    <2>1. Sane(e, {t}) /\ MayEnd(e, t, outcome) /\ outcome \in Ended
        BY <1>2 DEF Steady, Sane, Open, MayEnd, Ended
    <2>2. Steady(y, g) /\ Advances(e, y)
        <3> HIDE DEF y
        <3> QED BY <1>2, <2>1, CloseCloses DEF Steady, HasClosed, y
    <2>3. z = Drain(y, g)
        BY <1>2 DEF CloseNext
    <2> HIDE DEF y
    <2>4. z = y
        BY <2>2, <2>3 DEF Drain, Advances
    <2> QED BY <2>2, <2>4 DEF Closing
<1> QED BY <1>1, <1>2

LEMMA CloseAllCloses ==
    ASSUME NEW e, NEW g \in Topology, Steady(e, g), e.depth # 0, NEW ts \in SUBSET Transfer,
           NEW outcome \in {"FAILED", "CANCELLED"}, NEW z, z = CloseAll(e, g, ts, outcome)
    PROVE  Closing(e, z, g)
<1> DEFINE r == Ranked(ts, <)
<1>0. /\ Cardinality(ts) \in Nat /\ DOMAIN r = 1..Cardinality(ts)
      /\ \A i \in DOMAIN r : r[i] \in Transfer
    <2> DEFINE below == [x \in ts |-> {y \in ts : y < x}]
    <2>1. IsFiniteSet(ts) /\ ts \in SUBSET Int
        <3>1. IsFiniteSet(Transfer) /\ Transfer \subseteq Nat
            BY NetworkAssumption
        <3>2. IsFiniteSet(ts)
            BY <3>1, FS_Subset
        <3> QED BY <3>1, <3>2
    <2>2. Orders(below, ts)
        BY <2>1, NumbersOrder
    <2>3. DOMAIN r = 1..Cardinality(ts) /\ \A i \in DOMAIN r : r[i] = CHOOSE x \in ts : Cardinality(below[x]) = i - 1
        <3>1. \A x \in ts : below[x] = {y \in ts : y < x}
            OBVIOUS
        <3> QED BY <3>1 DEF Ranked
    <2> HIDE DEF r, below
    <2>4. Lists(r, ts, below)
        BY <2>1, <2>2, <2>3, RankedLists
    <2> QED BY <2>4 DEF Lists
<1> HIDE DEF r
<1> DEFINE T == DOMAIN r
           Told(v, i) == CloseNext(v, g, r[i], outcome)
           Good(v, S) == Closing(e, v, g)
           P == [s \in SUBSET T |-> {v \in Engine : Good(v, s)}]
           choose == [s \in SUBSET T |-> Max(s)]
           step == [xv \in T \X Engine |-> Told(xv[2], xv[1])]
           F(h) == [s \in SUBSET T |-> IF s = {} THEN e
                                      ELSE LET x == Max(s) IN Told(h[s \ {x}], x)]
           it == CHOOSE h : h = F(h)
<1>1. IsFiniteSet(T) /\ \A s \in SUBSET T : s # {} => Max(s) \in s
    <2>1. PICK size \in Nat : T = 1..size
        BY <1>0
    <2>2. IsFiniteSet(1..size)
        BY FS_Interval
    <2>3. \A s \in SUBSET (1..size) : s # {} => Max(s) \in s
        BY MaxIn
    <2> HIDE DEF T
    <2> QED BY <2>1, <2>2, <2>3
<1>2. \A s \in SUBSET T : s # {} => choose[s] \in s
    BY <1>1
<1>3. \A x \in T : \A v \in Engine : step[<<x, v>>] = Told(v, x)
    OBVIOUS
<1>4. ASSUME NEW h PROVE F(h) = [s \in SUBSET T |-> F(h)[s]]
    OBVIOUS
<1>5. ASSUME NEW h, NEW s \in SUBSET T, s # {}
      PROVE  F(h)[s] = Told(h[s \ {choose[s]}], choose[s])
    <2> DEFINE c == Max(s)
    <2> HIDE DEF Told
    <2>1. choose[s] = c
        OBVIOUS
    <2>2. F(h)[s] = Told(h[s \ {c}], c)
        BY <1>5
    <2> HIDE DEF F, choose, c
    <2> QED BY <2>1, <2>2
<1>6. ASSUME NEW h PROVE F(h)[{}] = e
    OBVIOUS
<1>7. z = it[T]
    BY DEF CloseAll, FoldLeft, MapThenFoldSet, r
<1>8. ASSUME NEW s \in SUBSET T, NEW v PROVE v \in P[s] <=> v \in Engine /\ Good(v, s)
    OBVIOUS
<1>9. P \in [SUBSET T -> SUBSET Engine]
    OBVIOUS
<1>10. Good(e, {}) /\ e \in Engine
    BY DEF Closing, Advances, Steady, Sane
<1>11. ASSUME NEW S \in SUBSET T, NEW i \in T, i \notin S, NEW v \in Engine, Good(v, S)
       PROVE  Good(Told(v, i), S \cup {i}) /\ Told(v, i) \in Engine
    <2> DEFINE y == Told(v, i)
    <2>1. Closing(v, y, g)
        <3>1. Steady(v, g) /\ v.depth # 0
            BY <1>11 DEF Closing, Advances
        <3> QED BY <1>0, <3>1, CloseNextCloses
    <2> HIDE DEF y
    <2>2. Closing(e, y, g) /\ y \in Engine
        BY <1>11, <2>1, AdvancesOn DEF Closing, Steady, Sane
    <2> QED BY <2>2 DEF y
<1> HIDE DEF choose, step, F, P, Told, Good, T
<1>12. Carries(P, e, choose, step, T, Engine)
    <2>1. e \in P[{}]
        <3>1. {} \in SUBSET T
            OBVIOUS
        <3> QED BY <1>8, <1>10, <3>1
    <2>2. ASSUME NEW s \in SUBSET T, s # {}, NEW v \in P[s \ {choose[s]}]
          PROVE  step[<<choose[s], v>>] \in P[s]
        <3> DEFINE i == choose[s]
                   rest == s \ {i}
        <3>1. i \in s /\ i \in T /\ rest \in SUBSET T /\ v \in P[rest] /\ i \notin rest /\ rest \cup {i} = s
            BY <1>2, <2>2
        <3> HIDE DEF i, rest
        <3>2. v \in Engine /\ Good(v, rest)
            BY <1>8, <3>1
        <3>3. Good(Told(v, i), s) /\ Told(v, i) \in Engine
            BY <1>11, <3>1, <3>2
        <3>4. step[<<i, v>>] = Told(v, i)
            BY <1>3, <3>1, <3>2
        <3> QED BY <1>8, <3>3, <3>4 DEF i
    <2> QED BY <1>2, <1>9, <2>1, <2>2 DEF Carries, Chooses
<1>13. \E h : h = F(h)
    <2>1. PICK h : Folds(h, P, e, choose, step, T)
        BY <1>1, <1>12, FoldKeeps
    <2>2. ASSUME NEW s \in SUBSET T PROVE F(h)[s] = h[s]
        <3>1. CASE s # {}
            <4>1. choose[s] \in T /\ s \ {choose[s]} \in SUBSET T
                BY <1>2, <3>1
            <4>2. h[s \ {choose[s]}] \in Engine
                BY <1>8, <2>1, <4>1 DEF Folds
            <4>3. h[s] = step[<<choose[s], h[s \ {choose[s]}]>>]
                BY <2>1, <3>1 DEF Folds
            <4>4. F(h)[s] = Told(h[s \ {choose[s]}], choose[s])
                BY ONLY <1>5, <3>1, s \in SUBSET T
            <4>5. step[<<choose[s], h[s \ {choose[s]}]>>] = Told(h[s \ {choose[s]}], choose[s])
                BY ONLY <1>3, <4>1, <4>2
            <4> QED BY ONLY <4>3, <4>4, <4>5
        <3>2. CASE s = {}
            BY <1>6, <2>1, <3>2 DEF Folds
        <3> QED BY <3>1, <3>2
    <2>3. h = [s \in SUBSET T |-> h[s]]
        BY <2>1 DEF Folds
    <2>4. F(h) = [s \in SUBSET T |-> F(h)[s]]
        BY <1>4
    <2> QED BY <2>2, <2>3, <2>4
<1>14. it = F(it)
    BY <1>13
<1> HIDE DEF it
<1>15. Obeys(it, P, e, choose, step, T)
    <2>1. it[{}] = e
        BY <1>6, <1>14
    <2>2. ASSUME NEW s \in SUBSET T, s # {}, it[s \ {choose[s]}] \in P[s \ {choose[s]}]
          PROVE  it[s] = step[<<choose[s], it[s \ {choose[s]}]>>]
        <3>1. choose[s] \in T /\ s \ {choose[s]} \in SUBSET T
            BY <1>2, <2>2
        <3>2. it[s \ {choose[s]}] \in Engine
            BY <1>8, <2>2, <3>1
        <3>3. it[s] = Told(it[s \ {choose[s]}], choose[s])
            BY <1>5, <1>14, <2>2
        <3> QED BY <1>3, <3>1, <3>2, <3>3
    <2> QED BY <2>1, <2>2 DEF Obeys
<1>16. Good(z, T)
    <2>1. it[T] \in P[T]
        BY <1>1, <1>12, <1>15, FoldStays
    <2>2. T \in SUBSET T
        OBVIOUS
    <2> QED BY <1>7, <1>8, <2>1, <2>2
<1> QED BY <1>16 DEF Good

LEMMA DepthSets ==
    ASSUME NEW e, NEW x, Sane(e, x), NEW n \in Nat, NEW z, z = [e EXCEPT !.depth = n],
           NEW g \in Topology
    PROVE  /\ Sane(z, x) /\ z.depth = n /\ z.routing = e.routing /\ z.starting = e.starting
           /\ z.received = e.received /\ z.state = e.state
           /\ Valid(e, g) => Valid(z, g)
           /\ Queued(e) => Queued(z)
<1>1. e \in Engine
    BY DEF Sane
<1>2. z \in Engine /\ Keeps(e, z, {"depth"}) /\ z.depth = n
    BY <1>1 DEF Engine, Keeps, Fields
<1>3. Keeps(e, z, {"pending", "arrival", "depth", "notified"}) /\ z.pending = e.pending
    BY <1>2 DEF Keeps, Fields
<1>4. /\ Sane(z, x) /\ z.routing = e.routing /\ z.starting = e.starting /\ z.received = e.received
      /\ z.state = e.state /\ (Valid(e, g) => Valid(z, g))
    BY <1>2, <1>3, SaneKept
<1>5. Queued(e) => Queued(z)
    BY <1>3, <1>4 DEF Queued, Waits
<1> QED BY <1>2, <1>4, <1>5

\* After an operation that may have ended transfers, admission has been tried.
Drained(e, z, g) == Steady(z, g) /\ Settled(z, g) /\ Advances(e, z)

LEMMA FinalizeTransfersEnds ==
    ASSUME NEW e, NEW g \in Topology, Steady(e, g), e.depth = 0, NEW ts \in SUBSET Transfer,
           NEW outcome \in {"FAILED", "CANCELLED"}, NEW z, z = FinalizeTransfers(e, g, ts, outcome)
    PROVE  Drained(e, z, g)
<1> DEFINE up == [e EXCEPT !.depth = 1]
           all == CloseAll(up, g, ts, outcome)
           down == [all EXCEPT !.depth = 0]
<1>1. Steady(up, g) /\ up.depth = 1 /\ up.routing = e.routing /\ up.starting = e.starting
      /\ up.received = e.received /\ up.state = e.state
    BY DepthSets DEF Steady
<1> HIDE DEF up
<1>2. Closing(up, all, g)
    BY <1>1, CloseAllCloses
<1> HIDE DEF all
<1>3. Steady(all, g) /\ Advances(up, all) /\ all.depth = 1
    BY <1>1, <1>2 DEF Closing, Advances
<1>4. /\ Steady(down, g) /\ down.depth = 0 /\ down.routing = all.routing
      /\ down.starting = all.starting /\ down.received = all.received /\ down.state = all.state
    BY <1>3, DepthSets DEF Steady
<1> HIDE DEF down
<1>5. z = Drain(down, g)
    <2>1. up = [e EXCEPT !.depth = @ + 1]
        BY DEF up
    <2>2. down = [all EXCEPT !.depth = @ - 1]
        BY <1>3 DEF down
    <2> QED BY <2>1, <2>2 DEF FinalizeTransfers, all
<1>6. Steady(z, g) /\ Settled(z, g) /\ Advances(down, z)
    BY <1>4, <1>5, DrainDrains
<1>7. Advances(e, down)
    BY <1>1, <1>3, <1>4 DEF Advances
<1>8. Advances(e, z)
    BY <1>6, <1>7, AdvancesOn
<1> QED BY <1>6, <1>8 DEF Drained

LEMMA FinalizeTransferEnds ==
    ASSUME NEW e, NEW t \in Transfer, Sane(e, {t}), e.state[t] \notin Ended, e.depth = 0,
           NEW g \in Topology, Valid(e, g), Queued(e), NEW also \in SUBSET Transfer,
           NEW outcome \in Ended, MayEnd(e, t, outcome),
           NEW z, z = FinalizeTransfer(e, g, t, outcome, also)
    PROVE  Drained(e, z, g) /\ z.state[t] = outcome
<1> DEFINE f == Close(e, t, outcome)
           y == IF also = {} THEN f ELSE FinalizeTransfers(f, g, also, "CANCELLED")
<1>0. f = Close(e, t, outcome)
    OBVIOUS
<1> HIDE DEF f
<1>1. Steady(f, g) /\ Advances(e, f) /\ f.state[t] = outcome
    <2>1. HasClosed(e, f, g, t, outcome)
        BY <1>0, CloseCloses
    <2> QED BY <2>1 DEF HasClosed
<1>2. f.depth = 0
    BY <1>1 DEF Advances
<1>3. Steady(y, g) /\ Advances(f, y)
    <2>1. CASE also = {}
        BY <1>1, <2>1 DEF Advances
    <2>2. CASE also # {}
        BY <1>1, <1>2, <2>2, FinalizeTransfersEnds DEF Drained
    <2> QED BY <2>1, <2>2
<1>4. z = Drain(y, g)
    BY DEF FinalizeTransfer, f
<1> HIDE DEF y
<1>5. y.depth = 0
    BY <1>2, <1>3 DEF Advances
<1>6. Steady(z, g) /\ Settled(z, g) /\ Advances(y, z)
    BY <1>3, <1>4, <1>5, DrainDrains
<1>7. Advances(e, z)
    BY <1>1, <1>3, <1>6, AdvancesOn
<1>8. z.state[t] = outcome
    BY <1>1, <1>3, <1>6 DEF Advances
<1> QED BY <1>6, <1>7, <1>8 DEF Drained

LEMMA HandleTransferCompleteEnds ==
    ASSUME NEW e, NEW t \in Transfer, Sane(e, {t}), e.state[t] \notin Ended, e.depth = 0,
           NEW g \in Topology, Valid(e, g), Queued(e),
           NEW also \in SUBSET Transfer, NEW after \in SUBSET Transfer,
           e.received[t] = PacketCount[t],
           NEW z, z = HandleTransferComplete(e, g, t, also, after)
    PROVE  Drained(e, z, g)
<1> DEFINE f == FinalizeTransfer(e, g, t, "COMPLETED", also)
           X == f.notified \cup {t}
           y == [f EXCEPT !.notified = X]
<1>1. Check(e, e.state[t] \notin Ended \cup {"UNKNOWN", "REGISTERED", "WAITING_ADMISSION"}) = e
    <2>1. e \in Engine /\ e.ok /\ Counted(e, t) /\ StageOK(e, t)
        BY DEF Sane
    <2>2. e.sent[t] \in Nat /\ e.flying[t] \in Nat /\ e.received[t] \in Nat
          /\ PacketCount[t] \in Nat \ {0}
        BY <2>1, NetworkAssumption DEF Engine
    <2>3. e.sent[t] > 0
        BY <2>1, <2>2 DEF Counted
    <2>4. e.state[t] \notin {"UNKNOWN", "REGISTERED", "WAITING_ADMISSION"}
        BY <2>1, <2>2, <2>3 DEF StageOK
    <2> QED BY <2>1, <2>4, CheckHolds
<1>2. MayEnd(e, t, "COMPLETED") /\ "COMPLETED" \in Ended
    BY DEF MayEnd, Ended
<1>3. Drained(e, f, g)
    BY <1>2, FinalizeTransferEnds
<1>4. z = FinalizeTransfers(y, g, after, "CANCELLED")
    BY <1>1 DEF HandleTransferComplete
<1> HIDE DEF f
<1>5. Steady(f, g) /\ Advances(e, f) /\ f \in Engine /\ f.depth = 0
    BY <1>3 DEF Drained, Steady, Sane, Advances
<1>6. X \in SUBSET Transfer
    BY <1>5 DEF Engine
<1> HIDE DEF X
<1>7. y \in Engine /\ Keeps(f, y, {"notified"})
    BY <1>5, <1>6 DEF Engine, Keeps, Fields
<1>8. Keeps(f, y, {"pending", "arrival", "depth", "notified"}) /\ y.pending = f.pending /\ y.depth = f.depth
    BY <1>7 DEF Keeps, Fields
<1> HIDE DEF y
<1>9. /\ Sane(y, {}) /\ y.routing = f.routing /\ y.starting = f.starting /\ y.received = f.received
      /\ y.state = f.state /\ Valid(y, g)
    BY <1>5, <1>7, <1>8, SaneKept DEF Steady
<1>10. Steady(y, g) /\ Advances(f, y)
    BY <1>5, <1>8, <1>9 DEF Steady, Queued, Waits, Advances
<1>11. Drained(y, z, g)
    BY <1>4, <1>5, <1>8, <1>10, FinalizeTransfersEnds
<1>12. Advances(e, z)
    BY <1>5, <1>10, <1>11, AdvancesOn DEF Drained
<1> QED BY <1>11, <1>12 DEF Drained

-----------------------------------------------------------------------------
(* Route updates *)

LEMMA PausePauses ==
    ASSUME NEW e \in Engine, e.ok, NEW t \in Transfer, t \notin e.waiting, t \notin e.paused,
           e.sent[t] > 0, ~HasFinishedSending(e, t),
           NEW z, z = [PauseForRouteUpdate(Check(e, t \notin e.waiting), t)
                       EXCEPT !.state[t] = "PAUSED_ROUTE", !.waiting = @ \cup {t}]
    PROVE  /\ z \in Engine /\ Keeps(e, z, {"paused", "sendEvent", "state", "waiting"})
           /\ z.paused = e.paused \cup {t} /\ z.sendEvent = e.sendEvent \ {t}
           /\ z.waiting = e.waiting \cup {t}
           /\ z.state = [e.state EXCEPT ![t] = "PAUSED_ROUTE"]
<1> DEFINE P == e.paused \cup {t}
           E == e.sendEvent \ {t}
           W == e.waiting \cup {t}
           S == [e.state EXCEPT ![t] = "PAUSED_ROUTE"]
           y == [e EXCEPT !.paused = P, !.sendEvent = E]
<1>1. Check(e, t \notin e.waiting) = e
    BY CheckHolds
<1>2. Check(e, e.sent[t] > 0 /\ ~HasFinishedSending(e, t) /\ t \notin e.paused) = e
    BY CheckHolds
<1>3. PauseForRouteUpdate(e, t) = y
    BY <1>2 DEF PauseForRouteUpdate
<1>4. y.state = e.state /\ y.waiting = e.waiting
    BY DEF Engine
<1>5. z = [y EXCEPT !.state = S, !.waiting = W]
    <2> HIDE DEF y
    <2> QED BY <1>1, <1>3, <1>4
<1>6. P \in SUBSET Transfer /\ E \in SUBSET Transfer /\ W \in SUBSET Transfer /\ S \in [Transfer -> State]
    BY DEF Engine, State
<1> HIDE DEF P, E, W, S
<1>7. y \in Engine /\ Keeps(e, y, {"paused", "sendEvent"}) /\ y.paused = P /\ y.sendEvent = E
    BY <1>6 DEF Engine, Keeps, Fields
<1> HIDE DEF y
<1>8. z \in Engine /\ Keeps(y, z, {"state", "waiting"}) /\ z.state = S /\ z.waiting = W
    BY <1>5, <1>6, <1>7, ZenonT(60) DEF Engine, Keeps, Fields
<1>9. Keeps(e, z, {"paused", "sendEvent", "state", "waiting"}) /\ z.paused = P /\ z.sendEvent = E
    BY <1>7, <1>8 DEF Keeps, Fields
<1> QED BY <1>8, <1>9 DEF P, E, W, S

\* A transfer has lost its path; it waits for another if it has more to send.
Loses(e, z, t) ==
    /\ Sane(z, {}) /\ Only(e, z, t) /\ z.starting = e.starting /\ z.sent = e.sent
    /\ z.path[t] = NoPath
    /\ z.state[t] = IF HasFinishedSending(e, t) THEN "SENDER_FINISHED" ELSE "PAUSED_ROUTE"
    /\ \A h \in Hop : z.reserved[h] <= e.reserved[h]

LEMMA InvalidateLoses ==
    ASSUME NEW e, Sane(e, {}), NEW t \in Transfer, e.path[t] # NoPath, NEW z, z = Invalidate(e, t)
    PROVE  Loses(e, z, t)
<1>1. /\ e \in Engine /\ e.ok /\ Sums(e.reserved, e.path)
      /\ Counted(e, t) /\ StageOK(e, t) /\ FlowOK(e, t)
    BY DEF Sane
<1>2. /\ e.sent[t] \in Nat /\ PacketCount[t] \in Nat \ {0} /\ e.state \in [Transfer -> State]
      /\ e.assigned \in [Transfer -> SUBSET Hop]
      /\ e.path \in [Transfer -> [hops : SUBSET Hop, rate : Nat]]
    BY <1>1, NetworkAssumption DEF Engine
<1>3. /\ CapacityAware(e) /\ HasRegistry(e) /\ e.state[t] \in {"ACTIVE", "SENDER_FINISHED"}
      /\ ~Waits(e, t) /\ e.state[t] \notin Ended
    BY <1>1 DEF FlowOK, CapacityAware, HasRegistry, Waits, Ended
<1>4. /\ 0 < e.sent[t] /\ t \notin e.paused /\ t \notin e.waiting /\ t \notin e.activation
      /\ t \notin e.starting /\ (HasFinishedSending(e, t) <=> e.state[t] = "SENDER_FINISHED")
      /\ (t \in e.sendEvent <=> ~HasFinishedSending(e, t)) /\ e.sent[t] <= PacketCount[t]
    BY <1>1, <1>2, <1>3 DEF StageOK, HasFinishedSending, Counted
<1>5. t \in e.active
    BY <1>1, <1>3, <1>4 DEF FlowOK
<1> DEFINE paused == [PauseForRouteUpdate(Check(e, t \notin e.waiting), t)
                      EXCEPT !.state[t] = "PAUSED_ROUTE", !.waiting = @ \cup {t}]
           f == IF HasFinishedSending(e, t) THEN e ELSE paused
           A == [e.assigned EXCEPT ![t] = {}]
           y == [f EXCEPT !.assigned = A]
<1>6. /\ f \in Engine /\ Keeps(e, f, {"paused", "sendEvent", "state", "waiting"})
      /\ IF HasFinishedSending(e, t)
         THEN f = e
         ELSE /\ f.paused = e.paused \cup {t} /\ f.sendEvent = e.sendEvent \ {t}
              /\ f.waiting = e.waiting \cup {t} /\ f.state = [e.state EXCEPT ![t] = "PAUSED_ROUTE"]
    <2>1. CASE HasFinishedSending(e, t)
        <3>1. f = e
            BY <2>1
        <3> HIDE DEF f
        <3> QED BY <1>1, <2>1, <3>1 DEF Keeps
    <2>2. CASE ~HasFinishedSending(e, t)
        <3>1. f = paused
            BY <2>2
        <3>2. /\ paused \in Engine /\ Keeps(e, paused, {"paused", "sendEvent", "state", "waiting"})
              /\ paused.paused = e.paused \cup {t} /\ paused.sendEvent = e.sendEvent \ {t}
              /\ paused.waiting = e.waiting \cup {t}
              /\ paused.state = [e.state EXCEPT ![t] = "PAUSED_ROUTE"]
            <4> HIDE DEF f
            <4> QED BY <1>1, <1>4, <2>2, PausePauses
        <3> HIDE DEF f, paused
        <3> QED BY <2>2, <3>1, <3>2
    <2> QED BY <2>1, <2>2
<1>7. z = Release([Check(f, t \in f.active) EXCEPT !.assigned[t] = {}], t)
    BY DEF Invalidate
<1> HIDE DEF f
<1>8. /\ f.ok = e.ok /\ f.active = e.active /\ f.assigned = e.assigned /\ f.path = e.path
      /\ f.reserved = e.reserved
    BY <1>6 DEF Keeps, Fields
<1>9. Check(f, t \in f.active) = f
    BY <1>1, <1>5, <1>6, <1>8, CheckHolds
<1>10. z = Release(y, t)
    BY <1>7, <1>8, <1>9
<1>11. A \in [Transfer -> SUBSET Hop] /\ A[t] = {} /\ \A u \in Transfer \ {t} : A[u] = e.assigned[u]
    BY <1>2
<1> HIDE DEF A
<1>12. y \in Engine /\ Keeps(f, y, {"assigned"}) /\ y.assigned = A
    BY <1>6, <1>11 DEF Engine, Keeps, Fields
<1> HIDE DEF y
<1>13. y.ok /\ y.path = e.path /\ y.reserved = e.reserved
    BY <1>1, <1>8, <1>12 DEF Keeps, Fields
<1>14. /\ z \in Engine /\ Keeps(y, z, {"path", "reserved"})
       /\ z.path = [e.path EXCEPT ![t] = NoPath] /\ Sums(z.reserved, z.path)
       /\ \A h \in Hop : z.reserved[h] <= e.reserved[h]
    BY <1>1, <1>10, <1>12, <1>13, ReleaseReleases
<1>15. /\ z.routing = e.routing /\ z.arrival = e.arrival /\ z.pending = e.pending
       /\ z.starting = e.starting /\ z.optional = e.optional /\ z.activation = e.activation
       /\ z.depth = e.depth /\ z.sent = e.sent /\ z.flying = e.flying /\ z.received = e.received
       /\ z.active = e.active /\ z.ok = e.ok /\ z.assigned = A
       /\ z.paused = f.paused /\ z.sendEvent = f.sendEvent /\ z.waiting = f.waiting /\ z.state = f.state
    BY <1>6, <1>12, <1>14 DEF Keeps, Fields
<1>16. /\ z.path[t] = NoPath /\ \A u \in Transfer \ {t} : z.path[u] = e.path[u]
       /\ z.state[t] = (IF HasFinishedSending(e, t) THEN "SENDER_FINISHED" ELSE "PAUSED_ROUTE")
       /\ \A u \in Transfer \ {t} : z.state[u] = e.state[u]
    BY <1>2, <1>3, <1>4, <1>6, <1>14, <1>15
<1>17. Only(e, z, t)
    <2>1. ASSUME NEW u \in Transfer \ {t}
          PROVE  /\ u \in z.paused <=> u \in e.paused
                 /\ u \in z.sendEvent <=> u \in e.sendEvent
                 /\ u \in z.waiting <=> u \in e.waiting
        BY <1>6, <1>15
    <2> QED BY <1>11, <1>14, <1>15, <1>16, <2>1 DEF Only, Same
<1>18. /\ (t \in z.paused <=> z.state[t] = "PAUSED_ROUTE")
       /\ (t \in z.waiting <=> z.state[t] = "PAUSED_ROUTE") /\ t \notin z.sendEvent
    BY <1>4, <1>6, <1>15, <1>16
<1>19. Counted(z, t) /\ StageOK(z, t) /\ FlowOK(z, t)
    <2>1. Counted(z, t)
        BY <1>1, <1>15 DEF Counted
    <2>2. CapacityAware(z) /\ HasRegistry(z)
        BY <1>3, <1>15 DEF CapacityAware, HasRegistry
    <2>3. z.state[t] \in {"SENDER_FINISHED", "PAUSED_ROUTE"} /\ (Waits(z, t) <=> z.state[t] = "PAUSED_ROUTE")
        BY <1>16 DEF Waits
    <2>4. z.state[t] = "PAUSED_ROUTE" => e.sent[t] < PacketCount[t]
        <3>1. z.state[t] = "PAUSED_ROUTE" => ~HasFinishedSending(e, t)
            BY <1>16
        <3>2. ~HasFinishedSending(e, t) => e.sent[t] # PacketCount[t]
            BY DEF HasFinishedSending
        <3>3. e.sent[t] # PacketCount[t] => e.sent[t] < PacketCount[t]
            BY <1>2, <1>4
        <3> QED BY <3>1, <3>2, <3>3
    <2>5. z.state[t] = "SENDER_FINISHED" => e.sent[t] = PacketCount[t]
        BY <1>16 DEF HasFinishedSending
    <2>6. StageOK(z, t)
        BY <1>4, <1>15, <1>18, <2>2, <2>3, <2>4, <2>5 DEF StageOK
    <2>7. FlowOK(z, t)
        BY <1>4, <1>5, <1>11, <1>15, <1>16, <2>2, <2>3 DEF FlowOK, NoPath, Ended
    <2> QED BY <2>1, <2>6, <2>7
<1>20. \A u \in Transfer : Counted(z, u) /\ StageOK(z, u) /\ FlowOK(z, u)
    <2>1. ASSUME NEW u \in Transfer \ {t} PROVE Counted(z, u) /\ StageOK(z, u) /\ FlowOK(z, u)
        <3>1. Counted(e, u) /\ StageOK(e, u) /\ FlowOK(e, u) /\ Same(e, z, u)
            BY <1>17 DEF Sane, Only
        <3> QED BY <1>15, <3>1, SameOK
    <2> QED BY <1>19, <2>1
<1>21. Open(z, {})
    <2>1. ASSUME NEW u \in Transfer, z.received[u] = PacketCount[u] PROVE z.state[u] \in Ended
        <3>1. e.state[u] \in Ended
            BY <1>15, <2>1 DEF Sane, Open
        <3> QED BY <1>3, <1>16, <3>1
    <2> QED BY <2>1 DEF Open
<1>22. Sane(z, {})
    BY <1>1, <1>14, <1>15, <1>20, <1>21 DEF Sane
<1> QED BY <1>14, <1>15, <1>16, <1>17, <1>22 DEF Loses

\* The transfers at S of r have lost their paths.
Dropped(e, z, r, S) ==
    /\ Sane(z, {}) /\ z.pending = e.pending /\ z.routing = e.routing /\ z.starting = e.starting
    /\ z.depth = e.depth /\ z.received = e.received /\ z.sent = e.sent
    /\ \A h \in Hop : z.reserved[h] <= e.reserved[h]
    /\ \A u \in Transfer : Same(e, z, u) \/ \E i \in S : r[i] = u
    /\ \A i \in S : /\ z.path[r[i]] = NoPath
                    /\ z.state[r[i]] = IF HasFinishedSending(e, r[i]) THEN "SENDER_FINISHED"
                                       ELSE "PAUSED_ROUTE"

\* r lists transfers that have a path, each once.
Routes(e, r) ==
    /\ \A i \in DOMAIN r : r[i] \in Transfer /\ e.path[r[i]] # NoPath
    /\ \A i, j \in DOMAIN r : i # j => r[i] # r[j]

LEMMA InvalidateNext ==
    ASSUME NEW e, Sane(e, {}), NEW r, Routes(e, r), NEW S, S \subseteq DOMAIN r,
           NEW i \in DOMAIN r, i \notin S, NEW v, Dropped(e, v, r, S),
           NEW z, z = Invalidate(v, r[i])
    PROVE  Dropped(e, z, r, S \cup {i})
<1> DEFINE t == r[i]
<1>1. t \in Transfer /\ e.path[t] # NoPath /\ \A j \in S : r[j] # t /\ r[j] \in Transfer
    BY DEF Routes
<1>2. /\ Sane(v, {}) /\ v.pending = e.pending /\ v.routing = e.routing /\ v.starting = e.starting
      /\ v.depth = e.depth /\ v.received = e.received /\ v.sent = e.sent
      /\ \A h \in Hop : v.reserved[h] <= e.reserved[h]
      /\ \A u \in Transfer : Same(e, v, u) \/ \E j \in S : r[j] = u
      /\ \A j \in S : /\ v.path[r[j]] = NoPath
                      /\ v.state[r[j]] = IF HasFinishedSending(e, r[j]) THEN "SENDER_FINISHED"
                                         ELSE "PAUSED_ROUTE"
    BY DEF Dropped
<1>3. Same(e, v, t)
    BY <1>1, <1>2
<1> HIDE DEF t
<1>4. Loses(v, z, t)
    <2>1. v.path[t] # NoPath
        BY <1>1, <1>3 DEF Same
    <2> QED BY <1>1, <1>2, <2>1, InvalidateLoses DEF t
<1>5. /\ Sane(z, {}) /\ z.starting = v.starting /\ z.sent = v.sent /\ z.path[t] = NoPath
      /\ z.state[t] = (IF HasFinishedSending(v, t) THEN "SENDER_FINISHED" ELSE "PAUSED_ROUTE")
      /\ \A h \in Hop : z.reserved[h] <= v.reserved[h]
      /\ z.pending = v.pending /\ z.routing = v.routing /\ z.depth = v.depth
      /\ z.received = v.received /\ \A u \in Transfer \ {t} : Same(v, z, u)
    BY <1>4 DEF Loses, Only
<1>6. \A h \in Hop : z.reserved[h] <= e.reserved[h]
    <2>1. \A h \in Hop : z.reserved[h] \in Nat /\ v.reserved[h] \in Nat /\ e.reserved[h] \in Nat
        BY <1>2, <1>5 DEF Sane, Engine
    <2> QED BY <1>2, <1>5, <2>1
<1>7. ASSUME NEW u \in Transfer PROVE Same(e, z, u) \/ \E j \in S \cup {i} : r[j] = u
    <2>1. CASE u = t
        BY <2>1 DEF t
    <2>2. CASE u # t
        <3>1. Same(v, z, u)
            BY <1>5, <2>2
        <3>2. CASE Same(e, v, u)
            BY <3>1, <3>2 DEF Same
        <3>3. CASE \E j \in S : r[j] = u
            BY <3>3
        <3> QED BY <1>2, <3>2, <3>3
    <2> QED BY <2>1, <2>2
<1>8. ASSUME NEW j \in S \cup {i}
      PROVE  /\ z.path[r[j]] = NoPath
             /\ z.state[r[j]] = IF HasFinishedSending(e, r[j]) THEN "SENDER_FINISHED"
                                ELSE "PAUSED_ROUTE"
    <2>1. CASE j = i
        <3>1. HasFinishedSending(v, t) <=> HasFinishedSending(e, t)
            BY <1>2 DEF HasFinishedSending
        <3> QED BY <1>5, <2>1, <3>1 DEF t
    <2>2. CASE j \in S
        <3>1. r[j] \in Transfer \ {t}
            BY <1>1, <2>2
        <3>2. Same(v, z, r[j])
            BY <1>5, <3>1
        <3> QED BY <1>2, <2>2, <3>2 DEF Same
    <2> QED BY <2>1, <2>2
<1> QED BY <1>2, <1>5, <1>6, <1>7, <1>8 DEF Dropped

LEMMA InvalidateAllDrops ==
    ASSUME NEW e, Sane(e, {}), NEW r, Routes(e, r), NEW n \in Nat, DOMAIN r = 1..n,
           NEW z, z = InvalidateAll(e, r)
    PROVE  Dropped(e, z, r, DOMAIN r)
<1> DEFINE T == DOMAIN r
           Told(v, i) == Invalidate(v, r[i])
           Good(v, S) == Dropped(e, v, r, S)
           P == [s \in SUBSET T |-> {v \in Engine : Good(v, s)}]
           choose == [s \in SUBSET T |-> Max(s)]
           step == [xv \in T \X Engine |-> Told(xv[2], xv[1])]
           F(h) == [s \in SUBSET T |-> IF s = {} THEN e
                                      ELSE LET x == Max(s) IN Told(h[s \ {x}], x)]
           it == CHOOSE h : h = F(h)
<1>1. IsFiniteSet(T) /\ \A s \in SUBSET T : s # {} => Max(s) \in s
    <2>1. PICK size \in Nat : T = 1..size
        OBVIOUS
    <2>2. IsFiniteSet(1..size)
        BY FS_Interval
    <2>3. \A s \in SUBSET (1..size) : s # {} => Max(s) \in s
        BY MaxIn
    <2> HIDE DEF T
    <2> QED BY <2>1, <2>2, <2>3
<1>2. \A s \in SUBSET T : s # {} => choose[s] \in s
    BY <1>1
<1>3. \A x \in T : \A v \in Engine : step[<<x, v>>] = Told(v, x)
    OBVIOUS
<1>4. ASSUME NEW h PROVE F(h) = [s \in SUBSET T |-> F(h)[s]]
    OBVIOUS
<1>5. ASSUME NEW h, NEW s \in SUBSET T, s # {}
      PROVE  F(h)[s] = Told(h[s \ {choose[s]}], choose[s])
    <2> DEFINE c == Max(s)
    <2> HIDE DEF Told
    <2>1. choose[s] = c
        OBVIOUS
    <2>2. F(h)[s] = Told(h[s \ {c}], c)
        BY <1>5
    <2> HIDE DEF F, choose, c
    <2> QED BY <2>1, <2>2
<1>6. ASSUME NEW h PROVE F(h)[{}] = e
    OBVIOUS
<1>7. z = it[T]
    BY DEF InvalidateAll, FoldLeft, MapThenFoldSet
<1>8. ASSUME NEW s \in SUBSET T, NEW v PROVE v \in P[s] <=> v \in Engine /\ Good(v, s)
    OBVIOUS
<1>9. P \in [SUBSET T -> SUBSET Engine]
    OBVIOUS
<1>10. Good(e, {}) /\ e \in Engine
    <2>1. \A u \in Transfer : Same(e, e, u)
        BY DEF Same
    <2>2. \A h \in Hop : e.reserved[h] \in Nat
        BY DEF Sane, Engine
    <2> QED BY <2>1, <2>2 DEF Dropped, Sane
<1>11. ASSUME NEW S \in SUBSET T, NEW i \in T, i \notin S, NEW v \in Engine, Good(v, S)
       PROVE  Good(Told(v, i), S \cup {i}) /\ Told(v, i) \in Engine
    <2>1. Dropped(e, Told(v, i), r, S \cup {i})
        BY <1>11, InvalidateNext
    <2> QED BY <2>1 DEF Dropped, Sane
<1> HIDE DEF choose, step, F, P, Told, Good, T
<1>12. Carries(P, e, choose, step, T, Engine)
    <2>1. e \in P[{}]
        <3>1. {} \in SUBSET T
            OBVIOUS
        <3> QED BY <1>8, <1>10, <3>1
    <2>2. ASSUME NEW s \in SUBSET T, s # {}, NEW v \in P[s \ {choose[s]}]
          PROVE  step[<<choose[s], v>>] \in P[s]
        <3> DEFINE i == choose[s]
                   rest == s \ {i}
        <3>1. i \in s /\ i \in T /\ rest \in SUBSET T /\ v \in P[rest] /\ i \notin rest /\ rest \cup {i} = s
            BY <1>2, <2>2
        <3> HIDE DEF i, rest
        <3>2. v \in Engine /\ Good(v, rest)
            BY <1>8, <3>1
        <3>3. Good(Told(v, i), s) /\ Told(v, i) \in Engine
            BY <1>11, <3>1, <3>2
        <3>4. step[<<i, v>>] = Told(v, i)
            BY <1>3, <3>1, <3>2
        <3> QED BY <1>8, <3>3, <3>4 DEF i
    <2> QED BY <1>2, <1>9, <2>1, <2>2 DEF Carries, Chooses
<1>13. \E h : h = F(h)
    <2>1. PICK h : Folds(h, P, e, choose, step, T)
        BY <1>1, <1>12, FoldKeeps
    <2>2. ASSUME NEW s \in SUBSET T PROVE F(h)[s] = h[s]
        <3>1. CASE s # {}
            <4>1. choose[s] \in T /\ s \ {choose[s]} \in SUBSET T
                BY <1>2, <3>1
            <4>2. h[s \ {choose[s]}] \in Engine
                BY <1>8, <2>1, <4>1 DEF Folds
            <4>3. h[s] = step[<<choose[s], h[s \ {choose[s]}]>>]
                BY <2>1, <3>1 DEF Folds
            <4>4. F(h)[s] = Told(h[s \ {choose[s]}], choose[s])
                BY ONLY <1>5, <3>1, s \in SUBSET T
            <4>5. step[<<choose[s], h[s \ {choose[s]}]>>] = Told(h[s \ {choose[s]}], choose[s])
                BY ONLY <1>3, <4>1, <4>2
            <4> QED BY ONLY <4>3, <4>4, <4>5
        <3>2. CASE s = {}
            BY <1>6, <2>1, <3>2 DEF Folds
        <3> QED BY <3>1, <3>2
    <2>3. h = [s \in SUBSET T |-> h[s]]
        BY <2>1 DEF Folds
    <2>4. F(h) = [s \in SUBSET T |-> F(h)[s]]
        BY <1>4
    <2> QED BY <2>2, <2>3, <2>4
<1>14. it = F(it)
    BY <1>13
<1> HIDE DEF it
<1>15. Obeys(it, P, e, choose, step, T)
    <2>1. it[{}] = e
        BY <1>6, <1>14
    <2>2. ASSUME NEW s \in SUBSET T, s # {}, it[s \ {choose[s]}] \in P[s \ {choose[s]}]
          PROVE  it[s] = step[<<choose[s], it[s \ {choose[s]}]>>]
        <3>1. choose[s] \in T /\ s \ {choose[s]} \in SUBSET T
            BY <1>2, <2>2
        <3>2. it[s \ {choose[s]}] \in Engine
            BY <1>8, <2>2, <3>1
        <3>3. it[s] = Told(it[s \ {choose[s]}], choose[s])
            BY <1>5, <1>14, <2>2
        <3> QED BY <1>3, <3>1, <3>2, <3>3
    <2> QED BY <2>1, <2>2 DEF Obeys
<1>16. Good(z, T)
    <2>1. it[T] \in P[T]
        BY <1>1, <1>12, <1>15, FoldStays
    <2>2. T \in SUBSET T
        OBVIOUS
    <2> QED BY <1>7, <1>8, <2>1, <2>2
<1> QED BY <1>16 DEF Good, T

\* The active transfers whose paths the routes g do not have.
Stranded(e, g) == {t \in Transfer : /\ e.state[t] \in {"ACTIVE", "SENDER_FINISHED"}
                                    /\ e.path[t] # NoPath /\ ~IsActivePathValid(e, g, t)}

LEMMA InvalidatedLists ==
    ASSUME NEW e \in Engine, NEW g, NEW r, r = Invalidated(e, g)
    PROVE  /\ r \in Seq(Transfer) /\ Routes(e, r)
           /\ \A u \in Transfer : u \in Stranded(e, g) <=> \E i \in DOMAIN r : r[i] = u
<1> DEFINE U == Stranded(e, g)
           Before(t, u) == \/ e.arrival[t] < e.arrival[u]
                           \/ e.arrival[t] = e.arrival[u] /\ t < u
           below == [x \in U |-> {y \in U : Before(y, x)}]
<1>1. U \subseteq Transfer /\ IsFiniteSet(U)
    <2>1. U \subseteq Transfer
        BY DEF Stranded
    <2>2. IsFiniteSet(Transfer)
        BY NetworkAssumption
    <2> QED BY <2>1, <2>2, FS_Subset
<1>2. \A x \in Transfer : x \in Nat /\ e.arrival[x] \in Nat
    BY NetworkAssumption DEF Engine
<1>3. r = [i \in 1..Cardinality(U) |-> CHOOSE x \in U : Cardinality({y \in U : Before(y, x)}) = i - 1]
    BY DEF Invalidated, Ranked, Stranded
<1> HIDE DEF U
<1>4. Orders(below, U)
    <2>1. \A x \in U : x \in Nat /\ e.arrival[x] \in Nat
        BY <1>1, <1>2
    <2>2. \A x \in U : ~Before(x, x)
        BY <2>1
    <2>3. \A x, y \in U : x # y => Before(x, y) \/ Before(y, x)
        BY <2>1
    <2>4. \A x, y, w \in U : Before(x, y) /\ Before(w, x) => Before(w, y)
        BY <2>1
    <2> HIDE DEF Before
    <2> QED BY <2>2, <2>3, <2>4 DEF Orders
<1>5. Lists(r, U, below)
    <2>1. \A x \in U : below[x] = {y \in U : Before(y, x)}
        OBVIOUS
    <2> HIDE DEF below, Before
    <2>2. DOMAIN r = 1..Cardinality(U)
        BY <1>3
    <2>3. \A i \in DOMAIN r : r[i] = CHOOSE x \in U : Cardinality(below[x]) = i - 1
        BY <1>3, <2>1
    <2> QED BY <1>1, <1>4, <2>2, <2>3, RankedLists
<1>6. /\ DOMAIN r = 1..Cardinality(U) /\ Cardinality(U) \in Nat
      /\ \A i \in DOMAIN r : r[i] \in U
      /\ \A x \in U : \E i \in DOMAIN r : r[i] = x
      /\ \A i, j \in DOMAIN r : i # j => r[i] # r[j]
    BY <1>5 DEF Lists
<1>7. r \in Seq(Transfer)
    <2>1. r = [i \in 1..Cardinality(U) |-> r[i]]
        BY <1>3
    <2>2. r \in [1..Cardinality(U) -> Transfer]
        BY <1>1, <1>6, <2>1
    <2> QED BY <1>6, <2>2
<1>8. \A x \in U : x \in Transfer /\ e.path[x] # NoPath
    BY DEF U, Stranded
<1> QED BY <1>6, <1>7, <1>8 DEF Routes, U

\* No two elements of q are the same; a and b have none in common; q is made of
\* the elements of both.
Once(q) == \A i, j \in DOMAIN q : i # j => q[i] # q[j]
Apart(a, b) == \A i \in DOMAIN a : \A j \in DOMAIN b : a[i] # b[j]
Joins(q, a, b) ==
    \A x : (\E k \in DOMAIN q : q[k] = x) <=>
             (\E i \in DOMAIN a : a[i] = x) \/ (\E j \in DOMAIN b : b[j] = x)

\* What is put together of two sequences is in one of them.
LEMMA ConcatParts ==
    ASSUME NEW V, NEW a \in Seq(V), NEW b \in Seq(V), NEW q, q = a \o b
    PROVE  q \in Seq(V) /\ Joins(q, a, b) /\ (Once(a) /\ Once(b) /\ Apart(a, b) => Once(q))
<1> DEFINE m == Len(a)
           n == Len(b)
<1>1. m \in Nat /\ n \in Nat /\ DOMAIN a = 1..m /\ DOMAIN b = 1..n
    BY LenProperties
<1>2. q \in Seq(V) /\ DOMAIN q = 1..(m + n)
    <2>1. q \in Seq(V) /\ Len(q) = m + n
        BY ConcatProperties
    <2> QED BY <2>1, LenProperties
<1>3. \A k \in 1..(m + n) : q[k] = IF k <= m THEN a[k] ELSE b[k - m]
    BY ConcatProperties
<1> HIDE DEF m, n
<1>4. \A i \in 1..m : i \in 1..(m + n) /\ q[i] = a[i]
    <2>1. \A i \in 1..m : i \in 1..(m + n) /\ i <= m
        BY <1>1
    <2> QED BY <1>3, <2>1
<1>5. \A j \in 1..n : m + j \in 1..(m + n) /\ q[m + j] = b[j]
    <2>1. ASSUME NEW j \in 1..n PROVE m + j \in 1..(m + n) /\ q[m + j] = b[j]
        <3> DEFINE k == m + j
        <3>1. k \in 1..(m + n) /\ ~(k <= m) /\ k - m = j
            BY <1>1
        <3> HIDE DEF k
        <3>2. q[k] = b[j]
            BY <1>3, <3>1
        <3> QED BY <3>1, <3>2 DEF k
    <2> QED BY <2>1
<1>6. \A k \in 1..(m + n) : \/ k \in 1..m /\ q[k] = a[k]
                            \/ k - m \in 1..n /\ q[k] = b[k - m] /\ k = m + (k - m)
    <2>1. \A k \in 1..(m + n) : (k <= m /\ k \in 1..m) \/ (~(k <= m) /\ k - m \in 1..n /\ k = m + (k - m))
        BY <1>1
    <2> QED BY <1>3, <2>1
<1>7. ASSUME NEW x
      PROVE  (\E k \in DOMAIN q : q[k] = x) <=>
               (\E i \in DOMAIN a : a[i] = x) \/ (\E j \in DOMAIN b : b[j] = x)
    <2>1. ASSUME NEW i \in 1..m, a[i] = x PROVE \E k \in 1..(m + n) : q[k] = x
        BY <1>4, <2>1
    <2>2. ASSUME NEW j \in 1..n, b[j] = x PROVE \E k \in 1..(m + n) : q[k] = x
        BY <1>5, <2>2
    <2>3. ASSUME NEW k \in 1..(m + n), q[k] = x
          PROVE  (\E i \in 1..m : a[i] = x) \/ (\E j \in 1..n : b[j] = x)
        BY <1>6, <2>3
    <2> QED BY <1>1, <1>2, <2>1, <2>2, <2>3
<1>8. ASSUME Once(a), Once(b), Apart(a, b) PROVE Once(q)
    <2>1. ASSUME NEW i \in 1..(m + n), NEW j \in 1..(m + n), i # j, q[i] = q[j] PROVE FALSE
        <3>1. CASE i \in 1..m /\ q[i] = a[i] /\ j \in 1..m /\ q[j] = a[j]
            BY <1>1, <1>8, <2>1, <3>1 DEF Once, Apart
        <3>2. CASE i \in 1..m /\ q[i] = a[i] /\ j - m \in 1..n /\ q[j] = b[j - m]
            BY <1>1, <1>8, <2>1, <3>2 DEF Once, Apart
        <3>3. CASE j \in 1..m /\ q[j] = a[j] /\ i - m \in 1..n /\ q[i] = b[i - m]
            BY <1>1, <1>8, <2>1, <3>3 DEF Once, Apart
        <3>4. CASE i - m \in 1..n /\ q[i] = b[i - m] /\ j - m \in 1..n /\ q[j] = b[j - m] /\ i = m + (i - m) /\ j = m + (j - m)
            <4>1. i - m # j - m
                BY <2>1, <3>4
            <4> QED BY <1>1, <1>8, <2>1, <3>4, <4>1 DEF Once
        <3> QED BY <1>6, <3>1, <3>2, <3>3, <3>4
    <2> QED BY <1>2, <2>1 DEF Once
<1> QED BY <1>2, <1>7, <1>8 DEF Joins

\* k lists the elements of s that are in S, each once.
KeptOnce(k, s, S) ==
    /\ \A i \in DOMAIN k : k[i] \in S /\ \E j \in DOMAIN s : s[j] = k[i]
    /\ \A i, j \in DOMAIN k : i # j => k[i] # k[j]
    /\ \A j \in DOMAIN s : s[j] \in S => \E i \in DOMAIN k : k[i] = s[j]

LEMMA KeepOnce ==
    ASSUME NEW V, NEW s \in Seq(V), \A i, j \in DOMAIN s : i # j => s[i] # s[j], NEW S
    PROVE  Keep(s, S) \in Seq(V) /\ KeptOnce(Keep(s, S), s, S)
<1> DEFINE k == Keep(s, S)
<1>1. k \in Seq(V) /\ \E at : KeptAt(k, s, S, at)
    BY KeepKeeps
<1> HIDE DEF k
<1>2. PICK at : KeptAt(k, s, S, at)
    BY <1>1
<1>3. /\ at \in [DOMAIN k -> DOMAIN s]
      /\ \A i \in DOMAIN k : k[i] = s[at[i]] /\ k[i] \in S
      /\ \A i, j \in DOMAIN k : i # j => at[i] # at[j]
      /\ \A i \in DOMAIN s : s[i] \in S => \E j \in DOMAIN k : at[j] = i
    BY <1>2 DEF KeptAt
<1>4. KeptOnce(k, s, S)
    BY <1>3 DEF KeptOnce
<1> QED BY <1>1, <1>4 DEF k

\* A holds those that have more to send, B those that r does not list.
Parts(e, r, A, B) ==
    \A u \in Transfer : /\ u \in A <=> ~HasFinishedSending(e, u)
                        /\ u \in B <=> ~\E i \in DOMAIN r : r[i] = u

\* q holds those of r that have more to send, then those that were waiting.
IsRequeue(e, r, q, A, B, again, others) ==
    /\ Parts(e, r, A, B) /\ q = again \o others
    /\ again \in Seq(Transfer) /\ KeptOnce(again, r, A)
    /\ others \in Seq(Transfer) /\ KeptOnce(others, e.pending, B)

Requeues(e, r, q) == \E A, B, again, others : IsRequeue(e, r, q, A, B, again, others)

\* Who lost a path waits before those that waited.
LEMMA RequeuedExact ==
    ASSUME NEW e, Sane(e, {}), Queued(e), NEW r, Routes(e, r),
           NEW d, Dropped(e, d, r, DOMAIN r), NEW y, Requeues(e, r, y.pending), y.state = d.state
    PROVE  Queued(y)
<1> PICK A, B, again, others : IsRequeue(e, r, y.pending, A, B, again, others)
    BY DEF Requeues
<1> USE DEF IsRequeue
<1>0. \A u \in Transfer : /\ u \in A <=> ~HasFinishedSending(e, u)
                          /\ u \in B <=> ~\E i \in DOMAIN r : r[i] = u
    BY DEF Parts
<1>1. /\ \A u \in Transfer : Same(e, d, u) \/ \E i \in DOMAIN r : r[i] = u
      /\ \A i \in DOMAIN r : d.state[r[i]] = IF HasFinishedSending(e, r[i]) THEN "SENDER_FINISHED"
                                             ELSE "PAUSED_ROUTE"
    BY DEF Dropped
<1>2. /\ \A i \in DOMAIN again : again[i] \in A /\ \E k \in DOMAIN r : r[k] = again[i]
      /\ \A i, j \in DOMAIN again : i # j => again[i] # again[j]
      /\ \A k \in DOMAIN r : r[k] \in A => \E i \in DOMAIN again : again[i] = r[k]
    BY DEF KeptOnce
<1>3. /\ \A i \in DOMAIN others : others[i] \in B /\ \E k \in DOMAIN e.pending : e.pending[k] = others[i]
      /\ \A i, j \in DOMAIN others : i # j => others[i] # others[j]
      /\ \A k \in DOMAIN e.pending : e.pending[k] \in B => \E i \in DOMAIN others : others[i] = e.pending[k]
    BY DEF KeptOnce
<1>4. \A i \in DOMAIN others : others[i] \in Transfer
    BY ElementOfSeq
<1>5. \A i \in DOMAIN again : \A j \in DOMAIN others : again[i] # others[j]
    BY <1>0, <1>2, <1>3, <1>4
<1> DEFINE q == again \o others
<1>6. /\ \A x : (\E k \in DOMAIN q : q[k] = x) <=>
                  (\E i \in DOMAIN again : again[i] = x) \/ (\E j \in DOMAIN others : others[j] = x)
      /\ \A i, j \in DOMAIN q : i # j => q[i] # q[j]
    <2>1. Once(again) /\ Once(others) /\ Apart(again, others)
        BY <1>2, <1>3, <1>5 DEF Once, Apart
    <2>2. q = again \o others
        OBVIOUS
    <2> HIDE DEF q
    <2>3. Joins(q, again, others) /\ Once(q)
        BY <2>1, <2>2, ConcatParts
    <2> QED BY <2>3 DEF Joins, Once
<1>7. y.pending = q
    OBVIOUS
<1> HIDE DEF q
<1>8. ASSUME NEW u \in Transfer PROVE Waits(y, u) <=> \E k \in DOMAIN q : q[k] = u
    <2>1. CASE \E i \in DOMAIN r : r[i] = u
        <3>1. PICK k \in DOMAIN r : r[k] = u
            BY <2>1
        <3>2. Waits(y, u) <=> ~HasFinishedSending(e, u)
            BY <1>1, <3>1 DEF Waits
        <3>3. (\E i \in DOMAIN again : again[i] = u) <=> u \in A
            BY <1>2, <3>1
        <3>4. ~\E j \in DOMAIN others : others[j] = u
            BY <1>0, <1>3, <2>1
        <3> QED BY <1>0, <1>6, <3>2, <3>3, <3>4
    <2>2. CASE ~\E i \in DOMAIN r : r[i] = u
        <3>1. Same(e, d, u)
            BY <1>1, <2>2
        <3>2. Waits(y, u) <=> Waits(e, u)
            BY <3>1 DEF Same, Waits
        <3>3. ~\E i \in DOMAIN again : again[i] = u
            BY <1>2, <2>2
        <3>4. Waits(e, u) <=> \E k \in DOMAIN e.pending : e.pending[k] = u
            BY DEF Queued
        <3>5. (\E k \in DOMAIN e.pending : e.pending[k] = u) <=> \E j \in DOMAIN others : others[j] = u
            BY <1>0, <1>3, <2>2
        <3> QED BY <1>6, <3>2, <3>3, <3>4, <3>5
    <2> QED BY <2>1, <2>2
<1> QED BY <1>6, <1>7, <1>8 DEF Queued

LEMMA HandleTopologyRouteUpdateSettles ==
    ASSUME NEW e, Sane(e, {}), Queued(e), CapacityAware(e), e.depth = 0, NEW g \in Topology,
           NEW z, z = HandleTopologyRouteUpdate(e, g)
    PROVE  Drained(e, z, g)
<1> DEFINE r == Invalidated(e, g)
           d == InvalidateAll(e, r)
           again == Keep(r, {t \in Transfer : ~HasFinishedSending(e, t)})
           others == Keep(e.pending, Transfer \ ToSet(r))
           q == again \o others
           y == [d EXCEPT !.pending = q]
<1>1. e \in Engine /\ e.pending \in Seq(Transfer)
    BY DEF Sane, Engine
<1>2. /\ r \in Seq(Transfer) /\ Routes(e, r)
      /\ \A u \in Transfer : u \in Stranded(e, g) <=> \E i \in DOMAIN r : r[i] = u
    BY <1>1, InvalidatedLists
<1>3. z = IF r = <<>> THEN Drain(e, g) ELSE TryActivatePending(y, g)
    BY DEF HandleTopologyRouteUpdate
<1> HIDE DEF r
<1>4. Dropped(e, d, r, DOMAIN r)
    <2>1. Len(r) \in Nat /\ DOMAIN r = 1..Len(r)
        BY <1>2, LenProperties
    <2> QED BY <1>2, <2>1, InvalidateAllDrops
<1>5. ASSUME NEW u \in Transfer, e.path[u] # NoPath, u \notin Stranded(e, g)
      PROVE  IsActivePathValid(e, g, u)
    BY <1>5 DEF Sane, FlowOK, Stranded
<1>6. CASE r = <<>>
    <2>1. Valid(e, g)
        <3>1. \A u \in Transfer : u \notin Stranded(e, g)
            BY <1>2, <1>6
        <3> QED BY <1>5, <3>1 DEF Valid
    <2>2. Steady(e, g)
        BY <2>1 DEF Steady
    <2> QED BY <1>3, <1>6, <2>2, DrainDrains DEF Drained
<1>7. CASE r # <<>>
    <2>1. again \in Seq(Transfer) /\ others \in Seq(Transfer)
        BY <1>1, <1>2, KeepKeeps
    <2>2. q \in Seq(Transfer)
        <3> HIDE DEF again, others
        <3> QED BY <2>1, ConcatParts
    <2> HIDE DEF d
    <2>3. /\ Sane(d, {}) /\ d.routing = e.routing /\ d.starting = e.starting
          /\ d.depth = e.depth /\ d.received = e.received
          /\ \A h \in Hop : d.reserved[h] <= e.reserved[h]
          /\ \A u \in Transfer : Same(e, d, u) \/ \E i \in DOMAIN r : r[i] = u
          /\ \A i \in DOMAIN r : /\ d.path[r[i]] = NoPath
                                 /\ d.state[r[i]] \in {"SENDER_FINISHED", "PAUSED_ROUTE"}
        BY <1>4 DEF Dropped
    <2>4. Valid(d, g)
        <3>1. ASSUME NEW u \in Transfer, d.path[u] # NoPath, NEW h \in d.path[u].hops
              PROVE  /\ h[2] \in Candidates[g][h[1]][Destination[u]]
                     /\ d.reserved[h] <= Bandwidth[{h[1], h[2]}]
            <4>1. ~\E i \in DOMAIN r : r[i] = u
                BY <2>3, <3>1
            <4>2. d.path[u] = e.path[u]
                BY <2>3, <4>1 DEF Same
            <4>3. IsActivePathValid(e, g, u)
                BY <1>2, <1>5, <3>1, <4>1, <4>2
            <4>4. h[2] \in Candidates[g][h[1]][Destination[u]] /\ e.reserved[h] <= Bandwidth[{h[1], h[2]}]
                BY <3>1, <4>2, <4>3 DEF IsActivePathValid
            <4>5. h \in Hop
                BY <1>1, <3>1, <4>2 DEF Engine
            <4>6. d.reserved[h] <= e.reserved[h] /\ d.reserved[h] \in Nat /\ e.reserved[h] \in Nat
                <5>1. d \in Engine
                    BY <2>3 DEF Sane
                <5> QED BY <1>1, <2>3, <4>5, <5>1 DEF Engine
            <4>7. Bandwidth[{h[1], h[2]}] \in Nat
                <5>1. {h[1], h[2]} \in UNION Topology
                    BY <3>1, <4>2 DEF Sane, FlowOK
                <5> QED BY <5>1, NetworkAssumption
            <4> QED BY <4>4, <4>6, <4>7
        <3> QED BY <3>1 DEF Valid, IsActivePathValid
    <2>5. y \in Engine /\ Keeps(d, y, {"pending"}) /\ y.pending = q
        <3>1. d \in Engine
            BY <2>3 DEF Sane
        <3> HIDE DEF q
        <3> QED BY <2>2, <3>1, PendingSets
    <2> HIDE DEF y
    <2>6. Keeps(d, y, {"pending", "arrival", "depth", "notified"}) /\ y.depth = d.depth
        BY <2>5 DEF Keeps, Fields
    <2>7. /\ Sane(y, {}) /\ y.routing = d.routing /\ y.starting = d.starting
          /\ y.received = d.received /\ y.state = d.state /\ Valid(y, g)
        BY <2>3, <2>4, <2>5, <2>6, SaneKept
    <2>8. Queued(y)
        <3> DEFINE A == {t \in Transfer : ~HasFinishedSending(e, t)}
                   B == Transfer \ ToSet(r)
        <3>1. Parts(e, r, A, B)
            BY DEF ToSet, Parts
        <3> HIDE DEF A, B
        <3>2. again \in Seq(Transfer) /\ KeptOnce(again, r, A)
            BY <1>2, KeepOnce DEF Routes, A
        <3>3. others \in Seq(Transfer) /\ KeptOnce(others, e.pending, B)
            BY <1>1, KeepOnce DEF Queued, B
        <3>4. y.pending = again \o others /\ y.state = d.state
            BY <2>5, <2>7
        <3> HIDE DEF again, others, q
        <3>5. IsRequeue(e, r, y.pending, A, B, again, others)
            BY <3>1, <3>2, <3>3, <3>4 DEF IsRequeue
        <3>6. Requeues(e, r, y.pending)
            BY <3>5 DEF Requeues
        <3> QED BY <1>2, <1>4, <3>4, <3>6, RequeuedExact
    <2>9. Steady(y, g)
        BY <2>7, <2>8 DEF Steady
    <2>10. Advances(e, y)
        <3>1. ASSUME NEW u \in Transfer
              PROVE  /\ d.state[u] = "WAITING_ADMISSION" => e.state[u] = "WAITING_ADMISSION"
                     /\ e.state[u] \in Ended => d.state[u] = e.state[u]
            <4>1. CASE Same(e, d, u)
                BY <4>1 DEF Same
            <4>2. CASE \E i \in DOMAIN r : r[i] = u
                <5>1. d.state[u] # "WAITING_ADMISSION"
                    BY <2>3, <4>2
                <5>2. e.path[u] # NoPath
                    BY <1>2, <4>2 DEF Routes
                <5>3. e.state[u] \in {"ACTIVE", "SENDER_FINISHED"}
                    BY <5>2 DEF Sane, FlowOK
                <5> QED BY <5>1, <5>3 DEF Ended
            <4> QED BY <2>3, <4>1, <4>2
        <3> QED BY <2>3, <2>6, <2>7, <3>1 DEF Advances
    <2>11. Steady(z, g) /\ Settled(z, g) /\ Advances(y, z)
        BY <1>3, <1>7, <2>9, TryActivatePendingActivates
    <2>12. Advances(e, z)
        BY <2>10, <2>11, AdvancesOn
    <2> QED BY <2>11, <2>12 DEF Drained
<1> QED BY <1>6, <1>7

-----------------------------------------------------------------------------
(* The steps *)

\* Only t has moved, and to a legal state.
LEMMA OneMoves ==
    ASSUME NEW e, Sane(e, {}), NEW t \in Transfer, NEW z \in Engine, z.ok, z.routing = e.routing,
           \A u \in Transfer \ {t} : Same(e, z, u), Counted(z, t), StageOK(z, t), FlowOK(z, t),
           Sums(z.reserved, z.path), NEW x,
           t \in x \/ (z.received[t] = PacketCount[t] => z.state[t] \in Ended)
    PROVE  Sane(z, x)
<1>1. \A u \in Transfer : Counted(z, u) /\ StageOK(z, u) /\ FlowOK(z, u)
    <2>1. ASSUME NEW u \in Transfer \ {t} PROVE Counted(z, u) /\ StageOK(z, u) /\ FlowOK(z, u)
        <3>1. Counted(e, u) /\ StageOK(e, u) /\ FlowOK(e, u) /\ Same(e, z, u)
            BY DEF Sane
        <3> QED BY <3>1, SameOK
    <2> QED BY <2>1
<1>2. Open(z, x)
    <2>1. ASSUME NEW u \in Transfer \ x, z.received[u] = PacketCount[u] PROVE z.state[u] \in Ended
        <3>1. CASE u = t
            BY <2>1, <3>1
        <3>2. CASE u # t
            BY <2>1, <3>2 DEF Sane, Open, Same
        <3> QED BY <3>1, <3>2
    <2> QED BY <2>1 DEF Open
<1> QED BY <1>1, <1>2 DEF Sane

\* After admission was tried the engine is between events again.
LEMMA DrainedStable ==
    ASSUME NEW e, NEW g \in Topology, NEW z, Drained(e, z, g), e.depth = 0, Routed(e, g),
           \A u \in Optional : z.state[u] = "WAITING_ADMISSION" => u \in z.starting
    PROVE  Stable(z, g)
<1>1. Steady(z, g) /\ Settled(z, g) /\ z.routing = e.routing /\ z.depth = 0
    BY DEF Drained, Advances
<1>2. Routed(z, g)
    BY <1>1 DEF Routed, CapacityAware
<1>3. OptionalOK(z)
    BY DEF OptionalOK
<1> QED BY <1>1, <1>2, <1>3 DEF Stable, Steady

LEMMA DrainedOptional ==
    ASSUME NEW e, OptionalOK(e), NEW g, NEW z, Drained(e, z, g),
           NEW u \in Optional, z.state[u] = "WAITING_ADMISSION"
    PROVE  u \in z.starting
<1>1. u \in Transfer
    BY NetworkAssumption
<1> QED BY <1>1 DEF Drained, Advances, OptionalOK

\* Packets come and go; who waits, and for what, is the same.
LEMMA StableKept ==
    ASSUME NEW e, NEW g \in Topology, Stable(e, g), NEW z, z.path = e.path,
           z.reserved = e.reserved, z.pending = e.pending, z.starting = e.starting,
           z.routing = e.routing, z.depth = e.depth, z.ok = e.ok, z \in Engine,
           \A u \in Transfer : z.state[u] = e.state[u] \/ (~Waits(e, u) /\ ~Waits(z, u))
    PROVE  Valid(z, g) /\ Queued(z) /\ z.depth = 0 /\ (Sane(z, {}) => Stable(z, g))
<1>1. e \in Engine /\ Valid(e, g) /\ Queued(e) /\ Settled(e, g) /\ OptionalOK(e) /\ Routed(e, g) /\ e.depth = 0
    BY DEF Stable, Sane
<1>2. \A u \in Transfer : Waits(z, u) <=> Waits(e, u)
    BY DEF Waits
<1>3. Valid(z, g)
    BY <1>1 DEF Valid, IsActivePathValid
<1>4. Queued(z)
    BY <1>1, <1>2 DEF Queued
<1>5. Settled(z, g)
    <2>1. ASSUME NEW u \in Transfer, Waits(z, u), u \notin z.starting PROVE FindPath(z, g, u) = NoPath
        <3>1. FindPath(e, g, u) = NoPath
            BY <1>1, <1>2, <2>1 DEF Settled
        <3>2. e.reserved \in [Hop -> Nat] /\ \A h \in Hop : e.reserved[h] <= z.reserved[h]
            BY <1>1 DEF Engine
        <3> QED BY <3>1, <3>2, ClosedStaysClosed
    <2> QED BY <2>1 DEF Settled
<1>6. OptionalOK(z)
    <2>1. \A u \in Optional : u \in Transfer
        BY NetworkAssumption
    <2> QED BY <1>1, <2>1 DEF OptionalOK, Waits
<1>7. Routed(z, g)
    BY <1>1 DEF Routed, CapacityAware
<1> QED BY <1>1, <1>3, <1>4, <1>5, <1>6, <1>7 DEF Stable

\* Without admission nobody waits and nobody holds a path.
LEMMA StableUnaware ==
    ASSUME NEW e, Sane(e, {}), Queued(e), NEW g, NEW z, Sane(z, {}), ~CapacityAware(e),
           z.routing = e.routing, z.pending = e.pending, z.depth = 0, Routed(z, g)
    PROVE  Stable(z, g)
<1>1. ~CapacityAware(z)
    BY DEF CapacityAware
<1>2. \A u \in Transfer : ~Waits(e, u) /\ ~Waits(z, u) /\ z.path[u] = NoPath
    <2>1. ASSUME NEW u \in Transfer PROVE ~Waits(e, u) /\ ~Waits(z, u) /\ z.path[u] = NoPath
        <3>1. StageOK(e, u) /\ StageOK(z, u) /\ FlowOK(z, u)
            BY DEF Sane
        <3> QED BY <1>1, <3>1 DEF StageOK, FlowOK, Waits
    <2> QED BY <2>1
<1>3. Valid(z, g) /\ Settled(z, g)
    BY <1>2 DEF Valid, Settled
<1>4. Queued(z)
    BY <1>2 DEF Queued
<1>5. OptionalOK(z)
    BY <1>2, NetworkAssumption DEF OptionalOK, Waits
<1> QED BY <1>3, <1>4, <1>5 DEF Stable

\* A runtime transfer is registered just before it starts.
Registered(e, t) == IF t \in Runtime THEN RegisterRuntimePlan(e, t) ELSE e

\* What a transfer is that starts.
Registers(e, z, t) ==
    /\ z \in Engine /\ z.ok /\ Keeps(e, z, {"state", "starting", "optional"})
    /\ z.state = [e.state EXCEPT ![t] = "REGISTERED"]
    /\ z.starting = e.starting \cup ({t} \cap Runtime)
    /\ z.optional = e.optional \cup ({t} \cap Optional)

LEMMA RegisteredRegisters ==
    ASSUME NEW e, Sane(e, {}), NEW t \in Transfer, e.state[t] \in {"UNKNOWN", "REGISTERED"},
           NEW z, z = Registered(e, t)
    PROVE  Registers(e, z, t)
<1>1. e \in Engine /\ e.ok /\ StageOK(e, t) /\ Optional \subseteq Runtime /\ Optional \subseteq Transfer
    BY NetworkAssumption DEF Sane
<1>2. e.state \in [Transfer -> State] /\ e.starting \in SUBSET Transfer /\ e.optional \in SUBSET Transfer
    BY <1>1 DEF Engine
<1>3. CASE t \in Runtime
    <2> DEFINE X == [e.state EXCEPT ![t] = "REGISTERED"]
               S == e.starting \cup {t}
               O == e.optional \cup ({t} \cap Optional)
    <2>1. e.state[t] = "UNKNOWN"
        BY <1>1, <1>3 DEF StageOK
    <2>2. X \in [Transfer -> State] /\ S \in SUBSET Transfer /\ O \in SUBSET Transfer
        BY <1>1, <1>2 DEF State
    <2>3. Check(e, e.state[t] = "UNKNOWN") = e
        BY <1>1, <2>1, CheckHolds
    <2>4. z = [e EXCEPT !.state = X, !.starting = S, !.optional = O]
        BY <1>1, <1>3, <2>3 DEF Registered, RegisterRuntimePlan
    <2>5. S = e.starting \cup ({t} \cap Runtime)
        BY <1>3
    <2> HIDE DEF X, S, O
    <2>6. z \in Engine /\ z.state = X /\ z.starting = S /\ z.optional = O /\ z.ok = e.ok
        BY ONLY <1>1, <2>2, <2>4 DEF Engine
    <2>7. Keeps(e, z, {"state", "starting", "optional"})
        BY <1>1, <2>2, <2>4 DEF Engine, Keeps, Fields
    <2> QED BY <1>1, <2>5, <2>6, <2>7 DEF Registers, X, O
<1>4. CASE t \notin Runtime
    <2>1. e.state[t] = "REGISTERED" /\ z = e /\ t \notin Optional
        BY <1>1, <1>4 DEF StageOK, Registered
    <2>2. [e.state EXCEPT ![t] = "REGISTERED"] = e.state
        BY <1>2, <2>1
    <2>3. e.starting \cup ({t} \cap Runtime) = e.starting /\ e.optional \cup ({t} \cap Optional) = e.optional
        BY <1>4, <2>1
    <2> QED BY <1>1, <2>1, <2>2, <2>3 DEF Registers, Keeps
<1> QED BY <1>3, <1>4

\* A transfer that starts joins the queue, or will be activated.
Starts(e, z, t) ==
    /\ z \in Engine /\ z.ok
    /\ Keeps(e, z, {"state", "starting", "optional", "arrival", "waiting", "pending", "activation"})
    /\ z.starting = e.starting \cup ({t} \cap Runtime)
    /\ z.optional = e.optional \cup ({t} \cap Optional)
    /\ \/ /\ CapacityAware(e) /\ z.state = [e.state EXCEPT ![t] = "WAITING_ADMISSION"]
          /\ z.waiting = e.waiting \cup {t} /\ z.pending = Append(e.pending, t)
          /\ z.activation = e.activation
       \/ /\ ~CapacityAware(e) /\ z.state = [e.state EXCEPT ![t] = "ACTIVE"]
          /\ z.waiting = e.waiting /\ z.pending = e.pending
          /\ z.activation = e.activation \cup {t}

\* The engine with a new transfer, before admission is tried.
Started(e, t, at) ==
    LET f == [e EXCEPT !.arrival[t] = at] IN
    IF CapacityAware(e)
    THEN [f EXCEPT !.state[t] = "WAITING_ADMISSION", !.waiting = @ \cup {t},
                   !.pending = Append(@, t)]
    ELSE [f EXCEPT !.state[t] = "ACTIVE", !.activation = @ \cup {t}]

LEMMA StartedStarts ==
    ASSUME NEW e, Sane(e, {}), NEW t \in Transfer, e.state[t] \in {"UNKNOWN", "REGISTERED"},
           NEW at \in Nat, NEW r, r = Registered(e, t), NEW z, z = Started(r, t, at),
           NEW g, NEW s, s = StartTransferNow(r, g, t, at)
    PROVE  Starts(e, z, t) /\ s = IF CapacityAware(e) THEN TryActivatePending(z, g) ELSE z
<1>1. Registers(e, r, t) /\ e \in Engine /\ e.ok
    BY RegisteredRegisters DEF Sane
<1>2. /\ r \in Engine /\ r.ok /\ Keeps(e, r, {"state", "starting", "optional"})
      /\ r.state = [e.state EXCEPT ![t] = "REGISTERED"]
      /\ r.starting = e.starting \cup ({t} \cap Runtime)
      /\ r.optional = e.optional \cup ({t} \cap Optional)
    BY <1>1 DEF Registers
<1>3. /\ r.state \in [Transfer -> State] /\ r.arrival \in [Transfer -> Nat]
      /\ r.waiting \in SUBSET Transfer /\ r.activation \in SUBSET Transfer
      /\ r.pending \in Seq(Transfer) /\ e.state \in [Transfer -> State]
    BY <1>1, <1>2 DEF Engine
<1>4. CapacityAware(r) = CapacityAware(e) /\ r.state[t] = "REGISTERED"
    BY <1>2, <1>3 DEF Keeps, Fields, CapacityAware
<1>5. Check(r, r.state[t] = "REGISTERED") = r
    BY <1>2, <1>4, CheckHolds
<1>6. s = IF CapacityAware(e) THEN TryActivatePending(z, g) ELSE z
    <2> DEFINE c == Check(r, r.state[t] = "REGISTERED")
               New(v) == [v EXCEPT !.arrival[t] = at]
               Queue(f) == [f EXCEPT !.state[t] = "WAITING_ADMISSION", !.waiting = @ \cup {t},
                                     !.pending = Append(@, t)]
               Activated(f) == [f EXCEPT !.state[t] = "ACTIVE", !.activation = @ \cup {t}]
    <2>1. s = IF CapacityAware(r) THEN TryActivatePending(Queue(New(c)), g) ELSE Activated(New(c))
        BY DEF StartTransferNow
    <2>2. z = IF CapacityAware(r) THEN Queue(New(r)) ELSE Activated(New(r))
        BY DEF Started
    <2>3. c = r
        BY <1>5
    <2> HIDE DEF c, New, Queue, Activated
    <2> QED BY <1>4, <2>1, <2>2, <2>3
<1> DEFINE A == [r.arrival EXCEPT ![t] = at]
           W == [r.state EXCEPT ![t] = "WAITING_ADMISSION"]
           X == [r.state EXCEPT ![t] = "ACTIVE"]
           U == r.waiting \cup {t}
           Q == Append(r.pending, t)
           V == r.activation \cup {t}
<1>7. /\ A \in [Transfer -> Nat] /\ W \in [Transfer -> State] /\ X \in [Transfer -> State]
      /\ U \in SUBSET Transfer /\ V \in SUBSET Transfer
    BY <1>3 DEF State
<1>8. Q \in Seq(Transfer)
    BY <1>3
<1>9. W = [e.state EXCEPT ![t] = "WAITING_ADMISSION"] /\ X = [e.state EXCEPT ![t] = "ACTIVE"]
    BY <1>2, <1>3
<1>10. U = e.waiting \cup {t} /\ Q = Append(e.pending, t) /\ V = e.activation \cup {t}
    BY <1>2 DEF Keeps, Fields
<1>11. r.waiting = e.waiting /\ r.pending = e.pending /\ r.activation = e.activation
    BY <1>2 DEF Keeps, Fields
<1>12. CASE CapacityAware(e)
    <2>1. z = [r EXCEPT !.arrival = A, !.state = W, !.waiting = U, !.pending = Q]
        BY <1>2, <1>4, <1>12 DEF Started, Engine
    <2> HIDE DEF A, W, X, U, Q, V
    <2>2. z.state = W /\ z.waiting = U /\ z.pending = Q
        BY <1>2, <2>1 DEF Engine
    <2>3. z \in Engine
        <3> DEFINE v == [r EXCEPT !.arrival = A, !.state = W, !.waiting = U]
        <3>1. v \in Engine
            BY <1>2, <1>7 DEF Engine
        <3>2. z = [v EXCEPT !.pending = Q]
            BY <1>2, <2>1 DEF Engine
        <3> HIDE DEF v
        <3> QED BY <1>8, <3>1, <3>2, PendingSets
    <2>4. Keeps(r, z, {"arrival", "state", "waiting", "pending"})
        BY <1>2, <1>7, <1>8, <2>1 DEF Engine, Keeps, Fields
    <2>5. Keeps(e, z, {"state", "starting", "optional", "arrival", "waiting", "pending", "activation"})
        BY <1>2, <2>4 DEF Keeps, Fields
    <2>6. z.ok = r.ok /\ z.activation = r.activation /\ z.starting = r.starting /\ z.optional = r.optional
        BY <2>4 DEF Keeps, Fields
    <2> QED BY <1>2, <1>6, <1>9, <1>10, <1>11, <1>12, <2>2, <2>3, <2>5, <2>6 DEF Starts
<1>13. CASE ~CapacityAware(e)
    <2>1. z = [r EXCEPT !.arrival = A, !.state = X, !.activation = V]
        BY <1>2, <1>4, <1>13 DEF Started, Engine
    <2> HIDE DEF A, W, X, U, Q, V
    <2>2. z.state = X /\ z.activation = V
        BY <1>2, <2>1 DEF Engine
    <2>3. z \in Engine
        BY <1>2, <1>7, <2>1, ZenonT(60) DEF Engine
    <2>4. Keeps(r, z, {"arrival", "state", "activation"})
        BY <1>2, <1>7, <2>1 DEF Engine, Keeps, Fields
    <2>5. Keeps(e, z, {"state", "starting", "optional", "arrival", "waiting", "pending", "activation"})
        BY <1>2, <2>4 DEF Keeps, Fields
    <2>6. /\ z.ok = r.ok /\ z.waiting = r.waiting /\ z.pending = r.pending
          /\ z.starting = r.starting /\ z.optional = r.optional
        BY <2>4 DEF Keeps, Fields
    <2> QED BY <1>2, <1>6, <1>9, <1>10, <1>11, <1>13, <2>2, <2>3, <2>5, <2>6 DEF Starts
<1> QED BY <1>12, <1>13

\* Who starts is in a legal state.
LEMMA StartsSound ==
    ASSUME NEW e, Sane(e, {}), NEW t \in Transfer, e.state[t] \in {"UNKNOWN", "REGISTERED"},
           NEW z, Starts(e, z, t)
    PROVE  Sane(z, {})
<1>1. /\ z \in Engine /\ z.ok
      /\ Keeps(e, z, {"state", "starting", "optional", "arrival", "waiting", "pending", "activation"})
      /\ z.starting = e.starting \cup ({t} \cap Runtime)
      /\ z.optional = e.optional \cup ({t} \cap Optional)
    BY DEF Starts
<1>2. /\ z.routing = e.routing /\ z.path = e.path /\ z.reserved = e.reserved /\ z.sent = e.sent
      /\ z.flying = e.flying /\ z.received = e.received /\ z.sendEvent = e.sendEvent
      /\ z.paused = e.paused /\ z.active = e.active /\ z.assigned = e.assigned
    BY <1>1 DEF Keeps, Fields
<1>3. /\ e \in Engine /\ Counted(e, t) /\ StageOK(e, t) /\ FlowOK(e, t)
      /\ Sums(e.reserved, e.path) /\ Optional \subseteq Runtime /\ PacketCount[t] \in Nat \ {0}
    BY NetworkAssumption DEF Sane
<1>4. e.state \in [Transfer -> State]
    BY <1>3 DEF Engine
<1>5. /\ e.sent[t] = 0 /\ e.path[t] = NoPath /\ t \notin e.activation /\ t \notin e.sendEvent
      /\ t \notin e.paused /\ t \notin e.waiting /\ t \notin e.active
    BY <1>3 DEF StageOK, FlowOK, Waits
<1>6. CapacityAware(z) = CapacityAware(e) /\ HasRegistry(z) = HasRegistry(e)
    BY <1>2 DEF CapacityAware, HasRegistry
<1>7. Counted(z, t)
    BY <1>2, <1>3 DEF Counted
<1>8. \A u \in Transfer \ {t} : Same(e, z, u)
    BY <1>1, <1>2, <1>4 DEF Starts, Same
<1>9. StageOK(z, t) /\ FlowOK(z, t)
    <2>1. CASE /\ CapacityAware(e) /\ z.state = [e.state EXCEPT ![t] = "WAITING_ADMISSION"]
               /\ z.waiting = e.waiting \cup {t} /\ z.activation = e.activation
        <3>1. z.state[t] = "WAITING_ADMISSION" /\ Waits(z, t)
            BY <1>4, <2>1 DEF Waits
        <3>2. StageOK(z, t)
            BY <1>1, <1>2, <1>3, <1>5, <1>6, <2>1, <3>1 DEF StageOK
        <3>3. FlowOK(z, t)
            BY <1>2, <1>3, <1>5, <1>6, <3>1 DEF FlowOK
        <3> QED BY <3>2, <3>3
    <2>2. CASE /\ ~CapacityAware(e) /\ z.state = [e.state EXCEPT ![t] = "ACTIVE"]
               /\ z.waiting = e.waiting /\ z.activation = e.activation \cup {t}
        <3>1. z.state[t] = "ACTIVE" /\ ~Waits(z, t)
            BY <1>4, <2>2 DEF Waits
        <3>2. StageOK(z, t)
            BY <1>1, <1>2, <1>3, <1>5, <1>6, <2>2, <3>1 DEF StageOK
        <3>3. FlowOK(z, t)
            BY <1>2, <1>3, <1>5, <1>6, <3>1 DEF FlowOK
        <3> QED BY <3>2, <3>3
    <2> QED BY <2>1, <2>2 DEF Starts
<1>10. z.received[t] = PacketCount[t] => z.state[t] \in Ended
    <2>1. e.received[t] \in Nat /\ e.flying[t] \in Nat /\ e.sent[t] \in Nat
        BY <1>3 DEF Engine
    <2> QED BY <1>2, <1>3, <1>5, <2>1 DEF Counted
<1> QED BY <1>1, <1>2, <1>3, <1>7, <1>8, <1>9, <1>10, OneMoves

\* A transfer that starts waits last in the queue.
LEMMA StartsQueued ==
    ASSUME NEW e, Sane(e, {}), Queued(e), NEW t \in Transfer, ~Waits(e, t), NEW z, z.state = [e.state EXCEPT ![t] = "WAITING_ADMISSION"],
           z.pending = Append(e.pending, t)
    PROVE  Queued(z)
<1>1. e.state \in [Transfer -> State] /\ e.pending \in Seq(Transfer)
    BY DEF Sane, Engine
<1> DEFINE n == Len(e.pending)
<1>2. n \in Nat /\ DOMAIN e.pending = 1..n /\ DOMAIN z.pending = 1..(n + 1)
    BY <1>1
<1>3. z.pending[n + 1] = t /\ \A i \in 1..n : z.pending[i] = e.pending[i]
    BY <1>1
<1> HIDE DEF n
<1>4. \A i \in 1..n : e.pending[i] # t
    BY <1>2 DEF Queued
<1>5. 1..(n + 1) = (1..n) \cup {n + 1}
    BY <1>2
<1>6. \A i, j \in DOMAIN z.pending : i # j => z.pending[i] # z.pending[j]
    <2>1. \A i, j \in 1..n : i # j => e.pending[i] # e.pending[j]
        BY <1>2 DEF Queued
    <2> QED BY <1>2, <1>3, <1>4, <1>5, <2>1
<1>7. ASSUME NEW u \in Transfer PROVE Waits(z, u) <=> \E i \in DOMAIN z.pending : z.pending[i] = u
    <2>1. Waits(z, u) <=> u = t \/ Waits(e, u)
        BY <1>1 DEF Waits
    <2>2. Waits(e, u) <=> \E i \in 1..n : e.pending[i] = u
        BY <1>2 DEF Queued
    <2> QED BY <1>2, <1>3, <1>5, <2>1, <2>2
<1> QED BY <1>6, <1>7 DEF Queued

LEMMA StartStable ==
    ASSUME NEW e, NEW g \in Topology, Stable(e, g), NEW t \in Transfer,
           e.state[t] \in {"UNKNOWN", "REGISTERED"}, NEW at \in Nat,
           NEW z, z = StartTransferNow(Registered(e, t), g, t, at)
    PROVE  Stable(z, g)
<1> DEFINE r == Registered(e, t)
           y == Started(r, t, at)
<1>1. /\ Sane(e, {}) /\ Queued(e) /\ Valid(e, g) /\ Routed(e, g) /\ OptionalOK(e) /\ e.depth = 0
    BY DEF Stable
<1>2. Starts(e, y, t) /\ z = IF CapacityAware(e) THEN TryActivatePending(y, g) ELSE y
    BY <1>1, StartedStarts
<1> HIDE DEF r, y
<1>3. Sane(y, {})
    BY <1>1, <1>2, StartsSound
<1>4. /\ y.routing = e.routing /\ y.path = e.path /\ y.reserved = e.reserved /\ y.depth = e.depth
      /\ y.starting = e.starting \cup ({t} \cap Runtime)
    BY <1>2 DEF Starts, Keeps, Fields
<1>5. Routed(y, g) /\ Valid(y, g) /\ ~Waits(e, t)
    BY <1>1, <1>4 DEF Routed, CapacityAware, Valid, IsActivePathValid, Waits
<1>6. CASE CapacityAware(e)
    <2>1. y.state = [e.state EXCEPT ![t] = "WAITING_ADMISSION"] /\ y.pending = Append(e.pending, t)
        BY <1>2, <1>6 DEF Starts
    <2>2. Steady(y, g)
        BY <1>1, <1>3, <1>5, <2>1, StartsQueued DEF Steady
    <2>3. Drained(y, z, g)
        BY <1>2, <1>6, <2>2, TryActivatePendingActivates DEF Drained
    <2>4. OptionalOK(y)
        <3>1. Optional \subseteq Runtime /\ Optional \subseteq Transfer
            BY NetworkAssumption
        <3>2. e.state \in [Transfer -> State]
            BY <1>1 DEF Sane, Engine
        <3> QED BY <1>1, <1>4, <2>1, <3>1, <3>2 DEF OptionalOK
    <2>5. \A u \in Optional : z.state[u] = "WAITING_ADMISSION" => u \in z.starting
        BY <2>3, <2>4, DrainedOptional
    <2> QED BY <1>1, <1>4, <1>5, <2>3, <2>5, DrainedStable
<1>7. CASE ~CapacityAware(e)
    <2>1. z = y /\ y.pending = e.pending
        BY <1>2, <1>7 DEF Starts
    <2> QED BY <1>1, <1>3, <1>4, <1>5, <1>7, <2>1, StableUnaware
<1> QED BY <1>6, <1>7

\* The application of t has come up.
LEMMA StartingSets ==
    ASSUME NEW e, NEW g, NEW t \in Transfer, Steady(e, g), NEW z, z = [e EXCEPT !.starting = @ \ {t}]
    PROVE  /\ Steady(z, g) /\ z.starting = e.starting \ {t} /\ z.state = e.state
           /\ z.depth = e.depth /\ z.routing = e.routing
<1>1. /\ Sane(e, {}) /\ Valid(e, g) /\ Queued(e) /\ e \in Engine /\ e.ok
      /\ Counted(e, t) /\ StageOK(e, t) /\ FlowOK(e, t) /\ Sums(e.reserved, e.path)
    BY DEF Steady, Sane
<1> DEFINE X == e.starting \ {t}
<1>2. X \in SUBSET Transfer /\ z = [e EXCEPT !.starting = X]
    BY <1>1 DEF Engine
<1> HIDE DEF X
<1>3. z \in Engine /\ Keeps(e, z, {"starting"}) /\ z.starting = X
    BY <1>1, <1>2 DEF Engine, Keeps, Fields
<1>4. /\ z.routing = e.routing /\ z.path = e.path /\ z.reserved = e.reserved /\ z.sent = e.sent
      /\ z.flying = e.flying /\ z.received = e.received /\ z.sendEvent = e.sendEvent
      /\ z.paused = e.paused /\ z.active = e.active /\ z.assigned = e.assigned
      /\ z.state = e.state /\ z.waiting = e.waiting /\ z.optional = e.optional
      /\ z.activation = e.activation /\ z.pending = e.pending /\ z.depth = e.depth /\ z.ok = e.ok
    BY <1>3 DEF Keeps, Fields
<1>5. CapacityAware(z) = CapacityAware(e) /\ HasRegistry(z) = HasRegistry(e) /\ Waits(z, t) = Waits(e, t)
    BY <1>4 DEF CapacityAware, HasRegistry, Waits
<1>6. \A u \in Transfer \ {t} : Same(e, z, u)
    BY <1>3, <1>4 DEF Same, X
<1>7. Counted(z, t) /\ StageOK(z, t) /\ FlowOK(z, t)
    <2>1. Counted(z, t)
        BY <1>1, <1>4 DEF Counted
    <2>2. t \notin z.starting
        BY <1>3 DEF X
    <2>3. StageOK(z, t)
        BY <1>1, <1>4, <1>5, <2>2 DEF StageOK
    <2>4. FlowOK(z, t)
        BY <1>1, <1>4, <1>5 DEF FlowOK
    <2> QED BY <2>1, <2>3, <2>4
<1>8. z.received[t] = PacketCount[t] => z.state[t] \in Ended
    BY <1>1, <1>4 DEF Sane, Open
<1>9. Sane(z, {})
    BY <1>1, <1>3, <1>4, <1>6, <1>7, <1>8, OneMoves
<1>10. Valid(z, g) /\ Queued(z)
    BY <1>1, <1>4 DEF Valid, IsActivePathValid, Queued, Waits
<1> QED BY <1>3, <1>4, <1>9, <1>10 DEF Steady, X

LEMMA ReadyStable ==
    ASSUME NEW e, NEW g \in Topology, Stable(e, g), NEW t \in Transfer,
           NEW z, z = RuntimeApplicationsReady(e, g, t)
    PROVE  Stable(z, g)
<1> DEFINE y == [e EXCEPT !.starting = @ \ {t}]
           f == Drain(y, g)
           cancelled == FinalizeTransfer(f, g, t, "CANCELLED", {})
           waits == t \in f.optional /\ f.state[t] = "WAITING_ADMISSION"
<1>1. Steady(e, g) /\ Routed(e, g) /\ OptionalOK(e) /\ e.depth = 0
    BY DEF Stable, Steady
<1>2. z = IF waits THEN cancelled ELSE f
    BY DEF RuntimeApplicationsReady
<1>3. /\ Steady(y, g) /\ y.starting = e.starting \ {t} /\ y.state = e.state
      /\ y.depth = 0 /\ y.routing = e.routing
    BY <1>1, StartingSets
<1> HIDE DEF y
<1>4. Drained(y, f, g)
    BY <1>3, DrainDrains DEF Drained
<1> HIDE DEF f
<1>5. Steady(f, g) /\ Advances(y, f) /\ f.depth = 0 /\ Sane(f, {})
    BY <1>3, <1>4 DEF Drained, Advances, Steady
<1>6. ASSUME waits PROVE Drained(f, z, g) /\ z.state[t] = "CANCELLED"
    <2>1. Waits(f, t)
        BY <1>6 DEF Waits
    <2>2. f.received[t] \in Nat /\ PacketCount[t] \in Nat
        BY <1>5, NetworkAssumption DEF Sane, Engine
    <2>3. f.received[t] # PacketCount[t]
        BY <1>5, <2>1, <2>2, WaitingStage
    <2>4. MayEnd(f, t, "CANCELLED") /\ "CANCELLED" \in Ended
        BY <2>3 DEF MayEnd, Ended
    <2>5. Sane(f, {t})
        BY <1>5 DEF Sane, Open
    <2>6. f.state[t] \notin Ended
        BY <1>6 DEF Ended
    <2>7. Valid(f, g) /\ Queued(f)
        BY <1>5 DEF Steady
    <2>8. z = cancelled /\ {} \in SUBSET Transfer
        BY <1>2, <1>6
    <2> QED BY <1>5, <2>4, <2>5, <2>6, <2>7, <2>8, FinalizeTransferEnds
<1>7. Drained(y, z, g)
    <2>1. CASE waits
        BY <1>5, <1>6, <2>1, AdvancesOn DEF Drained
    <2>2. CASE ~waits
        BY <1>2, <1>4, <2>2
    <2> QED BY <2>1, <2>2
<1>8. ASSUME NEW u \in Optional, z.state[u] = "WAITING_ADMISSION" PROVE u \in z.starting
    <2>1. u \in Transfer
        BY NetworkAssumption
    <2>2. e.state[u] = "WAITING_ADMISSION" /\ z.starting = e.starting \ {t}
        BY <1>3, <1>7, <1>8, <2>1 DEF Drained, Advances
    <2>3. u \in e.starting
        BY <1>1, <2>2 DEF OptionalOK
    <2>4. u # t
        <3>1. SUFFICES ASSUME u = t PROVE FALSE
            OBVIOUS
        <3>2. ~waits
            BY <1>6, <1>8, <3>1
        <3>3. StageOK(f, t) /\ f.state[t] = "WAITING_ADMISSION"
            BY <1>2, <1>5, <1>8, <3>1, <3>2 DEF Sane
        <3> QED BY <3>1, <3>2, <3>3 DEF StageOK
    <2> QED BY <2>2, <2>3, <2>4
<1>9. Routed(y, g)
    BY <1>1, <1>3 DEF Routed, CapacityAware
<1> QED BY <1>3, <1>7, <1>8, <1>9, DrainedStable

\* A sender that has sent is in a legal state.
LEMMA SendsSound ==
    ASSUME NEW e, Sane(e, {}), NEW t \in Transfer, NEW y, NEW z \in Engine, Sends(y, z, t),
           y.sent = e.sent, y.flying = e.flying, y.path = e.path, y.reserved = e.reserved,
           y.routing = e.routing, y.assigned = e.assigned, y.paused = e.paused,
           y.waiting = e.waiting,
           z.ok, z.routing = e.routing, z.received = e.received, z.starting = e.starting,
           \A u \in Transfer \ {t} : Same(e, z, u),
           e.state[t] = "ACTIVE", HasRegistry(e) => t \in y.active, ~HasRegistry(e) => t \notin y.active,
           t \notin z.activation, e.sent[t] = 0 => t \notin e.starting
    PROVE  Sane(z, {})
<1>1. Counted(e, t) /\ StageOK(e, t) /\ FlowOK(e, t) /\ e \in Engine /\ Sums(e.reserved, e.path)
    BY DEF Sane
<1>2. e.sent[t] \in Nat /\ e.flying[t] \in Nat /\ e.received[t] \in Nat /\ PacketCount[t] \in Nat
    BY <1>1, NetworkAssumption DEF Engine
<1> DEFINE last == e.sent[t] + 1 = PacketCount[t]
<1>3. CapacityAware(y) = CapacityAware(e) /\ HasRegistry(y) = HasRegistry(e)
      /\ CapacityAware(z) = CapacityAware(e) /\ HasRegistry(z) = HasRegistry(e)
    BY DEF CapacityAware, HasRegistry
<1>4. /\ z.path = e.path /\ z.reserved = e.reserved
      /\ z.sent[t] = e.sent[t] + 1 /\ z.flying[t] = e.flying[t] + 1
      /\ z.state[t] = (IF last THEN "SENDER_FINISHED" ELSE "ACTIVE")
      /\ (t \in z.sendEvent <=> ~last)
      /\ (t \in z.active <=> t \in y.active /\ (CapacityAware(e) \/ ~last))
      /\ z.assigned[t] = (IF CapacityAware(e) \/ ~HasRegistry(e) \/ ~last THEN e.assigned[t] ELSE {})
      /\ z.waiting = e.waiting /\ z.paused = e.paused
    BY <1>3 DEF Sends
<1>5. e.sent[t] < PacketCount[t]
    BY <1>1 DEF StageOK
<1>6. z.sent[t] \in Nat /\ 0 < z.sent[t] /\ z.sent[t] <= PacketCount[t] /\ (last <=> z.sent[t] = PacketCount[t])
      /\ (~last => z.sent[t] < PacketCount[t]) /\ z.sent[t] # 0
    BY <1>2, <1>4, <1>5
<1>7. Counted(z, t)
    BY <1>1, <1>2, <1>4, <1>6 DEF Counted
<1> HIDE DEF last
<1>8. z.state[t] \in {"ACTIVE", "SENDER_FINISHED"} /\ (z.state[t] = "ACTIVE" <=> ~last)
    BY <1>4
<1>9. ~Waits(z, t) /\ ~Waits(e, t)
    BY <1>8 DEF Waits
<1>10. t \notin e.waiting /\ t \notin e.paused /\ t \notin e.starting
    BY <1>1, <1>9 DEF StageOK, Waits
<1>11. CapacityAware(e) => e.path[t] # NoPath
    BY <1>1 DEF StageOK
<1>12. StageOK(z, t)
    BY <1>3, <1>4, <1>6, <1>8, <1>9, <1>10, <1>11 DEF StageOK
<1>13. FlowOK(z, t)
    <2>1. t \in z.active <=> /\ 0 < z.sent[t] /\ HasRegistry(z)
                             /\ IF CapacityAware(z) THEN z.state[t] \notin Ended ELSE z.state[t] = "ACTIVE"
        BY <1>3, <1>4, <1>6, <1>8 DEF Ended
    <2>2. e.path[t] # NoPath => CapacityAware(e)
        BY <1>1 DEF FlowOK
    <2>3. z.assigned[t] = z.path[t].hops
        <3>1. CASE CapacityAware(e)
            BY <1>1, <1>4, <3>1 DEF FlowOK
        <3>2. CASE ~CapacityAware(e)
            <4>1. z.path[t] = NoPath /\ NoPath.hops = {}
                BY <1>4, <2>2, <3>2 DEF NoPath
            <4>2. e.assigned[t] = {}
                BY <1>1, <1>4, <4>1 DEF FlowOK
            <4>3. z.assigned[t] = {}
                <5>1. z.assigned[t] \in {e.assigned[t], {}}
                    BY <1>4
                <5> QED BY <4>2, <5>1
            <4> QED BY <4>1, <4>3
        <3> QED BY <3>1, <3>2
    <2> QED BY <1>1, <1>3, <1>4, <1>8, <2>1, <2>3 DEF FlowOK
<1>14. z.received[t] = PacketCount[t] => z.state[t] \in Ended
    BY <1>1, <1>2, <1>5 DEF Counted
<1> QED BY <1>1, <1>4, <1>7, <1>12, <1>13, <1>14, OneMoves

\* A sender goes on: a transfer that an event of its sender is due for.
LEMMA SendStable ==
    ASSUME NEW e, NEW g \in Topology, Stable(e, g), NEW t \in Transfer, t \in e.sendEvent,
           NEW z, z = SendNextPacket(e, g, t)
    PROVE  Stable(z, g)
<1>1. /\ Sane(e, {}) /\ Valid(e, g) /\ Routed(e, g) /\ e \in Engine /\ e.ok
      /\ Counted(e, t) /\ StageOK(e, t) /\ FlowOK(e, t)
    BY DEF Stable, Sane
<1>2. /\ e.state[t] = "ACTIVE" /\ 0 < e.sent[t] /\ e.sent[t] < PacketCount[t]
      /\ t \notin e.paused /\ t \notin e.activation
    <2>1. e.state[t] = "ACTIVE" /\ 0 < e.sent[t] /\ e.sent[t] < PacketCount[t]
        BY <1>1 DEF StageOK
    <2>2. e.sent[t] \in Nat
        BY <1>1 DEF Engine
    <2>3. e.sent[t] # 0
        BY <2>1, <2>2
    <2> QED BY <1>1, <2>1, <2>3 DEF StageOK
<1>3. HasRegistry(e) => t \in e.active
    BY <1>1, <1>2 DEF FlowOK, Ended
<1>4. ~HasRegistry(e) => t \notin e.active
    BY <1>1 DEF FlowOK
<1>5. Reachable(g, t)
    <2>1. CASE CapacityAware(e)
        <3>1. e.path[t] # NoPath
            BY <1>1, <1>2, <2>1 DEF StageOK
        <3>2. PICK m \in Sat : <<Source[t], m>> \in e.path[t].hops
            BY <1>1, <3>1 DEF FlowOK
        <3>3. m \in Candidates[g][Source[t]][Destination[t]]
            BY <1>1, <3>1, <3>2 DEF Valid, IsActivePathValid
        <3> QED BY <3>3 DEF Reachable
    <2>2. CASE ~CapacityAware(e)
        BY <1>1, <2>2 DEF Routed
    <2> QED BY <2>1, <2>2
<1>6. Only(e, z, t) /\ Sends(e, z, t)
    BY <1>1, <1>2, <1>3, <1>4, <1>5, SendNextPacketSends
<1>7. /\ z \in Engine /\ z.ok = e.ok /\ z.routing = e.routing /\ z.pending = e.pending
      /\ z.depth = e.depth /\ z.received = e.received /\ \A u \in Transfer \ {t} : Same(e, z, u)
    BY <1>6 DEF Only
<1>8. /\ z.path = e.path /\ z.reserved = e.reserved /\ z.starting = e.starting
      /\ z.activation = e.activation /\ z.state[t] \in {"ACTIVE", "SENDER_FINISHED"}
    BY <1>6 DEF Sends
<1>9. Sane(z, {})
    <2>1. e.sent[t] = 0 => t \notin e.starting
        <3>1. e.sent[t] \in Nat
            BY <1>1 DEF Engine
        <3> QED BY <1>2, <3>1
    <2> QED BY <1>1, <1>2, <1>3, <1>4, <1>6, <1>7, <1>8, <2>1, SendsSound
<1>10. \A u \in Transfer : z.state[u] = e.state[u] \/ (~Waits(e, u) /\ ~Waits(z, u))
    BY <1>2, <1>7, <1>8 DEF Same, Waits
<1> QED BY <1>7, <1>8, <1>9, <1>10, StableKept

\* A transfer that waits for nothing is activated.
LEMMA ActivateStable ==
    ASSUME NEW e, NEW g \in Topology, Stable(e, g), NEW t \in Transfer,
           t \in e.activation \ e.starting, NEW z, z = ActivateTransfer(e, g, t)
    PROVE  Stable(z, g)
<1>1. /\ Sane(e, {}) /\ Queued(e) /\ Routed(e, g) /\ e.depth = 0 /\ e \in Engine /\ e.ok
      /\ Counted(e, t) /\ StageOK(e, t) /\ FlowOK(e, t)
    BY DEF Stable, Sane
<1>2. e.state[t] = "ACTIVE" /\ e.sent[t] = 0 /\ t \notin e.starting /\ e.sent[t] < PacketCount[t]
    BY <1>1 DEF StageOK
<1>3. ~CapacityAware(e) /\ Reachable(g, t)
    <2>1. ~CapacityAware(e)
        BY <1>1, <1>2 DEF StageOK
    <2> QED BY <1>1, <2>1 DEF Routed
<1>4. t \notin e.active /\ t \notin e.paused /\ e.path[t] = NoPath /\ e.assigned[t] = {}
    <2>1. t \notin e.active /\ e.path[t] = NoPath
        BY <1>1, <1>2, <1>3 DEF FlowOK
    <2>2. t \notin e.paused
        BY <1>1, <1>2 DEF StageOK
    <2> QED BY <1>1, <2>1, <2>2 DEF FlowOK, NoPath
<1> DEFINE A == e.activation \ {t}
           f == [e EXCEPT !.activation = A]
           b == IF HasRegistry(e) THEN BeginSending(f, t) ELSE f
           s == SendNextPacket(b, g, t)
<1>5. A \in SUBSET Transfer
    BY <1>1 DEF Engine
<1>6. f \in Engine /\ Keeps(e, f, {"activation"}) /\ f.activation = A
    <2> HIDE DEF A
    <2> QED BY <1>1, <1>5 DEF Engine, Keeps, Fields
<1>7. /\ f.ok = e.ok /\ f.state = e.state /\ f.sent = e.sent /\ f.starting = e.starting
      /\ f.active = e.active /\ f.assigned = e.assigned
    BY <1>6 DEF Keeps, Fields
<1>8. z = [s EXCEPT !.optional = @ \ {t}]
    <2> DEFINE legal == Check(f, f.state[t] = "ACTIVE" /\ f.sent[t] = 0)
               begun == IF HasRegistry(e) THEN BeginSending(legal, t) ELSE legal
               started == StartSender(begun, g, t)
    <2>1. z = IF f.state[t] \in Ended THEN f ELSE [started EXCEPT !.optional = @ \ {t}]
        BY DEF ActivateTransfer
    <2>2. legal = f
        BY <1>1, <1>2, <1>6, <1>7, CheckHolds
    <2>3. f.state[t] \notin Ended
        BY <1>2, <1>7 DEF Ended
    <2>4. begun = b
        <3> HIDE DEF f, legal
        <3> QED BY <2>2
    <2>5. b \in Engine /\ Keeps(f, b, {"active"})
        <3>1. CASE HasRegistry(e)
            <4>1. b = BeginSending(f, t)
                BY <3>1
            <4> HIDE DEF f, b
            <4> QED BY <1>1, <1>4, <1>6, <1>7, <4>1, BeginSendingAdds
        <3>2. CASE ~HasRegistry(e)
            <4>1. b = f
                BY <3>2
            <4> HIDE DEF f, b
            <4> QED BY <1>6, <4>1 DEF Keeps
        <3> QED BY <3>1, <3>2
    <2> HIDE DEF b, begun, f
    <2>6. b.ok /\ b.sent[t] = 0 /\ t \notin b.starting
        BY <1>1, <1>2, <1>7, <2>5 DEF Keeps, Fields
    <2>7. Check(b, b.sent[t] = 0 /\ t \notin b.starting) = b
        BY <2>5, <2>6, CheckHolds
    <2>8. StartSender(b, g, t) = s
        BY <2>7 DEF StartSender
    <2> HIDE DEF s
    <2> QED BY <2>1, <2>3, <2>4, <2>8
<1>9. /\ b \in Engine /\ Keeps(e, b, {"activation", "active"}) /\ b.activation = A
      /\ HasRegistry(e) => b.active = e.active \cup {t}
      /\ ~HasRegistry(e) => b.active = e.active
    <2>1. CASE HasRegistry(e)
        <3>1. b = BeginSending(f, t)
            BY <2>1
        <3> HIDE DEF f, b
        <3>2. f.ok /\ t \notin f.active /\ f.assigned[t] = {} /\ f \in Engine
            BY <1>1, <1>4, <1>6, <1>7
        <3> HIDE DEF A
        <3>3. b \in Engine /\ Keeps(f, b, {"active"}) /\ b.active = f.active \cup {t}
            BY <3>1, <3>2, BeginSendingAdds
        <3> QED BY <1>6, <1>7, <2>1, <3>3 DEF Keeps, Fields
    <2>2. CASE ~HasRegistry(e)
        <3>1. b = f
            BY <2>2
        <3> HIDE DEF f, b
        <3> QED BY <1>6, <1>7, <2>2, <3>1 DEF Keeps, Fields
    <2> QED BY <2>1, <2>2
<1> HIDE DEF b, f
<1>10. /\ b.ok /\ b.routing = e.routing /\ b.state = e.state /\ b.sent = e.sent
       /\ b.flying = e.flying /\ b.path = e.path /\ b.reserved = e.reserved
       /\ b.assigned = e.assigned /\ b.paused = e.paused /\ b.waiting = e.waiting
       /\ b.received = e.received /\ b.starting = e.starting /\ b.pending = e.pending
       /\ b.depth = e.depth /\ b.optional = e.optional /\ b.sendEvent = e.sendEvent
    BY <1>1, <1>9 DEF Keeps, Fields
<1>11. HasRegistry(b) = HasRegistry(e)
    BY <1>10 DEF HasRegistry
<1>12. (HasRegistry(e) => t \in b.active) /\ (~HasRegistry(e) => t \notin b.active)
    BY <1>4, <1>9
<1>13. Only(b, s, t) /\ Sends(b, s, t)
    BY <1>2, <1>3, <1>4, <1>9, <1>10, <1>11, <1>12, SendNextPacketSends
<1> HIDE DEF s
<1>14. s \in Engine
    BY <1>13 DEF Only
<1>15. z \in Engine /\ Keeps(s, z, {"optional"}) /\ z.optional = s.optional \ {t}
    BY <1>8, <1>14, OptionalDrops
<1>16. /\ z.ok /\ z.routing = e.routing /\ z.received = e.received /\ z.pending = e.pending
       /\ z.depth = e.depth /\ z.starting = e.starting /\ z.activation = A
    <2>1. z.ok = s.ok /\ z.routing = s.routing /\ z.received = s.received /\ z.pending = s.pending
          /\ z.depth = s.depth /\ z.starting = s.starting /\ z.activation = s.activation
        BY <1>15 DEF Keeps, Fields
    <2> QED BY <1>9, <1>10, <1>13, <2>1 DEF Only, Sends
<1>17. Sends(b, z, t)
    <2>1. /\ z.path = s.path /\ z.reserved = s.reserved /\ z.sent = s.sent /\ z.flying = s.flying
          /\ z.state = s.state /\ z.sendEvent = s.sendEvent /\ z.active = s.active
          /\ z.assigned = s.assigned /\ z.waiting = s.waiting /\ z.starting = s.starting
          /\ z.activation = s.activation /\ z.paused = s.paused
        BY <1>15 DEF Keeps, Fields
    <2> QED BY <1>13, <2>1 DEF Sends
<1>18. \A u \in Transfer \ {t} : Same(e, z, u)
    <2>1. ASSUME NEW u \in Transfer \ {t} PROVE Same(e, z, u)
        <3>1. Same(b, s, u)
            BY <1>13 DEF Only
        <3>2. Same(e, b, u)
            <4>1. u \in b.active <=> u \in e.active
                BY <1>9
            <4>2. u \in b.activation <=> u \in e.activation
                BY <1>9
            <4> QED BY <1>10, <4>1, <4>2 DEF Same
        <3>3. Same(s, z, u)
            <4>1. u \in z.optional <=> u \in s.optional
                BY <1>15
            <4>2. Keeps(s, z, {"optional"})
                BY <1>15
            <4> QED BY <4>1, <4>2 DEF Same, Keeps, Fields
        <3> QED BY <3>1, <3>2, <3>3 DEF Same
    <2> QED BY <2>1
<1>19. Sane(z, {})
    <2>1. t \notin z.activation
        BY <1>16
    <2> QED BY <1>1, <1>2, <1>10, <1>12, <1>15, <1>16, <1>17, <1>18, <2>1, SendsSound
<1>20. Routed(z, g)
    BY <1>1, <1>16 DEF Routed, CapacityAware
<1> QED BY <1>1, <1>3, <1>16, <1>19, <1>20, StableUnaware

\* A packet leaves the network, and may be received.
LEMMA PacketLeaves ==
    ASSUME NEW e, NEW g \in Topology, Stable(e, g), NEW t \in Transfer, e.flying[t] > 0,
           NEW z, z = [e EXCEPT !.flying[t] = @ - 1]
    PROVE  Stable(z, g) /\ z.state = e.state
<1>1. /\ Sane(e, {}) /\ e \in Engine /\ e.ok /\ Counted(e, t) /\ StageOK(e, t) /\ FlowOK(e, t)
      /\ Sums(e.reserved, e.path) /\ Open(e, {})
    BY DEF Stable, Sane
<1> DEFINE X == [e.flying EXCEPT ![t] = @ - 1]
<1>2. /\ e.flying \in [Transfer -> Nat] /\ X \in [Transfer -> Nat] /\ X[t] = e.flying[t] - 1
      /\ \A u \in Transfer \ {t} : X[u] = e.flying[u]
      /\ e.flying[t] \in Nat /\ e.received[t] \in Nat /\ e.sent[t] \in Nat
    BY <1>1 DEF Engine
<1>3. z = [e EXCEPT !.flying = X]
    BY <1>1 DEF Engine
<1> HIDE DEF X
<1>4. z \in Engine /\ Keeps(e, z, {"flying"}) /\ z.flying = X
    BY ONLY <1>1, <1>2, <1>3 DEF Engine, Keeps, Fields
<1>5. /\ z.routing = e.routing /\ z.path = e.path /\ z.reserved = e.reserved /\ z.sent = e.sent
      /\ z.starting = e.starting /\ z.received = e.received /\ z.sendEvent = e.sendEvent
      /\ z.paused = e.paused /\ z.active = e.active /\ z.assigned = e.assigned
      /\ z.state = e.state /\ z.waiting = e.waiting /\ z.optional = e.optional
      /\ z.activation = e.activation /\ z.pending = e.pending /\ z.depth = e.depth /\ z.ok = e.ok
    BY <1>4 DEF Keeps, Fields
<1>6. CapacityAware(z) = CapacityAware(e) /\ HasRegistry(z) = HasRegistry(e) /\ Waits(z, t) = Waits(e, t)
    BY <1>5 DEF CapacityAware, HasRegistry, Waits
<1>7. \A u \in Transfer \ {t} : Same(e, z, u)
    BY <1>2, <1>4, <1>5 DEF Same
<1>8. Counted(z, t)
    BY <1>1, <1>2, <1>4, <1>5 DEF Counted
<1>9. StageOK(z, t) /\ FlowOK(z, t)
    <2>1. StageOK(z, t)
        BY <1>1, <1>5, <1>6 DEF StageOK
    <2>2. FlowOK(z, t)
        BY <1>1, <1>5, <1>6 DEF FlowOK
    <2> QED BY <2>1, <2>2
<1>10. z.received[t] = PacketCount[t] => z.state[t] \in Ended
    BY <1>1, <1>5 DEF Open
<1>11. Sane(z, {})
    BY <1>1, <1>4, <1>5, <1>7, <1>8, <1>9, <1>10, OneMoves
<1> QED BY <1>4, <1>5, <1>11, StableKept

\* A packet arrives: a receiver that has all packets completes the transfer.
Arrived(e, t) == [[e EXCEPT !.flying[t] = @ - 1] EXCEPT !.received[t] = @ + 1]

LEMMA PacketArrives ==
    ASSUME NEW e, NEW g \in Topology, Stable(e, g), NEW t \in Transfer, e.flying[t] > 0,
           e.state[t] \notin Ended,
           NEW z, z = Arrived(e, t)
    PROVE  /\ Sane(z, {t}) /\ Valid(z, g) /\ Queued(z) /\ z.depth = 0
           /\ z.state = e.state /\ z.starting = e.starting /\ z.routing = e.routing
           /\ z.received[t] \in Nat /\ z.received[t] <= PacketCount[t]
           /\ z.received[t] < PacketCount[t] => Stable(z, g)
<1>1. /\ Sane(e, {}) /\ e \in Engine /\ e.ok /\ Counted(e, t) /\ StageOK(e, t) /\ FlowOK(e, t)
      /\ Sums(e.reserved, e.path) /\ Open(e, {})
    BY DEF Stable, Sane
<1> DEFINE X == [e.flying EXCEPT ![t] = @ - 1]
           Y == [e.received EXCEPT ![t] = @ + 1]
<1>2. /\ e.flying \in [Transfer -> Nat] /\ X \in [Transfer -> Nat] /\ X[t] = e.flying[t] - 1
      /\ \A u \in Transfer \ {t} : X[u] = e.flying[u] /\ Y[u] = e.received[u]
      /\ Y \in [Transfer -> Nat] /\ Y[t] = e.received[t] + 1
      /\ e.flying[t] \in Nat /\ e.received[t] \in Nat /\ e.sent[t] \in Nat /\ PacketCount[t] \in Nat
    BY <1>1, NetworkAssumption, SMTT(30) DEF Engine
<1>3. z = [e EXCEPT !.flying = X, !.received = Y]
    BY <1>1 DEF Engine, Arrived
<1> HIDE DEF X, Y
<1>4. z \in Engine /\ Keeps(e, z, {"flying", "received"}) /\ z.flying = X /\ z.received = Y
    BY <1>1, <1>2, <1>3, ZenonT(60) DEF Engine, Keeps, Fields
<1>5. /\ z.routing = e.routing /\ z.path = e.path /\ z.reserved = e.reserved /\ z.sent = e.sent
      /\ z.starting = e.starting /\ z.sendEvent = e.sendEvent
      /\ z.paused = e.paused /\ z.active = e.active /\ z.assigned = e.assigned
      /\ z.state = e.state /\ z.waiting = e.waiting /\ z.optional = e.optional
      /\ z.activation = e.activation /\ z.pending = e.pending /\ z.depth = e.depth /\ z.ok = e.ok
    BY <1>4 DEF Keeps, Fields
<1>6. CapacityAware(z) = CapacityAware(e) /\ HasRegistry(z) = HasRegistry(e) /\ Waits(z, t) = Waits(e, t)
    BY <1>5 DEF CapacityAware, HasRegistry, Waits
<1>7. \A u \in Transfer \ {t} : Same(e, z, u)
    BY <1>2, <1>4, <1>5 DEF Same
<1>8. Counted(z, t)
    BY <1>1, <1>2, <1>4, <1>5 DEF Counted
<1>9. StageOK(z, t) /\ FlowOK(z, t)
    <2>1. StageOK(z, t)
        BY <1>1, <1>5, <1>6 DEF StageOK
    <2>2. FlowOK(z, t)
        BY <1>1, <1>5, <1>6 DEF FlowOK
    <2> QED BY <2>1, <2>2
<1>10. z.received[t] \in Nat /\ z.received[t] <= PacketCount[t]
    BY <1>1, <1>2, <1>4 DEF Counted
<1>11. Sane(z, {t})
    <2>1. t \in {t}
        OBVIOUS
    <2> QED BY <1>1, <1>4, <1>5, <1>7, <1>8, <1>9, <2>1, OneMoves
<1>12. Valid(z, g) /\ Queued(z) /\ z.depth = 0 /\ (Sane(z, {}) => Stable(z, g))
    BY <1>4, <1>5, StableKept
<1>13. ASSUME z.received[t] < PacketCount[t] PROVE Sane(z, {})
    <2>1. z.received[t] # PacketCount[t]
        BY <1>2, <1>10, <1>13
    <2> QED BY <1>1, <1>4, <1>5, <1>7, <1>8, <1>9, <2>1, OneMoves
<1> QED BY <1>5, <1>10, <1>11, <1>12, <1>13

LEMMA CompleteStable ==
    ASSUME NEW e, NEW g \in Topology, Stable(e, g), NEW t \in Transfer, e.flying[t] > 0,
           e.state[t] \notin Ended,
           NEW f, f = Arrived(e, t),
           ~(f.received[t] < PacketCount[t]),
           NEW also \in SUBSET Transfer, NEW after \in SUBSET Transfer,
           NEW z, z = HandleTransferComplete(f, g, t, also, after)
    PROVE  Stable(z, g)
<1>1. /\ Sane(f, {t}) /\ Valid(f, g) /\ Queued(f) /\ f.depth = 0
      /\ f.state = e.state /\ f.starting = e.starting /\ f.routing = e.routing
      /\ f.received[t] \in Nat /\ f.received[t] <= PacketCount[t]
    BY PacketArrives
<1>2. f.received[t] = PacketCount[t] /\ f.state[t] \notin Ended
    <2>1. PacketCount[t] \in Nat
        BY NetworkAssumption
    <2> QED BY <1>1, <2>1
<1>3. Drained(f, z, g)
    BY <1>1, <1>2, HandleTransferCompleteEnds
<1>4. Routed(f, g) /\ OptionalOK(f)
    BY <1>1 DEF Stable, Routed, CapacityAware, OptionalOK
<1>5. \A u \in Optional : z.state[u] = "WAITING_ADMISSION" => u \in z.starting
    BY <1>3, <1>4, DrainedOptional
<1> QED BY <1>1, <1>3, <1>4, <1>5, DrainedStable

LEMMA EndStable ==
    ASSUME NEW e, NEW g \in Topology, Stable(e, g), NEW z,
           \/ \E t \in Transfer : \E also \in SUBSET Transfer :
                e.state[t] \notin Ended /\ z = FinalizeTransfer(e, g, t, "FAILED", also)
           \/ \E ts \in SUBSET Transfer : z = FinalizeTransfers(e, g, ts, "CANCELLED")
    PROVE  Stable(z, g)
<1>1. /\ Steady(e, g) /\ Sane(e, {}) /\ Valid(e, g) /\ Queued(e) /\ Routed(e, g) /\ OptionalOK(e)
      /\ e.depth = 0
    BY DEF Stable, Steady
<1>2. Drained(e, z, g)
    <2>1. CASE \E t \in Transfer : \E also \in SUBSET Transfer :
                 e.state[t] \notin Ended /\ z = FinalizeTransfer(e, g, t, "FAILED", also)
        <3>1. PICK t \in Transfer, also \in SUBSET Transfer :
                 e.state[t] \notin Ended /\ z = FinalizeTransfer(e, g, t, "FAILED", also)
            BY <2>1
        <3>2. e.received[t] # PacketCount[t]
            BY <1>1, <3>1 DEF Sane, Open
        <3>3. MayEnd(e, t, "FAILED") /\ "FAILED" \in Ended
            BY <3>2 DEF MayEnd, Ended
        <3>4. Sane(e, {t})
            BY <1>1 DEF Sane, Open
        <3> QED BY <1>1, <3>1, <3>3, <3>4, FinalizeTransferEnds
    <2>2. CASE \E ts \in SUBSET Transfer : z = FinalizeTransfers(e, g, ts, "CANCELLED")
        <3>1. PICK ts \in SUBSET Transfer : z = FinalizeTransfers(e, g, ts, "CANCELLED")
            BY <2>2
        <3>2. "CANCELLED" \in {"FAILED", "CANCELLED"}
            OBVIOUS
        <3> QED BY <1>1, <3>1, <3>2, FinalizeTransfersEnds
    <2> QED BY <2>1, <2>2
<1>3. \A u \in Optional : z.state[u] = "WAITING_ADMISSION" => u \in z.starting
    BY <1>1, <1>2, DrainedOptional
<1> QED BY <1>1, <1>2, <1>3, DrainedStable

LEMMA RoutesStable ==
    ASSUME NEW e, NEW g, Stable(e, g), NEW to \in Topology,
           CapacityAware(e) \/ \A t \in Transfer : Reachable(to, t),
           NEW z, z = IF CapacityAware(e) THEN HandleTopologyRouteUpdate(e, to) ELSE e
    PROVE  Stable(z, to)
<1>1. /\ Sane(e, {}) /\ Queued(e) /\ OptionalOK(e) /\ e.depth = 0 /\ Routed(e, to)
    BY DEF Stable, Routed
<1>2. CASE CapacityAware(e)
    <2>1. Drained(e, z, to)
        BY <1>1, <1>2, HandleTopologyRouteUpdateSettles
    <2>2. \A u \in Optional : z.state[u] = "WAITING_ADMISSION" => u \in z.starting
        BY <1>1, <2>1, DrainedOptional
    <2> QED BY <1>1, <2>1, <2>2, DrainedStable
<1>3. CASE ~CapacityAware(e)
    <2>1. z = e
        BY <1>3
    <2> QED BY <1>1, <1>3, <2>1, StableUnaware
<1> QED BY <1>2, <1>3

-----------------------------------------------------------------------------
(* The inductive invariant *)

LEMMA NothingTaken ==
    ASSUME NEW path, path = [t \in Transfer |-> NoPath], NEW h
    PROVE  SumFunctionOnSet(Load(path, h), Transfer) = 0
<1> DEFINE w == Load(path, h)
<1>1. IsFiniteSet(Transfer)
    BY NetworkAssumption
<1>2. w \in [Transfer -> Int] /\ \A t \in Transfer : w[t] = 0
    BY DEF Load, NoPath
<1> HIDE DEF w
<1>3. PICK k : IsSum(k, w, Transfer)
    BY <1>1, <1>2, SumExists
<1>4. k[{}] = k[Transfer]
    <2>1. {} \in SUBSET Transfer /\ Transfer \in SUBSET Transfer
        OBVIOUS
    <2> QED BY <1>1, <1>2, <1>3, <2>1, SumsAgree
<1>5. SumFunctionOnSet(w, Transfer) = k[Transfer]
    <2>1. Transfer \in SUBSET Transfer
        OBVIOUS
    <2> QED BY <1>1, <1>2, <1>3, <2>1, SumFunctionIsSum
<1> QED BY <1>3, <1>4, <1>5 DEF w, IsSum

LEMMA NewEngineStable ==
    ASSUME NEW routing \in Routings, NEW z, z = NewEngine(routing)
    PROVE  Stable(z, UNION Topology)
<1>1. /\ z.routing = routing /\ z.ok /\ z.depth = 0 /\ z.pending = <<>>
      /\ z.state = [t \in Transfer |-> IF t \in Runtime THEN "UNKNOWN" ELSE "REGISTERED"]
      /\ z.path = [t \in Transfer |-> NoPath] /\ z.reserved = [h \in Hop |-> 0]
      /\ z.sent = [t \in Transfer |-> 0] /\ z.flying = [t \in Transfer |-> 0]
      /\ z.received = [t \in Transfer |-> 0] /\ z.assigned = [t \in Transfer |-> {}]
      /\ z.waiting = {} /\ z.starting = {} /\ z.optional = {} /\ z.activation = {}
      /\ z.sendEvent = {} /\ z.paused = {} /\ z.active = {}
    BY DEF NewEngine
<1>2. z \in Engine
    <2> DEFINE S == [t \in Transfer |-> IF t \in Runtime THEN "UNKNOWN" ELSE "REGISTERED"]
               P == [t \in Transfer |-> NoPath]
               R == [h \in Hop |-> 0]
               N == [t \in Transfer |-> 0]
               A == [t \in Transfer |-> {}]
    <2>1. S \in [Transfer -> State]
        BY DEF State
    <2>2. P \in [Transfer -> [hops : SUBSET Hop, rate : Nat]]
        BY DEF NoPath
    <2>3. R \in [Hop -> Nat] /\ N \in [Transfer -> Nat] /\ A \in [Transfer -> SUBSET Hop]
        OBVIOUS
    <2>4. <<>> \in Seq(Transfer)
        OBVIOUS
    <2>5. z = [routing |-> routing, state |-> S, arrival |-> N, path |-> P, reserved |-> R,
               pending |-> <<>>, waiting |-> {}, starting |-> {}, optional |-> {},
               activation |-> {}, depth |-> 0, sent |-> N, sendEvent |-> {}, paused |-> {},
               flying |-> N, received |-> N, active |-> {}, assigned |-> A, notified |-> {},
               ok |-> TRUE]
        BY DEF NewEngine
    <2> HIDE DEF S, P, R, N, A
    <2> QED BY <2>1, <2>2, <2>3, <2>4, <2>5 DEF Engine
<1>3. ASSUME NEW t \in Transfer
      PROVE  /\ Counted(z, t) /\ StageOK(z, t) /\ FlowOK(z, t) /\ ~Waits(z, t)
             /\ z.path[t] = NoPath /\ z.received[t] # PacketCount[t]
    <2>1. PacketCount[t] \in Nat \ {0}
        BY NetworkAssumption
    <2>2. z.sent[t] = 0 /\ z.flying[t] = 0 /\ z.received[t] = 0 /\ z.path[t] = NoPath /\ z.assigned[t] = {}
        BY <1>1
    <2>3. z.state[t] = (IF t \in Runtime THEN "UNKNOWN" ELSE "REGISTERED")
        BY <1>1
    <2>4. z.state[t] \in {"UNKNOWN", "REGISTERED"} /\ ~Waits(z, t)
        BY <2>3 DEF Waits
    <2>5. Counted(z, t)
        BY <2>1, <2>2 DEF Counted
    <2>6. StageOK(z, t)
        BY <1>1, <2>2, <2>3, <2>4 DEF StageOK
    <2>7. FlowOK(z, t)
        BY <1>1, <2>2 DEF FlowOK, NoPath
    <2> QED BY <2>1, <2>2, <2>4, <2>5, <2>6, <2>7
<1>4. Sums(z.reserved, z.path)
    BY <1>1, NothingTaken DEF Sums
<1>5. Sane(z, {})
    BY <1>1, <1>2, <1>3, <1>4 DEF Sane, Open
<1>6. Routed(z, UNION Topology)
    BY <1>1, RoutesAssumption DEF Routed, CapacityAware
<1>7. Queued(z)
    <2>1. DOMAIN z.pending = {}
        BY <1>1
    <2> QED BY <1>3, <2>1 DEF Queued
<1>8. Valid(z, UNION Topology) /\ Settled(z, UNION Topology)
    BY <1>3 DEF Valid, Settled
<1>9. OptionalOK(z)
    <2>1. Optional \subseteq Transfer
        BY NetworkAssumption
    <2> QED BY <1>3, <2>1 DEF OptionalOK, Waits
<1> QED BY <1>1, <1>5, <1>6, <1>7, <1>8, <1>9 DEF Stable

LEMMA InvariantInitially ==
    ASSUME Init
    PROVE  IInv
<1>1. PICK routing \in Routings : eng = NewEngine(routing)
    BY DEF Init
<1>2. Stable(eng, links)
    BY <1>1, NewEngineStable DEF Init
<1> QED BY <1>2, NetworkAssumption DEF Init, IInv

LEMMA InvariantKept ==
    ASSUME IInv, [Next]_vars
    PROVE  IInv'
<1>1. Stable(eng, links) /\ links \in Topology /\ now \in Nat /\ lost \in 0..MaxLoss
      /\ updates \in 0..MaxUpdates /\ MaxLoss \in Nat /\ MaxUpdates \in Nat
    BY NetworkAssumption DEF IInv
<1>2. ASSUME NEW t \in Transfer, Start(t) PROVE IInv'
    <2>1. PICK at \in {now, now + 1} :
             now' = at /\ eng' = StartTransferNow(Registered(eng, t), links, t, at)
        BY <1>2 DEF Start, Registered
    <2>2. at \in Nat /\ eng.state[t] \in {"UNKNOWN", "REGISTERED"}
        BY <1>1, <1>2, <2>1 DEF Start
    <2>3. Stable(eng', links)
        BY <1>1, <2>1, <2>2, StartStable
    <2> QED BY <1>1, <1>2, <2>1, <2>2, <2>3 DEF IInv, Start
<1>3. ASSUME NEW t \in Transfer, Ready(t) PROVE IInv'
    <2>1. Stable(eng', links)
        BY <1>1, <1>3, ReadyStable DEF Ready
    <2> QED BY <1>1, <1>3, <2>1 DEF IInv, Ready
<1>4. ASSUME NEW t \in Transfer, Activate(t) PROVE IInv'
    <2>1. Stable(eng', links)
        BY <1>1, <1>4, ActivateStable DEF Activate
    <2> QED BY <1>1, <1>4, <2>1 DEF IInv, Activate
<1>5. ASSUME NEW t \in Transfer, Send(t) PROVE IInv'
    <2>1. Stable(eng', links)
        BY <1>1, <1>5, SendStable DEF Send
    <2> QED BY <1>1, <1>5, <2>1 DEF IInv, Send
<1>6. ASSUME NEW t \in Transfer, Deliver(t) PROVE IInv'
    <2> DEFINE e == [eng EXCEPT !.flying[t] = @ - 1]
               f == [e EXCEPT !.received[t] = @ + 1]
    <2>1. /\ eng.flying[t] > 0 /\ f = Arrived(eng, t)
          /\ UNCHANGED <<links, now, lost, updates>>
        BY <1>6 DEF Deliver, Arrived
    <2>2. IF e.state[t] \in Ended THEN eng' = e
          ELSE IF f.received[t] < PacketCount[t] THEN eng' = f
          ELSE \E also, after \in Others(t) : eng' = HandleTransferComplete(f, links, t, also, after)
        BY <1>6 DEF Deliver
    <2> HIDE DEF f
    <2>3. Stable(e, links) /\ e.state = eng.state
        BY <1>1, <2>1, PacketLeaves
    <2> HIDE DEF e
    <2>4. CASE e.state[t] \in Ended
        BY <1>1, <2>1, <2>2, <2>3, <2>4 DEF IInv
    <2>5. CASE e.state[t] \notin Ended
        <3>1. eng.state[t] \notin Ended
            BY <2>3, <2>5
        <3>2. Stable(eng', links)
            <4>1. CASE f.received[t] < PacketCount[t]
                <5>1. eng' = f
                    BY <2>2, <2>5, <4>1
                <5>2. Stable(f, links)
                    BY <1>1, <2>1, <3>1, <4>1, PacketArrives
                <5> QED BY <5>1, <5>2
            <4>2. CASE ~(f.received[t] < PacketCount[t])
                <5>1. PICK also \in Others(t), after \in Others(t) :
                         eng' = HandleTransferComplete(f, links, t, also, after)
                    BY <2>2, <2>5, <4>2
                <5>2. also \in SUBSET Transfer /\ after \in SUBSET Transfer
                    BY <5>1 DEF Others
                <5> QED BY <1>1, <2>1, <3>1, <4>2, <5>1, <5>2, CompleteStable
            <4> QED BY <4>1, <4>2
        <3> QED BY <1>1, <2>1, <3>2 DEF IInv
    <2> QED BY <2>4, <2>5
<1>7. ASSUME NEW t \in Transfer, Lose(t) PROVE IInv'
    <2>1. Stable(eng', links)
        BY <1>1, <1>7, PacketLeaves DEF Lose
    <2> QED BY <1>1, <1>7, <2>1 DEF IInv, Lose
<1>8. ASSUME End PROVE IInv'
    <2>1. \/ \E t \in Transfer : \E also \in SUBSET Transfer :
               eng.state[t] \notin Ended /\ eng' = FinalizeTransfer(eng, links, t, "FAILED", also)
          \/ \E ts \in SUBSET Transfer : eng' = FinalizeTransfers(eng, links, ts, "CANCELLED")
        <3>1. CASE \E t \in Transfer : \E also \in Others(t) :
                     Live(t) /\ eng' = FinalizeTransfer(eng, links, t, "FAILED", also)
            <4>1. PICK t \in Transfer : \E also \in Others(t) :
                     Live(t) /\ eng' = FinalizeTransfer(eng, links, t, "FAILED", also)
                BY <3>1
            <4>2. PICK also \in Others(t) :
                     Live(t) /\ eng' = FinalizeTransfer(eng, links, t, "FAILED", also)
                BY <4>1
            <4>3. also \in SUBSET Transfer /\ eng.state[t] \notin Ended
                BY <4>2 DEF Others, Live
            <4> QED BY <4>2, <4>3
        <3>2. CASE \E ts \in SUBSET {t \in Transfer : Live(t)} :
                     ts # {} /\ eng' = FinalizeTransfers(eng, links, ts, "CANCELLED")
            <4>1. PICK ts \in SUBSET {t \in Transfer : Live(t)} :
                     eng' = FinalizeTransfers(eng, links, ts, "CANCELLED")
                BY <3>2
            <4>2. ts \in SUBSET Transfer
                BY <4>1
            <4> QED BY <4>1, <4>2
        <3> QED BY <1>8, <3>1, <3>2 DEF End
    <2>2. Stable(eng', links)
        BY <1>1, <2>1, EndStable
    <2> QED BY <1>1, <1>8, <2>2 DEF IInv, End
<1>9. ASSUME UpdateRoutes PROVE IInv'
    <2>1. PICK g \in Topology \ {links} :
             /\ CapacityAware(eng) \/ \A t \in Transfer : Reachable(g, t)
             /\ links' = g
             /\ eng' = IF CapacityAware(eng) THEN HandleTopologyRouteUpdate(eng, g) ELSE eng
        BY <1>9 DEF UpdateRoutes
    <2>2. Stable(eng', g)
        BY <1>1, <2>1, RoutesStable
    <2>3. updates < MaxUpdates /\ updates' = updates + 1 /\ now' = now /\ lost' = lost
        BY <1>9 DEF UpdateRoutes
    <2> QED BY <1>1, <2>1, <2>2, <2>3 DEF IInv
<1>10. ASSUME UNCHANGED vars PROVE IInv'
    BY <1>1, <1>10 DEF IInv, vars
<1> QED BY <1>2, <1>3, <1>4, <1>5, <1>6, <1>7, <1>8, <1>9, <1>10 DEF Next, Event

-----------------------------------------------------------------------------
(* What the runs check, for every instance *)

\* Whatever the calls, packets and route updates are, the engine, its queue and
\* its ledger are as IInv says between any two events.
THEOREM InductiveInvariant == Spec => []IInv
<1>1. Init => IInv
    BY InvariantInitially
<1>2. IInv /\ [Next]_vars => IInv'
    BY InvariantKept
<1> QED BY <1>1, <1>2, PTL DEF Spec

\* The engine, the links and the counts are well formed.
THEOREM TypeCorrect == Spec => []TypeOK
<1>1. IInv => TypeOK
    BY DEF IInv, Stable, Sane, TypeOK
<1> QED BY <1>1, InductiveInvariant, PTL

\* No legal call, callback or route update trips an assertion of the engine, a
\* sender, the flow registry or the ledger.
THEOREM NoAssertionFails == Spec => []NeverAborts
<1>1. IInv => NeverAborts
    BY DEF IInv, Stable, Sane, TypeOK, NeverAborts
<1> QED BY <1>1, InductiveInvariant, PTL

\* The ledger is, link by link, the sum of the rates of the paths over it, and
\* no link in use is overbooked.
THEOREM LedgerAddsUp == Spec => []LedgerExact
<1>1. ASSUME IInv PROVE LedgerExact
    <2>1. Sane(eng, {}) /\ Valid(eng, links) /\ eng \in Engine /\ Sums(eng.reserved, eng.path)
        BY <1>1 DEF IInv, Stable, Sane
    <2>2. eng.path \in Paths
        BY <2>1 DEF Engine, Paths, Path
    <2> DEFINE users(h) == {t \in Transfer : h \in eng.path[t].hops}
    <2>3. ASSUME NEW h \in Hop
          PROVE  eng.reserved[h] = SumFunctionOnSet([t \in Transfer |-> eng.path[t].rate], users(h))
        <3>1. eng.reserved[h] = SumFunctionOnSet(Load(eng.path, h), Transfer)
            BY <2>1, <2>3 DEF Sums
        <3> QED BY <2>2, <3>1, LoadIsUse
    <2>4. ASSUME NEW h \in Hop, users(h) # {} PROVE eng.reserved[h] <= Bandwidth[{h[1], h[2]}]
        <3>1. PICK t \in Transfer : h \in eng.path[t].hops
            BY <2>4
        <3>2. eng.path[t] # NoPath
            BY <3>1 DEF NoPath
        <3> QED BY <2>1, <3>1, <3>2 DEF Valid, IsActivePathValid
    <2> QED BY <2>3, <2>4 DEF LedgerExact
<1>2. IInv => LedgerExact
    BY <1>1
<1> QED BY <1>2, InductiveInvariant, PTL

\* Who sends holds a reserved path that the routes have; who waits or ended
\* holds nothing.
THEOREM PathsAreHeld == Spec => []SendersHoldPaths
<1>1. ASSUME IInv PROVE SendersHoldPaths
    <2>1. Sane(eng, {}) /\ Valid(eng, links)
        BY <1>1 DEF IInv, Stable
    <2>2. ASSUME NEW t \in Transfer
          PROVE  /\ CapacityAware(eng) /\ t \in eng.sendEvent =>
                      eng.state[t] = "ACTIVE" /\ eng.path[t] # NoPath
                 /\ eng.path[t] # NoPath =>
                      /\ eng.state[t] \in {"ACTIVE", "SENDER_FINISHED"}
                      /\ IsActivePathValid(eng, links, t) /\ eng.assigned[t] = eng.path[t].hops
                 /\ Waits(eng, t) => eng.path[t] = NoPath /\ eng.assigned[t] = {}
                 /\ eng.state[t] \in Ended =>
                      t \notin eng.active \cup eng.sendEvent \cup eng.activation \cup eng.paused
        <3>1. StageOK(eng, t) /\ FlowOK(eng, t)
            BY <2>1 DEF Sane
        <3>2. CapacityAware(eng) /\ t \in eng.sendEvent =>
                eng.state[t] = "ACTIVE" /\ eng.path[t] # NoPath
            BY <3>1 DEF StageOK
        <3>3. eng.path[t] # NoPath =>
                /\ eng.state[t] \in {"ACTIVE", "SENDER_FINISHED"}
                /\ IsActivePathValid(eng, links, t) /\ eng.assigned[t] = eng.path[t].hops
            BY <2>1, <3>1 DEF FlowOK, Valid
        <3>4. Waits(eng, t) => eng.path[t] = NoPath /\ eng.assigned[t] = {}
            BY <2>1, WaitingStage
        <3>5. ASSUME eng.state[t] \in Ended
              PROVE  t \notin eng.active \cup eng.sendEvent \cup eng.activation \cup eng.paused
            <4>1. eng.state[t] # "ACTIVE" /\ eng.state[t] # "PAUSED_ROUTE"
                BY <3>5 DEF Ended
            <4>2. t \notin eng.active
                BY <3>1, <3>5, <4>1 DEF FlowOK
            <4> QED BY <3>1, <4>1, <4>2 DEF StageOK
        <3> QED BY <3>2, <3>3, <3>4, <3>5
    <2> QED BY <2>2 DEF SendersHoldPaths
<1>2. IInv => SendersHoldPaths
    BY <1>1
<1> QED BY <1>2, InductiveInvariant, PTL

\* The queue and the open waits are exactly the transfers that wait, each
\* queued once; no optional transfer waits once its application is up.
THEOREM QueueIsExact == Spec => []QueueExact
<1>1. ASSUME IInv PROVE QueueExact
    <2>1. Sane(eng, {}) /\ Queued(eng) /\ OptionalOK(eng) /\ eng \in Engine
        BY <1>1 DEF IInv, Stable, Sane
    <2>2. ASSUME NEW t \in Transfer
          PROVE  Cardinality({i \in DOMAIN eng.pending : eng.pending[i] = t}) =
                   IF Waits(eng, t) THEN 1 ELSE 0
        <3> DEFINE places == {i \in DOMAIN eng.pending : eng.pending[i] = t}
        <3>1. CASE Waits(eng, t)
            <4>1. PICK i \in DOMAIN eng.pending : eng.pending[i] = t
                BY <2>1, <3>1 DEF Queued
            <4>2. places = {i}
                BY <2>1, <4>1 DEF Queued
            <4>3. Cardinality({i}) = 1
                BY FS_Singleton
            <4> QED BY <3>1, <4>2, <4>3
        <3>2. CASE ~Waits(eng, t)
            <4>1. places = {}
                BY <2>1, <3>2 DEF Queued
            <4> QED BY <3>2, <4>1, FS_EmptySet
        <3> QED BY <3>1, <3>2
    <2>3. eng.waiting = {t \in Transfer : Waits(eng, t)}
        <3>1. eng.waiting \in SUBSET Transfer
            BY <2>1 DEF Engine
        <3>2. \A t \in Transfer : t \in eng.waiting <=> Waits(eng, t)
            BY <2>1 DEF Sane, StageOK
        <3> QED BY <3>1, <3>2
    <2>4. \A t \in Optional : eng.state[t] = "WAITING_ADMISSION" => t \in eng.starting
        BY <2>1 DEF OptionalOK
    <2> QED BY <2>2, <2>3, <2>4 DEF QueueExact
<1>2. IInv => QueueExact
    BY <1>1
<1> QED BY <1>2, InductiveInvariant, PTL

\* Nobody waits between events for a path that the routes and the capacity left
\* offer.
THEOREM WaitsAreNeeded == Spec => []NoneWaitsInVain
<1>1. IInv => NoneWaitsInVain
    BY DEF IInv, Stable, Settled, NoneWaitsInVain
<1> QED BY <1>1, InductiveInvariant, PTL

=============================================================================
