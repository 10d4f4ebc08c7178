----------------------- MODULE FaultModelEngine_proofs -----------------------
(***************************************************************************)
(* Generated faults are accepted whatever is drawn: for every grid, every  *)
(* constellation and every outage the controller rejects nothing, the      *)
(* views of a fault agree, and each fault that recovers has its recovery   *)
(* scheduled once.  The first part is about ranks and sequences, the       *)
(* second about the operations of the controller, the third about the      *)
(* engine's steps.                                                         *)
(***************************************************************************)
EXTENDS FaultModelEngine, FoldTheorems, SequenceTheorems

-----------------------------------------------------------------------------
(* Ranks *)

\* Nodes are numbers.
LEMMA SortedLists ==
    ASSUME NEW S \in SUBSET Sat
    PROVE  /\ DOMAIN Sorted(S) = 1..Cardinality(S) /\ Cardinality(S) \in Nat
           /\ \A i \in DOMAIN Sorted(S) : Sorted(S)[i] \in S
           /\ \A x \in S : \E i \in DOMAIN Sorted(S) : Sorted(S)[i] = x
           /\ \A i, j \in DOMAIN Sorted(S) : i # j => Sorted(S)[i] # Sorted(S)[j]
<1> DEFINE below == [x \in S |-> {y \in S : y < x}]
           r == Sorted(S)
<1>1. IsFiniteSet(S) /\ S \subseteq Nat
    BY FaultAssumption, FS_Subset
<1>2. Orders(below, S)
    <2>1. \A x, y \in S : y \in below[x] <=> y < x
        OBVIOUS
    <2>2. \A x \in S : below[x] \subseteq S
        OBVIOUS
    <2>3. \A x \in S : x \in Int
        BY <1>1
    <2> HIDE DEF below
    <2>4. \A x \in S : below[x] \subseteq S /\ x \notin below[x]
        BY <2>1, <2>2, <2>3
    <2>5. ASSUME NEW x \in S, NEW y \in S PROVE x # y => x \in below[y] \/ y \in below[x]
        <3>1. x \in Int /\ y \in Int /\ (x \in below[y] <=> x < y) /\ (y \in below[x] <=> y < x)
            BY <2>1, <2>3
        <3> QED BY <3>1
    <2>6. ASSUME NEW x \in S, NEW y \in S, x \in below[y], NEW z \in below[x] PROVE z \in below[y]
        <3>1. z \in S /\ x \in Int /\ y \in Int
            BY <2>2, <2>3
        <3>2. z \in Int /\ z < x /\ x < y
            BY <2>1, <2>3, <2>6, <3>1
        <3> QED BY <2>1, <3>1, <3>2
    <2> QED BY <2>4, <2>5, <2>6 DEF Orders
<1>3. \A i \in DOMAIN r : r[i] = CHOOSE x \in S : Cardinality(below[x]) = i - 1
    BY DEF Sorted, Ranked
<1>4. DOMAIN r = 1..Cardinality(S)
    BY DEF Sorted, Ranked
<1> HIDE DEF below, r
<1>5. Lists(r, S, below)
    BY <1>1, <1>2, <1>3, <1>4, RankedLists, Zenon
<1> QED BY <1>5 DEF Lists, r

-----------------------------------------------------------------------------
(* Sequences without repetition *)

OneByOne(s) == \A i, j \in DOMAIN s : i # j => s[i] # s[j]

\* Seen from the range: r is s without e.
Without(r, s, e, X) ==
    /\ r \in Seq(X) /\ OneByOne(r) /\ Range(r) = Range(s) \ {e}

LEMMA RemoveAtIsSeq ==
    ASSUME NEW X, NEW s \in Seq(X), NEW i \in DOMAIN s
    PROVE  /\ RemoveAt(s, i) \in Seq(X) /\ Len(s) \in Nat /\ DOMAIN s = 1..Len(s)
           /\ DOMAIN RemoveAt(s, i) = 1..(Len(s) - 1)
           /\ \A j \in 1..(Len(s) - 1) :
                RemoveAt(s, i)[j] = IF j < i THEN s[j] ELSE s[j + 1]
<1> DEFINE a == SubSeq(s, 1, i - 1)
           b == SubSeq(s, i + 1, Len(s))
<1>1. Len(s) \in Nat /\ DOMAIN s = 1..Len(s) /\ s \in [1..Len(s) -> X]
    BY LenProperties
<1>2. i \in 1..Len(s) /\ 1 \in Int /\ i - 1 \in Int /\ i + 1 \in Int /\ Len(s) \in Int
    BY <1>1
<1>3. /\ a \in Seq(X) /\ Len(a) = i - 1
      /\ \A j \in 1..(i - 1) : a[j] = s[j]
    <2>1. \A j \in 1..(i - 1) : s[j] \in X
        BY <1>1, <1>2
    <2> DEFINE k == i - 1
    <2>2. k \in Int /\ \A j \in 1..k : s[j] \in X
        BY <1>2, <2>1
    <2> HIDE DEF k
    <2>3. /\ SubSeq(s, 1, k) \in Seq(X)
          /\ Len(SubSeq(s, 1, k)) = IF 1 <= k THEN k - 1 + 1 ELSE 0
          /\ \A j \in 1..(k - 1 + 1) : SubSeq(s, 1, k)[j] = s[1 + j - 1]
        BY <2>2, SubSeqProperties
    <2>4. \A j \in 1..k : j \in 1..(k - 1 + 1) /\ 1 + j - 1 = j
        BY <2>2
    <2>5. a = SubSeq(s, 1, k)
        BY DEF k
    <2>6. Len(a) = i - 1
        BY <1>2, <2>3, <2>5 DEF k
    <2>7. \A j \in 1..k : a[j] = s[j]
        <3> HIDE DEF a
        <3> QED BY <2>3, <2>4, <2>5
    <2> QED BY <2>3, <2>5, <2>6, <2>7 DEF k
<1>4. /\ b \in Seq(X) /\ Len(b) = Len(s) - i
      /\ \A j \in 1..(Len(s) - i) : b[j] = s[i + j]
    <2> DEFINE k == i + 1
               n == Len(s)
    <2>1. k \in Int /\ n \in Int /\ i \in Int /\ i <= n /\ k = i + 1
        BY <1>2
    <2>2. \A j \in k..n : s[j] \in X
        BY <1>1, <1>2
    <2> HIDE DEF k, n
    <2>3. /\ SubSeq(s, k, n) \in Seq(X)
          /\ Len(SubSeq(s, k, n)) = IF k <= n THEN n - k + 1 ELSE 0
          /\ \A j \in 1..(n - k + 1) : SubSeq(s, k, n)[j] = s[k + j - 1]
        BY <2>1, <2>2, SubSeqProperties
    <2>4. n - k + 1 = n - i /\ \A j \in 1..(n - i) : k + j - 1 = i + j
        BY <2>1
    <2>5. b = SubSeq(s, k, n) /\ n = Len(s)
        BY DEF k, n
    <2>6. Len(b) = n - i
        BY <2>1, <2>3, <2>5
    <2>7. \A j \in 1..(n - i) : b[j] = s[i + j]
        <3> HIDE DEF b
        <3> QED BY <2>3, <2>4, <2>5
    <2> HIDE DEF b
    <2> QED BY <2>3, <2>5, <2>6, <2>7
<1>5. RemoveAt(s, i) = a \o b
    BY DEF RemoveAt
<1> HIDE DEF a, b
<1>6. /\ a \o b \in Seq(X) /\ Len(a \o b) = Len(a) + Len(b)
      /\ \A j \in 1..(Len(a) + Len(b)) : (a \o b)[j] = IF j <= Len(a) THEN a[j] ELSE b[j - Len(a)]
    BY <1>3, <1>4, ConcatProperties
<1>7. Len(a) + Len(b) = Len(s) - 1
    BY <1>1, <1>2, <1>3, <1>4
<1>8. DOMAIN (a \o b) = 1..(Len(s) - 1)
    BY <1>6, <1>7, LenProperties
<1>9. ASSUME NEW j \in 1..(Len(s) - 1)
      PROVE  (a \o b)[j] = IF j < i THEN s[j] ELSE s[j + 1]
    <2>1. (a \o b)[j] = IF j <= Len(a) THEN a[j] ELSE b[j - Len(a)]
        BY <1>6, <1>7
    <2>2. CASE j < i
        <3>1. j <= Len(a) /\ j \in 1..(i - 1)
            BY <1>2, <1>3, <2>2
        <3> QED BY <1>3, <2>1, <2>2, <3>1
    <2>3. CASE ~(j < i)
        <3> DEFINE d == j - (i - 1)
        <3>1. ~(j <= Len(a)) /\ d \in 1..(Len(s) - i) /\ d = j - Len(a) /\ i + d = j + 1
            BY <1>1, <1>2, <1>3, <2>3, SMTT(30)
        <3> HIDE DEF d
        <3> QED BY <1>4, <2>1, <2>3, <3>1
    <2> QED BY <2>2, <2>3
<1> QED BY <1>1, <1>5, <1>6, <1>8, <1>9, Zenon

LEMMA RemoveAtWithout ==
    ASSUME NEW X, NEW s \in Seq(X), OneByOne(s), NEW i \in DOMAIN s,
           NEW r, r = RemoveAt(s, i)
    PROVE  Without(r, s, s[i], X)
<1> DEFINE n == Len(s) - 1
           from == [j \in 1..n |-> IF j < i THEN j ELSE j + 1]
<1>1. /\ r \in Seq(X) /\ DOMAIN s = 1..(n + 1) /\ n + 1 \in Nat /\ n \in Int
      /\ DOMAIN r = 1..n /\ i \in 1..(n + 1)
      /\ \A j \in 1..n : r[j] = IF j < i THEN s[j] ELSE s[j + 1]
    <2>1. /\ RemoveAt(s, i) \in Seq(X) /\ DOMAIN RemoveAt(s, i) = 1..(Len(s) - 1)
          /\ DOMAIN s = 1..Len(s) /\ Len(s) \in Nat
          /\ \A j \in 1..(Len(s) - 1) : RemoveAt(s, i)[j] = IF j < i THEN s[j] ELSE s[j + 1]
        BY RemoveAtIsSeq
    <2>2. /\ r \in Seq(X) /\ DOMAIN r = 1..n /\ DOMAIN s = 1..Len(s) /\ Len(s) \in Nat
          /\ \A j \in 1..n : r[j] = IF j < i THEN s[j] ELSE s[j + 1]
        BY <2>1
    <2>3. n + 1 = Len(s) /\ n \in Int
        BY <2>2
    <2> HIDE DEF n
    <2> QED BY <2>2, <2>3
<1> HIDE DEF n
<1>2. ASSUME NEW j \in 1..n
      PROVE  from[j] \in DOMAIN s /\ from[j] # i /\ r[j] = s[from[j]]
    <2>1. from[j] = IF j < i THEN j ELSE j + 1
        OBVIOUS
    <2> HIDE DEF from
    <2> QED BY <1>1, <2>1
<1>3. ASSUME NEW j \in 1..n, NEW k \in 1..n, j # k PROVE from[j] # from[k]
    BY <1>1, <1>3
<1>4. ASSUME NEW m \in DOMAIN s, m # i PROVE \E j \in 1..n : from[j] = m
    <2>1. CASE m < i
        <3>1. m \in 1..n /\ from[m] = m
            BY <1>1, <2>1
        <3> QED BY <3>1
    <2>2. CASE m > i
        <3>1. m - 1 \in 1..n /\ from[m - 1] = m
            BY <1>1, <2>2
        <3> QED BY <3>1
    <2> QED BY <1>1, <1>4, <2>1, <2>2
<1> HIDE DEF from
<1>5. OneByOne(r)
    <2>1. ASSUME NEW j \in DOMAIN r, NEW k \in DOMAIN r, j # k PROVE r[j] # r[k]
        <3>1. j \in 1..n /\ k \in 1..n
            BY <1>1
        <3>2. from[j] \in DOMAIN s /\ from[k] \in DOMAIN s /\ from[j] # from[k]
            BY <1>2, <1>3, <2>1, <3>1
        <3> QED BY <1>2, <3>1, <3>2 DEF OneByOne
    <2> QED BY <2>1 DEF OneByOne
<1>6. ASSUME NEW x PROVE x \in Range(r) <=> x \in Range(s) /\ x # s[i]
    <2>1. x \in Range(r) => x \in Range(s) /\ x # s[i]
        BY <1>1, <1>2 DEF Range, OneByOne
    <2>2. ASSUME x \in Range(s), x # s[i] PROVE x \in Range(r)
        <3>1. PICK m \in DOMAIN s : x = s[m]
            BY <2>2 DEF Range
        <3>2. PICK j \in 1..n : from[j] = m
            BY <1>4, <2>2, <3>1
        <3> QED BY <1>1, <1>2, <3>1, <3>2 DEF Range
    <2> QED BY <2>1, <2>2
<1> QED BY <1>1, <1>5, <1>6 DEF Without

\* Nothing is left exactly when the range is empty.
LEMMA EmptyRange ==
    ASSUME NEW X, NEW s \in Seq(X)
    PROVE  s = <<>> <=> Range(s) = {}
<1>1. Len(s) \in Nat /\ DOMAIN s = 1..Len(s)
    BY LenProperties
<1>2. s # <<>> => 1 \in DOMAIN s
    BY <1>1, EmptySeq
<1>3. s = <<>> => DOMAIN s = {}
    BY <1>1, EmptySeq
<1> QED BY <1>2, <1>3 DEF Range

\* Seen from the range: r is s and e.
Plus(r, s, e, X) ==
    /\ r \in Seq(X) /\ Range(r) = Range(s) \cup {e} /\ r # <<>>
    /\ e \notin Range(s) => OneByOne(r)

LEMMA AppendOneByOne ==
    ASSUME NEW X, NEW s \in Seq(X), OneByOne(s), NEW e \in X,
           NEW r, r = Append(s, e)
    PROVE  Plus(r, s, e, X)
<1>1. /\ r \in Seq(X) /\ r # <<>> /\ Len(r) = Len(s) + 1 /\ Len(s) \in Nat
      /\ DOMAIN s = 1..Len(s) /\ DOMAIN r = 1..(Len(s) + 1)
      /\ \A i \in 1..Len(s) : r[i] = s[i]
      /\ r[Len(s) + 1] = e
    BY AppendProperties, LenProperties
<1>2. DOMAIN r = DOMAIN s \cup {Len(s) + 1} /\ Len(s) + 1 \notin DOMAIN s
    BY <1>1
<1>3. Range(r) = Range(s) \cup {e}
    BY <1>1, <1>2 DEF Range
<1>4. e \notin Range(s) => OneByOne(r)
    BY <1>1, <1>2 DEF Range, OneByOne
<1> QED BY <1>1, <1>3, <1>4 DEF Plus

\* Seen from the range: r is s and t.
Joined(r, s, t, X) == r \in Seq(X) /\ Range(r) = Range(s) \cup Range(t) /\ OneByOne(r)

LEMMA ConcatOneByOne ==
    ASSUME NEW X, NEW s \in Seq(X), OneByOne(s), NEW t \in Seq(X), OneByOne(t),
           Range(s) \cap Range(t) = {}, NEW r, r = s \o t
    PROVE  Joined(r, s, t, X)
<1>1. /\ r \in Seq(X) /\ Len(s) \in Nat /\ Len(t) \in Nat
      /\ DOMAIN s = 1..Len(s) /\ DOMAIN t = 1..Len(t) /\ DOMAIN r = 1..(Len(s) + Len(t))
      /\ \A i \in 1..(Len(s) + Len(t)) : r[i] = IF i <= Len(s) THEN s[i] ELSE t[i - Len(s)]
    BY ConcatProperties, LenProperties
<1>2. Range(r) = Range(s) \cup Range(t)
    BY RangeConcatenation
<1>3. ASSUME NEW i \in DOMAIN r
      PROVE  \/ i \in DOMAIN s /\ r[i] = s[i] /\ i <= Len(s)
             \/ i - Len(s) \in DOMAIN t /\ r[i] = t[i - Len(s)] /\ i > Len(s)
    BY <1>1
<1>4. ASSUME NEW i \in DOMAIN r, NEW j \in DOMAIN r, i # j PROVE r[i] # r[j]
    <2>1. i \in Int /\ j \in Int /\ Len(s) \in Int
        BY <1>1
    <2>2. \A x \in DOMAIN s : \A y \in DOMAIN t : s[x] # t[y]
        BY DEF Range
    <2>3. CASE i <= Len(s) /\ j <= Len(s)
        BY <1>3, <1>4, <2>1, <2>3 DEF OneByOne
    <2>4. CASE i > Len(s) /\ j > Len(s)
        <3>1. i - Len(s) # j - Len(s)
            BY <1>4, <2>1
        <3> QED BY <1>3, <2>1, <2>4, <3>1 DEF OneByOne
    <2>5. CASE i <= Len(s) /\ j > Len(s)
        BY <1>3, <2>1, <2>2, <2>5
    <2>6. CASE i > Len(s) /\ j <= Len(s)
        BY <1>3, <2>1, <2>2, <2>6
    <2> QED BY <2>1, <2>3, <2>4, <2>5, <2>6
<1> QED BY <1>1, <1>2, <1>4 DEF OneByOne, Joined

-----------------------------------------------------------------------------
(* Faults, events and the fields of the controller *)

LEMMA FaultFields ==
    ASSUME NEW f \in Fault
    PROVE  /\ f.id \in Nat \ {0} /\ f.node \in Sat /\ f.kind \in {"compute", "satellite"}
           /\ f.start \in Time /\ f.duration \in Nat
           /\ RecoveryTime(f) \in Nat /\ RecoveryTime(f) = f.start + f.duration
           /\ f.start \in Nat
BY DurationAssumption DEF Fault, FaultKind, RecoveryTime, Time

LEMMA ShortenedFields ==
    ASSUME NEW f \in Fault, NEW time \in Time, f.start < time, NEW g, g = Shortened(f, time)
    PROVE  /\ g \in Fault /\ g.id = f.id /\ g.node = f.node /\ g.kind = f.kind
           /\ g.start = f.start /\ g.duration > 0 /\ RecoveryTime(g) = time
<1>1. f = [id |-> f.id, node |-> f.node, kind |-> f.kind, start |-> f.start,
           duration |-> f.duration] /\ f.start \in Nat /\ time \in Nat
    BY DurationAssumption DEF Fault, Time
<1>2. g = [id |-> f.id, node |-> f.node, kind |-> f.kind, start |-> f.start,
           duration |-> time - f.start]
    BY <1>1 DEF Shortened
<1>3. time - f.start \in Nat /\ time - f.start > 0 /\ f.start + (time - f.start) = time
    BY <1>1
<1> QED BY <1>2, <1>3 DEF Fault, RecoveryTime

LEMMA Events ==
    /\ \A f : /\ Recovery(f).type = "RECOVERY" /\ Recovery(f).fault = f
              /\ Start(f).type = "START" /\ Start(f).fault = f
    /\ \A f \in Fault : Recovery(f) \in Event /\ Start(f) \in Event
    /\ \A e \in Event : /\ e.fault \in Fault
                        /\ e.type = "RECOVERY" => e = Recovery(e.fault)
                        /\ e.type # "RECOVERY" => e.type = "START" /\ e = Start(e.fault)
<1>1. \A f : /\ Recovery(f).type = "RECOVERY" /\ Recovery(f).fault = f
             /\ Start(f).type = "START" /\ Start(f).fault = f
    BY DEF Recovery, Start
<1>2. \A f \in Fault : Recovery(f) \in Event /\ Start(f) \in Event
    BY DEF Recovery, Start, Event
<1>3. ASSUME NEW e \in Event
      PROVE  /\ e.fault \in Fault
             /\ e.type = "RECOVERY" => e = Recovery(e.fault)
             /\ e.type # "RECOVERY" => e.type = "START" /\ e = Start(e.fault)
    <2> HIDE DEF Fault
    <2>1. e = [type |-> e.type, fault |-> e.fault] /\ e.fault \in Fault
          /\ e.type \in {"RECOVERY", "START"}
        BY DEF Event
    <2> QED BY <2>1 DEF Recovery, Start
<1> QED BY <1>1, <1>2, <1>3

Entry == [at : Time, event : Event, down : FaultKind]

Fields(c) ==
    c = [active |-> c.active, down |-> c.down, batches |-> c.batches, pending |-> c.pending,
         processed |-> c.processed, log |-> c.log, tasks |-> c.tasks, cut |-> c.cut,
         admitted |-> c.admitted, failed |-> c.failed]

Typed(c) ==
    /\ c.active \in [Sat -> Nat] /\ c.down \in [Sat -> FaultKind]
    /\ c.batches \in [Time -> Seq(Event)] /\ c.pending \in SUBSET Time
    /\ c.processed \in SUBSET Time /\ c.log \in Seq(Entry)
    /\ c.tasks \in [Sat -> FaultKind] /\ c.cut \in SUBSET Sat
    /\ c.admitted \in BOOLEAN /\ c.failed \in BOOLEAN

LEMMA ControllerFields == \A c : c \in Controller <=> Fields(c) /\ Typed(c)
<1> TAKE c
<1>1. c \in Controller => Fields(c) /\ Typed(c)
    BY Zenon DEF Controller, Fields, Typed, Entry
<1>2. Fields(c) /\ Typed(c) => c \in Controller
    BY DEF Controller, Fields, Typed, Entry
<1> QED BY <1>1, <1>2

\* An operation that throws leaves the controller as it is.
LEMMA Fails ==
    ASSUME NEW c \in Controller
    PROVE  [c EXCEPT !.failed = TRUE] \in Controller
<1> DEFINE yes == TRUE
           z == [c EXCEPT !.failed = yes]
<1>1. Fields(c) /\ Typed(c)
    BY ControllerFields
<1>2. yes \in BOOLEAN
    OBVIOUS
<1> HIDE DEF yes
<1>3. z = [active |-> c.active, down |-> c.down, batches |-> c.batches, pending |-> c.pending,
           processed |-> c.processed, log |-> c.log, tasks |-> c.tasks, cut |-> c.cut,
           admitted |-> c.admitted, failed |-> yes]
    BY <1>1 DEF Fields
<1> HIDE DEF z
<1>4. Fields(z) /\ Typed(z)
    BY <1>1, <1>2, <1>3 DEF Fields, Typed
<1>5. z \in Controller
    BY <1>4, ControllerFields
<1> QED BY <1>5 DEF z, yes

-----------------------------------------------------------------------------
(* A fault is cut short *)

\* What ShortenGeneratedComputeFault leaves in the fields it assigns.
Shortens(v, z, f, time) ==
    /\ z \in Controller
    /\ z.active = v.active /\ z.down = v.down /\ z.processed = v.processed
    /\ z.tasks = v.tasks /\ z.cut = v.cut /\ z.admitted = v.admitted /\ z.failed = v.failed
    /\ \A t \in Time :
         t # time /\ ~(t = RecoveryTime(f) /\ t < Duration) =>
             z.batches[t] = v.batches[t] /\ (t \in z.pending <=> t \in v.pending)
    /\ RecoveryTime(f) < Duration =>
         LET t == RecoveryTime(f) IN
         /\ \E i \in Recovering(v, f) : z.batches[t] = RemoveAt(v.batches[t], i)
         /\ t \in z.pending <=> t \in v.pending /\ z.batches[t] # <<>>
    /\ z.batches[time] = Append(v.batches[time], Recovery(Shortened(f, time)))
    /\ time \in z.pending <=> time \in v.pending
    /\ DOMAIN z.log = DOMAIN v.log
    /\ \A k \in DOMAIN v.log :
         z.log[k].event = IF v.log[k].event = Start(f) THEN Start(Shortened(f, time))
                          ELSE v.log[k].event

LEMMA ShortenAssigns ==
    ASSUME NEW v \in Controller, NEW f \in Fault, NEW time \in Time, ShortenValid(v, f, time),
           NEW z, z = ShortenGeneratedComputeFault(v, f, time)
    PROVE  Shortens(v, z, f, time)
<1> DEFINE at == RecoveryTime(f)
           i == Min(Recovering(v, f))
           g == Shortened(f, time)
           left == IF at < Duration THEN RemoveAt(v.batches[at], i) ELSE <<>>
           batched == IF at < Duration THEN [v.batches EXCEPT ![at] = left] ELSE v.batches
           pend == IF at < Duration /\ left = <<>> THEN v.pending \ {at} ELSE v.pending
           record == [k \in DOMAIN v.log |-> IF v.log[k].event = Start(f)
                                             THEN [v.log[k] EXCEPT !.event = Start(g)]
                                             ELSE v.log[k]]
           to == Append(batched[time], Recovery(g))
           moved == IF at < Duration
                    THEN [v EXCEPT !.batches[at] = left,
                                   !.pending = IF left = <<>> THEN @ \ {at} ELSE @]
                    ELSE v
<1>1. Fields(v) /\ Typed(v)
    BY ControllerFields
<1>2. /\ f.start < time /\ at > time /\ at \in Nat /\ time \in Nat
      /\ at < Duration => at \in Time /\ Recovering(v, f) # {}
    BY FaultFields, DurationAssumption DEF ShortenValid, Time
<1>3. ASSUME at < Duration
      PROVE  i \in Recovering(v, f) /\ i \in DOMAIN v.batches[at]
    <2>1. v.batches[at] \in Seq(Event)
        BY <1>1, <1>2, <1>3 DEF Typed
    <2>2. Recovering(v, f) \subseteq DOMAIN v.batches[at]
        BY DEF Recovering
    <2>3. Recovering(v, f) \subseteq Nat
        BY <2>1, <2>2, LenProperties
    <2>4. \E x \in Recovering(v, f) : \A y \in Recovering(v, f) : x <= y
        BY <1>2, <1>3, <2>3, NatLeast
    <2>5. i \in Recovering(v, f)
        BY <2>4 DEF Min
    <2> QED BY <2>2, <2>5
<1>4. g \in Fault
    BY <1>2, ShortenedFields
<1>5. left \in Seq(Event)
    <2>1. ASSUME at < Duration PROVE RemoveAt(v.batches[at], i) \in Seq(Event)
        <3>1. v.batches[at] \in Seq(Event)
            BY <1>1, <1>2, <2>1 DEF Typed
        <3> QED BY <1>3, <2>1, <3>1, RemoveAtIsSeq
    <2> QED BY <2>1, EmptySeq
<1>6. z = [moved EXCEPT !.log = record, !.batches[time] = Append(@, Recovery(g))]
    BY DEF ShortenGeneratedComputeFault
<1>7. moved = [v EXCEPT !.batches = batched, !.pending = pend]
    <2> HIDE DEF left
    <2>1. CASE at < Duration
        BY <1>1, <2>1 DEF Fields
    <2>2. CASE ~(at < Duration)
        BY <1>1, <2>2 DEF Fields
    <2> QED BY <2>1, <2>2
<1>8. batched \in [Time -> Seq(Event)] /\ pend \in SUBSET Time
    <2> HIDE DEF left
    <2> QED BY <1>1, <1>2, <1>5 DEF Typed
<1>9. record \in Seq(Entry) /\ DOMAIN record = DOMAIN v.log
    <2>1. v.log \in Seq(Entry) /\ DOMAIN v.log = 1..Len(v.log) /\ Len(v.log) \in Nat
        BY <1>1, LenProperties DEF Typed
    <2>2. Start(g) \in Event
        BY <1>4, Events
    <2>3. ASSUME NEW k \in DOMAIN v.log PROVE record[k] \in Entry
        <3>1. v.log[k] \in Entry
            BY <2>1, LenProperties
        <3>2. [v.log[k] EXCEPT !.event = Start(g)] \in Entry
            <4> HIDE DEF g
            <4> QED BY <2>2, <3>1 DEF Entry
        <3> HIDE DEF g
        <3> QED BY <3>1, <3>2
    <2>4. DOMAIN record = 1..Len(v.log)
        BY <2>1
    <2> HIDE DEF record
    <2>5. record = [k \in 1..Len(v.log) |-> record[k]]
        BY <2>4 DEF record
    <2>6. record \in [1..Len(v.log) -> Entry]
        BY <2>1, <2>3, <2>5
    <2> QED BY <2>1, <2>4, <2>6, SeqDef
<1>10. to \in Seq(Event)
    <2>1. Recovery(g) \in Event
        BY <1>4, Events
    <2>2. batched[time] \in Seq(Event)
        BY <1>8
    <2> HIDE DEF batched, g
    <2> QED BY <2>1, <2>2, AppendProperties
<1>11. ASSUME NEW k \in DOMAIN v.log
       PROVE  record[k].event = IF v.log[k].event = Start(f) THEN Start(g) ELSE v.log[k].event
    <2>1. v.log[k] \in Entry
        BY <1>1, LenProperties DEF Typed
    <2> HIDE DEF g
    <2>2. [v.log[k] EXCEPT !.event = Start(g)].event = Start(g)
        BY <2>1 DEF Entry
    <2> QED BY <2>2
<1> HIDE DEF moved, record
<1>12. /\ z = [active |-> v.active, down |-> v.down, batches |-> [batched EXCEPT ![time] = to],
               pending |-> pend, processed |-> v.processed, log |-> record,
               tasks |-> v.tasks, cut |-> v.cut, admitted |-> v.admitted, failed |-> v.failed]
    <2> HIDE DEF batched, pend, g
    <2>1. moved = [active |-> v.active, down |-> v.down, batches |-> batched,
               pending |-> pend, processed |-> v.processed, log |-> v.log,
               tasks |-> v.tasks, cut |-> v.cut, admitted |-> v.admitted, failed |-> v.failed]
        BY <1>1, <1>7 DEF Fields
    <2> QED BY <1>6, <2>1
<1> HIDE DEF to
<1>13. Fields(z) /\ Typed(z)
    <2> HIDE DEF batched, pend, g
    <2>1. [batched EXCEPT ![time] = to] \in [Time -> Seq(Event)]
        BY <1>8, <1>10
    <2>2. Fields(z)
        BY <1>12 DEF Fields
    <2> QED BY <1>1, <1>8, <1>9, <1>12, <2>1, <2>2 DEF Typed
<1>14. z \in Controller
    BY <1>13, ControllerFields
<1>15. \A t \in Time : t # time => z.batches[t] = batched[t]
    BY <1>8, <1>12
<1>16. z.batches[time] = to /\ z.pending = pend /\ z.log = record
    BY <1>8, <1>12
<1>17. to = Append(v.batches[time], Recovery(g))
    <2>1. batched[time] = v.batches[time]
        BY <1>1, <1>2 DEF Typed
    <2> QED BY <2>1 DEF to
<1>18. ASSUME NEW t \in Time, t # time, ~(t = at /\ t < Duration)
       PROVE  z.batches[t] = v.batches[t] /\ (t \in z.pending <=> t \in v.pending)
    <2>1. batched[t] = v.batches[t]
        BY <1>1, <1>18 DEF Typed
    <2> HIDE DEF batched
    <2> QED BY <1>15, <1>16, <1>18, <2>1
<1>19. ASSUME at < Duration
       PROVE  /\ z.batches[at] = RemoveAt(v.batches[at], i)
              /\ at \in z.pending <=> at \in v.pending /\ z.batches[at] # <<>>
    <2>1. z.batches[at] = batched[at]
        BY <1>2, <1>15, <1>19
    <2>2. batched[at] = left
        BY <1>1, <1>2, <1>19 DEF Typed
    <2>3. left = RemoveAt(v.batches[at], i)
        BY <1>19
    <2> HIDE DEF batched, left
    <2> QED BY <1>16, <1>19, <2>1, <2>2, <2>3
<1>20. time \in z.pending <=> time \in v.pending
    BY <1>2, <1>16
<1>21. /\ z.active = v.active /\ z.down = v.down /\ z.processed = v.processed
       /\ z.tasks = v.tasks /\ z.cut = v.cut /\ z.admitted = v.admitted /\ z.failed = v.failed
    BY <1>12
<1>22. RecoveryTime(f) < Duration =>
         LET t == RecoveryTime(f) IN
         /\ \E j \in Recovering(v, f) : z.batches[t] = RemoveAt(v.batches[t], j)
         /\ t \in z.pending <=> t \in v.pending /\ z.batches[t] # <<>>
    <2> HIDE DEF i
    <2> QED BY <1>3, <1>19
<1> QED BY <1>9, <1>11, <1>14, <1>16, <1>17, <1>18, <1>20, <1>21, <1>22 DEF Shortens

LEMMA ShortenType ==
    ASSUME NEW v \in Controller, NEW f \in Fault, NEW time \in Time
    PROVE  ShortenGeneratedComputeFault(v, f, time) \in Controller
<1>1. CASE ShortenValid(v, f, time)
    BY <1>1, ShortenAssigns DEF Shortens
<1>2. CASE ~ShortenValid(v, f, time)
    BY <1>2, Fails DEF ShortenGeneratedComputeFault
<1> QED BY <1>1, <1>2

\* The faults D may be cut short: each has begun, is active, has its recovery
\* ahead unless that is out of time, and was logged.
Shortenable(u, time, D) ==
    /\ u \in Controller /\ time \in Time /\ time \notin u.processed
    /\ \A t \in Time : t >= time => OneByOne(u.batches[t])
    /\ \A t \in Time : t > time => (t \in u.pending <=> u.batches[t] # <<>>)
    /\ \A f \in D : /\ f \in Fault /\ f.kind = "compute" /\ f.start < time
                    /\ RecoveryTime(f) > time /\ u.down[f.node] = "compute"
                    /\ RecoveryTime(f) < Duration =>
                         Recovery(f) \in Range(u.batches[RecoveryTime(f)])
                    /\ \E k \in DOMAIN u.log : u.log[k].event = Start(f)
    /\ \A f, g \in D : f.id = g.id => f = g
    /\ \A t \in Time : t > time => \A e \in Range(u.batches[t]) :
         /\ e.type = "RECOVERY" /\ RecoveryTime(e.fault) = t /\ t < Duration
         /\ \A f \in D : e.fault.id = f.id => e.fault = f
    /\ \A e \in Range(u.batches[time]) : \A f \in D : e.fault.id # f.id

SameFaults(u, v) ==
    /\ v.active = u.active /\ v.down = u.down /\ v.processed = u.processed
    /\ v.tasks = u.tasks /\ v.cut = u.cut /\ v.admitted = u.admitted /\ v.failed = u.failed

\* v is u after the faults C were cut short: their recoveries are due now and
\* are not ahead any more, and whatever else was logged is logged.
Cuts(u, v, time, C) ==
    /\ v \in Controller /\ SameFaults(u, v)
    /\ \A t \in Time : t < time =>
         v.batches[t] = u.batches[t] /\ (t \in v.pending <=> t \in u.pending)
    /\ \A t \in Time : t > time =>
         /\ OneByOne(v.batches[t])
         /\ Range(v.batches[t]) = Range(u.batches[t]) \ {Recovery(f) : f \in C}
         /\ t \in v.pending <=> v.batches[t] # <<>>
    /\ OneByOne(v.batches[time])
    /\ Range(v.batches[time]) = Range(u.batches[time]) \cup {Recovery(Shortened(f, time)) : f \in C}
    /\ \A k \in DOMAIN v.log : \E j \in DOMAIN u.log :
         v.log[k].event.fault.id = u.log[j].event.fault.id
    /\ \A j \in DOMAIN u.log : \A g : g \notin C /\ u.log[j].event = Start(g) =>
         \E k \in DOMAIN v.log : v.log[k].event = Start(g)

LEMMA NothingCut ==
    ASSUME NEW u, NEW time, NEW D, Shortenable(u, time, D), NEW none, none = {}
    PROVE  Cuts(u, u, time, none)
<1> DEFINE A == {Recovery(f) : f \in none}
           B == {Recovery(Shortened(f, time)) : f \in none}
<1>1. A = {} /\ B = {}
    OBVIOUS
<1> HIDE DEF A, B
<1>2. u \in Controller /\ SameFaults(u, u)
    BY DEF Shortenable, SameFaults
<1>3. \A t \in Time : t > time =>
         /\ OneByOne(u.batches[t]) /\ Range(u.batches[t]) = Range(u.batches[t]) \ A
         /\ t \in u.pending <=> u.batches[t] # <<>>
    <2>1. time \in Int /\ \A t \in Time : t \in Int
        BY DurationAssumption DEF Shortenable, Time
    <2> QED BY <1>1, <2>1 DEF Shortenable
<1>4. OneByOne(u.batches[time]) /\ Range(u.batches[time]) = Range(u.batches[time]) \cup B
    <2>1. time \in Time /\ time >= time
        BY DurationAssumption DEF Shortenable, Time
    <2> QED BY <1>1, <2>1 DEF Shortenable
<1>5. /\ \A k \in DOMAIN u.log : \E j \in DOMAIN u.log :
             u.log[k].event.fault.id = u.log[j].event.fault.id
      /\ \A j \in DOMAIN u.log : \A g : g \notin none /\ u.log[j].event = Start(g) =>
             \E k \in DOMAIN u.log : u.log[k].event = Start(g)
    OBVIOUS
<1> QED BY <1>2, <1>3, <1>4, <1>5 DEF Cuts, A, B

\* The recovery of f is found where it is due, and nothing else there has its id.
LEMMA RecoveryFound ==
    ASSUME NEW u, NEW time, NEW D, Shortenable(u, time, D),
           NEW v, NEW C \in SUBSET D, Cuts(u, v, time, C), NEW f \in D \ C,
           NEW at, at = RecoveryTime(f), at < Duration
    PROVE  /\ at \in Time /\ at > time
           /\ Recovering(v, f) # {}
           /\ \A i \in Recovering(v, f) : i \in DOMAIN v.batches[at] /\ v.batches[at][i] = Recovery(f)
<1>1. f \in Fault /\ at > time /\ Recovery(f) \in Range(u.batches[at])
    BY DEF Shortenable
<1>2. at \in Time
    BY <1>1, FaultFields, DurationAssumption DEF Time
<1>3. Range(v.batches[at]) = Range(u.batches[at]) \ {Recovery(g) : g \in C}
    BY <1>1, <1>2 DEF Cuts
<1>4. Recovery(f) \notin {Recovery(g) : g \in C}
    BY Events
<1>5. PICK i \in DOMAIN v.batches[at] : v.batches[at][i] = Recovery(f)
    BY <1>1, <1>3, <1>4 DEF Range
<1>6. i \in Recovering(v, f)
    BY <1>5, Events DEF Recovering
<1>7. ASSUME NEW k \in Recovering(v, f)
      PROVE  k \in DOMAIN v.batches[at] /\ v.batches[at][k] = Recovery(f)
    <2> DEFINE e == v.batches[at][k]
    <2>1. k \in DOMAIN v.batches[at] /\ e.type = "RECOVERY" /\ e.fault.id = f.id
        BY DEF Recovering
    <2>2. e \in Range(u.batches[at])
        BY <1>3, <2>1 DEF Range
    <2>3. e \in Event
        <3>1. u \in Controller
            BY DEF Shortenable
        <3>2. u.batches[at] \in Seq(Event)
            BY <1>2, <3>1, ControllerFields DEF Typed
        <3> HIDE DEF e
        <3> QED BY <2>2, <3>2, RangeOfSeq
    <2> HIDE DEF e
    <2>4. e.fault = f
        BY <1>1, <1>2, <2>1, <2>2 DEF Shortenable
    <2> QED BY <2>1, <2>3, <2>4, Events DEF e
<1> QED BY <1>1, <1>2, <1>6, <1>7

LEMMA ShortenIsValid ==
    ASSUME NEW u, NEW time, NEW D, Shortenable(u, time, D),
           NEW v, NEW C \in SUBSET D, Cuts(u, v, time, C), NEW f \in D \ C
    PROVE  ShortenValid(v, f, time)
<1>1. /\ f.kind = "compute" /\ f.start < time /\ RecoveryTime(f) > time
      /\ u.down[f.node] = "compute" /\ time \notin u.processed
      /\ \E k \in DOMAIN u.log : u.log[k].event = Start(f)
    BY DEF Shortenable
<1>2. RecoveryTime(f) < Duration => Recovering(v, f) # {}
    BY RecoveryFound
<1>3. \E k \in DOMAIN v.log : v.log[k].event = Start(f)
    BY <1>1 DEF Cuts
<1>4. \E k \in DOMAIN v.log : v.log[k].event.type = "START" /\ v.log[k].event.fault.id = f.id
    BY <1>3, Events
<1>5. v.down = u.down /\ v.processed = u.processed
    BY DEF Cuts, SameFaults
<1> QED BY <1>1, <1>2, <1>4, <1>5 DEF ShortenValid

LEMMA CutStep ==
    ASSUME NEW u, NEW time, NEW D, Shortenable(u, time, D),
           NEW v, NEW C \in SUBSET D, Cuts(u, v, time, C), NEW f \in D \ C,
           NEW z, z = ShortenGeneratedComputeFault(v, f, time)
    PROVE  Cuts(u, z, time, C \cup {f})
<1> DEFINE at == RecoveryTime(f)
           g == Shortened(f, time)
           Gone == {Recovery(h) : h \in C}
           Gone2 == {Recovery(h) : h \in C \cup {f}}
           New == {Recovery(Shortened(h, time)) : h \in C}
           New2 == {Recovery(Shortened(h, time)) : h \in C \cup {f}}
<1>1. /\ v \in Controller /\ time \in Time /\ f \in Fault /\ f.start < time /\ at > time
      /\ time \in Nat /\ Time \subseteq Nat
    BY DurationAssumption DEF Cuts, Shortenable, Time
<1>2. ShortenValid(v, f, time)
    BY ShortenIsValid
<1>3. Shortens(v, z, f, time)
    BY <1>1, <1>2, ShortenAssigns
<1>4. g \in Fault /\ g.id = f.id
    BY <1>1, ShortenedFields
<1>5. Gone2 = Gone \cup {Recovery(f)} /\ New2 = New \cup {Recovery(g)}
    OBVIOUS
<1>6. Recovery(g) \in Event
    BY <1>4, Events
<1>7. ASSUME NEW t \in Time
      PROVE  v.batches[t] \in Seq(Event) /\ u.batches[t] \in Seq(Event) /\ z.batches[t] \in Seq(Event)
    BY <1>1, <1>3, ControllerFields DEF Shortenable, Shortens, Typed
<1>8. SameFaults(u, z)
    BY <1>3 DEF Cuts, SameFaults, Shortens
<1>9. ASSUME NEW t \in Time, t < time
      PROVE  z.batches[t] = u.batches[t] /\ (t \in z.pending <=> t \in u.pending)
    <2>1. t # time /\ t # at
        BY <1>1, <1>9
    <2>2. z.batches[t] = v.batches[t] /\ (t \in z.pending <=> t \in v.pending)
        BY <1>3, <2>1 DEF Shortens
    <2> QED BY <1>9, <2>2 DEF Cuts
<1>10. ASSUME NEW t \in Time, t > time
       PROVE  /\ OneByOne(z.batches[t])
              /\ Range(z.batches[t]) = Range(u.batches[t]) \ Gone2
              /\ t \in z.pending <=> z.batches[t] # <<>>
    <2>1. /\ OneByOne(v.batches[t]) /\ Range(v.batches[t]) = Range(u.batches[t]) \ Gone
          /\ t \in v.pending <=> v.batches[t] # <<>>
        BY <1>10 DEF Cuts
    <2>2. CASE t = at /\ t < Duration
        <3>1. PICK i \in Recovering(v, f) : z.batches[t] = RemoveAt(v.batches[t], i)
            BY <1>3, <2>2 DEF Shortens
        <3>2. t \in z.pending <=> t \in v.pending /\ z.batches[t] # <<>>
            BY <1>3, <2>2 DEF Shortens
        <3>3. i \in DOMAIN v.batches[t] /\ v.batches[t][i] = Recovery(f)
            BY <2>2, <3>1, RecoveryFound
        <3>4. Without(z.batches[t], v.batches[t], Recovery(f), Event)
            BY <1>7, <2>1, <3>1, <3>3, RemoveAtWithout
        <3>5. z.batches[t] # <<>> => v.batches[t] # <<>>
            <4>1. v.batches[t] # <<>>
                BY <3>3, EmptySeq
            <4> QED BY <4>1
        <3>6. OneByOne(z.batches[t]) /\ Range(z.batches[t]) = Range(v.batches[t]) \ {Recovery(f)}
            BY <3>4 DEF Without
        <3> HIDE DEF Gone, Gone2
        <3> QED BY <1>5, <2>1, <3>2, <3>5, <3>6
    <2>3. CASE ~(t = at /\ t < Duration)
        <3>1. z.batches[t] = v.batches[t] /\ (t \in z.pending <=> t \in v.pending)
            BY <1>1, <1>3, <1>10, <2>3 DEF Shortens
        <3>2. Recovery(f) \notin Range(u.batches[t])
            <4>1. ASSUME Recovery(f) \in Range(u.batches[t]) PROVE t = at /\ t < Duration
                BY <1>10, <4>1, Events DEF Shortenable
            <4> QED BY <2>3, <4>1
        <3> HIDE DEF Gone, Gone2
        <3> QED BY <1>5, <2>1, <3>1, <3>2
    <2> QED BY <2>2, <2>3
<1>11. /\ OneByOne(z.batches[time]) /\ Range(z.batches[time]) = Range(u.batches[time]) \cup New2
    <2>1. z.batches[time] = Append(v.batches[time], Recovery(g))
        BY <1>3 DEF Shortens
    <2>2. OneByOne(v.batches[time]) /\ Range(v.batches[time]) = Range(u.batches[time]) \cup New
        BY DEF Cuts
    <2>3. Recovery(g) \notin Range(v.batches[time])
        <3>1. Recovery(g) \notin Range(u.batches[time])
            <4>1. \A e \in Range(u.batches[time]) : e.fault.id # f.id
                BY DEF Shortenable
            <4> QED BY <1>4, <4>1, Events
        <3>2. ASSUME NEW h \in C PROVE Recovery(Shortened(h, time)) # Recovery(g)
            <4>1. h \in Fault /\ h.start < time /\ h.id # f.id
                BY DEF Shortenable
            <4>2. Shortened(h, time).id = h.id
                BY <1>1, <4>1, ShortenedFields
            <4> HIDE DEF g
            <4> QED BY <1>4, <4>1, <4>2, Events
        <3> QED BY <2>2, <3>1, <3>2
    <2>4. OneByOne(z.batches[time]) /\ Range(z.batches[time]) = Range(v.batches[time]) \cup {Recovery(g)}
        <3> DEFINE e == Recovery(g)
                   a == v.batches[time]
                   b == z.batches[time]
        <3>1. a \in Seq(Event) /\ OneByOne(a) /\ e \in Event /\ b = Append(a, e) /\ e \notin Range(a)
            BY <1>1, <1>6, <1>7, <2>1, <2>2, <2>3
        <3> HIDE DEF a, b, e
        <3>2. Plus(b, a, e, Event)
            BY <3>1, AppendOneByOne
        <3>3. OneByOne(b) /\ Range(b) = Range(a) \cup {e}
            BY <3>1, <3>2 DEF Plus
        <3> QED BY <3>3 DEF a, b, e
    <2> HIDE DEF New, New2
    <2> QED BY <1>5, <2>2, <2>4
<1>12. ASSUME NEW k \in DOMAIN z.log
       PROVE  \E j \in DOMAIN u.log : z.log[k].event.fault.id = u.log[j].event.fault.id
    <2>1. k \in DOMAIN v.log
        BY <1>3 DEF Shortens
    <2>2. z.log[k].event = IF v.log[k].event = Start(f) THEN Start(g) ELSE v.log[k].event
        BY <1>3, <2>1 DEF Shortens
    <2>3. z.log[k].event.fault.id = v.log[k].event.fault.id
        <3> HIDE DEF g
        <3> QED BY <1>4, <2>2, Events
    <2> QED BY <2>1, <2>3 DEF Cuts
<1>13. ASSUME NEW j \in DOMAIN u.log, NEW h, h \notin C \cup {f}, u.log[j].event = Start(h)
       PROVE  \E k \in DOMAIN z.log : z.log[k].event = Start(h)
    <2>1. PICK k \in DOMAIN v.log : v.log[k].event = Start(h)
        BY <1>13 DEF Cuts
    <2>2. Start(h) # Start(f)
        BY <1>13, Events
    <2>3. k \in DOMAIN z.log /\ z.log[k].event = Start(h)
        BY <1>3, <2>1, <2>2 DEF Shortens
    <2> QED BY <2>3
<1> QED BY <1>3, <1>8, <1>9, <1>10, <1>11, <1>12, <1>13 DEF Cuts, Shortens

LEMMA ShortenAllCuts ==
    ASSUME ToShorten \in SUBSET Sat, NEW D, D = {Outages[n] : n \in ToShorten},
           Shortenable(ctl, now, D),
           \A n \in ToShorten : Outages[n].node = n,
           NEW z, z = ShortenAll
    PROVE  Cuts(ctl, z, now, D)
<1> DEFINE r == Sorted(ToShorten)
           N == Cardinality(ToShorten)
           Op(v, x) == ShortenGeneratedComputeFault(v, Outages[r[x]], now)
           So(k) == {Outages[r[i]] : i \in 1..k}
           step == [xv \in (1..N) \X Controller |-> Op(xv[2], xv[1])]
           Q == [k \in 0..N |-> {v \in Controller : Cuts(ctl, v, now, So(k))}]
           T == DOMAIN r
           F(g) == [s \in SUBSET T |-> IF s = {} THEN ctl
                                  ELSE LET x == Max(s) IN Op(g[s \ {x}], x)]
           it == CHOOSE g : g = F(g)
<1>1. T = 1..N /\ N \in Nat
    BY SortedLists
<1>2. \A x \in 1..N : \A v \in Controller : step[<<x, v>>] = Op(v, x)
    OBVIOUS
<1>3. ASSUME NEW g PROVE F(g) = [s \in SUBSET T |-> F(g)[s]]
    OBVIOUS
<1>4. ASSUME NEW g, NEW s \in SUBSET T, s # {}, NEW x, x = Max(s)
      PROVE  F(g)[s] = Op(g[s \ {x}], x)
    <2> HIDE DEF Op
    <2> QED BY <1>4
<1>5. ASSUME NEW g PROVE F(g)[{}] = ctl
    OBVIOUS
<1>6. z = it[T]
    BY DEF ShortenAll, FoldLeft, MapThenFoldSet
<1>7. ASSUME NEW k \in 0..N, NEW v
      PROVE  v \in Q[k] <=> v \in Controller /\ Cuts(ctl, v, now, So(k))
    OBVIOUS
<1>8. Q \in [0..N -> SUBSET Controller]
    OBVIOUS
<1>9. ASSUME NEW s \in SUBSET T, s # {}
      PROVE  Max(s) \in s /\ Max(s) \in 1..N /\ s \ {Max(s)} \in SUBSET T
    <2>1. s \in SUBSET (1..N)
        BY <1>1
    <2>2. Max(s) \in s
        BY <1>1, <1>9, <2>1, MaxIn
    <2> QED BY <2>1, <2>2
<1>10. ASSUME NEW x \in 1..N, NEW v \in Controller
       PROVE  Op(v, x) \in Controller
    <2>1. Outages[r[x]] \in Fault /\ now \in Time
        <3>1. r[x] \in ToShorten
            BY <1>1, SortedLists
        <3> HIDE DEF r
        <3> QED BY <3>1 DEF Shortenable
    <2> HIDE DEF r
    <2> QED BY <2>1, ShortenType
<1>11. step \in [(1..N) \X Controller -> Controller]
    <2>1. \A xv \in (1..N) \X Controller : xv[1] \in 1..N /\ xv[2] \in Controller /\ xv = <<xv[1], xv[2]>>
        OBVIOUS
    <2>2. \A xv \in (1..N) \X Controller : step[xv] \in Controller
        <3> HIDE DEF step
        <3> QED BY <1>2, <1>10, <2>1
    <2>3. step = [xv \in (1..N) \X Controller |-> step[xv]]
        OBVIOUS
    <2> HIDE DEF step
    <2> QED BY <2>2, <2>3
<1> HIDE DEF step, F, Q, T, Op, So, r, N
<1>12. ctl \in Q[0]
    <2> DEFINE none == {}
    <2>1. So(0) = none /\ none = {}
        BY DEF So
    <2> HIDE DEF none
    <2>2. Cuts(ctl, ctl, now, none)
        BY <2>1, NothingCut
    <2>3. 0 \in 0..N /\ ctl \in Controller
        BY <1>1, <2>2 DEF Cuts
    <2> QED BY <1>7, <2>1, <2>2, <2>3
<1>13. ASSUME NEW k \in 1..N, NEW v \in Q[k - 1]
       PROVE  step[<<k, v>>] \in Q[k]
    <2> DEFINE f == Outages[r[k]]
               y == Op(v, k)
               C == So(k - 1)
    <2>1. k - 1 \in 0..N /\ k \in 0..N /\ k \in Nat
        BY <1>1
    <2>2. v \in Controller /\ Cuts(ctl, v, now, C)
        BY <1>7, <2>1
    <2>3. /\ \A i \in 1..N : r[i] \in ToShorten
          /\ \A i, j \in 1..N : i # j => r[i] # r[j]
        BY <1>1, SortedLists DEF r, T
    <2>4. f \in D /\ C \subseteq D /\ f \notin C
        <3>1. \A i \in 1..(k - 1) : i \in 1..N /\ i # k
            BY <1>1, <2>1
        <3>2. f \in D /\ \A i \in 1..(k - 1) : Outages[r[i]] \in D /\ Outages[r[i]] # f
            BY <2>3, <3>1
        <3> QED BY <3>2 DEF So
    <2>5. So(k) = C \cup {f}
        <3>1. 1..k = (1..(k - 1)) \cup {k}
            BY <2>1
        <3> QED BY <3>1 DEF So
    <2>6. y = ShortenGeneratedComputeFault(v, f, now)
        BY DEF Op
    <2>7. step[<<k, v>>] = y
        BY <1>2, <2>2
    <2> HIDE DEF f, y, C
    <2>8. Cuts(ctl, y, now, C \cup {f})
        BY <2>2, <2>4, <2>6, CutStep
    <2>9. y \in Controller
        BY <2>8 DEF Cuts
    <2> QED BY <1>7, <2>1, <2>5, <2>7, <2>8, <2>9
<1>14. \E g : g = F(g)
    <2>1. ctl \in Controller
        BY <1>1, <1>7, <1>12
    <2>0. PICK g : IsListFold(g, ctl, step, N, Controller)
        BY <1>1, <1>11, <2>1, ListFold
    <2>2. /\ g = [s \in SUBSET (1..N) |-> g[s]] /\ \A s \in SUBSET (1..N) : g[s] \in Controller
          /\ g[{}] = ctl
          /\ \A s \in SUBSET (1..N) : s # {} =>
                 g[s] = step[<<Max(s), g[s \ {Max(s)}]>>]
        BY <2>0 DEF IsListFold
    <2>3. ASSUME NEW s \in SUBSET T PROVE F(g)[s] = g[s]
        <3>1. CASE s # {}
            <4> DEFINE m == Max(s)
            <4>1. m \in 1..N /\ g[s \ {m}] \in Controller /\ g[s] = step[<<m, g[s \ {m}]>>]
                BY <1>1, <1>9, <2>2, <3>1
            <4>2. F(g)[s] = Op(g[s \ {m}], m)
                BY <1>4, <3>1
            <4> HIDE DEF m
            <4> QED BY <1>2, <4>1, <4>2
        <3>2. CASE s = {}
            BY <1>5, <2>2, <3>2
        <3> QED BY <3>1, <3>2
    <2>4. g = [s \in SUBSET T |-> g[s]]
        BY <1>1, <2>2
    <2>5. F(g) = [s \in SUBSET T |-> F(g)[s]]
        BY <1>3
    <2> QED BY <2>3, <2>4, <2>5
<1>15. it = F(it)
    BY <1>14
<1> HIDE DEF it
<1>16. FoldsList(it, ctl, step, N, Controller)
    <2>1. it[{}] = ctl
        BY <1>5, <1>15
    <2>2. ASSUME NEW s \in SUBSET (1..N), s # {}, it[s \ {Max(s)}] \in Controller
          PROVE  it[s] = step[<<Max(s), it[s \ {Max(s)}]>>]
        <3> DEFINE m == Max(s)
        <3>1. s \in SUBSET T
            BY <1>1
        <3>2. m \in 1..N
            BY <1>9, <2>2, <3>1
        <3>3. F(it)[s] = Op(it[s \ {m}], m)
            BY <1>4, <2>2, <3>1
        <3>4. it[s \ {m}] \in Controller
            BY <2>2
        <3> HIDE DEF m
        <3>5. it[s] = step[<<m, it[s \ {m}]>>]
            BY <1>2, <1>15, <3>2, <3>3, <3>4
        <3> QED BY <3>5 DEF m
    <2> QED BY <2>1, <2>2 DEF FoldsList
<1>17. Leads(Q, ctl, step, N, Controller)
    BY <1>8, <1>12, <1>13 DEF Leads
<1>18. it[T] \in Q[N]
    <2>1. it[1..N] \in Q[N]
        BY <1>1, <1>16, <1>17, ListFoldLeads
    <2> QED BY <1>1, <2>1
<1>19. N \in 0..N /\ So(N) = D
    <2>1. \A i \in 1..N : r[i] \in ToShorten
        BY <1>1, SortedLists DEF r, T
    <2>2. \A n \in ToShorten : \E i \in 1..N : r[i] = n
        BY <1>1, SortedLists DEF r, T
    <2> QED BY <1>1, <2>1, <2>2 DEF So
<1>20. Cuts(ctl, it[T], now, So(N))
    BY <1>7, <1>18, <1>19
<1> QED BY <1>6, <1>19, <1>20

-----------------------------------------------------------------------------
(* Recoveries are scheduled *)

\* The faults of C that recover at t.
Expected(C, t) == {f \in C : f.duration # Forever /\ RecoveryTime(f) = t /\ t < Duration}

\* The faults D are new to the batches ahead, and recover later.
Schedulable(b, time, D) ==
    /\ b \in Controller /\ time \in Time
    /\ \A t \in Time : t >= time => OneByOne(b.batches[t])
    /\ \A f \in D : /\ f \in Fault
                    /\ f.duration # Forever => RecoveryTime(f) > time
                    /\ \A t \in Time : t > time => Recovery(f) \notin Range(b.batches[t])

\* v is b with the recoveries of C.
Schedules(b, v, time, C) ==
    /\ v \in Controller /\ SameFaults(b, v) /\ v.log = b.log
    /\ \A t \in Time : t >= time =>
         /\ OneByOne(v.batches[t])
         /\ Range(v.batches[t]) = Range(b.batches[t]) \cup {Recovery(f) : f \in Expected(C, t)}
    /\ \A t \in Time : t \in v.pending <=> t \in b.pending \/ Expected(C, t) # {}

LEMMA ScheduleType ==
    ASSUME NEW v \in Controller, NEW f \in Fault, NEW z, z = ScheduleRecovery(v, f)
    PROVE  /\ z \in Controller /\ SameFaults(v, z) /\ z.log = v.log
           /\ f.duration = Forever \/ RecoveryTime(f) >= Duration => z = v
           /\ ~(f.duration = Forever \/ RecoveryTime(f) >= Duration) =>
                /\ RecoveryTime(f) \in Time
                /\ z.batches[RecoveryTime(f)] = Append(v.batches[RecoveryTime(f)], Recovery(f))
                /\ \A t \in Time : t # RecoveryTime(f) => z.batches[t] = v.batches[t]
                /\ z.pending = v.pending \cup {RecoveryTime(f)}
<1> DEFINE at == RecoveryTime(f)
           to == Append(v.batches[at], Recovery(f))
<1>1. Fields(v) /\ Typed(v)
    BY ControllerFields
<1>2. CASE f.duration = Forever \/ at >= Duration
    <2>1. z = v
        BY <1>2 DEF ScheduleRecovery
    <2> QED BY <1>2, <2>1 DEF SameFaults
<1>3. CASE ~(f.duration = Forever \/ at >= Duration)
    <2>1. at \in Time
        BY <1>3, FaultFields, DurationAssumption DEF Time
    <2>2. to \in Seq(Event)
        <3>1. v.batches[at] \in Seq(Event) /\ Recovery(f) \in Event
            BY <1>1, <2>1, Events DEF Typed
        <3> QED BY <3>1, AppendProperties
    <2>3. z = [v EXCEPT !.batches[at] = Append(@, Recovery(f)), !.pending = @ \cup {at}]
        BY <1>3 DEF ScheduleRecovery
    <2> DEFINE batched == [v.batches EXCEPT ![at] = to]
    <2>4. z = [active |-> v.active, down |-> v.down, batches |-> batched,
               pending |-> v.pending \cup {at}, processed |-> v.processed, log |-> v.log,
               tasks |-> v.tasks, cut |-> v.cut, admitted |-> v.admitted, failed |-> v.failed]
        BY <1>1, <2>3 DEF Fields
    <2> HIDE DEF to
    <2>5. batched \in [Time -> Seq(Event)] /\ batched[at] = to
          /\ \A t \in Time : t # at => batched[t] = v.batches[t]
        BY <1>1, <2>1, <2>2 DEF Typed
    <2> HIDE DEF batched, at
    <2>6. Fields(z) /\ Typed(z)
        BY <1>1, <2>1, <2>4, <2>5 DEF Fields, Typed
    <2>7. z \in Controller /\ SameFaults(v, z) /\ z.log = v.log
        BY <2>4, <2>6, ControllerFields DEF SameFaults
    <2> QED BY <1>3, <2>1, <2>4, <2>5, <2>7 DEF at, to
<1> QED BY <1>2, <1>3

LEMMA ScheduleStep ==
    ASSUME NEW b, NEW time, NEW D, Schedulable(b, time, D),
           NEW v, NEW C \in SUBSET D, Schedules(b, v, time, C), NEW f \in D \ C,
           NEW z, z = ScheduleRecovery(v, f)
    PROVE  Schedules(b, z, time, C \cup {f})
<1> DEFINE at == RecoveryTime(f)
           C2 == C \cup {f}
<1>1. v \in Controller /\ f \in Fault /\ time \in Time /\ Time \subseteq Nat
    BY DurationAssumption DEF Schedules, Schedulable, Time
<1>2. /\ z \in Controller /\ SameFaults(v, z) /\ z.log = v.log
      /\ f.duration = Forever \/ at >= Duration => z = v
      /\ ~(f.duration = Forever \/ at >= Duration) =>
                /\ at \in Time
                /\ z.batches[at] = Append(v.batches[at], Recovery(f))
                /\ \A t \in Time : t # at => z.batches[t] = v.batches[t]
                /\ z.pending = v.pending \cup {at}
    BY <1>1, ScheduleType
<1>3. SameFaults(b, z) /\ z.log = b.log
    BY <1>2 DEF Schedules, SameFaults
<1>4. ASSUME NEW t \in Time
      PROVE  Expected(C2, t) = IF f.duration # Forever /\ at = t /\ t < Duration
                               THEN Expected(C, t) \cup {f} ELSE Expected(C, t)
    BY DEF Expected
<1>5. ASSUME NEW t \in Time PROVE t \in z.pending <=> t \in b.pending \/ Expected(C2, t) # {}
    <2>1. t \in v.pending <=> t \in b.pending \/ Expected(C, t) # {}
        BY DEF Schedules
    <2>2. CASE f.duration # Forever /\ at = t /\ t < Duration
        <3>1. t \in z.pending
            BY <1>1, <1>2, <2>2, DurationAssumption
        <3> QED BY <1>4, <2>2, <3>1
    <2>3. CASE ~(f.duration # Forever /\ at = t /\ t < Duration)
        <3>1. Expected(C2, t) = Expected(C, t)
            BY <1>4, <2>3
        <3>2. t \in z.pending <=> t \in v.pending
            <4>1. CASE f.duration = Forever \/ at >= Duration
                BY <1>2, <4>1
            <4>2. CASE ~(f.duration = Forever \/ at >= Duration)
                <5>1. at \in Nat /\ Duration \in Nat
                    BY <1>1, FaultFields, DurationAssumption
                <5>2. t # at
                    BY <2>3, <4>2, <5>1
                <5> QED BY <1>2, <4>2, <5>2
            <4> QED BY <4>1, <4>2
        <3> HIDE DEF C2
        <3> QED BY <2>1, <3>1, <3>2
    <2> QED BY <2>2, <2>3
<1>6. ASSUME NEW t \in Time, t >= time
      PROVE  /\ OneByOne(z.batches[t])
             /\ Range(z.batches[t]) = Range(b.batches[t]) \cup {Recovery(g) : g \in Expected(C2, t)}
    <2> DEFINE Old == {Recovery(g) : g \in Expected(C, t)}
               New == {Recovery(g) : g \in Expected(C2, t)}
    <2>1. OneByOne(v.batches[t]) /\ Range(v.batches[t]) = Range(b.batches[t]) \cup Old
        BY <1>6 DEF Schedules
    <2>2. CASE f.duration # Forever /\ at = t /\ t < Duration
        <3>1. z.batches[t] = Append(v.batches[t], Recovery(f)) /\ at > time
            BY <1>1, <1>2, <2>2, DurationAssumption DEF Schedulable
        <3>2. Recovery(f) \notin Range(b.batches[t])
            BY <2>2, <3>1 DEF Schedulable
        <3>3. Recovery(f) \notin Old
            BY Events DEF Expected
        <3>4. New = Old \cup {Recovery(f)}
            <4>1. Expected(C2, t) = Expected(C, t) \cup {f}
                BY <1>4, <2>2
            <4> HIDE DEF C2
            <4> QED BY <4>1
        <3> HIDE DEF Old, New
        <3> DEFINE e == Recovery(f)
                   r == z.batches[t]
                   s == v.batches[t]
        <3>5. s \in Seq(Event) /\ e \in Event /\ r = Append(s, e) /\ OneByOne(s)
            BY <1>1, <2>1, <3>1, ControllerFields, Events DEF Typed
        <3> HIDE DEF e, r, s
        <3>6. Plus(r, s, e, Event)
            BY <3>5, AppendOneByOne
        <3>7. Range(r) = Range(s) \cup {e} /\ (e \notin Range(s) => OneByOne(r))
            BY <3>6 DEF Plus
        <3>8. e \notin Range(s)
            BY <2>1, <3>2, <3>3 DEF e, s
        <3>9. OneByOne(r)
            BY <3>7, <3>8
        <3>10. Range(r) = Range(b.batches[t]) \cup New
            BY <2>1, <3>4, <3>7 DEF e, s
        <3> QED BY <3>9, <3>10 DEF r, New
    <2>3. CASE ~(f.duration # Forever /\ at = t /\ t < Duration)
        <3>1. Expected(C2, t) = Expected(C, t)
            BY <1>4, <2>3
        <3>2. z.batches[t] = v.batches[t]
            <4>1. CASE f.duration = Forever \/ at >= Duration
                BY <1>2, <4>1
            <4>2. CASE ~(f.duration = Forever \/ at >= Duration)
                <5>1. at \in Nat /\ Duration \in Nat
                    BY <1>1, FaultFields, DurationAssumption
                <5>2. t # at
                    BY <2>3, <4>2, <5>1
                <5> QED BY <1>2, <4>2, <5>2
            <4> QED BY <4>1, <4>2
        <3> HIDE DEF C2
        <3> QED BY <2>1, <3>1, <3>2
    <2> QED BY <2>2, <2>3
<1> HIDE DEF C2
<1>7. Schedules(b, z, time, C2)
    BY <1>2, <1>3, <1>5, <1>6 DEF Schedules
<1> QED BY <1>7 DEF C2

\* The faults D as a sequence.
Sequence(faults, D) ==
    /\ \E n \in Nat : DOMAIN faults = 1..n
    /\ D = {faults[i] : i \in DOMAIN faults}
    /\ \A i, j \in DOMAIN faults : i # j => faults[i] # faults[j]

LEMMA ScheduleAll ==
    ASSUME NEW b, NEW time, NEW D, Schedulable(b, time, D), NEW faults, Sequence(faults, D),
           NEW z, z = FoldLeft(ScheduleRecovery, b, faults)
    PROVE  Schedules(b, z, time, D)
<1>0. PICK N \in Nat : DOMAIN faults = 1..N
    BY DEF Sequence
<1> DEFINE Op(v, x) == ScheduleRecovery(v, faults[x])
           So(k) == {faults[i] : i \in 1..k}
           step == [xv \in (1..N) \X Controller |-> Op(xv[2], xv[1])]
           Q == [k \in 0..N |-> {v \in Controller : Schedules(b, v, time, So(k))}]
           T == DOMAIN faults
           F(g) == [s \in SUBSET T |-> IF s = {} THEN b
                                  ELSE LET x == Max(s) IN Op(g[s \ {x}], x)]
           it == CHOOSE g : g = F(g)
<1>1. T = 1..N /\ N \in Nat
    BY <1>0
<1>2. \A x \in 1..N : \A v \in Controller : step[<<x, v>>] = Op(v, x)
    OBVIOUS
<1>3. ASSUME NEW g PROVE F(g) = [s \in SUBSET T |-> F(g)[s]]
    OBVIOUS
<1>4. ASSUME NEW g, NEW s \in SUBSET T, s # {}, NEW x, x = Max(s)
      PROVE  F(g)[s] = Op(g[s \ {x}], x)
    <2> HIDE DEF Op
    <2> QED BY <1>4
<1>5. ASSUME NEW g PROVE F(g)[{}] = b
    OBVIOUS
<1>6. z = it[T]
    BY DEF FoldLeft, MapThenFoldSet
<1>7. ASSUME NEW k \in 0..N, NEW v
      PROVE  v \in Q[k] <=> v \in Controller /\ Schedules(b, v, time, So(k))
    OBVIOUS
<1>8. Q \in [0..N -> SUBSET Controller]
    OBVIOUS
<1>9. ASSUME NEW s \in SUBSET T, s # {}
      PROVE  Max(s) \in s /\ Max(s) \in 1..N /\ s \ {Max(s)} \in SUBSET T
    <2>1. s \in SUBSET (1..N)
        BY <1>1
    <2>2. Max(s) \in s
        BY <1>1, <1>9, <2>1, MaxIn
    <2> QED BY <2>1, <2>2
<1>10. ASSUME NEW x \in 1..N, NEW v \in Controller
       PROVE  Op(v, x) \in Controller
    <2>1. faults[x] \in Fault
        BY <1>1 DEF Sequence, Schedulable
    <2> QED BY <2>1, ScheduleType
<1>11. step \in [(1..N) \X Controller -> Controller]
    <2>1. \A xv \in (1..N) \X Controller : xv[1] \in 1..N /\ xv[2] \in Controller /\ xv = <<xv[1], xv[2]>>
        OBVIOUS
    <2>2. \A xv \in (1..N) \X Controller : step[xv] \in Controller
        <3> HIDE DEF step
        <3> QED BY <1>2, <1>10, <2>1
    <2>3. step = [xv \in (1..N) \X Controller |-> step[xv]]
        OBVIOUS
    <2> HIDE DEF step
    <2> QED BY <2>2, <2>3
<1> HIDE DEF step, F, Q, T, Op, So
<1>12. b \in Q[0]
    <2> DEFINE none == {}
    <2>1. So(0) = none /\ none = {} /\ \A t : Expected(none, t) = {}
        BY DEF So, Expected
    <2> HIDE DEF none
    <2>2. b \in Controller /\ SameFaults(b, b)
        BY DEF Schedulable, SameFaults
    <2>3. ASSUME NEW t \in Time, t >= time
          PROVE  /\ OneByOne(b.batches[t])
                 /\ Range(b.batches[t]) = Range(b.batches[t]) \cup {Recovery(f) : f \in Expected(none, t)}
        <3>1. {Recovery(f) : f \in Expected(none, t)} = {}
            BY <2>1
        <3> QED BY <2>3, <3>1 DEF Schedulable
    <2>4. Schedules(b, b, time, none)
        BY <2>1, <2>2, <2>3 DEF Schedules
    <2>5. 0 \in 0..N
        BY <1>1
    <2> QED BY <1>7, <2>1, <2>2, <2>4, <2>5
<1>13. ASSUME NEW k \in 1..N, NEW v \in Q[k - 1]
       PROVE  step[<<k, v>>] \in Q[k]
    <2> DEFINE f == faults[k]
               y == Op(v, k)
               C == So(k - 1)
    <2>1. k - 1 \in 0..N /\ k \in 0..N /\ k \in Nat
        BY <1>1
    <2>2. v \in Controller /\ Schedules(b, v, time, C)
        BY <1>7, <2>1
    <2>3. /\ \A i \in 1..N : faults[i] \in D
          /\ \A i, j \in 1..N : i # j => faults[i] # faults[j]
        BY <1>1 DEF T, Sequence
    <2>4. f \in D /\ C \subseteq D /\ f \notin C
        <3>1. \A i \in 1..(k - 1) : i \in 1..N /\ i # k
            BY <1>1, <2>1
        <3>2. f \in D /\ \A i \in 1..(k - 1) : faults[i] \in D /\ faults[i] # f
            BY <2>3, <3>1
        <3> QED BY <3>2 DEF So
    <2>5. So(k) = C \cup {f}
        <3>1. 1..k = (1..(k - 1)) \cup {k}
            BY <2>1
        <3> QED BY <3>1 DEF So
    <2>6. y = ScheduleRecovery(v, f)
        BY DEF Op
    <2>7. step[<<k, v>>] = y
        BY <1>2, <2>2
    <2> HIDE DEF f, y, C
    <2>8. Schedules(b, y, time, C \cup {f})
        BY <2>2, <2>4, <2>6, ScheduleStep
    <2>9. y \in Controller
        BY <2>8 DEF Schedules
    <2> QED BY <1>7, <2>1, <2>5, <2>7, <2>8, <2>9
<1>14. \E g : g = F(g)
    <2>1. b \in Controller
        BY <1>1, <1>7, <1>12
    <2>0. PICK g : IsListFold(g, b, step, N, Controller)
        BY <1>1, <1>11, <2>1, ListFold
    <2>2. /\ g = [s \in SUBSET (1..N) |-> g[s]] /\ \A s \in SUBSET (1..N) : g[s] \in Controller
          /\ g[{}] = b
          /\ \A s \in SUBSET (1..N) : s # {} =>
                 g[s] = step[<<Max(s), g[s \ {Max(s)}]>>]
        BY <2>0 DEF IsListFold
    <2>3. ASSUME NEW s \in SUBSET T PROVE F(g)[s] = g[s]
        <3>1. CASE s # {}
            <4> DEFINE m == Max(s)
            <4>1. m \in 1..N /\ g[s \ {m}] \in Controller /\ g[s] = step[<<m, g[s \ {m}]>>]
                BY <1>1, <1>9, <2>2, <3>1
            <4>2. F(g)[s] = Op(g[s \ {m}], m)
                BY <1>4, <3>1
            <4> HIDE DEF m
            <4> QED BY <1>2, <4>1, <4>2
        <3>2. CASE s = {}
            BY <1>5, <2>2, <3>2
        <3> QED BY <3>1, <3>2
    <2>4. g = [s \in SUBSET T |-> g[s]]
        BY <1>1, <2>2
    <2>5. F(g) = [s \in SUBSET T |-> F(g)[s]]
        BY <1>3
    <2> QED BY <2>3, <2>4, <2>5
<1>15. it = F(it)
    BY <1>14
<1> HIDE DEF it
<1>16. FoldsList(it, b, step, N, Controller)
    <2>1. it[{}] = b
        BY <1>5, <1>15
    <2>2. ASSUME NEW s \in SUBSET (1..N), s # {}, it[s \ {Max(s)}] \in Controller
          PROVE  it[s] = step[<<Max(s), it[s \ {Max(s)}]>>]
        <3> DEFINE m == Max(s)
        <3>1. s \in SUBSET T
            BY <1>1
        <3>2. m \in 1..N
            BY <1>9, <2>2, <3>1
        <3>3. F(it)[s] = Op(it[s \ {m}], m)
            BY <1>4, <2>2, <3>1
        <3>4. it[s \ {m}] \in Controller
            BY <2>2
        <3> HIDE DEF m
        <3>5. it[s] = step[<<m, it[s \ {m}]>>]
            BY <1>2, <1>15, <3>2, <3>3, <3>4
        <3> QED BY <3>5 DEF m
    <2> QED BY <2>1, <2>2 DEF FoldsList
<1>17. Leads(Q, b, step, N, Controller)
    BY <1>8, <1>12, <1>13 DEF Leads
<1>18. it[T] \in Q[N]
    <2>1. it[1..N] \in Q[N]
        BY <1>1, <1>16, <1>17, ListFoldLeads
    <2> QED BY <1>1, <2>1
<1>19. N \in 0..N /\ So(N) = D
    BY <1>1 DEF So, T, Sequence
<1>20. Schedules(b, it[T], time, So(N))
    BY <1>7, <1>18, <1>19
<1> QED BY <1>6, <1>19, <1>20

-----------------------------------------------------------------------------
(* A batch runs *)

\* What a fault's start or end leaves alone.
SameBatches(v, d) ==
    /\ d.batches = v.batches /\ d.pending = v.pending /\ d.processed = v.processed
    /\ d.tasks = v.tasks /\ d.cut = v.cut /\ d.admitted = v.admitted

Updated(v, n, id, kind) == [v EXCEPT !.active[n] = id, !.down[n] = kind]

Logged(d, entry) == [d EXCEPT !.log = Append(d.log, entry)]

LEMMA FaultApplied ==
    ASSUME NEW v \in Controller, NEW f \in Fault, NEW id \in Nat, NEW kind \in FaultKind,
           NEW d, d = Updated(v, f.node, id, kind)
    PROVE  /\ d \in Controller /\ SameBatches(v, d) /\ d.log = v.log /\ d.failed = v.failed
           /\ d.active[f.node] = id /\ d.down[f.node] = kind
           /\ \A n \in Sat \ {f.node} : d.active[n] = v.active[n] /\ d.down[n] = v.down[n]
<1> DEFINE a == [v.active EXCEPT ![f.node] = id]
           b == [v.down EXCEPT ![f.node] = kind]
<1>1. Fields(v) /\ Typed(v)
    BY ControllerFields
<1>2. f.node \in Sat
    BY FaultFields
<1>3. /\ a \in [Sat -> Nat] /\ b \in [Sat -> FaultKind] /\ a[f.node] = id /\ b[f.node] = kind
      /\ \A n \in Sat \ {f.node} : a[n] = v.active[n] /\ b[n] = v.down[n]
    BY <1>1, <1>2 DEF Typed
<1>4. d = [active |-> a, down |-> b, batches |-> v.batches,
           pending |-> v.pending, processed |-> v.processed, log |-> v.log,
           tasks |-> v.tasks, cut |-> v.cut, admitted |-> v.admitted, failed |-> v.failed]
    BY <1>1 DEF Fields, Updated
<1> HIDE DEF a, b
<1>5. Fields(d) /\ Typed(d)
    BY <1>1, <1>3, <1>4 DEF Fields, Typed
<1>6. d \in Controller
    BY <1>5, ControllerFields
<1> QED BY <1>3, <1>4, <1>6 DEF SameBatches

\* The event that ends a fault, or starts it, as it is applied.
Runs(v, e, id, kind) ==
    \/ e.type = "RECOVERY" /\ v.active[e.fault.node] = e.fault.id /\ id = NoFault /\ kind = "none"
    \/ /\ e.type = "START" /\ v.active[e.fault.node] = NoFault
       /\ \A n \in Sat : v.active[n] # e.fault.id
       /\ id = e.fault.id /\ kind = e.fault.kind

Applies(v, z, e, id, kind) ==
    /\ z \in Controller /\ SameBatches(v, z) /\ z.failed = v.failed
    /\ z.active[e.fault.node] = id /\ z.down[e.fault.node] = kind
    /\ \A n \in Sat \ {e.fault.node} : z.active[n] = v.active[n] /\ z.down[n] = v.down[n]
    /\ \E entry \in Entry : entry.event = e /\ z.log = Append(v.log, entry)

LEMMA Logs ==
    ASSUME NEW d \in Controller, NEW entry \in Entry,
           NEW z, z = Logged(d, entry)
    PROVE  /\ z \in Controller /\ SameBatches(d, z) /\ z.failed = d.failed
           /\ z.active = d.active /\ z.down = d.down /\ z.log = Append(d.log, entry)
<1>1. Fields(d) /\ Typed(d)
    BY ControllerFields
<1> DEFINE l == Append(d.log, entry)
<1>2. l \in Seq(Entry)
    BY <1>1, AppendProperties DEF Typed
<1>3. z = [active |-> d.active, down |-> d.down, batches |-> d.batches,
           pending |-> d.pending, processed |-> d.processed, log |-> l,
           tasks |-> d.tasks, cut |-> d.cut, admitted |-> d.admitted, failed |-> d.failed]
    BY <1>1 DEF Fields, Logged
<1> HIDE DEF l
<1>4. Fields(z) /\ Typed(z)
    BY <1>1, <1>2, <1>3 DEF Fields, Typed
<1>5. z \in Controller
    BY <1>4, ControllerFields
<1> QED BY <1>3, <1>5 DEF SameBatches, l

LEMMA EventEntry ==
    ASSUME NEW d \in Controller, NEW e \in Event, NEW time \in Time,
           NEW z, z = [d EXCEPT !.log = Append(@, [at |-> time, event |-> e,
                                                   down |-> d.down[e.fault.node]])]
    PROVE  \E entry \in Entry : entry.event = e /\ z = Logged(d, entry)
<1> DEFINE entry == [at |-> time, event |-> e, down |-> d.down[e.fault.node]]
<1>1. d.down[e.fault.node] \in FaultKind
    <2>1. d.down \in [Sat -> FaultKind]
        BY ControllerFields DEF Typed
    <2>2. e.fault.node \in Sat
        BY Events, FaultFields
    <2> QED BY <2>1, <2>2
<1>2. entry \in Entry /\ entry.event = e
    BY <1>1 DEF Entry
<1>3. z = Logged(d, entry)
    BY DEF Logged
<1> HIDE DEF entry
<1> QED BY <1>2, <1>3

LEMMA ApplyEventType ==
    ASSUME NEW v \in Controller, NEW e \in Event, NEW time \in Time
    PROVE  /\ ApplyEvent(v, e, time) \in Controller
           /\ \A id, kind : Runs(v, e, id, kind) => Applies(v, ApplyEvent(v, e, time), e, id, kind)
<1> DEFINE f == e.fault
           d == IF e.type = "RECOVERY" THEN RecoverFault(v, f) ELSE StartFault(v, f)
           z == ApplyEvent(v, e, time)
<1>1. f \in Fault /\ (e.type # "RECOVERY" => e.type = "START")
    BY Events
<1>2. f.node \in Sat /\ f.id \in Nat /\ f.kind \in FaultKind /\ f.id # NoFault
    BY <1>1, FaultFields DEF FaultKind, NoFault
<1>3. NoFault \in Nat /\ "none" \in FaultKind
    BY DEF NoFault, FaultKind
<1> DEFINE none == "none"
<1>4. none \in FaultKind
    BY <1>3
<1>5. d \in Controller
    <2>1. [v EXCEPT !.failed = TRUE] \in Controller
        BY Fails
    <2>2. Updated(v, f.node, NoFault, none) \in Controller
        <3> HIDE DEF f, none
        <3> QED BY <1>1, <1>3, <1>4, FaultApplied
    <2>3. Updated(v, f.node, f.id, f.kind) \in Controller
        <3> HIDE DEF f
        <3> QED BY <1>1, <1>2, FaultApplied
    <2>4. RecoverFault(v, f) \in Controller
        BY <2>1, <2>2 DEF RecoverFault, Updated
    <2>5. StartFault(v, f) \in Controller
        BY <2>1, <2>3 DEF StartFault, Updated
    <2> QED BY <2>4, <2>5
<1>6. z = [d EXCEPT !.log = Append(@, [at |-> time, event |-> e, down |-> d.down[e.fault.node]])]
    BY DEF ApplyEvent
<1> HIDE DEF d, z
<1>7. PICK entry \in Entry : entry.event = e /\ z = Logged(d, entry)
    BY <1>5, <1>6, EventEntry
<1>8. /\ z \in Controller /\ SameBatches(d, z) /\ z.failed = d.failed
      /\ z.active = d.active /\ z.down = d.down /\ z.log = Append(d.log, entry)
    BY <1>5, <1>7, Logs
<1>9. ASSUME NEW id, NEW kind, Runs(v, e, id, kind) PROVE Applies(v, z, e, id, kind)
    <2>1. d = Updated(v, f.node, id, kind)
        <3>1. CASE e.type = "RECOVERY"
            <4>1. v.active[f.node] = f.id /\ id = NoFault /\ kind = "none"
                BY <1>9, <3>1 DEF Runs
            <4> QED BY <3>1, <4>1 DEF d, RecoverFault, Updated
        <3>2. CASE e.type # "RECOVERY"
            <4>1. v.active[f.node] = NoFault /\ ~(\E n \in Sat : v.active[n] = f.id)
                  /\ id = f.id /\ kind = f.kind
                BY <1>9, <3>2 DEF Runs
            <4> QED BY <3>2, <4>1 DEF d, StartFault, Updated
        <3> QED BY <3>1, <3>2
    <2>2. id \in Nat /\ kind \in FaultKind
        BY <1>2, <1>3, <1>9 DEF Runs
    <2> HIDE DEF f
    <2>3. /\ SameBatches(v, d) /\ d.log = v.log /\ d.failed = v.failed
          /\ d.active[f.node] = id /\ d.down[f.node] = kind
          /\ \A n \in Sat \ {f.node} : d.active[n] = v.active[n] /\ d.down[n] = v.down[n]
        BY <1>1, <2>1, <2>2, FaultApplied
    <2>4. SameBatches(v, z)
        BY <1>8, <2>3 DEF SameBatches
    <2> QED BY <1>7, <1>8, <2>3, <2>4 DEF Applies, f
<1> QED BY <1>8, <1>9 DEF z

\* The events B can run on the controller b: who recovers is down, who starts
\* is not down or recovers, and neither happens twice.
Runnable(b, B) ==
    /\ b \in Controller /\ B \in SUBSET Event
    /\ \A n \in Sat : b.active[n] = NoFault <=> b.down[n] = "none"
    /\ \A e \in B : e.type = "RECOVERY" =>
         b.down[e.fault.node] = "compute" /\ b.active[e.fault.node] = e.fault.id
    /\ \A x, y \in B : x # y /\ x.type = y.type =>
         x.fault.node # y.fault.node /\ x.fault.id # y.fault.id
    /\ \A e \in B : e.type = "START" =>
         /\ \/ b.down[e.fault.node] = "none"
            \/ \E x \in B : x.type = "RECOVERY" /\ x.fault.node = e.fault.node
         /\ \A n \in Sat : b.active[n] # e.fault.id
         /\ e.fault.kind = "compute" => e.fault.node \in Server

\* v is b after the events D, in the faults of each node and in the log.
Ran(b, v, D) ==
    /\ v \in Controller /\ SameBatches(b, v) /\ v.failed = b.failed
    /\ \A e \in D : e.type = "START" =>
         v.active[e.fault.node] = e.fault.id /\ v.down[e.fault.node] = e.fault.kind
    /\ \A e \in D : e.type = "RECOVERY" =>
         \/ \E x \in D : x.type = "START" /\ x.fault.node = e.fault.node
         \/ v.active[e.fault.node] = NoFault /\ v.down[e.fault.node] = "none"
    /\ \A n \in Sat : (\A e \in D : e.fault.node # n) =>
         v.active[n] = b.active[n] /\ v.down[n] = b.down[n]
    /\ \A k \in DOMAIN v.log :
         v.log[k].event \in D \/ \E j \in DOMAIN b.log : v.log[k].event = b.log[j].event
    /\ \A j \in DOMAIN b.log : \E k \in DOMAIN v.log : v.log[k].event = b.log[j].event
    /\ \A e \in D : \E k \in DOMAIN v.log : v.log[k].event = e

\* Recoveries come first.
Prefix(D, B) ==
    /\ D \subseteq B
    /\ (\E e \in D : e.type = "START") => \A x \in B : x.type = "RECOVERY" => x \in D

LEMMA RunStep ==
    ASSUME NEW b, NEW B, Runnable(b, B), NEW D, Prefix(D, B), NEW v, Ran(b, v, D),
           NEW e \in B, e \notin D, Prefix(D \cup {e}, B), NEW time \in Time,
           NEW z, z = ApplyEvent(v, e, time)
    PROVE  Ran(b, z, D \cup {e})
<1> DEFINE n == e.fault.node
           id == IF e.type = "RECOVERY" THEN NoFault ELSE e.fault.id
           kind == IF e.type = "RECOVERY" THEN "none" ELSE e.fault.kind
           D2 == D \cup {e}
<1>1. /\ e \in Event /\ v \in Controller /\ D \subseteq B /\ B \subseteq Event
      /\ e.fault \in Fault /\ n \in Sat /\ e.type \in {"RECOVERY", "START"}
      /\ "RECOVERY" # "START"
    <2>1. e \in Event /\ v \in Controller /\ D \subseteq B /\ B \subseteq Event
        BY DEF Runnable, Ran, Prefix
    <2>2. e.fault \in Fault /\ e.type \in {"RECOVERY", "START"}
        BY <2>1, Events
    <2> QED BY <2>1, <2>2, FaultFields
<1>2. \A x \in D : x.type = e.type => x.fault.node # n /\ x.fault.id # e.fault.id
    <2>1. \A x \in D : x \in B /\ x # e
        BY <1>1
    <2> QED BY <2>1 DEF Runnable
<1>3. Runs(v, e, id, kind)
    <2>1. CASE e.type = "RECOVERY"
        <3>1. \A x \in D : x.type = "RECOVERY"
            <4> SUFFICES ASSUME NEW x \in D, x.type # "RECOVERY" PROVE FALSE
                OBVIOUS
            <4>1. x.type = "START"
                BY <1>1, Events
            <4>2. e \in D
                BY <2>1, <4>1 DEF Prefix
            <4> QED BY <4>2
        <3>2. \A x \in D : x.fault.node # n
            BY <1>2, <2>1, <3>1
        <3>3. v.active[n] = b.active[n]
            BY <1>1, <3>2 DEF Ran
        <3>4. b.active[n] = e.fault.id
            BY <2>1 DEF Runnable
        <3> QED BY <2>1, <3>3, <3>4 DEF Runs
    <2>2. CASE e.type = "START"
        <3>1. \A x \in B : x.type = "RECOVERY" => x \in D
            <4>1. \A x \in B : x.type = "RECOVERY" => x \in D \cup {e}
                BY <2>2 DEF Prefix
            <4> QED BY <1>1, <2>2, <4>1
        <3>2. \A x \in D : x.type = "START" => x.fault.node # n
            BY <1>2, <2>2
        <3>3. v.active[n] = NoFault
            <4>1. CASE \E x \in B : x.type = "RECOVERY" /\ x.fault.node = n
                <5>1. PICK x \in B : x.type = "RECOVERY" /\ x.fault.node = n
                    BY <4>1
                <5>2. x \in D
                    BY <3>1, <5>1
                <5>3. \/ \E y \in D : y.type = "START" /\ y.fault.node = x.fault.node
                      \/ v.active[x.fault.node] = NoFault
                    BY <5>1, <5>2 DEF Ran
                <5> QED BY <3>2, <5>1, <5>3
            <4>2. CASE \A x \in B : ~(x.type = "RECOVERY" /\ x.fault.node = n)
                <5>1. \A x \in D : x.fault.node # n
                    <6>1. \A x \in D : x \in B /\ x.type \in {"RECOVERY", "START"}
                        BY <1>1, Events
                    <6> QED BY <3>2, <4>2, <6>1
                <5>2. v.active[n] = b.active[n]
                    BY <1>1, <5>1 DEF Ran
                <5>3. b.down[n] = "none"
                    BY <2>2, <4>2 DEF Runnable
                <5>4. b.active[n] = NoFault
                    BY <1>1, <5>3 DEF Runnable
                <5> QED BY <5>2, <5>4
            <4> QED BY <4>1, <4>2
        <3>4. ASSUME NEW m \in Sat PROVE v.active[m] # e.fault.id
            <4>1. CASE \E x \in D : x.type = "START" /\ x.fault.node = m
                <5>1. PICK x \in D : x.type = "START" /\ x.fault.node = m
                    BY <4>1
                <5>2. v.active[m] = x.fault.id
                    BY <5>1 DEF Ran
                <5> QED BY <1>2, <2>2, <5>1, <5>2
            <4>2. CASE \A x \in D : ~(x.type = "START" /\ x.fault.node = m)
                <5>1. CASE \E x \in D : x.fault.node = m
                    <6>1. PICK x \in D : x.fault.node = m
                        BY <5>1
                    <6>2. x.type = "RECOVERY"
                        BY <1>1, <4>2, <6>1, Events
                    <6>3. v.active[m] = NoFault
                        BY <4>2, <6>1, <6>2 DEF Ran
                    <6>4. e.fault.id # NoFault
                        BY <1>1, FaultFields DEF NoFault
                    <6> QED BY <6>3, <6>4
                <5>2. CASE \A x \in D : x.fault.node # m
                    <6>1. v.active[m] = b.active[m]
                        BY <5>2 DEF Ran
                    <6>2. b.active[m] # e.fault.id
                        BY <2>2 DEF Runnable
                    <6> QED BY <6>1, <6>2
                <5> QED BY <5>1, <5>2
            <4> QED BY <4>1, <4>2
        <3> QED BY <1>1, <2>2, <3>3, <3>4 DEF Runs
    <2> QED BY <1>1, <2>1, <2>2
<1> HIDE DEF id, kind
<1>4. Applies(v, z, e, id, kind)
    BY <1>1, <1>3, ApplyEventType
<1>5. PICK entry \in Entry : entry.event = e /\ z.log = Append(v.log, entry)
    BY <1>4 DEF Applies
<1>6. /\ DOMAIN z.log = DOMAIN v.log \cup {Len(v.log) + 1} /\ Len(v.log) + 1 \notin DOMAIN v.log
      /\ \A k \in DOMAIN v.log : z.log[k] = v.log[k]
      /\ z.log[Len(v.log) + 1] = entry
    <2>1. v.log \in Seq(Entry)
        BY <1>1, ControllerFields DEF Typed
    <2>2. /\ Append(v.log, entry) \in Seq(Entry)
          /\ Len(Append(v.log, entry)) = Len(v.log) + 1 /\ Len(v.log) \in Nat
          /\ DOMAIN v.log = 1..Len(v.log)
          /\ \A k \in 1..Len(v.log) : Append(v.log, entry)[k] = v.log[k]
          /\ Append(v.log, entry)[Len(v.log) + 1] = entry
        BY <2>1, AppendProperties, LenProperties
    <2>3. DOMAIN Append(v.log, entry) = 1..(Len(v.log) + 1)
        BY <2>2, LenProperties
    <2>4. 1..(Len(v.log) + 1) = (1..Len(v.log)) \cup {Len(v.log) + 1}
          /\ Len(v.log) + 1 \notin 1..Len(v.log)
        BY <2>2
    <2> QED BY <1>5, <2>2, <2>3, <2>4
<1>7. z \in Controller /\ SameBatches(b, z) /\ z.failed = b.failed
    BY <1>4 DEF Applies, Ran, SameBatches
<1>8. /\ z.active[n] = id /\ z.down[n] = kind
      /\ \A m \in Sat \ {n} : z.active[m] = v.active[m] /\ z.down[m] = v.down[m]
    BY <1>4 DEF Applies
<1>9. ASSUME NEW x \in D2, x.type = "START"
      PROVE  z.active[x.fault.node] = x.fault.id /\ z.down[x.fault.node] = x.fault.kind
    <2>1. CASE x = e
        BY <1>1, <1>8, <1>9, <2>1 DEF id, kind
    <2>2. CASE x \in D
        <3>1. x.fault.node \in Sat
            BY <1>1, <2>2, Events, FaultFields
        <3>2. v.active[x.fault.node] = x.fault.id /\ v.down[x.fault.node] = x.fault.kind
            BY <1>9, <2>2 DEF Ran
        <3>3. x.fault.node # n
            <4>1. CASE e.type = "START"
                BY <1>2, <1>9, <2>2, <4>1
            <4>2. CASE e.type = "RECOVERY"
                <5>1. e \in D
                    BY <1>9, <2>2, <4>2 DEF Prefix
                <5> QED BY <5>1
            <4> QED BY <1>1, <4>1, <4>2
        <3> QED BY <1>8, <3>1, <3>2, <3>3
    <2> QED BY <2>1, <2>2
<1>10. ASSUME NEW x \in D2, x.type = "RECOVERY"
       PROVE  \/ \E y \in D2 : y.type = "START" /\ y.fault.node = x.fault.node
              \/ z.active[x.fault.node] = NoFault /\ z.down[x.fault.node] = "none"
    <2>1. CASE x = e
        BY <1>8, <1>10, <2>1 DEF id, kind
    <2>2. CASE x \in D
        <3>1. x.fault.node \in Sat
            BY <1>1, <2>2, Events, FaultFields
        <3>2. \/ \E y \in D : y.type = "START" /\ y.fault.node = x.fault.node
              \/ v.active[x.fault.node] = NoFault /\ v.down[x.fault.node] = "none"
            BY <1>10, <2>2 DEF Ran
        <3>3. CASE x.fault.node = n
            <4>1. e.type = "START"
                BY <1>1, <1>2, <1>10, <2>2, <3>3
            <4>2. e \in D2
                OBVIOUS
            <4> QED BY <3>3, <4>1, <4>2
        <3>4. CASE x.fault.node # n
            <4>1. D \subseteq D2
                OBVIOUS
            <4> QED BY <1>8, <3>1, <3>2, <3>4, <4>1
        <3> QED BY <3>3, <3>4
    <2> QED BY <2>1, <2>2
<1>11. ASSUME NEW m \in Sat, \A x \in D2 : x.fault.node # m
       PROVE  z.active[m] = b.active[m] /\ z.down[m] = b.down[m]
    <2>1. m # n /\ \A x \in D : x.fault.node # m
        BY <1>11
    <2>2. v.active[m] = b.active[m] /\ v.down[m] = b.down[m]
        BY <2>1 DEF Ran
    <2> QED BY <1>8, <2>1, <2>2
<1>12. ASSUME NEW k \in DOMAIN z.log
       PROVE  z.log[k].event \in D2 \/ \E j \in DOMAIN b.log : z.log[k].event = b.log[j].event
    <2>1. CASE k \in DOMAIN v.log
        BY <1>6, <2>1 DEF Ran
    <2>2. CASE k = Len(v.log) + 1
        BY <1>5, <1>6, <2>2
    <2> QED BY <1>6, <2>1, <2>2
<1>13. \A j \in DOMAIN b.log : \E k \in DOMAIN z.log : z.log[k].event = b.log[j].event
    BY <1>6 DEF Ran
<1>14. \A x \in D2 : \E k \in DOMAIN z.log : z.log[k].event = x
    <2>1. \A x \in D : \E k \in DOMAIN v.log : v.log[k].event = x
        BY DEF Ran
    <2>2. \A x \in D : \E k \in DOMAIN z.log : z.log[k].event = x
        BY <1>6, <2>1
    <2>3. \E k \in DOMAIN z.log : z.log[k].event = e
        BY <1>5, <1>6
    <2> QED BY <2>2, <2>3
<1> HIDE DEF D2
<1>15. Ran(b, z, D2)
    BY <1>7, <1>9, <1>10, <1>11, <1>12, <1>13, <1>14 DEF Ran
<1> QED BY <1>15 DEF D2

EventsBelow(B) == [x \in B |-> {y \in B : EventBefore(y, x)}]

LEMMA RunsAll ==
    ASSUME NEW b, NEW B, Runnable(b, B), NEW time \in Time,
           NEW below, below = EventsBelow(B), NEW r, Lists(r, B, below),
           NEW z, z = ApplyEvents(b, r, time)
    PROVE  Ran(b, z, B)
<1>0. /\ DOMAIN r = 1..Cardinality(B) /\ Cardinality(B) \in Nat
      /\ \A i \in DOMAIN r : r[i] \in B
      /\ \A x \in B : \E i \in DOMAIN r : r[i] = x
      /\ \A i, j \in DOMAIN r : i # j => r[i] # r[j]
      /\ \A i, j \in DOMAIN r : r[i] \in below[r[j]] <=> i < j
    BY DEF Lists
<1> DEFINE N == Cardinality(B)
           Op(v, x) == ApplyEvent(v, r[x], time)
           So(k) == {r[i] : i \in 1..k}
           step == [xv \in (1..N) \X Controller |-> Op(xv[2], xv[1])]
           Q == [k \in 0..N |-> {v \in Controller : Ran(b, v, So(k))}]
           T == DOMAIN r
           F(g) == [s \in SUBSET T |-> IF s = {} THEN b
                                  ELSE LET x == Max(s) IN Op(g[s \ {x}], x)]
           it == CHOOSE g : g = F(g)
<1>1. T = 1..N /\ N \in Nat
    BY <1>0
<1>2. \A x \in 1..N : \A v \in Controller : step[<<x, v>>] = Op(v, x)
    OBVIOUS
<1>3. ASSUME NEW g PROVE F(g) = [s \in SUBSET T |-> F(g)[s]]
    OBVIOUS
<1>4. ASSUME NEW g, NEW s \in SUBSET T, s # {}, NEW x, x = Max(s)
      PROVE  F(g)[s] = Op(g[s \ {x}], x)
    <2> HIDE DEF Op
    <2> QED BY <1>4
<1>5. ASSUME NEW g PROVE F(g)[{}] = b
    OBVIOUS
<1>6. z = it[T]
    BY DEF ApplyEvents, FoldLeft, MapThenFoldSet
<1>7. ASSUME NEW k \in 0..N, NEW v
      PROVE  v \in Q[k] <=> v \in Controller /\ Ran(b, v, So(k))
    OBVIOUS
<1>8. Q \in [0..N -> SUBSET Controller]
    OBVIOUS
<1>9. ASSUME NEW s \in SUBSET T, s # {}
      PROVE  Max(s) \in s /\ Max(s) \in 1..N /\ s \ {Max(s)} \in SUBSET T
    <2>1. s \in SUBSET (1..N)
        BY <1>1
    <2>2. Max(s) \in s
        BY <1>1, <1>9, <2>1, MaxIn
    <2> QED BY <2>1, <2>2
<1>10. ASSUME NEW x \in 1..N, NEW v \in Controller
       PROVE  Op(v, x) \in Controller
    <2>1. r[x] \in Event
        BY <1>0, <1>1 DEF Runnable
    <2> QED BY <2>1, ApplyEventType
<1>11. step \in [(1..N) \X Controller -> Controller]
    <2>1. \A xv \in (1..N) \X Controller : xv[1] \in 1..N /\ xv[2] \in Controller /\ xv = <<xv[1], xv[2]>>
        OBVIOUS
    <2>2. \A xv \in (1..N) \X Controller : step[xv] \in Controller
        <3> HIDE DEF step
        <3> QED BY <1>2, <1>10, <2>1
    <2>3. step = [xv \in (1..N) \X Controller |-> step[xv]]
        OBVIOUS
    <2> HIDE DEF step
    <2> QED BY <2>2, <2>3
<1> HIDE DEF step, F, Q, T, Op, So
<1>12. b \in Q[0]
    <2> DEFINE none == {}
    <2>1. So(0) = none /\ none = {}
        BY DEF So
    <2> HIDE DEF none
    <2>2. b \in Controller /\ SameBatches(b, b)
        BY DEF Runnable, SameBatches
    <2>3. Ran(b, b, none)
        BY <2>1, <2>2 DEF Ran
    <2>4. 0 \in 0..N
        BY <1>1
    <2> QED BY <1>7, <2>1, <2>2, <2>3, <2>4
<1>13. ASSUME NEW k \in 1..N, NEW v \in Q[k - 1]
       PROVE  step[<<k, v>>] \in Q[k]
    <2> DEFINE e == r[k]
               y == Op(v, k)
               D == So(k - 1)
    <2>1. k - 1 \in 0..N /\ k \in 0..N /\ k \in Nat /\ k \in DOMAIN r
        BY <1>1 DEF T
    <2>2. v \in Controller /\ Ran(b, v, D)
        BY <1>7, <2>1
    <2>3. \A i \in 1..(k - 1) : i \in DOMAIN r /\ i # k /\ i < k
        BY <1>1, <2>1 DEF T
    <2>4. e \in B /\ D \subseteq B /\ e \notin D
        BY <1>0, <2>1, <2>3 DEF So
    <2>5. So(k) = D \cup {e}
        <3>1. 1..k = (1..(k - 1)) \cup {k}
            BY <2>1
        <3> QED BY <3>1 DEF So
    <2>6. ASSUME NEW m \in 0..N PROVE Prefix(So(m), B)
        <3>1. \A i \in 1..m : i \in DOMAIN r /\ i <= m
            BY <1>1, <2>6 DEF T
        <3>2. So(m) \subseteq B
            BY <1>0, <3>1 DEF So
        <3>3. ASSUME NEW u \in So(m), u.type = "START", NEW x \in B, x.type = "RECOVERY"
              PROVE  x \in So(m)
            <4>1. PICK i \in 1..m : u = r[i]
                BY DEF So
            <4>2. PICK j \in DOMAIN r : x = r[j]
                BY <1>0
            <4>3. x \in below[u]
                <5>1. u \in B /\ EventBefore(x, u)
                    BY <3>2, <3>3 DEF EventBefore
                <5> QED BY <5>1 DEF EventsBelow
            <4>4. j < i
                BY <1>0, <3>1, <4>1, <4>2, <4>3
            <4>5. j \in 1..m
                BY <1>1, <3>1, <4>2, <4>4 DEF T
            <4> QED BY <4>2, <4>5 DEF So
        <3> QED BY <3>2, <3>3 DEF Prefix
    <2>7. Prefix(D, B) /\ Prefix(D \cup {e}, B)
        BY <2>1, <2>5, <2>6
    <2>8. y = ApplyEvent(v, e, time)
        BY DEF Op
    <2>9. step[<<k, v>>] = y
        BY <1>2, <2>2
    <2> HIDE DEF e, y, D
    <2>10. Ran(b, y, D \cup {e})
        BY <2>2, <2>4, <2>7, <2>8, RunStep
    <2>11. y \in Controller
        BY <2>10 DEF Ran
    <2> QED BY <1>7, <2>1, <2>5, <2>9, <2>10, <2>11
<1>14. \E g : g = F(g)
    <2>1. b \in Controller
        BY <1>1, <1>7, <1>12
    <2>0. PICK g : IsListFold(g, b, step, N, Controller)
        BY <1>1, <1>11, <2>1, ListFold
    <2>2. /\ g = [s \in SUBSET (1..N) |-> g[s]] /\ \A s \in SUBSET (1..N) : g[s] \in Controller
          /\ g[{}] = b
          /\ \A s \in SUBSET (1..N) : s # {} =>
                 g[s] = step[<<Max(s), g[s \ {Max(s)}]>>]
        BY <2>0 DEF IsListFold
    <2>3. ASSUME NEW s \in SUBSET T PROVE F(g)[s] = g[s]
        <3>1. CASE s # {}
            <4> DEFINE m == Max(s)
            <4>1. m \in 1..N /\ g[s \ {m}] \in Controller /\ g[s] = step[<<m, g[s \ {m}]>>]
                BY <1>1, <1>9, <2>2, <3>1
            <4>2. F(g)[s] = Op(g[s \ {m}], m)
                BY <1>4, <3>1
            <4> HIDE DEF m
            <4> QED BY <1>2, <4>1, <4>2
        <3>2. CASE s = {}
            BY <1>5, <2>2, <3>2
        <3> QED BY <3>1, <3>2
    <2>4. g = [s \in SUBSET T |-> g[s]]
        BY <1>1, <2>2
    <2>5. F(g) = [s \in SUBSET T |-> F(g)[s]]
        BY <1>3
    <2> QED BY <2>3, <2>4, <2>5
<1>15. it = F(it)
    BY <1>14
<1> HIDE DEF it
<1>16. FoldsList(it, b, step, N, Controller)
    <2>1. it[{}] = b
        BY <1>5, <1>15
    <2>2. ASSUME NEW s \in SUBSET (1..N), s # {}, it[s \ {Max(s)}] \in Controller
          PROVE  it[s] = step[<<Max(s), it[s \ {Max(s)}]>>]
        <3> DEFINE m == Max(s)
        <3>1. s \in SUBSET T
            BY <1>1
        <3>2. m \in 1..N
            BY <1>9, <2>2, <3>1
        <3>3. F(it)[s] = Op(it[s \ {m}], m)
            BY <1>4, <2>2, <3>1
        <3>4. it[s \ {m}] \in Controller
            BY <2>2
        <3> HIDE DEF m
        <3>5. it[s] = step[<<m, it[s \ {m}]>>]
            BY <1>2, <1>15, <3>2, <3>3, <3>4
        <3> QED BY <3>5 DEF m
    <2> QED BY <2>1, <2>2 DEF FoldsList
<1>17. Leads(Q, b, step, N, Controller)
    BY <1>8, <1>12, <1>13 DEF Leads
<1>18. it[T] \in Q[N]
    <2>1. it[1..N] \in Q[N]
        BY <1>1, <1>16, <1>17, ListFoldLeads
    <2> QED BY <1>1, <2>1
<1>19. N \in 0..N /\ So(N) = B
    <2>1. \A x \in B : \E i \in 1..N : r[i] = x
        BY <1>0
    <2> QED BY <1>0, <1>1, <2>1 DEF So, T
<1>20. Ran(b, it[T], So(N))
    BY <1>7, <1>18, <1>19
<1> QED BY <1>6, <1>19, <1>20

\* The batch of this instant can run.
Due(c, time) ==
    /\ c \in Controller /\ time \in Time /\ time \notin c.processed
    /\ c.batches[time] # <<>> /\ OneByOne(c.batches[time])
    /\ ~c.failed /\ c.admitted /\ c.tasks = c.down
    /\ c.cut = {n \in Sat : c.down[n] = "satellite"}
    /\ Runnable(c, Range(c.batches[time]))

\* The faults and the log of v are those of b after the events D.
Faulted(b, v, D) ==
    /\ \A e \in D : e.type = "START" =>
         v.active[e.fault.node] = e.fault.id /\ v.down[e.fault.node] = e.fault.kind
    /\ \A e \in D : e.type = "RECOVERY" =>
         \/ \E x \in D : x.type = "START" /\ x.fault.node = e.fault.node
         \/ v.active[e.fault.node] = NoFault /\ v.down[e.fault.node] = "none"
    /\ \A n \in Sat : (\A e \in D : e.fault.node # n) =>
         v.active[n] = b.active[n] /\ v.down[n] = b.down[n]
    /\ \A k \in DOMAIN v.log :
         v.log[k].event \in D \/ \E j \in DOMAIN b.log : v.log[k].event = b.log[j].event
    /\ \A j \in DOMAIN b.log : \E k \in DOMAIN v.log : v.log[k].event = b.log[j].event
    /\ \A e \in D : \E k \in DOMAIN v.log : v.log[k].event = e

Processes(c, z, time) ==
    /\ z \in Controller /\ ~z.failed /\ z.admitted /\ z.tasks = z.down
    /\ z.cut = {n \in Sat : z.down[n] = "satellite"}
    /\ z.processed = c.processed \cup {time} /\ z.pending = c.pending \ {time}
    /\ \A t \in Time : t # time => z.batches[t] = c.batches[t]
    /\ Faulted(c, z, Range(c.batches[time]))

LEMMA EventOrder ==
    \A x, y : /\ x.type = y.type => (EventBefore(x, y) <=> x.fault.id < y.fault.id)
              /\ x.type # y.type => (EventBefore(x, y) <=> x.type = "RECOVERY")
BY DEF EventBefore

InOrder(B) == Ranked(B, EventBefore)

\* The events of a batch are listed by type and fault.
LEMMA BatchListed ==
    ASSUME NEW c, NEW time, Due(c, time), NEW B, B = Range(c.batches[time]),
           NEW below, below = EventsBelow(B), NEW r, r = InOrder(B)
    PROVE  Lists(r, B, below) /\ r \in Seq(Event)
<1>1. c.batches[time] \in Seq(Event) /\ B \subseteq Event
    BY ControllerFields DEF Due, Typed, Runnable
<1>2. IsFiniteSet(B)
    <2> DEFINE s == c.batches[time]
               n == Len(s)
    <2>1. n \in Nat /\ DOMAIN s = 1..n
        BY <1>1, LenProperties
    <2>2. s \in Surjection(1..n, B)
        <3>1. s \in [1..n -> Event]
            BY <1>1, LenProperties
        <3> HIDE DEF s, n
        <3> QED BY <2>1, <3>1 DEF Range, Surjection, s
    <2>3. IsFiniteSet(1..n)
        BY <2>1, FS_Interval
    <2> HIDE DEF s, n
    <2> QED BY <2>2, <2>3, FS_Surjection
<1>3. Orders(below, B)
    <2>1. \A x, y \in B : y \in below[x] <=> EventBefore(y, x)
        BY DEF EventsBelow
    <2>2. \A x \in B : below[x] \subseteq B
        BY DEF EventsBelow
    <2>3. ASSUME NEW x \in B
          PROVE  x.type \in {"RECOVERY", "START"} /\ x.fault.id \in Int
        BY <1>1, Events, FaultFields
    <2>4. ASSUME NEW x \in B, NEW y \in B, x # y, x.type = y.type PROVE x.fault.id # y.fault.id
        BY <2>4 DEF Due, Runnable
    <2>5. "RECOVERY" # "START"
        OBVIOUS
    <2>6. ASSUME NEW x \in B PROVE x \notin below[x]
        BY <2>1, <2>3, EventOrder
    <2>7. ASSUME NEW x \in B, NEW y \in B, x # y PROVE x \in below[y] \/ y \in below[x]
        <3>1. EventBefore(x, y) \/ EventBefore(y, x)
            BY <2>3, <2>4, <2>5, <2>7, EventOrder
        <3> QED BY <2>1, <3>1
    <2>8. ASSUME NEW x \in B, NEW y \in B, x \in below[y], NEW u \in below[x] PROVE u \in below[y]
        <3>1. u \in B /\ EventBefore(u, x) /\ EventBefore(x, y)
            BY <2>1, <2>2, <2>8
        <3>2. EventBefore(u, y)
            <4>1. /\ u.fault.id \in Int /\ x.fault.id \in Int /\ y.fault.id \in Int
                  /\ u.type \in {"RECOVERY", "START"} /\ x.type \in {"RECOVERY", "START"}
                  /\ y.type \in {"RECOVERY", "START"}
                BY <2>3, <3>1
            <4>2. CASE u.type = x.type /\ x.type = y.type
                BY <3>1, <4>1, <4>2, EventOrder
            <4>3. CASE u.type = x.type /\ x.type # y.type
                BY <3>1, <4>3, EventOrder
            <4>4. CASE u.type # x.type
                BY <2>5, <3>1, <4>1, <4>4, EventOrder
            <4> QED BY <4>2, <4>3, <4>4
        <3> QED BY <2>1, <3>1, <3>2
    <2> QED BY <2>2, <2>6, <2>7, <2>8 DEF Orders
<1> DEFINE element(i) == CHOOSE x \in B : Cardinality({y \in B : EventBefore(y, x)}) = i - 1
           at == [i \in 1..Cardinality(B) |-> element(i)]
<1>4. r = at
    BY DEF InOrder, Ranked
<1>5. /\ DOMAIN r = 1..Cardinality(B) /\ r = [i \in 1..Cardinality(B) |-> r[i]]
      /\ \A i \in DOMAIN r : r[i] = CHOOSE x \in B : Cardinality(below[x]) = i - 1
    <2>1. DOMAIN at = 1..Cardinality(B)
        OBVIOUS
    <2>2. at = [i \in 1..Cardinality(B) |-> at[i]]
        <3> HIDE DEF element
        <3> QED OBVIOUS
    <2>3. \A i \in DOMAIN at : at[i] = CHOOSE x \in B : Cardinality(below[x]) = i - 1
        BY DEF EventsBelow
    <2> HIDE DEF at
    <2> QED BY <1>4, <2>1, <2>2, <2>3
<1> HIDE DEF at
<1>6. Lists(r, B, below)
    BY <1>2, <1>3, <1>5, RankedLists, ZenonT(60)
<1>7. r \in Seq(Event)
    <2> DEFINE n == Cardinality(B)
    <2>1. n \in Nat /\ \A i \in 1..n : r[i] \in Event
        BY <1>1, <1>5, <1>6 DEF Lists
    <2>2. r \in [1..n -> Event]
        BY <1>5, <2>1
    <2> HIDE DEF n
    <2> QED BY <2>1, <2>2, SeqDef
<1> QED BY <1>6, <1>7

LEMMA BatchValidates ==
    ASSUME NEW c, NEW time, Due(c, time)
    PROVE  BatchValid(c, time)
<1> DEFINE s == c.batches[time]
<1>1. s # <<>> /\ time \notin c.processed /\ OneByOne(s) /\ Runnable(c, Range(s))
    BY DEF Due
<1> HIDE DEF s
<1>2. ASSUME NEW i \in DOMAIN s, NEW j \in DOMAIN s, i # j, s[i].type = s[j].type
      PROVE  s[i].fault.node # s[j].fault.node
    <2>1. s[i] \in Range(s) /\ s[j] \in Range(s) /\ s[i] # s[j]
        BY <1>1, <1>2 DEF Range, OneByOne
    <2> QED BY <1>1, <1>2, <2>1 DEF Runnable
<1> QED BY <1>1, <1>2 DEF BatchValid, s

\* The events that start a fault on n.
StartsOn(B, n) == {x \in B : x.type = "START" /\ x.fault.node = n}

\* The kind of fault that starts on each satellite.
KindsOf(B) == [n \in Sat |-> IF StartsOn(B, n) = {} THEN "none"
                             ELSE (CHOOSE x \in StartsOn(B, n) : TRUE).fault.kind]

TellsStarts(B, kind) ==
    /\ \A e \in B : e.type = "START" => kind[e.fault.node] = e.fault.kind
    /\ \A n \in Sat : /\ kind[n] \in FaultKind
                      /\ kind[n] # "none" =>
                           \E e \in B : e.type = "START" /\ e.fault.node = n /\ e.fault.kind = kind[n]

LEMMA StartKind ==
    ASSUME NEW c, NEW B, Runnable(c, B), NEW kind, kind = KindsOf(B)
    PROVE  TellsStarts(B, kind)
<1>1. \A e \in B : e \in Event /\ e.fault.node \in Sat /\ e.fault.kind \in {"compute", "satellite"}
    BY Events, FaultFields DEF Runnable
<1>2. ASSUME NEW n \in Sat, NEW e \in StartsOn(B, n) PROVE kind[n] = e.fault.kind
    <2> DEFINE x == CHOOSE y \in StartsOn(B, n) : TRUE
    <2>1. x \in StartsOn(B, n) /\ kind[n] = x.fault.kind
        BY DEF KindsOf
    <2> HIDE DEF x
    <2>2. x \in B /\ e \in B /\ x.type = e.type /\ x.fault.node = e.fault.node
        BY <2>1 DEF StartsOn
    <2>3. x = e
        BY <2>2 DEF Runnable
    <2> QED BY <2>1, <2>3
<1>3. ASSUME NEW n \in Sat, StartsOn(B, n) = {} PROVE kind[n] = "none"
    BY <1>3 DEF KindsOf
<1>4. ASSUME NEW e \in B, e.type = "START" PROVE kind[e.fault.node] = e.fault.kind
    <2>1. e \in StartsOn(B, e.fault.node)
        BY <1>4 DEF StartsOn
    <2> QED BY <1>1, <1>2, <2>1
<1>5. ASSUME NEW n \in Sat
      PROVE  /\ kind[n] \in FaultKind
             /\ kind[n] # "none" =>
                  \E e \in B : e.type = "START" /\ e.fault.node = n /\ e.fault.kind = kind[n]
    <2>1. CASE StartsOn(B, n) = {}
        BY <1>3, <2>1 DEF FaultKind
    <2>2. CASE StartsOn(B, n) # {}
        <3>1. PICK e \in StartsOn(B, n) : TRUE
            BY <2>2
        <3>2. e \in B /\ e.type = "START" /\ e.fault.node = n
            BY <3>1 DEF StartsOn
        <3> QED BY <1>1, <1>2, <3>1, <3>2 DEF FaultKind
    <2> QED BY <2>1, <2>2
<1> QED BY <1>4, <1>5 DEF TellsStarts

Recovers(B) == {e.fault.node : e \in {x \in B : x.type = "RECOVERY"}}

\* What the task coordinator and the topology are told is what happened.
Told(c, v, B, kind) ==
    /\ Admissible(c.tasks, Recovers(B), kind)
    /\ AfterBatch(c.tasks, Recovers(B), kind) = v.down
    /\ Overlay(v, B) = {n \in Sat : v.down[n] = "satellite"}

LEMMA BatchTold ==
    ASSUME NEW c \in Controller, NEW B, Runnable(c, B), c.tasks = c.down,
           c.cut = {n \in Sat : c.down[n] = "satellite"},
           NEW v \in Controller, Faulted(c, v, B), v.cut = c.cut,
           NEW kind, TellsStarts(B, kind)
    PROVE  Told(c, v, B, kind)
<1>1. \A e \in B : /\ e \in Event /\ e.fault.node \in Sat /\ e.fault.kind \in {"compute", "satellite"}
                   /\ e.type \in {"RECOVERY", "START"}
    <2>1. \A e \in B : e \in Event
        BY DEF Runnable
    <2> QED BY <2>1, Events, FaultFields
<1>2. v.down \in [Sat -> FaultKind] /\ c.down \in [Sat -> FaultKind]
    BY ControllerFields DEF Typed
<1>3. \A n : n \in Recovers(B) <=> \E e \in B : e.type = "RECOVERY" /\ e.fault.node = n
    BY DEF Recovers
<1>0. /\ \A e \in B : e.type = "START" => kind[e.fault.node] = e.fault.kind
      /\ \A n \in Sat : /\ kind[n] \in FaultKind
                        /\ kind[n] # "none" =>
                             \E e \in B : e.type = "START" /\ e.fault.node = n /\ e.fault.kind = kind[n]
    BY DEF TellsStarts
<1>4. Admissible(c.tasks, Recovers(B), kind)
    <2>1. Recovers(B) \subseteq {n \in Sat : c.tasks[n] = "compute"}
        BY <1>1, <1>3 DEF Runnable
    <2>2. ASSUME NEW n \in Sat, kind[n] # "none" PROVE c.tasks[n] = "none" \/ n \in Recovers(B)
        BY <1>0, <1>3, <2>2 DEF Runnable
    <2>3. ASSUME NEW n \in Sat, kind[n] = "compute" PROVE n \in Server
        <3>1. "compute" # "none"
            OBVIOUS
        <3> QED BY <1>0, <2>3, <3>1 DEF Runnable
    <2> QED BY <2>1, <2>2, <2>3 DEF Admissible
<1>5. ASSUME NEW n \in Sat
      PROVE  (IF kind[n] # "none" THEN kind[n] ELSE IF n \in Recovers(B) THEN "none" ELSE c.tasks[n])
             = v.down[n]
    <2>1. CASE kind[n] # "none"
        BY <1>0, <2>1 DEF Faulted
    <2>2. CASE kind[n] = "none"
        <3>1. \A e \in B : e.type = "START" => e.fault.node # n
            BY <1>0, <1>1, <2>2
        <3>2. CASE n \in Recovers(B)
            <4>1. PICK e \in B : e.type = "RECOVERY" /\ e.fault.node = n
                BY <1>3, <3>2
            <4>2. v.down[n] = "none"
                BY <3>1, <4>1 DEF Faulted
            <4> QED BY <2>2, <3>2, <4>2
        <3>3. CASE n \notin Recovers(B)
            <4>1. \A e \in B : e.fault.node # n
                BY <1>1, <1>3, <3>1, <3>3
            <4>2. v.down[n] = c.down[n]
                BY <4>1 DEF Faulted
            <4> QED BY <2>2, <3>3, <4>2
        <3> QED BY <3>2, <3>3
    <2> QED BY <2>1, <2>2
<1>6. AfterBatch(c.tasks, Recovers(B), kind) = v.down
    BY <1>2, <1>5 DEF AfterBatch
<1>7. Overlay(v, B) = {n \in Sat : v.down[n] = "satellite"}
    <2>1. CASE \E e \in B : e.fault.kind = "satellite"
        BY <2>1 DEF Overlay
    <2>2. CASE ~\E e \in B : e.fault.kind = "satellite"
        <3>1. ASSUME NEW n \in Sat PROVE v.down[n] = "satellite" <=> c.down[n] = "satellite"
            <4>1. CASE \A e \in B : e.fault.node # n
                BY <4>1 DEF Faulted
            <4>2. CASE \E e \in B : e.type = "START" /\ e.fault.node = n
                <5>1. PICK e \in B : e.type = "START" /\ e.fault.node = n
                    BY <4>2
                <5>2. v.down[n] = "compute"
                    BY <1>1, <2>2, <5>1 DEF Faulted
                <5>3. c.down[n] # "satellite"
                    <6>1. CASE c.down[n] = "none"
                        BY <6>1
                    <6>2. CASE \E x \in B : x.type = "RECOVERY" /\ x.fault.node = n
                        BY <6>2 DEF Runnable
                    <6> QED BY <5>1, <6>1, <6>2 DEF Runnable
                <5> QED BY <5>2, <5>3
            <4>3. CASE /\ \A e \in B : ~(e.type = "START" /\ e.fault.node = n)
                       /\ \E e \in B : e.fault.node = n
                <5>1. PICK e \in B : e.fault.node = n
                    BY <4>3
                <5>2. e.type = "RECOVERY"
                    BY <1>1, <4>3, <5>1
                <5>3. v.down[n] = "none" /\ c.down[n] = "compute"
                    BY <4>3, <5>1, <5>2 DEF Faulted, Runnable
                <5> QED BY <5>3
            <4> QED BY <4>1, <4>2, <4>3
        <3>2. Overlay(v, B) = c.cut
            BY <2>2 DEF Overlay
        <3> QED BY <3>1, <3>2
    <2> QED BY <2>1, <2>2
<1> QED BY <1>4, <1>6, <1>7 DEF Told

\* The batch is taken out and its events are sorted.
Taken(c, time, r) ==
    [c EXCEPT !.batches[time] = r, !.processed = @ \cup {time}, !.pending = @ \ {time}]

Takes(c, b, time) ==
    /\ b \in Controller /\ b.active = c.active /\ b.down = c.down /\ b.log = c.log
    /\ b.tasks = c.tasks /\ b.cut = c.cut /\ b.admitted = c.admitted /\ b.failed = c.failed
    /\ b.processed = c.processed \cup {time} /\ b.pending = c.pending \ {time}
    /\ \A t \in Time : t # time => b.batches[t] = c.batches[t]

LEMMA TakenFields ==
    ASSUME NEW c \in Controller, NEW time \in Time, NEW r \in Seq(Event),
           NEW b, b = Taken(c, time, r)
    PROVE  Takes(c, b, time)
<1> DEFINE batched == [c.batches EXCEPT ![time] = r]
<1>1. Fields(c) /\ Typed(c)
    BY ControllerFields
<1>2. batched \in [Time -> Seq(Event)] /\ \A t \in Time : t # time => batched[t] = c.batches[t]
    BY <1>1 DEF Typed
<1>3. b = [active |-> c.active, down |-> c.down, batches |-> batched,
           pending |-> c.pending \ {time}, processed |-> c.processed \cup {time}, log |-> c.log,
           tasks |-> c.tasks, cut |-> c.cut, admitted |-> c.admitted, failed |-> c.failed]
    BY <1>1 DEF Fields, Taken
<1> HIDE DEF batched
<1>4. Fields(b) /\ Typed(b)
    BY <1>1, <1>2, <1>3 DEF Fields, Typed
<1>5. b \in Controller
    BY <1>4, ControllerFields
<1> QED BY <1>2, <1>3, <1>5 DEF Takes

Reported(v, ok, tasks, cut) == [v EXCEPT !.admitted = ok, !.tasks = tasks, !.cut = cut]

LEMMA ReportedFields ==
    ASSUME NEW v \in Controller, NEW ok \in BOOLEAN, NEW tasks \in [Sat -> FaultKind],
           NEW cut \in SUBSET Sat, NEW z, z = Reported(v, ok, tasks, cut)
    PROVE  /\ z \in Controller /\ z.active = v.active /\ z.down = v.down /\ z.log = v.log
           /\ z.batches = v.batches /\ z.pending = v.pending /\ z.processed = v.processed
           /\ z.failed = v.failed /\ z.admitted = ok /\ z.tasks = tasks /\ z.cut = cut
<1>1. Fields(v) /\ Typed(v)
    BY ControllerFields
<1>2. z = [active |-> v.active, down |-> v.down, batches |-> v.batches,
           pending |-> v.pending, processed |-> v.processed, log |-> v.log,
           tasks |-> tasks, cut |-> cut, admitted |-> ok, failed |-> v.failed]
    BY <1>1 DEF Fields, Reported
<1>3. Fields(z) /\ Typed(z)
    BY <1>1, <1>2 DEF Fields, Typed
<1>4. z \in Controller
    BY <1>3, ControllerFields
<1> QED BY <1>2, <1>4

LEMMA ProcessBatchRuns ==
    ASSUME NEW c, NEW time, Due(c, time), NEW z, z = ProcessBatch(c, time)
    PROVE  Processes(c, z, time)
<1> DEFINE B == Range(c.batches[time])
           r == InOrder(B)
           below == EventsBelow(B)
           b == Taken(c, time, r)
           v == ApplyEvents(b, r, time)
           kind == KindsOf(B)
           ok == v.admitted /\ Admissible(v.tasks, Recovers(B), kind)
           tasks == AfterBatch(v.tasks, Recovers(B), kind)
           cut == Overlay(v, B)
<1>1. z = Reported(v, v.admitted /\ Admissible(c.tasks, Recovers(B), kind), tasks, cut)
    BY BatchValidates DEF ProcessBatch, Reported, Recovers, StartsOn, Taken, KindsOf, InOrder
<1>2. /\ c \in Controller /\ time \in Time /\ time \notin c.processed
      /\ ~c.failed /\ c.admitted /\ c.tasks = c.down
      /\ c.cut = {n \in Sat : c.down[n] = "satellite"} /\ Runnable(c, B)
    BY DEF Due
<1>3. Lists(r, B, below) /\ r \in Seq(Event)
    BY BatchListed
<1> HIDE DEF r, B
<1>19. b = Taken(c, time, r)
    OBVIOUS
<1> HIDE DEF b
<1>4. /\ b \in Controller /\ b.active = c.active /\ b.down = c.down /\ b.log = c.log
      /\ b.tasks = c.tasks /\ b.cut = c.cut /\ b.admitted = c.admitted /\ b.failed = c.failed
      /\ b.processed = c.processed \cup {time} /\ b.pending = c.pending \ {time}
      /\ \A t \in Time : t # time => b.batches[t] = c.batches[t]
    <2>1. Takes(c, b, time)
        BY <1>2, <1>3, <1>19, TakenFields
    <2> QED BY <2>1 DEF Takes
<1>5. Runnable(b, B)
    BY <1>2, <1>4 DEF Runnable
<1>6. Ran(b, v, B)
    <2>1. below = EventsBelow(B)
        OBVIOUS
    <2> HIDE DEF below
    <2> QED BY <1>2, <1>3, <1>5, <2>1, RunsAll
<1> HIDE DEF v
<1>7. Faulted(c, v, B) /\ v \in Controller /\ SameBatches(b, v) /\ v.failed = c.failed
    <2>1. b.active = c.active /\ b.down = c.down /\ b.log = c.log /\ b.failed = c.failed
        BY <1>4
    <2> QED BY <1>6, <2>1 DEF Ran, Faulted
<1>8. v.tasks = c.tasks /\ v.cut = c.cut /\ v.admitted = c.admitted
    BY <1>4, <1>7 DEF SameBatches
<1>9. TellsStarts(B, kind)
    BY <1>2, StartKind
<1> HIDE DEF kind
<1>10. Told(c, v, B, kind)
    BY <1>2, <1>7, <1>8, <1>9, BatchTold
<1>11. ok /\ tasks = v.down /\ cut = {n \in Sat : v.down[n] = "satellite"}
    BY <1>2, <1>8, <1>10 DEF Told
<1>12. z = Reported(v, ok, tasks, cut)
    BY <1>1, <1>8
<1>13. v.down \in [Sat -> FaultKind]
    BY <1>7, ControllerFields DEF Typed
<1>14. ok \in BOOLEAN /\ tasks \in [Sat -> FaultKind] /\ cut \in SUBSET Sat
    <2> HIDE DEF tasks, cut
    <2> QED BY <1>11, <1>13
<1> HIDE DEF ok, tasks, cut
<1>15. /\ z \in Controller /\ z.active = v.active /\ z.down = v.down /\ z.log = v.log
       /\ z.batches = v.batches /\ z.pending = v.pending /\ z.processed = v.processed
       /\ z.failed = v.failed /\ z.admitted = ok /\ z.tasks = tasks /\ z.cut = cut
    BY <1>7, <1>12, <1>14, ReportedFields
<1>16. Faulted(c, z, B)
    BY <1>7, <1>15 DEF Faulted
<1>17. /\ z.processed = c.processed \cup {time} /\ z.pending = c.pending \ {time}
       /\ \A t \in Time : t # time => z.batches[t] = c.batches[t]
    BY <1>4, <1>7, <1>15 DEF SameBatches
<1>18. ~z.failed /\ z.admitted
    BY <1>2, <1>7, <1>11, <1>15
<1> QED BY <1>11, <1>15, <1>16, <1>17, <1>18 DEF Processes, B

-----------------------------------------------------------------------------
(* The engine *)

LEMMA Basics ==
    ASSUME IInv
    PROVE  /\ now \in Time /\ now \in Nat /\ Time \subseteq Nat /\ Duration \in Nat
           /\ trace \in Seq(Fault) /\ Len(trace) \in Nat /\ DOMAIN trace = 1..Len(trace)
           /\ nextId = Len(trace) + 1
           /\ \A i \in DOMAIN trace : trace[i] \in Fault /\ trace[i].id = i
           /\ ctl \in Controller /\ Typed(ctl) /\ debris \in [Sat -> (Time \ {Duration}) \cup {NoTime}]
           /\ ~ctl.failed /\ ctl.admitted /\ ctl.tasks = ctl.down
           /\ ctl.cut = {n \in Sat : ctl.down[n] = "satellite"}
           /\ ctl.processed \subseteq 0..now
<1>1. now \in Time /\ trace \in Seq(Fault) /\ ctl \in Controller
    BY DEF IInv, TypeOK
<1>2. Time \subseteq Nat /\ Duration \in Nat
    BY DurationAssumption DEF Time
<1>3. Len(trace) \in Nat /\ DOMAIN trace = 1..Len(trace) /\ \A i \in DOMAIN trace : trace[i] \in Fault
    BY <1>1, LenProperties
<1>4. /\ nextId = Len(trace) + 1 /\ \A i \in DOMAIN trace : trace[i].id = i
    BY DEF IInv, TraceInv
<1>5. Typed(ctl)
    BY <1>1, ControllerFields
<1>6. /\ ~ctl.failed /\ ctl.admitted /\ ctl.tasks = ctl.down
      /\ ctl.cut = {n \in Sat : ctl.down[n] = "satellite"} /\ ctl.processed \subseteq 0..now
      /\ debris \in [Sat -> (Time \ {Duration}) \cup {NoTime}]
    BY DEF IInv, NeverRejected, ClockInv
<1> QED BY <1>1, <1>2, <1>3, <1>4, <1>5, <1>6

\* The active fault of a satellite.
LEMMA ActiveFault ==
    ASSUME IInv, NEW n \in Sat, ctl.down[n] # "none", NEW f, f = trace[ctl.active[n]]
    PROVE  /\ ctl.active[n] \in DOMAIN trace /\ f \in Fault
           /\ f.id = ctl.active[n] /\ f.node = n /\ f.kind = ctl.down[n]
<1>1. NodeInv(n)
    BY DEF IInv
<1>2. ctl.active[n] \in DOMAIN trace /\ f.node = n /\ f.kind = ctl.down[n]
    BY <1>1 DEF NodeInv
<1> QED BY <1>2, Basics

\* An active compute fault, whatever is said of it.
LEMMA ActiveComputeFault ==
    ASSUME IInv, NEW n \in Sat, ctl.down[n] = "compute", NEW f, f = trace[ctl.active[n]]
    PROVE  /\ n \in Server /\ f.start <= now /\ (f.start = now => stepped)
           /\ f.duration > 0 /\ RecoveryTime(f) >= now
           /\ RecoveryTime(f) < Duration =>
                /\ RecoveryTime(f) \notin ctl.processed
                /\ Recovery(f) \in Range(ctl.batches[RecoveryTime(f)])
           /\ RecoveryTime(f) > now => outage[n] = f
           /\ \E k \in DOMAIN ctl.log : ctl.log[k].event = Start(f)
<1>1. NodeInv(n)
    BY DEF IInv
<1> QED BY <1>1 DEF NodeInv

\* The faults `started' start now, on the nodes `failing' and on lost satellites;
\* those of the nodes K end for that.
Opening(K, failing, started) ==
    /\ now < Duration /\ now \notin ctl.processed
    /\ started \in Seq(Fault)
    /\ \A i \in DOMAIN started :
         LET f == started[i] IN
         /\ f.id = nextId + i - 1 /\ f.start = now
         /\ \/ f.kind = "compute" /\ f.node \in failing /\ f.duration > 0
            \/ f.kind = "satellite" /\ f.node \in Lost /\ f.duration = Forever
    /\ \A i, j \in DOMAIN started : i # j => started[i].node # started[j].node
    /\ \A n \in failing \cup K : \E i \in DOMAIN started : started[i].node = n
    /\ \A n \in failing : n \in Server /\ n \notin Lost /\ ctl.down[n] = "none"
    /\ \A n \in K : /\ n \in Lost /\ n \in Server /\ ctl.down[n] = "compute"
                    /\ outage[n] = trace[ctl.active[n]]
                    /\ outage[n].start < now /\ RecoveryTime(outage[n]) > now
    /\ \A i \in DOMAIN started :
         LET n == started[i].node IN
         \/ ctl.down[n] = "none"
         \/ ctl.down[n] = "compute" /\ (RecoveryTime(trace[ctl.active[n]]) = now \/ n \in K)

\* The controller before the batch runs.
Merged(m, K, started) ==
    /\ m \in Controller /\ SameFaults(ctl, m)
    /\ OneByOne(m.batches[now])
    /\ Range(m.batches[now]) =
         (Range(ctl.batches[now]) \cup {Recovery(Shortened(outage[n], now)) : n \in K})
             \cup {Start(started[i]) : i \in DOMAIN started}
    /\ \A t \in Time : t > now =>
         /\ OneByOne(m.batches[t])
         /\ Range(m.batches[t]) =
              (Range(ctl.batches[t]) \ {Recovery(outage[n]) : n \in K})
                  \cup {Recovery(f) : f \in Expected(Range(started), t)}
         /\ t \in m.pending <=> m.batches[t] # <<>>
    /\ \A t \in Time : t < now => t \notin m.pending
    /\ \A k \in DOMAIN m.log : \E j \in DOMAIN ctl.log :
         m.log[k].event.fault.id = ctl.log[j].event.fault.id
    /\ \A j \in DOMAIN ctl.log : \A g :
         (\A n \in K : g # outage[n]) /\ ctl.log[j].event = Start(g) =>
             \E k \in DOMAIN m.log : m.log[k].event = Start(g)

LEMMA StartedFacts ==
    ASSUME IInv, NEW K, NEW failing, NEW started, Opening(K, failing, started)
    PROVE  /\ Len(started) \in Nat /\ DOMAIN started = 1..Len(started)
           /\ \A i \in DOMAIN started : started[i] \in Fault /\ started[i].id >= nextId
                                        /\ started[i].id \in Int /\ started[i].node \in Sat
           /\ \A i, j \in DOMAIN started : i # j => started[i].id # started[j].id
<1>1. started \in Seq(Fault)
    BY DEF Opening
<1>2. Len(started) \in Nat /\ DOMAIN started = 1..Len(started)
      /\ \A i \in DOMAIN started : started[i] \in Fault
    BY <1>1, LenProperties
<1>3. \A i \in DOMAIN started : started[i].id = nextId + i - 1
    BY DEF Opening
<1>4. nextId \in Nat
    BY Basics
<1>5. \A i \in DOMAIN started : started[i].node \in Sat
    BY <1>2, FaultFields
<1>6. \A i \in DOMAIN started : started[i].id >= nextId /\ started[i].id \in Int
    BY <1>2, <1>3, <1>4
<1>7. \A i, j \in DOMAIN started : i # j => started[i].id # started[j].id
    BY <1>2, <1>3, <1>4
<1> QED BY <1>2, <1>5, <1>6, <1>7

\* A fault that is cut short.
LEMMA CutFacts ==
    ASSUME IInv, NEW K, NEW failing, NEW started, Opening(K, failing, started), NEW n \in K,
           NEW f, f = outage[n], NEW g, g = Shortened(f, now)
    PROVE  /\ n \in Sat /\ f \in Fault /\ f.id = ctl.active[n] /\ f.node = n /\ f.kind = "compute"
           /\ f.id \in DOMAIN trace /\ trace[f.id] = f
           /\ g \in Fault /\ g.id = f.id /\ g.node = n /\ g.kind = "compute"
           /\ RecoveryTime(g) = now
<1>1. /\ n \in Server /\ ctl.down[n] = "compute" /\ f = trace[ctl.active[n]] /\ f.start < now
    BY DEF Opening
<1>2. n \in Sat
    BY <1>1, FaultAssumption
<1>3. /\ ctl.active[n] \in DOMAIN trace /\ f \in Fault
      /\ f.id = ctl.active[n] /\ f.node = n /\ f.kind = ctl.down[n]
    BY <1>1, <1>2, ActiveFault
<1>4. g \in Fault /\ g.id = f.id /\ g.node = f.node /\ g.kind = f.kind /\ RecoveryTime(g) = now
    BY <1>1, <1>3, Basics, ShortenedFields
<1> QED BY <1>1, <1>2, <1>3, <1>4

\* What was in the batch of this instant.
LEMMA DueNow ==
    ASSUME IInv, NEW t \in Time, Open(t), NEW e \in Range(ctl.batches[t])
    PROVE  /\ e \in Event /\ e.type = "RECOVERY" /\ t < Duration /\ RecoveryTime(e.fault) = t
           /\ e.fault.node \in Sat /\ ctl.down[e.fault.node] = "compute"
           /\ e.fault = trace[ctl.active[e.fault.node]] /\ e = Recovery(e.fault)
           /\ e.fault.id = ctl.active[e.fault.node]
<1>1. BatchInv(t)
    BY DEF IInv
<1>2. ctl.batches[t] \in Seq(Event)
    BY Basics DEF Typed
<1>3. e \in Event
    BY <1>2, RangeOfSeq
<1>4. e.type = "RECOVERY" /\ t < Duration /\ RecoveryTime(e.fault) = t
      /\ ctl.down[e.fault.node] = "compute" /\ e.fault = trace[ctl.active[e.fault.node]]
    BY <1>1 DEF BatchInv
<1>5. e.fault \in Fault /\ e = Recovery(e.fault) /\ e.fault.node \in Sat
    BY <1>3, <1>4, Events, FaultFields
<1>6. e.fault.id = ctl.active[e.fault.node]
    BY <1>4, <1>5, ActiveFault
<1> QED BY <1>3, <1>4, <1>5, <1>6

\* An event of the merged batch: what it says of its node.
LEMMA MergedEvent ==
    ASSUME IInv, NEW K, NEW failing, NEW started, Opening(K, failing, started),
           NEW m, Merged(m, K, started), NEW e \in Range(m.batches[now]), NEW n, n = e.fault.node
    PROVE  /\ e \in Event /\ n \in Sat
           /\ \/ /\ e.type = "RECOVERY" /\ ctl.down[n] = "compute" /\ e.fault.id = ctl.active[n]
                 /\ \/ e = Recovery(trace[ctl.active[n]]) /\ RecoveryTime(trace[ctl.active[n]]) = now
                    \/ n \in K /\ e = Recovery(Shortened(outage[n], now))
              \/ e.type = "START" /\ \E i \in DOMAIN started : e = Start(started[i])
<1>1. \/ e \in Range(ctl.batches[now])
      \/ \E k \in K : e = Recovery(Shortened(outage[k], now))
      \/ \E i \in DOMAIN started : e = Start(started[i])
    BY DEF Merged
<1>2. Open(now)
    BY DEF Open, Opening
<1>3. CASE e \in Range(ctl.batches[now])
    BY <1>2, <1>3, DueNow, Basics
<1>4. CASE \E k \in K : e = Recovery(Shortened(outage[k], now))
    <2>1. PICK k \in K : e = Recovery(Shortened(outage[k], now))
        BY <1>4
    <2> DEFINE g == Shortened(outage[k], now)
    <2>2. /\ k \in Sat /\ outage[k].id = ctl.active[k]
          /\ g \in Fault /\ g.id = outage[k].id /\ g.node = k
        BY CutFacts
    <2>3. ctl.down[k] = "compute"
        BY DEF Opening
    <2> HIDE DEF g
    <2>4. e.type = "RECOVERY" /\ e.fault = g /\ e \in Event
        BY <2>1, <2>2, Events DEF g
    <2> QED BY <2>1, <2>2, <2>3, <2>4
<1>5. CASE \E i \in DOMAIN started : e = Start(started[i])
    <2>1. PICK i \in DOMAIN started : e = Start(started[i])
        BY <1>5
    <2>2. started[i] \in Fault /\ started[i].node \in Sat
        BY StartedFacts
    <2>3. e \in Event /\ e.type = "START" /\ e.fault = started[i]
        BY <2>1, <2>2, Events
    <2> QED BY <2>1, <2>2, <2>3
<1> QED BY <1>1, <1>3, <1>4, <1>5

LEMMA MergedIsDue ==
    ASSUME IInv, NEW K, NEW failing, NEW started, Opening(K, failing, started),
           NEW m, Merged(m, K, started), m.batches[now] # <<>>
    PROVE  Due(m, now)
<1> DEFINE B == Range(m.batches[now])
<1>1. m \in Controller /\ SameFaults(ctl, m) /\ OneByOne(m.batches[now]) /\ now \in Time
    BY Basics DEF Merged
<1>2. /\ m.active = ctl.active /\ m.down = ctl.down /\ m.processed = ctl.processed
      /\ m.tasks = ctl.tasks /\ m.cut = ctl.cut /\ m.admitted = ctl.admitted /\ m.failed = ctl.failed
    BY <1>1 DEF SameFaults
<1>3. B \subseteq Event
    BY MergedEvent
<1>4. ASSUME NEW n \in Sat PROVE m.active[n] = NoFault <=> m.down[n] = "none"
    <2>1. NodeInv(n)
        BY DEF IInv
    <2> QED BY <1>2, <2>1 DEF NodeInv
<1>5. ASSUME NEW e \in B, e.type = "RECOVERY"
      PROVE  m.down[e.fault.node] = "compute" /\ m.active[e.fault.node] = e.fault.id
    <2>1. "RECOVERY" # "START"
        OBVIOUS
    <2> QED BY <1>2, <1>5, <2>1, MergedEvent
<1>6. ASSUME NEW x \in B, NEW y \in B, x # y, x.type = y.type
      PROVE  x.fault.node # y.fault.node /\ x.fault.id # y.fault.id
    <2>0. "RECOVERY" # "START"
        OBVIOUS
    <2>1. CASE x.type = "START"
        <3>1. ASSUME NEW u \in B, u.type = "START"
              PROVE  \E i \in DOMAIN started : u = Start(started[i])
            BY <2>0, <3>1, MergedEvent
        <3>2. PICK i \in DOMAIN started : x = Start(started[i])
            BY <2>1, <3>1
        <3>3. PICK j \in DOMAIN started : y = Start(started[j])
            BY <1>6, <2>1, <3>1
        <3>4. i # j
            BY <1>6, <3>2, <3>3
        <3>5. started[i].node # started[j].node
            BY <3>4 DEF Opening
        <3>6. started[i].id # started[j].id
            BY <3>4, StartedFacts
        <3> QED BY <3>2, <3>3, <3>5, <3>6, Events
    <2>2. CASE x.type = "RECOVERY"
        <3>1. ASSUME NEW u \in B, u.type = "RECOVERY", NEW n, n = u.fault.node
              PROVE  /\ n \in Sat /\ ctl.down[n] = "compute" /\ u.fault.id = ctl.active[n]
                     /\ \/ u = Recovery(trace[ctl.active[n]]) /\ RecoveryTime(trace[ctl.active[n]]) = now
                        \/ n \in K /\ u = Recovery(Shortened(outage[n], now))
            BY <2>0, <3>1, MergedEvent
        <3> DEFINE n == x.fault.node
                   k == y.fault.node
        <3>2. /\ n \in Sat /\ ctl.down[n] = "compute" /\ x.fault.id = ctl.active[n]
              /\ \/ x = Recovery(trace[ctl.active[n]]) /\ RecoveryTime(trace[ctl.active[n]]) = now
                 \/ n \in K /\ x = Recovery(Shortened(outage[n], now))
            BY <2>2, <3>1
        <3>3. /\ k \in Sat /\ ctl.down[k] = "compute" /\ y.fault.id = ctl.active[k]
              /\ \/ y = Recovery(trace[ctl.active[k]]) /\ RecoveryTime(trace[ctl.active[k]]) = now
                 \/ k \in K /\ y = Recovery(Shortened(outage[k], now))
            BY <1>6, <2>2, <3>1
        <3> HIDE DEF n, k
        <3>4. n # k
            <4> SUFFICES ASSUME n = k PROVE FALSE
                OBVIOUS
            <4>1. n \in K => RecoveryTime(trace[ctl.active[n]]) > now
                BY DEF Opening
            <4>2. RecoveryTime(trace[ctl.active[n]]) \in Nat
                BY <3>2, ActiveFault, FaultFields
            <4>3. now \in Nat
                BY Basics
            <4>4. ~(RecoveryTime(trace[ctl.active[n]]) = now /\ n \in K)
                BY <4>1, <4>2, <4>3
            <4> QED BY <1>6, <3>2, <3>3, <4>4
        <3>5. ctl.active[n] # ctl.active[k]
            <4>1. trace[ctl.active[n]].node = n /\ trace[ctl.active[k]].node = k
                BY <3>2, <3>3, ActiveFault
            <4> QED BY <3>4, <4>1
        <3> QED BY <3>2, <3>3, <3>4, <3>5 DEF n, k
    <2>3. x.type = "START" \/ x.type = "RECOVERY"
        BY MergedEvent
    <2> QED BY <2>1, <2>2, <2>3
<1>7. ASSUME NEW e \in B, e.type = "START", NEW n, n = e.fault.node
      PROVE  /\ \/ m.down[n] = "none"
                \/ \E x \in B : x.type = "RECOVERY" /\ x.fault.node = n
             /\ \A k \in Sat : m.active[k] # e.fault.id
             /\ e.fault.kind = "compute" => n \in Server
    <2>0. "RECOVERY" # "START"
        OBVIOUS
    <2>1. PICK i \in DOMAIN started : e = Start(started[i])
        BY <1>7, <2>0, MergedEvent
    <2>2. e.fault = started[i]
        BY <2>1, Events
    <2>3. ASSUME NEW k \in Sat PROVE ctl.active[k] # e.fault.id
        <3>1. started[i].id >= nextId /\ started[i].id \in Int /\ nextId = Len(trace) + 1 /\ Len(trace) \in Nat
            BY StartedFacts, Basics
        <3>2. ctl.active[k] = 0 \/ ctl.active[k] \in DOMAIN trace
            <4>1. NodeInv(k)
                BY DEF IInv
            <4> QED BY <4>1 DEF NodeInv, NoFault
        <3>3. DOMAIN trace = 1..Len(trace)
            BY Basics
        <3> QED BY <2>2, <3>1, <3>2, <3>3
    <2>4. e.fault.kind = "compute" => n \in Server
        <3>1. started[i].kind = "compute" => started[i].node \in failing
            BY DEF Opening
        <3> QED BY <1>7, <2>2, <3>1 DEF Opening
    <2>5. CASE ctl.down[n] = "none"
        BY <1>2, <2>3, <2>4, <2>5
    <2>6. CASE ctl.down[n] = "compute" /\ RecoveryTime(trace[ctl.active[n]]) = now
        <3> DEFINE f == trace[ctl.active[n]]
        <3>1. n \in Sat
            BY <1>7, MergedEvent
        <3>2. f.node = n /\ Recovery(f) \in Range(ctl.batches[now])
            <4>1. RecoveryTime(f) < Duration
                BY <2>6 DEF Opening
            <4>2. f.node = n
                BY <2>6, <3>1, ActiveFault
            <4>3. Recovery(f) \in Range(ctl.batches[RecoveryTime(f)])
                BY <2>6, <3>1, <4>1, ActiveComputeFault
            <4> QED BY <2>6, <4>2, <4>3
        <3>3. Recovery(f) \in B
            BY <3>2 DEF Merged
        <3>4. Recovery(f).type = "RECOVERY" /\ Recovery(f).fault.node = n
            BY <3>2, Events
        <3> QED BY <1>2, <2>3, <2>4, <3>3, <3>4
    <2>7. CASE n \in K
        <3> DEFINE g == Shortened(outage[n], now)
        <3>1. g.node = n
            BY <2>7, CutFacts
        <3>2. Recovery(g) \in B
            BY <2>7 DEF Merged
        <3> HIDE DEF g
        <3>3. Recovery(g).type = "RECOVERY" /\ Recovery(g).fault.node = n
            BY <3>1, Events
        <3> QED BY <1>2, <2>3, <2>4, <3>2, <3>3
    <2>8. \/ ctl.down[n] = "none"
          \/ ctl.down[n] = "compute" /\ (RecoveryTime(trace[ctl.active[n]]) = now \/ n \in K)
        BY <1>7, <2>2 DEF Opening
    <2> QED BY <2>5, <2>6, <2>7, <2>8
<1>8. Runnable(m, B)
    <2> HIDE DEF B
    <2>1. \A e \in B : e.type = "RECOVERY" =>
             m.down[e.fault.node] = "compute" /\ m.active[e.fault.node] = e.fault.id
        BY <1>5
    <2>2. \A x, y \in B : x # y /\ x.type = y.type =>
             x.fault.node # y.fault.node /\ x.fault.id # y.fault.id
        BY <1>6
    <2>3. \A e \in B : e.type = "START" =>
             /\ \/ m.down[e.fault.node] = "none"
                \/ \E x \in B : x.type = "RECOVERY" /\ x.fault.node = e.fault.node
             /\ \A n \in Sat : m.active[n] # e.fault.id
             /\ e.fault.kind = "compute" => e.fault.node \in Server
        BY <1>7
    <2> QED BY <1>1, <1>3, <1>4, <2>1, <2>2, <2>3 DEF Runnable
<1>9. now \notin m.processed /\ ~m.failed /\ m.admitted /\ m.tasks = m.down
      /\ m.cut = {n \in Sat : m.down[n] = "satellite"}
    BY <1>2, Basics DEF Opening
<1> QED BY <1>1, <1>8, <1>9 DEF Due

\* The batch of this instant runs: whoever is down afterwards, or is not.
Running(K, failing, started, m) ==
    Opening(K, failing, started) /\ Merged(m, K, started) /\ Processes(m, ctl', now)

LEMMA NodeStarts ==
    ASSUME IInv, NEW K, NEW failing, NEW started, NEW m, Running(K, failing, started, m),
           NEW i \in DOMAIN started, NEW f, f = started[i], NEW n, n = f.node
    PROVE  /\ f \in Fault /\ n \in Sat /\ ctl'.active[n] = f.id /\ ctl'.down[n] = f.kind
           /\ \E k \in DOMAIN ctl'.log : ctl'.log[k].event = Start(f)
<1>1. f \in Fault /\ n \in Sat
    BY StartedFacts DEF Running
<1>2. Start(f) \in Range(m.batches[now])
    BY DEF Running, Merged
<1>3. Start(f).type = "START" /\ Start(f).fault = f
    BY Events
<1>4. Faulted(m, ctl', Range(m.batches[now]))
    BY DEF Running, Processes
<1> HIDE DEF Start
<1>5. /\ ctl'.active[n] = f.id /\ ctl'.down[n] = f.kind
      /\ \E k \in DOMAIN ctl'.log : ctl'.log[k].event = Start(f)
    BY <1>2, <1>3, <1>4 DEF Faulted
<1> QED BY <1>1, <1>5

\* A fault that is over and no other starts.
LEMMA NodeRecovers ==
    ASSUME IInv, NEW K, NEW failing, NEW started, NEW m, Running(K, failing, started, m),
           NEW n \in Sat, \A i \in DOMAIN started : started[i].node # n,
           ctl.down[n] = "compute", RecoveryTime(trace[ctl.active[n]]) = now
    PROVE  ctl'.active[n] = NoFault /\ ctl'.down[n] = "none"
<1> DEFINE f == trace[ctl.active[n]]
           B == Range(m.batches[now])
<1>0. /\ Opening(K, failing, started) /\ Merged(m, K, started)
      /\ Faulted(m, ctl', B)
    BY DEF Running, Processes
<1>1. RecoveryTime(f) < Duration
    BY <1>0 DEF Opening
<1>2. f.node = n
    BY ActiveFault
<1>3. Recovery(f) \in Range(ctl.batches[now])
    BY <1>1, ActiveComputeFault
<1>4. Recovery(f) \in B
    BY <1>0, <1>3 DEF Merged
<1>5. Recovery(f).type = "RECOVERY" /\ Recovery(f).fault.node = n
    BY <1>2, Events
<1>6. ASSUME NEW x \in B, x.type = "START" PROVE x.fault.node # n
    <2>0. "RECOVERY" # "START"
        OBVIOUS
    <2>1. PICK i \in DOMAIN started : x = Start(started[i])
        BY <1>0, <1>6, <2>0, MergedEvent
    <2> QED BY <2>1, Events
<1> HIDE DEF f, B
<1> QED BY <1>0, <1>4, <1>5, <1>6 DEF Faulted

\* Whose fault is not over, if no other starts.
LEMMA NodeStays ==
    ASSUME IInv, NEW K, NEW failing, NEW started, NEW m, Running(K, failing, started, m),
           NEW n \in Sat, \A i \in DOMAIN started : started[i].node # n,
           ~(ctl.down[n] = "compute" /\ RecoveryTime(trace[ctl.active[n]]) = now)
    PROVE  n \notin K /\ ctl'.active[n] = ctl.active[n] /\ ctl'.down[n] = ctl.down[n]
<1> DEFINE B == Range(m.batches[now])
<1>0. /\ Opening(K, failing, started) /\ Merged(m, K, started)
      /\ Faulted(m, ctl', B)
    BY DEF Running, Processes
<1>1. n \notin K
    BY <1>0 DEF Opening
<1>2. ASSUME NEW e \in B PROVE e.fault.node # n
    <2> DEFINE k == e.fault.node
    <2>1. \/ ctl.down[k] = "compute" /\ (RecoveryTime(trace[ctl.active[k]]) = now \/ k \in K)
          \/ \E i \in DOMAIN started : e = Start(started[i])
        BY <1>0, <1>2, MergedEvent
    <2>2. ASSUME NEW i \in DOMAIN started, e = Start(started[i]) PROVE k # n
        BY <2>2, Events
    <2> QED BY <1>1, <2>1, <2>2
<1>3. m.active = ctl.active /\ m.down = ctl.down
    BY <1>0 DEF Merged, SameFaults
<1> HIDE DEF B
<1> QED BY <1>0, <1>1, <1>2, <1>3 DEF Faulted

\* What the engine does with its own records in such an instant.
Moved(K, failing, started) ==
    /\ now' = now /\ debris' = debris
    /\ nextId' = nextId + Len(started)
    /\ trace' \in Seq(Fault) /\ Len(trace') = Len(trace) + Len(started)
    /\ \A i \in DOMAIN trace :
         trace'[i] = IF trace[i].id \in {outage[n].id : n \in K} THEN Shortened(trace[i], now)
                     ELSE trace[i]
    /\ \A i \in DOMAIN started : trace'[Len(trace) + i] = started[i]
    /\ outage' \in [Server -> Fault \cup {NoOutage}]
    /\ \A n \in failing : \E i \in DOMAIN started : started[i].node = n /\ outage'[n] = started[i]
    /\ \A n \in K : outage'[n] = NoOutage
    /\ \A n \in Server : n \notin failing /\ n \notin K =>
         /\ outage'[n] \in {outage[n], NoOutage}
         /\ outage[n] # NoOutage /\ RecoveryTime(outage[n]) > now => outage'[n] = outage[n]
    /\ stepped' \in BOOLEAN /\ (stepped => stepped') /\ (started # <<>> => stepped')
    /\ ~StepDue'
    /\ stepped' /\ ~stepped => \A n \in Lost : \E i \in DOMAIN started : started[i].node = n

\* The trace keeps what is not cut short, under its number.
LEMMA TraceKept ==
    ASSUME IInv, NEW K, NEW failing, NEW started, Opening(K, failing, started),
           Moved(K, failing, started)
    PROVE  /\ DOMAIN trace' = 1..(Len(trace) + Len(started)) /\ Len(trace') = Len(trace) + Len(started)
           /\ Len(trace) \in Nat /\ Len(started) \in Nat
           /\ DOMAIN trace = 1..Len(trace) /\ DOMAIN started = 1..Len(started)
           /\ \A i \in DOMAIN trace' : trace'[i] \in Fault /\ trace'[i].id = i
           /\ \A i \in DOMAIN started :
                /\ started[i].id \in DOMAIN trace' /\ trace'[started[i].id] = started[i]
                /\ started[i] \in Range(trace')
           /\ \A n \in Sat : ctl.down[n] # "none" /\ n \notin K =>
                trace'[ctl.active[n]] = trace[ctl.active[n]] /\ ctl.active[n] \in DOMAIN trace'
           /\ nextId' = Len(trace') + 1
<1>1. /\ Len(trace) \in Nat /\ DOMAIN trace = 1..Len(trace) /\ nextId = Len(trace) + 1
      /\ \A i \in DOMAIN trace : trace[i] \in Fault /\ trace[i].id = i
    BY Basics
<1>2. /\ Len(started) \in Nat /\ DOMAIN started = 1..Len(started)
      /\ \A i \in DOMAIN started : started[i] \in Fault
    BY StartedFacts
<1>3. \A i \in DOMAIN started : started[i].id = nextId + i - 1
    BY DEF Opening
<1>4. /\ Len(trace') = Len(trace) + Len(started) /\ nextId' = nextId + Len(started)
      /\ trace' \in Seq(Fault)
    BY DEF Moved
<1>5. DOMAIN trace' = 1..(Len(trace) + Len(started)) /\ \A i \in DOMAIN trace' : trace'[i] \in Fault
    BY <1>4, LenProperties
<1>6. \A i \in DOMAIN started : trace'[Len(trace) + i] = started[i]
    BY DEF Moved
<1>7. \A i \in DOMAIN started : /\ started[i].id \in DOMAIN trace'
                                /\ trace'[started[i].id] = started[i]
    BY <1>1, <1>2, <1>3, <1>5, <1>6
<1>8. \A i \in DOMAIN trace :
        /\ trace'[i] = IF trace[i].id \in {outage[n].id : n \in K} THEN Shortened(trace[i], now)
                       ELSE trace[i]
    BY DEF Moved
<1>9. ASSUME NEW i \in DOMAIN trace' PROVE trace'[i].id = i
    <2>1. CASE i \in DOMAIN trace
        <3>1. \A f : Shortened(f, now).id = f.id \/ f \notin Fault
            BY FaultFields DEF Shortened, Fault
        <3>2. Shortened(trace[i], now).id = trace[i].id
            BY <1>1, <2>1, <3>1
        <3> HIDE DEF Shortened
        <3> QED BY <1>1, <1>8, <2>1, <3>2
    <2>2. CASE i \notin DOMAIN trace
        <3>1. i - Len(trace) \in DOMAIN started /\ i = Len(trace) + (i - Len(trace))
            BY <1>1, <1>2, <1>5, <1>9, <2>2
        <3>2. started[i - Len(trace)].id = i
            BY <1>1, <1>2, <1>3, <1>5, <3>1, SMTT(30)
        <3> QED BY <1>6, <3>1, <3>2
    <2> QED BY <2>1, <2>2
<1>10. ASSUME NEW n \in Sat, ctl.down[n] # "none", n \notin K
       PROVE  trace'[ctl.active[n]] = trace[ctl.active[n]] /\ ctl.active[n] \in DOMAIN trace'
    <2> DEFINE f == trace[ctl.active[n]]
    <2>1. ctl.active[n] \in DOMAIN trace /\ f.id = ctl.active[n] /\ f.node = n
        BY <1>10, ActiveFault
    <2>2. \A k \in K : outage[k].id = ctl.active[k] /\ trace[outage[k].id].node = k
        BY CutFacts
    <2>3. \A k \in K : outage[k].id # f.id
        BY <1>10, <2>1, <2>2
    <2>4. f.id \notin {outage[k].id : k \in K}
        BY <2>3
    <2>5. trace'[ctl.active[n]] = f
        BY <1>8, <2>1, <2>4
    <2>6. ctl.active[n] \in DOMAIN trace'
        BY <1>1, <1>2, <1>5, <2>1
    <2> QED BY <2>5, <2>6
<1>11. nextId' = Len(trace') + 1
    BY <1>1, <1>2, <1>4
<1>12. \A i \in DOMAIN started : started[i] \in Range(trace')
    BY <1>7 DEF Range
<1> QED BY <1>1, <1>2, <1>4, <1>5, <1>7, <1>9, <1>10, <1>11, <1>12

\* What is ahead after the batch.
LEMMA AheadAfter ==
    ASSUME IInv, NEW K, NEW failing, NEW started, NEW m, Running(K, failing, started, m),
           NEW t \in Time, t > now
    PROVE  /\ OneByOne(ctl'.batches[t])
           /\ Range(ctl'.batches[t]) =
                (Range(ctl.batches[t]) \ {Recovery(outage[n]) : n \in K})
                    \cup {Recovery(f) : f \in Expected(Range(started), t)}
           /\ t \in ctl'.pending <=> ctl'.batches[t] # <<>>
<1>1. Merged(m, K, started) /\ Processes(m, ctl', now)
    BY DEF Running
<1>2. t # now
    BY Basics
<1>3. ctl'.batches[t] = m.batches[t] /\ (t \in ctl'.pending <=> t \in m.pending)
    BY <1>1, <1>2 DEF Processes
<1> QED BY <1>1, <1>3 DEF Merged

\* The clauses of NodeInv about the satellite's loss.
LEMMA LossKept ==
    ASSUME IInv, NEW K, NEW failing, NEW started, NEW m, Running(K, failing, started, m),
           Moved(K, failing, started), NEW n \in Sat
    PROVE  ctl'.down[n] = "satellite" <=>
              debris'[n] # NoTime /\ (debris'[n] < now' \/ (debris'[n] = now' /\ stepped'))
<1>1. ctl.down[n] = "satellite" <=>
         debris[n] # NoTime /\ (debris[n] < now \/ (debris[n] = now /\ stepped))
    <2>1. NodeInv(n)
        BY DEF IInv
    <2> QED BY <2>1 DEF NodeInv
<1>2. /\ now' = now /\ debris' = debris /\ (stepped => stepped')
      /\ started # <<>> => stepped'
      /\ stepped' /\ ~stepped => \A k \in Lost : \E i \in DOMAIN started : started[i].node = k
    BY DEF Moved
<1>3. Opening(K, failing, started) /\ Merged(m, K, started)
    BY DEF Running
<1>4. now \in Nat /\ debris[n] \in Time \cup {NoTime} /\ Time \subseteq Nat
    BY Basics
<1>5. CASE \E i \in DOMAIN started : started[i].node = n
    <2>1. PICK i \in DOMAIN started : started[i].node = n
        BY <1>5
    <2>2. ctl'.down[n] = started[i].kind
        BY <2>1, NodeStarts
    <2>3. stepped'
        <3>1. started # <<>>
            BY <2>1
        <3> QED BY <1>2, <3>1
    <2>4. CASE started[i].kind = "satellite"
        <3>1. n \in Lost
            BY <1>3, <2>1, <2>4 DEF Opening
        <3>2. debris[n] = now /\ debris[n] # NoTime
            BY <1>4, <3>1 DEF Lost, NoTime
        <3> QED BY <1>2, <2>2, <2>3, <2>4, <3>2
    <2>5. CASE started[i].kind = "compute"
        <3>1. n \in failing
            BY <1>3, <2>1, <2>5 DEF Opening
        <3>2. n \notin Lost /\ ctl.down[n] = "none"
            BY <1>3, <3>1 DEF Opening
        <3>3. debris[n] # now
            BY <3>2 DEF Lost
        <3> QED BY <1>1, <1>2, <2>2, <2>5, <3>2, <3>3
    <2> QED BY <2>4, <2>5, StartedFacts, FaultFields, <1>3
<1>6. CASE \A i \in DOMAIN started : started[i].node # n
    <2>1. debris[n] = now /\ stepped' => stepped
        BY <1>2, <1>6 DEF Lost
    <2>2. CASE ctl.down[n] = "compute" /\ RecoveryTime(trace[ctl.active[n]]) = now
        <3>1. ctl'.down[n] = "none"
            BY <1>6, <2>2, NodeRecovers
        <3> QED BY <1>1, <1>2, <2>1, <2>2, <3>1
    <2>3. CASE ~(ctl.down[n] = "compute" /\ RecoveryTime(trace[ctl.active[n]]) = now)
        <3>1. ctl'.down[n] = ctl.down[n]
            BY <1>6, <2>3, NodeStays
        <3> QED BY <1>1, <1>2, <2>1, <3>1
    <2> QED BY <2>2, <2>3
<1> QED BY <1>5, <1>6

\* A node's compute fault, after the batch.
LEMMA NodeKept ==
    ASSUME IInv, NEW K, NEW failing, NEW started, NEW m, Running(K, failing, started, m),
           Moved(K, failing, started), NEW n \in Sat
    PROVE  NodeInv(n)'
<1> DEFINE f == trace'[ctl'.active[n]]
<1>1. Opening(K, failing, started) /\ Merged(m, K, started) /\ Processes(m, ctl', now)
    BY DEF Running
<1>2. now' = now /\ now \in Nat /\ now \in Time /\ (stepped => stepped') /\ now < Duration
      /\ Duration \in Nat
    BY <1>1, Basics DEF Moved, Opening
<1>3. ctl'.processed = ctl.processed \cup {now} /\ ctl.processed \subseteq 0..now
    BY <1>1, Basics DEF Processes, Merged, SameFaults
<1>4. ctl'.down[n] = "satellite" <=>
         debris'[n] # NoTime /\ (debris'[n] < now' \/ (debris'[n] = now' /\ stepped'))
    BY LossKept
<1>5. CASE \E i \in DOMAIN started : started[i].node = n
    <2>1. PICK i \in DOMAIN started : started[i].node = n
        BY <1>5
    <2> DEFINE g == started[i]
    <2>2. /\ g \in Fault /\ ctl'.active[n] = g.id /\ ctl'.down[n] = g.kind
          /\ \E k \in DOMAIN ctl'.log : ctl'.log[k].event = Start(g)
        BY <2>1, NodeStarts
    <2>3. g.id \in Nat \ {0} /\ g.kind \in {"compute", "satellite"} /\ g.duration \in Nat
          /\ g.start \in Nat /\ RecoveryTime(g) = g.start + g.duration
        BY <2>2, FaultFields
    <2>4. f = g /\ ctl'.active[n] \in DOMAIN trace'
        BY <1>1, <2>2, TraceKept
    <2>5. g.start = now /\ stepped'
        <3>1. started # <<>>
            BY <2>1
        <3> QED BY <1>1, <3>1 DEF Opening, Moved
    <2>6. ASSUME g.kind = "compute"
          PROVE  /\ n \in Server /\ g.duration > 0 /\ outage'[n] = g
                 /\ RecoveryTime(g) > now
                 /\ RecoveryTime(g) < Duration =>
                      /\ RecoveryTime(g) \notin ctl'.processed
                      /\ Recovery(g) \in Range(ctl'.batches[RecoveryTime(g)])
        <3>1. n \in failing /\ g.duration > 0
            BY <1>1, <2>1, <2>6 DEF Opening
        <3>2. n \in Server
            BY <1>1, <3>1 DEF Opening
        <3>3. outage'[n] = g
            <4>1. PICK j \in DOMAIN started : started[j].node = n /\ outage'[n] = started[j]
                BY <3>1 DEF Moved
            <4>2. i = j
                BY <1>1, <2>1, <4>1 DEF Opening
            <4> QED BY <4>1, <4>2
        <3>4. RecoveryTime(g) > now /\ RecoveryTime(g) \in Nat
            BY <1>2, <2>3, <2>5, <3>1
        <3>5. ASSUME RecoveryTime(g) < Duration
              PROVE  /\ RecoveryTime(g) \notin ctl'.processed
                     /\ Recovery(g) \in Range(ctl'.batches[RecoveryTime(g)])
            <4> DEFINE t == RecoveryTime(g)
            <4>1. t \in Time /\ t > now /\ t \notin 0..now
                BY <1>2, <3>4, <3>5 DEF Time
            <4>2. g \in Expected(Range(started), t)
                BY <1>2, <2>3, <3>1, <3>5 DEF Expected, Range, Forever
            <4> HIDE DEF t, g
            <4>3. Recovery(g) \in Range(ctl'.batches[t])
                BY <4>1, <4>2, AheadAfter
            <4>4. t \notin ctl'.processed
                BY <1>2, <1>3, <4>1
            <4> QED BY <4>3, <4>4 DEF t
        <3> QED BY <3>1, <3>2, <3>3, <3>4, <3>5
    <2> HIDE DEF g, f
    <2>7. g.node = n
        BY <2>1 DEF g
    <2> QED BY <1>2, <1>4, <2>2, <2>3, <2>4, <2>5, <2>6, <2>7 DEF NodeInv, NoFault, f
<1>6. CASE \A i \in DOMAIN started : started[i].node # n
    <2>1. CASE ctl.down[n] = "compute" /\ RecoveryTime(trace[ctl.active[n]]) = now
        <3>1. ctl'.active[n] = NoFault /\ ctl'.down[n] = "none"
            BY <1>6, <2>1, NodeRecovers
        <3> QED BY <1>4, <3>1 DEF NodeInv
    <2>2. CASE ~(ctl.down[n] = "compute" /\ RecoveryTime(trace[ctl.active[n]]) = now)
        <3> DEFINE g == trace[ctl.active[n]]
        <3>1. n \notin K /\ ctl'.active[n] = ctl.active[n] /\ ctl'.down[n] = ctl.down[n]
            BY <1>6, <2>2, NodeStays
        <3>2. ctl.active[n] = NoFault <=> ctl.down[n] = "none"
            <4>1. NodeInv(n)
                BY DEF IInv
            <4> QED BY <4>1 DEF NodeInv
        <3>3. ASSUME ctl.down[n] # "none"
              PROVE  /\ f = g /\ ctl'.active[n] \in DOMAIN trace'
                     /\ g \in Fault /\ g.node = n /\ g.kind = ctl.down[n] /\ g.id = ctl.active[n]
            BY <1>1, <3>1, <3>3, TraceKept, ActiveFault
        <3>4. ASSUME ctl.down[n] = "compute"
              PROVE  /\ n \in Server /\ g.start <= now /\ (g.start = now => stepped')
                     /\ g.duration > 0 /\ RecoveryTime(g) >= now
                     /\ RecoveryTime(g) < Duration =>
                          /\ RecoveryTime(g) \notin ctl'.processed
                          /\ Recovery(g) \in Range(ctl'.batches[RecoveryTime(g)])
                     /\ RecoveryTime(g) > now => outage'[n] = g
                     /\ \E k \in DOMAIN ctl'.log : ctl'.log[k].event = Start(g)
            <4>1. /\ n \in Server /\ g.start <= now /\ (g.start = now => stepped)
                  /\ g.duration > 0 /\ RecoveryTime(g) >= now
                  /\ RecoveryTime(g) < Duration =>
                       /\ RecoveryTime(g) \notin ctl.processed
                       /\ Recovery(g) \in Range(ctl.batches[RecoveryTime(g)])
                  /\ RecoveryTime(g) > now => outage[n] = g
                  /\ \E k \in DOMAIN ctl.log : ctl.log[k].event = Start(g)
                BY <3>4, ActiveComputeFault
            <4>2. g \in Fault /\ g.node = n /\ RecoveryTime(g) \in Nat
                BY <3>3, <3>4, FaultFields
            <4>3. RecoveryTime(g) > now
                BY <1>2, <2>2, <3>4, <4>1, <4>2
            <4>4. \A k \in K : outage[k].node = k /\ outage[k] # g
                BY <1>1, <3>1, <4>2, CutFacts
            <4>5. ASSUME RecoveryTime(g) < Duration
                  PROVE  /\ RecoveryTime(g) \notin ctl'.processed
                         /\ Recovery(g) \in Range(ctl'.batches[RecoveryTime(g)])
                <5> DEFINE t == RecoveryTime(g)
                <5>1. t \in Time /\ t > now
                    BY <1>2, <4>2, <4>3, <4>5 DEF Time
                <5>2. Recovery(g) \in Range(ctl.batches[t]) /\ t \notin ctl.processed
                    BY <4>1, <4>5
                <5> HIDE DEF t, g
                <5>3. Recovery(g) \notin {Recovery(outage[k]) : k \in K}
                    <6>1. ASSUME NEW k \in K, Recovery(g) = Recovery(outage[k]) PROVE FALSE
                        BY <4>4, <6>1, Events
                    <6> QED BY <6>1
                <5>4. Recovery(g) \in Range(ctl'.batches[t])
                    BY <5>1, <5>2, <5>3, AheadAfter
                <5>5. t \notin ctl'.processed
                    BY <1>2, <1>3, <5>1, <5>2
                <5> QED BY <5>4, <5>5 DEF t
            <4>6. outage'[n] = g
                <5>1. n \notin failing
                    BY <1>1, <3>4 DEF Opening
                <5>2. outage[n] = g
                    BY <4>1, <4>3
                <5>3. g # NoOutage
                    BY <4>2 DEF NoOutage, Fault
                <5> QED BY <3>1, <4>1, <4>3, <5>1, <5>2, <5>3 DEF Moved
            <4>7. \E k \in DOMAIN ctl'.log : ctl'.log[k].event = Start(g)
                <5>1. PICK j \in DOMAIN ctl.log : ctl.log[j].event = Start(g)
                    BY <4>1
                <5> HIDE DEF g
                <5>2. PICK k \in DOMAIN m.log : m.log[k].event = Start(g)
                    BY <1>1, <4>4, <5>1 DEF Merged
                <5> QED BY <1>1, <5>2 DEF Processes, Faulted
            <4> QED BY <1>2, <4>1, <4>3, <4>5, <4>6, <4>7
        <3> HIDE DEF g, f
        <3>5. ctl'.active[n] = NoFault <=> ctl'.down[n] = "none"
            BY <3>1, <3>2
        <3>6. ctl'.down[n] # "none" => ctl'.active[n] \in DOMAIN trace' /\ f.node = n /\ f.kind = ctl'.down[n]
            BY <3>1, <3>3
        <3>7. ctl'.down[n] = "compute" =>
                 /\ n \in Server /\ f.start <= now' /\ (f.start = now' => stepped')
                 /\ f.duration > 0 /\ RecoveryTime(f) >= now'
                 /\ RecoveryTime(f) < Duration =>
                      /\ RecoveryTime(f) \notin ctl'.processed
                      /\ Recovery(f) \in Range(ctl'.batches[RecoveryTime(f)])
                 /\ RecoveryTime(f) > now' => outage'[n] = f
                 /\ \E k \in DOMAIN ctl'.log : ctl'.log[k].event = Start(f)
            BY <1>2, <3>1, <3>3, <3>4
        <3> QED BY <1>4, <3>5, <3>6, <3>7 DEF NodeInv, f
    <2> QED BY <2>1, <2>2
<1> QED BY <1>5, <1>6

LEMMA OutageKept ==
    ASSUME IInv, NEW K, NEW failing, NEW started, NEW m, Running(K, failing, started, m),
           Moved(K, failing, started), NEW n \in Server
    PROVE  OutageInv(n)'
<1> DEFINE f == outage'[n]
<1>1. Opening(K, failing, started) /\ Merged(m, K, started)
    BY DEF Running
<1>2. now' = now
    BY DEF Moved
<1>3. n \in Sat
    BY FaultAssumption
<1> SUFFICES ASSUME f # NoOutage
             PROVE  /\ f \in Range(trace') /\ f.node = n /\ f.kind = "compute"
                    /\ RecoveryTime(f) > now => ctl'.down[n] = "compute" /\ ctl'.active[n] = f.id
    BY <1>2 DEF OutageInv
<1>4. CASE n \in failing
    <2>1. PICK i \in DOMAIN started : started[i].node = n /\ f = started[i]
        BY <1>4 DEF Moved
    <2>2. n \notin Lost
        BY <1>1, <1>4 DEF Opening
    <2>3. f.kind = "compute"
        BY <1>1, <2>1, <2>2 DEF Opening
    <2> HIDE DEF f
    <2>4. f \in Range(trace')
        BY <1>1, <2>1, TraceKept
    <2>5. ctl'.down[n] = "compute" /\ ctl'.active[n] = f.id
        BY <2>1, <2>3, NodeStarts
    <2> QED BY <2>1, <2>3, <2>4, <2>5
<1>5. CASE n \in K
    BY <1>5 DEF Moved
<1>6. CASE n \notin failing /\ n \notin K
    <2>1. f = outage[n] /\ outage[n] # NoOutage
        BY <1>6 DEF Moved
    <2>2. /\ f \in Range(trace) /\ f.node = n /\ f.kind = "compute"
          /\ RecoveryTime(f) > now => ctl.down[n] = "compute" /\ ctl.active[n] = f.id
        <3>1. OutageInv(n)
            BY DEF IInv
        <3> QED BY <2>1, <3>1 DEF OutageInv
    <2> HIDE DEF f
    <2>3. PICK i \in DOMAIN trace : trace[i] = f
        BY <2>2 DEF Range
    <2>4. \A k \in K : outage[k].id \in DOMAIN trace /\ trace[outage[k].id].node = k
        BY <1>1, CutFacts
    <2>5. trace[i].id = i /\ i \in DOMAIN trace'
        BY <1>1, <2>3, Basics, TraceKept
    <2>6. trace[i].id \notin {outage[k].id : k \in K}
        BY <1>6, <2>2, <2>3, <2>4, <2>5
    <2>7. trace'[i] = f
        BY <2>3, <2>6 DEF Moved
    <2>8. f \in Range(trace')
        BY <2>5, <2>7 DEF Range
    <2>9. ASSUME RecoveryTime(f) > now
          PROVE  ctl'.down[n] = "compute" /\ ctl'.active[n] = f.id
        <3>1. ctl.down[n] = "compute" /\ ctl.active[n] = f.id /\ trace[ctl.active[n]] = f
            BY <2>2, <2>3, <2>5, <2>9
        <3>2. RecoveryTime(f) # now
            <4>1. now \in Nat /\ RecoveryTime(f) \in Nat
                BY <2>3, Basics, FaultFields
            <4> QED BY <2>9, <4>1
        <3>3. \A j \in DOMAIN started : started[j].node # n
            BY <1>1, <1>6, <3>1, <3>2 DEF Opening
        <3>4. ctl'.active[n] = ctl.active[n] /\ ctl'.down[n] = ctl.down[n]
            BY <1>3, <3>1, <3>2, <3>3, NodeStays
        <3> QED BY <3>1, <3>4
    <2> QED BY <2>2, <2>8, <2>9
<1> QED BY <1>4, <1>5, <1>6

LEMMA BatchKept ==
    ASSUME IInv, NEW K, NEW failing, NEW started, NEW m, Running(K, failing, started, m),
           Moved(K, failing, started), NEW t \in Time, t > now
    PROVE  BatchInv(t)'
<1> DEFINE batch == ctl'.batches[t]
<1>1. Opening(K, failing, started) /\ Merged(m, K, started)
    BY DEF Running
<1>2. t # now
    BY Basics
<1>3. OneByOne(batch)
    BY AheadAfter
<1>4. Range(batch) = (Range(ctl.batches[t]) \ {Recovery(outage[n]) : n \in K})
                         \cup {Recovery(f) : f \in Expected(Range(started), t)}
    BY AheadAfter
<1>5. ASSUME NEW e \in Range(batch)
      PROVE  /\ e.type = "RECOVERY" /\ t < Duration /\ RecoveryTime(e.fault) = t
             /\ ctl'.down[e.fault.node] = "compute" /\ e.fault = trace'[ctl'.active[e.fault.node]]
    <2> HIDE DEF batch
    <2>1. CASE e \in Range(ctl.batches[t]) \ {Recovery(outage[n]) : n \in K}
        <3> DEFINE k == e.fault.node
        <3>1. Open(t)
            BY DEF Open
        <3>2. /\ e.type = "RECOVERY" /\ t < Duration /\ RecoveryTime(e.fault) = t
              /\ k \in Sat /\ ctl.down[k] = "compute"
              /\ e.fault = trace[ctl.active[k]] /\ e = Recovery(e.fault)
            BY <2>1, <3>1, DueNow
        <3> HIDE DEF k
        <3>3. k \notin K
            <4>1. k \in K => outage[k] = trace[ctl.active[k]]
                BY <1>1 DEF Opening
            <4> QED BY <2>1, <3>2, <4>1
        <3>4. \A j \in DOMAIN started : started[j].node # k
            BY <1>1, <1>2, <3>2, <3>3 DEF Opening
        <3>5. ctl'.active[k] = ctl.active[k] /\ ctl'.down[k] = ctl.down[k]
            BY <1>2, <3>2, <3>4, NodeStays
        <3>6. trace'[ctl.active[k]] = trace[ctl.active[k]]
            BY <1>1, <3>2, <3>3, TraceKept
        <3> QED BY <3>2, <3>5, <3>6 DEF k
    <2>2. CASE e \in {Recovery(f) : f \in Expected(Range(started), t)}
        <3>1. PICK f \in Expected(Range(started), t) : e = Recovery(f)
            BY <2>2
        <3>2. f \in Range(started) /\ f.duration # Forever /\ RecoveryTime(f) = t /\ t < Duration
            BY DEF Expected
        <3>3. PICK i \in DOMAIN started : f = started[i]
            BY <3>2 DEF Range
        <3>4. f.kind = "compute"
            BY <1>1, <3>2, <3>3 DEF Opening
        <3>5. ctl'.active[f.node] = f.id /\ ctl'.down[f.node] = f.kind
            BY <3>3, NodeStarts
        <3>6. trace'[f.id] = f
            BY <1>1, <3>3, TraceKept
        <3>7. e.type = "RECOVERY" /\ e.fault = f
            BY <3>1, Events
        <3> QED BY <3>2, <3>4, <3>5, <3>6, <3>7
    <2> QED BY <1>4, <2>1, <2>2 DEF batch
<1> QED BY <1>3, <1>5 DEF BatchInv, OneByOne

LEMMA ClockKept ==
    ASSUME IInv, NEW K, NEW failing, NEW started, NEW m, Running(K, failing, started, m),
           Moved(K, failing, started)
    PROVE  ClockInv'
<1>1. Merged(m, K, started) /\ Processes(m, ctl', now)
    BY DEF Running
<1>2. now' = now /\ ~StepDue'
    BY DEF Moved
<1>3. ctl'.processed = ctl.processed \cup {now} /\ ctl'.pending = m.pending \ {now}
    BY <1>1 DEF Processes, Merged, SameFaults
<1>4. now \in Nat /\ now \in Time /\ ctl.processed \subseteq 0..now /\ Time \subseteq Nat
    BY Basics
<1>5. ctl'.processed \subseteq 0..now
    BY <1>3, <1>4
<1>6. ASSUME NEW t \in Time
      PROVE  t \in ctl'.pending <=> Open(t)' /\ ctl'.batches[t] # <<>>
    <2>1. CASE t > now
        <3>1. Open(t)'
            BY <1>2, <2>1 DEF Open
        <3> QED BY <2>1, <3>1, AheadAfter
    <2>2. CASE t = now
        <3>1. ~Open(t)'
            BY <1>2, <1>3, <1>4, <2>2 DEF Open
        <3> QED BY <1>3, <2>2, <3>1
    <2>3. CASE t < now
        <3>1. ~Open(t)'
            BY <1>2, <1>4, <2>3 DEF Open
        <3>2. t \notin m.pending
            BY <1>1, <2>3 DEF Merged
        <3> QED BY <1>3, <3>1, <3>2
    <2> QED BY <1>4, <2>1, <2>2, <2>3
<1> QED BY <1>2, <1>5, <1>6 DEF ClockInv

\* The log has no number that the trace has not.
LEMMA LogKept ==
    ASSUME IInv, NEW K, NEW failing, NEW started, NEW m, Running(K, failing, started, m),
           Moved(K, failing, started), NEW k \in DOMAIN ctl'.log
    PROVE  ctl'.log[k].event.fault.id < nextId'
<1> DEFINE B == Range(m.batches[now])
<1>1. Opening(K, failing, started) /\ Merged(m, K, started) /\ Faulted(m, ctl', B)
    BY DEF Running, Processes
<1>2. /\ nextId = Len(trace) + 1 /\ Len(trace) \in Nat /\ nextId' = nextId + Len(started)
      /\ Len(started) \in Nat /\ DOMAIN started = 1..Len(started)
      /\ DOMAIN trace = 1..Len(trace)
    BY <1>1, Basics, StartedFacts DEF Moved
<1>3. CASE ctl'.log[k].event \in B
    <2> DEFINE e == ctl'.log[k].event
    <2>0. "RECOVERY" # "START"
        OBVIOUS
    <2>1. CASE e.type = "START"
        <3>1. PICK i \in DOMAIN started : e = Start(started[i])
            BY <1>1, <1>3, <2>0, <2>1, MergedEvent
        <3>2. e.fault = started[i]
            BY <3>1, Events
        <3>3. e.fault.id = nextId + i - 1
            BY <1>1, <3>2 DEF Opening
        <3> QED BY <1>2, <3>3
    <2>2. CASE e.type = "RECOVERY"
        <3> DEFINE n == e.fault.node
        <3>1. n \in Sat /\ ctl.down[n] = "compute" /\ e.fault.id = ctl.active[n]
            BY <1>1, <1>3, <2>0, <2>2, MergedEvent
        <3>2. e.fault.id \in DOMAIN trace
            BY <3>1, ActiveFault
        <3> QED BY <1>2, <3>2
    <2>3. e.type = "START" \/ e.type = "RECOVERY"
        BY <1>1, <1>3, MergedEvent
    <2> QED BY <2>1, <2>2, <2>3
<1>4. CASE \E j \in DOMAIN m.log : ctl'.log[k].event = m.log[j].event
    <2>1. PICK j \in DOMAIN m.log : ctl'.log[k].event = m.log[j].event
        BY <1>4
    <2>2. PICK l \in DOMAIN ctl.log : m.log[j].event.fault.id = ctl.log[l].event.fault.id
        BY <1>1 DEF Merged
    <2>3. ctl.log[l].event.fault.id < nextId
        BY DEF IInv, TraceInv
    <2>4. ctl.log[l].event.fault.id \in Nat
        <3>1. ctl.log \in Seq(Entry)
            BY Basics DEF Typed
        <3>2. ctl.log[l] \in Entry
            BY <3>1, LenProperties
        <3>3. ctl.log[l].event.fault \in Fault
            BY <3>2, Events DEF Entry
        <3> QED BY <3>3, FaultFields
    <2> QED BY <1>2, <2>1, <2>2, <2>3, <2>4
<1> QED BY <1>1, <1>3, <1>4 DEF Faulted

LEMMA Settles ==
    ASSUME IInv, NEW K, NEW failing, NEW started, NEW m, Running(K, failing, started, m),
           Moved(K, failing, started)
    PROVE  IInv'
<1>1. Opening(K, failing, started) /\ Processes(m, ctl', now)
    BY DEF Running
<1>2. TypeOK'
    <2>1. now' \in Time /\ trace' \in Seq(Fault) /\ stepped' \in BOOLEAN
          /\ outage' \in [Server -> Fault \cup {NoOutage}]
        BY Basics DEF Moved
    <2>2. ctl' \in Controller
        BY <1>1 DEF Processes
    <2>3. nextId' \in Nat \ {0}
        BY <1>1, TraceKept
    <2> QED BY <2>1, <2>2, <2>3 DEF TypeOK
<1>3. NeverRejected' /\ ctl'.tasks = ctl'.down /\ ctl'.cut = {n \in Sat : ctl'.down[n] = "satellite"}
    BY <1>1 DEF Processes, NeverRejected
<1>4. debris' \in [Sat -> (Time \ {Duration}) \cup {NoTime}]
    BY Basics DEF Moved
<1>5. ClockInv'
    BY ClockKept
<1>6. TraceInv'
    <2>1. nextId' = Len(trace') + 1 /\ \A i \in DOMAIN trace' : trace'[i].id = i
        BY <1>1, TraceKept
    <2>2. \A k \in DOMAIN ctl'.log : ctl'.log[k].event.fault.id < nextId'
        BY LogKept
    <2> QED BY <2>1, <2>2 DEF TraceInv
<1>7. \A n \in Sat : NodeInv(n)'
    BY NodeKept
<1>8. \A n \in Server : OutageInv(n)'
    BY OutageKept
<1>9. \A t \in Time : Open(t)' => BatchInv(t)'
    <2>1. now' = now /\ now \in ctl'.processed
        BY <1>1 DEF Moved, Processes
    <2>2. \A t \in Time : Open(t)' => t > now
        BY <2>1 DEF Open
    <2> QED BY <2>2, BatchKept
<1> QED BY <1>2, <1>3, <1>4, <1>5, <1>6, <1>7, <1>8, <1>9 DEF IInv

-----------------------------------------------------------------------------
(* The steps *)

LEMMA OpenBatch ==
    ASSUME IInv, NEW t \in Time, Open(t)
    PROVE  /\ OneByOne(ctl.batches[t]) /\ (t \in ctl.pending <=> ctl.batches[t] # <<>>)
<1>1. BatchInv(t) /\ ClockInv
    BY DEF IInv
<1> QED BY <1>1 DEF BatchInv, OneByOne, ClockInv

LEMMA PastNotPending ==
    ASSUME IInv, NEW t \in Time, ~Open(t)
    PROVE  t \notin ctl.pending
<1>1. ClockInv
    BY DEF IInv
<1> QED BY <1>1 DEF ClockInv

LEMMA BatchStep ==
    ASSUME IInv, Batch
    PROVE  IInv'
<1> DEFINE none == {}
           empty == <<>>
<1>1. now \in Time /\ now \in Nat /\ now \in ctl.pending /\ ctl' = ProcessBatch(ctl, now)
      /\ ~StepDue /\ UNCHANGED <<now, stepped, debris, outage, nextId, trace>>
    BY Basics DEF Batch
<1>2. Open(now)
    BY <1>1, PastNotPending
<1>3. now \notin ctl.processed /\ ctl.batches[now] # <<>> /\ OneByOne(ctl.batches[now])
    BY <1>1, <1>2, OpenBatch DEF Open
<1>4. ctl.batches[now] \in Seq(Event)
    BY <1>1, Basics DEF Typed
<1>5. now < Duration
    <2>1. PICK e : e \in Range(ctl.batches[now])
        BY <1>3, <1>4, EmptyRange
    <2> QED BY <1>1, <1>2, <2>1, DueNow
<1>6. empty \in Seq(Fault) /\ Len(empty) = 0 /\ DOMAIN empty = {} /\ Range(empty) = {}
    BY DEF Range
<1>7. \A t : Expected(Range(empty), t) = none
    BY <1>6 DEF Expected
<1>8. \A n : n \notin none
    OBVIOUS
<1> HIDE DEF none, empty
<1>9. Opening(none, none, empty)
    BY <1>3, <1>5, <1>6, <1>8 DEF Opening
<1>10. Merged(ctl, none, empty)
    <2>1. ctl \in Controller /\ SameFaults(ctl, ctl)
        BY Basics DEF SameFaults
    <2>2. Range(ctl.batches[now]) =
            (Range(ctl.batches[now]) \cup {Recovery(Shortened(outage[n], now)) : n \in none})
                \cup {Start(empty[i]) : i \in DOMAIN empty}
        BY <1>6, <1>8
    <2>3. ASSUME NEW t \in Time, t > now
          PROVE  /\ OneByOne(ctl.batches[t])
                 /\ Range(ctl.batches[t]) =
                      (Range(ctl.batches[t]) \ {Recovery(outage[n]) : n \in none})
                          \cup {Recovery(f) : f \in Expected(Range(empty), t)}
                 /\ t \in ctl.pending <=> ctl.batches[t] # <<>>
        <3>1. Open(t)
            BY <2>3 DEF Open
        <3>2. OneByOne(ctl.batches[t]) /\ (t \in ctl.pending <=> ctl.batches[t] # <<>>)
            BY <3>1, OpenBatch
        <3> QED BY <1>7, <1>8, <3>2
    <2>4. \A t \in Time : t < now => t \notin ctl.pending
        <3>1. \A t \in Time : t < now => ~Open(t)
            BY Basics DEF Open
        <3> QED BY <3>1, PastNotPending
    <2> QED BY <1>3, <2>1, <2>2, <2>3, <2>4 DEF Merged
<1>11. Due(ctl, now)
    BY <1>3, <1>9, <1>10, MergedIsDue
<1>12. Processes(ctl, ctl', now)
    BY <1>1, <1>11, ProcessBatchRuns
<1>13. Running(none, none, empty, ctl)
    BY <1>9, <1>10, <1>12 DEF Running
<1>14. Moved(none, none, empty)
    <2>1. TypeOK
        BY DEF IInv
    <2>2. nextId' = nextId + Len(empty) /\ Len(trace') = Len(trace) + Len(empty)
        BY <1>1, <1>6, Basics
    <2>3. \A i \in DOMAIN trace :
            trace'[i] = IF trace[i].id \in {outage[n].id : n \in none} THEN Shortened(trace[i], now)
                        ELSE trace[i]
        BY <1>1, <1>8
    <2>4. ~StepDue'
        BY <1>1 DEF StepDue, OnGrid, Lost
    <2> QED BY <1>1, <1>6, <1>8, <2>1, <2>2, <2>3, <2>4 DEF Moved, TypeOK
<1> QED BY <1>13, <1>14, Settles

LEMMA TickStep ==
    ASSUME IInv, Tick
    PROVE  IInv'
<1>1. /\ now' = now + 1 /\ stepped' = FALSE
      /\ UNCHANGED <<debris, ctl, outage, nextId, trace>>
      /\ now < Duration /\ ~StepDue /\ now \notin ctl.pending
    BY DEF Tick, InstantOver
<1>2. now \in Nat /\ now \in Time /\ ctl.processed \subseteq 0..now /\ Time \subseteq Nat /\ Duration \in Nat
    BY Basics
<1>3. now + 1 \notin ctl.processed /\ now' \in Time
    BY <1>1, <1>2 DEF Time
<1>4. \A t \in Time : (Open(t)' => t > now) /\ (t > now => Open(t)')
    BY <1>1, <1>2, <1>3 DEF Open
<1>5. TypeOK'
    BY <1>1, <1>3 DEF IInv, TypeOK
<1>6. NeverRejected' /\ ctl'.tasks = ctl'.down
      /\ ctl'.cut = {n \in Sat : ctl'.down[n] = "satellite"}
      /\ debris' \in [Sat -> (Time \ {Duration}) \cup {NoTime}]
    BY <1>1 DEF IInv, NeverRejected
<1>7. ClockInv'
    <2>1. ctl'.processed \subseteq 0..now' /\ now' \notin ctl'.processed
        BY <1>1, <1>2, <1>3
    <2>2. ASSUME NEW t \in Time
          PROVE  t \in ctl'.pending <=> Open(t)' /\ ctl'.batches[t] # <<>>
        <3>1. CASE t > now
            <4>1. Open(t) /\ Open(t)'
                BY <1>4, <3>1 DEF Open
            <4>2. t \in ctl.pending <=> ctl.batches[t] # <<>>
                BY <4>1, OpenBatch
            <4> QED BY <1>1, <4>1, <4>2
        <3>2. CASE ~(t > now)
            <4>1. ~Open(t)'
                BY <1>4, <3>2
            <4>2. t \notin ctl.pending
                <5>1. CASE t = now
                    BY <1>1, <5>1
                <5>2. CASE t # now
                    <6>1. ~Open(t)
                        BY <3>2, <5>2 DEF Open
                    <6> QED BY <6>1, PastNotPending
                <5> QED BY <5>1, <5>2
            <4> QED BY <1>1, <4>1, <4>2
        <3> QED BY <3>1, <3>2
    <2> QED BY <2>1, <2>2 DEF ClockInv
<1>8. TraceInv'
    <2>1. TraceInv
        BY DEF IInv
    <2> QED BY <1>1, <2>1 DEF TraceInv
<1>9. ASSUME NEW n \in Sat PROVE NodeInv(n)'
    <2> DEFINE f == trace[ctl.active[n]]
    <2>1. NodeInv(n)
        BY DEF IInv
    <2>2. ctl.down[n] = "satellite" <=> debris[n] # NoTime /\ (debris[n] < now + 1)
        <3>1. ctl.down[n] = "satellite" <=>
                 debris[n] # NoTime /\ (debris[n] < now \/ (debris[n] = now /\ stepped))
            BY <2>1 DEF NodeInv
        <3>2. debris[n] \in Nat \cup {NoTime}
            BY <1>2, Basics
        <3>3. debris[n] = now => stepped
            BY <1>1 DEF StepDue, Lost
        <3>4. debris[n] = NoTime \/ debris[n] \in Nat
            BY <3>2
        <3> QED BY <1>2, <3>1, <3>3, <3>4
    <2>3. ASSUME ctl.down[n] = "compute"
          PROVE  /\ n \in Server /\ f.start <= now + 1 /\ f.start # now + 1
                 /\ f.duration > 0 /\ RecoveryTime(f) >= now + 1
                 /\ RecoveryTime(f) < Duration =>
                      /\ RecoveryTime(f) \notin ctl.processed
                      /\ Recovery(f) \in Range(ctl.batches[RecoveryTime(f)])
                 /\ RecoveryTime(f) > now + 1 => outage[n] = f
                 /\ \E k \in DOMAIN ctl.log : ctl.log[k].event = Start(f)
        <3>1. /\ n \in Server /\ f.start <= now
              /\ f.duration > 0 /\ RecoveryTime(f) >= now
              /\ RecoveryTime(f) < Duration =>
                   /\ RecoveryTime(f) \notin ctl.processed
                   /\ Recovery(f) \in Range(ctl.batches[RecoveryTime(f)])
              /\ RecoveryTime(f) > now => outage[n] = f
              /\ \E k \in DOMAIN ctl.log : ctl.log[k].event = Start(f)
            BY <2>3, ActiveComputeFault
        <3>2. RecoveryTime(f) \in Nat /\ f.start \in Nat
            BY <2>3, ActiveFault, FaultFields
        <3>3. RecoveryTime(f) # now
            <4> SUFFICES ASSUME RecoveryTime(f) = now PROVE FALSE
                OBVIOUS
            <4>1. now \notin ctl.processed /\ Recovery(f) \in Range(ctl.batches[now])
                BY <1>1, <3>1
            <4>2. Open(now)
                BY <4>1 DEF Open
            <4>3. ctl.batches[now] = <<>>
                BY <1>1, <1>2, <4>2, OpenBatch
            <4>4. Range(<<>>) = {}
                BY DEF Range
            <4> QED BY <4>1, <4>3, <4>4
        <3> HIDE DEF f
        <3> QED BY <1>2, <3>1, <3>2, <3>3
    <2> HIDE DEF f
    <2>4. /\ ctl.active[n] = NoFault <=> ctl.down[n] = "none"
          /\ ctl.down[n] # "none" =>
               ctl.active[n] \in DOMAIN trace /\ f.node = n /\ f.kind = ctl.down[n]
        BY <2>1 DEF NodeInv, f
    <2>5. f' = f
        BY <1>1 DEF f
    <2>6. /\ ctl'.down = ctl.down /\ ctl'.active = ctl.active /\ trace' = trace
          /\ ctl'.processed = ctl.processed /\ ctl'.batches = ctl.batches /\ ctl'.log = ctl.log
          /\ outage' = outage /\ debris' = debris
        BY <1>1
    <2>7. debris[n] # NoTime => debris[n] \in Nat
        BY <1>2, Basics
    <2> QED BY <1>1, <1>2, <2>2, <2>3, <2>4, <2>6, <2>7 DEF NodeInv, f
<1>10. ASSUME NEW n \in Server PROVE OutageInv(n)'
    <2>1. OutageInv(n)
        BY DEF IInv
    <2>2. ASSUME outage[n] # NoOutage PROVE RecoveryTime(outage[n]) \in Nat
        <3>1. outage[n] \in Range(trace)
            BY <2>1, <2>2 DEF OutageInv
        <3>2. outage[n] \in Fault
            BY <3>1, Basics DEF Range
        <3> QED BY <3>2, FaultFields
    <2>3. ASSUME outage[n] # NoOutage, RecoveryTime(outage[n]) > now + 1
          PROVE  RecoveryTime(outage[n]) > now
        BY <1>2, <2>2, <2>3
    <2> QED BY <1>1, <2>1, <2>3 DEF OutageInv
<1>11. ASSUME NEW t \in Time, Open(t)' PROVE BatchInv(t)'
    <2>1. Open(t)
        BY <1>4, <1>11 DEF Open
    <2>2. BatchInv(t)
        BY <2>1 DEF IInv
    <2> QED BY <1>1, <2>2 DEF BatchInv
<1> QED BY <1>5, <1>6, <1>7, <1>8, <1>9, <1>10, <1>11 DEF IInv

\* Faults that start now, one on each of the nodes.
Numbered(faults, first, nodes) ==
    /\ faults \in Seq(Fault) /\ Len(faults) \in Nat /\ DOMAIN faults = 1..Len(faults)
    /\ \A i \in DOMAIN faults :
         faults[i].id = first + i - 1 /\ faults[i].start = now /\ faults[i].node \in nodes
    /\ \A n \in nodes : \E i \in DOMAIN faults : faults[i].node = n
    /\ \A i, j \in DOMAIN faults : i # j => faults[i].node # faults[j].node

\* The faults that are drawn, one for each node that fails.
LEMMA Drawn ==
    ASSUME IInv, now < Duration, NEW failing \in SUBSET Eligible, NEW length \in [failing -> Outage],
           NEW computed, computed = ComputeFaults(failing, length)
    PROVE  /\ Numbered(computed, nextId, failing)
           /\ \A i \in DOMAIN computed : computed[i].kind = "compute" /\ computed[i].duration > 0
<1> DEFINE order == Sorted(failing)
<1>1. failing \in SUBSET Sat
    BY FaultAssumption DEF Eligible
<1>2. /\ DOMAIN order = 1..Cardinality(failing) /\ Cardinality(failing) \in Nat
      /\ \A i \in DOMAIN order : order[i] \in failing
      /\ \A x \in failing : \E i \in DOMAIN order : order[i] = x
      /\ \A i, j \in DOMAIN order : i # j => order[i] # order[j]
    BY <1>1, SortedLists
<1>3. computed = [i \in DOMAIN order |->
         [id |-> nextId + i - 1, node |-> order[i], kind |-> "compute",
          start |-> now, duration |-> length[order[i]]]]
    BY DEF ComputeFaults
<1> HIDE DEF order
<1>4. DOMAIN computed = 1..Cardinality(failing)
    BY <1>2, <1>3
<1>5. now \in Time /\ nextId \in Nat \ {0}
    BY DEF IInv, TypeOK
<1>6. ASSUME NEW n \in failing
      PROVE  n \in Sat /\ length[n] \in Nat /\ length[n] > 0
    <2>1. length[n] \in Outage
        OBVIOUS
    <2>2. length[n] \in Nat \ {0}
        BY <2>1, EngineAssumption
    <2> QED BY <1>1, <2>2
<1>7. ASSUME NEW i \in DOMAIN computed
      PROVE  /\ computed[i] \in Fault
             /\ computed[i].id = nextId + i - 1 /\ computed[i].start = now
             /\ computed[i].kind = "compute" /\ computed[i].node = order[i]
             /\ computed[i].duration = length[order[i]]
    <2>1. i \in Nat \ {0} /\ order[i] \in failing
        BY <1>2, <1>4, <1>7
    <2>2. nextId + i - 1 \in Nat \ {0}
        BY <1>5, <2>1
    <2>3. order[i] \in Sat /\ length[order[i]] \in Nat
        BY <1>6, <2>1
    <2>4. "compute" \in FaultKind \ {"none"}
        BY DEF FaultKind
    <2>5. computed[i] = [id |-> nextId + i - 1, node |-> order[i], kind |-> "compute",
                         start |-> now, duration |-> length[order[i]]]
        BY <1>3, <1>7
    <2> QED BY <1>5, <2>2, <2>3, <2>4, <2>5 DEF Fault
<1>8. computed \in Seq(Fault) /\ Len(computed) = Cardinality(failing)
    <2>1. computed = [i \in 1..Cardinality(failing) |-> computed[i]]
        BY <1>3, <1>4
    <2>2. computed \in [1..Cardinality(failing) -> Fault]
        BY <1>4, <1>7, <2>1
    <2>3. computed \in Seq(Fault)
        BY <1>2, <2>2, SeqDef
    <2> QED BY <1>2, <1>4, <2>3, LenProperties
<1> QED BY <1>2, <1>4, <1>6, <1>7, <1>8 DEF Numbered

LEMMA LostFaults ==
    ASSUME IInv, now < Duration, NEW first \in Nat \ {0},
           NEW lost, lost = SatelliteFaults(first)
    PROVE  /\ Numbered(lost, first, Lost)
           /\ \A i \in DOMAIN lost : lost[i].kind = "satellite" /\ lost[i].duration = Forever
<1> DEFINE order == Sorted(Lost)
<1>1. Lost \in SUBSET Sat
    BY DEF Lost
<1>2. /\ DOMAIN order = 1..Cardinality(Lost) /\ Cardinality(Lost) \in Nat
      /\ \A i \in DOMAIN order : order[i] \in Lost
      /\ \A x \in Lost : \E i \in DOMAIN order : order[i] = x
      /\ \A i, j \in DOMAIN order : i # j => order[i] # order[j]
    BY <1>1, SortedLists
<1>3. lost = [i \in DOMAIN order |->
         [id |-> first + i - 1, node |-> order[i], kind |-> "satellite",
          start |-> now, duration |-> Forever]]
    BY DEF SatelliteFaults
<1> HIDE DEF order
<1>4. DOMAIN lost = 1..Cardinality(Lost)
    BY <1>2, <1>3
<1>5. now \in Time /\ Forever \in Nat
    BY DEF IInv, TypeOK, Forever
<1>7. ASSUME NEW i \in DOMAIN lost
      PROVE  /\ lost[i] \in Fault
             /\ lost[i].id = first + i - 1 /\ lost[i].start = now
             /\ lost[i].kind = "satellite" /\ lost[i].node = order[i]
             /\ lost[i].duration = Forever
    <2>1. i \in Nat \ {0} /\ order[i] \in Lost
        BY <1>2, <1>4, <1>7
    <2>2. first + i - 1 \in Nat \ {0}
        BY <2>1
    <2>3. order[i] \in Sat
        BY <1>1, <2>1
    <2>4. "satellite" \in FaultKind \ {"none"}
        BY DEF FaultKind
    <2>5. lost[i] = [id |-> first + i - 1, node |-> order[i], kind |-> "satellite",
                     start |-> now, duration |-> Forever]
        BY <1>3, <1>7
    <2> QED BY <1>5, <2>2, <2>3, <2>4, <2>5 DEF Fault
<1>8. lost \in Seq(Fault) /\ Len(lost) = Cardinality(Lost)
    <2>1. lost = [i \in 1..Cardinality(Lost) |-> lost[i]]
        BY <1>3, <1>4
    <2>2. lost \in [1..Cardinality(Lost) -> Fault]
        BY <1>4, <1>7, <2>1
    <2>3. lost \in Seq(Fault)
        BY <1>2, <2>2, SeqDef
    <2> QED BY <1>2, <1>4, <2>3, LenProperties
<1>9. /\ \A i \in DOMAIN lost : lost[i].node \in Lost
      /\ \A n \in Lost : \E i \in DOMAIN lost : lost[i].node = n
      /\ \A i, j \in DOMAIN lost : i # j => lost[i].node # lost[j].node
    BY <1>2, <1>4, <1>7
<1> QED BY <1>2, <1>4, <1>7, <1>8, <1>9 DEF Numbered

\* Whose fault is cut short.
LEMMA WhoIsCut ==
    ASSUME IInv, StepDue, NEW n \in Sat
    PROVE  /\ n \in ToShorten =>
                /\ n \in Lost /\ n \in Server /\ ctl.down[n] = "compute" /\ Outages[n] = outage[n]
                /\ outage[n] = trace[ctl.active[n]] /\ outage[n].start < now
                /\ RecoveryTime(outage[n]) > now /\ outage[n] # NoOutage
           /\ n \in Lost =>
                \/ ctl.down[n] = "none"
                \/ /\ ctl.down[n] = "compute"
                   /\ RecoveryTime(trace[ctl.active[n]]) = now \/ n \in ToShorten
<1>1. ~stepped /\ now \in Nat
    BY Basics DEF StepDue
<1>2. ASSUME n \in ToShorten
      PROVE  /\ n \in Lost /\ n \in Server /\ ctl.down[n] = "compute" /\ Outages[n] = outage[n]
             /\ outage[n] = trace[ctl.active[n]] /\ outage[n].start < now
             /\ RecoveryTime(outage[n]) > now /\ outage[n] # NoOutage
    <2>1. n \in Lost /\ n \in Server /\ Outages[n] # NoOutage
        BY <1>2 DEF ToShorten
    <2>2. /\ outage[n] # NoOutage /\ ~(RecoveryTime(outage[n]) <= now)
          /\ Outages[n] = outage[n]
        BY <2>1 DEF Outages
    <2>3. OutageInv(n)
        BY <2>1 DEF IInv
    <2>4. PICK i \in DOMAIN trace : trace[i] = outage[n]
        BY <2>2, <2>3 DEF OutageInv, Range
    <2>5. outage[n] \in Fault /\ outage[n].id = i /\ RecoveryTime(outage[n]) \in Nat
          /\ outage[n].start \in Nat
        BY <2>4, Basics, FaultFields
    <2>6. RecoveryTime(outage[n]) > now
        BY <1>1, <2>2, <2>5
    <2>7. ctl.down[n] = "compute" /\ ctl.active[n] = outage[n].id
        BY <2>2, <2>3, <2>6 DEF OutageInv
    <2>8. outage[n] = trace[ctl.active[n]]
        BY <2>4, <2>5, <2>7
    <2>9. outage[n].start < now
        <3>1. outage[n].start <= now /\ (outage[n].start = now => stepped)
            BY <2>7, <2>8, ActiveComputeFault
        <3> QED BY <1>1, <2>5, <3>1
    <2> QED BY <2>1, <2>2, <2>6, <2>7, <2>8, <2>9
<1>3. ASSUME n \in Lost, ctl.down[n] # "none"
      PROVE  /\ ctl.down[n] = "compute"
             /\ RecoveryTime(trace[ctl.active[n]]) = now \/ n \in ToShorten
    <2> DEFINE f == trace[ctl.active[n]]
    <2>1. debris[n] = now
        BY <1>3 DEF Lost
    <2>2. ctl.down[n] # "satellite"
        <3>1. NodeInv(n)
            BY DEF IInv
        <3> QED BY <1>1, <2>1, <3>1 DEF NodeInv
    <2>3. f \in Fault /\ f.kind = ctl.down[n]
        BY <1>3, ActiveFault
    <2>4. ctl.down[n] = "compute" /\ RecoveryTime(f) \in Nat
        BY <2>2, <2>3, FaultFields
    <2>5. n \in Server /\ RecoveryTime(f) >= now /\ (RecoveryTime(f) > now => outage[n] = f)
        BY <2>4, ActiveComputeFault
    <2>6. CASE RecoveryTime(f) > now
        <3>1. outage[n] = f
            BY <2>5, <2>6
        <3>2. f # NoOutage
            BY <2>3 DEF NoOutage, Fault
        <3>3. Outages[n] = f
            BY <1>1, <2>4, <2>5, <2>6, <3>1 DEF Outages
        <3> QED BY <1>3, <2>4, <2>5, <3>2, <3>3 DEF ToShorten
    <2> QED BY <1>1, <2>4, <2>5, <2>6
<1> QED BY <1>2, <1>3

\* The faults that start are the ones drawn and the losses.
Covers(failing, computed, started) ==
    /\ \A n \in failing \cup Lost : \E i \in DOMAIN started : started[i].node = n
    /\ \A i \in DOMAIN computed : i \in DOMAIN started /\ started[i] = computed[i]
    /\ \A i \in DOMAIN started : started[i].kind = "satellite" <=> started[i].duration = Forever

\* The faults that start in a step of the engine open its batch.
LEMMA StepOpens ==
    ASSUME IInv, StepDue, NEW failing \in SUBSET Eligible, NEW length \in [failing -> Outage],
           NEW computed, computed = ComputeFaults(failing, length),
           NEW lost, lost = SatelliteFaults(nextId + Len(computed)),
           NEW started, started = computed \o lost
    PROVE  /\ Opening(ToShorten, failing, started) /\ Covers(failing, computed, started)
           /\ Numbered(computed, nextId, failing)
<1>1. now < Duration /\ now \in Nat /\ ~stepped
    BY Basics DEF StepDue
<1>2. /\ computed \in Seq(Fault) /\ Len(computed) \in Nat /\ DOMAIN computed = 1..Len(computed)
      /\ \A i \in DOMAIN computed :
           /\ computed[i].id = nextId + i - 1 /\ computed[i].start = now
           /\ computed[i].kind = "compute" /\ computed[i].node \in failing
           /\ computed[i].duration > 0
      /\ \A n \in failing : \E i \in DOMAIN computed : computed[i].node = n
      /\ \A i, j \in DOMAIN computed : i # j => computed[i].node # computed[j].node
    <2>1. /\ Numbered(computed, nextId, failing)
          /\ \A i \in DOMAIN computed : computed[i].kind = "compute" /\ computed[i].duration > 0
        BY <1>1, Drawn
    <2> QED BY <2>1 DEF Numbered
<1>3. nextId + Len(computed) \in Nat \ {0} /\ nextId \in Nat \ {0}
    BY <1>2 DEF IInv, TypeOK
<1>4. /\ lost \in Seq(Fault) /\ Len(lost) \in Nat /\ DOMAIN lost = 1..Len(lost)
      /\ \A i \in DOMAIN lost :
           /\ lost[i].id = nextId + Len(computed) + i - 1 /\ lost[i].start = now
           /\ lost[i].kind = "satellite" /\ lost[i].node \in Lost
           /\ lost[i].duration = Forever
      /\ \A n \in Lost : \E i \in DOMAIN lost : lost[i].node = n
      /\ \A i, j \in DOMAIN lost : i # j => lost[i].node # lost[j].node
    <2> DEFINE first == nextId + Len(computed)
    <2> HIDE DEF first
    <2>1. /\ Numbered(lost, first, Lost)
          /\ \A i \in DOMAIN lost : lost[i].kind = "satellite" /\ lost[i].duration = Forever
        BY <1>1, <1>3, LostFaults DEF first
    <2> QED BY <2>1 DEF Numbered, first
<1>5. /\ started \in Seq(Fault) /\ Len(started) = Len(computed) + Len(lost)
      /\ \A i \in 1..Len(started) :
           started[i] = IF i <= Len(computed) THEN computed[i] ELSE lost[i - Len(computed)]
    BY <1>2, <1>4, ConcatProperties
<1>6. DOMAIN started = 1..(Len(computed) + Len(lost))
    BY <1>5, LenProperties
<1>7. /\ \A i \in DOMAIN computed : i \in DOMAIN started /\ started[i] = computed[i]
      /\ \A j \in DOMAIN lost : /\ Len(computed) + j \in DOMAIN started
                                /\ started[Len(computed) + j] = lost[j]
    BY <1>2, <1>4, <1>5, <1>6
<1>8. ASSUME NEW i \in DOMAIN started
      PROVE  \/ i \in DOMAIN computed /\ started[i] = computed[i]
             \/ \E j \in DOMAIN lost : i = Len(computed) + j /\ started[i] = lost[j]
    <2>1. CASE i <= Len(computed)
        BY <1>2, <1>4, <1>5, <1>6, <1>8, <2>1
    <2>2. CASE ~(i <= Len(computed))
        <3>1. i - Len(computed) \in DOMAIN lost /\ i = Len(computed) + (i - Len(computed))
            BY <1>2, <1>4, <1>6, <1>8, <2>2
        <3>2. started[i] = lost[i - Len(computed)]
            BY <1>5, <1>6, <1>8, <2>2
        <3> QED BY <3>1, <3>2
    <2> QED BY <2>1, <2>2
<1>9. \A n \in failing : n \in Server /\ n \notin Lost /\ ctl.down[n] = "none"
    BY DEF Eligible
<1>10. now \notin ctl.processed
    <2>1. ClockInv
        BY DEF IInv
    <2> QED BY <2>1 DEF ClockInv
<1>11. ASSUME NEW i \in DOMAIN started, NEW f, f = started[i]
       PROVE  /\ f.id = nextId + i - 1 /\ f.start = now
              /\ \/ f.kind = "compute" /\ f.node \in failing /\ f.duration > 0
                 \/ f.kind = "satellite" /\ f.node \in Lost /\ f.duration = Forever
              /\ f.kind = "satellite" <=> f.duration = Forever
    <2>1. CASE i \in DOMAIN computed /\ f = computed[i]
        <3>1. computed[i].duration # Forever
            BY <1>2, <2>1 DEF Forever
        <3> QED BY <1>2, <2>1, <3>1
    <2>2. CASE \E j \in DOMAIN lost : i = Len(computed) + j /\ f = lost[j]
        <3>1. PICK j \in DOMAIN lost : i = Len(computed) + j /\ f = lost[j]
            BY <2>2
        <3>2. f.id = nextId + i - 1
            BY <1>2, <1>3, <1>4, <3>1, SMTT(30)
        <3> QED BY <1>4, <3>1, <3>2
    <2> QED BY <1>8, <1>11, <2>1, <2>2
<1>12. ASSUME NEW i \in DOMAIN started, NEW j \in DOMAIN started, i # j
       PROVE  started[i].node # started[j].node
    <2>1. \A a \in DOMAIN computed, b \in DOMAIN lost : computed[a].node # lost[b].node
        BY <1>2, <1>4, <1>9
    <2>2. CASE i \in DOMAIN computed /\ j \in DOMAIN computed
        BY <1>2, <1>7, <1>12, <2>2
    <2>3. CASE i \notin DOMAIN computed /\ j \in DOMAIN computed
        BY <1>7, <1>8, <2>1, <2>3
    <2>4. CASE i \in DOMAIN computed /\ j \notin DOMAIN computed
        BY <1>7, <1>8, <2>1, <2>4
    <2>5. CASE i \notin DOMAIN computed /\ j \notin DOMAIN computed
        <3>1. PICK a \in DOMAIN lost : i = Len(computed) + a /\ started[i] = lost[a]
            BY <1>8, <2>5
        <3>2. PICK b \in DOMAIN lost : j = Len(computed) + b /\ started[j] = lost[b]
            BY <1>8, <2>5
        <3>3. a # b
            BY <1>12, <3>1, <3>2
        <3>4. \A p, r \in DOMAIN lost : p # r => lost[p].node # lost[r].node
            BY <1>4, Zenon
        <3>5. lost[a].node # lost[b].node
            BY ONLY <3>3, <3>4, a \in DOMAIN lost, b \in DOMAIN lost, Zenon
        <3> QED BY ONLY <3>1, <3>2, <3>5
    <2> QED BY <2>2, <2>3, <2>4, <2>5
<1>13. \A n \in failing \cup Lost : \E i \in DOMAIN started : started[i].node = n
    <2>1. ASSUME NEW n \in failing PROVE \E i \in DOMAIN started : started[i].node = n
        BY <1>2, <1>7
    <2>2. ASSUME NEW n \in Lost PROVE \E i \in DOMAIN started : started[i].node = n
        <3>1. PICK j \in DOMAIN lost : lost[j].node = n
            BY <1>4
        <3>2. Len(computed) + j \in DOMAIN started /\ started[Len(computed) + j].node = n
            BY <1>7, <3>1
        <3> QED BY <3>2
    <2> QED BY <2>1, <2>2
<1>14. \A n \in ToShorten : n \in Lost /\ n \in Sat
    BY DEF ToShorten, Lost
<1>15. \A n \in ToShorten : /\ n \in Lost /\ n \in Server /\ ctl.down[n] = "compute"
                            /\ outage[n] = trace[ctl.active[n]]
                            /\ outage[n].start < now /\ RecoveryTime(outage[n]) > now
    BY <1>14, WhoIsCut
<1>16. ASSUME NEW i \in DOMAIN started, NEW n, n = started[i].node
       PROVE  \/ ctl.down[n] = "none"
              \/ ctl.down[n] = "compute" /\ (RecoveryTime(trace[ctl.active[n]]) = now \/ n \in ToShorten)
    <2>1. CASE n \in failing
        BY <1>9, <2>1
    <2>2. CASE n \in Lost
        <3>1. n \in Sat
            BY <2>2 DEF Lost
        <3> QED BY <2>2, <3>1, WhoIsCut
    <2> QED BY <1>11, <1>16, <2>1, <2>2
<1>17. Opening(ToShorten, failing, started)
    <2>1. \A n \in failing \cup ToShorten : \E i \in DOMAIN started : started[i].node = n
        BY <1>13, <1>14
    <2> DEFINE K == ToShorten
    <2>2. \A n \in K : /\ n \in Lost /\ n \in Server /\ ctl.down[n] = "compute"
                       /\ outage[n] = trace[ctl.active[n]]
                       /\ outage[n].start < now /\ RecoveryTime(outage[n]) > now
        BY <1>15
    <2>3. \A i \in DOMAIN started :
             LET n == started[i].node IN
             \/ ctl.down[n] = "none"
             \/ ctl.down[n] = "compute" /\ (RecoveryTime(trace[ctl.active[n]]) = now \/ n \in K)
        BY <1>16
    <2>4. \A i \in DOMAIN started :
             LET f == started[i] IN
             /\ f.id = nextId + i - 1 /\ f.start = now
             /\ \/ f.kind = "compute" /\ f.node \in failing /\ f.duration > 0
                \/ f.kind = "satellite" /\ f.node \in Lost /\ f.duration = Forever
        BY <1>11
    <2> HIDE DEF K
    <2>5. \A n \in failing \cup K : \E i \in DOMAIN started : started[i].node = n
        BY <2>1 DEF K
    <2>6. Opening(K, failing, started)
        BY <1>1, <1>5, <1>9, <1>10, <1>12, <2>2, <2>3, <2>4, <2>5 DEF Opening
    <2> QED BY <2>6 DEF K
<1>18. Covers(failing, computed, started)
    BY <1>7, <1>11, <1>13 DEF Covers
<1>19. Numbered(computed, nextId, failing)
    BY <1>1, Drawn
<1> QED BY <1>17, <1>18, <1>19

\* The controller takes the starts.
Opened(v, time, starts) ==
    [v EXCEPT !.pending = @ \ {time}, !.batches[time] = @ \o starts]

Opens(v, b, time, starts) ==
    /\ b \in Controller /\ SameFaults(v, b) /\ b.log = v.log
    /\ b.pending = v.pending \ {time} /\ b.batches[time] = v.batches[time] \o starts
    /\ \A t \in Time : t # time => b.batches[t] = v.batches[t]

LEMMA OpenedFields ==
    ASSUME NEW v \in Controller, NEW time \in Time, NEW starts \in Seq(Event),
           NEW b, b = Opened(v, time, starts)
    PROVE  Opens(v, b, time, starts)
<1>1. Typed(v) /\ Fields(v)
    BY ControllerFields
<1> DEFINE batches == [v.batches EXCEPT ![time] = v.batches[time] \o starts]
           pending == v.pending \ {time}
<1>2. v.batches[time] \o starts \in Seq(Event)
    <2>1. v.batches[time] \in Seq(Event)
        BY <1>1 DEF Typed
    <2> QED BY <2>1, ConcatProperties
<1>3. /\ batches \in [Time -> Seq(Event)] /\ batches[time] = v.batches[time] \o starts
      /\ \A t \in Time : t # time => batches[t] = v.batches[t]
    <2>1. v.batches \in [Time -> Seq(Event)]
        BY <1>1 DEF Typed
    <2> QED BY <1>2, <2>1
<1>4. pending \in SUBSET Time
    BY <1>1 DEF Typed
<1>5. b = [v EXCEPT !.pending = pending, !.batches = batches]
    BY <1>1 DEF Opened, Fields
<1> HIDE DEF batches, pending
<1>6. /\ b.active = v.active /\ b.down = v.down /\ b.batches = batches /\ b.pending = pending
      /\ b.processed = v.processed /\ b.log = v.log /\ b.tasks = v.tasks /\ b.cut = v.cut
      /\ b.admitted = v.admitted /\ b.failed = v.failed /\ Fields(b)
    BY <1>1, <1>5 DEF Fields
<1>7. Typed(b)
    BY <1>1, <1>3, <1>4, <1>6 DEF Typed
<1>8. b \in Controller
    BY <1>6, <1>7, ControllerFields
<1> QED BY <1>3, <1>6, <1>8 DEF Opens, SameFaults, pending

\* What is cut short in this instant.
CutNow == {Outages[n] : n \in ToShorten}

LEMMA CutNowFacts ==
    ASSUME IInv, StepDue, NEW n \in ToShorten, NEW f, f = outage[n]
    PROVE  /\ n \in Sat /\ f \in Fault /\ f.node = n /\ f.id = ctl.active[n]
           /\ f = trace[ctl.active[n]] /\ ctl.active[n] \in DOMAIN trace
           /\ f.kind = "compute" /\ f.start < now /\ RecoveryTime(f) > now
           /\ ctl.down[n] = "compute" /\ Outages[n] = f
<1>1. n \in Sat
    BY DEF ToShorten, Lost
<1>2. /\ ctl.down[n] = "compute" /\ Outages[n] = f
      /\ f = trace[ctl.active[n]] /\ f.start < now /\ RecoveryTime(f) > now
    BY <1>1, WhoIsCut
<1>3. /\ ctl.active[n] \in DOMAIN trace /\ f \in Fault
      /\ f.id = ctl.active[n] /\ f.node = n /\ f.kind = ctl.down[n]
    BY <1>1, <1>2, ActiveFault
<1> QED BY <1>1, <1>2, <1>3

LEMMA CutsAreDue ==
    ASSUME IInv, StepDue
    PROVE  Shortenable(ctl, now, CutNow)
<1> DEFINE D == CutNow
<1>1. ctl \in Controller /\ now \in Time /\ now \in Nat /\ Time \subseteq Nat
    BY Basics
<1>2. now \notin ctl.processed
    <2>1. ClockInv
        BY DEF IInv
    <2> QED BY <2>1 DEF ClockInv
<1>3. \A t \in Time : t >= now => Open(t)
    BY <1>1, <1>2 DEF Open
<1>4. \A t \in Time : t >= now =>
         OneByOne(ctl.batches[t]) /\ (t \in ctl.pending <=> ctl.batches[t] # <<>>)
    BY <1>3, OpenBatch
<1>5. ASSUME NEW f \in D
      PROVE  \E n \in ToShorten : f = outage[n]
    <2>1. PICK n \in ToShorten : f = Outages[n]
        BY DEF CutNow
    <2> QED BY <2>1, CutNowFacts
<1>6. ASSUME NEW f \in D
      PROVE  /\ f \in Fault /\ f.kind = "compute" /\ f.start < now
             /\ RecoveryTime(f) > now /\ ctl.down[f.node] = "compute"
             /\ f.id \in DOMAIN trace /\ trace[f.id] = f
             /\ RecoveryTime(f) < Duration =>
                  Recovery(f) \in Range(ctl.batches[RecoveryTime(f)])
             /\ \E k \in DOMAIN ctl.log : ctl.log[k].event = Start(f)
    <2>1. PICK n \in ToShorten : f = outage[n]
        BY <1>5
    <2>2. /\ n \in Sat /\ f \in Fault /\ f.node = n /\ f.id = ctl.active[n]
          /\ f = trace[ctl.active[n]] /\ ctl.active[n] \in DOMAIN trace
          /\ f.kind = "compute" /\ f.start < now /\ RecoveryTime(f) > now
          /\ ctl.down[n] = "compute"
        BY <2>1, CutNowFacts
    <2>3. /\ RecoveryTime(f) < Duration =>
               Recovery(f) \in Range(ctl.batches[RecoveryTime(f)])
          /\ \E k \in DOMAIN ctl.log : ctl.log[k].event = Start(f)
        BY <2>2, ActiveComputeFault
    <2> QED BY <2>2, <2>3
<1>7. ASSUME NEW t \in Time, t >= now, NEW e \in Range(ctl.batches[t])
      PROVE  /\ e.type = "RECOVERY" /\ RecoveryTime(e.fault) = t /\ t < Duration
             /\ e.fault.id \in DOMAIN trace /\ trace[e.fault.id] = e.fault
    <2>1. Open(t)
        BY <1>3, <1>7
    <2>2. /\ e.type = "RECOVERY" /\ t < Duration /\ RecoveryTime(e.fault) = t
          /\ e.fault.node \in Sat /\ ctl.down[e.fault.node] = "compute"
          /\ e.fault = trace[ctl.active[e.fault.node]] /\ e.fault.id = ctl.active[e.fault.node]
        BY <1>7, <2>1, DueNow
    <2>3. ctl.active[e.fault.node] \in DOMAIN trace
        BY <2>2, ActiveFault
    <2> QED BY <2>2, <2>3
<1> HIDE DEF D
<1>8. \A f \in D : /\ f \in Fault /\ f.kind = "compute" /\ f.start < now
                   /\ RecoveryTime(f) > now /\ ctl.down[f.node] = "compute"
                   /\ RecoveryTime(f) < Duration =>
                        Recovery(f) \in Range(ctl.batches[RecoveryTime(f)])
                   /\ \E k \in DOMAIN ctl.log : ctl.log[k].event = Start(f)
    BY <1>6
<1>9. \A f, g \in D : f.id = g.id => f = g
    BY <1>6
<1>10. ASSUME NEW t \in Time, t > now, NEW e \in Range(ctl.batches[t])
       PROVE  /\ e.type = "RECOVERY" /\ RecoveryTime(e.fault) = t /\ t < Duration
              /\ \A f \in D : e.fault.id = f.id => e.fault = f
    <2>1. t >= now
        BY <1>1, <1>10
    <2>2. /\ e.type = "RECOVERY" /\ RecoveryTime(e.fault) = t /\ t < Duration
          /\ trace[e.fault.id] = e.fault
        BY <1>7, <1>10, <2>1
    <2> QED BY <1>6, <2>2
<1>11. ASSUME NEW e \in Range(ctl.batches[now]), NEW f \in D
       PROVE  e.fault.id # f.id
    <2>1. RecoveryTime(e.fault) = now /\ trace[e.fault.id] = e.fault
        BY <1>1, <1>7
    <2>2. RecoveryTime(f) > now /\ trace[f.id] = f /\ RecoveryTime(f) \in Nat
        BY <1>6, FaultFields
    <2> QED BY <1>1, <2>1, <2>2
<1>12. \A t \in Time : t > now => (t \in ctl.pending <=> ctl.batches[t] # <<>>)
    BY <1>1, <1>4
<1>13. Shortenable(ctl, now, D)
    BY <1>1, <1>2, <1>4, <1>8, <1>9, <1>10, <1>11, <1>12 DEF Shortenable
<1> QED BY <1>13 DEF D

LEMMA CutsAll ==
    ASSUME IInv, StepDue
    PROVE  Cuts(ctl, ShortenAll, now, CutNow)
<1> DEFINE D == CutNow
           z == ShortenAll
<1>1. ToShorten \in SUBSET Sat
    BY DEF ToShorten, Lost
<1>2. \A n \in ToShorten : Outages[n].node = n
    BY CutNowFacts
<1>3. D = {Outages[n] : n \in ToShorten}
    BY DEF CutNow
<1>4. Shortenable(ctl, now, D)
    BY CutsAreDue
<1>5. z = ShortenAll
    OBVIOUS
<1> HIDE DEF D, z
<1>6. Cuts(ctl, z, now, D)
    BY <1>1, <1>2, <1>3, <1>4, <1>5, ShortenAllCuts
<1> QED BY <1>6 DEF D, z

StartsOf(started) == [i \in DOMAIN started |-> Start(started[i])]

LEMMA StartsOfFacts ==
    ASSUME IInv, NEW K, NEW failing, NEW started, Opening(K, failing, started),
           NEW starts, starts = StartsOf(started)
    PROVE  /\ starts \in Seq(Event) /\ OneByOne(starts) /\ DOMAIN starts = DOMAIN started
           /\ Range(starts) = {Start(started[i]) : i \in DOMAIN started}
           /\ \A e \in Range(starts) : e.type = "START"
<1>1. /\ DOMAIN started = 1..Len(started) /\ Len(started) \in Nat
      /\ \A i \in DOMAIN started : started[i] \in Fault
      /\ \A i, j \in DOMAIN started : i # j => started[i].id # started[j].id
    BY StartedFacts
<1>2. DOMAIN starts = DOMAIN started /\ \A i \in DOMAIN started : starts[i] = Start(started[i])
    BY DEF StartsOf
<1>3. \A i \in DOMAIN started : starts[i] \in Event /\ starts[i].type = "START"
                                /\ starts[i].fault = started[i]
    BY <1>1, <1>2, Events
<1>4. starts = [i \in 1..Len(started) |-> starts[i]]
    BY <1>1 DEF StartsOf
<1> HIDE DEF Start
<1>5. starts \in Seq(Event)
    BY <1>1, <1>3, <1>4, SeqDef
<1>6. OneByOne(starts)
    BY <1>1, <1>2, <1>3 DEF OneByOne
<1>7. Range(starts) = {Start(started[i]) : i \in DOMAIN started}
    BY <1>2 DEF Range
<1>8. \A e \in Range(starts) : e.type = "START"
    BY <1>2, <1>3 DEF Range
<1> QED BY <1>2, <1>5, <1>6, <1>7, <1>8

\* The batch of this instant before the recoveries of what starts are scheduled.
LEMMA BatchOpens ==
    ASSUME IInv, StepDue, NEW failing, NEW started, Opening(ToShorten, failing, started),
           NEW v, v = ShortenAll, NEW b, b = Opened(v, now, StartsOf(started))
    PROVE  /\ Schedulable(b, now, Range(started)) /\ SameFaults(ctl, b) /\ b.log = v.log
           /\ b.pending = v.pending \ {now} /\ \A t \in Time : t # now => b.batches[t] = v.batches[t]
           /\ OneByOne(b.batches[now])
           /\ Range(b.batches[now]) =
                Range(v.batches[now]) \cup {Start(started[i]) : i \in DOMAIN started}
<1> DEFINE starts == StartsOf(started)
           D == CutNow
           K == ToShorten
<1>0. Opening(K, failing, started)
    OBVIOUS
<1>1. Cuts(ctl, v, now, D)
    BY CutsAll
<1>2. b = Opened(v, now, starts)
    OBVIOUS
<1>3. /\ starts \in Seq(Event) /\ OneByOne(starts)
      /\ Range(starts) = {Start(started[i]) : i \in DOMAIN started}
      /\ \A e \in Range(starts) : e.type = "START"
    BY <1>0, StartsOfFacts
<1>4. /\ now \in Time /\ now \in Nat /\ Len(trace) \in Nat /\ DOMAIN trace = 1..Len(trace)
      /\ nextId = Len(trace) + 1 /\ Time \subseteq Nat
    BY Basics
<1>5. v \in Controller /\ SameFaults(ctl, v)
    BY <1>1 DEF Cuts
<1> HIDE DEF starts, D, K
<1>6. /\ b \in Controller /\ SameFaults(v, b) /\ b.log = v.log
      /\ b.pending = v.pending \ {now} /\ b.batches[now] = v.batches[now] \o starts
      /\ \A t \in Time : t # now => b.batches[t] = v.batches[t]
    <2>1. Opens(v, b, now, starts)
        BY ONLY <1>2, <1>3, <1>4, <1>5, OpenedFields, Zenon
    <2> QED BY ONLY <2>1 DEF Opens
<1>7. SameFaults(ctl, b)
    BY <1>5, <1>6 DEF SameFaults
<1>8. v.batches[now] \in Seq(Event) /\ OneByOne(v.batches[now])
    <2>1. Typed(v)
        BY <1>5, ControllerFields
    <2> QED BY <1>1, <1>4, <2>1 DEF Typed, Cuts
\* What is due in this instant recovers.
<1>9. \A e \in Range(v.batches[now]) : e.type = "RECOVERY"
    <2>1. Range(v.batches[now]) = Range(ctl.batches[now]) \cup {Recovery(Shortened(f, now)) : f \in D}
        BY <1>1 DEF Cuts
    <2>2. \A e \in Range(ctl.batches[now]) : e.type = "RECOVERY"
        <3>1. Open(now)
            BY <1>0 DEF Open, Opening
        <3> QED BY <1>4, <3>1, DueNow
    <2>3. \A e \in {Recovery(Shortened(f, now)) : f \in D} : e.type = "RECOVERY"
        BY DEF Recovery
    <2> QED BY <2>1, <2>2, <2>3
<1>10. Range(v.batches[now]) \cap Range(starts) = {}
    <2>0. "RECOVERY" # "START"
        OBVIOUS
    <2> QED BY <1>3, <1>9, <2>0
<1>11. Joined(b.batches[now], v.batches[now], starts, Event)
    <2> DEFINE r == b.batches[now]
               s == v.batches[now]
    <2>1. r = s \o starts /\ s \in Seq(Event) /\ OneByOne(s) /\ Range(s) \cap Range(starts) = {}
        BY <1>6, <1>8, <1>10
    <2> HIDE DEF r, s
    <2>2. Joined(r, s, starts, Event)
        BY <1>3, <2>1, ConcatOneByOne
    <2> QED BY <2>2 DEF r, s
<1>12. /\ OneByOne(b.batches[now])
       /\ Range(b.batches[now]) =
            Range(v.batches[now]) \cup {Start(started[i]) : i \in DOMAIN started}
    BY <1>3, <1>11 DEF Joined
<1>13. ASSUME NEW t \in Time, t > now
       PROVE  /\ OneByOne(b.batches[t])
              /\ Range(b.batches[t]) \subseteq Range(ctl.batches[t])
    <2>1. b.batches[t] = v.batches[t]
        BY <1>4, <1>6, <1>13
    <2> QED BY <1>1, <1>13, <2>1 DEF Cuts
<1>14. ASSUME NEW f \in Range(started)
       PROVE  /\ f \in Fault /\ f.id >= nextId /\ f.id \in Int
              /\ f.duration # Forever => RecoveryTime(f) > now
    <2>1. PICK i \in DOMAIN started : f = started[i]
        BY DEF Range
    <2>2. f \in Fault /\ f.id >= nextId /\ f.id \in Int /\ f.start = now
          /\ (f.duration > 0 \/ f.duration = Forever)
        BY <1>0, <2>1, StartedFacts DEF Opening
    <2>3. RecoveryTime(f) = f.start + f.duration /\ f.duration \in Nat
        BY <2>2, FaultFields
    <2> QED BY <1>4, <2>2, <2>3 DEF Forever
<1>15. ASSUME NEW f \in Range(started), NEW t \in Time, t > now
       PROVE  Recovery(f) \notin Range(b.batches[t])
    <2> SUFFICES ASSUME Recovery(f) \in Range(ctl.batches[t]) PROVE FALSE
        BY <1>13, <1>15
    <2>1. Open(t)
        BY <1>15 DEF Open
    <2> DEFINE e == Recovery(f)
    <2>2. e \in Range(ctl.batches[t]) /\ e.fault = f
        BY Events
    <2> HIDE DEF e
    <2>3. /\ e.fault.node \in Sat /\ ctl.down[e.fault.node] = "compute"
          /\ e.fault.id = ctl.active[e.fault.node]
        BY <2>1, <2>2, DueNow
    <2>4. e.fault.id \in DOMAIN trace
        BY <2>3, ActiveFault
    <2> QED BY <1>4, <1>14, <2>2, <2>4
<1>16. Schedulable(b, now, Range(started))
    <2> DEFINE F == Range(started)
    <2>1. \A t \in Time : t >= now => OneByOne(b.batches[t])
        <3>1. \A t \in Time : t >= now => t = now \/ t > now
            BY <1>4
        <3> QED BY <1>12, <1>13, <3>1
    <2>2. \A f \in F : /\ f \in Fault
                       /\ f.duration # Forever => RecoveryTime(f) > now
                       /\ \A t \in Time : t > now => Recovery(f) \notin Range(b.batches[t])
        BY <1>14, <1>15
    <2> HIDE DEF F
    <2>3. Schedulable(b, now, F)
        BY <1>4, <1>6, <2>1, <2>2 DEF Schedulable
    <2> QED BY <2>3 DEF F
<1> QED BY <1>6, <1>7, <1>12, <1>16

LEMMA BatchMerges ==
    ASSUME IInv, StepDue, NEW failing, NEW started, Opening(ToShorten, failing, started),
           NEW v, v = ShortenAll, NEW b, b = Opened(v, now, StartsOf(started)),
           NEW m, m = FoldLeft(ScheduleRecovery, b, started)
    PROVE  Merged(m, ToShorten, started)
<1> DEFINE D == CutNow
           K == ToShorten
           F == Range(started)
           begun == {Start(started[i]) : i \in DOMAIN started}
<1>0. Opening(K, failing, started)
    OBVIOUS
<1>1. Cuts(ctl, v, now, D)
    BY CutsAll
<1>2. /\ Schedulable(b, now, F) /\ SameFaults(ctl, b) /\ b.log = v.log
      /\ b.pending = v.pending \ {now} /\ \A t \in Time : t # now => b.batches[t] = v.batches[t]
      /\ OneByOne(b.batches[now])
      /\ Range(b.batches[now]) = Range(v.batches[now]) \cup begun
    BY BatchOpens
<1>3. Sequence(started, F)
    <2>1. Len(started) \in Nat /\ DOMAIN started = 1..Len(started)
          /\ \A i, j \in DOMAIN started : i # j => started[i].id # started[j].id
        BY <1>0, StartedFacts
    <2>2. F = {started[i] : i \in DOMAIN started}
        BY DEF Range
    <2> QED BY <2>1, <2>2 DEF Sequence
<1>4. \A n \in K : outage[n] = Outages[n]
    BY CutNowFacts
<1>5. /\ {Recovery(f) : f \in D} = {Recovery(outage[n]) : n \in K}
      /\ {Recovery(Shortened(f, now)) : f \in D} = {Recovery(Shortened(outage[n], now)) : n \in K}
      /\ D = {outage[n] : n \in K}
    BY <1>4 DEF CutNow
<1>6. /\ now \in Time /\ now \in Nat /\ Time \subseteq Nat
    BY Basics
<1>7. \A f \in F : f.duration # Forever => RecoveryTime(f) > now
    BY <1>2 DEF Schedulable
<1> HIDE DEF D, F, K, begun
<1>8. Schedules(b, m, now, F)
    BY <1>2, <1>3, ScheduleAll
<1>9. \A t \in Time : ~(t > now) => Expected(F, t) = {}
    BY <1>7 DEF Expected
<1>10. m \in Controller /\ SameFaults(ctl, m) /\ m.log = v.log
    <2>1. m \in Controller /\ SameFaults(b, m) /\ m.log = b.log
        BY <1>8 DEF Schedules
    <2> QED BY <1>2, <2>1 DEF SameFaults
<1>11. /\ OneByOne(m.batches[now])
       /\ Range(m.batches[now]) =
            (Range(ctl.batches[now]) \cup {Recovery(Shortened(outage[n], now)) : n \in K}) \cup begun
    <2>1. OneByOne(m.batches[now])
          /\ Range(m.batches[now]) = Range(b.batches[now]) \cup {Recovery(f) : f \in Expected(F, now)}
        BY <1>6, <1>8 DEF Schedules
    <2>2. {Recovery(f) : f \in Expected(F, now)} = {}
        BY <1>6, <1>9
    <2>3. Range(v.batches[now]) =
            Range(ctl.batches[now]) \cup {Recovery(Shortened(outage[n], now)) : n \in K}
        BY <1>1, <1>5 DEF Cuts
    <2> QED BY <1>2, <2>1, <2>2, <2>3
<1>12. ASSUME NEW t \in Time, t > now
       PROVE  /\ OneByOne(m.batches[t])
              /\ Range(m.batches[t]) =
                   (Range(ctl.batches[t]) \ {Recovery(outage[n]) : n \in K})
                       \cup {Recovery(f) : f \in Expected(F, t)}
              /\ t \in m.pending <=> m.batches[t] # <<>>
    <2>1. t >= now /\ t # now
        BY <1>6, <1>12
    <2>2. /\ OneByOne(m.batches[t])
          /\ Range(m.batches[t]) = Range(b.batches[t]) \cup {Recovery(f) : f \in Expected(F, t)}
          /\ t \in m.pending <=> t \in b.pending \/ Expected(F, t) # {}
        BY <1>8, <1>12, <2>1 DEF Schedules
    <2>3. b.batches[t] = v.batches[t] /\ (t \in b.pending <=> t \in v.pending)
        BY <1>2, <1>12, <2>1
    <2>4. /\ Range(v.batches[t]) = Range(ctl.batches[t]) \ {Recovery(f) : f \in D}
          /\ t \in v.pending <=> v.batches[t] # <<>>
        BY <1>1, <1>12 DEF Cuts
    <2>5. v.batches[t] \in Seq(Event) /\ m.batches[t] \in Seq(Event)
        <3>1. v \in Controller
            BY <1>1 DEF Cuts
        <3>2. Typed(v) /\ Typed(m)
            BY <1>10, <3>1, ControllerFields
        <3> QED BY <1>12, <3>2 DEF Typed
    <2>6. (v.batches[t] = <<>> <=> Range(v.batches[t]) = {})
          /\ (m.batches[t] = <<>> <=> Range(m.batches[t]) = {})
        BY <2>5, EmptyRange
    <2>7. {Recovery(f) : f \in Expected(F, t)} = {} <=> Expected(F, t) = {}
        OBVIOUS
    <2> QED BY <1>5, <2>2, <2>3, <2>4, <2>6, <2>7
<1>13. ASSUME NEW t \in Time, t < now PROVE t \notin m.pending
    <2>1. ~(t > now) /\ t # now
        BY <1>6, <1>13
    <2>2. t \in m.pending <=> t \in b.pending
        BY <1>8, <1>9, <1>13, <2>1 DEF Schedules
    <2>3. t \in b.pending <=> t \in v.pending
        BY <1>2, <2>1
    <2>4. t \in v.pending <=> t \in ctl.pending
        BY <1>1, <1>13 DEF Cuts
    <2>5. ~Open(t)
        BY <2>1 DEF Open
    <2> QED BY <1>13, <2>2, <2>3, <2>4, <2>5, PastNotPending
<1>14. /\ \A k \in DOMAIN m.log : \E j \in DOMAIN ctl.log :
            m.log[k].event.fault.id = ctl.log[j].event.fault.id
       /\ \A j \in DOMAIN ctl.log : \A g : g \notin D /\ ctl.log[j].event = Start(g) =>
            \E k \in DOMAIN m.log : m.log[k].event = Start(g)
    BY <1>1, <1>10 DEF Cuts
<1>15. \A j \in DOMAIN ctl.log : \A g :
         (\A n \in K : g # outage[n]) /\ ctl.log[j].event = Start(g) =>
             \E k \in DOMAIN m.log : m.log[k].event = Start(g)
    <2>1. \A g : (\A n \in K : g # outage[n]) => g \notin D
        BY <1>5
    <2> QED BY <1>14, <2>1
<1>16. Merged(m, K, started)
    BY <1>10, <1>11, <1>12, <1>13, <1>14, <1>15 DEF Merged, begun, F
<1> QED BY <1>16 DEF K

LEMMA StartsAreValid ==
    ASSUME IInv, StepDue, NEW failing, NEW started, Opening(ToShorten, failing, started),
           \A i \in DOMAIN started : started[i].kind = "satellite" <=> started[i].duration = Forever,
           NEW v, v = ShortenAll
    PROVE  SubmitValid(v, started, now)
<1> DEFINE D == CutNow
           K == ToShorten
<1>0. Opening(K, failing, started)
    OBVIOUS
<1>1. Cuts(ctl, v, now, D)
    BY CutsAll
<1> HIDE DEF D, K
<1>2. now < Duration /\ now \notin v.processed
    BY <1>0, <1>1 DEF Opening, Cuts, SameFaults
<1>3. \A i \in DOMAIN started : started[i].start = now
    BY <1>0 DEF Opening
<1>4. \A i, j \in DOMAIN started : i # j => started[i].id # started[j].id
    BY <1>0, StartedFacts
<1>5. ASSUME NEW i \in DOMAIN started, NEW k \in DOMAIN v.log
      PROVE  v.log[k].event.fault.id # started[i].id
    <2>1. PICK j \in DOMAIN ctl.log : v.log[k].event.fault.id = ctl.log[j].event.fault.id
        BY <1>1 DEF Cuts
    <2>2. ctl.log[j].event.fault.id < nextId
        BY DEF IInv, TraceInv
    <2>3. started[i].id >= nextId /\ started[i].id \in Int
        BY <1>0, StartedFacts
    <2>4. nextId \in Nat
        BY DEF IInv, TypeOK
    <2>5. ctl.log[j].event.fault.id \in Nat
        <3>1. ctl.log \in Seq(Entry)
            BY Basics DEF Typed
        <3>2. ctl.log[j] \in Entry
            BY <3>1, LenProperties
        <3>3. ctl.log[j].event.fault \in Fault
            BY <3>2, Events DEF Entry
        <3> QED BY <3>3, FaultFields
    <2> QED BY <2>1, <2>2, <2>3, <2>4, <2>5
<1> QED BY <1>2, <1>3, <1>4, <1>5 DEF SubmitValid

\* The batch that the engine submits runs.
LEMMA SubmitRuns ==
    ASSUME IInv, StepDue, NEW failing, NEW started, Opening(ToShorten, failing, started),
           \A i \in DOMAIN started : started[i].kind = "satellite" <=> started[i].duration = Forever,
           started # <<>>,
           ctl' = SubmitGeneratedBatch(ShortenAll, started, now)
    PROVE  \E m : Running(ToShorten, failing, started, m)
<1> DEFINE v == ShortenAll
           b == Opened(v, now, StartsOf(started))
           m == FoldLeft(ScheduleRecovery, b, started)
           K == ToShorten
<1>1. SubmitValid(v, started, now)
    BY StartsAreValid
<1>2. ctl' = SubmitGeneratedBatch(v, started, now)
    OBVIOUS
<1>3. Opening(K, failing, started)
    OBVIOUS
<1>4. Merged(m, K, started)
    BY BatchMerges
<1> HIDE DEF v, K
<1>5. ctl' = ProcessBatch(m, now)
    BY <1>1, <1>2 DEF SubmitGeneratedBatch, Opened, StartsOf
<1> HIDE DEF b, m
<1>6. m.batches[now] # <<>>
    <2>1. 1 \in DOMAIN started
        BY <1>3, EmptySeq DEF Opening
    <2>2. Start(started[1]) \in Range(m.batches[now])
        BY <1>4, <2>1 DEF Merged
    <2>3. Range(<<>>) = {}
        BY DEF Range
    <2> QED BY <2>2, <2>3
<1>7. Due(m, now)
    BY <1>3, <1>4, <1>6, MergedIsDue
<1>8. Processes(m, ctl', now)
    BY <1>5, <1>7, ProcessBatchRuns
<1>9. Running(K, failing, started, m)
    BY <1>3, <1>4, <1>8 DEF Running
<1> QED BY <1>9 DEF K

\* Nothing starts: the outages that are over are forgotten.
LEMMA QuietStep ==
    ASSUME IInv, Lost = {}, stepped' = TRUE, outage' = Outages,
           UNCHANGED <<now, debris, ctl, nextId, trace>>
    PROVE  IInv'
<1>1. \A n \in Server : Outages[n] = IF outage[n] # NoOutage /\ RecoveryTime(outage[n]) <= now
                                     THEN NoOutage ELSE outage[n]
    BY DEF Outages
<1>2. now \in Nat
    BY Basics
<1>3. TypeOK'
    <2>1. TypeOK
        BY DEF IInv
    <2>2. outage' \in [Server -> Fault \cup {NoOutage}]
        BY <2>1 DEF Outages, TypeOK
    <2> QED BY <2>1, <2>2 DEF TypeOK
<1>4. NeverRejected' /\ ctl'.tasks = ctl'.down
      /\ ctl'.cut = {n \in Sat : ctl'.down[n] = "satellite"}
      /\ debris' \in [Sat -> (Time \ {Duration}) \cup {NoTime}]
    BY DEF IInv, NeverRejected
<1>5. ClockInv'
    <2>1. ClockInv
        BY DEF IInv
    <2> QED BY <2>1 DEF ClockInv, StepDue, Open
<1>6. TraceInv'
    <2>1. TraceInv
        BY DEF IInv
    <2> QED BY <2>1 DEF TraceInv
<1>7. ASSUME NEW n \in Sat PROVE NodeInv(n)'
    <2> DEFINE f == trace[ctl.active[n]]
    <2>1. NodeInv(n)
        BY DEF IInv
    <2>2. ASSUME ctl.down[n] = "compute" /\ RecoveryTime(f) > now
          PROVE  Outages[n] = f
        <3>1. n \in Server /\ outage[n] = f /\ f \in Fault
            BY <2>2, ActiveComputeFault, ActiveFault
        <3>2. ~(RecoveryTime(f) <= now)
            BY <1>2, <2>2, <3>1, FaultFields
        <3> QED BY <1>1, <3>1, <3>2
    <2>3. debris[n] # now
        BY DEF Lost
    <2>4. /\ ctl'.down = ctl.down /\ ctl'.active = ctl.active /\ trace' = trace /\ now' = now
          /\ ctl'.processed = ctl.processed /\ ctl'.batches = ctl.batches /\ ctl'.log = ctl.log
          /\ debris' = debris
        OBVIOUS
    <2> QED BY <2>1, <2>2, <2>3, <2>4 DEF NodeInv
<1>8. ASSUME NEW n \in Server PROVE OutageInv(n)'
    <2>1. OutageInv(n)
        BY DEF IInv
    <2>2. Outages[n] # NoOutage => Outages[n] = outage[n]
        BY <1>1
    <2> QED BY <2>1, <2>2 DEF OutageInv
<1>9. ASSUME NEW t \in Time, Open(t)' PROVE BatchInv(t)'
    <2>1. Open(t)
        BY <1>9 DEF Open
    <2>2. BatchInv(t)
        BY <2>1 DEF IInv
    <2> QED BY <2>2 DEF BatchInv
<1> QED BY <1>3, <1>4, <1>5, <1>6, <1>7, <1>8, <1>9 DEF IInv

\* What the engine records of the faults that are cut short.
KeptTrace ==
    [i \in DOMAIN trace |->
       IF trace[i].id \in {Outages[n].id : n \in ToShorten} THEN Shortened(trace[i], now)
       ELSE trace[i]]

LEMMA KeptTraceFacts ==
    ASSUME IInv, StepDue, NEW kept, kept = KeptTrace
    PROVE  /\ kept \in Seq(Fault) /\ Len(kept) = Len(trace) /\ DOMAIN kept = DOMAIN trace
           /\ \A i \in DOMAIN trace :
                kept[i] = IF trace[i].id \in {outage[n].id : n \in ToShorten}
                          THEN Shortened(trace[i], now) ELSE trace[i]
<1> DEFINE K == ToShorten
           cut == {outage[n].id : n \in K}
<1>1. /\ trace \in Seq(Fault) /\ Len(trace) \in Nat /\ DOMAIN trace = 1..Len(trace)
      /\ \A i \in DOMAIN trace : trace[i] \in Fault /\ trace[i].id = i
      /\ now \in Time /\ now \in Nat
    BY Basics
<1>2. \A n \in K : Outages[n] = outage[n]
    BY CutNowFacts
<1>3. {Outages[n].id : n \in K} = cut
    BY <1>2
<1>4. kept = [i \in DOMAIN trace |-> IF trace[i].id \in cut THEN Shortened(trace[i], now) ELSE trace[i]]
    BY <1>3 DEF KeptTrace
<1>5. ASSUME NEW n \in K
      PROVE  trace[outage[n].id] = outage[n] /\ outage[n].start < now
    <2> DEFINE f == outage[n]
    <2>1. f.id = ctl.active[n] /\ f = trace[ctl.active[n]] /\ f.start < now
        BY CutNowFacts
    <2> QED BY <2>1
<1>6. \A a \in cut : trace[a].start < now
    BY <1>5
<1> HIDE DEF cut
<1>7. ASSUME NEW i \in DOMAIN trace PROVE kept[i] \in Fault
    <2>1. CASE trace[i].id \in cut
        <3>1. trace[i].start < now
            BY <1>1, <1>6, <2>1
        <3>2. Shortened(trace[i], now) \in Fault
            BY <1>1, <3>1, ShortenedFields
        <3> QED BY <1>4, <2>1, <3>2
    <2>2. CASE trace[i].id \notin cut
        BY <1>1, <1>4, <2>2
    <2> QED BY <2>1, <2>2
<1>8. kept \in [1..Len(trace) -> Fault]
    <2>1. DOMAIN kept = 1..Len(trace) /\ kept = [i \in 1..Len(trace) |-> kept[i]]
        BY <1>1, <1>4
    <2> QED BY <1>1, <1>7, <2>1
<1>9. kept \in Seq(Fault)
    BY <1>1, <1>8, SeqDef
<1>10. Len(kept) = Len(trace) /\ DOMAIN kept = DOMAIN trace
    BY <1>1, <1>8, <1>9, LenProperties
<1> QED BY <1>4, <1>9, <1>10 DEF cut

\* The outages that the engine knows afterwards.
OutagesWith(failing, computed) ==
    [n \in Server |->
       IF n \in failing THEN computed[CHOOSE i \in DOMAIN computed : computed[i].node = n]
       ELSE IF n \in ToShorten THEN NoOutage ELSE Outages[n]]

\* New outages are noted, those that are cut short or over are forgotten.
Notes(z, K, failing, started) ==
    /\ z \in [Server -> Fault \cup {NoOutage}]
    /\ \A n \in failing : \E i \in DOMAIN started : started[i].node = n /\ z[n] = started[i]
    /\ \A n \in K : z[n] = NoOutage
    /\ \A n \in Server : n \notin failing /\ n \notin K =>
         /\ z[n] \in {outage[n], NoOutage}
         /\ outage[n] # NoOutage /\ RecoveryTime(outage[n]) > now => z[n] = outage[n]

LEMMA OutagesAreNoted ==
    ASSUME IInv, StepDue, NEW failing \in SUBSET Eligible, NEW computed, NEW started,
           Opening(ToShorten, failing, started), Covers(failing, computed, started),
           Numbered(computed, nextId, failing),
           NEW z, z = OutagesWith(failing, computed)
    PROVE  Notes(z, ToShorten, failing, started)
<1> DEFINE K == ToShorten
<1>1. \A i \in DOMAIN started : started[i] \in Fault
    BY StartedFacts
<1>2. now \in Nat
    BY Basics
<1>3. ASSUME NEW n \in failing
      PROVE  \E i \in DOMAIN started : started[i].node = n /\ z[n] = started[i]
    <2> DEFINE a == CHOOSE i \in DOMAIN computed : computed[i].node = n
    <2>1. a \in DOMAIN computed /\ computed[a].node = n
        BY DEF Numbered
    <2>2. n \in Server
        BY DEF Eligible
    <2>3. z[n] = computed[a]
        BY <2>2 DEF OutagesWith
    <2> HIDE DEF a
    <2>4. a \in DOMAIN started /\ started[a] = computed[a]
        BY <2>1 DEF Covers
    <2> QED BY <2>1, <2>3, <2>4
<1>4. ASSUME NEW n \in K PROVE z[n] = NoOutage
    <2>1. n \in Server /\ n \in Lost
        BY DEF ToShorten
    <2>2. n \notin failing
        BY <2>1 DEF Eligible
    <2> QED BY <2>1, <2>2 DEF OutagesWith
<1>5. ASSUME NEW n \in Server, n \notin failing, n \notin K
      PROVE  /\ z[n] \in {outage[n], NoOutage}
             /\ outage[n] # NoOutage /\ RecoveryTime(outage[n]) > now => z[n] = outage[n]
    <2>1. z[n] = IF outage[n] # NoOutage /\ RecoveryTime(outage[n]) <= now
                 THEN NoOutage ELSE outage[n]
        BY <1>5 DEF OutagesWith, Outages
    <2>2. ASSUME outage[n] # NoOutage PROVE RecoveryTime(outage[n]) \in Nat
        <3>1. outage[n] \in Fault
            BY <2>2 DEF IInv, TypeOK
        <3> QED BY <3>1, FaultFields
    <2>3. ASSUME outage[n] # NoOutage, RecoveryTime(outage[n]) > now
          PROVE  ~(RecoveryTime(outage[n]) <= now)
        BY <1>2, <2>2, <2>3
    <2> QED BY <2>1, <2>3
<1>6. z \in [Server -> Fault \cup {NoOutage}]
    <2>1. ASSUME NEW n \in Server PROVE z[n] \in Fault \cup {NoOutage}
        <3>1. outage[n] \in Fault \cup {NoOutage}
            BY DEF IInv, TypeOK
        <3>2. CASE n \in failing
            BY <1>1, <1>3, <3>2
        <3>3. CASE n \in K
            BY <1>4, <3>3
        <3>4. CASE n \notin failing /\ n \notin K
            BY <1>5, <3>1, <3>4
        <3> QED BY <3>2, <3>3, <3>4
    <2>2. DOMAIN z = Server /\ z = [n \in Server |-> z[n]]
        BY DEF OutagesWith
    <2> QED BY <2>1, <2>2
<1> HIDE DEF K
<1>7. Notes(z, K, failing, started)
    BY <1>3, <1>4, <1>5, <1>6 DEF Notes
<1> QED BY <1>7 DEF K

LEMMA StepMoves ==
    ASSUME IInv, StepDue, NEW failing \in SUBSET Eligible, NEW computed, NEW started,
           Opening(ToShorten, failing, started), Covers(failing, computed, started),
           Numbered(computed, nextId, failing),
           trace' = KeptTrace \o started, outage' = OutagesWith(failing, computed),
           nextId' = nextId + Len(started), stepped' = TRUE, UNCHANGED <<now, debris>>
    PROVE  Moved(ToShorten, failing, started)
<1> DEFINE K == ToShorten
           kept == KeptTrace
           after == OutagesWith(failing, computed)
           cut == {outage[n].id : n \in K}
<1>1. /\ kept \in Seq(Fault) /\ Len(kept) = Len(trace) /\ DOMAIN kept = DOMAIN trace
      /\ \A i \in DOMAIN trace : kept[i] = IF trace[i].id \in cut THEN Shortened(trace[i], now)
                                           ELSE trace[i]
    BY KeptTraceFacts
<1>2. Notes(after, K, failing, started)
    BY OutagesAreNoted
<1>3. trace' = kept \o started /\ outage' = after
    OBVIOUS
<1>4. started \in Seq(Fault)
    BY DEF Opening
<1>5. Len(started) \in Nat /\ DOMAIN started = 1..Len(started)
    BY StartedFacts
<1>6. Len(trace) \in Nat /\ DOMAIN trace = 1..Len(trace)
    BY Basics
<1>7. \A n \in Lost : \E i \in DOMAIN started : started[i].node = n
    BY DEF Covers
<1>8. ~StepDue' /\ stepped' = TRUE
    BY DEF StepDue
<1> HIDE DEF K, kept, after, cut
<1>9. /\ trace' \in Seq(Fault) /\ Len(trace') = Len(trace) + Len(started)
      /\ \A i \in 1..Len(trace') : trace'[i] = IF i <= Len(trace) THEN kept[i] ELSE started[i - Len(trace)]
    BY <1>1, <1>3, <1>4, ConcatProperties
<1>10. \A i \in DOMAIN trace : trace'[i] = kept[i]
    BY <1>5, <1>6, <1>9
<1>11. \A i \in DOMAIN started : trace'[Len(trace) + i] = started[i]
    BY <1>5, <1>6, <1>9
<1>12. \A i \in DOMAIN trace : trace'[i] = IF trace[i].id \in cut THEN Shortened(trace[i], now)
                                            ELSE trace[i]
    BY <1>1, <1>10
<1>13. Moved(K, failing, started)
    <2>1. /\ now' = now /\ debris' = debris /\ nextId' = nextId + Len(started)
          /\ stepped' \in BOOLEAN /\ stepped'
        OBVIOUS
    <2>2. \A i \in DOMAIN trace :
            trace'[i] = IF trace[i].id \in {outage[n].id : n \in K} THEN Shortened(trace[i], now)
                        ELSE trace[i]
        BY <1>12 DEF cut
    <2>3. Notes(outage', K, failing, started)
        BY <1>2, <1>3
    <2>4. /\ outage' \in [Server -> Fault \cup {NoOutage}]
          /\ \A n \in failing : \E i \in DOMAIN started : started[i].node = n /\ outage'[n] = started[i]
          /\ \A n \in K : outage'[n] = NoOutage
          /\ \A n \in Server : n \notin failing /\ n \notin K =>
               /\ outage'[n] \in {outage[n], NoOutage}
               /\ outage[n] # NoOutage /\ RecoveryTime(outage[n]) > now => outage'[n] = outage[n]
        BY <2>3 DEF Notes
    <2>5. trace' \in Seq(Fault) /\ Len(trace') = Len(trace) + Len(started)
        BY <1>9
    <2> QED BY <1>7, <1>8, <1>11, <2>1, <2>2, <2>4, <2>5 DEF Moved
<1> QED BY <1>13 DEF K

LEMMA ProcessTimeStep ==
    ASSUME IInv, ProcessTime
    PROVE  IInv'
<1>1. StepDue /\ stepped' = TRUE /\ UNCHANGED <<now, debris>>
    BY DEF ProcessTime
<1>2. PICK failing \in SUBSET Eligible : \E length \in [failing -> Outage] :
         LET computed == ComputeFaults(failing, length)
             started == computed \o SatelliteFaults(nextId + Len(computed))
         IN /\ ctl' = IF started = <<>> THEN ctl
                      ELSE SubmitGeneratedBatch(ShortenAll, started, now)
            /\ trace' = KeptTrace \o started
            /\ outage' = OutagesWith(failing, computed)
            /\ nextId' = nextId + Len(started)
    BY DEF ProcessTime, KeptTrace, OutagesWith
<1>3. PICK length \in [failing -> Outage] :
         LET computed == ComputeFaults(failing, length)
             started == computed \o SatelliteFaults(nextId + Len(computed))
         IN /\ ctl' = IF started = <<>> THEN ctl
                      ELSE SubmitGeneratedBatch(ShortenAll, started, now)
            /\ trace' = KeptTrace \o started
            /\ outage' = OutagesWith(failing, computed)
            /\ nextId' = nextId + Len(started)
    BY <1>2
<1> DEFINE computed == ComputeFaults(failing, length)
           lost == SatelliteFaults(nextId + Len(computed))
           started == computed \o lost
<1>4. /\ ctl' = IF started = <<>> THEN ctl
                ELSE SubmitGeneratedBatch(ShortenAll, started, now)
      /\ trace' = KeptTrace \o started /\ outage' = OutagesWith(failing, computed)
      /\ nextId' = nextId + Len(started)
    BY <1>3
<1>5. /\ computed = ComputeFaults(failing, length)
      /\ lost = SatelliteFaults(nextId + Len(computed)) /\ started = computed \o lost
    OBVIOUS
<1> HIDE DEF computed, lost, started
<1>6. /\ Opening(ToShorten, failing, started) /\ Covers(failing, computed, started)
      /\ Numbered(computed, nextId, failing)
    BY <1>1, <1>5, StepOpens
<1>7. /\ \A n \in failing \cup Lost : \E i \in DOMAIN started : started[i].node = n
      /\ \A i \in DOMAIN started : started[i].kind = "satellite" <=> started[i].duration = Forever
    BY <1>6 DEF Covers
<1>8. CASE started # <<>>
    <2>1. ctl' = SubmitGeneratedBatch(ShortenAll, started, now)
        BY <1>4, <1>8
    <2>2. PICK m : Running(ToShorten, failing, started, m)
        BY <1>1, <1>6, <1>7, <1>8, <2>1, SubmitRuns
    <2>3. Moved(ToShorten, failing, started)
        BY <1>1, <1>4, <1>6, StepMoves
    <2> DEFINE K == ToShorten
    <2>4. Running(K, failing, started, m) /\ Moved(K, failing, started)
        BY <2>2, <2>3
    <2> HIDE DEF K
    <2> QED BY <2>4, Settles
<1>9. CASE started = <<>>
    <2>1. DOMAIN started = {} /\ Len(started) = 0
        BY <1>9
    <2>2. failing = {} /\ Lost = {}
        BY <1>7, <2>1
    <2>3. ToShorten = {}
        BY <2>2 DEF ToShorten
    <2>4. ctl' = ctl
        BY <1>4, <1>9
    <2>5. nextId' = nextId
        BY <1>4, <2>1, Basics
    <2>6. trace' = trace
        <3>1. {outage[n].id : n \in ToShorten} = {}
            BY <2>3
        <3> DEFINE kept == KeptTrace
        <3>2. /\ kept \in Seq(Fault) /\ Len(kept) = Len(trace) /\ DOMAIN kept = DOMAIN trace
              /\ \A i \in DOMAIN trace : kept[i] = IF trace[i].id \in {outage[n].id : n \in ToShorten}
                                                   THEN Shortened(trace[i], now) ELSE trace[i]
            BY <1>1, KeptTraceFacts
        <3> HIDE DEF kept
        <3>3. \A i \in DOMAIN trace : kept[i] = trace[i]
            BY <3>1, <3>2
        <3>4. trace \in Seq(Fault) /\ DOMAIN trace = 1..Len(trace) /\ Len(trace) \in Nat
            BY Basics
        <3>5. kept = trace
            BY <3>2, <3>3, <3>4, SeqEqual
        <3>6. trace' = kept \o <<>>
            BY <1>4, <1>9 DEF kept
        <3> QED BY <3>4, <3>5, <3>6, ConcatEmptySeq
    <2>7. outage' = Outages
        BY <1>4, <2>2, <2>3 DEF Outages, OutagesWith
    <2> QED BY <1>1, <2>2, <2>4, <2>5, <2>6, <2>7, QuietStep
<1> QED BY <1>8, <1>9

LEMMA NewControllerType ==
    ASSUME NEW c, c = NewController
    PROVE  c \in Controller
<1>1. /\ [n \in Sat |-> NoFault] \in [Sat -> Nat] /\ [n \in Sat |-> "none"] \in [Sat -> FaultKind]
      /\ {} \in SUBSET Time /\ {} \in SUBSET Sat /\ TRUE \in BOOLEAN /\ FALSE \in BOOLEAN
    BY DEF NoFault, FaultKind
<1>2. [t \in Time |-> <<>>] \in [Time -> Seq(Event)]
    BY EmptySeq
<1>3. <<>> \in Seq(Entry)
    BY EmptySeq
<1>4. Typed(c)
    BY <1>1, <1>2, <1>3 DEF NewController, Typed
<1>5. Fields(c)
    BY DEF NewController, Fields
<1> QED BY <1>4, <1>5, ControllerFields

LEMMA InitHolds == Init => IInv
<1> SUFFICES ASSUME Init PROVE IInv
    OBVIOUS
<1>1. /\ now = 0 /\ stepped = FALSE /\ ctl = NewController
      /\ debris \in [Sat -> (Time \ {Duration}) \cup {NoTime}]
      /\ outage = [n \in Server |-> NoOutage] /\ nextId = 1 /\ trace = <<>>
    BY DEF Init
<1>2. /\ ctl.active = [n \in Sat |-> NoFault] /\ ctl.down = [n \in Sat |-> "none"]
      /\ ctl.batches = [t \in Time |-> <<>>] /\ ctl.pending = {} /\ ctl.processed = {}
      /\ ctl.log = <<>> /\ ctl.tasks = [n \in Sat |-> "none"] /\ ctl.cut = {}
      /\ ctl.admitted = TRUE /\ ctl.failed = FALSE
    BY <1>1 DEF NewController
<1>3. TypeOK
    <2>1. ctl \in Controller
        BY <1>1, NewControllerType
    <2>2. now \in Time
        BY <1>1, DurationAssumption DEF Time
    <2>3. trace \in Seq(Fault)
        BY <1>1, EmptySeq
    <2>4. stepped \in BOOLEAN
        BY <1>1, Zenon
    <2>6. nextId \in Nat \ {0}
        BY <1>1
    <2>5. outage \in [Server -> Fault \cup {NoOutage}]
        BY <1>1
    <2> QED BY <2>1, <2>2, <2>3, <2>4, <2>5, <2>6 DEF TypeOK
<1>4. NeverRejected /\ ctl.tasks = ctl.down /\ ctl.cut = {n \in Sat : ctl.down[n] = "satellite"}
    BY <1>2 DEF NeverRejected
<1>5. ClockInv
    BY <1>1, <1>2 DEF ClockInv
<1>6. TraceInv
    <2>1. DOMAIN trace = {} /\ Len(trace) = 0 /\ DOMAIN ctl.log = {}
        BY <1>1, <1>2
    <2> QED BY <1>1, <2>1 DEF TraceInv
<1>7. ASSUME NEW n \in Sat PROVE NodeInv(n)
    <2>1. ctl.active[n] = NoFault /\ ctl.down[n] = "none"
        BY <1>2
    <2>2. debris[n] = NoTime \/ debris[n] \in Nat
        BY <1>1, DurationAssumption DEF Time
    <2>3. ~(debris[n] # NoTime /\ (debris[n] < now \/ (debris[n] = now /\ stepped)))
        BY <1>1, <2>2
    <2> QED BY <2>1, <2>3 DEF NodeInv
<1>8. \A n \in Server : OutageInv(n)
    BY <1>1 DEF OutageInv
<1>9. ASSUME NEW t \in Time PROVE BatchInv(t)
    <2>1. ctl.batches[t] = <<>>
        BY <1>2
    <2>2. DOMAIN ctl.batches[t] = {} /\ Range(ctl.batches[t]) = {}
        BY <2>1 DEF Range
    <2> QED BY <2>2 DEF BatchInv
<1> QED BY <1>1, <1>3, <1>4, <1>5, <1>6, <1>7, <1>8, <1>9 DEF IInv

LEMMA StutterKeeps ==
    ASSUME IInv, UNCHANGED vars
    PROVE  IInv'
BY DEF vars, IInv, TypeOK, NeverRejected, ClockInv, TraceInv, NodeInv, OutageInv, BatchInv,
       Open, StepDue, OnGrid, Lost

LEMMA NextKeeps ==
    ASSUME IInv, [Next]_vars
    PROVE  IInv'
<1>1. CASE ProcessTime
    BY <1>1, ProcessTimeStep
<1>2. CASE Batch
    BY <1>2, BatchStep
<1>3. CASE Tick
    BY <1>3, TickStep
<1>4. CASE UNCHANGED vars
    BY <1>4, StutterKeeps
<1> QED BY <1>1, <1>2, <1>3, <1>4 DEF Next

-----------------------------------------------------------------------------
(* What the runs check, for every instance *)

\* The inductive invariant holds.
THEOREM InductiveInvariant == Spec => []IInv
<1>1. Init => IInv
    BY InitHolds
<1>2. IInv /\ [Next]_vars => IInv'
    BY NextKeeps
<1> QED BY <1>1, <1>2, PTL DEF Spec

\* Every variable has its type.
THEOREM TypeCorrect == Spec => []TypeOK
<1>1. IInv => TypeOK
    BY DEF IInv
<1> QED BY <1>1, InductiveInvariant, PTL

\* The controller never throws or aborts, whatever faults are drawn.
THEOREM NothingIsRejected == Spec => []NeverRejected
<1>1. IInv => NeverRejected
    BY DEF IInv
<1> QED BY <1>1, InductiveInvariant, PTL

\* No fault is left that is over when the instant is.
LEMMA OverIsOver ==
    ASSUME IInv, InstantOver, NEW n \in Sat, ctl.down[n] = "compute"
    PROVE  RecoveryTime(trace[ctl.active[n]]) > now
<1> DEFINE f == trace[ctl.active[n]]
<1>1. f \in Fault
    BY ActiveFault
<1>2. RecoveryTime(f) >= now /\ RecoveryTime(f) \in Nat /\ now \in Nat
    BY <1>1, ActiveComputeFault, FaultFields, Basics
<1>3. RecoveryTime(f) # now
    <2> SUFFICES ASSUME RecoveryTime(f) = now PROVE FALSE
        OBVIOUS
    <2>1. now < Duration /\ now \notin ctl.pending /\ now \in Time
        BY Basics DEF InstantOver
    <2>2. now \notin ctl.processed /\ Recovery(f) \in Range(ctl.batches[now])
        BY <2>1, ActiveComputeFault
    <2>3. Open(now)
        BY <2>2 DEF Open
    <2>4. ctl.batches[now] = <<>>
        BY <2>1, <2>3, OpenBatch
    <2>5. Range(<<>>) = {}
        BY DEF Range
    <2> QED BY <2>2, <2>4, <2>5
<1> QED BY <1>2, <1>3

LEMMA Agreement == IInv => ViewsAgree
<1> SUFFICES ASSUME IInv, InstantOver
             PROVE  /\ ctl.tasks = ctl.down
                    /\ ctl.cut = {n \in Sat : ctl.down[n] = "satellite"}
                    /\ \A n \in Server :
                         ctl.down[n] = "compute" <=>
                            outage[n] # NoOutage /\ RecoveryTime(outage[n]) > now
    BY DEF ViewsAgree
<1>1. ctl.tasks = ctl.down /\ ctl.cut = {n \in Sat : ctl.down[n] = "satellite"}
    BY Basics
<1>2. ASSUME NEW n \in Server, ctl.down[n] = "compute"
      PROVE  outage[n] # NoOutage /\ RecoveryTime(outage[n]) > now
    <2> DEFINE f == trace[ctl.active[n]]
    <2>1. n \in Sat
        BY FaultAssumption
    <2>2. f \in Fault /\ RecoveryTime(f) > now
        BY <1>2, <2>1, ActiveFault, OverIsOver
    <2>3. outage[n] = f
        BY <1>2, <2>1, <2>2, ActiveComputeFault
    <2>4. f # NoOutage
        BY <2>2 DEF NoOutage, Fault
    <2> QED BY <2>2, <2>3, <2>4
<1>3. ASSUME NEW n \in Server, outage[n] # NoOutage, RecoveryTime(outage[n]) > now
      PROVE  ctl.down[n] = "compute"
    <2>1. OutageInv(n)
        BY DEF IInv
    <2> QED BY <1>3, <2>1 DEF OutageInv
<1> QED BY <1>1, <1>2, <1>3

\* The faults that are active and recover at t.
RecoversAt(t) ==
    {trace[i] : i \in DOMAIN trace} \cap
       {outage[n] : n \in {m \in Server : ctl.active[m] = outage[m].id
                                        /\ outage[m] # NoOutage
                                        /\ RecoveryTime(outage[m]) = t /\ t < Duration}}

LEMMA AheadIsActive ==
    ASSUME IInv, NEW t \in Time, t > now, NEW e
    PROVE  e \in Range(ctl.batches[t]) <=> \E f \in RecoversAt(t) : e = Recovery(f)
<1>1. Open(t)
    BY DEF Open
<1>2. ASSUME e \in Range(ctl.batches[t])
      PROVE  \E f \in RecoversAt(t) : e = Recovery(f)
    <2> DEFINE f == e.fault
               n == e.fault.node
    <2>1. /\ t < Duration /\ RecoveryTime(f) = t
          /\ n \in Sat /\ ctl.down[n] = "compute"
          /\ f = trace[ctl.active[n]] /\ e = Recovery(f) /\ f.id = ctl.active[n]
        BY <1>1, <1>2, DueNow
    <2> HIDE DEF f, n
    <2>2. ctl.active[n] \in DOMAIN trace /\ f \in Fault
        BY <2>1, ActiveFault
    <2>3. n \in Server /\ outage[n] = f
        BY <2>1, ActiveComputeFault
    <2>4. f # NoOutage
        BY <2>2 DEF NoOutage, Fault
    <2>5. f \in RecoversAt(t)
        BY <2>1, <2>2, <2>3, <2>4 DEF RecoversAt
    <2> QED BY <2>1, <2>5
<1>3. ASSUME NEW f \in RecoversAt(t)
      PROVE  Recovery(f) \in Range(ctl.batches[t])
    <2>1. PICK n \in Server : /\ f = outage[n] /\ ctl.active[n] = f.id /\ f # NoOutage
                              /\ RecoveryTime(f) = t /\ t < Duration
        BY DEF RecoversAt
    <2>2. PICK i \in DOMAIN trace : trace[i] = f
        BY DEF RecoversAt
    <2>3. trace[ctl.active[n]] = f /\ n \in Sat
        BY <2>1, <2>2, Basics, FaultAssumption
    <2>4. ctl.down[n] = "compute"
        <3>1. OutageInv(n)
            BY DEF IInv
        <3> QED BY <2>1, <3>1 DEF OutageInv
    <2> QED BY <2>1, <2>3, <2>4, ActiveComputeFault
<1> QED BY <1>2, <1>3

LEMMA Scheduled == IInv => RecoveriesScheduled
<1> SUFFICES ASSUME IInv, NEW t \in Time, t > now
             PROVE  LET ahead == ctl.batches[t] IN
                    /\ t \in ctl.pending <=> ahead # <<>>
                    /\ {ahead[i] : i \in DOMAIN ahead} =
                         {Recovery(f) : f \in {trace[i] : i \in DOMAIN trace} \cap
                            {outage[n] : n \in {m \in Server : ctl.active[m] = outage[m].id
                                                             /\ outage[m] # NoOutage
                                                             /\ RecoveryTime(outage[m]) = t /\ t < Duration}}}
                    /\ \A i, j \in DOMAIN ahead : i # j => ahead[i] # ahead[j]
    BY DEF RecoveriesScheduled
<1> DEFINE ahead == ctl.batches[t]
           F == {trace[i] : i \in DOMAIN trace} \cap
                  {outage[n] : n \in {m \in Server : ctl.active[m] = outage[m].id
                                                   /\ outage[m] # NoOutage
                                                   /\ RecoveryTime(outage[m]) = t /\ t < Duration}}
<1>1. Open(t)
    BY DEF Open
<1>2. (t \in ctl.pending <=> ahead # <<>>) /\ \A i, j \in DOMAIN ahead : i # j => ahead[i] # ahead[j]
    BY <1>1, OpenBatch DEF OneByOne
<1>3. F = RecoversAt(t)
    BY DEF RecoversAt
<1>4. \A e : e \in Range(ahead) <=> \E f \in RecoversAt(t) : e = Recovery(f)
    BY AheadIsActive
<1>5. Range(ahead) = {ahead[i] : i \in DOMAIN ahead}
    BY DEF Range
<1> HIDE DEF ahead, F
<1>6. {ahead[i] : i \in DOMAIN ahead} = {Recovery(f) : f \in F}
    BY <1>3, <1>4, <1>5
<1> QED BY <1>2, <1>6 DEF ahead, F

\* The coordinator, the topology and the engine know the same faults as the
\* controller at the end of every instant.
THEOREM FaultsAgree == Spec => []ViewsAgree
<1> QED BY Agreement, InductiveInvariant, PTL

\* Every active fault that recovers has one recovery ahead, and nothing else has.
THEOREM RecoveriesAreScheduled == Spec => []RecoveriesScheduled
<1> QED BY Scheduled, InductiveInvariant, PTL

=============================================================================
