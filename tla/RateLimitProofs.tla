-------------------------- MODULE RateLimitProofs --------------------------
(***************************************************************************)
(* Proofs about RateLimit: the limits hold for any number of concurrent    *)
(* requests and of keys, any bursts, rates, cooldowns and LRU capacity.    *)
(***************************************************************************)
EXTENDS RateLimit, TLAPS

GateOf(k) == IF k = "global" THEN "global" ELSE IF k \in Ip THEN "ip" ELSE "principal"

BucketType == [tokens : Nat, last : 0..MaxTime, wasLimited : BOOLEAN, lastEmit : Time]
LocType == [root : {"none", "valid", "invalid"}, ip : Ip \cup {None}, who : Caller \cup {None},
            gate : DOMAIN Gate, at : 0..MaxTime]
EventType == [n : Nat, at : Time, kept : BOOLEAN]
----------------------------------------------------------------------------
(* The inductive invariant. *)

Basics ==
    /\ now \in 0..MaxTime /\ rootEmit \in Time /\ unk \in [count : Nat, lastFlush : Time]
    /\ calls \in 0..MaxCalls /\ passed \in Nat /\ back \in Nat /\ owed \in Nat
    /\ MissesTold

\* Each limiter has keys of its own gate only: no two evict each other's.
Lists ==
    /\ order \in [Gates -> Seq(Key)]
    /\ \A g \in Gates : /\ Len(order[g]) <= MaxKeys /\ IsInjective(order[g])
                        /\ \A k \in Range(order[g]) : GateOf(k) = g

Buckets ==
    /\ bucket \in [Key -> BucketType]
    /\ \A k \in Key : bucket[k].tokens <= Burst[GateOf(k)] /\ bucket[k].last <= now

Threads ==
    /\ pc \in [Thread -> {"idle", "root", "clock", "lock", "sample", "serve"}]
    /\ loc \in [Thread -> LocType]
    /\ \A t \in Thread : /\ loc[t].at <= now
                         /\ pc[t] # "idle" => loc[t].ip \in Ip /\ loc[t].who \in Caller

\* What the entry of k remembers, or the one it would get, of its last event.
LastEmit(k) == IF k \in Range(order[GateOf(k)]) THEN bucket[k].lastEmit ELSE LongAgo

Told ==
    /\ emitted \in [Key \cup Debounced -> EventType]
    /\ emitted["root.auth"].at = rootEmit /\ emitted["unknown"].at = unk.lastFlush
    /\ \A k \in Key : emitted[k].kept => emitted[k].at = LastEmit(k)

\* What is in the global bucket and what was taken from it are covered by its clock.
Backstop ==
    LET e == bucket["global"] IN
    IF "global" \in Range(order["global"])
    THEN e.tokens + passed <= Burst["global"] + Rate["global"] * (e.last + back)
    ELSE passed = 0

IInv == Basics /\ Lists /\ Buckets /\ Threads /\ Told /\ Backstop
----------------------------------------------------------------------------
LEMMA GateFacts ==
    /\ DOMAIN Gate = 1..3 /\ Len(Gate) = 3
    /\ Gate[1] = "global" /\ Gate[2] = "ip" /\ Gate[3] = "principal"
    /\ Gates = {"global", "ip", "principal"}
  <1>1. /\ DOMAIN Gate = 1..3 /\ Len(Gate) = 3
        /\ Gate[1] = "global" /\ Gate[2] = "ip" /\ Gate[3] = "principal"
    BY DEF Gate
  <1>2. 1..3 = {1, 2, 3}
    OBVIOUS
  <1> QED
    BY <1>1, <1>2 DEF Gates

LEMMA KeyFacts ==
    /\ \A k \in Key : GateOf(k) \in Gates
    /\ "global" \in Key /\ GateOf("global") = "global"
    /\ "root.auth" \notin Key /\ "unknown" \notin Key
    /\ \A k \in Ip : k \in Key /\ GateOf(k) = "ip"
    /\ \A k \in Caller : k \in Key /\ GateOf(k) = "principal"
  BY GateFacts, ConstantsOK DEF Key, GateOf

LEMMA TimeFacts ==
    /\ LongAgo \in Time /\ 0 \in Time /\ Time \subseteq Int
    /\ \A x \in 0..MaxTime : x \in Time
  BY ConstantsOK DEF LongAgo, Time

\* MoveToFront permutes.
LEMMA Moved ==
    ASSUME NEW S, NEW q \in Seq(S), NEW i \in DOMAIN q, IsInjective(q)
    PROVE  /\ MoveToFront(q, i) \in Seq(S) /\ Len(MoveToFront(q, i)) = Len(q)
           /\ IsInjective(MoveToFront(q, i))
           /\ q[i] \in Range(MoveToFront(q, i)) /\ Range(MoveToFront(q, i)) \subseteq Range(q)
  <1> DEFINE m == MoveToFront(q, i)
             from(j) == IF j = 1 THEN i ELSE IF j <= i THEN j - 1 ELSE j
  <1>1. Len(q) \in Nat /\ DOMAIN q = 1..Len(q) /\ i \in 1..Len(q)
    OBVIOUS
  <1>2. \A j \in 1..Len(q) : from(j) \in 1..Len(q)
    BY <1>1
  <1>3. \A j, k \in 1..Len(q) : from(j) = from(k) => j = k
    BY <1>1
  <1>4. m = [j \in 1..Len(q) |-> q[from(j)]]
    BY <1>1 DEF MoveToFront
  <1>5. from(1) = i /\ 1 \in 1..Len(q)
    BY <1>1
  <1> HIDE DEF m, from
  <1>6. m \in Seq(S) /\ Len(m) = Len(q) /\ DOMAIN m = 1..Len(q)
    <2>1. \A j \in 1..Len(q) : q[from(j)] \in S
      BY <1>1, <1>2
    <2>2. m \in [1..Len(q) -> S]
      BY <1>4, <2>1
    <2> QED
      BY <1>1, <2>2
  <1>7. IsInjective(m)
    BY <1>1, <1>2, <1>3, <1>4, <1>6 DEF IsInjective
  <1>8. q[i] \in Range(m) /\ Range(m) \subseteq Range(q)
    BY Zenon, <1>1, <1>2, <1>4, <1>5, <1>6 DEF Range
  <1> QED
    BY <1>6, <1>7, <1>8 DEF m

LEMMA Room ==
    ASSUME NEW S, NEW q \in Seq(S), NEW cap \in Nat \ {0}, Len(q) <= cap,
           NEW r, r = IF Len(q) < cap THEN q ELSE SubSeq(q, 1, Len(q) - 1)
    PROVE  /\ r \in Seq(S) /\ Len(r) \in Nat /\ Len(r) <= Len(q) /\ Len(r) + 1 <= cap
           /\ \A j \in 1..Len(r) : r[j] = q[j]
  <1> DEFINE n == Len(q)
  <1>1. n \in Nat /\ n <= cap
    OBVIOUS
  <1>2. CASE n < cap
    <2>1. r = q
      BY <1>2
    <2>2. n + 1 <= cap
      BY <1>1, <1>2
    <2> QED
      BY <2>1, <2>2
  <1>3. CASE ~(n < cap)
    <2>1. r = SubSeq(q, 1, n - 1)
      BY <1>3
    <2> HIDE DEF n
    <2>2. n = cap /\ n - 1 \in Nat /\ n - 1 <= n /\ (n - 1) + 1 <= cap
      BY <1>1, <1>3
    <2>3. r \in Seq(S) /\ Len(r) = n - 1 /\ \A j \in 1..(n - 1) : r[j] = q[j]
      BY <2>1, <2>2 DEF n
    <2> QED
      BY <2>2, <2>3 DEF n
  <1> QED
    BY <1>2, <1>3

LEMMA Pushed ==
    ASSUME NEW S, NEW q \in Seq(S), NEW k \in S, k \notin Range(q), IsInjective(q),
           NEW r \in Seq(S), NEW n \in Nat, n = Len(r), n <= Len(q), \A j \in 1..n : r[j] = q[j]
    PROVE  /\ <<k>> \o r \in Seq(S) /\ Len(<<k>> \o r) = n + 1
           /\ IsInjective(<<k>> \o r)
           /\ k \in Range(<<k>> \o r) /\ Range(<<k>> \o r) \subseteq Range(q) \cup {k}
  <1> DEFINE u == <<k>> \o r
  <1>1. u \in Seq(S) /\ Len(u) = n + 1 /\ DOMAIN u = 1..(n + 1) /\ u[1] = k
    OBVIOUS
  <1>2. \A j \in 1..n : u[j + 1] = q[j]
    OBVIOUS
  <1>3. DOMAIN q = 1..Len(q) /\ Len(q) \in Nat
    OBVIOUS
  <1> HIDE DEF u
  <1>4. \A j \in 1..(n + 1) : j # 1 => j - 1 \in 1..n /\ (j - 1) + 1 = j
    OBVIOUS
  <1>5. \A j \in 1..n : j \in DOMAIN q
    BY <1>3
  <1>6. \A j \in 1..(n + 1) : j # 1 => u[j] = q[j - 1] /\ j - 1 \in DOMAIN q
    BY <1>2, <1>4, <1>5
  <1>7. IsInjective(u)
    <2> SUFFICES ASSUME NEW a \in 1..(n + 1), NEW b \in 1..(n + 1), u[a] = u[b] PROVE a = b
      BY <1>1 DEF IsInjective
    <2>1. CASE a = 1 /\ b # 1
      BY <1>1, <1>6, <2>1 DEF Range
    <2>2. CASE a # 1 /\ b = 1
      BY <1>1, <1>6, <2>2 DEF Range
    <2>3. CASE a # 1 /\ b # 1
      <3>1. a - 1 = b - 1
        BY <1>6, <2>3 DEF IsInjective
      <3> QED
        BY <3>1
    <2> QED
      BY <2>1, <2>2, <2>3
  <1>8. 1 \in 1..(n + 1)
    OBVIOUS
  <1>9. k \in Range(u)
    BY <1>1, <1>8 DEF Range
  <1>10. \A j \in 1..(n + 1) : u[j] \in Range(q) \cup {k}
    BY <1>1, <1>6 DEF Range
  <1>11. Range(u) \subseteq Range(q) \cup {k}
    BY <1>1, <1>10, Zenon DEF Range
  <1> QED
    BY <1>1, <1>7, <1>9, <1>11 DEF u

\* What the LRU does with a key: it is there, first, and no stranger with it.
LEMMA TouchFacts ==
    ASSUME Lists, NEW g \in Gates, NEW k \in Key, GateOf(k) = g
    PROVE  /\ Touch(g, k) \in Seq(Key) /\ Len(Touch(g, k)) <= MaxKeys /\ IsInjective(Touch(g, k))
           /\ k \in Range(Touch(g, k)) /\ Range(Touch(g, k)) \subseteq Range(order[g]) \cup {k}
           /\ \A x \in Range(Touch(g, k)) : GateOf(x) = g
  <1> DEFINE q == order[g]
  <1>0. MaxKeys \in Nat \ {0}
    BY ConstantsOK
  <1>1. /\ q \in Seq(Key) /\ Len(q) \in Nat /\ Len(q) <= MaxKeys /\ IsInjective(q)
        /\ DOMAIN q = 1..Len(q) /\ \A x \in Range(q) : GateOf(x) = g
    BY DEF Lists
  <1> HIDE DEF q
  <1>2. CASE k \in Range(q)
    <2> DEFINE i == CHOOSE i \in DOMAIN q : q[i] = k
    <2>1. i \in DOMAIN q /\ q[i] = k
      BY <1>2 DEF Range
    <2>2. Touch(g, k) = MoveToFront(q, i)
      BY <1>2 DEF Touch, q
    <2> HIDE DEF i
    <2>3. /\ Touch(g, k) \in Seq(Key) /\ Len(Touch(g, k)) = Len(q) /\ IsInjective(Touch(g, k))
          /\ k \in Range(Touch(g, k)) /\ Range(Touch(g, k)) \subseteq Range(q)
      BY <1>1, <2>1, <2>2, Moved
    <2> QED
      BY <1>1, <2>3 DEF q
  <1>3. CASE k \notin Range(q)
    <2> DEFINE r == IF Len(q) < MaxKeys THEN q ELSE SubSeq(q, 1, Len(q) - 1)
    <2>1. Touch(g, k) = <<k>> \o r
      BY <1>3 DEF Touch, q
    <2>2. /\ r \in Seq(Key) /\ Len(r) \in Nat /\ Len(r) <= Len(q) /\ Len(r) + 1 <= MaxKeys
          /\ \A j \in 1..Len(r) : r[j] = q[j]
      BY <1>0, <1>1, Room
    <2> HIDE DEF r
    <2>3. /\ <<k>> \o r \in Seq(Key) /\ Len(<<k>> \o r) = Len(r) + 1 /\ IsInjective(<<k>> \o r)
          /\ k \in Range(<<k>> \o r) /\ Range(<<k>> \o r) \subseteq Range(q) \cup {k}
      BY <1>1, <1>3, <2>2, Pushed
    <2>4. /\ Touch(g, k) \in Seq(Key) /\ Len(Touch(g, k)) = Len(r) + 1 /\ IsInjective(Touch(g, k))
          /\ k \in Range(Touch(g, k)) /\ Range(Touch(g, k)) \subseteq Range(q) \cup {k}
      BY <2>1, <2>3
    <2>5. Len(Touch(g, k)) <= MaxKeys
      BY <2>2, <2>4
    <2>6. \A x \in Range(Touch(g, k)) : GateOf(x) = g
      BY <1>1, <2>4
    <2> QED
      BY <2>4, <2>5, <2>6 DEF q
  <1> QED
    BY <1>2, <1>3
----------------------------------------------------------------------------
(* What one call does to an entry. *)

LEMMA Times ==
    ASSUME NEW r \in Nat, NEW a \in Nat, NEW b \in Nat
    PROVE  r * (a + b) = r * a + r * b /\ r * a \in Nat
  OBVIOUS

LEMMA NoBucketType ==
    /\ NoBucket \in BucketType
    /\ NoBucket.tokens = 0 /\ NoBucket.last = 0 /\ NoBucket.lastEmit = LongAgo
  <1>1. 0 \in 0..MaxTime
    BY ConstantsOK
  <1> QED
    BY <1>1, TimeFacts DEF NoBucket, BucketType

LEMMA EntryFacts ==
    ASSUME Buckets, now \in 0..MaxTime, NEW k \in Key
    PROVE  /\ Entry(GateOf(k), k) \in BucketType
           /\ Entry(GateOf(k), k).tokens <= Burst[GateOf(k)] /\ Entry(GateOf(k), k).last <= now
           /\ Entry(GateOf(k), k).lastEmit = LastEmit(k)
  <1> DEFINE new == [NoBucket EXCEPT !.tokens = Burst[GateOf(k)]]
  <1>1. Burst[GateOf(k)] \in Nat
    BY KeyFacts, ConstantsOK
  <1>2. NoBucket \in BucketType /\ NoBucket.last = 0 /\ NoBucket.lastEmit = LongAgo
    BY NoBucketType
  <1>3. new \in BucketType /\ new.tokens = Burst[GateOf(k)] /\ new.last = 0 /\ new.lastEmit = LongAgo
    BY <1>1, <1>2 DEF BucketType
  <1> HIDE DEF new
  <1>4. 0 <= now
    OBVIOUS
  <1>5. CASE k \in Range(order[GateOf(k)])
    <2>1. Entry(GateOf(k), k) = bucket[k]
      BY <1>5 DEF Entry
    <2> QED
      BY <1>5, <2>1 DEF Buckets, LastEmit
  <1>6. CASE k \notin Range(order[GateOf(k)])
    <2>1. Entry(GateOf(k), k) = new
      BY <1>6 DEF Entry, new
    <2> QED
      BY <1>1, <1>3, <1>4, <1>6, <2>1 DEF LastEmit
  <1> QED
    BY <1>5, <1>6

LEMMA AdvanceFacts ==
    ASSUME NEW g \in Gates, NEW e \in BucketType, e.tokens <= Burst[g], NEW at \in 0..MaxTime
    PROVE  /\ Advance(g, e, at) \in BucketType /\ Advance(g, e, at).tokens <= Burst[g]
           /\ Advance(g, e, at).last = at /\ Advance(g, e, at).lastEmit = e.lastEmit
           /\ Advance(g, e, at).tokens <= IF at > e.last THEN e.tokens + Rate[g] * (at - e.last)
                                          ELSE e.tokens
  <1> DEFINE full == IF at > e.last THEN e.tokens + Rate[g] * (at - e.last) ELSE e.tokens
             n == IF full > Burst[g] THEN Burst[g] ELSE full
  <1>1. /\ Burst[g] \in Nat /\ Rate[g] \in Nat /\ e.tokens \in Nat /\ e.last \in Nat /\ at \in Nat
        /\ e.wasLimited \in BOOLEAN /\ e.lastEmit \in Time
    BY ConstantsOK DEF BucketType
  <1>2. full \in Nat
    <2>1. CASE at > e.last
      <3>1. at - e.last \in Nat
        BY <1>1, <2>1
      <3>2. Rate[g] * (at - e.last) \in Nat
        BY <1>1, <3>1, Times
      <3> QED
        BY <1>1, <2>1, <3>2
    <2> QED
      BY <1>1, <2>1
  <1>3. Advance(g, e, at) = [e EXCEPT !.tokens = n, !.last = at]
    BY DEF Advance
  <1> HIDE DEF full
  <1>4. n \in Nat /\ n <= Burst[g] /\ n <= full
    BY <1>1, <1>2
  <1> HIDE DEF n
  <1>5. Advance(g, e, at) = [tokens |-> n, last |-> at, wasLimited |-> e.wasLimited,
                             lastEmit |-> e.lastEmit]
    BY Zenon, <1>3 DEF BucketType
  <1>6. /\ Advance(g, e, at) \in BucketType /\ Advance(g, e, at).tokens = n
        /\ Advance(g, e, at).last = at /\ Advance(g, e, at).lastEmit = e.lastEmit
    BY <1>1, <1>4, <1>5 DEF BucketType
  <1> QED
    BY <1>4, <1>6 DEF full

LEMMA DecideFacts ==
    ASSUME NEW e \in BucketType, NEW at \in 0..MaxTime
    PROVE  /\ Decide(e, at).entry \in BucketType /\ Decide(e, at).entry.last = e.last
           /\ Decide(e, at).ok \in BOOLEAN /\ Decide(e, at).transitioned \in BOOLEAN
           /\ Decide(e, at).ok => Decide(e, at).entry.tokens = e.tokens - 1
           /\ ~Decide(e, at).ok => Decide(e, at).entry.tokens = e.tokens
           /\ Decide(e, at).transitioned =>
                 Decide(e, at).entry.lastEmit = at /\ at - e.lastEmit > Cooldown
           /\ ~Decide(e, at).transitioned => Decide(e, at).entry.lastEmit = e.lastEmit
  <1> DEFINE ok == e.tokens >= 1
             transitioned == ~ok /\ ~e.wasLimited /\ at - e.lastEmit > Cooldown
             n == IF ok THEN e.tokens - 1 ELSE e.tokens
             l == IF transitioned THEN at ELSE e.lastEmit
             d == Decide(e, at)
  <1>1. /\ e.tokens \in Nat /\ e.last \in 0..MaxTime /\ e.wasLimited \in BOOLEAN
        /\ e.lastEmit \in Time
    BY DEF BucketType
  <1>2. n \in Nat /\ l \in Time
    BY <1>1, TimeFacts
  <1>3. d = [ok |-> ok, transitioned |-> transitioned,
             entry |-> [e EXCEPT !.tokens = n, !.wasLimited = ~ok, !.lastEmit = l]]
    BY DEF Decide
  <1>4. /\ ok \in BOOLEAN /\ transitioned \in BOOLEAN /\ (ok => n = e.tokens - 1)
        /\ (~ok => n = e.tokens) /\ (transitioned => l = at /\ at - e.lastEmit > Cooldown)
        /\ (~transitioned => l = e.lastEmit)
    OBVIOUS
  <1> HIDE DEF ok, transitioned, n, l, d
  <1>5. /\ d.ok = ok /\ d.transitioned = transitioned
        /\ d.entry = [e EXCEPT !.tokens = n, !.wasLimited = ~ok, !.lastEmit = l]
    BY <1>3
  <1>6. d.entry = [tokens |-> n, last |-> e.last, wasLimited |-> ~ok, lastEmit |-> l]
    BY Zenon, <1>5 DEF BucketType
  <1>7. d.entry \in BucketType /\ d.entry.last = e.last /\ d.entry.tokens = n /\ d.entry.lastEmit = l
    BY <1>1, <1>2, <1>6 DEF BucketType
  <1> QED
    BY <1>4, <1>5, <1>7 DEF d

LEMMA EmitsFacts ==
    ASSUME emitted \in [Key \cup Debounced -> EventType],
           NEW ks, NEW at \in 0..MaxTime, NEW gone, Emits(ks, at, gone)
    PROVE  /\ emitted' \in [Key \cup Debounced -> EventType]
           /\ \A x \in Key \cup Debounced :
                 /\ x \in ks => emitted'[x].at = at
                 /\ x \notin ks => /\ emitted'[x].n = emitted[x].n /\ emitted'[x].at = emitted[x].at
                                   /\ emitted'[x].kept => emitted[x].kept /\ x \notin gone
  <1> DEFINE e(x) == IF x \in ks THEN [n |-> emitted[x].n + 1, at |-> at, kept |-> TRUE]
                     ELSE [emitted[x] EXCEPT !.kept = @ /\ x \notin gone]
  <1>1. emitted' = [x \in Key \cup Debounced |-> e(x)]
    BY DEF Emits
  <1>2. ASSUME NEW x \in Key \cup Debounced
        PROVE  /\ e(x) \in EventType
               /\ x \in ks => e(x).at = at
               /\ x \notin ks => /\ e(x).n = emitted[x].n /\ e(x).at = emitted[x].at
                                 /\ e(x).kept => emitted[x].kept /\ x \notin gone
    <2>1. emitted[x] \in EventType /\ at \in Time
      BY TimeFacts
    <2>2. CASE x \in ks
      BY <2>1, <2>2 DEF EventType
    <2>3. CASE x \notin ks
      <3> DEFINE b == emitted[x].kept /\ x \notin gone
      <3>1. e(x) = [emitted[x] EXCEPT !.kept = b]
        BY <2>3
      <3>2. b \in BOOLEAN /\ (b => emitted[x].kept /\ x \notin gone)
        OBVIOUS
      <3> HIDE DEF e, b
      <3>3. e(x) = [n |-> emitted[x].n, at |-> emitted[x].at, kept |-> b]
        BY <2>1, <3>1 DEF EventType
      <3>4. /\ e(x) \in EventType /\ e(x).n = emitted[x].n /\ e(x).at = emitted[x].at
            /\ e(x).kept = b
        BY <2>1, <3>2, <3>3 DEF EventType
      <3> QED
        BY <2>3, <3>2, <3>4
    <2> QED
      BY <2>2, <2>3
  <1> HIDE DEF e
  <1> QED
    BY <1>1, <1>2
----------------------------------------------------------------------------
LEMMA InitHolds == Init => IInv
  <1> SUFFICES ASSUME Init PROVE IInv
    OBVIOUS
  <1>1. Basics
    BY ConstantsOK, TimeFacts DEF Init, Basics, MissesTold
  <1>2. Range(<<>>) = {} /\ <<>> \in Seq(Key) /\ Len(<<>>) = 0 /\ IsInjective(<<>>)
    BY DEF Range, IsInjective
  <1>3. \A g \in Gates : order[g] = <<>>
    BY DEF Init
  <1>4. Lists
    BY <1>2, <1>3, ConstantsOK DEF Init, Lists
  <1>5. Buckets
    <2>1. \A k \in Key : Burst[GateOf(k)] \in Nat
      BY KeyFacts, ConstantsOK
    <2>2. bucket = [k \in Key |-> NoBucket] /\ now = 0
      BY DEF Init
    <2> QED
      BY <2>1, <2>2, NoBucketType DEF Buckets
  <1>6. Threads
    <2>1. NoLoc \in LocType /\ NoLoc.at = 0
      BY GateFacts, ConstantsOK DEF NoLoc, LocType
    <2>2. pc = [t \in Thread |-> "idle"] /\ loc = [t \in Thread |-> NoLoc] /\ now = 0
      BY DEF Init
    <2> QED
      BY <2>1, <2>2 DEF Threads
  <1>7. Told
    <2> DEFINE ev == [n |-> 0, at |-> LongAgo, kept |-> TRUE]
    <2>1. ev \in EventType /\ ev.at = LongAgo
      BY TimeFacts DEF EventType
    <2>2. emitted = [k \in Key \cup Debounced |-> ev] /\ rootEmit = LongAgo /\ unk.lastFlush = LongAgo
      BY DEF Init
    <2> HIDE DEF ev
    <2>3. \A k \in Key : LastEmit(k) = LongAgo
      BY <1>2, <1>3, KeyFacts DEF LastEmit
    <2> QED
      BY <2>1, <2>2, <2>3 DEF Told, Debounced
  <1>8. Backstop
    BY <1>2, <1>3, GateFacts DEF Init, Backstop
  <1> QED
    BY <1>1, <1>4, <1>5, <1>6, <1>7, <1>8 DEF IInv

\* A step of thread t to label, with l in its registers.
LEMMA ThreadMoves ==
    ASSUME Threads, NEW t \in Thread, NEW l \in LocType, l.at <= now, now' = now,
           NEW label \in {"idle", "root", "clock", "lock", "sample", "serve"}, Goto(t, label),
           loc' = [loc EXCEPT ![t] = l],
           label # "idle" => l.ip \in Ip /\ l.who \in Caller
    PROVE  Threads'
  BY DEF Threads, Goto

LEMMA NoLocFacts == NoLoc \in LocType /\ NoLoc.at = 0 /\ NoLoc.gate = 1
  BY GateFacts, ConstantsOK DEF NoLoc, LocType

LEMMA ThreadDone ==
    ASSUME Threads, now \in 0..MaxTime, now' = now, NEW t \in Thread, Done(t)
    PROVE  Threads'
  <1>1. Goto(t, "idle") /\ loc' = [loc EXCEPT ![t] = NoLoc]
    BY DEF Done
  <1>2. NoLoc \in LocType /\ NoLoc.at <= now
    BY NoLocFacts
  <1> QED
    BY Zenon, <1>1, <1>2, ThreadMoves

\* No limiter is called.
LEMMA LimitersUntouched ==
    ASSUME IInv, UNCHANGED <<order, bucket, passed, back>>, now' \in Nat, now <= now'
    PROVE  Lists' /\ Buckets' /\ Backstop'
  <1>1. Lists' /\ Backstop'
    BY DEF IInv, Lists, Backstop
  <1>2. Buckets'
    BY DEF IInv, Basics, Buckets, BucketType
  <1> QED
    BY <1>1, <1>2

LEMMA ToldUntouched ==
    ASSUME Told, UNCHANGED <<emitted, rootEmit, unk, order, bucket>>
    PROVE  Told'
  BY DEF Told, LastEmit

LEMMA TickStep ==
    ASSUME IInv, Tick
    PROVE  IInv'
  <1>1. now' \in 0..MaxTime /\ now \in Nat /\ now' = now + 1
    BY ConstantsOK DEF IInv, Basics, Tick
  <1>2. Basics'
    BY <1>1 DEF IInv, Basics, Tick, MissesTold, sampler
  <1>3. Lists' /\ Buckets' /\ Backstop'
    BY <1>1, LimitersUntouched DEF Tick
  <1>4. Threads'
    BY <1>1 DEF IInv, Threads, LocType, Tick
  <1>5. Told'
    BY ToldUntouched DEF IInv, Tick, sampler
  <1> QED
    BY <1>2, <1>3, <1>4, <1>5 DEF IInv

LEMMA ArriveStep ==
    ASSUME IInv, NEW t \in Thread, NEW root \in {"none", "valid", "invalid"}, NEW ip \in Ip,
           NEW who \in Caller, Arrive(t, root, ip, who)
    PROVE  IInv'
  <1> DEFINE l == [NoLoc EXCEPT !.root = root, !.ip = ip, !.who = who, !.at = now]
             label == CASE root = "valid" -> "serve" [] root = "invalid" -> "root" [] OTHER -> "clock"
  <1>1. /\ UNCHANGED <<now, order, bucket, rootEmit, unk, owed, passed, emitted, back>>
        /\ calls < MaxCalls /\ calls' = calls + 1 /\ loc' = [loc EXCEPT ![t] = l] /\ Goto(t, label)
    BY DEF Arrive, sampler
  <1>2. now \in 0..MaxTime
    BY DEF IInv, Basics
  <1>3. l \in LocType /\ l.at = now /\ l.ip = ip /\ l.who = who
    BY Zenon, <1>2, NoLocFacts DEF LocType
  <1>4. label \in {"idle", "root", "clock", "lock", "sample", "serve"}
    BY Zenon
  <1> HIDE DEF l, label
  <1>5. Basics'
    BY <1>1, ConstantsOK DEF IInv, Basics, MissesTold
  <1>6. Lists' /\ Buckets' /\ Backstop'
    BY <1>1, <1>2, LimitersUntouched
  <1>7. Threads'
    <2>1. l.at <= now /\ l.ip \in Ip /\ l.who \in Caller
      BY <1>2, <1>3
    <2>2. Threads
      BY DEF IInv
    <2> QED
      BY Zenon, <1>1, <1>3, <1>4, <2>1, <2>2, ThreadMoves
  <1>8. Told'
    BY <1>1, ToldUntouched DEF IInv
  <1> QED
    BY <1>5, <1>6, <1>7, <1>8 DEF IInv

\* A request reads the clock, or ends.
LEMMA PlainSteps ==
    ASSUME IInv, NEW t \in Thread, ReadClock(t) \/ UnknownKey(t) \/ Unauthenticated(t) \/ Serve(t)
    PROVE  IInv'
  <1>1. /\ UNCHANGED <<now, order, bucket, rootEmit, unk, owed, calls, passed, emitted, back>>
        /\ \/ Done(t)
           \/ /\ pc[t] = "clock" /\ loc' = [loc EXCEPT ![t].at = now]
              /\ Goto(t, "lock") \/ Goto(t, "sample")
    BY DEF ReadClock, UnknownKey, Unauthenticated, Serve, sampler
  <1>2. now \in 0..MaxTime
    BY DEF IInv, Basics
  <1>3. Basics'
    BY <1>1 DEF IInv, Basics, MissesTold
  <1>4. Lists' /\ Buckets' /\ Backstop'
    BY <1>1, <1>2, LimitersUntouched
  <1>5. Threads'
    <2>1. CASE Done(t)
      BY <1>1, <1>2, <2>1, ThreadDone DEF IInv
    <2>2. CASE /\ pc[t] = "clock" /\ loc' = [loc EXCEPT ![t].at = now]
               /\ Goto(t, "lock") \/ Goto(t, "sample")
      <3> DEFINE l == [loc[t] EXCEPT !.at = now]
      <3>1. loc[t] \in LocType /\ loc[t].ip \in Ip /\ loc[t].who \in Caller
        BY <2>2 DEF IInv, Threads
      <3>2. l \in LocType /\ l.at = now /\ l.ip \in Ip /\ l.who \in Caller
        BY <1>2, <3>1 DEF LocType
      <3>3. loc' = [loc EXCEPT ![t] = l]
        BY <2>2
      <3> HIDE DEF l
      <3> QED
        <4>1. l.at <= now /\ Threads
          BY <1>2, <3>2 DEF IInv
        <4>2. CASE Goto(t, "lock")
          BY Zenon, <1>1, <3>2, <3>3, <4>1, <4>2, ThreadMoves
        <4>3. CASE Goto(t, "sample")
          BY Zenon, <1>1, <3>2, <3>3, <4>1, <4>3, ThreadMoves
        <4> QED
          BY <2>2, <4>2, <4>3
    <2> QED
      BY <1>1, <2>1, <2>2
  <1>6. Told'
    BY <1>1, ToldUntouched DEF IInv
  <1> QED
    BY <1>3, <1>4, <1>5, <1>6 DEF IInv

LEMMA DebounceStep ==
    ASSUME IInv, NEW t \in Thread, Debounce(t)
    PROVE  IInv'
  <1>1. /\ UNCHANGED <<now, order, bucket, unk, owed, loc, calls, passed, back>>
        /\ pc[t] = "root" /\ Goto(t, "clock")
        /\ \/ UNCHANGED <<rootEmit, emitted>>
           \/ rootEmit' = loc[t].at /\ Emits({"root.auth"}, loc[t].at, {})
    BY DEF Debounce, sampler
  <1>2. now \in 0..MaxTime /\ loc[t].at \in 0..MaxTime /\ loc[t].at \in Time
    BY TimeFacts DEF IInv, Basics, Threads, LocType
  <1>3. Basics'
    BY <1>1, <1>2 DEF IInv, Basics, MissesTold
  <1>4. Lists' /\ Buckets' /\ Backstop'
    BY <1>1, <1>2, LimitersUntouched
  <1>5. Threads'
    BY <1>1 DEF IInv, Threads, Goto
  <1>6. Told'
    <2>1. CASE UNCHANGED <<rootEmit, emitted>>
      BY <1>1, <2>1, ToldUntouched DEF IInv
    <2>2. CASE rootEmit' = loc[t].at /\ Emits({"root.auth"}, loc[t].at, {})
      <3>1. \A k \in Key : LastEmit(k)' = LastEmit(k)
        BY <1>1 DEF LastEmit
      <3>2. "root.auth" \in Debounced /\ "unknown" \in Debounced
        BY DEF Debounced
      <3>3. /\ emitted' \in [Key \cup Debounced -> EventType]
            /\ \A x \in Key \cup Debounced :
                  /\ x = "root.auth" => emitted'[x].at = loc[t].at
                  /\ x # "root.auth" => /\ emitted'[x].at = emitted[x].at
                                        /\ emitted'[x].kept => emitted[x].kept
        <4>1. emitted \in [Key \cup Debounced -> EventType]
          BY DEF IInv, Told
        <4> DEFINE ks == {"root.auth"}
                   gone == {}
                   at == loc[t].at
        <4>2. Emits(ks, at, gone) /\ \A x : x \in ks <=> x = "root.auth"
          BY <2>2
        <4>3. at \in 0..MaxTime
          BY <1>2
        <4> HIDE DEF ks, gone, at
        <4>4. /\ emitted' \in [Key \cup Debounced -> EventType]
              /\ \A x \in Key \cup Debounced :
                    /\ x \in ks => emitted'[x].at = at
                    /\ x \notin ks => /\ emitted'[x].at = emitted[x].at
                                      /\ emitted'[x].kept => emitted[x].kept /\ x \notin gone
          BY <4>1, <4>2, <4>3, EmitsFacts
        <4> QED
          BY <4>2, <4>4 DEF at
      <3> QED
        BY <1>1, <2>2, <3>1, <3>2, <3>3, KeyFacts DEF IInv, Told
    <2> QED
      BY <1>1, <2>1, <2>2
  <1> QED
    BY <1>3, <1>4, <1>5, <1>6 DEF IInv

LEMMA SampleStep ==
    ASSUME IInv, NEW t \in Thread, SampleUnknown(t)
    PROVE  IInv'
  <1> DEFINE at == loc[t].at
  <1>1. /\ UNCHANGED <<now, order, bucket, rootEmit, calls, passed, back>> /\ Done(t)
        /\ \/ /\ Emits({"unknown"}, at, {})
              /\ unk' = [count |-> 0, lastFlush |-> at] /\ owed' = owed + 1 - (unk.count + 1)
           \/ /\ unk' = [unk EXCEPT !.count = unk.count + 1] /\ owed' = owed + 1
              /\ UNCHANGED emitted
    BY DEF SampleUnknown
  <1>2. now \in 0..MaxTime /\ at \in 0..MaxTime /\ at \in Time
    BY TimeFacts DEF IInv, Basics, Threads, LocType
  <1> HIDE DEF at
  <1>3. /\ unk \in [count : Nat, lastFlush : Time] /\ unk.count = owed /\ owed \in Nat
    BY DEF IInv, Basics, MissesTold
  <1>4. unk' \in [count : Nat, lastFlush : Time] /\ unk'.count = owed' /\ owed' \in Nat
    BY <1>1, <1>2, <1>3
  <1>5. Basics'
    BY <1>1, <1>4 DEF IInv, Basics, MissesTold
  <1>6. Lists' /\ Buckets' /\ Backstop'
    BY <1>1, <1>2, LimitersUntouched
  <1>7. Threads'
    BY <1>1, <1>2, ThreadDone DEF IInv
  <1>8. Told'
    <2>1. \A k \in Key : LastEmit(k)' = LastEmit(k)
      BY <1>1 DEF LastEmit
    <2>2. CASE /\ unk' = [unk EXCEPT !.count = unk.count + 1] /\ UNCHANGED emitted
      BY <1>1, <1>3, <2>1, <2>2 DEF IInv, Told
    <2>3. CASE Emits({"unknown"}, at, {}) /\ unk' = [count |-> 0, lastFlush |-> at]
      <3>1. "root.auth" \in Debounced /\ "unknown" \in Debounced
        BY DEF Debounced
      <3>2. /\ emitted' \in [Key \cup Debounced -> EventType]
            /\ \A x \in Key \cup Debounced :
                  /\ x = "unknown" => emitted'[x].at = at
                  /\ x # "unknown" => /\ emitted'[x].at = emitted[x].at
                                      /\ emitted'[x].kept => emitted[x].kept
        <4>1. emitted \in [Key \cup Debounced -> EventType]
          BY DEF IInv, Told
        <4> DEFINE ks == {"unknown"}
        <4>2. Emits(ks, at, {}) /\ \A x : x \in ks <=> x = "unknown"
          BY <2>3
        <4> HIDE DEF ks
        <4> QED
          BY <1>2, <4>1, <4>2, EmitsFacts
      <3> QED
        BY <1>1, <2>1, <2>3, <3>1, <3>2, KeyFacts DEF IInv, Told
    <2> QED
      BY <1>1, <2>2, <2>3
  <1> QED
    BY <1>5, <1>6, <1>7, <1>8 DEF IInv
----------------------------------------------------------------------------
(* MemoryLimiter.Allow. *)

LEMMA KeyOfFacts ==
    ASSUME NEW l \in LocType, l.ip \in Ip, l.who \in Caller
    PROVE  /\ Gate[l.gate] \in Gates /\ KeyOf(l) \in Key /\ GateOf(KeyOf(l)) = Gate[l.gate]
           /\ (Gate[l.gate] = "global" => KeyOf(l) = "global")
  <1>1. l.gate \in 1..3
    BY GateFacts DEF LocType
  <1>2. l.gate = 1 \/ l.gate = 2 \/ l.gate = 3
    BY <1>1
  <1>3. CASE l.gate = 1
    BY <1>3, GateFacts, KeyFacts DEF KeyOf
  <1>4. CASE l.gate = 2
    BY <1>4, GateFacts, KeyFacts DEF KeyOf
  <1>5. CASE l.gate = 3
    BY <1>5, GateFacts, KeyFacts DEF KeyOf
  <1> QED
    BY <1>2, <1>3, <1>4, <1>5

\* The refill up to at is paid for by the bucket's clock, or by how far it goes back.
LEMMA Refill ==
    ASSUME NEW r \in Nat, NEW burst \in Nat, NEW tokens \in Nat, NEW taken \in Nat,
           NEW last \in Nat, NEW gap \in Nat, NEW at \in Nat, NEW n \in Nat,
           tokens + taken <= burst + r * (last + gap),
           n <= IF at > last THEN tokens + r * (at - last) ELSE tokens
    PROVE  n + taken <= burst + r * (at + IF at < last THEN gap + last - at ELSE gap)
  <1>1. CASE at > last
    <2>1. at - last \in Nat /\ (at - last) + (last + gap) = at + gap /\ last + gap \in Nat
      BY <1>1
    <2>2. r * (at + gap) = r * (at - last) + r * (last + gap)
      BY <2>1, Times
    <2>3. r * (at - last) \in Nat /\ r * (last + gap) \in Nat /\ r * (at + gap) \in Nat
      BY <2>1, Times
    <2>4. n + taken <= burst + r * (at + gap)
      BY <1>1, <2>2, <2>3
    <2> QED
      BY <1>1, <2>4
  <1>2. CASE ~(at > last)
    <2>1. at + (IF at < last THEN gap + last - at ELSE gap) = last + gap
      BY <1>2
    <2>2. last + gap \in Nat
      OBVIOUS
    <2>3. r * (last + gap) \in Nat
      BY <2>2, Times
    <2>4. n <= tokens
      BY <1>2
    <2>5. n + taken <= burst + r * (last + gap)
      BY <2>3, <2>4
    <2> QED
      BY <2>1, <2>5
  <1> QED
    BY <1>1, <1>2

LEMMA AllowStep ==
    ASSUME IInv, NEW t \in Thread, Allow(t)
    PROVE  IInv'
  <1> DEFINE l == loc[t]
             g == Gate[l.gate]
             k == KeyOf(l)
             old == Entry(g, k)
             a == Advance(g, old, l.at)
             d == Decide(a, l.at)
             gone == Range(order[g]) \ Range(Touch(g, k))
             ks == IF d.transitioned THEN {k} ELSE {}
  <1>1. /\ pc[t] = "lock" /\ UNCHANGED <<now, rootEmit, unk, owed, calls>>
        /\ order' = [order EXCEPT ![g] = Touch(g, k)]
        /\ bucket' = [x \in Key |-> IF x = k THEN d.entry
                                    ELSE IF x \in gone THEN NoBucket ELSE bucket[x]]
        /\ Emits(ks, l.at, gone)
        /\ passed' = IF d.ok /\ g = "global" THEN passed + 1 ELSE passed
        /\ back' = IF g = "global" /\ l.at < old.last THEN back + old.last - l.at ELSE back
    BY ZenonT(40) DEF Allow, sampler
  <1>2. \/ Done(t)
        \/ l.gate < Len(Gate) /\ Goto(t, "clock") /\ loc' = [loc EXCEPT ![t].gate = @ + 1]
        \/ Goto(t, "serve") /\ UNCHANGED loc
    BY Zenon DEF Allow
  <1>3. \A x : x \in ks <=> x = k /\ d.transitioned
    OBVIOUS
  <1>4. /\ l \in LocType /\ l.ip \in Ip /\ l.who \in Caller /\ l.at \in 0..MaxTime /\ l.at <= now
        /\ now \in 0..MaxTime
    BY Zenon, <1>1 DEF IInv, Basics, Threads, LocType
  <1> HIDE DEF l, ks
  <1>5. g \in Gates /\ k \in Key /\ GateOf(k) = g /\ (g = "global" => k = "global")
    BY <1>4, KeyOfFacts
  <1> HIDE DEF g, k
  <1>6. /\ Touch(g, k) \in Seq(Key) /\ Len(Touch(g, k)) <= MaxKeys /\ IsInjective(Touch(g, k))
        /\ k \in Range(Touch(g, k)) /\ Range(Touch(g, k)) \subseteq Range(order[g]) \cup {k}
        /\ \A x \in Range(Touch(g, k)) : GateOf(x) = g
    BY <1>5, TouchFacts DEF IInv
  <1>7. /\ old \in BucketType /\ old.tokens <= Burst[g] /\ old.last <= now
        /\ old.lastEmit = LastEmit(k)
    BY <1>4, <1>5, EntryFacts DEF IInv
  <1>8. old = IF k \in Range(order[g]) THEN bucket[k] ELSE [NoBucket EXCEPT !.tokens = Burst[g]]
    BY DEF Entry
  <1> HIDE DEF old
  <1>9. /\ a \in BucketType /\ a.tokens <= Burst[g] /\ a.last = l.at /\ a.lastEmit = old.lastEmit
        /\ a.tokens <= IF l.at > old.last THEN old.tokens + Rate[g] * (l.at - old.last) ELSE old.tokens
    BY ZenonT(40), <1>4, <1>5, <1>7, AdvanceFacts
  <1> HIDE DEF a
  <1>10. /\ d.entry \in BucketType /\ d.entry.last = l.at /\ d.ok \in BOOLEAN
         /\ d.transitioned \in BOOLEAN
         /\ d.ok => d.entry.tokens = a.tokens - 1
         /\ ~d.ok => d.entry.tokens = a.tokens
         /\ d.transitioned => d.entry.lastEmit = l.at /\ l.at - old.lastEmit > Cooldown
         /\ ~d.transitioned => d.entry.lastEmit = old.lastEmit
    BY <1>4, <1>9, DecideFacts
  <1> HIDE DEF d
  <1>11. order \in [Gates -> Seq(Key)] /\ \A h \in Gates : \A x \in Range(order[h]) : GateOf(x) = h
    BY DEF IInv, Lists
  <1>12. \A x \in gone : x \in Range(order[g]) /\ x \notin Range(Touch(g, k)) /\ GateOf(x) = g
    BY <1>5, <1>11
  <1>13. \A x \in Range(order[g]) : x \notin gone => x \in Range(Touch(g, k))
    OBVIOUS
  <1> HIDE DEF gone
  <1>14. Lists'
    <2>1. order' \in [Gates -> Seq(Key)]
      BY Zenon, <1>1, <1>6, <1>11
    <2>2. ASSUME NEW h \in Gates
          PROVE  /\ Len(order'[h]) <= MaxKeys /\ IsInjective(order'[h])
                 /\ \A x \in Range(order'[h]) : GateOf(x) = h
      <3>1. CASE h = g
        BY Zenon, <1>1, <1>5, <1>6, <1>11, <3>1
      <3>2. CASE h # g
        BY <1>1, <1>11, <2>2, <3>2 DEF IInv, Lists
      <3> QED
        BY Zenon, <3>1, <3>2
    <2> QED
      BY <2>1, <2>2 DEF Lists
  <1>15. Buckets'
    <2>1. ASSUME NEW x \in Key
          PROVE  /\ bucket'[x] \in BucketType /\ bucket'[x].tokens <= Burst[GateOf(x)]
                 /\ bucket'[x].last <= now
      <3>1. Burst[GateOf(x)] \in Nat
        BY KeyFacts, ConstantsOK
      <3>2. CASE x = k
        <4>1. bucket'[x] = d.entry
          BY <1>1, <3>2
        <4>2. a.tokens \in Nat
          BY <1>9 DEF BucketType
        <4>3. d.entry.tokens <= Burst[g]
          BY <1>5, <1>9, <1>10, <3>1, <3>2, <4>2
        <4> QED
          BY Zenon, <1>4, <1>5, <1>10, <3>2, <4>1, <4>3
      <3>3. CASE x # k /\ x \in gone
        <4>1. bucket'[x] = NoBucket
          BY <1>1, <3>3
        <4> QED
          BY <1>4, <3>1, <4>1, NoBucketType
      <3>4. CASE x # k /\ x \notin gone
        <4>1. bucket'[x] = bucket[x]
          BY <1>1, <3>4
        <4> QED
          BY <4>1 DEF IInv, Buckets
      <3> QED
        BY <3>2, <3>3, <3>4
    <2>2. bucket' = [x \in Key |-> bucket'[x]] /\ now' = now
      BY <1>1
    <2> QED
      BY <2>1, <2>2 DEF Buckets
  <1>16. Threads'
    <2>1. Threads
      BY Zenon DEF IInv
    <2>2. CASE Done(t)
      BY <1>1, <1>4, <2>1, <2>2, ThreadDone
    <2>3. CASE l.gate < Len(Gate) /\ Goto(t, "clock") /\ loc' = [loc EXCEPT ![t].gate = @ + 1]
      <3> DEFINE m == [l EXCEPT !.gate = l.gate + 1]
      <3>1. l.gate \in 1..3 /\ l.gate + 1 \in 1..3
        BY <1>4, <2>3, GateFacts DEF LocType
      <3>2. m \in LocType /\ m.at = l.at /\ m.ip = l.ip /\ m.who = l.who
        BY <1>4, <3>1, GateFacts DEF LocType
      <3>3. loc' = [loc EXCEPT ![t] = m]
        BY Zenon, <2>3 DEF l
      <3> HIDE DEF m
      <3> QED
        BY Zenon, <1>1, <1>4, <2>1, <2>3, <3>2, <3>3, ThreadMoves
    <2>4. CASE Goto(t, "serve") /\ UNCHANGED loc
      BY Zenon, <1>1, <2>1, <2>4 DEF Threads, Goto
    <2> QED
      BY <1>2, <2>2, <2>3, <2>4
  <1>17. Told'
    <2>1. emitted \in [Key \cup Debounced -> EventType]
      BY DEF IInv, Told
    <2>2. /\ emitted' \in [Key \cup Debounced -> EventType]
          /\ \A x \in Key \cup Debounced :
                /\ x \in ks => emitted'[x].at = l.at
                /\ x \notin ks => /\ emitted'[x].at = emitted[x].at
                                  /\ emitted'[x].kept => emitted[x].kept /\ x \notin gone
      <3>1. Emits(ks, l.at, gone) /\ l.at \in 0..MaxTime
        BY <1>1, <1>4
      <3> QED
        BY <2>1, <3>1, EmitsFacts
    <2>3. "root.auth" \in Debounced /\ "unknown" \in Debounced /\ "root.auth" \notin ks /\ "unknown" \notin ks
      BY <1>3, <1>5, KeyFacts DEF Debounced
    <2>4. emitted'["root.auth"].at = rootEmit' /\ emitted'["unknown"].at = unk'.lastFlush
      BY <1>1, <2>2, <2>3 DEF IInv, Told
    <2>5. ASSUME NEW x \in Key, emitted'[x].kept PROVE emitted'[x].at = LastEmit(x)'
      <3>1. GateOf(x) \in Gates /\ (emitted[x].kept => emitted[x].at = LastEmit(x))
        BY KeyFacts DEF IInv, Told
      <3>2. CASE x = k
        <4>1. bucket'[k] = d.entry /\ order'[g] = Touch(g, k)
          BY Zenon, <1>1, <1>5, <1>11
        <4>2. LastEmit(x)' = d.entry.lastEmit
          BY Zenon, <1>5, <1>6, <3>2, <4>1 DEF LastEmit
        <4>3. CASE d.transitioned
          BY Zenon, <1>3, <1>10, <2>2, <3>2, <4>2, <4>3
        <4>4. CASE ~d.transitioned
          BY Zenon, <1>3, <1>7, <1>10, <2>2, <2>5, <3>1, <3>2, <4>2, <4>4
        <4> QED
          BY Zenon, <4>3, <4>4
      <3>3. CASE x # k
        <4>1. emitted'[x].at = emitted[x].at /\ emitted[x].kept /\ x \notin gone
          BY Zenon, <1>3, <2>2, <2>5, <3>3
        <4>2. bucket'[x] = bucket[x]
          BY Zenon, <1>1, <3>3, <4>1
        <4>3. x \in Range(order'[GateOf(x)]) <=> x \in Range(order[GateOf(x)])
          <5>1. CASE GateOf(x) = g
            BY <1>1, <1>5, <1>6, <1>11, <1>13, <3>3, <4>1, <5>1
          <5>2. CASE GateOf(x) # g
            BY Zenon, <1>1, <1>11, <3>1, <5>2
          <5> QED
            BY Zenon, <5>1, <5>2
        <4>4. LastEmit(x)' = LastEmit(x)
          BY Zenon, <4>2, <4>3 DEF LastEmit
        <4> QED
          BY <3>1, <4>1, <4>4
      <3> QED
        BY Zenon, <3>2, <3>3
    <2> QED
      BY <2>2, <2>4, <2>5 DEF Told
  <1>18. passed' \in Nat /\ back' \in Nat
    BY <1>1, <1>4, <1>7 DEF IInv, Basics, BucketType
  <1>19. Basics'
    BY <1>1, <1>18 DEF IInv, Basics, MissesTold
  <1>20. Backstop'
    <2>1. CASE g = "global"
      <3>1. k = "global" /\ order'["global"] = Touch(g, k) /\ bucket'["global"] = d.entry
        BY Zenon, <1>1, <1>5, <1>11, <2>1
      <3>2. /\ Rate[g] \in Nat /\ Burst[g] \in Nat /\ old.tokens \in Nat /\ old.last \in Nat
            /\ a.tokens \in Nat /\ l.at \in Nat /\ passed \in Nat /\ back \in Nat
        BY <1>4, <1>5, <1>7, <1>9, ConstantsOK DEF BucketType, IInv, Basics
      <3>3. old.tokens + passed <= Burst[g] + Rate[g] * (old.last + back)
        <4>1. CASE k \in Range(order[g])
          BY <1>8, <2>1, <3>1, <4>1 DEF IInv, Backstop
        <4>2. CASE k \notin Range(order[g])
          <5>1. passed = 0
            BY <2>1, <3>1, <4>2 DEF IInv, Backstop
          <5>2. old.last + back \in Nat
            BY <3>2
          <5>3. Rate[g] * (old.last + back) \in Nat
            BY Zenon, <3>2, <5>2, Times
          <5> QED
            BY <1>7, <3>2, <5>1, <5>3
        <4> QED
          BY <4>1, <4>2
      <3>4. a.tokens + passed <= Burst[g] + Rate[g] * (l.at + IF l.at < old.last THEN back + old.last - l.at ELSE back)
        BY ZenonT(40), <1>9, <3>2, <3>3, Refill
      <3>5. back' = IF l.at < old.last THEN back + old.last - l.at ELSE back
        BY Zenon, <1>1, <2>1
      <3>6. d.entry.tokens + passed' = a.tokens + passed
        BY <1>1, <1>10, <2>1, <3>2
      <3>7. d.entry.tokens + passed' <= Burst[g] + Rate[g] * (d.entry.last + back')
        BY Zenon, <1>10, <3>4, <3>5, <3>6
      <3> QED
        BY Zenon, <1>6, <2>1, <3>1, <3>7 DEF Backstop
    <2>2. CASE g # "global"
      <3>1. "global" # k /\ "global" \notin gone
        BY Zenon, <1>5, <1>12, <2>2, KeyFacts
      <3>2. /\ bucket'["global"] = bucket["global"] /\ order'["global"] = order["global"]
            /\ passed' = passed /\ back' = back
        BY <1>1, <1>11, <2>2, <3>1, KeyFacts, GateFacts
      <3> QED
        BY <3>2 DEF IInv, Backstop
    <2> QED
      BY Zenon, <2>1, <2>2
  <1> QED
    BY <1>14, <1>15, <1>16, <1>17, <1>19, <1>20 DEF IInv
----------------------------------------------------------------------------
LEMMA Inductive == Spec => []IInv
  <1>1. IInv /\ [Next]_vars => IInv'
    <2> SUFFICES ASSUME IInv, [Next]_vars PROVE IInv'
      OBVIOUS
    <2>1. CASE UNCHANGED vars
      <3>1. /\ UNCHANGED <<now, order, bucket, rootEmit, unk, pc, loc, calls, passed, emitted, owed, back>>
            /\ now \in Nat
        BY <2>1 DEF vars, IInv, Basics
      <3>2. Lists' /\ Buckets' /\ Backstop'
        BY <3>1, LimitersUntouched
      <3>3. Told'
        BY <3>1, ToldUntouched DEF IInv
      <3>4. Basics' /\ Threads'
        BY <3>1 DEF IInv, Basics, MissesTold, Threads
      <3> QED
        BY <3>2, <3>3, <3>4 DEF IInv
    <2>2. CASE Tick
      BY <2>2, TickStep
    <2>3. ASSUME NEW t \in Thread, NEW root \in {"none", "valid", "invalid"}, NEW ip \in Ip,
                 NEW who \in Caller, Arrive(t, root, ip, who)
          PROVE  IInv'
      BY <2>3, ArriveStep
    <2>4. ASSUME NEW t \in Thread, \/ Debounce(t) \/ ReadClock(t) \/ Allow(t) \/ Unauthenticated(t)
                                   \/ UnknownKey(t) \/ SampleUnknown(t) \/ Serve(t)
          PROVE  IInv'
      BY <2>4, DebounceStep, PlainSteps, AllowStep, SampleStep
    <2> QED
      BY <2>1, <2>2, <2>3, <2>4 DEF Next
  <1> QED
    BY <1>1, InitHolds, PTL DEF Spec

(***************************************************************************)
(* The state keeps its type; in particular no LRU outgrows its capacity,   *)
(* and none holds a key twice (lru.put).                                   *)
(***************************************************************************)
THEOREM TypeCorrect == Spec => []TypeOK
  <1>1. IInv => TypeOK
    <2> SUFFICES ASSUME IInv PROVE TypeOK
      OBVIOUS
    <2>1. bucket \in [Key -> [tokens : 0..Burst["global"] + Burst["ip"] + Burst["principal"],
                              last : 0..MaxTime, wasLimited : BOOLEAN, lastEmit : Time]]
      <3>1. Burst["global"] \in Nat /\ Burst["ip"] \in Nat /\ Burst["principal"] \in Nat
        BY GateFacts, ConstantsOK
      <3>2. \A k \in Key : /\ bucket[k] \in BucketType /\ bucket[k].tokens \in Nat
                           /\ bucket[k].tokens <= Burst[GateOf(k)]
                           /\ GateOf(k) \in {"global", "ip", "principal"}
        BY KeyFacts, GateFacts DEF IInv, Buckets, BucketType
      <3>3. \A k \in Key : bucket[k].tokens \in 0..Burst["global"] + Burst["ip"] + Burst["principal"]
        BY <3>1, <3>2
      <3> QED
        BY <3>2, <3>3 DEF IInv, Buckets, BucketType
    <2>2. /\ now \in 0..MaxTime /\ rootEmit \in Time /\ unk \in [count : Nat, lastFlush : Time]
          /\ calls \in 0..MaxCalls /\ passed \in Nat /\ back \in Nat /\ owed \in Nat
      BY DEF IInv, Basics
    <2>3. \A g \in Gates : /\ order[g] \in Seq(Key) /\ Len(order[g]) <= MaxKeys
                           /\ IsInjective(order[g])
      BY Zenon DEF IInv, Lists
    <2>4. /\ pc \in [Thread -> {"idle", "root", "clock", "lock", "sample", "serve"}]
          /\ loc \in [Thread -> LocType] /\ emitted \in [Key \cup Debounced -> EventType]
      BY DEF IInv, Threads, Told
    <2> QED
      BY <2>1, <2>2, <2>3, <2>4 DEF TypeOK, LocType, EventType
  <1> QED
    BY <1>1, Inductive, PTL

(***************************************************************************)
(* The global bucket is the backstop for any burst, rate, number of keys   *)
(* and order of calls (MemoryLimiter.Allow on the "global" key).           *)
(***************************************************************************)
THEOREM GlobalBackstopHolds == Spec => []GlobalBackstop
  <1>1. IInv => GlobalBackstop
    <2> SUFFICES ASSUME IInv PROVE GlobalBackstop
      BY Zenon
    <2> DEFINE e == bucket["global"]
               r == Rate["global"]
    <2>1. /\ e.tokens \in Nat /\ e.last \in Nat /\ e.last <= now /\ now \in Nat /\ back \in Nat
          /\ passed \in Nat /\ r \in Nat /\ Burst["global"] \in Nat
      BY KeyFacts, GateFacts, ConstantsOK DEF IInv, Basics, Buckets, BucketType
    <2>2. CASE "global" \in Range(order["global"])
      <3>1. e.tokens + passed <= Burst["global"] + r * (e.last + back)
        BY <2>2 DEF IInv, Backstop
      <3> HIDE DEF e, r
      <3>2. now - e.last \in Nat /\ (e.last + back) + (now - e.last) = now + back /\ e.last + back \in Nat
        BY <2>1
      <3>3. /\ r * (now + back) = r * (e.last + back) + r * (now - e.last)
            /\ r * (e.last + back) \in Nat /\ r * (now - e.last) \in Nat
        BY <2>1, <3>2, Times
      <3>4. passed <= Burst["global"] + r * (now + back)
        BY <2>1, <3>1, <3>3
      <3> QED
        BY Zenon, <3>4 DEF r, GlobalBackstop
    <2>3. CASE "global" \notin Range(order["global"])
      <3>1. passed = 0
        BY <2>3 DEF IInv, Backstop
      <3>2. now + back \in Nat
        BY <2>1
      <3> HIDE DEF r
      <3>3. r * (now + back) \in Nat
        BY <2>1, <3>2, Times
      <3>4. passed <= Burst["global"] + r * (now + back)
        BY <2>1, <3>1, <3>3
      <3> QED
        BY <3>4 DEF r, GlobalBackstop
    <2> QED
      BY <2>2, <2>3
  <1> QED
    BY <1>1, Inductive, PTL

(***************************************************************************)
(* No miss of the sampler is lost or told twice, for any number of         *)
(* concurrent requests and any window (sampleUnknown).                     *)
(***************************************************************************)
THEOREM MissesToldHolds == Spec => []MissesTold
  BY Inductive, PTL DEF IInv, Basics

\* An event of a limiter comes more than a cooldown after the one its entry remembers.
LEMMA AllowEmits ==
    ASSUME IInv, NEW t \in Thread, Allow(t)
    PROVE  \E k \in Key : \E ks \in SUBSET {k} : \E gone \in SUBSET Key :
              /\ Emits(ks, loc[t].at, gone)
              /\ ks # {} => loc[t].at - LastEmit(k) > Cooldown
  <1> DEFINE l == loc[t]
             g == Gate[l.gate]
             k == KeyOf(l)
             old == Entry(g, k)
             a == Advance(g, old, l.at)
             d == Decide(a, l.at)
             gone == Range(order[g]) \ Range(Touch(g, k))
             ks == IF d.transitioned THEN {k} ELSE {}
  <1>1. pc[t] = "lock" /\ Emits(ks, l.at, gone)
    BY ZenonT(40) DEF Allow
  <1>2. ks \in SUBSET {k} /\ (ks # {} => d.transitioned)
    OBVIOUS
  <1>3. /\ l \in LocType /\ l.ip \in Ip /\ l.who \in Caller /\ l.at \in 0..MaxTime
        /\ now \in 0..MaxTime
    BY ZenonT(40), <1>1 DEF IInv, Basics, Threads, LocType
  <1> HIDE DEF l, ks
  <1>4. g \in Gates /\ k \in Key /\ GateOf(k) = g
    BY Zenon, <1>3, KeyOfFacts
  <1> HIDE DEF g, k
  <1>5. gone \in SUBSET Key
    BY <1>4 DEF IInv, Lists, Range
  <1>6. old \in BucketType /\ old.tokens <= Burst[g] /\ old.lastEmit = LastEmit(k)
    BY Zenon, <1>3, <1>4, EntryFacts DEF IInv
  <1> HIDE DEF old, gone
  <1>7. a \in BucketType /\ a.lastEmit = old.lastEmit
    BY ZenonT(40), <1>3, <1>4, <1>6, AdvanceFacts
  <1> HIDE DEF a
  <1>8. d.transitioned => l.at - a.lastEmit > Cooldown
    BY <1>3, <1>7, DecideFacts
  <1> HIDE DEF d
  <1>9. ks # {} => l.at - LastEmit(k) > Cooldown
    BY <1>2, <1>6, <1>7, <1>8
  <1> QED
    BY <1>1, <1>2, <1>4, <1>5, <1>9 DEF l

(***************************************************************************)
(* Events of one key are more than a cooldown apart while its bucket is    *)
(* kept, and those of the sampler more than a window, for any number of    *)
(* concurrent calls in any order (transitioned; rootAuthDebounce.allow;    *)
(* sampleUnknown).                                                         *)
(***************************************************************************)
THEOREM EventsSpacedHolds == Spec => EventsSpaced
  <1> DEFINE A == \A k \in DOMAIN emitted :
                     emitted[k].kept /\ emitted'[k].n # emitted[k].n =>
                        emitted'[k].at - emitted[k].at > IF k = "unknown" THEN FlushWindow ELSE Cooldown
  <1>1. IInv /\ [Next]_vars => [A]_vars
    <2> SUFFICES ASSUME IInv, Next PROVE A
      BY Zenon
    <2>1. /\ emitted \in [Key \cup Debounced -> EventType]
          /\ emitted["root.auth"].at = rootEmit /\ emitted["unknown"].at = unk.lastFlush
          /\ \A k \in Key : emitted[k].kept => emitted[k].at = LastEmit(k)
          /\ \A t \in Thread : loc[t].at \in 0..MaxTime
      BY DEF IInv, Told, Threads, LocType
    <2>2. CASE UNCHANGED emitted
      BY Zenon, <2>2
    <2>3. ASSUME NEW ks, NEW at \in 0..MaxTime, NEW gone, Emits(ks, at, gone),
                 \A x \in ks : x \in Key \cup Debounced /\ emitted[x].kept =>
                    at - emitted[x].at > IF x = "unknown" THEN FlushWindow ELSE Cooldown
          PROVE  A
      BY <2>1, <2>3, EmitsFacts
    <2>4. ASSUME NEW t \in Thread, Debounce(t) PROVE A
      <3>1. CASE Emits({"root.auth"}, loc[t].at, {}) /\ ~(loc[t].at - rootEmit <= Cooldown)
        <4>1. loc[t].at \in Int /\ rootEmit \in Int /\ Cooldown \in Int
          BY <2>1, TimeFacts, ConstantsOK DEF IInv, Basics
        <4>2. loc[t].at - rootEmit > Cooldown
          BY <3>1, <4>1
        <4> QED
          BY <2>1, <2>3, <3>1, <4>2 DEF Debounced
      <3> QED
        BY Zenon, <2>2, <2>4, <3>1 DEF Debounce
    <2>5. ASSUME NEW t \in Thread, SampleUnknown(t) PROVE A
      <3>1. CASE Emits({"unknown"}, loc[t].at, {}) /\ loc[t].at - unk.lastFlush > FlushWindow
        BY <2>1, <2>3, <3>1 DEF Debounced
      <3> QED
        BY Zenon, <2>2, <2>5, <3>1 DEF SampleUnknown
    <2>6. ASSUME NEW t \in Thread, Allow(t) PROVE A
      <3>1. PICK k \in Key : \E ks \in SUBSET {k} : \E gone \in SUBSET Key :
                    /\ Emits(ks, loc[t].at, gone)
                    /\ ks # {} => loc[t].at - LastEmit(k) > Cooldown
        BY Zenon, <2>6, AllowEmits
      <3>2. PICK ks \in SUBSET {k}, gone \in SUBSET Key :
                    /\ Emits(ks, loc[t].at, gone)
                    /\ ks # {} => loc[t].at - LastEmit(k) > Cooldown
        BY <3>1
      <3>3. k # "unknown"
        BY KeyFacts
      <3> QED
        BY ZenonT(40), <2>1, <2>3, <3>2, <3>3
    <2>7. \/ UNCHANGED emitted
          \/ \E t \in Thread : Debounce(t) \/ SampleUnknown(t) \/ Allow(t)
      BY Zenon DEF Next, Tick, Arrive, ReadClock, Unauthenticated, UnknownKey, Serve
    <2> QED
      BY <2>2, <2>4, <2>5, <2>6, <2>7
  <1> QED
    BY <1>1, Inductive, PTL DEF Spec, EventsSpaced
============================================================================
