----------------------------- MODULE RateLimit -----------------------------
(***************************************************************************)
(* The two gates of rate limiting on one replica. Gate A takes a token     *)
(* from the global bucket, then one from the bucket of the client's IP     *)
(* prefix; Gate B, after authentication, one from the principal's. Each    *)
(* gate has its own limiter: buckets in an LRU of fixed capacity, here the *)
(* one shard that the keys share. Every call reads its clock first and     *)
(* takes the lock later, so that calls arrive at a bucket out of order. So *)
(* does the sampler that counts the requests with an unknown API key.      *)
(* (internal/ratelimit, internal/server/ratelimit_mw.go, WrapUnary,        *)
(* sampleUnknown of internal/apikey/verifier.go.)                          *)
(***************************************************************************)
EXTENDS Integers, Sequences, Functions

CONSTANTS
    Thread,             \* requests served at the same time
    Ip, Caller,         \* IP prefixes and principals
    Burst, Rate,        \* of each gate: bucket size, tokens per tick
    MaxKeys,            \* maxKeysPerShard
    Cooldown,           \* of the limiters' events, and of root.auth's
    FlushWindow,        \* unknownFlushWindow
    MaxTime, MaxCalls,  \* bounds on now and on the number of requests, for TLC
    None

Gate == <<"global", "ip", "principal">>
Gates == {Gate[i] : i \in DOMAIN Gate}
Key == {"global"} \cup Ip \cup Caller

ASSUME ConstantsOK ==
    /\ Burst \in [Gates -> Nat \ {0}] /\ Rate \in [Gates -> Nat]
    /\ MaxKeys \in Nat \ {0} /\ Cooldown \in Nat /\ FlushWindow \in 0..Cooldown
    /\ MaxTime \in Nat /\ MaxCalls \in Nat
    /\ Ip \cap Caller = {} /\ None \notin Key
    /\ {"global", "root.auth", "unknown"} \cap (Ip \cup Caller) = {}

VARIABLES
    now,
    order,      \* the keys in each limiter's LRU, most recently used first
    bucket,     \* the entry of each key that is in one
    rootEmit,   \* rootAuthDebounce.lastEmit
    unk,        \* unkCount and unkLastFlush of the verifier
    pc, loc,
    calls,      \* number of requests so far
    passed,     \* ghost: requests that took a token of the global bucket
    emitted,    \* ghost: how many events each key has had, when the last, and
                \* whether its bucket has been kept since
    owed,       \* ghost: unknown keys seen that no event has told of
    back        \* ghost: ticks by which the global bucket's clock went back

vars == <<now, order, bucket, rootEmit, unk, pc, loc, calls, passed, emitted, owed, back>>
sampler == <<unk, owed>>

LongAgo == -Cooldown - 1    \* the zero time.Time
Time == LongAgo..MaxTime
Debounced == {"root.auth", "unknown"}

NoBucket == [tokens |-> 0, last |-> 0, wasLimited |-> FALSE, lastEmit |-> LongAgo]
NoLoc == [root |-> "none", ip |-> None, who |-> None, gate |-> 1, at |-> 0]

TypeOK ==
    /\ now \in 0..MaxTime
    /\ \A g \in Gates : /\ order[g] \in Seq(Key) /\ Len(order[g]) <= MaxKeys
                        /\ IsInjective(order[g])
    /\ bucket \in [Key -> [tokens : 0..Burst["global"] + Burst["ip"] + Burst["principal"],
                           last : 0..MaxTime, wasLimited : BOOLEAN, lastEmit : Time]]
    /\ rootEmit \in Time
    /\ unk \in [count : Nat, lastFlush : Time]
    /\ pc \in [Thread -> {"idle", "root", "clock", "lock", "sample", "serve"}]
    /\ loc \in [Thread -> [root : {"none", "valid", "invalid"}, ip : Ip \cup {None},
                           who : Caller \cup {None}, gate : DOMAIN Gate, at : 0..MaxTime]]
    /\ calls \in 0..MaxCalls /\ passed \in Nat /\ back \in Nat /\ owed \in Nat
    /\ emitted \in [Key \cup Debounced -> [n : Nat, at : Time, kept : BOOLEAN]]

Init ==
    /\ now = 0
    /\ order = [g \in Gates |-> <<>>] /\ bucket = [k \in Key |-> NoBucket]
    /\ rootEmit = LongAgo /\ unk = [count |-> 0, lastFlush |-> LongAgo] /\ owed = 0
    /\ pc = [t \in Thread |-> "idle"] /\ loc = [t \in Thread |-> NoLoc]
    /\ calls = 0 /\ passed = 0 /\ back = 0
    /\ emitted = [k \in Key \cup Debounced |-> [n |-> 0, at |-> LongAgo, kept |-> TRUE]]

\* Events for ks, and the keys whose buckets are gone. An event counts from the
\* decision, under the lock, to send it; Record follows after the unlock.
Emits(ks, at, gone) ==
    emitted' = [x \in DOMAIN emitted |->
                   IF x \in ks THEN [n |-> emitted[x].n + 1, at |-> at, kept |-> TRUE]
                   ELSE [emitted[x] EXCEPT !.kept = @ /\ x \notin gone]]

Goto(t, label) == pc' = [pc EXCEPT ![t] = label]

Done(t) ==
    /\ Goto(t, "idle")
    /\ loc' = [loc EXCEPT ![t] = NoLoc]
----------------------------------------------------------------------------
(* RateLimitMiddleware. A valid root token passes every gate; an invalid   *)
(* one is reported, at most once a cooldown, and then counts for nothing.  *)

Arrive(t, root, ip, who) ==
    /\ pc[t] = "idle" /\ calls < MaxCalls
    /\ calls' = calls + 1
    /\ loc' = [loc EXCEPT ![t] = [NoLoc EXCEPT !.root = root, !.ip = ip, !.who = who,
                                               !.at = now]]
    /\ Goto(t, CASE root = "valid" -> "serve" [] root = "invalid" -> "root"
                 [] OTHER -> "clock")
    /\ UNCHANGED <<now, order, bucket, rootEmit, sampler, passed, emitted, back>>

Debounce(t) ==
    /\ pc[t] = "root"
    /\ IF loc[t].at - rootEmit <= Cooldown
       THEN UNCHANGED <<rootEmit, emitted>>
       ELSE rootEmit' = loc[t].at /\ Emits({"root.auth"}, loc[t].at, {})
    /\ Goto(t, "clock")
    /\ UNCHANGED <<now, order, bucket, sampler, loc, calls, passed, back>>
----------------------------------------------------------------------------
(* MemoryLimiter.Allow. *)

ReadClock(t) ==
    /\ pc[t] = "clock"
    /\ loc' = [loc EXCEPT ![t].at = now]
    /\ Goto(t, "lock")
    /\ UNCHANGED <<now, order, bucket, rootEmit, sampler, calls, passed, emitted, back>>

KeyOf(l) == CASE Gate[l.gate] = "global" -> "global"
              [] Gate[l.gate] = "ip" -> l.ip
              [] OTHER -> l.who

\* list.MoveToFront of the element at i.
MoveToFront(q, i) ==
    [j \in DOMAIN q |-> IF j = 1 THEN q[i] ELSE IF j <= i THEN q[j - 1] ELSE q[j]]

\* Mutant: nothing is evicted.
TouchGrows(g, k) ==
    LET q == order[g] IN
    IF k \in Range(q) THEN MoveToFront(q, CHOOSE i \in DOMAIN q : q[i] = k)
    ELSE <<k>> \o q

\* lru.get, and lru.put if there is no k: it comes first, and Back goes if there
\* are now too many.
Touch(g, k) ==
    LET q == order[g] IN
    IF k \in Range(q) THEN MoveToFront(q, CHOOSE i \in DOMAIN q : q[i] = k)
    ELSE <<k>> \o IF Len(q) < MaxKeys THEN q ELSE SubSeq(q, 1, Len(q) - 1)

\* Mutant: a key that was throttled gets a new bucket.
EntryForgiving(g, k) ==
    IF k \in Range(order[g]) /\ ~bucket[k].wasLimited THEN bucket[k]
    ELSE [NoBucket EXCEPT !.tokens = Burst[g], !.lastEmit = bucket[k].lastEmit]

\* A new entry has a full bucket and no memory of an evicted one.
Entry(g, k) ==
    IF k \in Range(order[g]) THEN bucket[k]
    ELSE [NoBucket EXCEPT !.tokens = Burst[g]]

\* rate.Limiter: refill for the time since last. A clock behind last refills
\* nothing, and last follows it back.
Advance(g, e, at) ==
    LET full == IF at > e.last THEN e.tokens + Rate[g] * (at - e.last) ELSE e.tokens IN
    [e EXCEPT !.tokens = IF full > Burst[g] THEN Burst[g] ELSE full, !.last = at]

\* Mutant: no cooldown, only the edge counts.
DecideEdgeOnly(e, at) ==
    LET ok == e.tokens >= 1
        transitioned == ~ok /\ ~e.wasLimited IN
    [ok |-> ok, transitioned |-> transitioned,
     entry |-> [e EXCEPT !.tokens = IF ok THEN @ - 1 ELSE @, !.wasLimited = ~ok,
                         !.lastEmit = IF transitioned THEN at ELSE @]]

\* Denied: Reserve and Cancel leave the bucket as Advance found it.
Decide(e, at) ==
    LET ok == e.tokens >= 1
        transitioned == ~ok /\ ~e.wasLimited /\ at - e.lastEmit > Cooldown IN
    [ok |-> ok, transitioned |-> transitioned,
     entry |-> [e EXCEPT !.tokens = IF ok THEN @ - 1 ELSE @, !.wasLimited = ~ok,
                         !.lastEmit = IF transitioned THEN at ELSE @]]

Allow(t) ==
    LET l == loc[t]
        g == Gate[l.gate]
        k == KeyOf(l)
        old == Entry(g, k)
        d == Decide(Advance(g, old, l.at), l.at)
        gone == Range(order[g]) \ Range(Touch(g, k)) IN
    /\ pc[t] = "lock"
    /\ order' = [order EXCEPT ![g] = Touch(g, k)]
    /\ bucket' = [x \in Key |-> IF x = k THEN d.entry
                                ELSE IF x \in gone THEN NoBucket ELSE bucket[x]]
    /\ Emits(IF d.transitioned THEN {k} ELSE {}, l.at, gone)
    /\ IF ~d.ok THEN Done(t)
       ELSE IF l.gate < Len(Gate)
            THEN Goto(t, "clock") /\ loc' = [loc EXCEPT ![t].gate = @ + 1]
            ELSE Goto(t, "serve") /\ UNCHANGED loc
    /\ passed' = IF d.ok /\ g = "global" THEN passed + 1 ELSE passed
    /\ back' = IF g = "global" /\ l.at < old.last THEN back + old.last - l.at ELSE back
    /\ UNCHANGED <<now, rootEmit, sampler, calls>>

\* Between the gates the request is authenticated, and may be refused.
Unauthenticated(t) ==
    /\ pc[t] = "clock" /\ Gate[loc[t].gate] = "principal"
    /\ Done(t)
    /\ UNCHANGED <<now, order, bucket, rootEmit, sampler, calls, passed, emitted, back>>

\* It carries an API key that is malformed or not in the table.
UnknownKey(t) ==
    /\ pc[t] = "clock" /\ Gate[loc[t].gate] = "principal"
    /\ loc' = [loc EXCEPT ![t].at = now]
    /\ Goto(t, "sample")
    /\ UNCHANGED <<now, order, bucket, rootEmit, sampler, calls, passed, emitted, back>>

\* Mutant: only the misses that come within a window are counted.
SampleUnknownSkips(t) ==
    LET at == loc[t].at IN
    /\ pc[t] = "sample"
    /\ IF at - unk.lastFlush > FlushWindow
       THEN /\ Emits({"unknown"}, at, {})
            /\ unk' = [count |-> 0, lastFlush |-> at]
            /\ owed' = owed + 1 - unk.count
       ELSE /\ unk' = [unk EXCEPT !.count = @ + 1]
            /\ owed' = owed + 1
            /\ UNCHANGED emitted
    /\ Done(t)
    /\ UNCHANGED <<now, order, bucket, rootEmit, calls, passed, back>>

\* sampleUnknown, from the lock on: one event for all the misses so far, at most
\* once a window.
SampleUnknown(t) ==
    LET at == loc[t].at  flush == unk.count + 1 IN
    /\ pc[t] = "sample"
    /\ IF at - unk.lastFlush > FlushWindow
       THEN /\ Emits({"unknown"}, at, {})
            /\ unk' = [count |-> 0, lastFlush |-> at]
            /\ owed' = owed + 1 - flush
       ELSE /\ unk' = [unk EXCEPT !.count = flush]
            /\ owed' = owed + 1
            /\ UNCHANGED emitted
    /\ Done(t)
    /\ UNCHANGED <<now, order, bucket, rootEmit, calls, passed, back>>

Serve(t) ==
    /\ pc[t] = "serve"
    /\ Done(t)
    /\ UNCHANGED <<now, order, bucket, rootEmit, sampler, calls, passed, emitted, back>>

Tick ==
    /\ now < MaxTime
    /\ now' = now + 1
    /\ UNCHANGED <<order, bucket, rootEmit, sampler, pc, loc, calls, passed, emitted, back>>

Next ==
    \/ Tick
    \/ \E t \in Thread :
        \/ \E root \in {"none", "valid", "invalid"}, ip \in Ip, who \in Caller :
              Arrive(t, root, ip, who)
        \/ Debounce(t) \/ ReadClock(t) \/ Allow(t) \/ Unauthenticated(t)
        \/ UnknownKey(t) \/ SampleUnknown(t) \/ Serve(t)

Spec == Init /\ [][Next]_vars
----------------------------------------------------------------------------
(***************************************************************************)
(* The global bucket is the backstop however many keys there are and       *)
(* whatever the LRUs evict: no more requests get past it than its burst    *)
(* and its rate allow, but for the refills that calls arriving with an     *)
(* older clock reading make it count twice.                                *)
(***************************************************************************)
GlobalBackstop ==
    passed <= Burst["global"] + Rate["global"] * (now + back)

(***************************************************************************)
(* "At most one audit event per cooldown window": two events of one key,   *)
(* or two of root.auth, have clock readings more than a cooldown apart,    *)
(* and two of unknown keys more than a flush window, in whatever order the *)
(* calls get the lock (transitioned; allow of rootAuthDebounce;            *)
(* sampleUnknown). The one exception is a key whose bucket, and the        *)
(* lastEmit in it, was evicted between the two.                            *)
(***************************************************************************)
EventsSpaced ==
    [][\A k \in DOMAIN emitted :
          emitted[k].kept /\ emitted'[k].n # emitted[k].n =>
             emitted'[k].at - emitted[k].at > IF k = "unknown" THEN FlushWindow ELSE Cooldown]_vars

(***************************************************************************)
(* No miss is lost and none is told twice, however requests interleave:    *)
(* the sampler's counter is what no event has told of yet, and events come *)
(* up to date with every call that finds the window over (sampleUnknown).  *)
(* This is as far as the hand-over of the count; that the recorder may     *)
(* drop an event when its channel is full is part of AuditLog.             *)
(***************************************************************************)
MissesTold == unk.count = owed
============================================================================
