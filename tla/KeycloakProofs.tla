--------------------------- MODULE KeycloakProofs ---------------------------
(***************************************************************************)
(* What is proved of the two clients that the service has for Keycloak:    *)
(* the cache of its public keys in the token verifier (JwksCache) and the  *)
(* creation of principals (Principals). They share no state, and each is   *)
(* proved for any number of requests, threads and processes.               *)
(***************************************************************************)
EXTENDS JwksCache, Principals, TLAPS

(***************************************************************************)
(* JwksCache. The argument: a fetch is over before the throttle lets the   *)
(* next one start (Spaced), so that what is fetched is not older than what *)
(* is cached (Growing), and a key that was cached is no newer than the     *)
(* newest set (Known).                                                     *)
(***************************************************************************)
Fetching == {"fetch", "install"}

\* Every start is noted. One fetch at a time, and it began no later than the last
\* attempt noted.
Spaced ==
    /\ lastStart = lastAttempt
    /\ \A t \in Request : stage[t] \in Fetching =>
          /\ loc[t].sent <= lastAttempt /\ now - loc[t].sent <= Latency
          /\ \A u \in Request : stage[u] \in Fetching => u = t

\* Sets are cached in the order in which Keycloak published them.
Growing ==
    /\ newest <= idp /\ lastAttempt <= now
    /\ cache.set \in {newest, NoSet}
    /\ \A t \in Request : stage[t] = "install" /\ loc[t].got # NoSet =>
           newest <= loc[t].got /\ loc[t].got <= idp

\* A key found in the cache belongs to a set that has been cached; a request has
\* no answer before it is answered.
Known ==
    \A t \in Request :
        /\ loc[t].warm => loc[t].had /\ loc[t].kid <= newest
        /\ stage[t] # "answered" => loc[t].result # "unknown"

VerifierInv == VerifierTypeOK /\ Spaced /\ Growing /\ Known /\ WarmAccepted

Loc == [kid : Kid, had : BOOLEAN, sent : 0..MaxTime, got : {NoSet} \cup 1..MaxSet, warm : BOOLEAN,
        result : {"none", "key", "unknown", "error"}, blank : BOOLEAN]
----------------------------------------------------------------------------
LEMMA VerifierInitHolds == VerifierInit => VerifierInv
  <1> SUFFICES ASSUME VerifierInit PROVE VerifierInv
    OBVIOUS
  <1>1. /\ CacheTTL \in Nat /\ MinRefresh \in Nat /\ MaxTime \in Nat /\ MaxSet \in Nat \ {0}
        /\ NoSet = -1 /\ NoSet \in Int /\ 0 \in Kid /\ LongAgo \in Int /\ LongAgo < 0
    BY VerifierConstants DEF NoSet, Kid, LongAgo
  <1>2. NoLoc \in Loc
    BY <1>1 DEF NoLoc, Loc
  <1>3. VerifierTypeOK
    BY <1>1, <1>2 DEF VerifierInit, VerifierTypeOK, Loc
  <1>4. Spaced /\ Known /\ WarmAccepted
    BY DEF VerifierInit, Spaced, Known, WarmAccepted, Fetching, NoLoc
  <1>5. Growing
    BY <1>1 DEF VerifierInit, Growing
  <1> QED
    BY <1>3, <1>4, <1>5 DEF VerifierInv

\* What the invariant says of numbers, with the constants' types.
LEMMA Numbers ==
    ASSUME VerifierInv
    PROVE  /\ CacheTTL \in Nat /\ MinRefresh \in Nat /\ Latency \in Nat
           /\ MaxTime \in Nat /\ MaxSet \in Nat /\ Latency < MinRefresh
           /\ NoSet = -1 /\ LongAgo \in Int /\ LongAgo < 0
           /\ now \in Nat /\ idp \in Nat /\ idp > 0 /\ lastAttempt \in Int
           /\ newest \in Int /\ newest >= -1 /\ cache.set \in Int /\ cache.at \in Int
           /\ loc \in [Request -> Loc]
           /\ \A t \in Request : /\ loc[t].kid \in Nat /\ loc[t].sent \in Nat /\ loc[t].got \in Int
                                /\ loc[t].warm \in BOOLEAN /\ loc[t].had \in BOOLEAN
  BY VerifierConstants DEF VerifierInv, VerifierTypeOK, NoSet, LongAgo, Kid, Loc

LEMMA KeyForStep ==
    ASSUME VerifierInv, NEW t \in Request, NEW kid \in Kid, KeyFor(t, kid)
    PROVE  VerifierInv'
  <1> DEFINE had == kid \in Keys(cache.set)
             new == [NoLoc EXCEPT !.kid = kid, !.had = had, !.warm = had,
                                  !.result = IF Fresh(kid) THEN "key" ELSE "none"]
  <1>1. /\ stage[t] = "idle" /\ loc' = [loc EXCEPT ![t] = new]
        /\ stage' = [stage EXCEPT ![t] = IF Fresh(kid) THEN "answered" ELSE "throttle"]
        /\ UNCHANGED <<now, idp, cache, lastAttempt, newest, lastStart>>
    BY DEF KeyFor, Moves
  <1>2. had \in BOOLEAN
    OBVIOUS
  <1>3. new \in Loc /\ new.kid = kid /\ new.had = had /\ new.warm = had /\ new.result # "unknown"
    <2> HIDE DEF had
    <2>1. NoLoc \in Loc
      BY VerifierConstants DEF NoLoc, Loc, Kid, NoSet
    <2> QED
      BY Zenon, <1>2, <2>1 DEF NoLoc, Loc
  <1>4. had => kid <= newest
    BY Numbers DEF VerifierInv, Growing, Keys, NoSet, Kid
  <1> HIDE DEF new, had
  <1>5. /\ loc' \in [Request -> Loc] /\ loc'[t] = new
        /\ \A u \in Request : u # t => loc'[u] = loc[u] /\ stage'[u] = stage[u]
        /\ stage'[t] \in {"answered", "throttle"}
        /\ stage' \in [Request -> {"idle", "throttle", "fetch", "install", "lookup", "answered"}]
    BY <1>1, <1>3, Numbers DEF VerifierInv, VerifierTypeOK
  <1>6. VerifierTypeOK'
    BY <1>1, <1>5 DEF VerifierInv, VerifierTypeOK, Loc
  <1>7. Spaced' /\ Growing'
    BY <1>1, <1>5 DEF VerifierInv, Spaced, Growing, Fetching
  <1>8. Known' /\ WarmAccepted'
    BY <1>1, <1>3, <1>4, <1>5 DEF VerifierInv, Known, WarmAccepted
  <1> QED
    BY <1>6, <1>7, <1>8 DEF VerifierInv

\* A request that answers, in a step that leaves the cache alone.
LEMMA ResultFacts ==
    ASSUME VerifierInv, NEW t \in Request, NEW result \in {"key", "unknown", "error"}, Result(t, result),
           UNCHANGED <<now, idp, cache, lastAttempt, newest, lastStart>>,
           stage[t] # "answered", result = "unknown" => ~loc[t].warm
    PROVE  VerifierInv'
  <1>1. /\ loc' \in [Request -> Loc] /\ stage'[t] = "answered"
        /\ loc'[t].result = result /\ loc'[t].kid = loc[t].kid /\ loc'[t].warm = loc[t].warm
        /\ loc'[t].had = loc[t].had
        /\ \A u \in Request : u # t => loc'[u] = loc[u] /\ stage'[u] = stage[u]
        /\ stage' \in [Request -> {"idle", "throttle", "fetch", "install", "lookup", "answered"}]
    BY Numbers DEF VerifierInv, VerifierTypeOK, Result, Moves, Loc
  <1>2. VerifierTypeOK'
    BY <1>1 DEF VerifierInv, VerifierTypeOK, Loc
  <1>3. Spaced' /\ Growing'
    BY <1>1 DEF VerifierInv, Spaced, Growing, Fetching
  <1>4. Known' /\ WarmAccepted'
    BY <1>1 DEF VerifierInv, Known, WarmAccepted
  <1> QED
    BY <1>2, <1>3, <1>4 DEF VerifierInv

\* A fetch that may start finds no other under way: those of the last attempt are over.
LEMMA ThrottleStep ==
    ASSUME VerifierInv, NEW t \in Request, Throttle(t)
    PROVE  VerifierInv'
  <1>1. CASE Throttled
    <2>1. UNCHANGED <<now, idp, cache, lastAttempt, newest, lastStart>> /\ stage[t] # "answered"
      BY <1>1 DEF Throttle
    <2>2. CASE loc[t].had
      BY <1>1, <2>1, <2>2, ResultFacts DEF Throttle
    <2>3. CASE ~loc[t].had
      BY <1>1, <2>1, <2>3, ResultFacts DEF Throttle, VerifierInv, Known
    <2> QED
      BY <2>2, <2>3
  <1>2. CASE ~Throttled
    <2>1. /\ stage[t] = "throttle" /\ stage' = [stage EXCEPT ![t] = "fetch"]
          /\ loc' = [loc EXCEPT ![t].sent = now] /\ lastAttempt' = now /\ lastStart' = now
          /\ UNCHANGED <<now, idp, cache, newest>>
      BY <1>2 DEF Throttle, StartFetch, Moves
    <2>2. now - lastAttempt >= MinRefresh
      BY <1>2, Numbers DEF Throttled
    <2>3. \A u \in Request : stage[u] \notin Fetching
      BY <2>2, Numbers DEF VerifierInv, Spaced
    <2>4. now \in 0..MaxTime
      BY DEF VerifierInv, VerifierTypeOK
    <2>5. /\ loc' \in [Request -> Loc] /\ stage'[t] = "fetch" /\ loc'[t].sent = now
          /\ loc'[t] = [loc[t] EXCEPT !.sent = now]
          /\ loc'[t].result = loc[t].result /\ loc'[t].kid = loc[t].kid
          /\ loc'[t].warm = loc[t].warm /\ loc'[t].had = loc[t].had /\ loc'[t].blank = loc[t].blank
          /\ \A u \in Request : u # t => loc'[u] = loc[u] /\ stage'[u] = stage[u]
          /\ stage' \in [Request -> {"idle", "throttle", "fetch", "install", "lookup", "answered"}]
      BY ZenonT(40), <2>1, <2>4, Numbers DEF VerifierInv, VerifierTypeOK, Loc
    <2>6. VerifierTypeOK'
      BY <2>1, <2>4, <2>5, Numbers DEF VerifierInv, VerifierTypeOK, Loc
    <2>7. Spaced' /\ Growing'
      BY <2>1, <2>3, <2>5, Numbers DEF VerifierInv, Spaced, Growing, Fetching
    <2>8. Known' /\ WarmAccepted'
      BY <2>1, <2>5 DEF VerifierInv, Known, WarmAccepted
    <2> QED
      BY <2>6, <2>7, <2>8 DEF VerifierInv
  <1> QED
    BY <1>1, <1>2

LEMMA FetchStep ==
    ASSUME VerifierInv, NEW t \in Request, Fetch(t)
    PROVE  VerifierInv'
  <1>1. PICK set \in {idp, NoSet} : loc' = [loc EXCEPT ![t].got = set]
    BY Zenon DEF Fetch
  <1>2. /\ stage[t] = "fetch" /\ stage' = [stage EXCEPT ![t] = "install"]
        /\ UNCHANGED <<now, idp, cache, lastAttempt, newest, lastStart>>
    BY DEF Fetch, Moves
  <1>3. set \in {NoSet} \cup 1..MaxSet
    BY DEF VerifierInv, VerifierTypeOK
  <1>4. /\ loc' \in [Request -> Loc] /\ stage'[t] = "install" /\ loc'[t].got = set
        /\ loc'[t].result = loc[t].result /\ loc'[t].kid = loc[t].kid /\ loc'[t].sent = loc[t].sent
        /\ loc'[t].warm = loc[t].warm /\ loc'[t].had = loc[t].had /\ loc'[t].blank = loc[t].blank
        /\ \A u \in Request : u # t => loc'[u] = loc[u] /\ stage'[u] = stage[u]
        /\ stage' \in [Request -> {"idle", "throttle", "fetch", "install", "lookup", "answered"}]
    BY ZenonT(40), <1>1, <1>2, <1>3, Numbers DEF VerifierInv, VerifierTypeOK, Loc
  <1>5. VerifierTypeOK'
    BY <1>2, <1>4 DEF VerifierInv, VerifierTypeOK, Loc
  <1>6. Spaced'
    BY <1>2, <1>4 DEF VerifierInv, Spaced, Fetching
  <1>7. Growing'
    BY <1>2, <1>4, Numbers DEF VerifierInv, Growing
  <1>8. Known' /\ WarmAccepted'
    BY <1>2, <1>4 DEF VerifierInv, Known, WarmAccepted
  <1> QED
    BY <1>5, <1>6, <1>7, <1>8 DEF VerifierInv

LEMMA InstallStep ==
    ASSUME VerifierInv, NEW t \in Request, Install(t)
    PROVE  VerifierInv'
  <1>1. /\ stage[t] = "install" /\ stage' = [stage EXCEPT ![t] = "lookup"]
        /\ cache' = [set |-> loc[t].got, at |-> now]
        /\ newest' = IF loc[t].got > newest THEN loc[t].got ELSE newest
        /\ UNCHANGED <<now, idp, lastAttempt, lastStart, loc>>
    BY DEF Install, Moves
  <1>2. /\ stage'[t] = "lookup" /\ cache'.set = loc[t].got
        /\ \A u \in Request : u # t => stage'[u] = stage[u]
        /\ stage' \in [Request -> {"idle", "throttle", "fetch", "install", "lookup", "answered"}]
    BY <1>1 DEF VerifierInv, VerifierTypeOK
  <1>3. newest <= newest' /\ newest' <= idp /\ newest' \in {newest, loc[t].got}
    BY <1>1, Numbers DEF VerifierInv, Growing, NoSet
  <1>4. VerifierTypeOK'
    <2>1. now \in LongAgo..MaxTime
      BY Numbers DEF VerifierInv, VerifierTypeOK
    <2>2. loc[t].got \in {NoSet} \cup 1..MaxSet
      BY Numbers DEF Loc
    <2> QED
      BY <1>1, <1>2, <1>3, <2>1, <2>2 DEF VerifierInv, VerifierTypeOK
  <1>5. \A u \in Request : stage'[u] \notin Fetching
    BY <1>1, <1>2 DEF VerifierInv, Spaced, Fetching
  <1>6. Spaced'
    BY <1>1, <1>5 DEF VerifierInv, Spaced
  <1>7. Growing'
    <2>1. cache'.set \in {newest', NoSet}
      BY <1>1, <1>2, Numbers DEF VerifierInv, Growing
    <2> QED
      BY <1>1, <1>3, <1>5, <2>1 DEF VerifierInv, Growing, Fetching
  <1>8. Known' /\ WarmAccepted'
    BY <1>1, <1>2, <1>3, Numbers DEF VerifierInv, Known, WarmAccepted
  <1> QED
    BY <1>4, <1>6, <1>7, <1>8 DEF VerifierInv

\* A key that was cached and is still published is in every set cached in between.
LEMMA LookupStep ==
    ASSUME VerifierInv, NEW t \in Request, Lookup(t)
    PROVE  VerifierInv'
  <1> DEFINE result == IF loc[t].kid \in Keys(cache.set) THEN "key" ELSE "unknown"
             blank == cache.set = NoSet
  <1>1. /\ stage[t] = "lookup" /\ stage' = [stage EXCEPT ![t] = "answered"]
        /\ loc' = [loc EXCEPT ![t].result = result, ![t].blank = blank]
        /\ UNCHANGED <<now, idp, cache, lastAttempt, newest, lastStart>>
    BY DEF Lookup, Moves
  <1>2. blank \in BOOLEAN /\ result \in {"key", "unknown"}
    OBVIOUS
  <1>3. loc[t].warm /\ loc[t].kid \in Keys(idp) => result # "unknown" \/ blank
    BY Numbers DEF VerifierInv, Known, Growing, Keys, NoSet
  <1> HIDE DEF result, blank
  <1>4. /\ loc' \in [Request -> Loc] /\ stage'[t] = "answered"
        /\ loc'[t].result = result /\ loc'[t].blank = blank
        /\ loc'[t].kid = loc[t].kid /\ loc'[t].warm = loc[t].warm /\ loc'[t].had = loc[t].had
        /\ \A u \in Request : u # t => loc'[u] = loc[u] /\ stage'[u] = stage[u]
        /\ stage' \in [Request -> {"idle", "throttle", "fetch", "install", "lookup", "answered"}]
    <2> DEFINE first == [loc EXCEPT ![t].result = result]
    <2>1. /\ first \in [Request -> Loc] /\ first[t].result = result
          /\ first[t].kid = loc[t].kid /\ first[t].warm = loc[t].warm /\ first[t].had = loc[t].had
          /\ \A u \in Request : u # t => first[u] = loc[u]
      BY <1>2, Numbers DEF Loc
    <2>2. loc' = [first EXCEPT ![t].blank = blank]
      BY <1>1
    <2> HIDE DEF first
    <2>3. /\ loc' \in [Request -> Loc] /\ loc'[t].blank = blank /\ loc'[t].result = first[t].result
          /\ loc'[t].kid = first[t].kid /\ loc'[t].warm = first[t].warm /\ loc'[t].had = first[t].had
          /\ \A u \in Request : u # t => loc'[u] = first[u]
      BY <1>2, <2>1, <2>2 DEF Loc
    <2>4. /\ stage'[t] = "answered" /\ \A u \in Request : u # t => stage'[u] = stage[u]
          /\ stage' \in [Request -> {"idle", "throttle", "fetch", "install", "lookup", "answered"}]
      BY <1>1 DEF VerifierInv, VerifierTypeOK
    <2> QED
      BY <2>1, <2>3, <2>4
  <1>5. VerifierTypeOK'
    BY <1>1, <1>4 DEF VerifierInv, VerifierTypeOK, Loc
  <1>6. Spaced' /\ Growing'
    BY <1>1, <1>4 DEF VerifierInv, Spaced, Growing, Fetching
  <1>7. Known'
    BY <1>1, <1>4 DEF VerifierInv, Known
  <1>8. WarmAccepted'
    BY <1>1, <1>3, <1>4 DEF VerifierInv, WarmAccepted
  <1> QED
    BY <1>5, <1>6, <1>7, <1>8 DEF VerifierInv

LEMMA ReturnStep ==
    ASSUME VerifierInv, NEW t \in Request, Return(t)
    PROVE  VerifierInv'
  <1>1. NoLoc \in Loc /\ ~NoLoc.warm /\ NoLoc.result # "unknown"
    BY VerifierConstants DEF NoLoc, Loc, Kid, NoSet
  <1>2. /\ UNCHANGED <<now, idp, cache, lastAttempt, newest, lastStart>>
        /\ loc' \in [Request -> Loc] /\ loc'[t] = NoLoc /\ stage'[t] = "idle"
        /\ \A u \in Request : u # t => loc'[u] = loc[u] /\ stage'[u] = stage[u]
        /\ stage' \in [Request -> {"idle", "throttle", "fetch", "install", "lookup", "answered"}]
    BY <1>1, Numbers DEF VerifierInv, VerifierTypeOK, Return, Moves
  <1>3. VerifierTypeOK'
    BY <1>2 DEF VerifierInv, VerifierTypeOK, Loc
  <1>4. Spaced' /\ Growing'
    BY <1>2 DEF VerifierInv, Spaced, Growing, Fetching
  <1>5. Known' /\ WarmAccepted'
    BY <1>1, <1>2 DEF VerifierInv, Known, WarmAccepted
  <1> QED
    BY <1>3, <1>4, <1>5 DEF VerifierInv

\* A rotation, and the passing of time within the client's timeout.
LEMMA OutsideSteps ==
    ASSUME VerifierInv, Rotate \/ Tick
    PROVE  VerifierInv'
  <1>1. UNCHANGED <<cache, lastAttempt, newest, lastStart, stage, loc>>
    BY DEF Rotate, Tick
  <1>2. /\ now' \in 0..MaxTime /\ idp' \in 1..MaxSet /\ now <= now' /\ idp <= idp'
        /\ now' # now => Tick /\ now' = now + 1
    BY Numbers DEF VerifierInv, VerifierTypeOK, Rotate, Tick
  <1>3. VerifierTypeOK'
    BY <1>1, <1>2 DEF VerifierInv, VerifierTypeOK
  <1>4. Spaced'
    <2>1. ASSUME NEW t \in Request, stage[t] \in Fetching PROVE now' - loc[t].sent <= Latency
      <3>1. CASE now' = now
        BY <2>1, <3>1 DEF VerifierInv, Spaced
      <3>2. CASE now' # now
        <4>1. now - loc[t].sent < Latency /\ now' = now + 1
          BY <1>2, <2>1, <3>2 DEF Tick, Fetching
        <4> QED
          BY <4>1, Numbers
      <3> QED
        BY <3>1, <3>2
    <2> QED
      BY <1>1, <2>1 DEF VerifierInv, Spaced
  <1>5. Growing'
    BY <1>1, <1>2, Numbers DEF VerifierInv, Growing
  <1>6. Known'
    BY <1>1 DEF VerifierInv, Known
  <1>7. WarmAccepted'
    <2>1. ASSUME NEW t \in Request, loc[t].warm, loc[t].kid \in Keys(idp)' PROVE loc[t].kid \in Keys(idp)
      <3>1. loc[t].kid <= idp /\ idp' - 1 <= loc[t].kid /\ idp' # NoSet /\ idp # NoSet
        BY <1>2, <2>1, Numbers DEF VerifierInv, Known, Growing, Keys, NoSet
      <3> QED
        BY <1>2, <3>1, Numbers DEF Keys
    <2> QED
      BY <1>1, <2>1 DEF VerifierInv, WarmAccepted
  <1> QED
    BY <1>3, <1>4, <1>5, <1>6, <1>7 DEF VerifierInv
----------------------------------------------------------------------------
LEMMA VerifierInductive == VerifierSpec => []VerifierInv
  <1>1. VerifierInv /\ [VerifierNext]_verifierVars => VerifierInv'
    <2> SUFFICES ASSUME VerifierInv, [VerifierNext]_verifierVars PROVE VerifierInv'
      OBVIOUS
    <2>1. CASE UNCHANGED verifierVars
      BY <2>1 DEF verifierVars, VerifierInv, VerifierTypeOK, Spaced, Growing, Known, WarmAccepted
    <2>2. ASSUME NEW t \in Request, NEW kid \in Kid, KeyFor(t, kid) PROVE VerifierInv'
      BY <2>2, KeyForStep
    <2>3. ASSUME NEW t \in Request, FetchFails(t) PROVE VerifierInv'
      BY <2>3, ResultFacts DEF FetchFails
    <2>4. ASSUME NEW t \in Request, Throttle(t) \/ Fetch(t) \/ Install(t) \/ Lookup(t) \/ Return(t)
          PROVE  VerifierInv'
      BY <2>4, ThrottleStep, FetchStep, InstallStep, LookupStep, ReturnStep
    <2>5. CASE Rotate \/ Tick
      BY <2>5, OutsideSteps
    <2> QED
      BY <2>1, <2>2, <2>3, <2>4, <2>5 DEF VerifierNext
  <1> QED
    BY <1>1, VerifierInitHolds, PTL DEF VerifierSpec

(***************************************************************************)
(* A fetch starts at least MinRefresh after the last one started, however  *)
(* that one ended, and none is under way then, for any number of requests  *)
(* (the throttle of keyFor, noted before the fetch, and the HTTP client's  *)
(* timeout below it).                                                      *)
(***************************************************************************)
THEOREM FetchesSpacedHolds == VerifierSpec => FetchesSpaced
  <1> DEFINE Start == \A t \in Request : stage[t] # "fetch" /\ stage'[t] = "fetch" =>
                          /\ now - lastStart >= MinRefresh
                          /\ \A u \in Request : stage[u] \notin {"fetch", "install"}
  <1>1. VerifierInv /\ [VerifierNext]_verifierVars => [Start]_verifierVars
    <2> SUFFICES ASSUME VerifierInv, VerifierNext,
                        NEW t \in Request, stage[t] # "fetch", stage'[t] = "fetch"
                 PROVE  /\ now - lastStart >= MinRefresh
                        /\ \A u \in Request : stage[u] \notin {"fetch", "install"}
      OBVIOUS
    <2>1. Throttle(t) /\ ~Throttled
      <3>1. stage \in [Request -> {"idle", "throttle", "fetch", "install", "lookup", "answered"}]
        BY DEF VerifierInv, VerifierTypeOK
      <3>2. ~(Rotate \/ Tick)
        BY DEF Rotate, Tick
      <3>3. PICK u \in Request : \/ \E kid \in Kid : KeyFor(u, kid)
                                 \/ Throttle(u) \/ Fetch(u) \/ FetchFails(u) \/ Install(u)
                                 \/ Lookup(u) \/ Return(u)
        BY <3>2 DEF VerifierNext
      <3>4. u = t
        BY <3>1, <3>3 DEF KeyFor, Throttle, StartFetch, Result, Fetch, FetchFails, Install,
                          Lookup, Return, Moves
      <3> QED
        BY <3>1, <3>3, <3>4 DEF KeyFor, Throttle, StartFetch, Result, Fetch, FetchFails, Install,
                                Lookup, Return, Moves
    <2>2. now - lastAttempt >= MinRefresh
      BY <2>1, Numbers DEF Throttled
    <2>3. now - lastStart >= MinRefresh
      BY <2>2 DEF VerifierInv, Spaced
    <2>4. ASSUME NEW u \in Request, stage[u] \in Fetching PROVE FALSE
      BY <2>2, <2>4, Numbers DEF VerifierInv, Spaced
    <2> QED
      BY <2>3, <2>4 DEF Fetching
  <1> QED
    BY <1>1, VerifierInductive, PTL DEF VerifierSpec, FetchesSpaced

(***************************************************************************)
(* The cached set is the newest ever cached, or empty, although refresh    *)
(* installs in a critical section of its own (refresh).                    *)
(***************************************************************************)
THEOREM NeverOlderHolds == VerifierSpec => []NeverOlder
  <1>1. VerifierInv => NeverOlder
    BY DEF VerifierInv, Growing, NeverOlder
  <1> QED
    BY <1>1, VerifierInductive, PTL

(***************************************************************************)
(* A key cached when the request began and still published is not reported *)
(* unknown, but after an answer without keys (keyFor's throttled branch    *)
(* and its second lookup).                                                 *)
(***************************************************************************)
THEOREM WarmAcceptedHolds == VerifierSpec => []WarmAccepted
  BY VerifierInductive, PTL DEF VerifierInv
-----------------------------------------------------------------------------
(***************************************************************************)
(* Principals. The argument: an identity belongs to one request from its   *)
(* creation to the answer (ThreadsInv), names are taken once               *)
(* (NamesUnique), the flag of a process says that the policy has been in   *)
(* place (PolicyInv), and so the stores agree (StoresInv).                 *)
(***************************************************************************)
\* Identity i is the one that in asks for.
Of(i, in) ==
    /\ identities[i].kind = KindOf(in) /\ identities[i].name = in.name
    /\ identities[i].attrs = Attrs(in) \/ (reverted /\ in.type = "human")

HasRow(i) == \E row \in rows : row.id = i
Holding == {"insert", "answer"}

\* A thread holds an identity from its creation to the answer, and nobody else has a
\* use for that identity; a human is created only once the policy has been in place.
ThreadInv(t) ==
    /\ pc[t] # "idle" => req[t] \in NewInput /\ Validate(req[t])
    /\ pc[t] \in {"mutex", "getProfile", "putProfile"} => req[t].type = "human"
    /\ pc[t] = "create" /\ req[t].type = "human" => policy \/ reverted
    /\ got[t] # 0 <=> pc[t] \in Holding
    /\ got[t] # 0 => got[t] \in Ids /\ got[t] \notin failed \cup events /\ Of(got[t], req[t])
    /\ pc[t] = "insert" => ~HasRow(got[t])
    /\ pc[t] = "answer" => HasRow(got[t])

ThreadsInv ==
    /\ \A t \in Thread : ThreadInv(t)
    /\ \A t, u \in Thread : got[t] # 0 /\ got[t] = got[u] => t = u

PolicyInv == \A p \in Process : ensured[p] => policy \/ reverted

NamesUnique ==
    \A i, j \in Ids :
        identities[i].kind = identities[j].kind /\ identities[i].name = identities[j].name => i = j

StoresInv ==
    /\ \A row \in rows : Of(row.id, row)
    /\ \A r, s \in rows : r.id = s.id => r = s
    /\ \A i \in events : HasRow(i)
    /\ \A i \in Ids : i \in failed \/ i \in events \/ \E t \in Thread : got[t] = i

IInv == TypeOK /\ ThreadsInv /\ PolicyInv /\ NamesUnique /\ StoresInv
----------------------------------------------------------------------------
LEMMA InitHolds == Init => IInv
  <1> SUFFICES ASSUME Init PROVE IInv
    OBVIOUS
  <1>1. Len(identities) = 0 /\ Ids = {}
    BY DEF Init, Ids
  <1>2. TypeOK
    <2>1. /\ identities \in Seq(Identity) /\ rows \subseteq Principal
          /\ events \subseteq Ids /\ failed \subseteq Ids
          /\ \A row \in rows : row.name # "" /\ (row.type = "agent" <=> row.owner # "")
      BY DEF Init
    <2>2. policy \in BOOLEAN /\ reverted \in BOOLEAN
      BY Zenon DEF Init
    <2>3. /\ mu \in [Process -> Thread \cup {None}] /\ ensured \in [Process -> BOOLEAN]
          /\ req \in [Thread -> NewInput \cup {None}] /\ pc \in [Thread -> Labels]
      BY DEF Init, Labels
    <2>4. got \in [Thread -> 0..Len(identities)]
      BY <1>1 DEF Init
    <2> QED
      BY <2>1, <2>2, <2>3, <2>4 DEF TypeOK
  <1>3. ThreadsInv
    BY <1>1 DEF Init, ThreadsInv, ThreadInv, Holding
  <1>4. PolicyInv /\ NamesUnique
    BY <1>1 DEF Init, PolicyInv, NamesUnique
  <1>5. StoresInv
    BY <1>1 DEF Init, StoresInv
  <1> QED
    BY <1>2, <1>3, <1>4, <1>5 DEF IInv

LEMMA Types ==
    ASSUME IInv
    PROVE  /\ identities \in Seq(Identity) /\ rows \subseteq Principal
           /\ \A row \in rows : row.name # "" /\ (row.type = "agent" <=> row.owner # "")
           /\ mu \in [Process -> Thread \cup {None}] /\ ensured \in [Process -> BOOLEAN]
           /\ pc \in [Thread -> Labels] /\ req \in [Thread -> NewInput \cup {None}]
           /\ got \in [Thread -> 0..Len(identities)] /\ Len(identities) \in Nat
           /\ events \subseteq Ids /\ failed \subseteq Ids
           /\ policy \in BOOLEAN /\ reverted \in BOOLEAN
           /\ ProcOf \in [Thread -> Process]
  <1>1. TypeOK
    BY DEF IInv
  <1>3. /\ identities \in Seq(Identity) /\ rows \subseteq Principal
        /\ \A row \in rows : row.name # "" /\ (row.type = "agent" <=> row.owner # "")
        /\ policy \in BOOLEAN /\ reverted \in BOOLEAN
    BY <1>1, Zenon DEF TypeOK
  <1>4. /\ mu \in [Process -> Thread \cup {None}] /\ ensured \in [Process -> BOOLEAN]
        /\ pc \in [Thread -> Labels] /\ req \in [Thread -> NewInput \cup {None}]
        /\ got \in [Thread -> 0..Len(identities)]
        /\ events \subseteq Ids /\ failed \subseteq Ids
    BY <1>1, Zenon DEF TypeOK
  <1>2. identities \in Seq(Identity)
    BY <1>3, Zenon
  <1>5. Len(identities) \in Nat
    BY <1>2
  <1> QED
    BY <1>3, <1>4, <1>5, PrincipalsConstants, Zenon

\* The identities never change; the ids of a sequence.
Grows ==
    /\ identities' \in Seq(Identity) /\ Len(identities') >= Len(identities)
    /\ \A i \in Ids : identities'[i] = identities[i]

LEMMA IdsGrow == ASSUME IInv, Grows PROVE Ids \subseteq Ids' /\ Len(identities') \in Nat
  <1>0. Len(identities) \in Nat
    BY Types
  <1>1. Len(identities) \in Nat /\ Len(identities') \in Nat /\ Len(identities') >= Len(identities)
    BY <1>0 DEF Grows
  <1> QED
    BY <1>1 DEF Ids

\* What a step may do to what is already there.
Evolves ==
    /\ Grows /\ rows \subseteq rows' /\ failed \subseteq failed'
    /\ policy \/ reverted => policy' \/ reverted'
    /\ reverted => reverted'

LEMMA OfStays ==
    ASSUME IInv, Evolves, NEW i \in Ids, NEW in, Of(i, in)
    PROVE  Of(i, in)'
  BY DEF Of, Evolves, Grows, KindOf, Attrs

\* A thread that a step leaves alone, and whose identity it leaves alone.
LEMMA ThreadStays ==
    ASSUME IInv, Evolves, NEW u \in Thread,
           pc'[u] = pc[u], req'[u] = req[u], got'[u] = got[u],
           got[u] # 0 => got[u] \notin failed' \cup events' /\ (HasRow(got[u])' => HasRow(got[u]))
    PROVE  ThreadInv(u)'
  <1>1. ThreadInv(u) /\ Ids \subseteq Ids'
    BY Zenon, IdsGrow DEF IInv, ThreadsInv, Evolves
  <1>2. pc'[u] # "idle" => req'[u] \in NewInput /\ Validate(req[u])'
    BY <1>1 DEF ThreadInv, Validate
  <1>3. /\ pc'[u] \in {"mutex", "getProfile", "putProfile"} => req'[u].type = "human"
        /\ pc'[u] = "create" /\ req'[u].type = "human" => policy' \/ reverted'
        /\ got'[u] # 0 <=> pc'[u] \in Holding
    BY <1>1 DEF ThreadInv, Evolves
  <1>4. got'[u] # 0 => got'[u] \in Ids' /\ got'[u] \notin failed' \cup events'
    BY Zenon, <1>1 DEF ThreadInv
  <1>5. got'[u] # 0 => Of(got[u], req[u])'
    <2> SUFFICES ASSUME got[u] # 0 PROVE Of(got[u], req[u])'
      BY Zenon
    <2>1. got[u] \in Ids /\ Of(got[u], req[u])
      BY Zenon, <1>1 DEF ThreadInv
    <2> DEFINE i == got[u]
               in == req[u]
    <2>2. i \in Ids /\ Of(i, in) /\ got'[u] = i /\ req'[u] = in
      BY Zenon, <2>1
    <2> QED
      BY <2>2 DEF Of, Evolves, Grows, KindOf, Attrs
  <1>6. pc'[u] = "insert" => ~HasRow(got[u])'
    BY <1>1 DEF ThreadInv, Holding
  <1>7. pc'[u] = "answer" => HasRow(got[u])'
    BY <1>1 DEF ThreadInv, HasRow, Evolves
  <1> QED
    BY Zenon, <1>2, <1>3, <1>4, <1>5, <1>6, <1>7 DEF ThreadInv

\* Every thread of D moves; the others keep their place and their identity.
Others(D) ==
    \A u \in Thread \ D :
        /\ pc'[u] = pc[u] /\ req'[u] = req[u] /\ got'[u] = got[u]
        /\ got[u] # 0 => got[u] \notin failed' \cup events' /\ (HasRow(got[u])' => HasRow(got[u]))

LEMMA ThreadsKept ==
    ASSUME IInv, Evolves, NEW D \in SUBSET Thread, Others(D),
           \A u \in D : ThreadInv(u)' /\ (got'[u] \in {0, got[u]} \/ got'[u] \notin Ids),
           \A u, v \in D : got'[u] = got'[v] /\ got'[u] \notin Ids \cup {0} => u = v
    PROVE  ThreadsInv'
  <1>1. \A u \in Thread : ThreadInv(u)'
    BY ThreadStays DEF Others
  <1>2. \A t, u \in Thread : got'[t] # 0 /\ got'[t] = got'[u] => t = u
    <2> SUFFICES ASSUME NEW t \in Thread, NEW u \in Thread, got'[t] # 0, got'[t] = got'[u] PROVE t = u
      BY Zenon
    <2>1. \A v \in Thread : got[v] # 0 => got[v] \in Ids
      BY Zenon DEF IInv, ThreadsInv, ThreadInv
    <2>2. \A v \in Thread : got'[v] # 0 => got'[v] = got[v] \/ (v \in D /\ got'[v] \notin Ids)
      BY Zenon DEF Others
    <2>3. got[t] # 0 /\ got[t] = got[u] => t = u
      BY DEF IInv, ThreadsInv
    <2> QED
      BY <2>1, <2>2, <2>3
  <1> QED
    BY <1>1, <1>2 DEF ThreadsInv

\* What the two stores hold after a step that inserts the rows of R.
LEMMA StoresKept ==
    ASSUME IInv, Evolves, NEW R, rows' = rows \cup R,
           \A row \in R : Of(row.id, row)',
           \A r \in R, s \in rows' : r.id = s.id => r = s,
           events \subseteq events', \A i \in events' \ events : HasRow(i)',
           \A i \in Ids' : i \in failed' \/ i \in events' \/ \E t \in Thread : got'[t] = i
    PROVE  StoresInv'
  <1>1. \A row \in rows : row.id \in Ids
    BY Types DEF Principal
  <1>2. \A row \in rows : Of(row.id, row)'
    <2> SUFFICES ASSUME NEW row \in rows PROVE Of(row.id, row)'
      OBVIOUS
    <2>1. Of(row.id, row) /\ row.id \in Ids
      BY <1>1 DEF IInv, StoresInv
    <2> QED
      BY <2>1 DEF Of, Evolves, Grows, KindOf, Attrs
  <1>3. \A row \in rows' : Of(row.id, row)'
    BY <1>2
  <1>4. \A r, s \in rows' : r.id = s.id => r = s
    <2>1. \A r, s \in rows : r.id = s.id => r = s
      BY DEF IInv, StoresInv
    <2> QED
      BY Zenon, <2>1
  <1>5. \A i \in events' : HasRow(i)'
    <2>1. \A i : HasRow(i) => HasRow(i)'
      BY DEF HasRow
    <2> QED
      BY <2>1 DEF IInv, StoresInv
  <1> QED
    BY <1>3, <1>4, <1>5 DEF StoresInv

LEMMA StoresKeptNoRow ==
    ASSUME IInv, Evolves, rows' = rows,
           events \subseteq events', \A i \in events' \ events : HasRow(i)',
           \A i \in Ids' : i \in failed' \/ i \in events' \/ \E t \in Thread : got'[t] = i
    PROVE  StoresInv'
  <1> DEFINE R == {}
  <1>1. /\ rows' = rows \cup R
        /\ \A row \in R : Of(row.id, row)'
        /\ \A r \in R, s \in rows' : r.id = s.id => r = s
    OBVIOUS
  <1> HIDE DEF R
  <1> QED
    BY <1>1, StoresKept

LEMMA StoresStay ==
    ASSUME IInv, Evolves, UNCHANGED <<identities, rows, events, failed, got>>
    PROVE  NamesUnique' /\ StoresInv'
  <1>1. Ids' = Ids
    BY DEF Ids
  <1>2. NamesUnique'
    BY <1>1 DEF IInv, NamesUnique
  <1>3. \A i \in Ids : i \in failed \/ i \in events \/ \E t \in Thread : got[t] = i
    BY DEF IInv, StoresInv
  <1>5. \A i \in Ids' : i \in failed' \/ i \in events' \/ \E t \in Thread : got'[t] = i
    BY <1>1, <1>3
  <1>6. StoresInv'
    BY <1>5, StoresKeptNoRow
  <1> QED
    BY <1>2, <1>6

\* Steps before there is an identity.
LEMMA QuietKeeps ==
    ASSUME IInv, TypeOK', PolicyInv', NEW t \in Thread,
           UNCHANGED <<identities, rows, events, failed, got, reverted>>, policy => policy',
           \A u \in Thread \ {t} : pc'[u] = pc[u] /\ req'[u] = req[u],
           ThreadInv(t)'
    PROVE  IInv'
  <1>0. identities \in Seq(Identity) /\ Len(identities) \in Nat
    BY Types, Zenon
  <1>1. Evolves
    BY <1>0 DEF Evolves, Grows
  <1>2. \A u \in Thread : got[u] # 0 => got[u] \notin failed \cup events
    BY Zenon DEF IInv, ThreadsInv, ThreadInv
  <1>3. \A i : HasRow(i)' <=> HasRow(i)
    BY DEF HasRow
  <1>4. Others({t})
    BY Zenon, <1>2, <1>3 DEF Others
  <1>5. ThreadsInv'
    BY <1>1, <1>4, ThreadsKept
  <1>6. NamesUnique' /\ StoresInv'
    BY <1>1, StoresStay
  <1> QED
    BY <1>5, <1>6 DEF IInv

\* The variables that say where the threads are.
Places ==
    /\ mu \in [Process -> Thread \cup {None}] /\ ensured \in [Process -> BOOLEAN]
    /\ pc \in [Thread -> Labels] /\ req \in [Thread -> NewInput \cup {None}]
    /\ policy \in BOOLEAN

LEMMA QuietTypes ==
    ASSUME IInv, Places', UNCHANGED <<identities, rows, events, failed, got, reverted>>
    PROVE  TypeOK'
  <1>1. Ids' = Ids /\ Principal' = Principal
    BY DEF Ids, Principal
  <1> QED
    BY <1>1, Types, Zenon DEF TypeOK, Places

LEMMA ReturnsFacts ==
    ASSUME IInv, NEW t \in Thread, Returns(t)
    PROVE  /\ pc' \in [Thread -> Labels] /\ req' \in [Thread -> NewInput \cup {None}]
           /\ pc'[t] = "idle" /\ req'[t] = None /\ got'[t] = 0
           /\ \A u \in Thread \ {t} : pc'[u] = pc[u] /\ req'[u] = req[u] /\ got'[u] = got[u]
           /\ DOMAIN got' = Thread
           /\ ThreadInv(t)'
  <1>1. /\ pc \in [Thread -> Labels] /\ req \in [Thread -> NewInput \cup {None}]
        /\ got \in [Thread -> 0..Len(identities)]
    BY Types, Zenon
  <1>2. /\ pc' \in [Thread -> Labels] /\ req' \in [Thread -> NewInput \cup {None}]
        /\ pc'[t] = "idle" /\ req'[t] = None /\ got'[t] = 0
        /\ \A u \in Thread \ {t} : pc'[u] = pc[u] /\ req'[u] = req[u] /\ got'[u] = got[u]
        /\ DOMAIN got' = Thread
    BY Zenon, <1>1 DEF Returns, Goto, Labels
  <1>3. ThreadInv(t)'
    BY <1>2 DEF ThreadInv, Holding
  <1> QED
    BY <1>2, <1>3

\* What a step to another label does.
LEMMA GotoFacts ==
    ASSUME IInv, NEW t \in Thread, NEW l \in Labels, Goto(t, l)
    PROVE  /\ pc' \in [Thread -> Labels] /\ pc'[t] = l
           /\ \A u \in Thread \ {t} : pc'[u] = pc[u]
  <1>1. pc \in [Thread -> Labels]
    BY Types, Zenon
  <1> QED
    BY <1>1 DEF Goto

LEMMA CreateKeeps ==
    ASSUME IInv, NEW t \in Thread, Create(t) PROVE IInv'
  <1>1. PICK in \in Input[t] : Validate(in) /\ req' = [req EXCEPT ![t] = in]
    BY ZenonT(40) DEF Create
  <1>2. /\ pc[t] = "idle" /\ Goto(t, "login")
        /\ UNCHANGED <<policy, identities, rows, mu, ensured, got, events, failed, reverted>>
    BY DEF Create, kc, ghosts
  <1>3. in \in NewInput
    BY PrincipalsConstants
  <1>4. req \in [Thread -> NewInput \cup {None}]
    BY Types, Zenon
  <1>5. /\ req' \in [Thread -> NewInput \cup {None}] /\ req'[t] = in
        /\ \A u \in Thread \ {t} : req'[u] = req[u]
    BY Zenon, <1>1, <1>3, <1>4
  <1>6. /\ pc' \in [Thread -> Labels] /\ pc'[t] = "login"
        /\ \A u \in Thread \ {t} : pc'[u] = pc[u]
    BY Zenon, <1>2, GotoFacts DEF Labels
  <1>7. Places'
    BY <1>2, <1>5, <1>6, Types, Zenon DEF Places
  <1>8. got'[t] = 0
    BY ZenonT(40), <1>2 DEF IInv, ThreadsInv, ThreadInv, Holding
  <1>9. ThreadInv(t)'
    BY <1>1, <1>3, <1>5, <1>6, <1>8 DEF ThreadInv, Holding, Validate
  <1>10. PolicyInv'
    BY <1>2 DEF IInv, PolicyInv
  <1>11. TypeOK'
    BY Zenon, <1>2, <1>7, QuietTypes
  <1> QED
    BY ZenonT(40), <1>2, <1>5, <1>6, <1>9, <1>10, <1>11, QuietKeeps

Before == {"login", "mutex", "getProfile", "putProfile", "create"}

\* A request goes on to another step before the creation of its identity.
LEMMA MoveKeeps ==
    ASSUME IInv, NEW t \in Thread, NEW l \in Before, Goto(t, l), pc[t] \in Before,
           mu' \in [Process -> Thread \cup {None}], ensured' \in [Process -> BOOLEAN],
           policy' \in BOOLEAN, PolicyInv', policy => policy',
           UNCHANGED <<identities, rows, req, events, failed, got, reverted>>,
           l \in {"mutex", "getProfile", "putProfile"} => req[t].type = "human",
           l = "create" /\ req[t].type = "human" => policy' \/ reverted'
    PROVE  IInv'
  <1>1. l \in Labels
    BY DEF Before, Labels
  <1>2. /\ pc' \in [Thread -> Labels] /\ pc'[t] = l
        /\ \A u \in Thread \ {t} : pc'[u] = pc[u]
    BY <1>1, GotoFacts
  <1>3. req \in [Thread -> NewInput \cup {None}]
    BY Types, Zenon
  <1>4. Places'
    BY <1>2, <1>3, Zenon DEF Places
  <1>5. TypeOK'
    BY Zenon, <1>4, QuietTypes
  <1>6. ThreadInv(t)
    BY Zenon DEF IInv, ThreadsInv
  <1>7. got'[t] = 0 /\ req'[t] \in NewInput /\ Validate(req[t])'
    BY <1>6 DEF ThreadInv, Before, Holding, Validate
  <1>8. ThreadInv(t)'
    BY <1>2, <1>7 DEF ThreadInv, Before, Holding
  <1> QED
    BY <1>2, <1>5, <1>8, QuietKeeps

LEMMA loginKeeps ==
    ASSUME IInv, NEW t \in Thread, login(t) PROVE IInv'
  <1>1. /\ pc[t] = "login" /\ Goto(t, IF req[t].type = "human" THEN "mutex" ELSE "create")
        /\ UNCHANGED <<policy, identities, rows, mu, ensured, req, got, events, failed, reverted>>
    BY DEF login, kc, ghosts
  <1>2. /\ mu' \in [Process -> Thread \cup {None}] /\ ensured' \in [Process -> BOOLEAN]
        /\ policy' \in BOOLEAN
    BY <1>1, Types, Zenon
  <1>3. PolicyInv'
    BY Zenon, <1>1 DEF IInv, PolicyInv
  <1>4. CASE req[t].type = "human"
    BY Zenon, <1>1, <1>2, <1>3, <1>4, MoveKeeps DEF Before
  <1>5. CASE req[t].type # "human"
    BY <1>1, <1>2, <1>3, <1>5, MoveKeeps DEF Before
  <1> QED
    BY Zenon, <1>4, <1>5

LEMMA LockMuKeeps ==
    ASSUME IInv, NEW t \in Thread, LockMu(t) PROVE IInv'
  <1>1. /\ pc[t] = "mutex"
        /\ UNCHANGED <<policy, identities, rows, ensured, req, got, events, failed, reverted>>
    BY DEF LockMu, kc, ghosts
  <1>2. mu \in [Process -> Thread \cup {None}] /\ ProcOf[t] \in Process
    BY Types, PrincipalsConstants
  <1>3. ensured' \in [Process -> BOOLEAN] /\ policy' \in BOOLEAN
    BY <1>1, Types, Zenon
  <1>4. PolicyInv'
    BY Zenon, <1>1 DEF IInv, PolicyInv
  <1>5. req[t].type = "human"
    BY Zenon, <1>1 DEF IInv, ThreadsInv, ThreadInv
  <1>6. CASE ensured[ProcOf[t]]
    <2>1. Goto(t, "create") /\ mu' = mu
      BY <1>6 DEF LockMu
    <2>2. policy' \/ reverted'
      BY <1>1, <1>2, <1>6 DEF IInv, PolicyInv
    <2>3. mu' \in [Process -> Thread \cup {None}]
      BY Zenon, <2>1, <1>2
    <2> QED
      BY Zenon, <1>1, <1>3, <1>4, <2>1, <2>2, <2>3, MoveKeeps DEF Before
  <1>7. CASE ~ensured[ProcOf[t]]
    <2>1. Goto(t, "getProfile") /\ mu' = [mu EXCEPT ![ProcOf[t]] = t]
      BY <1>7 DEF LockMu
    <2>2. mu' \in [Process -> Thread \cup {None}]
      BY <2>1, <1>2
    <2> QED
      BY Zenon, <1>1, <1>3, <1>4, <1>5, <2>1, <2>2, MoveKeeps DEF Before
  <1> QED
    BY Zenon, <1>6, <1>7

LEMMA EnsuredFacts ==
    ASSUME IInv, NEW t \in Thread, Ensured(t), policy' \/ reverted', policy => policy',
           reverted' = reverted
    PROVE  /\ mu' \in [Process -> Thread \cup {None}] /\ ensured' \in [Process -> BOOLEAN]
           /\ Goto(t, "create") /\ PolicyInv'
  <1>1. mu \in [Process -> Thread \cup {None}] /\ ensured \in [Process -> BOOLEAN]
    BY Types, Zenon
  <1>2. ensured' = [ensured EXCEPT ![ProcOf[t]] = TRUE] /\ mu' = [mu EXCEPT ![ProcOf[t]] = None]
    BY DEF Ensured, UnlockMu
  <1>3. mu' \in [Process -> Thread \cup {None}]
    BY Zenon, <1>1, <1>2
  <1>4. ensured' \in [Process -> BOOLEAN]
    BY <1>1, <1>2, Zenon
  <1>5. PolicyInv'
    BY DEF PolicyInv
  <1> QED
    BY <1>3, <1>4, <1>5 DEF Ensured

LEMMA GetProfileKeeps ==
    ASSUME IInv, NEW t \in Thread, GetProfile(t) PROVE IInv'
  <1>1. /\ pc[t] = "getProfile"
        /\ UNCHANGED <<policy, identities, rows, req, got, events, failed, reverted>>
    BY DEF GetProfile, kc, ghosts
  <1>2. policy' \in BOOLEAN
    BY <1>1, Types, Zenon
  <1>3. req[t].type = "human"
    BY Zenon, <1>1 DEF IInv, ThreadsInv, ThreadInv
  <1>4. CASE policy
    <2>1. Ensured(t)
      BY <1>4 DEF GetProfile
    <2>2. /\ mu' \in [Process -> Thread \cup {None}] /\ ensured' \in [Process -> BOOLEAN]
          /\ Goto(t, "create") /\ PolicyInv'
      BY Zenon, <1>1, <1>4, <2>1, EnsuredFacts
    <2> QED
      BY <1>1, <1>2, <1>4, <2>2, MoveKeeps DEF Before
  <1>5. CASE ~policy
    <2>1. Goto(t, "putProfile") /\ mu' = mu /\ ensured' = ensured
      BY <1>5 DEF GetProfile
    <2>2. mu' \in [Process -> Thread \cup {None}] /\ ensured' \in [Process -> BOOLEAN]
      BY <2>1, Types, Zenon
    <2>3. PolicyInv'
      BY Zenon, <1>1, <2>1 DEF IInv, PolicyInv
    <2> QED
      BY <1>1, <1>2, <1>3, <2>1, <2>2, <2>3, MoveKeeps DEF Before
  <1> QED
    BY <1>4, <1>5

LEMMA PutProfileKeeps ==
    ASSUME IInv, NEW t \in Thread, PutProfile(t) PROVE IInv'
  <1>1. /\ pc[t] = "putProfile" /\ policy' = TRUE /\ Ensured(t)
        /\ UNCHANGED <<identities, rows, req, got, events, failed, reverted>>
    BY DEF PutProfile, ghosts
  <1>2. /\ mu' \in [Process -> Thread \cup {None}] /\ ensured' \in [Process -> BOOLEAN]
        /\ Goto(t, "create") /\ PolicyInv'
    BY Zenon, <1>1, EnsuredFacts
  <1> QED
    BY <1>1, <1>2, MoveKeeps DEF Before

LEMMA ProfileFailsKeeps ==
    ASSUME IInv, NEW t \in Thread, ProfileFails(t) PROVE IInv'
  <1>1. /\ pc[t] \in {"getProfile", "putProfile"} /\ Returns(t)
        /\ policy' \in {policy, policy \/ pc[t] = "putProfile"}
        /\ mu' = [mu EXCEPT ![ProcOf[t]] = None]
        /\ UNCHANGED <<identities, rows, ensured, events, failed, reverted>>
    BY DEF ProfileFails, UnlockMu, ghosts
  <1>2. /\ mu \in [Process -> Thread \cup {None}] /\ ensured \in [Process -> BOOLEAN]
        /\ policy \in BOOLEAN
    BY Types, Zenon
  <1>3. policy' \in BOOLEAN /\ (policy => policy')
    BY <1>1, <1>2, Zenon
  <1>4. mu' \in [Process -> Thread \cup {None}]
    BY ZenonT(40), <1>1, <1>2
  <1>5. /\ pc' \in [Thread -> Labels] /\ req' \in [Thread -> NewInput \cup {None}]
        /\ \A u \in Thread \ {t} : pc'[u] = pc[u] /\ req'[u] = req[u]
        /\ ThreadInv(t)'
    BY Zenon, <1>1, ReturnsFacts
  <1>6. got' = got
    <2>1. got[t] = 0
      BY <1>1 DEF IInv, ThreadsInv, ThreadInv, Holding
    <2>2. got \in [Thread -> 0..Len(identities)]
      BY Types, Zenon
    <2> QED
      BY Zenon, <1>1, <2>1, <2>2 DEF Returns
  <1>7. Places'
    BY <1>1, <1>2, <1>3, <1>4, <1>5, Zenon DEF Places
  <1>8. TypeOK'
    BY Zenon, <1>1, <1>6, <1>7, QuietTypes
  <1>9. PolicyInv'
    BY <1>1, <1>3 DEF IInv, PolicyInv
  <1> QED
    BY Zenon, <1>1, <1>3, <1>5, <1>6, <1>8, <1>9, QuietKeeps

LEMMA RevertKeeps ==
    ASSUME IInv, Revert PROVE IInv'
  <1>1. /\ policy' = FALSE /\ reverted' = TRUE
        /\ UNCHANGED <<identities, rows, mu, ensured, pc, req, got, events, failed>>
    BY DEF Revert
  <1>2. identities \in Seq(Identity) /\ Len(identities) \in Nat
    BY Types, Zenon
  <1>3. Evolves
    BY <1>1, <1>2 DEF Evolves, Grows
  <1>4. Ids' = Ids /\ Principal' = Principal
    BY <1>1 DEF Ids, Principal
  <1>5. policy' \in BOOLEAN /\ reverted' \in BOOLEAN
    BY ZenonT(40), <1>1
  <1>6. TypeOK'
    BY <1>1, <1>4, <1>5, Types, Zenon DEF TypeOK
  <1>7. \A u \in Thread : got[u] # 0 => got[u] \notin failed \cup events
    BY DEF IInv, ThreadsInv, ThreadInv
  <1>8. \A i : HasRow(i)' <=> HasRow(i)
    BY Zenon, <1>1 DEF HasRow
  <1>9. Others({})
    BY Zenon, <1>1, <1>7, <1>8 DEF Others
  <1>10. ThreadsInv'
    BY <1>3, <1>9, ThreadsKept
  <1>11. NamesUnique' /\ StoresInv'
    BY <1>1, <1>3, StoresStay
  <1>12. PolicyInv'
    BY Zenon, <1>1 DEF PolicyInv
  <1> QED
    BY <1>6, <1>10, <1>11, <1>12 DEF IInv

\* The identity that Keycloak adds for the request of t.
LEMMA NewIdentityFacts ==
    ASSUME IInv, NEW t \in Thread, pc[t] = "create", NewIdentity(t)
    PROVE  /\ Grows /\ Len(identities') = Len(identities) + 1
           /\ Ids' = Ids \cup {Len(identities')} /\ Len(identities') \notin Ids
           /\ identities'[Len(identities')].kind = KindOf(req[t])
           /\ identities'[Len(identities')].name = req[t].name
           /\ \/ identities'[Len(identities')].attrs = Attrs(req[t])
              \/ reverted /\ req[t].type = "human"
           /\ NamesUnique'
  <1> DEFINE keeps == KindOf(req[t]) = "client" \/ policy
             new == [kind |-> KindOf(req[t]), name |-> req[t].name,
                     attrs |-> IF keeps THEN Attrs(req[t]) ELSE NoAttrs]
             n == Len(identities) + 1
  <1>1. req[t] \in NewInput /\ (req[t].type = "human" => policy \/ reverted)
    BY DEF IInv, ThreadsInv, ThreadInv
  <1>2. identities \in Seq(Identity) /\ Len(identities) \in Nat
    BY Types, Zenon
  <1>3. Attrs(req[t]) \in Attributes /\ NoAttrs \in Attributes
    BY <1>1 DEF Attrs, Attributes, NewInput
  <1>4. KindOf(req[t]) \in {"user", "client"} /\ req[t].name \in STRING
    BY <1>1 DEF KindOf, NewInput
  <1>5. (IF keeps THEN Attrs(req[t]) ELSE NoAttrs) \in Attributes
    BY Zenon, <1>3
  <1>6. new \in Identity
    BY Zenon, <1>4, <1>5 DEF Identity
  <1>7. keeps \/ (reverted /\ req[t].type = "human")
    BY Zenon, <1>1 DEF KindOf
  <1>8. /\ new.kind = KindOf(req[t]) /\ new.name = req[t].name
        /\ new.attrs = Attrs(req[t]) \/ (reverted /\ req[t].type = "human")
    BY Zenon, <1>7
  <1>9. identities' = Append(identities, new)
    BY Zenon DEF NewIdentity
  <1> HIDE DEF new, keeps
  <1>10. /\ identities' \in Seq(Identity) /\ Len(identities') = n
         /\ identities'[n] = new
         /\ \A i \in 1..Len(identities) : identities'[i] = identities[i]
    BY <1>2, <1>6, <1>9
  <1>11. Ids' = Ids \cup {n} /\ n \notin Ids
    BY <1>2, <1>10 DEF Ids
  <1>12. Grows
    BY <1>2, <1>10 DEF Grows, Ids
  <1>13. \A i \in Ids : ~(identities[i].kind = new.kind /\ identities[i].name = new.name)
    BY Zenon, <1>8 DEF NewIdentity, Taken
  <1>14. NamesUnique'
    BY <1>10, <1>11, <1>13 DEF IInv, NamesUnique, Ids
  <1> QED
    BY Zenon, <1>8, <1>10, <1>11, <1>12, <1>14

LEMMA PrincipalsGrow ==
    ASSUME IInv, Grows
    PROVE  rows \subseteq Principal' /\ events \subseteq Ids' /\ failed \subseteq Ids'
  <1>1. rows \subseteq Principal /\ events \subseteq Ids /\ failed \subseteq Ids
    BY Types, Zenon
  <1> QED
    BY <1>1, IdsGrow DEF Principal

\* An identity is added, for t to keep or as one that failed.
LEMMA AddKeeps ==
    ASSUME IInv, NEW t \in Thread, pc[t] = "create", NewIdentity(t), Places', PolicyInv',
           UNCHANGED <<policy, rows, events, reverted>>,
           \A u \in Thread \ {t} : pc'[u] = pc[u] /\ req'[u] = req[u] /\ got'[u] = got[u],
           DOMAIN got' = Thread, got' = [u \in Thread |-> got'[u]],
           \/ got'[t] = 0 /\ failed' = failed \cup {Len(identities')}
           \/ got'[t] = Len(identities') /\ failed' = failed,
           ThreadInv(t)'
    PROVE  IInv'
  <1> DEFINE n == Len(identities')
  <1>1. /\ Grows /\ n = Len(identities) + 1 /\ Ids' = Ids \cup {n} /\ n \notin Ids
        /\ NamesUnique'
    BY NewIdentityFacts
  <1>2. Evolves
    BY Zenon, <1>1 DEF Evolves
  <1>3. \A u \in Thread : got[u] # 0 => got[u] \in Ids /\ got[u] \notin failed \cup events
    BY DEF IInv, ThreadsInv, ThreadInv
  <1>4. \A i : HasRow(i)' <=> HasRow(i)
    BY Zenon DEF HasRow
  <1>5. Others({t})
    BY <1>1, <1>3, <1>4 DEF Others
  <1>6. ThreadsInv'
    BY ZenonT(40), <1>1, <1>2, <1>5, ThreadsKept
  <1>7. StoresInv'
    <2>1. 0 \notin Ids
      BY DEF Ids
    <2>2. \A i \in Ids : i \in failed \/ i \in events \/ \E u \in Thread : got[u] = i
      BY Zenon DEF IInv, StoresInv
    <2>3. got[t] = 0
      BY DEF IInv, ThreadsInv, ThreadInv, Holding
    <2>4. \A i \in Ids' : i \in failed' \/ i \in events' \/ \E u \in Thread : got'[u] = i
      BY <1>1, <2>1, <2>2, <2>3
    <2> QED
      BY <1>2, <2>4, StoresKeptNoRow
  <1>8. TypeOK'
    <2>1. rows' \subseteq Principal' /\ events' \subseteq Ids' /\ failed' \subseteq Ids'
      BY <1>1, PrincipalsGrow
    <2>2. got' \in [Thread -> 0..n]
      <3>1. Len(identities) \in Nat /\ got \in [Thread -> 0..Len(identities)]
        BY Types, Zenon
      <3> QED
        BY <3>1, <1>1
    <2>3. identities' \in Seq(Identity)
      BY <1>1 DEF Grows
    <2>4. /\ \A row \in rows' : row.name # "" /\ (row.type = "agent" <=> row.owner # "")
          /\ reverted' \in BOOLEAN
      BY Types, Zenon
    <2> QED
      BY <2>1, <2>2, <2>3, <2>4, Zenon DEF TypeOK, Places
  <1> QED
    BY Zenon, <1>1, <1>6, <1>7, <1>8 DEF IInv

LEMMA CreateIdentityKeeps ==
    ASSUME IInv, NEW t \in Thread, CreateIdentity(t) PROVE IInv'
  <1> DEFINE n == Len(identities')
  <1>1. /\ pc[t] = "create" /\ NewIdentity(t) /\ got' = [got EXCEPT ![t] = n] /\ Goto(t, "insert")
        /\ UNCHANGED <<policy, rows, mu, ensured, req, events, failed, reverted>>
    BY Zenon DEF CreateIdentity, ghosts
  <1>2. /\ Grows /\ n = Len(identities) + 1 /\ Ids' = Ids \cup {n} /\ n \notin Ids
        /\ identities'[n].kind = KindOf(req[t]) /\ identities'[n].name = req[t].name
        /\ identities'[n].attrs = Attrs(req[t]) \/ (reverted /\ req[t].type = "human")
    BY Zenon, <1>1, NewIdentityFacts
  <1>3. /\ pc' \in [Thread -> Labels] /\ pc'[t] = "insert"
        /\ \A u \in Thread \ {t} : pc'[u] = pc[u]
    BY <1>1, GotoFacts DEF Labels
  <1>4. got \in [Thread -> 0..Len(identities)] /\ Len(identities) \in Nat
    BY Types, Zenon
  <1>5. /\ DOMAIN got' = Thread /\ got' = [u \in Thread |-> got'[u]] /\ got'[t] = n
        /\ \A u \in Thread \ {t} : got'[u] = got[u]
    BY Zenon, <1>1, <1>4
  <1>6. Places'
    BY <1>1, <1>3, Types, Zenon DEF Places
  <1>7. PolicyInv'
    BY Zenon, <1>1 DEF IInv, PolicyInv
  <1>8. ThreadInv(t)'
    <2>1. req[t] \in NewInput /\ Validate(req[t])
      BY ZenonT(40), <1>1 DEF IInv, ThreadsInv, ThreadInv
    <2>2. n # 0 /\ n \in Ids' /\ n \notin failed' \cup events'
      <3>1. failed \subseteq Ids /\ events \subseteq Ids
        BY Types, Zenon
      <3> QED
        BY <3>1, <1>1, <1>2, <1>4
    <2>3. Of(got[t], req[t])'
      BY Zenon, <1>1, <1>2, <1>5 DEF Of, KindOf, Attrs
    <2>4. ~HasRow(got[t])'
      <3>1. rows \subseteq Principal
        BY Types, Zenon
      <3> QED
        BY <3>1, <1>1, <1>2, <1>5 DEF HasRow, Principal
    <2>5. req'[t] \in NewInput /\ Validate(req[t])'
      BY <1>1, <2>1 DEF Validate
    <2>6. got'[t] # 0 => got'[t] \in Ids' /\ got'[t] \notin failed' \cup events' /\ Of(got[t], req[t])'
      BY Zenon, <1>5, <2>2, <2>3
    <2> QED
      BY <1>3, <1>5, <2>2, <2>4, <2>5, <2>6 DEF ThreadInv, Holding
  <1> QED
    BY Zenon, <1>1, <1>3, <1>5, <1>6, <1>7, <1>8, AddKeeps

\* A request that gives up, or that fails, before it has an identity.
LEMMA LeavesKeeps ==
    ASSUME IInv, NEW t \in Thread, pc[t] \in {"login", "create"}, Returns(t),
           UNCHANGED <<policy, identities, rows, mu, ensured, events, failed, reverted>>
    PROVE  IInv'
  <1>1. /\ pc' \in [Thread -> Labels] /\ req' \in [Thread -> NewInput \cup {None}]
        /\ \A u \in Thread \ {t} : pc'[u] = pc[u] /\ req'[u] = req[u]
        /\ ThreadInv(t)'
    BY ReturnsFacts
  <1>2. got' = got
    <2>1. got[t] = 0
      BY DEF IInv, ThreadsInv, ThreadInv, Holding
    <2>2. got \in [Thread -> 0..Len(identities)]
      BY Types, Zenon
    <2> QED
      BY ZenonT(40), <2>1, <2>2 DEF Returns
  <1>3. Places'
    BY <1>1, Types, Zenon DEF Places
  <1>4. TypeOK'
    BY <1>2, <1>3, QuietTypes
  <1>5. PolicyInv'
    BY DEF IInv, PolicyInv
  <1> QED
    BY ZenonT(40), <1>1, <1>2, <1>4, <1>5, QuietKeeps

LEMMA CreateFailsKeeps ==
    ASSUME IInv, NEW t \in Thread, CreateFails(t) PROVE IInv'
  <1>1. /\ pc[t] \in {"login", "create"} /\ Returns(t)
        /\ UNCHANGED <<policy, rows, mu, ensured, events, reverted>>
    BY DEF CreateFails
  <1>2. CASE UNCHANGED <<identities, failed>>
    BY Zenon, <1>1, <1>2, LeavesKeeps
  <1>3. CASE /\ pc[t] = "create" /\ NewIdentity(t)
             /\ failed' = failed \cup {Len(identities')}
    <2>1. /\ pc' \in [Thread -> Labels] /\ req' \in [Thread -> NewInput \cup {None}]
          /\ \A u \in Thread \ {t} : pc'[u] = pc[u] /\ req'[u] = req[u] /\ got'[u] = got[u]
          /\ DOMAIN got' = Thread /\ got'[t] = 0 /\ ThreadInv(t)'
      BY Zenon, <1>1, ReturnsFacts
    <2>2. got' = [u \in Thread |-> got'[u]]
      <3>1. got \in [Thread -> 0..Len(identities)]
        BY Types, Zenon
      <3> QED
        BY Zenon, <1>1, <3>1 DEF Returns
    <2>3. Places'
      BY <1>1, <2>1, Types, Zenon DEF Places
    <2>4. PolicyInv'
      BY ZenonT(40), <1>1 DEF IInv, PolicyInv
    <2> QED
      BY Zenon, <1>1, <1>3, <2>1, <2>2, <2>3, <2>4, AddKeeps
  <1> QED
    BY <1>2, <1>3 DEF CreateFails

\* The row of a request that is about to be inserted.
LEMMA RowFacts ==
    ASSUME IInv, NEW t \in Thread, pc[t] = "insert"
    PROVE  /\ Row(t) \in Principal /\ Row(t).id = got[t] /\ Of(got[t], Row(t))
           /\ Row(t).name # "" /\ (Row(t).type = "agent" <=> Row(t).owner # "")
           /\ got[t] \in Ids /\ got[t] # 0 /\ got[t] \notin failed \cup events
  <1>1. /\ req[t] \in NewInput /\ Validate(req[t]) /\ got[t] # 0 /\ got[t] \in Ids
        /\ got[t] \notin failed \cup events /\ Of(got[t], req[t])
    BY Zenon DEF IInv, ThreadsInv, ThreadInv, Holding
  <1>2. Row(t) \in Principal
    BY Zenon, <1>1 DEF Row, Principal, NewInput
  <1>3. /\ Row(t).id = got[t] /\ Row(t).type = req[t].type /\ Row(t).name = req[t].name
        /\ Row(t).owner = req[t].owner /\ Row(t).purpose = req[t].purpose
    BY Zenon DEF Row
  <1>4. Of(got[t], Row(t))
    BY Zenon, <1>1, <1>3 DEF Of, KindOf, Attrs
  <1>5. Row(t).name # "" /\ (Row(t).type = "agent" <=> Row(t).owner # "")
    BY <1>1, <1>3 DEF Validate
  <1> QED
    BY <1>1, <1>2, <1>3, <1>4, <1>5

\* A step of a request that has an identity: it may insert the row, and it either
\* keeps the identity or leaves it behind, as failed or as recorded.
LEMMA StoreKeeps ==
    ASSUME IInv, NEW t \in Thread, pc[t] \in Holding,
           UNCHANGED <<policy, identities, mu, ensured, reverted>>,
           pc' \in [Thread -> Labels], req' \in [Thread -> NewInput \cup {None}],
           got' = [u \in Thread |-> got'[u]],
           \A u \in Thread \ {t} : pc'[u] = pc[u] /\ req'[u] = req[u] /\ got'[u] = got[u],
           rows' = rows \/ (pc[t] = "insert" /\ InsertPrincipal(Row(t))),
           \/ got'[t] = got[t] /\ failed' = failed /\ events' = events
           \/ got'[t] = 0 /\ failed' = failed \cup {got[t]} /\ events' = events
           \/ /\ pc[t] = "answer" /\ got'[t] = 0 /\ failed' = failed
              /\ events' = events \cup {got[t]},
           ThreadInv(t)'
    PROVE  IInv'
  <1>1. got[t] # 0 /\ got[t] \in Ids /\ (pc[t] = "answer" => HasRow(got[t]))
    BY DEF IInv, ThreadsInv, ThreadInv, Holding
  <1>2. identities \in Seq(Identity) /\ Len(identities) \in Nat
    BY Types, Zenon
  <1>3. rows \subseteq rows'
    BY Zenon DEF InsertPrincipal
  <1>4. Evolves
    BY <1>2, <1>3 DEF Evolves, Grows
  <1>5. Ids' = Ids /\ Principal' = Principal
    BY Zenon DEF Ids, Principal
  <1>6. \A row \in rows' : row \in rows \/ (pc[t] = "insert" /\ row = Row(t) /\ row.id = got[t])
    <2>1. rows' = rows \/ (pc[t] = "insert" /\ rows' = rows \cup {Row(t)})
      BY Zenon DEF InsertPrincipal
    <2>2. pc[t] = "insert" => Row(t).id = got[t]
      BY RowFacts
    <2> QED
      BY <2>1, <2>2
  <1>7. Others({t})
    <2> SUFFICES ASSUME NEW u \in Thread \ {t}, got[u] # 0
                 PROVE  got[u] \notin failed' \cup events' /\ (HasRow(got[u])' => HasRow(got[u]))
      BY Zenon DEF Others
    <2>1. got[u] # got[t] /\ got[u] \notin failed \cup events
      BY Zenon DEF IInv, ThreadsInv, ThreadInv
    <2>2. got[u] \notin failed' \cup events'
      BY Zenon, <2>1
    <2>3. HasRow(got[u])' => HasRow(got[u])
      BY Zenon, <1>6, <2>1 DEF HasRow
    <2> QED
      BY Zenon, <2>2, <2>3
  <1>8. ThreadsInv'
    BY Zenon, <1>4, <1>7, ThreadsKept
  <1>9. PolicyInv'
    BY Zenon DEF IInv, PolicyInv
  <1>10. NamesUnique'
    BY ZenonT(40), <1>5 DEF IInv, NamesUnique
  <1>11. \A i \in Ids' : i \in failed' \/ i \in events' \/ \E u \in Thread : got'[u] = i
    <2>1. \A i \in Ids : i \in failed \/ i \in events \/ \E u \in Thread : got[u] = i
      BY Zenon DEF IInv, StoresInv
    <2> QED
      BY <1>5, <2>1
  <1>12. \A i \in events' \ events : HasRow(i)'
    BY Zenon, <1>1, <1>3 DEF HasRow
  <1>13. StoresInv'
    <2>0. events \subseteq events'
      BY Zenon
    <2>1. CASE rows' = rows
      BY Zenon, <1>4, <1>11, <1>12, <2>0, <2>1, StoresKeptNoRow
    <2>2. CASE pc[t] = "insert" /\ InsertPrincipal(Row(t))
      <3> DEFINE R == {Row(t)}
      <3>1. rows' = rows \cup R /\ \A other \in rows : other.id # Row(t).id
        BY <2>2 DEF InsertPrincipal
      <3>2. Of(got[t], Row(t)) /\ Row(t).id = got[t]
        BY <2>2, RowFacts
      <3>3. \A row \in R : Of(row.id, row)'
        <4> SUFFICES ASSUME NEW row, row = Row(t) PROVE Of(row.id, row)'
          BY Zenon
        <4>1. Of(row.id, row)
          BY Zenon, <3>2
        <4> QED
          BY Zenon, <4>1 DEF Of, KindOf, Attrs
      <3>4. \A r \in R, s \in rows' : r.id = s.id => r = s
        BY <3>1
      <3> HIDE DEF R
      <3> QED
        BY Zenon, <1>4, <1>11, <1>12, <2>0, <3>1, <3>3, <3>4, StoresKept
    <2> QED
      BY Zenon, <2>1, <2>2
  <1>14. TypeOK'
    <2>1. rows \subseteq Principal /\ events \subseteq Ids /\ failed \subseteq Ids
      BY Types, Zenon
    <2>2. rows' \subseteq Principal' /\ events' \subseteq Ids' /\ failed' \subseteq Ids'
      BY <1>1, <1>5, <1>6, <2>1, RowFacts
    <2>3. \A row \in rows : row.name # "" /\ (row.type = "agent" <=> row.owner # "")
      BY Types, Zenon
    <2>4. \A row \in rows' : row.name # "" /\ (row.type = "agent" <=> row.owner # "")
      <3> SUFFICES ASSUME NEW row \in rows'
                   PROVE  row.name # "" /\ (row.type = "agent" <=> row.owner # "")
        OBVIOUS
      <3>1. CASE row \in rows
        BY <2>3, <3>1
      <3>2. CASE pc[t] = "insert" /\ row = Row(t)
        BY <3>2, RowFacts
      <3> QED
        BY <1>6, <3>1, <3>2
    <2>5. got' \in [Thread -> 0..Len(identities')]
      <3>1. got \in [Thread -> 0..Len(identities)]
        BY Types, Zenon
      <3> QED
        BY <3>1, <1>2
    <2>6. /\ policy' \in BOOLEAN /\ reverted' \in BOOLEAN /\ identities' \in Seq(Identity)
          /\ mu' \in [Process -> Thread \cup {None}] /\ ensured' \in [Process -> BOOLEAN]
      BY Types, Zenon
    <2> QED
      BY <2>2, <2>4, <2>5, <2>6, Zenon DEF TypeOK
  <1> QED
    BY ZenonT(40), <1>8, <1>9, <1>10, <1>13, <1>14 DEF IInv

LEMMA ReturnsGot ==
    ASSUME IInv, NEW t \in Thread, Returns(t) PROVE got' = [u \in Thread |-> got'[u]]
  <1>1. got \in [Thread -> 0..Len(identities)]
    BY Types, Zenon
  <1> QED
    BY Zenon, <1>1 DEF Returns

LEMMA InsertKeeps ==
    ASSUME IInv, NEW t \in Thread, Insert(t) PROVE IInv'
  <1>1. /\ pc[t] = "insert" /\ InsertPrincipal(Row(t)) /\ Goto(t, "answer")
        /\ UNCHANGED <<policy, identities, mu, ensured, req, got, events, failed, reverted>>
    BY Zenon DEF Insert, kc, ghosts
  <1>2. /\ pc' \in [Thread -> Labels] /\ pc'[t] = "answer"
        /\ \A u \in Thread \ {t} : pc'[u] = pc[u]
    BY <1>1, GotoFacts DEF Labels
  <1>3. /\ req' \in [Thread -> NewInput \cup {None}]
        /\ got \in [Thread -> 0..Len(identities)]
    BY <1>1, Types, Zenon
  <1>4. got' = [u \in Thread |-> got'[u]]
    BY ZenonT(40), <1>1, <1>3
  <1>5. ThreadInv(t)'
    <2>1. ThreadInv(t)
      BY DEF IInv, ThreadsInv
    <2>2. HasRow(got[t])'
      BY ZenonT(40), <1>1, RowFacts DEF HasRow, InsertPrincipal
    <2>3. req'[t] \in NewInput /\ Validate(req[t])' /\ got'[t] # 0 /\ got'[t] \notin failed' \cup events'
      BY <1>1, <2>1 DEF ThreadInv, Holding, Validate
    <2>4. got'[t] \in Ids' /\ Of(got[t], req[t])'
      BY Zenon, <1>1, <2>1 DEF ThreadInv, Holding, Ids, Of, KindOf, Attrs
    <2> QED
      BY <1>2, <2>2, <2>3, <2>4 DEF ThreadInv, Holding
  <1> QED
    BY Zenon, <1>1, <1>2, <1>3, <1>4, <1>5, StoreKeeps DEF Holding

LEMMA InsertFailsKeeps ==
    ASSUME IInv, NEW t \in Thread, InsertFails(t) PROVE IInv'
  <1>1. /\ pc[t] = "insert" /\ Returns(t) /\ failed' = failed \cup {got[t]}
        /\ rows' = rows \/ InsertPrincipal(Row(t))
        /\ UNCHANGED <<policy, identities, mu, ensured, events, reverted>>
    BY DEF InsertFails, kc
  <1>2. got' = [u \in Thread |-> got'[u]]
    BY Zenon, <1>1, ReturnsGot
  <1> QED
    BY ZenonT(40), <1>1, <1>2, ReturnsFacts, StoreKeeps DEF Holding

LEMMA AnswerKeeps ==
    ASSUME IInv, NEW t \in Thread, Answer(t) PROVE IInv'
  <1>1. /\ pc[t] = "answer" /\ Returns(t) /\ events' = events \cup {got[t]}
        /\ UNCHANGED <<policy, identities, rows, mu, ensured, failed, reverted>>
    BY DEF Answer, kc
  <1>2. got' = [u \in Thread |-> got'[u]]
    BY <1>1, ReturnsGot
  <1> QED
    BY Zenon, <1>1, <1>2, ReturnsFacts, StoreKeeps DEF Holding

LEMMA CrashKeeps ==
    ASSUME IInv, NEW p \in Process, Crash(p) PROVE IInv'
  <1> DEFINE dead == {t \in Thread : ProcOf[t] = p}
             lost == {got[t] : t \in {t \in dead : got[t] # 0}}
  <1>1. /\ failed' = failed \cup lost
        /\ pc' = [t \in Thread |-> IF t \in dead THEN "idle" ELSE pc[t]]
        /\ req' = [t \in Thread |-> IF t \in dead THEN None ELSE req[t]]
        /\ got' = [t \in Thread |-> IF t \in dead THEN 0 ELSE got[t]]
        /\ mu' = [mu EXCEPT ![p] = None] /\ ensured' = [ensured EXCEPT ![p] = FALSE]
        /\ UNCHANGED <<policy, identities, rows, events, reverted>>
    BY ZenonT(40) DEF Crash, kc
  <1>2. /\ dead \in SUBSET Thread
        /\ \A i : i \in lost <=> \E t \in dead : got[t] # 0 /\ got[t] = i
    OBVIOUS
  <1> HIDE DEF dead, lost
  <1>3. /\ \A u \in dead : pc'[u] = "idle" /\ req'[u] = None /\ got'[u] = 0
        /\ \A u \in Thread \ dead : pc'[u] = pc[u] /\ req'[u] = req[u] /\ got'[u] = got[u]
    BY Zenon, <1>1, <1>2
  <1>4. identities \in Seq(Identity) /\ Len(identities) \in Nat
    BY Types, Zenon
  <1>5. Evolves
    <2>1. /\ identities' = identities /\ rows' = rows /\ failed \subseteq failed'
          /\ policy' = policy /\ reverted' = reverted
      BY Zenon, <1>1
    <2>2. Grows
      BY <1>4, <2>1 DEF Grows
    <2> QED
      BY <2>1, <2>2 DEF Evolves
  <1>6. /\ \A u \in Thread : got[u] # 0 => got[u] \in Ids /\ got[u] \notin failed \cup events
        /\ \A t, u \in Thread : got[t] # 0 /\ got[t] = got[u] => t = u
    BY Zenon DEF IInv, ThreadsInv, ThreadInv
  <1>8. Others(dead)
    <2> SUFFICES ASSUME NEW u \in Thread \ dead, got[u] # 0
                 PROVE  got[u] \notin failed' \cup events' /\ (HasRow(got[u])' => HasRow(got[u]))
      BY Zenon, <1>3 DEF Others
    <2>1. got[u] \notin failed \cup events
      BY <1>6
    <2>2. got[u] \notin lost
      BY Zenon, <1>2, <1>6
    <2>3. got[u] \notin failed' \cup events'
      BY Zenon, <1>1, <2>1, <2>2
    <2>4. HasRow(got[u])' => HasRow(got[u])
      BY Zenon, <1>1, <1>3 DEF HasRow
    <2> QED
      BY Zenon, <2>3, <2>4
  <1>9. \A u \in dead : ThreadInv(u)'
    BY Zenon, <1>3 DEF ThreadInv, Holding
  <1>10. ThreadsInv'
    BY Zenon, <1>2, <1>3, <1>5, <1>8, <1>9, ThreadsKept
  <1>11. Ids' = Ids /\ Principal' = Principal
    BY Zenon, <1>1 DEF Ids, Principal
  <1>12. NamesUnique'
    BY ZenonT(40), <1>1, <1>11 DEF IInv, NamesUnique
  <1>13. StoresInv'
    <2>1. \A i \in Ids : i \in failed \/ i \in events \/ \E u \in Thread : got[u] = i
      BY DEF IInv, StoresInv
    <2>2. 0 \notin Ids
      BY DEF Ids
    <2>3. \A i \in Ids' : i \in failed' \/ i \in events' \/ \E u \in Thread : got'[u] = i
      <3> SUFFICES ASSUME NEW i \in Ids, i \notin failed', i \notin events'
                   PROVE  \E u \in Thread : got'[u] = i
        BY Zenon, <1>11
      <3>1. PICK u \in Thread : got[u] = i
        BY ZenonT(40), <1>1, <2>1
      <3>2. i \notin lost /\ got[u] # 0
        BY <1>1, <2>2, <3>1
      <3>3. u \notin dead
        BY <1>2, <3>1, <3>2
      <3> QED
        BY <1>3, <3>1, <3>3
    <2> QED
      BY Zenon, <1>1, <1>5, <2>3, StoresKeptNoRow
  <1>14. /\ mu \in [Process -> Thread \cup {None}] /\ ensured \in [Process -> BOOLEAN]
         /\ pc \in [Thread -> Labels] /\ req \in [Thread -> NewInput \cup {None}]
         /\ got \in [Thread -> 0..Len(identities)] /\ failed \subseteq Ids
    BY Types, Zenon
  <1>15. PolicyInv'
    <2>1. \A q \in Process : ensured'[q] => ensured[q]
      BY <1>1, <1>14
    <2> QED
      BY Zenon, <1>1, <2>1 DEF IInv, PolicyInv
  <1>16. TypeOK'
    <2>1. mu' \in [Process -> Thread \cup {None}]
      BY <1>1, <1>14
    <2>2. ensured' \in [Process -> BOOLEAN]
      BY <1>1, <1>14, Zenon
    <2>3. pc' \in [Thread -> Labels]
      BY Zenon, <1>1, <1>14 DEF Labels
    <2>4. req' \in [Thread -> NewInput \cup {None}]
      BY Zenon, <1>1, <1>14
    <2>5. got' \in [Thread -> 0..Len(identities')]
      BY <1>1, <1>4, <1>14
    <2>6. failed' \subseteq Ids'
      BY <1>1, <1>2, <1>6, <1>11, <1>14
    <2>7. /\ policy' \in BOOLEAN /\ reverted' \in BOOLEAN /\ identities' \in Seq(Identity)
          /\ rows' \subseteq Principal' /\ events' \subseteq Ids'
          /\ \A row \in rows' : row.name # "" /\ (row.type = "agent" <=> row.owner # "")
      BY <1>1, <1>11, Types, Zenon
    <2> QED
      BY <2>1, <2>2, <2>3, <2>4, <2>5, <2>6, <2>7, Zenon DEF TypeOK
  <1> QED
    BY <1>10, <1>12, <1>13, <1>15, <1>16 DEF IInv

LEMMA StutterKeeps ==
    ASSUME IInv, UNCHANGED vars PROVE IInv'
  <1>1. /\ TypeOK' = TypeOK /\ PolicyInv' = PolicyInv /\ NamesUnique' = NamesUnique
    BY DEF vars, TypeOK, PolicyInv, NamesUnique, Ids, Principal
  <1>2. ThreadsInv'
    <2>1. ASSUME NEW t \in Thread PROVE ThreadInv(t)'
      <3>1. ThreadInv(t)
        BY DEF IInv, ThreadsInv
      <3> QED
        BY Zenon, <3>1 DEF vars, ThreadInv, Ids, HasRow, Of, KindOf, Attrs, Validate
    <2>2. got' = got
      BY ZenonT(40) DEF vars
    <2> QED
      BY <2>1, <2>2 DEF IInv, ThreadsInv
  <1>3. StoresInv'
    BY DEF vars, IInv, StoresInv, Ids, HasRow, Of, KindOf, Attrs
  <1> QED
    BY Zenon, <1>1, <1>2, <1>3 DEF IInv

LEMMA NextKeeps == IInv /\ [Next]_vars => IInv'
  <1> SUFFICES ASSUME IInv, [Next]_vars PROVE IInv'
    BY Zenon
  <1>1. ASSUME NEW t \in Thread, Create(t) \/ Runs(t) PROVE IInv'
    BY Zenon, <1>1, CreateKeeps, loginKeeps, LockMuKeeps, GetProfileKeeps, PutProfileKeeps,
       ProfileFailsKeeps, CreateIdentityKeeps, CreateFailsKeeps, InsertKeeps, InsertFailsKeeps,
       AnswerKeeps DEF Runs
  <1>2. ASSUME NEW p \in Process, Crash(p) PROVE IInv'
    BY <1>2, CrashKeeps
  <1>3. CASE Revert
    BY <1>3, RevertKeeps
  <1>4. CASE UNCHANGED vars
    BY <1>4, StutterKeeps
  <1> QED
    BY <1>1, <1>2, <1>3, <1>4 DEF Next

LEMMA Inductive == Spec => []IInv
  BY InitHolds, NextKeeps, PTL DEF Spec

(***************************************************************************)
(* The variables of Principals keep their types, and in the table agents   *)
(* and only agents have an owner, whatever fails or dies in between        *)
(* (Validate, 0001_principal.sql).                                         *)
(***************************************************************************)
THEOREM PrincipalsTypeCorrect == Spec => []TypeOK
  <1>1. IInv => TypeOK
    BY DEF IInv
  <1> QED
    BY <1>1, Inductive, PTL

(***************************************************************************)
(* Rows and identities agree for any number of processes, threads and      *)
(* requests: Keycloak gives back the type, the owner and the purpose that  *)
(* the row holds, unless an administrator has disabled the policy and the  *)
(* principal is a human. The flag unmanagedAttrsEnsured is never ahead of  *)
(* the policy (ensureUnmanagedUserAttributes).                             *)
(***************************************************************************)
THEOREM RowMatchesIdentityHolds == Spec => []RowMatchesIdentity
  <1>1. IInv => RowMatchesIdentity
    BY Zenon DEF IInv, StoresInv, Of, RowMatchesIdentity, GetPrincipal
  <1> QED
    BY <1>1, Inductive, PTL

LEMMA AccountedHere == IInv => Accounted
  <1> SUFFICES ASSUME IInv PROVE Accounted
    OBVIOUS
  <1>1. \A i : Get(i) = {} <=> ~HasRow(i)
    BY DEF Get, HasRow
  <1>2. ASSUME NEW i \in Ids \ failed, i \notin events
        PROVE  \E t \in Thread : got[t] = i /\ pc[t] = IF Get(i) = {} THEN "insert" ELSE "answer"
    <2>1. PICK t \in Thread : got[t] = i
      BY <1>2 DEF IInv, StoresInv
    <2>2. i # 0
      BY DEF Ids
    <2>3. ThreadInv(t)
      BY ZenonT(40) DEF IInv, ThreadsInv
    <2>4. pc[t] \in Holding /\ (pc[t] = "insert" <=> ~HasRow(i))
      BY <2>1, <2>2, <2>3 DEF ThreadInv, Holding
    <2> QED
      BY Zenon, <1>1, <2>1, <2>4 DEF Holding
  <1>3. ASSUME NEW i \in events PROVE \E row \in rows : Get(i) = {row}
    <2>1. PICK row \in rows : row.id = i
      BY Zenon DEF IInv, StoresInv, HasRow
    <2>2. Get(i) = {row}
      BY <2>1 DEF IInv, StoresInv, Get
    <2> QED
      BY Zenon, <2>2
  <1> QED
    BY <1>2, <1>3 DEF Accounted

(***************************************************************************)
(* Every identity in Keycloak has a recorded principal, or a request that  *)
(* holds it, or a request that failed or died with it; what is recorded    *)
(* has exactly one row (Service.Create, Handler.CreatePrincipal).          *)
(***************************************************************************)
THEOREM AccountedHolds == Spec => []Accounted
  BY AccountedHere, Inductive, PTL

\* What a step may do to the identities, the failures and the rows.
LEMMA StepGrows ==
    ASSUME IInv, [Next]_vars
    PROVE  /\ \A i \in Ids : i \in Ids' /\ identities'[i] = identities[i]
           /\ failed \subseteq failed'
           /\ \A row \in rows' : row \in rows \/ \E t \in Thread : pc[t] = "insert" /\ row = Row(t)
  <1>1. ASSUME UNCHANGED <<identities, rows, failed>>
        PROVE  /\ \A i \in Ids : i \in Ids' /\ identities'[i] = identities[i]
               /\ failed \subseteq failed'
               /\ \A row \in rows' : row \in rows \/ \E t \in Thread : pc[t] = "insert" /\ row = Row(t)
    BY Zenon, <1>1 DEF Ids
  <1>2. ASSUME NEW t \in Thread, pc[t] = "create", NewIdentity(t), rows' = rows, failed \subseteq failed'
        PROVE  /\ \A i \in Ids : i \in Ids' /\ identities'[i] = identities[i]
               /\ failed \subseteq failed'
               /\ \A row \in rows' : row \in rows \/ \E u \in Thread : pc[u] = "insert" /\ row = Row(u)
    BY <1>2, NewIdentityFacts DEF Grows
  <1>3. ASSUME NEW t \in Thread, pc[t] = "insert", rows' = rows \/ rows' = rows \cup {Row(t)},
               identities' = identities, failed \subseteq failed'
        PROVE  /\ \A i \in Ids : i \in Ids' /\ identities'[i] = identities[i]
               /\ failed \subseteq failed'
               /\ \A row \in rows' : row \in rows \/ \E u \in Thread : pc[u] = "insert" /\ row = Row(u)
    BY <1>3 DEF Ids
  <1>4. ASSUME identities' = identities, rows' = rows, failed \subseteq failed'
        PROVE  /\ \A i \in Ids : i \in Ids' /\ identities'[i] = identities[i]
               /\ failed \subseteq failed'
               /\ \A row \in rows' : row \in rows \/ \E t \in Thread : pc[t] = "insert" /\ row = Row(t)
    BY <1>4 DEF Ids
  <1>5. \/ UNCHANGED <<identities, rows, failed>>
        \/ \E t \in Thread : CreateIdentity(t) \/ CreateFails(t) \/ Insert(t) \/ InsertFails(t)
        \/ \E p \in Process : Crash(p)
    BY Zenon DEF Next, vars, kc, ghosts, Runs, Create, login, LockMu, GetProfile, PutProfile, ProfileFails,
           Answer, Revert
  <1>6. ASSUME NEW t \in Thread, CreateIdentity(t) \/ CreateFails(t)
        PROVE  \/ UNCHANGED <<identities, rows, failed>>
               \/ pc[t] = "create" /\ NewIdentity(t) /\ rows' = rows /\ failed \subseteq failed'
    BY Zenon, <1>6 DEF CreateIdentity, CreateFails, ghosts
  <1>7. ASSUME NEW t \in Thread, Insert(t) \/ InsertFails(t)
        PROVE  /\ pc[t] = "insert" /\ (rows' = rows \/ rows' = rows \cup {Row(t)})
               /\ identities' = identities /\ failed \subseteq failed'
    BY Zenon, <1>7 DEF Insert, InsertFails, InsertPrincipal, ghosts, kc
  <1>8. ASSUME NEW p \in Process, Crash(p)
        PROVE  identities' = identities /\ rows' = rows /\ failed \subseteq failed'
    BY Zenon, <1>8 DEF Crash, kc
  <1> QED
    BY Zenon, <1>1, <1>2, <1>3, <1>4, <1>5, <1>6, <1>7, <1>8

LEMMA StrandedStep ==
    ASSUME IInv, IInv', [Next]_vars, NEW i \in Stranded
    PROVE  /\ i \in Stranded'
           /\ \A row \in rows' : ~(KindOf(row) = identities[i].kind /\ row.name = identities[i].name)
  <1>1. i \in failed /\ i \in Ids /\ \A row \in rows : row.id # i
    <2>1. failed \subseteq Ids
      BY Types, Zenon
    <2> QED
      BY <2>1 DEF Stranded, Get
  <1>2. i \in failed' /\ i \in Ids' /\ identities'[i] = identities[i]
    BY ZenonT(40), <1>1, StepGrows
  <1>3. \A t \in Thread : pc[t] = "insert" => Row(t).id # i
    BY <1>1, RowFacts
  <1>4. \A row \in rows' : row.id # i
    BY ZenonT(40), <1>1, <1>3, StepGrows
  <1>5. i \in Stranded'
    BY <1>2, <1>4 DEF Stranded, Get
  <1>6. ASSUME NEW row \in rows', KindOf(row) = identities[i].kind, row.name = identities[i].name
        PROVE  FALSE
    <2>1. rows' \subseteq Principal'
      BY DEF IInv, TypeOK
    <2>2. row.id \in Ids'
      BY Zenon, <2>1 DEF Principal
    <2>3. identities'[row.id].kind = KindOf(row) /\ identities'[row.id].name = row.name
      BY ZenonT(40) DEF IInv, StoresInv, Of, KindOf
    <2>4. row.id = i
      BY <1>2, <1>6, <2>2, <2>3 DEF IInv, NamesUnique
    <2> QED
      BY ZenonT(40), <1>4, <2>4
  <1> QED
    BY <1>5, <1>6

(***************************************************************************)
(* An identity left without a row keeps its name from every later request, *)
(* and no step gives it a row (Service.Create has no compensation).        *)
(***************************************************************************)
THEOREM StrandedStaysHolds == Spec => StrandedStays
  <1> DEFINE Stay == \A i \in Stranded :
                        /\ i \in Stranded'
                        /\ \A row \in rows' :
                              ~(KindOf(row) = identities[i].kind /\ row.name = identities[i].name)
  <1>1. IInv /\ IInv' /\ [Next]_vars => [Stay]_vars
    BY StrandedStep
  <1>2. [][Stay]_vars <=> StrandedStays
    BY DEF StrandedStays
  <1> QED
    BY <1>1, <1>2, Inductive, PTL DEF Spec
=============================================================================
