----------------------------- MODULE JwksCache -----------------------------
(***************************************************************************)
(* The cache of Keycloak's public keys in the token verifier. A request    *)
(* whose key is not cached, or cached for too long, refetches the key set, *)
(* unless another request did so a short while ago. The cache, the         *)
(* throttle and the fetch are three critical sections with gaps between    *)
(* them. (internal/authn/verifier.go, keyFor and refresh.)                 *)
(*                                                                         *)
(* Keycloak's key sets are numbered; set v has the keys v and v - 1: a key *)
(* stays published for one rotation. Fields marked ghost are read by the   *)
(* properties only.                                                        *)
(***************************************************************************)
EXTENDS Integers

CONSTANTS
    Request,        \* requests served at the same time
    CacheTTL,       \* cacheTTL
    MinRefresh,     \* minRefreshInterval
    Latency,        \* the HTTP client's timeout and a pause of the goroutine
    MaxTime,        \* bound on now, for TLC
    MaxSet          \* bound on Keycloak's rotations, for TLC

ASSUME VerifierConstants ==
    /\ CacheTTL \in Nat /\ MinRefresh \in Nat /\ Latency \in Nat
    /\ MaxTime \in Nat /\ MaxSet \in Nat \ {0}
    /\ Latency < MinRefresh

VARIABLES
    now,
    idp,            \* the key set Keycloak publishes
    cache,          \* keys and fetched: which set, and since when
    lastAttempt,    \* lastRefreshAttempt
    newest,         \* ghost: the newest set that was ever cached
    lastStart,      \* ghost: when a fetch last started
    stage, loc

verifierVars == <<now, idp, cache, lastAttempt, newest, lastStart, stage, loc>>

LongAgo == -CacheTTL - MinRefresh - 1   \* the zero time.Time
Kid == 0..MaxSet
NoSet == -1                             \* the empty map of NewVerifier
Keys(v) == IF v = NoSet THEN {} ELSE {v, v - 1}

\* warm is ghost: the key was cached when the request began. blank is ghost: no
\* key at all was cached when the request looked after its fetch.
NoLoc == [kid |-> 0, had |-> FALSE, sent |-> 0, got |-> NoSet, warm |-> FALSE,
          result |-> "none", blank |-> FALSE]

VerifierTypeOK ==
    /\ now \in 0..MaxTime /\ idp \in 1..MaxSet
    /\ cache \in [set : {NoSet} \cup 1..MaxSet, at : LongAgo..MaxTime]
    /\ lastAttempt \in LongAgo..MaxTime /\ lastStart \in LongAgo..MaxTime
    /\ newest \in {NoSet} \cup 1..MaxSet
    /\ stage \in [Request -> {"idle", "throttle", "fetch", "install", "lookup", "answered"}]
    /\ loc \in [Request -> [kid : Kid, had : BOOLEAN, sent : 0..MaxTime,
                            got : {NoSet} \cup 1..MaxSet, warm : BOOLEAN,
                            result : {"none", "key", "unknown", "error"}, blank : BOOLEAN]]

VerifierInit ==
    /\ now = 0 /\ idp = 1
    /\ cache = [set |-> NoSet, at |-> LongAgo]
    /\ lastAttempt = LongAgo /\ lastStart = LongAgo /\ newest = NoSet
    /\ stage = [t \in Request |-> "idle"] /\ loc = [t \in Request |-> NoLoc]

Moves(t, label) == stage' = [stage EXCEPT ![t] = label]

Result(t, result) ==
    /\ Moves(t, "answered")
    /\ loc' = [loc EXCEPT ![t].result = result]
----------------------------------------------------------------------------
Fresh(kid) == kid \in Keys(cache.set) /\ now - cache.at <= CacheTTL

\* Verify calls keyFor with the token's kid.
KeyFor(t, kid) ==
    LET had == kid \in Keys(cache.set) IN
    /\ stage[t] = "idle"
    /\ loc' = [loc EXCEPT ![t] = [NoLoc EXCEPT !.kid = kid, !.had = had, !.warm = had,
                                     !.result = IF Fresh(kid) THEN "key" ELSE "none"]]
    /\ Moves(t, IF Fresh(kid) THEN "answered" ELSE "throttle")
    /\ UNCHANGED <<now, idp, cache, lastAttempt, newest, lastStart>>

Throttled == now - lastAttempt < MinRefresh

StartFetch(t) ==
    /\ Moves(t, "fetch")
    /\ loc' = [loc EXCEPT ![t].sent = now]
    /\ lastStart' = now

\* Mutant: a stale key is no better than none.
ThrottleStrict(t) ==
    /\ stage[t] = "throttle"
    /\ \/ /\ Throttled
          /\ Result(t, "unknown")
          /\ UNCHANGED <<lastAttempt, lastStart>>
       \/ /\ ~Throttled
          /\ lastAttempt' = now
          /\ StartFetch(t)
    /\ UNCHANGED <<now, idp, cache, newest>>

\* A throttled request uses the key it saw, however old, or gives up. The attempt
\* is noted before it is made, so that a failing one counts too.
Throttle(t) ==
    /\ stage[t] = "throttle"
    /\ \/ /\ Throttled
          /\ Result(t, IF loc[t].had THEN "key" ELSE "unknown")
          /\ UNCHANGED <<lastAttempt, lastStart>>
       \/ /\ ~Throttled
          /\ lastAttempt' = now
          /\ StartFetch(t)
    /\ UNCHANGED <<now, idp, cache, newest>>

\* Keycloak answers with the key set it has at that moment. The status is not
\* looked at: an error whose body is JSON decodes too, to a set without keys.
Fetch(t) ==
    /\ stage[t] = "fetch"
    /\ \E set \in {idp, NoSet} : loc' = [loc EXCEPT ![t].got = set]
    /\ Moves(t, "install")
    /\ UNCHANGED <<now, idp, cache, lastAttempt, newest, lastStart>>

\* Mutant: a failed attempt is forgotten.
FetchFailsForgets(t) ==
    /\ stage[t] = "fetch"
    /\ Result(t, "error")
    /\ lastAttempt' = LongAgo
    /\ UNCHANGED <<now, idp, cache, newest, lastStart>>

\* No answer, a timeout, or one that does not decode.
FetchFails(t) ==
    /\ stage[t] = "fetch"
    /\ Result(t, "error")
    /\ UNCHANGED <<now, idp, cache, lastAttempt, newest, lastStart>>

Install(t) ==
    /\ stage[t] = "install"
    /\ cache' = [set |-> loc[t].got, at |-> now]
    /\ newest' = IF loc[t].got > newest THEN loc[t].got ELSE newest
    /\ Moves(t, "lookup")
    /\ UNCHANGED <<now, idp, lastAttempt, lastStart, loc>>

Lookup(t) ==
    /\ stage[t] = "lookup"
    /\ Moves(t, "answered")
    /\ loc' = [loc EXCEPT ![t].result = IF loc[t].kid \in Keys(cache.set) THEN "key" ELSE "unknown",
                          ![t].blank = cache.set = NoSet]
    /\ UNCHANGED <<now, idp, cache, lastAttempt, newest, lastStart>>

\* Verify goes on to the signature and the claims, which touch no shared state.
Return(t) ==
    /\ stage[t] = "answered"
    /\ Moves(t, "idle")
    /\ loc' = [loc EXCEPT ![t] = NoLoc]
    /\ UNCHANGED <<now, idp, cache, lastAttempt, newest, lastStart>>

Rotate ==
    /\ idp < MaxSet
    /\ idp' = idp + 1
    /\ UNCHANGED <<now, cache, lastAttempt, newest, lastStart, stage, loc>>

\* Mutant: the HTTP client has no timeout.
TickNoTimeout ==
    /\ now < MaxTime
    /\ now' = now + 1
    /\ UNCHANGED <<idp, cache, lastAttempt, newest, lastStart, stage, loc>>

\* The client's timeout: no fetch takes longer than Latency from its start to
\* its installation.
Tick ==
    /\ now < MaxTime
    /\ \A t \in Request : stage[t] \in {"fetch", "install"} => now - loc[t].sent < Latency
    /\ now' = now + 1
    /\ UNCHANGED <<idp, cache, lastAttempt, newest, lastStart, stage, loc>>

VerifierNext ==
    \/ Rotate \/ Tick
    \/ \E t \in Request :
        \/ \E kid \in Kid : KeyFor(t, kid)
        \/ Throttle(t) \/ Fetch(t) \/ FetchFails(t) \/ Install(t) \/ Lookup(t) \/ Return(t)

VerifierSpec == VerifierInit /\ [][VerifierNext]_verifierVars
----------------------------------------------------------------------------
(***************************************************************************)
(* The throttle of keyFor holds against any interleaving: a request that   *)
(* goes on to fetch does so at least MinRefresh after the last one did,    *)
(* whatever became of that fetch (lastRefreshAttempt: "a failing fetch     *)
(* also throttles"), and finds no other fetch still under way.             *)
(***************************************************************************)
FetchesSpaced ==
    [][\A t \in Request : stage[t] # "fetch" /\ stage'[t] = "fetch" =>
          /\ now - lastStart >= MinRefresh
          /\ \A u \in Request : stage[u] \notin {"fetch", "install"}]_verifierVars

(***************************************************************************)
(* The cached keys never go back to an older set, although refresh         *)
(* installs what it fetched in a later critical section: they are the      *)
(* newest ever cached, or none after an answer that held none.             *)
(***************************************************************************)
NeverOlder == cache.set \in {newest, NoSet}

(***************************************************************************)
(* A key that was cached when the request began, and that Keycloak still   *)
(* publishes, is never reported unknown: the throttle and the refreshes of *)
(* other requests cost no valid token its verification. The one exception  *)
(* is an answer without keys, which refresh installs like any other.       *)
(***************************************************************************)
WarmAccepted ==
    \A t \in Request :
        loc[t].warm /\ loc[t].kid \in Keys(idp) => loc[t].result # "unknown" \/ loc[t].blank
============================================================================
