------------------------------ MODULE ApiKeys ------------------------------
(***************************************************************************)
(* API keys of one organisation: issuing under a cap, revoking, and        *)
(* authenticating with one. Every request is authenticated by the          *)
(* interceptor, passes Gate B and the read-only gate, and is then handled; *)
(* each database statement is a step. The last_used update runs in a       *)
(* goroutine of its own after the request went on. (internal/apikey,       *)
(* internal/authn/interceptor.go.) Fields marked ghost are read by the     *)
(* properties only.                                                        *)
(***************************************************************************)
EXTENDS Integers, FiniteSets

CONSTANTS
    Thread,         \* requests served at the same time
    Principal,
    Member,         \* the members of the organisation
    Admin,          \* those who may do org.manage in it
    Root,           \* the caller with the root token
    KeyId, None,
    Op, Kind, Ttl,  \* what clients use: operations, kinds of credential, lifetimes
    KeyCap,         \* keyCap
    MaxTTL,         \* maxTTL
    Half,           \* a time.Duration is in -Half..Half - 1 and wraps around
    AllowNever,     \* allowNeverExpire
    Minute,         \* how often last_used is written
    MaxTime         \* bound on now, for TLC

ASSUME ConstantsOK ==
    /\ KeyCap \in Nat \ {0} /\ MaxTTL \in Nat \ {0} /\ AllowNever \in BOOLEAN
    /\ Minute \in Nat /\ MaxTime \in Nat /\ Ttl \subseteq Int
    /\ Half \in Nat /\ MaxTTL < Half /\ IsFiniteSet(Thread)
    /\ Member \subseteq Principal /\ Admin \subseteq Principal
    /\ Root \notin Principal /\ None \notin Principal \cup KeyId

VARIABLES
    now,
    keys,           \* the api_keys table
    touches,        \* keys whose last_used some goroutine is about to write
    used, lost,     \* ghost: last success of each key; keys whose write failed
    pc, loc

vars == <<now, keys, touches, used, lost, pc, loc>>

Never == -Half - 1
Expiry == -Half..(MaxTime + MaxTTL) \cup (IF AllowNever THEN {Never} ELSE {})
Key == [principal : Principal, ro : BOOLEAN, revoked : BOOLEAN, exp : Expiry,
        lastUsed : {Never} \cup 0..MaxTime]
NoKey == [principal |-> None, ro |-> FALSE, revoked |-> FALSE, exp |-> 0, lastUsed |-> Never]

\* A credential: the root token, a Keycloak token, or an API key with the right
\* or a wrong secret.
Cred == [kind : {"root", "oidc", "apikey"}, who : Principal \cup {Root, None},
         key : KeyId \cup {None}, secret : BOOLEAN]
NoCred == [kind |-> "root", who |-> None, key |-> None, secret |-> FALSE]

Loc == [op : {"none", "Issue", "Revoke", "List"}, cred : Cred,
        caller : Principal \cup {Root, None}, p : Principal \cup {None},
        key : KeyId \cup {None}, ttl : Int, ro : BOOLEAN, exp : Expiry, dead : BOOLEAN]
NoLoc == [op |-> "none", cred |-> NoCred, caller |-> None, p |-> None, key |-> None,
          ttl |-> 0, ro |-> FALSE, exp |-> 0, dead |-> FALSE]

TypeOK ==
    /\ now \in 0..MaxTime
    /\ keys \in [KeyId -> Key \cup {NoKey}]
    /\ touches \subseteq KeyId /\ lost \subseteq KeyId
    /\ used \in [KeyId -> {Never} \cup 0..MaxTime]
    /\ pc \in [Thread -> {"idle", "authn", "handle", "count", "insert", "revoke"}]
    /\ loc \in [Thread -> Loc]

Init ==
    /\ now = 0
    /\ keys = [k \in KeyId |-> NoKey]
    /\ touches = {} /\ lost = {} /\ used = [k \in KeyId |-> Never]
    /\ pc = [t \in Thread |-> "idle"] /\ loc = [t \in Thread |-> NoLoc]

Stored == {k \in KeyId : keys[k] # NoKey}
Expired(k) == keys[k].exp # Never /\ now > keys[k].exp

\* CountActive counts expires_at > now(), Verify refuses now > expires_at.
Active(p) == {k \in Stored : /\ keys[k].principal = p /\ ~keys[k].revoked
                             /\ keys[k].exp = Never \/ keys[k].exp > now}

Goto(t, label) == pc' = [pc EXCEPT ![t] = label]

Done(t) ==
    /\ Goto(t, "idle")
    /\ loc' = [loc EXCEPT ![t] = NoLoc]
----------------------------------------------------------------------------
Creds == {[kind |-> "root", who |-> Root, key |-> None, secret |-> TRUE]}
           \cup [kind : {"oidc"}, who : Principal, key : {None}, secret : {TRUE}]
           \cup [kind : {"apikey"}, who : {None}, key : Stored, secret : BOOLEAN]

\* The request r, and whether its key is of no use any more as it arrives.
Asks(t, r) ==
    LET dead == r.cred.kind = "apikey" /\ (keys[r.cred.key].revoked \/ Expired(r.cred.key)) IN
    /\ r.op \in Op
    /\ loc' = [loc EXCEPT ![t] = [r EXCEPT !.dead = dead]]

AsksWith(t, cred) ==
    \/ Asks(t, [NoLoc EXCEPT !.op = "List", !.cred = cred])
    \/ \E p \in Principal, ttl \in Ttl, ro \in BOOLEAN :
          Asks(t, [NoLoc EXCEPT !.op = "Issue", !.cred = cred, !.p = p, !.ttl = ttl, !.ro = ro])
    \/ \E k \in Stored : Asks(t, [NoLoc EXCEPT !.op = "Revoke", !.cred = cred, !.key = k])

Arrive(t) ==
    /\ pc[t] = "idle"
    /\ \E cred \in Creds : cred.kind \in Kind /\ AsksWith(t, cred)
    /\ Goto(t, "authn")
    /\ UNCHANGED <<now, keys, touches, used, lost>>

\* Mutant: an expired key is refused, a revoked one is not.
VerifiedUnrevoked(cred) ==
    cred.secret /\ ~Expired(cred.key)

Verified(cred) ==
    /\ cred.secret /\ ~keys[cred.key].revoked /\ ~Expired(cred.key)

\* The read-only gate: only List, of these, is on the list of safe procedures.
MayCall(ro, op) == ro => op = "List"

\* Verify reads the row once; a success starts the goroutine that writes
\* last_used, even if Gate B or the read-only gate then refuses the call.
AuthenticateKey(t) ==
    LET cred == loc[t].cred  k == cred.key IN
    /\ cred.kind = "apikey"
    /\ IF Verified(cred)
       THEN /\ touches' = touches \cup {k}
            /\ used' = [used EXCEPT ![k] = now]
            /\ \/ /\ MayCall(keys[k].ro, loc[t].op)
                  /\ Goto(t, "handle")
                  /\ loc' = [loc EXCEPT ![t].caller = keys[k].principal]
               \/ Done(t)
       ELSE Done(t) /\ UNCHANGED <<touches, used>>

\* The root token passes Gate B; a Keycloak token may be refused by it.
AuthenticateOther(t) ==
    /\ loc[t].cred.kind # "apikey"
    /\ \/ /\ Goto(t, "handle")
          /\ loc' = [loc EXCEPT ![t].caller = loc[t].cred.who]
       \/ loc[t].cred.kind = "oidc" /\ Done(t)
    /\ UNCHANGED <<touches, used>>

Authenticate(t) ==
    /\ pc[t] = "authn"
    /\ AuthenticateKey(t) \/ AuthenticateOther(t)
    /\ UNCHANGED <<now, keys, lost>>

\* Mutant: a key never used before is skipped.
TouchNotNull(k) ==
    /\ k \in touches
    /\ touches' = touches \ {k}
    /\ keys' = [keys EXCEPT ![k].lastUsed = IF @ # Never /\ @ < now - Minute THEN now ELSE @]
    /\ UNCHANGED <<now, used, lost, pc, loc>>

TouchLastUsed(k) ==
    /\ k \in touches
    /\ touches' = touches \ {k}
    /\ keys' = [keys EXCEPT ![k].lastUsed = IF @ = Never \/ @ < now - Minute THEN now ELSE @]
    /\ UNCHANGED <<now, used, lost, pc, loc>>

\* The write times out after two seconds, or the process dies.
TouchFails(k) ==
    /\ k \in touches
    /\ touches' = touches \ {k}
    /\ lost' = lost \cup {k}
    /\ UNCHANGED <<now, keys, used, pc, loc>>
----------------------------------------------------------------------------
(* Handler.Issue: self or root, then the cap, then the lifetime policy.    *)

\* Mutant: how the caller authenticated does not matter.
MayIssueAny(l) == l.caller = Root \/ (l.caller = l.p /\ l.p \in Member)

MayIssue(l) == /\ l.cred.kind # "apikey"
               /\ l.caller = Root \/ (l.caller = l.p /\ l.p \in Member)

Issue(t) ==
    /\ pc[t] = "handle" /\ loc[t].op = "Issue"
    /\ IF MayIssue(loc[t]) THEN Goto(t, "count") /\ UNCHANGED loc ELSE Done(t)
    /\ UNCHANGED <<now, keys, touches, used, lost>>

\* time.Duration(ttl) * time.Second, which may overflow.
Lifetime(ttl) == ((ttl + Half) % (2 * Half)) - Half
TooLong(ttl) == ttl > 0 /\ Lifetime(ttl) > MaxTTL

\* Mutant: 0 always means a key that never expires.
ExpiryForZero(ttl) == IF ttl > 0 THEN now + Lifetime(ttl) ELSE Never

\* ttl_seconds 0 asks for the longest lifetime the policy gives.
ExpiryFor(ttl) == IF ttl > 0 THEN now + Lifetime(ttl)
                  ELSE IF AllowNever THEN Never ELSE now + MaxTTL

\* Mutant: the cap is compared with > instead of >=.
CountActiveOffByOne(t) ==
    /\ pc[t] = "count"
    /\ IF Cardinality(Active(loc[t].p)) > KeyCap \/ TooLong(loc[t].ttl)
       THEN Done(t)
       ELSE /\ Goto(t, "insert")
            /\ loc' = [loc EXCEPT ![t].exp = ExpiryFor(loc[t].ttl)]
    /\ UNCHANGED <<now, keys, touches, used, lost>>

CountActive(t) ==
    /\ pc[t] = "count"
    /\ IF Cardinality(Active(loc[t].p)) >= KeyCap \/ TooLong(loc[t].ttl)
       THEN Done(t)
       ELSE /\ Goto(t, "insert")
            /\ loc' = [loc EXCEPT ![t].exp = ExpiryFor(loc[t].ttl)]
    /\ UNCHANGED <<now, keys, touches, used, lost>>

InsertApiKey(k, p, ro, exp) ==
    /\ k \notin Stored
    /\ keys' = [keys EXCEPT ![k] = [principal |-> p, ro |-> ro, revoked |-> FALSE,
                                    exp |-> exp, lastUsed |-> Never]]

Insert(t, k) ==
    /\ pc[t] = "insert"
    /\ InsertApiKey(k, loc[t].p, loc[t].ro, loc[t].exp)
    /\ Done(t)
    /\ UNCHANGED <<now, touches, used, lost>>

(* Handler.Revoke: the key's principal, an administrator, or root.         *)

Revoke(t) ==
    LET l == loc[t] IN
    /\ pc[t] = "handle" /\ l.op = "Revoke"
    /\ IF l.caller \in {Root, keys[l.key].principal} \cup Admin
       THEN Goto(t, "revoke") /\ UNCHANGED loc ELSE Done(t)
    /\ UNCHANGED <<now, keys, touches, used, lost>>

SetRevoked(k) == keys' = [keys EXCEPT ![k].revoked = TRUE]

RevokeApiKey(t) ==
    /\ pc[t] = "revoke"
    /\ SetRevoked(loc[t].key)
    /\ Done(t)
    /\ UNCHANGED <<now, touches, used, lost>>

List(t) ==
    /\ pc[t] = "handle" /\ loc[t].op = "List"
    /\ Done(t)
    /\ UNCHANGED <<now, keys, touches, used, lost>>

\* A statement fails, or the process dies.
Abort(t) ==
    /\ pc[t] # "idle"
    /\ Done(t)
    /\ UNCHANGED <<now, keys, touches, used, lost>>

Tick ==
    /\ now < MaxTime
    /\ now' = now + 1
    /\ UNCHANGED <<keys, touches, used, lost, pc, loc>>

Next ==
    \/ Tick
    \/ \E k \in KeyId : TouchLastUsed(k) \/ TouchFails(k)
    \/ \E t \in Thread :
        \/ Arrive(t) \/ Authenticate(t) \/ Abort(t)
        \/ Issue(t) \/ CountActive(t) \/ \E k \in KeyId : Insert(t, k)
        \/ Revoke(t) \/ RevokeApiKey(t) \/ List(t)

Spec == Init /\ [][Next]_vars
----------------------------------------------------------------------------
(***************************************************************************)
(* "Revocation takes effect at once": a request that arrives with a key    *)
(* already revoked or expired never gets past Verify, which reads the row  *)
(* on every request and keeps no copy.                                     *)
(***************************************************************************)
DeadKeyRejected ==
    \A t \in Thread : loc[t].dead => pc[t] = "authn"

\* The keys that a step creates or revokes.
Changed == {k \in KeyId : \/ keys[k] = NoKey /\ keys'[k] # NoKey
                          \/ keys[k].revoked # keys'[k].revoked}

(***************************************************************************)
(* No key mints keys, and a key that was issued read-only neither creates  *)
(* nor revokes one, however its request interleaves with the others (the   *)
(* check on AuthMethod in Issue and the read-only gate).                   *)
(***************************************************************************)
KeyPowers ==
    [][\A k \in Changed :
         \E t \in Thread :
            /\ pc[t] \in {"insert", "revoke"} /\ pc'[t] = "idle"
            /\ loc[t].cred.kind = "apikey" =>
                  keys[k] # NoKey /\ ~keys[loc[t].cred.key].ro]_vars

(***************************************************************************)
(* The cap of Handler.Issue: count and insert are two statements, so the   *)
(* requests in flight may each pass the count; the cap is exceeded by at   *)
(* most one key for each further request served at the same time, those    *)
(* about to be inserted included.                                          *)
(***************************************************************************)
Inserting(p) == {t \in Thread : pc[t] = "insert" /\ loc[t].p = p}

CapOvershoot ==
    \A p \in Principal :
        Cardinality(Active(p)) + Cardinality(Inserting(p)) <= KeyCap + Cardinality(Thread) - 1

(***************************************************************************)
(* last_used is written at most once a minute and out of order with the    *)
(* requests, yet never lags the last use by more than that minute, once    *)
(* the pending writes are done and if none failed.                         *)
(***************************************************************************)
LastUsedTracks ==
    \A k \in Stored \ (touches \cup lost) :
        used[k] # Never => /\ keys[k].lastUsed # Never
                           /\ keys[k].lastUsed >= used[k] - Minute
============================================================================
