---------------------------- MODULE SigningKeys ----------------------------
(***************************************************************************)
(* The delegation signing keys: the signing_keys table shared by every     *)
(* replica, the Manager of each process with its cached Keyset, the        *)
(* rotate-signing-key command, and the tokens signed with the keys.        *)
(* (internal/signingkey, cmd/base-servers runServer and runRotate.)        *)
(*                                                                         *)
(* A process is a server replica or one run of the rotation command. Its   *)
(* goroutines (threads) share one Manager. Every database statement is a   *)
(* step of its own; the rotation transaction holds the lock on the row it  *)
(* demotes until it commits, as Postgres does under READ COMMITTED.        *)
(*                                                                         *)
(* now is the database's clock; a process reads now + Offset[p].           *)
(* Fields marked ghost are read by the properties only.                    *)
(***************************************************************************)
EXTENDS Integers, FiniteSets

CONSTANTS
    Server,         \* the replicas
    Cli,            \* the rotation commands
    Thread,         \* goroutines that use a Manager
    Home,           \* the process of each thread
    KekOf,          \* the BS_SIGNING_KEK of each process
    Kid, NoKid,     \* key identifiers; NoKid: the zero Key
    NoThread,
    RetireWindow,   \* Options.RetireWindow
    CacheTTL,       \* Options.CacheTTL
    MaxTTL,         \* delegation.MaxTTLSeconds
    RefreshDelay,   \* bound on ListLive to store: the 5s timeout of Keyset; at
                    \* start-up, where there is no timeout, an assumption
    RotateDelay,    \* bound on computing retireAfter to commit
    MaxSkew,        \* bound on |Offset|
    Offset,         \* each process's clock minus the database's clock
    MaxTime,        \* bound on now, for TLC
    MaxTokens       \* bound on the number of tokens, for TLC

Proc == Server \cup Cli
Kek == {KekOf[p] : p \in Proc}

(***************************************************************************)
(* The age, in database time, of the oldest key list a token may be signed *)
(* from when no refresh fails.                                             *)
(***************************************************************************)
Lag == CacheTTL + RefreshDelay

ASSUME ConstantsOK ==
    /\ Proc # {}
    /\ Home \in [Thread -> Proc]
    /\ Server \cap Cli = {}
    /\ NoKid \notin Kid
    /\ NoThread \notin Thread
    /\ RetireWindow \in Nat /\ CacheTTL \in Nat /\ MaxTTL \in Nat
    /\ RefreshDelay \in Nat /\ RotateDelay \in Nat /\ MaxSkew \in Nat
    /\ MaxTime \in Nat /\ MaxTokens \in Nat
    /\ Offset \in [Proc -> Int]
    /\ \A p \in Proc : -MaxSkew <= Offset[p] /\ Offset[p] <= MaxSkew

(***************************************************************************)
(* The comment on DefaultRetireWindow, made precise: the window covers the *)
(* longest token, the oldest key list still in use, a slow rotation, and   *)
(* the skew of signer, rotator and verifier against the database.          *)
(***************************************************************************)
ASSUME WindowCoversTokens ==
    RetireWindow >= MaxTTL + Lag + RotateDelay + 3 * MaxSkew

VARIABLES
    now,      \* the database's clock
    rows,     \* the signing_keys table
    lock,     \* the thread whose open transaction holds the active row's lock
    up,       \* EnsureActive has succeeded in this process
    cache,    \* Manager.cached and loadedAt, per process
    pc,       \* where each thread is
    loc,      \* its local variables
    tokens    \* every token signed so far

vars == <<now, rows, lock, up, cache, pc, loc, tokens>>

KidOrNone == Kid \cup {NoKid}

Row == [state : {"unborn", "active", "retiring", "deleted"},
        kek : Kek, retireAfter : Int,
        demotedAt : Int]                \* ghost: when the demotion committed

\* asOf is ghost: when ListLive read the rows.
Keyset == [active : KidOrNone, all : SUBSET Kid, loadedAt : Int, asOf : Int]

NoKeyset == [active |-> NoKid, all |-> {}, loadedAt |-> 0, asOf |-> 0]

Call == {"none", "boot", "sign", "rotate"}

Local == [call : Call,
          exp : Int,                    \* Claims.ExpiresAt
          stale : BOOLEAN,              \* ghost: the refresh failed
          ks : Keyset,                  \* the keyset read or returned
          fresh : KidOrNone,            \* the key being rotated in
          until : Int,                  \* retireAfter
          began : Int,                  \* ghost: when until was computed
          saw : KidOrNone]              \* active row in the UPDATE's snapshot

NoLocal == [call |-> "none", exp |-> 0, stale |-> FALSE,
            ks |-> NoKeyset, fresh |-> NoKid, until |-> 0, began |-> 0,
            saw |-> NoKid]

PC == {"idle", "mint", "list", "store", "return", "keyset", "sign",
       "demote", "blocked", "insert", "retire"}

Token == [kid : Kid, exp : Int, stale : BOOLEAN]

TypeOK ==
    /\ now \in Nat
    /\ rows \in [Kid -> Row]
    /\ lock \in Thread \cup {NoThread}
    /\ up \in [Proc -> BOOLEAN]
    /\ cache \in [Proc -> Keyset]
    /\ pc \in [Thread -> PC]
    /\ loc \in [Thread -> Local]
    /\ tokens \subseteq Token

Live == {k \in Kid : rows[k].state \in {"active", "retiring"}}
Active == {k \in Kid : rows[k].state = "active"}
GetActive == IF Active = {} THEN NoKid ELSE CHOOSE k \in Active : TRUE

\* GenerateKey: a key nobody has made before.
Unused == {k \in Kid : /\ rows[k].state = "unborn"
                       /\ \A t \in Thread : loc[t].fresh # k}

Clock(p) == now + Offset[p]

\* Mutant: the private key is stored unsealed.
NewRowUnsealed(p) == [state |-> "active", kek |-> "none", retireAfter |-> 0,
                      demotedAt |-> 0]

\* InsertSigningKey of an active row sealed by process p.
NewRow(p) == [state |-> "active", kek |-> KekOf[p], retireAfter |-> 0,
              demotedAt |-> 0]

NoRow == [state |-> "unborn", kek |-> CHOOSE e \in Kek : TRUE,
          retireAfter |-> 0, demotedAt |-> 0]

Init ==
    /\ now = 0
    /\ rows = [k \in Kid |-> NoRow]
    /\ lock = NoThread
    /\ up = [p \in Proc |-> FALSE]
    /\ cache = [p \in Proc |-> NoKeyset]
    /\ pc = [t \in Thread |-> "idle"]
    /\ loc = [t \in Thread |-> NoLocal]
    /\ tokens = {}
----------------------------------------------------------------------------
(* Control flow of one thread. *)

Goto(t, label) == pc' = [pc EXCEPT ![t] = label]

\* The process ends (returns, exits with log.Fatalf, or is killed): its memory
\* is gone and Postgres rolls its open transaction back.
Exit(p) ==
    /\ up' = [up EXCEPT ![p] = FALSE]
    /\ cache' = [cache EXCEPT ![p] = NoKeyset]
    /\ pc' = [t \in Thread |-> IF Home[t] = p THEN "idle" ELSE pc[t]]
    /\ loc' = [t \in Thread |-> IF Home[t] = p THEN NoLocal ELSE loc[t]]
    /\ lock' = IF lock \in Thread /\ Home[lock] = p THEN NoThread ELSE lock

Crash(p) ==
    /\ up[p] \/ \E t \in Thread : Home[t] = p /\ pc[t] # "idle"
    /\ Exit(p)
    /\ UNCHANGED <<now, rows, tokens>>

(***************************************************************************)
(* EnsureActive at start-up: mint a key when the table has no active one,  *)
(* then refresh. Only the main goroutine runs.                             *)
(***************************************************************************)
EnsureActive(t) ==
    /\ ~up[Home[t]]
    /\ \A u \in Thread : Home[u] = Home[t] => pc[u] = "idle"
    /\ Goto(t, IF Active = {} THEN "mint" ELSE "list")
    /\ loc' = [loc EXCEPT ![t].call = "boot"]
    /\ UNCHANGED <<now, rows, lock, up, cache, tokens>>

\* Mutant: no partial unique index.
MintTwice(t, k) ==
    /\ pc[t] = "mint" /\ lock = NoThread /\ k \in Unused
    /\ rows' = [rows EXCEPT ![k] = NewRow(Home[t])]
    /\ Goto(t, "list")
    /\ UNCHANGED <<now, lock, up, cache, loc, tokens>>

\* Insert waits for an open rotation. A unique violation means that another
\* process minted first; it is not an error.
Mint(t, k) ==
    /\ pc[t] = "mint"
    /\ lock = NoThread
    /\ k \in Unused
    /\ rows' = IF Active = {} THEN [rows EXCEPT ![k] = NewRow(Home[t])] ELSE rows
    /\ Goto(t, "list")
    /\ UNCHANGED <<now, lock, up, cache, loc, tokens>>

(***************************************************************************)
(* refresh: read the live rows, open each of them, replace the cache.      *)
(* loadedAt is the time of the replacement, not of the read.               *)
(***************************************************************************)
CanOpen(p, k) == rows[k].kek = KekOf[p]

ListLive(t) ==
    /\ pc[t] = "list"
    /\ \A k \in Live : CanOpen(Home[t], k)
    /\ loc' = [loc EXCEPT ![t].ks = [active |-> GetActive, all |-> Live,
                                     loadedAt |-> 0, asOf |-> now]]
    /\ Goto(t, "store")
    /\ UNCHANGED <<now, rows, lock, up, cache, tokens>>

\* Mutant: a failed refresh counts as a load.
RefreshFailsStamped(t) ==
    /\ pc[t] = "list" /\ loc[t].call = "sign"
    /\ Goto(t, "return")
    /\ loc' = [loc EXCEPT ![t].stale = TRUE]
    /\ cache' = [cache EXCEPT ![Home[t]].loadedAt = Clock(Home[t])]
    /\ UNCHANGED <<now, rows, lock, up, tokens>>

\* A database error, the timeout, or a row this process cannot open. Start-up
\* and the rotation command exit; Keyset ignores the error.
RefreshFails(t) ==
    /\ pc[t] = "list"
    /\ \/ /\ loc[t].call # "sign"
          /\ Exit(Home[t])
       \/ /\ loc[t].call = "sign"
          /\ Goto(t, "return")
          /\ loc' = [loc EXCEPT ![t].stale = TRUE]
          /\ UNCHANGED <<lock, up, cache>>
    /\ UNCHANGED <<now, rows, tokens>>

Store(p, ks) ==
    cache' = [cache EXCEPT ![p] = [ks EXCEPT !.loadedAt = Clock(p)]]

StoreBoot(t) ==
    /\ pc[t] = "store" /\ loc[t].call = "boot"
    /\ Store(Home[t], loc[t].ks)
    /\ up' = [up EXCEPT ![Home[t]] = TRUE]
    /\ Goto(t, "idle")
    /\ loc' = [loc EXCEPT ![t] = NoLocal]
    /\ UNCHANGED <<now, rows, lock, tokens>>

StoreSign(t) ==
    /\ pc[t] = "store" /\ loc[t].call = "sign"
    /\ Store(Home[t], loc[t].ks)
    /\ Goto(t, "return")
    /\ UNCHANGED <<now, rows, lock, up, loc, tokens>>

\* The rotation command stores its own keyset, prints the kid and returns.
StoreRotate(t) ==
    /\ pc[t] = "store" /\ loc[t].call = "rotate"
    /\ Exit(Home[t])
    /\ UNCHANGED <<now, rows, tokens>>

(***************************************************************************)
(* Issuing a token: Service.Issue fixes the expiry by its own clock, then  *)
(* Sign asks the Manager for the keyset and signs with its active key.     *)
(***************************************************************************)
Issue(t, ttl) ==
    /\ pc[t] = "idle" /\ up[Home[t]] /\ Home[t] \in Server
    /\ Cardinality(tokens) < MaxTokens
    /\ loc' = [loc EXCEPT ![t].call = "sign",
                          ![t].exp = Clock(Home[t]) + ttl]
    /\ Goto(t, "keyset")
    /\ UNCHANGED <<now, rows, lock, up, cache, tokens>>

Fresh(p) == Clock(p) - cache[p].loadedAt <= CacheTTL

KeysetHit(t) ==
    /\ pc[t] = "keyset" /\ Fresh(Home[t])
    /\ loc' = [loc EXCEPT ![t].ks = cache[Home[t]]]
    /\ Goto(t, "sign")
    /\ UNCHANGED <<now, rows, lock, up, cache, tokens>>

KeysetMiss(t) ==
    /\ pc[t] = "keyset" /\ ~Fresh(Home[t])
    /\ Goto(t, "list")
    /\ UNCHANGED <<now, rows, lock, up, cache, loc, tokens>>

\* After a refresh, successful or not, Keyset returns whatever is cached.
KeysetReturn(t) ==
    /\ pc[t] = "return"
    /\ loc' = [loc EXCEPT ![t].ks = cache[Home[t]]]
    /\ Goto(t, "sign")
    /\ UNCHANGED <<now, rows, lock, up, cache, tokens>>

\* With no active key in the keyset, Sign returns an error.
Sign(t) ==
    /\ pc[t] = "sign"
    /\ tokens' = IF loc[t].ks.active = NoKid THEN tokens
                 ELSE tokens \cup {[kid |-> loc[t].ks.active, exp |-> loc[t].exp,
                                    stale |-> loc[t].stale]}
    /\ Goto(t, "idle")
    /\ loc' = [loc EXCEPT ![t] = NoLocal]
    /\ UNCHANGED <<now, rows, lock, up, cache>>

(***************************************************************************)
(* Manager.Rotate, run by the command once EnsureActive has succeeded.     *)
(* store.Rotate is one transaction: UPDATE the active row to retiring,     *)
(* INSERT the new active row, commit.                                      *)
(***************************************************************************)
Rotate(t, k) ==
    /\ pc[t] = "idle" /\ up[Home[t]] /\ Home[t] \in Cli
    /\ k \in Unused
    /\ loc' = [loc EXCEPT ![t].call = "rotate", ![t].fresh = k, ![t].began = now,
                          ![t].until = Clock(Home[t]) + RetireWindow]
    /\ Goto(t, "demote")
    /\ UNCHANGED <<now, rows, lock, up, cache, tokens>>

\* The UPDATE finds the active row unlocked and locks it ...
Demote(t) ==
    /\ pc[t] = "demote" /\ lock = NoThread
    /\ lock' = IF Active = {} THEN NoThread ELSE t
    /\ Goto(t, "insert")
    /\ UNCHANGED <<now, rows, up, cache, loc, tokens>>

\* ... or waits for the transaction that holds it, remembering the row its
\* statement snapshot saw ...
DemoteBlocks(t) ==
    /\ pc[t] = "demote" /\ lock # NoThread
    /\ loc' = [loc EXCEPT ![t].saw = GetActive]
    /\ Goto(t, "blocked")
    /\ UNCHANGED <<now, rows, lock, up, cache, tokens>>

\* ... and then evaluates state = 'active' again on that row only.
DemoteResumes(t) ==
    /\ pc[t] = "blocked" /\ lock = NoThread
    /\ lock' = IF loc[t].saw \in Active THEN t ELSE NoThread
    /\ Goto(t, "insert")
    /\ UNCHANGED <<now, rows, up, cache, loc, tokens>>

\* The INSERT meets no other active row: the transaction commits.
RotateCommit(t) ==
    /\ pc[t] = "insert"
    /\ lock = t \/ (lock = NoThread /\ Active = {})
    /\ rows' = [k \in Kid |->
                  IF k = loc[t].fresh THEN NewRow(Home[t])
                  ELSE IF k \in Active
                  THEN [rows[k] EXCEPT !.state = "retiring", !.demotedAt = now,
                                       !.retireAfter = loc[t].until]
                  ELSE rows[k]]
    /\ lock' = NoThread
    /\ Goto(t, "retire")
    /\ UNCHANGED <<now, up, cache, loc, tokens>>

\* The INSERT meets the row of the rotation that won: unique violation on
\* signing_keys_single_active, rollback, log.Fatalf.
RotateConflict(t) ==
    /\ pc[t] = "insert"
    /\ lock = NoThread /\ Active # {}
    /\ Exit(Home[t])
    /\ UNCHANGED <<now, rows, tokens>>

\* Mutant: the comparison is the wrong way round.
RetireUnexpired(t) ==
    /\ pc[t] = "retire"
    /\ rows' = [k \in Kid |->
                  IF rows[k].state = "retiring" /\ rows[k].retireAfter > now
                  THEN [rows[k] EXCEPT !.state = "deleted"] ELSE rows[k]]
    /\ Goto(t, "list")
    /\ UNCHANGED <<now, lock, up, cache, loc, tokens>>

RetireExpired(t) ==
    /\ pc[t] = "retire"
    /\ rows' = [k \in Kid |->
                  IF rows[k].state = "retiring" /\ rows[k].retireAfter < now
                  THEN [rows[k] EXCEPT !.state = "deleted"] ELSE rows[k]]
    /\ Goto(t, "list")
    /\ UNCHANGED <<now, lock, up, cache, loc, tokens>>

(***************************************************************************)
(* Time passes, but no further than the two delay bounds allow. The        *)
(* rotation command's own refresh may take any time.                       *)
(***************************************************************************)
Tick ==
    /\ now < MaxTime
    /\ \A t \in Thread :
         /\ pc[t] = "store" /\ loc[t].call # "rotate" =>
               now < loc[t].ks.asOf + RefreshDelay
         /\ pc[t] \in {"demote", "blocked", "insert"} =>
               now < loc[t].began + RotateDelay
    /\ now' = now + 1
    /\ UNCHANGED <<rows, lock, up, cache, pc, loc, tokens>>

Next ==
    \/ Tick
    \/ \E p \in Proc : Crash(p)
    \/ \E t \in Thread :
         \/ EnsureActive(t)
         \/ \E k \in Kid : Mint(t, k)
         \/ ListLive(t)
         \/ RefreshFails(t)
         \/ StoreBoot(t)
         \/ StoreSign(t)
         \/ StoreRotate(t)
         \/ \E ttl \in 1..MaxTTL : Issue(t, ttl)
         \/ KeysetHit(t)
         \/ KeysetMiss(t)
         \/ KeysetReturn(t)
         \/ Sign(t)
         \/ \E k \in Kid : Rotate(t, k)
         \/ Demote(t)
         \/ DemoteBlocks(t)
         \/ DemoteResumes(t)
         \/ RotateCommit(t)
         \/ RotateConflict(t)
         \/ RetireExpired(t)

Spec == Init /\ [][Next]_vars
----------------------------------------------------------------------------
(***************************************************************************)
(* Every process that has started can open every live key, however         *)
(* start-ups and rotations under different KEKs interleave: a process with *)
(* the wrong BS_SIGNING_KEK never adds a key (EnsureActive: "绝不新铸").    *)
(***************************************************************************)
OneKek == \A p \in Proc : up[p] => \A k \in Live : CanOpen(p, k)

(***************************************************************************)
(* Once a first key exists there is exactly one active row in every        *)
(* committed state, whatever rotations race or crash (store.Rotate: "收敛到  *)
(* 单活跃键"), and a started process always caches a keyset to sign with:    *)
(* Sign never answers "no active signing key".                             *)
(***************************************************************************)
AlwaysCanSign ==
    /\ (\E k \in Kid : rows[k].state # "unborn") => \E k \in Active : Active = {k}
    /\ \A p \in Proc : up[p] => cache[p].active \in cache[p].all

(***************************************************************************)
(* A token whose keyset came from the cache or from a successful refresh   *)
(* can be verified until no process takes it for unexpired any more: its   *)
(* key's row is not deleted before. This is what DefaultRetireWindow is    *)
(* for; a token signed after a failed refresh is excepted.                 *)
(***************************************************************************)
Unexpired(tok) == \E p \in Proc : Clock(p) < tok.exp

RetainedUntilExpiry ==
    \A tok \in tokens : ~tok.stale /\ Unexpired(tok) => tok.kid \in Live

\* What /.well-known/jwks.json publishes, and Verify accepts.
JWKS(p) == cache[p].all

(***************************************************************************)
(* Rotation converges: a keyset that Keyset returns from the cache either  *)
(* has the table's active key, and then the process publishes and accepts  *)
(* every live key, or has one that was the active key at most Lag ago      *)
(* (README: "treat rotation as complete only after" the window).           *)
(***************************************************************************)
CacheConverges ==
    \A p \in Server : up[p] /\ Fresh(p) =>
        \/ cache[p].active \in Active /\ Live \subseteq JWKS(p)
        \/ rows[cache[p].active].demotedAt >= now - Lag
============================================================================
