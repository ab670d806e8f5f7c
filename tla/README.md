# TLA+ models of base-servers

base-servers is an identity and authorisation control plane: several stateless
replicas of one Go process in front of one Postgres database, with Keycloak as
the login engine. What is hard about it is not any one handler but what several
of them do at once: each handler is a handful of database statements or calls of
Keycloak without a common transaction, caches live in each replica, clocks
differ, requests time out and processes die. The modules here model those
behaviours, TLC checks them on small instances, and TLAPS proves their
safety properties for every instance.

## The system and its models

| Part of the system | Source | Module | State | Hard behaviour |
|---|---|---|---|---|
| Signing keys | `internal/signingkey`, `runServer`, `runRotate` | `SigningKeys` | `signing_keys` table, row lock, each process's cached keyset, signed tokens | first boot and rotations race; caches lag; crashes; skewed clocks |
| Audit log | `internal/audit/recorder.go`, `store.go`, shutdown in `main.go` | `AuditLog`, abstract `AuditTrail` | channel, batch, advisory locks, chains | replicas append to one chain; drain at shutdown; failed groups |
| Audit listing | `Store.List`, `Handler.List` | `AuditList` | chain with times, a client's cursor | rows appended between pages; clocks disagree |
| Organisations, roles, authorisation | `internal/org`, `role`, `authz` | `Rbac`, abstract `Authority` | the tables of `0002_org_authz.sql` | checks and writes in separate statements; compensation that fails |
| Delegation and DPoP | `internal/delegation` | `Delegation`, over `Authority` | `delegations` table, tokens | revocation and expiry against a check under way; skew; truncated seconds |
| API keys and the interceptor | `internal/apikey`, `internal/authn/interceptor.go` | `ApiKeys` | `api_keys` table, pending `last_used` writes | count and insert apart; late writes; overflowing lifetimes |
| Rate limiting, sampler of unknown keys | `internal/ratelimit`, `server/ratelimit_mw.go`, `apikey/verifier.go` | `RateLimit` | LRUs, token buckets, times of the last events, the sampler's counter | clock read before the lock; eviction |
| Keycloak token verifier | `internal/authn/verifier.go` | `JwksCache` | key cache, refresh throttle | misses at once; late or failing fetches; stale keys |
| Principals | `internal/principal`, `engine/keycloak/keycloak.go` | `Principals` | identities in Keycloak, `principals` table, a mutex and a flag per process | two stores without a transaction; lost answers; crashes |
| Migrations | `internal/migrate` | `Migrate` | advisory lock, ledger, schema | lock tied to a pooled connection; unseen commits; two releases |
| Provisioning | `engine/keycloak/provision.go` | `Provision` | realm and clients | replicas create the same thing; an administrator edits |
| Start of a replica | `cmd/base-servers/main.go`, `internal/config` | `Startup`, over `Migrate`, `Provision` and `Replicas` | stage of each replica, missing settings | replicas start, fail and die in any order |

How they interact. A replica comes up through `Startup`: settings, migrations,
the signing key (of which `Startup` only knows whether there is an active one;
the rest is `SigningKeys`), provisioning. A request then passes Gate A
(`RateLimit`), is authenticated by root token, API key (`ApiKeys`) or Keycloak
token (`JwksCache`), passes Gate B and the read-only gate, and reaches a handler
(`Rbac`, `Delegation`, `ApiKeys`, `Principals`). `Delegation.CheckDelegated` asks
for the delegator's authority: `Delegation` uses `Authority`, the abstract
specification that `Rbac` is checked and proved to implement, so that what holds
of delegation over `Authority` holds over the tables. Tokens are signed from the
keyset of `SigningKeys`. Almost every handler ends with `rec.Record`, which never
blocks and never fails; its effect is the action `Record` of `AuditLog`, where a
request stands for any of the handlers, and it is left out of the handlers' own
modules.

Conventions. One action is one database statement, one call of Keycloak, one
critical section or one local step that others can observe; `pc` (`stage` in
`JwksCache`) says where a thread is and `loc` holds its local variables. An
action that may fail has a failing counterpart (`Abort`, `RefreshFails`,
`CreateFails`, ...). A call whose answer is lost is one that took effect and
failed in the same step; one that takes effect only after its caller was told of
a failure is not modelled (see Principals). Variables and fields marked *ghost* are only read by
properties. Definitions whose comment starts with *Mutant* are plausible
mistakes that the properties are known to catch; nothing else uses them. The
names of `JwksCache`, `Migrate` and `Provision` carry a prefix where they would
clash with those of a module they are used together with.

### SigningKeys
`EnsureActive`/`Mint` are the first boot; `ListLive`/`Store*` the refresh of the
cached keyset; `KeysetHit`, `KeysetMiss`, `KeysetReturn` are `Manager.Keyset`
with its fallback to the old keyset when a refresh fails; `Rotate`, `Demote*`,
`RotateCommit`/`RotateConflict` and `RetireExpired` are the rotation command
under READ COMMITTED: the UPDATE waits for the row lock of another rotation and
then finds its row no longer active. A private key is abstracted to the
key-encryption key (KEK) that sealed it. What the JWKS endpoint publishes is the
cached keyset; what its readers see lags behind that by their own caches.

### AuditLog and AuditTrail
`Begin`, `Record` and the end of a request; the recorder goroutine takes a batch,
groups it by chain and appends group by group (`AppendLock`, `AppendHead`, the
inserts, `AppendCommit`); shutdown stops the server, cancels the recorder and
waits for its drain. A hash is modelled by the sequence of what was hashed.

### AuditList
`Insert` is one appended row with its replica's clock, `List` one page.

### Rbac and Authority
All writing handlers and `Check`, with `RequireMember` as a statement of its own.
`CreateOrganization` seeds the default roles and compensates by deleting the
organisation; the deletion may fail as well (`Orphan`). `ON DELETE CASCADE` is
part of `DeleteOrg`.

### Delegation
`Issue`, `Insert`, `Sign`; `Revoke`, `RevokeDelegation`; `CheckDelegated`,
`Verify`, `VerifyDPoP`, `Get`, `CheckOwner`, `CheckPermission`, `Reply`. A proof
says whose key signed it, when, and whether it is bound to the request. Time is
in ticks, `S` to a second, since tokens carry whole seconds and rows exact times.

### ApiKeys
`Arrive`, `Authenticate` (routing, `Verify`, Gate B, read-only gate), the
handlers, and the goroutine that writes `last_used`. Lifetimes are multiplied
into a `time.Duration`, which wraps around at `Half`. One clock stands for the
replica's and the database's. `List` is a read without effect.

### RateLimit
`Debounce` is the report of wrong root tokens; `ReadClock` and `Allow` are the
two halves of `MemoryLimiter.Allow`, run for the global, IP and principal gate
in turn; `SampleUnknown` is the sampler, which counts unknown keys and reports
the count once a window. An event is counted where the code decides to send it,
under the lock. `Record` comes after the unlock and drops the event when the
channel is full, which is a matter of `AuditLog`; that every miss is told of
therefore holds up to that hand-over. `rate.Limiter` is external and modelled from its use:
refill for the time since the last call, and a clock that goes back moves `last`
back.

### JwksCache
The three critical sections of `keyFor` and the fetch between them. Keycloak's
key sets are numbered, and a key stays published for one rotation. `refresh`
does not look at the HTTP status, so an error with a JSON body is an answer
without keys.

### Principals
`Create` validates, `login`, then for a human `ensureUnmanagedUserAttributes`
(`LockMu`, `GetProfile`, `PutProfile`), `CreateIdentity`, `Insert`, and `Answer`,
which records the event. Keycloak is external: it takes a name once among users
and once among clients, and it drops a user's attributes while the policy is
off. `Revert` is an administrator who switches the policy off. A display name's
`bs-` prefix is left out. `purpose` stands for the capabilities in `Validate`;
past it they are left out, since they go to the table alone and Keycloak is not
told of them. An insert that commits after `Create` has reported its failure is
not modelled: it would give a row to an identity that `StrandedStays` takes for
stranded.

### Migrate, Provision and Startup
`Apply` is modelled statement by statement. A session whose client is gone keeps
its lock, as `Orphan`, until Postgres ends it; that a session which is lost while
it waits may be granted the lock first is the second case of `Abandoned`.
`EnsureProvisioned` is modelled call by call (`ProvisionStatus` is a read that
only tests use, and left out); all replicas want the same client
settings, and administrators edit clients but delete neither them nor the realm.
`Startup` runs them in the order of `runServer`, reads the settings where
`runServer` does, and starts, stops and kills replicas at any point. Nothing in
the repository restarts a replica by itself; a start is the operator's.

## The runs

| Run | Shows |
|---|---|
| `keys` | the table keeps one active key, every process that started has a key it can open (`AlwaysCanSign`), a keyset served from the cache has the active key or one demoted at most `CacheTTL + RefreshDelay` ago (`CacheConverges`), and no key is deleted while a token signed from a loaded keyset is unexpired (`RetainedUntilExpiry`) |
| `audit` | chains verify, heads are current, a clean shutdown drains everything, `AuditLog` implements `AuditTrail`, and what a running recorder accepted is eventually stored or reported as failed |
| `audit_list_skew` (violated) | paging gives every row exactly once: not so if replicas' clocks differ |
| `rbac` | assignments within the role's organisation, no half-made organisation, only members write, `Check` answers as one atomic read would, and `Rbac` implements `Authority` |
| `delegation_time` | tokens never outlive their rows; validity is exact but for skew and the truncated second |
| `delegation_check` | a revoked delegation is refused; every answer is one the delegator could have had |
| `apikeys_use` | a dead key gets nowhere; `last_used` lags by at most its minute; no key outlives the policy |
| `apikeys_powers` | no key mints keys, no read-only key changes any, and the cap is exceeded by at most the requests in flight, less one |
| `limits` | the global bucket limits whatever else is evicted, but for refills counted twice; LRUs stay within capacity; one event per key and cooldown, and one of `root.auth`, but for keys evicted in between; every unknown key is counted in exactly one report or still to be |
| `jwks_cache` | a fetch starts no sooner than the refresh interval after the last one started, whether that one succeeded or failed, and never beside another; the cache never goes back, a published cached key is not lost but to an answer without keys |
| `startup` | one replica at a time migrates and no lock goes back to a pool, the schema is the ledger and a prefix of the migrations, a replica that serves has all it needs but perhaps the root token, replicas that race never all lose, every start ends |
| `principals` | agents and only agents have owners, rows and identities agree, every identity is accounted for, a name lost to a failed insert stays lost, every request ends |

### Where the code and its texts differ
`audit_list_skew` is a run that TLC finds violated. It states what
`internal/audit/handler_test.go:105` says of paging, that all events appear
exactly once. The query orders a page by `ts`, which each replica stamps with
its own clock, and continues it by `seq`; rows are skipped or repeated when the
two orders differ. `PROJECT.json` quotes the lines.

Elsewhere a property has an exception because the code does less than a comment
or document suggests. Each exception stands for a behaviour of the model:

- `RetainedUntilExpiry` excepts tokens signed after a failed refresh
  (`tok.stale`). `Keyset` then uses the cached keyset whatever its age, so a
  replica that was idle for two rotations may sign with a deleted key. The
  repository's `README.md:27` has issued tokens stay valid.
- `DrainedAtExit` excepts a shutdown that timed out (`timedOut`). Handlers may
  then record after the recorder is cancelled; `main.go:214` says that there are
  no more producers.
- `CapOvershoot` allows one key more for each further request in flight. Count
  and insert are two statements; the comment at `apikey/handler.go:67` speaks of
  a cap.
- `EventsSpaced` excepts keys whose bucket was evicted. `lastEmit` goes with it;
  the comment at `ratelimit/limiter.go:16` has one event per cooldown.
- `WarmAccepted` excepts an answer without keys (`blank`), which `refresh`
  installs. And no property bounds the age of a key that a throttled request
  uses: the comment at `authn/verifier.go:112` has it matter only at the
  staleness boundary, but after a quiet period it may be of any age.

- `ServesOnBaseline` excepts `BS_ROOT_TOKEN`. The repository's `README.md:59-63`
  has it among "Four secrets the service refuses to start without (fail-closed)",
  but neither `config.Load` nor `runServer` looks at it: only
  `deploy/docker-compose.yml:51` insists on it. Without it the service serves and
  nobody is root.
- `OnlyMembersWrite` asks for membership alone, as `RequireMember` does. The
  design of phase 4
  (`docs/superpowers/specs/2026-07-21-base-servers-ring0-phase4-frontdoor-delivery-design.md:36`,
  and again at `:100` and `:178`) has writes ask for a role on top of it.

### Bounds
Every run has two or three threads, processes or replicas: the races here are
between two parties, and a third is there where a crowd matters (rotation
commands, the throttle, a thread of another process). Keys, rows and requests
are as many as it takes to have one more than the limit in question: three
signing keys for two rotations in a row, a channel and an LRU of capacity one, a
cap of one key, two releases of which one has a migration the other lacks. Times
run past the longest window of the run, so that expiry, deletion and cooldown
happen. What the small instances leave out is in the theorems:

- `keys` has a synchronised clock, a cache lifetime of zero and no delays, so
  that three processes and three keys fit; skew, delays, several goroutines per
  server and different KEKs are covered by the proofs only.
- In `audit` the requests use one chain of two, and one of the two replicas
  (`Mortal`) stops or dies; batches over several chains, and with them a failed
  group beside groups that are stored, are covered by the proofs.
- In `limits` an LRU holds one bucket; the order of a longer one is covered by
  the proofs. A key that is evicted between two events of its own takes five
  requests, one more than the run has.

`MaxTime`, `MaxTokens`, `MaxRequests`, `MaxCalls`, `MaxRows`, `MaxSet` and
`MaxIdentities` are bounds for TLC only; the theorems hold for every value.
Constants such as `Op`, `Kind`, `Ttl`, `Proofs` and `Input` restrict what
clients send in a run to what its question needs. Deadlock is checked except
where such a bound, or the end of all requests and processes, lets the model
stop. Symmetry is only used over threads, keys and principals that nothing tells
apart, and never in a run with liveness.

### Fairness
Three runs assume some.

- `audit`: weak fairness of the recorder goroutine (the Go scheduler runs a
  goroutine that can run) and strong fairness of taking the advisory lock
  (Postgres queues its waiters).
- `startup`: weak fairness of a replica's steps, strong fairness of its
  `pg_advisory_lock`, and that Postgres ends a session whose client is gone.
- `principals`: weak fairness of a thread's steps, and strong fairness of the
  mutex (`sync.Mutex` does not starve a waiter).

Requests, starts, shutdown, crashes and administrators are not fair: nobody is
obliged to send, stop or edit anything.

Fairness of a replica's or a thread's steps includes that calls of Keycloak and
Postgres return, with an answer or an error. But for the unlock of `Apply` the
code sets no deadline on them, neither in `runServer` nor in `Create`, where `ensureUnmanagedUserAttributes`
calls Keycloak with the mutex held. A call that hangs would hold up its start or
request for ever, and with the mutex every later creation of a human in that
process; `StartsEnd`, `RequestsEnd` and `EventuallyStored` do not speak of that.

### Assumptions about time
Waits inside a step are unbounded except where the code bounds them: the five
second timeout of `Keyset` is `RefreshDelay`, which for the refresh at a server's
start is an assumption (`runServer` sets no deadline there) and does not bind the
rotation command's; the timeout of the HTTP client in
`NewVerifier` (five seconds, less than the fifteen of the throttle) is `Latency`.
`RotateDelay` and `MaxSkew` are assumptions on the deployment, and explicit. The
sampler's window is no longer than the limiter's cooldown (`FlushWindow`).

## What is proved

Every theorem holds for all values of the constants that satisfy the named
assumptions in the modules: any sets of threads, processes, keys, principals,
organisations and replicas, any capacities and durations. Each proof rests on an
inductive invariant `IInv` (`VerifierInv` for `JwksCache`), since no property is
inductive alone, and has one lemma per action or group of actions.
Facts about sequences, indices and arithmetic are small lemmas of their own, so
that the long steps are first-order and go to Zenon (the `Zenon` pragmas); SMT
gets the short ones.

**`SigningKeysProofs`**: `TypeOK`, `AlwaysCanSign`, `OneKek`, `CacheConverges`,
`RetainedUntilExpiry`. `ControlInv` ties a thread's place to its call and to a
started process. `TableInv` says that there is one active row once there is any,
that a rotation's own key is not in the table before its commit, and that the row
lock is only held between UPDATE and commit; it is what makes a second rotation
find either its own row or the winner's. `KekInv` extends `OneKek` to threads
about to store what they read. `RowTimes` and `RotationTimes` bound when a row
was demoted against when it may be deleted. `CacheInv` says that the active key
of a keyset read at a time was active then, for the cache and for keysets in
threads' hands; `TokenInv` carries that to tokens. `RetainedHolds` assumes
`WindowCoversTokens`, the comment on `DefaultRetireWindow` made precise: the
window is at least `MaxTTL + CacheTTL + RefreshDelay + RotateDelay + 3 * MaxSkew`.
With the code's 25 h window, 24 h tokens and 30 s cache that leaves about an hour
for the rest. `OneKek` is proved and in no run.

**`AuditLogProofs`**: `ChainVerifies`, `HeadIsCurrent`, `DrainedAtExit`,
`ImplementsTrail`, `OnceInOrder`. The advisory lock makes the head that an `Append` has read the head until its
transaction ends (`TxInv`); an event that was accepted is in the channel, in a
batch, stored or failed (`AcceptInv`); a recorder that has stopped has nothing
left (`ControlInv`). The refinement adds `TrailInv`: no event is accepted twice,
what a live recorder has in its batch and then in its channel is the end of what
its process accepted, and a group that is not stored yet is all of its chain
since the batch began, of which the chain has nothing. A commit is then a `Store`
of `AuditTrail`. A batch there is described by which events it has and in which
order, since what a recursive selection returns would take an induction that the
provers cannot do.

`OnceInOrder`, in no run, says of every state what `AuditTrail` says of steps: a
chain has only events recorded for it, none twice, and those of a process in the
order in which it accepted them. It follows from the refinement and `TrailInv`: a
`Store` adds a run of what one process accepted that lies past everything of that
process in the chain, and what the others accepted is disjoint from it.

**`RbacProofs`**: `AssignedWithinOrg`, `CompleteOrGone`, `CheckLinearizes`,
`OnlyMembersWrite`, `ImplementsAuthority`. `OrgsInv`, `SeedInv` and `RolesInv`
say which rows an organisation has at each stage of its life, `UsedInv` that
nothing refers to one nobody was told of, `ServedInv` what a request has already
seen to be true, `LinearInv` that the answer a check is heading for was right at
some moment since it began. `OnlyMembersWrite` adds `GateInv`: a request past
`RequireMember` is one of a member, and stays so because no operation ends a
membership but the deletion of an organisation nobody was told of. The refinement
maps the tables to owners and permissions (`OwnerBar`, `PermsBar`) and shows that
each step is a step of `Authority` or changes neither.

**`DelegationProofs`**: `TokenMatchesRow`, `RevokedStaysRevoked`,
`ValidityBounded`, `AnswersForDelegator`. `RowsInv` ties rows to what was issued,
`ThreadsInv` what a check has read to what was true when it read it, across the
rounding of seconds and the skew.

**`ApiKeysProofs`**: `TypeOK`, `DeadKeyRejected`, `LastUsedTracks`,
`CapOvershoot`, `KeyPowers`. `RowInv` says that the last use of a key is in
`last_used`, about to be written, or lost; `ThreadInv` what a request and its key
may do at each place. For the cap the invariant is `CapOvershoot` itself, which
counts active keys and requests between their count and their insert together.
The requests in flight are assumed finitely many.

**`RateLimitProofs`**: `TypeOK`, `GlobalBackstop`, `MissesTold`, `EventsSpaced`.
`Lists` and `Buckets` say that the LRU's list and map agree, `Threads` that clock
readings are not ahead of the clock, `Backstop` that tokens left and requests
passed add up to no more than burst and refill, `Told` that the sampler's counter
is the number of unknown keys not yet reported.

**`StartupProofs`**: `LockWhileApplying`, `LedgerIsPrefix`, `ServesOnBaseline`,
`SomeoneWins`. `ApplyInv`, `ProvisionInv`, `StagesInv` and `SettingsInv` say what
a replica has behind it at each point of `Apply`, `EnsureProvisioned` and
`runServer`; `IdleInv` that it is at the start of both otherwise. `SomeoneWins`
adds `WinInv`: while nothing but lost races has ended a start, there is a replica
whose own creation won, and it is past that call without an error.

**`KeycloakProofs`**: of `JwksCache`, `FetchesSpaced`, `NeverOlder` and
`WarmAccepted`. The verifier's record of its last attempt is the time the last
fetch started, however that ended, and a fetch is over before the throttle lets
the next one start (`Spaced`), so that what is fetched is not older than what is cached (`Growing`),
and a key that was cached is no newer than the newest set (`Known`). It assumes
that the HTTP timeout is below the refresh interval. Of `Principals`, `TypeOK`,
`RowMatchesIdentity`, `Accounted` and `StrandedStays`. An identity belongs to one
request from its creation to the answer (`ThreadsInv`); a process whose flag is
set, or a thread that is about to create a human, has the policy behind it unless
it was reverted (`PolicyInv`); names are taken once (`NamesUnique`); and so rows,
events and failures account for every identity (`StoresInv`). The mutex plays no
part in these; it matters to `RequestsEnd` alone.

### What is only model-checked
- `EventuallyStored`, `StartsEnd` and `RequestsEnd`: liveness under fairness is
  beyond the prover.
- `ExactlyOnce` of `AuditList` is false, and TLC shows how.

## What is not modelled

- The paging of `ListApiKeys`: its cursor is a creation time, and equal times on
  both sides of a page end are skipped.
- Route registration, health probes, and the rendering of the key set: no
  behaviour over time. Numeric settings and lists have defaults and are not told
  apart.
- Cryptography, parsing of tokens and headers, and generated code.
