------------------------------ MODULE AuditLog ------------------------------
(***************************************************************************)
(* The audit log: request handlers record events into the bounded channel  *)
(* of their process, one recorder goroutine per process drains it in       *)
(* batches, and Store.Append writes a batch to the hash chains that all    *)
(* replicas share. Shutdown stops the server first and the recorder after  *)
(* it. (internal/audit recorder.go and store.go, cmd/base-servers main.go.)*)
(*                                                                         *)
(* A request is served once and records one event, which is known by the   *)
(* request. A hash is modelled by the sequence of what was hashed, so that *)
(* different contents have different hashes.                               *)
(***************************************************************************)
EXTENDS Naturals, Sequences, Functions

CONSTANTS
    Proc,           \* the replicas
    Request,        \* requests that record an event
    Home,           \* the replica that serves each request
    Chain,          \* audit chains
    ChainOf,        \* the chain of each request's event
    Buffer,         \* capacity of AsyncRecorder.ch
    MaxBatch,       \* 256, the largest batch
    Mortal,         \* the replicas that are stopped or killed (a bound on the instance)
    None

ASSUME ConstantsOK ==
    /\ Home \in [Request -> Proc] /\ ChainOf \in [Request -> Chain]
    /\ Buffer \in Nat \ {0} /\ MaxBatch \in Nat \ {0}
    /\ Mortal \subseteq Proc
    /\ None \notin Proc /\ None \notin Chain

VARIABLES
    phase,      \* of a process: serving, stopping, cancelled, gone
    timedOut,   \* ghost: Shutdown gave up on running requests
    req,        \* of a request: new, running, recorded, done
    ch,         \* AsyncRecorder.ch
    dropped,    \* AsyncRecorder.dropped
    rpc,        \* where the recorder goroutine is
    draining,   \* it is in drainAll
    taken,      \* how many events drainUpTo has taken off the channel
    batch,      \* these events by chain, as append groups them, unless stored or failed
    cur,        \* the chain Append works on
    seq, prev,  \* its sequence number and hash so far
    rows,       \* what its transaction has inserted
    lock,       \* the advisory lock of each chain
    table,      \* audit_events, by chain
    accepted,   \* ghost: per process, the events that entered the channel
    failed      \* ghost: events of an Append that returned an error

transaction == <<cur, seq, prev, rows>>
recorder == <<rpc, draining, taken, batch, transaction>>
database == <<lock, table>>
server == <<phase, timedOut, req>>
vars == <<server, ch, dropped, recorder, database, accepted, failed>>

RPC == {"select", "drain", "group", "lock", "head", "insert", "stopped"}

Row == [seq : Nat, ev : Request, prev : Seq(Nat \X Request),
        hash : Seq(Nat \X Request)]

TypeOK ==
    /\ phase \in [Proc -> {"serving", "stopping", "cancelled", "gone"}]
    /\ timedOut \in [Proc -> BOOLEAN]
    /\ req \in [Request -> {"new", "running", "recorded", "done"}]
    /\ ch \in [Proc -> Seq(Request)] /\ \A p \in Proc : Len(ch[p]) <= Buffer
    /\ dropped \in [Proc -> Nat]
    /\ rpc \in [Proc -> RPC] /\ draining \in [Proc -> BOOLEAN]
    /\ taken \in [Proc -> 0..MaxBatch] /\ batch \in [Proc -> [Chain -> Seq(Request)]]
    /\ cur \in [Proc -> Chain \cup {None}]
    /\ seq \in [Proc -> Nat] /\ prev \in [Proc -> Seq(Nat \X Request)]
    /\ rows \in [Proc -> Seq(Row)]
    /\ lock \in [Chain -> Proc \cup {None}]
    /\ table \in [Chain -> Seq(Row)]
    /\ accepted \in [Proc -> Seq(Request)]
    /\ failed \subseteq Request

genesis == <<>>
NoBatch == [c \in Chain |-> <<>>]

Init ==
    /\ phase = [p \in Proc |-> "serving"] /\ timedOut = [p \in Proc |-> FALSE]
    /\ req = [r \in Request |-> "new"]
    /\ ch = [p \in Proc |-> <<>>] /\ dropped = [p \in Proc |-> 0]
    /\ rpc = [p \in Proc |-> "select"] /\ draining = [p \in Proc |-> FALSE]
    /\ taken = [p \in Proc |-> 0] /\ batch = [p \in Proc |-> NoBatch]
    /\ cur = [p \in Proc |-> None] /\ seq = [p \in Proc |-> 0]
    /\ prev = [p \in Proc |-> genesis] /\ rows = [p \in Proc |-> <<>>]
    /\ lock = [c \in Chain |-> None] /\ table = [c \in Chain |-> <<>>]
    /\ accepted = [p \in Proc |-> <<>>] /\ failed = {}
----------------------------------------------------------------------------
(* Requests and the life of the process. *)

Alive(p) == phase[p] # "gone"

Begin(r) ==
    /\ req[r] = "new" /\ phase[Home[r]] = "serving"
    /\ req' = [req EXCEPT ![r] = "running"]
    /\ UNCHANGED <<phase, timedOut, ch, dropped, recorder, database, accepted, failed>>

\* Record never blocks: with the channel full the event is dropped and counted.
Record(r) ==
    LET p == Home[r] IN
    /\ req[r] = "running" /\ Alive(p)
    /\ req' = [req EXCEPT ![r] = "recorded"]
    /\ \/ /\ Len(ch[p]) < Buffer
          /\ ch' = [ch EXCEPT ![p] = Append(@, r)]
          /\ accepted' = [accepted EXCEPT ![p] = Append(@, r)]
          /\ UNCHANGED dropped
       \/ /\ Len(ch[p]) = Buffer
          /\ dropped' = [dropped EXCEPT ![p] = @ + 1]
          /\ UNCHANGED <<ch, accepted>>
    /\ UNCHANGED <<phase, timedOut, recorder, database, failed>>

Finish(r) ==
    /\ req[r] = "recorded" /\ Alive(Home[r])
    /\ req' = [req EXCEPT ![r] = "done"]
    /\ UNCHANGED <<phase, timedOut, ch, dropped, recorder, database, accepted, failed>>

InFlight(p) == {r \in Request : Home[r] = p /\ req[r] \in {"running", "recorded"}}

\* SIGTERM: runServer passes <-ctx.Done() and calls srv.Shutdown.
Signal(p) ==
    /\ phase[p] = "serving" /\ p \in Mortal
    /\ phase' = [phase EXCEPT ![p] = "stopping"]
    /\ UNCHANGED <<timedOut, req, ch, dropped, recorder, database, accepted, failed>>

\* Shutdown returns, with every request finished or after its 10s timeout, and
\* auditCancel is called in either case.
Shutdown(p) ==
    /\ phase[p] = "stopping"
    /\ phase' = [phase EXCEPT ![p] = "cancelled"]
    /\ timedOut' = [timedOut EXCEPT ![p] = InFlight(p) # {}]
    /\ UNCHANGED <<req, ch, dropped, recorder, database, accepted, failed>>

\* Append's transaction has ended, one way or the other.
EndTx(p) ==
    /\ lock' = [c \in Chain |-> IF lock[c] = p THEN None ELSE lock[c]]
    /\ cur' = [cur EXCEPT ![p] = None]
    /\ seq' = [seq EXCEPT ![p] = 0] /\ prev' = [prev EXCEPT ![p] = genesis]
    /\ rows' = [rows EXCEPT ![p] = <<>>]

\* The process's memory is gone, and Postgres rolls its transaction back.
Gone(p) ==
    /\ phase' = [phase EXCEPT ![p] = "gone"]
    /\ ch' = [ch EXCEPT ![p] = <<>>]
    /\ taken' = [taken EXCEPT ![p] = 0] /\ batch' = [batch EXCEPT ![p] = NoBatch]
    /\ rpc' = [rpc EXCEPT ![p] = "stopped"]
    /\ draining' = [draining EXCEPT ![p] = FALSE]
    /\ dropped' = [dropped EXCEPT ![p] = 0]
    /\ EndTx(p)
    /\ UNCHANGED <<timedOut, req, table, accepted>>

\* runServer returns once auditDone is closed.
Exit(p) ==
    /\ phase[p] = "cancelled" /\ rpc[p] = "stopped"
    /\ Gone(p)
    /\ UNCHANGED failed

Batched(p) == UNION {Range(batch[p][c]) : c \in Chain}

\* Killed at any point; what it had queued counts as failed.
Crash(p) ==
    /\ Alive(p) /\ p \in Mortal
    /\ Gone(p)
    /\ failed' = failed \cup Range(ch[p]) \cup Batched(p)
----------------------------------------------------------------------------
(* The recorder goroutine: Run, flush, drainAll, drainUpTo. *)

Goto(p, label) == rpc' = [rpc EXCEPT ![p] = label]

Take(p) ==
    LET r == Head(ch[p]) IN
    /\ ch[p] # <<>>
    /\ taken' = [taken EXCEPT ![p] = @ + 1]
    /\ batch' = [batch EXCEPT ![p][ChainOf[r]] = Append(@, r)]
    /\ ch' = [ch EXCEPT ![p] = Tail(@)]

Receive(p) ==
    /\ rpc[p] = "select"
    /\ Take(p)
    /\ Goto(p, "drain")
    /\ UNCHANGED <<server, dropped, draining, transaction, database, accepted, failed>>

\* Mutant: the recorder stops at the signal, not after Shutdown.
CancelledEarly(p) ==
    /\ rpc[p] = "select" /\ phase[p] \in {"stopping", "cancelled"}
    /\ draining' = [draining EXCEPT ![p] = TRUE]
    /\ Goto(p, "drain")
    /\ UNCHANGED <<server, ch, dropped, taken, batch, transaction, database, accepted, failed>>

\* ctx.Done; select may still prefer an event that is ready.
Cancelled(p) ==
    /\ rpc[p] = "select" /\ phase[p] = "cancelled"
    /\ draining' = [draining EXCEPT ![p] = TRUE]
    /\ Goto(p, "drain")
    /\ UNCHANGED <<server, ch, dropped, taken, batch, transaction, database, accepted, failed>>

\* Handlers may record between two receives.
DrainOne(p) ==
    /\ rpc[p] = "drain" /\ taken[p] < MaxBatch
    /\ Take(p)
    /\ UNCHANGED <<server, dropped, rpc, draining, transaction, database, accepted, failed>>

DrainEnd(p) ==
    /\ rpc[p] = "drain"
    /\ ch[p] = <<>> \/ taken[p] = MaxBatch
    /\ Goto(p, IF taken[p] # 0 THEN "group" ELSE IF draining[p] THEN "stopped" ELSE "select")
    /\ UNCHANGED <<server, ch, dropped, draining, taken, batch, transaction, database, accepted,
                   failed>>
----------------------------------------------------------------------------
(* append calls Store.Append for each chain of the batch, in no particular *)
(* order (it ranges over a map).                                           *)

AppendBegin(p, c) ==
    /\ rpc[p] = "group" /\ batch[p][c] # <<>>
    /\ cur' = [cur EXCEPT ![p] = c]
    /\ Goto(p, "lock")
    /\ UNCHANGED <<server, ch, dropped, draining, taken, batch, seq, prev, rows, database,
                   accepted, failed>>

AppendEnd(p) ==
    /\ rpc[p] = "group" /\ batch[p] = NoBatch
    /\ taken' = [taken EXCEPT ![p] = 0]
    /\ Goto(p, IF draining[p] THEN "drain" ELSE "select")
    /\ UNCHANGED <<server, ch, dropped, draining, batch, transaction, database, accepted, failed>>

\* Mutant: the advisory lock is not taken.
AppendNoLock(p) ==
    /\ rpc[p] = "lock"
    /\ Goto(p, "head")
    /\ UNCHANGED <<server, ch, dropped, draining, taken, batch, transaction, database, accepted,
                   failed>>

\* pg_advisory_xact_lock, held to the end of the transaction.
AppendLock(p) ==
    /\ rpc[p] = "lock" /\ lock[cur[p]] = None
    /\ lock' = [lock EXCEPT ![cur[p]] = p]
    /\ Goto(p, "head")
    /\ UNCHANGED <<server, ch, dropped, draining, taken, batch, transaction, table, accepted,
                   failed>>

\* ORDER BY seq DESC LIMIT 1
AuditChainHead(c) == {r \in Range(table[c]) : \A s \in Range(table[c]) : s.seq <= r.seq}

\* No row means sequence number 0 and the genesis hash.
AppendHead(p) ==
    LET none == [seq |-> 0, hash |-> genesis]
        heads == AuditChainHead(cur[p])
        head == IF heads = {} THEN none ELSE CHOOSE r \in heads : TRUE
    IN
    /\ rpc[p] = "head"
    /\ seq' = [seq EXCEPT ![p] = head.seq]
    /\ prev' = [prev EXCEPT ![p] = head.hash]
    /\ Goto(p, "insert")
    /\ UNCHANGED <<server, ch, dropped, draining, taken, batch, cur, rows, database, accepted,
                   failed>>

canonicalHash(n, e, before) == Append(before, <<n, e>>)

\* The primary key (chain, seq) must be free, of committed rows and of those of
\* other transactions, which it waits for.
InsertAuditEvent(p, row) ==
    /\ \A old \in Range(table[cur[p]]) : old.seq # row.seq
    /\ \A q \in Proc \ {p} : cur[q] = cur[p] => \A old \in Range(rows[q]) : old.seq # row.seq
    /\ rows' = [rows EXCEPT ![p] = Append(@, row)]

\* Mutant: the previous hash is not carried over to the next event.
AppendInsertStale(p) ==
    LET e == batch[p][cur[p]][Len(rows[p]) + 1]
        n == seq[p] + 1
    IN
    /\ rpc[p] = "insert" /\ Len(rows[p]) < Len(batch[p][cur[p]])
    /\ InsertAuditEvent(p, [seq |-> n, ev |-> e, prev |-> prev[p],
                            hash |-> canonicalHash(n, e, prev[p])])
    /\ seq' = [seq EXCEPT ![p] = n]
    /\ UNCHANGED <<server, ch, dropped, rpc, draining, taken, batch, cur, prev, database, accepted,
                   failed>>

\* One round of Append's loop.
AppendInsert(p) ==
    LET e == batch[p][cur[p]][Len(rows[p]) + 1]
        n == seq[p] + 1
        h == canonicalHash(n, e, prev[p])
    IN
    /\ rpc[p] = "insert" /\ Len(rows[p]) < Len(batch[p][cur[p]])
    /\ InsertAuditEvent(p, [seq |-> n, ev |-> e, prev |-> prev[p], hash |-> h])
    /\ seq' = [seq EXCEPT ![p] = n]
    /\ prev' = [prev EXCEPT ![p] = h]
    /\ UNCHANGED <<server, ch, dropped, rpc, draining, taken, batch, cur, database, accepted,
                   failed>>

\* Append is over; the group it was called with is done.
Return(p) ==
    /\ batch' = [batch EXCEPT ![p][cur[p]] = <<>>]
    /\ EndTx(p)
    /\ Goto(p, "group")
    /\ UNCHANGED <<server, ch, dropped, draining, taken, accepted>>

Committing(p) == rpc[p] = "insert" /\ Len(rows[p]) = Len(batch[p][cur[p]])

\* Mutant: the group is appended again when the answer to the commit is lost.
AppendCommitRetries(p) ==
    /\ Committing(p)
    /\ table' = [table EXCEPT ![cur[p]] = @ \o rows[p]]
    /\ \/ Return(p)
       \/ /\ EndTx(p) /\ Goto(p, "group")
          /\ UNCHANGED <<server, ch, dropped, draining, taken, batch, accepted>>
    /\ UNCHANGED failed

\* Commit. When its answer is lost Append returns an error, which is only logged:
\* the same step.
AppendCommit(p) ==
    /\ Committing(p)
    /\ table' = [table EXCEPT ![cur[p]] = @ \o rows[p]]
    /\ Return(p)
    /\ UNCHANGED failed

\* Mutant: the transaction is left open.
AppendFailsOpen(p) ==
    /\ rpc[p] \in {"lock", "head", "insert"}
    /\ failed' = failed \cup Range(batch[p][cur[p]])
    /\ batch' = [batch EXCEPT ![p][cur[p]] = <<>>]
    /\ Goto(p, "group")
    /\ UNCHANGED <<server, ch, dropped, draining, taken, transaction, database, accepted>>

\* Any error of the transaction: rolled back and logged, the events are gone.
AppendFails(p) ==
    /\ rpc[p] \in {"lock", "head", "insert"}
    /\ failed' = failed \cup Range(batch[p][cur[p]])
    /\ Return(p)
    /\ UNCHANGED table

Recorder(p) ==
    \/ Receive(p) \/ Cancelled(p) \/ DrainOne(p) \/ DrainEnd(p)
    \/ \E c \in Chain : AppendBegin(p, c)
    \/ AppendEnd(p) \/ AppendLock(p) \/ AppendHead(p) \/ AppendInsert(p) \/ AppendCommit(p)

Next ==
    \/ \E r \in Request : Begin(r) \/ Record(r) \/ Finish(r)
    \/ \E p \in Proc : Recorder(p) \/ AppendFails(p) \/ Signal(p) \/ Shutdown(p)
                          \/ Exit(p) \/ Crash(p)

Spec == Init /\ [][Next]_vars

\* The goroutine is scheduled, and Postgres queues the waiters of a lock.
Fairness == \A p \in Proc : WF_vars(Recorder(p)) /\ SF_vars(AppendLock(p))

FairSpec == Spec /\ Fairness
----------------------------------------------------------------------------
(* Store.Verify, on one chain. *)

\* The rows in the order of their insertion. Verify wants the i-th to have
\* number i, so that it accepts them only if that is also ORDER BY seq.
ScanAuditChain(c) == table[c]

Verify(c) ==
    LET scan == ScanAuditChain(c) IN
    \A i \in DOMAIN scan :
        /\ scan[i].seq = i
        /\ scan[i].prev = IF i = 1 THEN genesis ELSE scan[i - 1].hash
        /\ scan[i].hash = canonicalHash(scan[i].seq, scan[i].ev, scan[i].prev)

(***************************************************************************)
(* Whatever replicas append, fail or crash in between, every chain in the  *)
(* database passes Verify: consecutive from 1, each row linked to the last *)
(* (Store.Append: "跨副本一致").                                            *)
(***************************************************************************)
ChainVerifies == \A c \in Chain : Verify(c)

(***************************************************************************)
(* The head an Append read is still the head when it inserts, so that no   *)
(* two replicas ever compete for a sequence number and no batch is lost to *)
(* a primary key conflict.                                                 *)
(***************************************************************************)
HeadIsCurrent ==
    \A p \in Proc : rpc[p] = "insert" => seq[p] = Len(table[cur[p]]) + Len(rows[p])

Stored == UNION {{row.ev : row \in Range(table[c])} : c \in Chain}

(***************************************************************************)
(* When Shutdown returned with every request finished, the process exits   *)
(* only after each event it accepted is stored, or its Append failed: none *)
(* is left in the channel (runServer's order of Shutdown, auditCancel and  *)
(* auditDone).                                                             *)
(***************************************************************************)
DrainedAtExit ==
    \A p \in Proc : phase[p] = "cancelled" /\ rpc[p] = "stopped" /\ ~timedOut[p] =>
        /\ InFlight(p) = {}
        /\ Range(accepted[p]) \subseteq Stored \cup failed

LogBar == [c \in Chain |-> [i \in DOMAIN table[c] |-> table[c][i].ev]]

Trail == INSTANCE AuditTrail WITH Event <- Request, log <- LogBar

(***************************************************************************)
(* The recorders and the shared chains implement AuditTrail: chains only   *)
(* grow, no event is stored twice, and those of one process are stored in  *)
(* the order in which it recorded them (drainUpTo, append, Store.Append).  *)
(***************************************************************************)
ImplementsTrail == Trail!Spec

(***************************************************************************)
(* An event that is in the channel or in a batch of a running recorder is  *)
(* eventually stored, unless an error is logged for it or the process      *)
(* dies: no transaction blocks the others' for ever.                       *)
(***************************************************************************)
Queued(r) == /\ rpc[Home[r]] # "stopped"
             /\ r \in Range(ch[Home[r]]) \cup Batched(Home[r])

EventuallyStored == \A r \in Request : Queued(r) ~> r \in Stored \cup failed
============================================================================
