------------------------------ MODULE Migrate ------------------------------
(***************************************************************************)
(* migrate.Apply, run by every replica as it starts: a session-level       *)
(* advisory lock on one connection, the ledger of applied versions, and    *)
(* one transaction per migration that is not in it. Replicas of different  *)
(* releases carry different numbers of migrations. (internal/migrate.)     *)
(*                                                                         *)
(* The sorted file names are numbered from 1; the Up section of a file is  *)
(* known by that number. It creates tables, so running it twice fails.     *)
(***************************************************************************)
EXTENDS Replicas, Integers

CONSTANTS
    Embedded,       \* how many migrations each replica's binary carries
    None,           \* nobody holds the lock
    Orphan          \* a session whose client is gone and that Postgres has yet to end

ASSUME MigrateConstants ==
    /\ Embedded \in [Replica -> Nat]
    /\ None \notin Replica /\ Orphan \notin Replica /\ None # Orphan

VARIABLES
    lock,           \* the session that holds the advisory lock
    ledger,         \* the rows of schema_migrations
    schema,         \* the migrations whose Up section is in effect
    mig             \* where each replica is in Apply

database == <<lock, ledger, schema>>

\* The loop variable name, and the error Apply is about to return.
NotApplying == [pc |-> "idle", at |-> 1, err |-> FALSE]

MigrateTypeOK ==
    /\ lock \in Replica \cup {None, Orphan}
    /\ ledger \subseteq Nat /\ schema \subseteq Nat
    /\ mig \in [Replica -> [pc : {"idle", "acquire", "lock", "ledger", "exists", "tx", "unlock",
                                  "returned"},
                            at : Nat, err : BOOLEAN]]
    /\ \A r \in Replica : mig[r].at <= Embedded[r] + 1

MigrateInit ==
    /\ lock = None /\ ledger = {} /\ schema = {}
    /\ mig = [r \in Replica |-> NotApplying]

Goto(r, label) == mig' = [mig EXCEPT ![r].pc = label]
----------------------------------------------------------------------------
Acquire(r) ==
    /\ mig[r].pc = "acquire"
    /\ Goto(r, "lock")
    /\ UNCHANGED database

\* Acquire fails before the deferred unlock is in place.
AcquireFails(r) ==
    /\ mig[r].pc = "acquire"
    /\ mig' = [mig EXCEPT ![r].pc = "returned", ![r].err = TRUE]
    /\ UNCHANGED database

\* pg_advisory_lock waits until the lock is free.
Lock(r) ==
    /\ mig[r].pc = "lock" /\ lock = None
    /\ lock' = r
    /\ Goto(r, "ledger")
    /\ UNCHANGED <<ledger, schema>>

\* CREATE TABLE IF NOT EXISTS, which an earlier Apply may have done.
EnsureLedger(r) ==
    /\ mig[r].pc = "ledger"
    /\ Goto(r, "exists")
    /\ UNCHANGED database

\* The loop over the names: the end of it, a version that is in the ledger, or
\* one that is to be applied.
Exists(r) ==
    /\ mig[r].pc = "exists"
    /\ \/ mig[r].at > Embedded[r] /\ Goto(r, "unlock")
       \/ /\ mig[r].at <= Embedded[r] /\ mig[r].at \in ledger
          /\ mig' = [mig EXCEPT ![r].at = @ + 1]
       \/ mig[r].at <= Embedded[r] /\ mig[r].at \notin ledger /\ Goto(r, "tx")
    /\ UNCHANGED database

\* The transaction's effect: the Up section and the ledger row, together.
Commits(r) ==
    /\ mig[r].at \notin schema \cup ledger
    /\ schema' = schema \cup {mig[r].at}
    /\ ledger' = ledger \cup {mig[r].at}

Tx(r) ==
    /\ mig[r].pc = "tx"
    /\ Commits(r)
    /\ mig' = [mig EXCEPT ![r].pc = "exists", ![r].at = @ + 1]
    /\ UNCHANGED lock

\* Mutant: the Up section is executed outside the transaction.
CommitUnseenSplit(r) ==
    \/ UNCHANGED <<ledger, schema>>
    \/ mig[r].pc = "tx" /\ schema' = schema \cup {mig[r].at} /\ UNCHANGED ledger

\* What a COMMIT whose answer is never seen has done: nothing, or all of it.
CommitUnseen(r) ==
    \/ UNCHANGED <<ledger, schema>>
    \/ mig[r].pc = "tx" /\ Commits(r)

\* A session that is lost keeps its lock until Postgres notices, and may have been
\* granted it just before.
Abandoned(r) ==
    IF lock = r \/ (lock = None /\ mig[r].pc = "lock") THEN Orphan ELSE lock

\* A statement or the commit fails: an error of the statement, ctx cancelled,
\* or the connection lost.
ApplyFails(r) ==
    /\ mig[r].pc \in {"lock", "ledger", "exists", "tx"}
    /\ CommitUnseen(r)
    /\ mig' = [mig EXCEPT ![r].pc = "unlock", ![r].err = TRUE]
    /\ lock' \in {lock, Abandoned(r)}

\* Mutant: the connection goes back to the pool even if the unlock failed.
UnlockReleases(r) ==
    /\ mig[r].pc = "unlock"
    /\ Goto(r, "returned")
    /\ lock' \in {lock, IF lock = r THEN None ELSE lock}
    /\ UNCHANGED <<ledger, schema>>

\* The deferred function: unlock and Release, or else Hijack and Close.
Unlock(r) ==
    /\ mig[r].pc = "unlock"
    /\ Goto(r, "returned")
    /\ lock' \in {Abandoned(r), IF lock = r THEN None ELSE lock}
    /\ UNCHANGED <<ledger, schema>>

\* The process is gone, whatever it was doing.
Killed(r) ==
    /\ CommitUnseen(r)
    /\ mig' = [mig EXCEPT ![r] = NotApplying]
    /\ lock' = Abandoned(r)

SessionEnds ==
    /\ lock = Orphan
    /\ lock' = None
    /\ UNCHANGED <<ledger, schema, mig>>

Apply(r) ==
    \/ Acquire(r) \/ Lock(r) \/ EnsureLedger(r) \/ Exists(r) \/ Tx(r) \/ Unlock(r)
----------------------------------------------------------------------------
Applying == {"ledger", "exists", "tx"}

(***************************************************************************)
(* At most one replica works on the schema at a time, and nothing but a    *)
(* running Apply, or a session that is about to end, holds the lock: no    *)
(* connection that still has it is put back into a pool, whatever failed   *)
(* (the comment on the deferred unlock in Apply).                          *)
(***************************************************************************)
LockWhileApplying ==
    \A r \in Replica : /\ mig[r].pc \in Applying => lock = r
                       /\ lock = r => mig[r].pc \in Applying \cup {"unlock"}

(***************************************************************************)
(* Whichever replicas, of whichever releases, apply, fail and die: the     *)
(* migrations in effect are exactly those of the ledger, and they are the  *)
(* first so many in the order of their names, with none left out.          *)
(***************************************************************************)
LedgerIsPrefix ==
    /\ schema = ledger
    /\ \A v \in ledger : \A u \in 1..v : u \in ledger
=============================================================================
