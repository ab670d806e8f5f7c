--------------------------- MODULE StartupProofs ---------------------------
(***************************************************************************)
(* Proofs, for every set of replicas, every number of migrations in each   *)
(* of their releases and every way to start them without settings, that    *)
(* Startup keeps its safety invariants. The inductive invariant adds what  *)
(* a replica has behind it at each point of Apply, EnsureProvisioned and   *)
(* runServer.                                                              *)
(***************************************************************************)
EXTENDS Startup, TLAPS

\* The points of runServer after each of its stages.
AfterConfig == {"migrate", "keys", "secret", "provision", "issuer", "serving"}
AfterMigrate == AfterConfig \ {"migrate"}
AfterKeys == AfterMigrate \ {"keys"}
AfterSecret == AfterKeys \ {"secret"}
AfterProvision == AfterSecret \ {"provision"}

(***************************************************************************)
(* Whatever the loop of Apply is past is in the ledger, and Apply returns  *)
(* without an error only from its end.                                     *)
(***************************************************************************)
ApplyInv ==
    \A r \in Replica :
        /\ mig[r].at >= 1
        /\ \A v \in Nat : 1 <= v /\ v < mig[r].at => v \in ledger
        /\ mig[r].pc = "tx" => mig[r].at <= Embedded[r]
        /\ mig[r].pc \in {"unlock", "returned"} /\ ~mig[r].err => mig[r].at > Embedded[r]

(***************************************************************************)
(* A replica past the migrations has those of its release, and one past    *)
(* EnsureActive has a signing key.                                         *)
(***************************************************************************)
StagesInv ==
    \A r \in Replica :
        /\ boot[r] \in AfterMigrate => 1..Embedded[r] \subseteq ledger
        /\ boot[r] \in AfterKeys => activeKey

(***************************************************************************)
(* r is past upserting client i; it has found or created the realm.        *)
(***************************************************************************)
PastClient(r, i) ==
    \/ boot[r] \in AfterProvision
    \/ boot[r] = "provision" /\ (prov[r].i > i \/ (prov[r].pc = "returned" /\ ~prov[r].err))

PastRealm(r) ==
    \/ boot[r] \in AfterProvision
    \/ prov[r].pc \in {"getClients", "createClient", "updateClient"}
    \/ prov[r].pc = "returned" /\ ~prov[r].err

ProvisionInv ==
    \A r \in Replica :
        /\ PastRealm(r) => realm
        /\ \A i \in 1..2 : PastClient(r, i) =>
              clients[i] = "want" \/ (clients[i] = "other" /\ i \in since[r])

\* The settings that have been looked at.
SettingsInv ==
    \A r \in Replica :
        /\ boot[r] \in AfterConfig =>
              missing[r] \cap {"DATABASE_URL", "KEYCLOAK_URL", "BS_SIGNING_KEK"} = {}
        /\ boot[r] \in AfterSecret => "BS_SERVICE_CLIENT_SECRET" \notin missing[r]
        /\ boot[r] = "serving" => missing[r] \subseteq {"BS_ROOT_TOKEN"}

\* Frames are new when Apply and EnsureProvisioned are called.
IdleInv ==
    \A r \in Replica : /\ mig[r].pc = "idle" => mig[r] = NotApplying
                       /\ prov[r].pc = "idle" => prov[r] = NotProvisioning

IInv ==
    /\ TypeOK /\ LockWhileApplying /\ LedgerIsPrefix
    /\ ApplyInv /\ StagesInv /\ ProvisionInv /\ SettingsInv /\ IdleInv
----------------------------------------------------------------------------
LEMMA TwoClients == Len(Client) = 2
  BY DEF Client

LEMMA InitHolds == Init => IInv
  <1> SUFFICES ASSUME Init PROVE IInv
    OBVIOUS
  <1> USE DEF Init, MigrateInit, ProvisionInit, NotApplying, NotProvisioning
  <1>1. TypeOK
    <2>1. MigrateTypeOK
      BY MigrateConstants DEF MigrateTypeOK
    <2>2. ProvisionTypeOK
      <3>1. realm \in BOOLEAN
        BY Zenon
      <3> QED
        BY <3>1 DEF ProvisionTypeOK
    <2>3. /\ boot \in [Replica -> {"down"}]
          /\ missing \in [Replica -> SUBSET Setting]
          /\ since \in [Replica -> SUBSET (1..Len(Client))]
      OBVIOUS
    <2>4. activeKey \in BOOLEAN /\ fault \in BOOLEAN /\ lost \in BOOLEAN
      BY Zenon
    <2> QED
      BY <2>1, <2>2, <2>3, <2>4 DEF TypeOK
  <1>2. LockWhileApplying /\ LedgerIsPrefix
    BY MigrateConstants DEF LockWhileApplying, LedgerIsPrefix, Applying
  <1>3. ApplyInv /\ StagesInv /\ IdleInv
    BY DEF ApplyInv, IdleInv, StagesInv, AfterKeys, AfterMigrate, AfterConfig
  <1>4. ProvisionInv /\ SettingsInv
    BY DEF ProvisionInv, PastRealm, PastClient, SettingsInv, AfterProvision, AfterSecret,
           AfterKeys, AfterMigrate, AfterConfig
  <1> QED
    BY <1>1, <1>2, <1>3, <1>4 DEF IInv
----------------------------------------------------------------------------
\* A step takes no row out of the ledger and leaves it a prefix.
LedgerNext ==
    /\ ledger \subseteq ledger' /\ ledger' \subseteq Nat /\ schema' \subseteq Nat
    /\ LedgerIsPrefix'

(***************************************************************************)
(* A transaction that may have committed leaves a prefix.                  *)
(***************************************************************************)
LEMMA CommitUnseenEffect ==
    ASSUME IInv, NEW r \in Replica, CommitUnseen(r)
    PROVE  LedgerNext
  <1>1. CASE UNCHANGED <<ledger, schema>>
    BY <1>1 DEF IInv, TypeOK, MigrateTypeOK, LedgerIsPrefix, LedgerNext
  <1>2. CASE Commits(r)
    <2>1. mig[r].at \in Nat /\ ledger \subseteq Nat
      BY DEF IInv, TypeOK, MigrateTypeOK
    <2>2. \A v \in Nat : 1 <= v /\ v < mig[r].at => v \in ledger
      BY DEF IInv, ApplyInv
    <2>3. schema = ledger /\ \A v \in ledger : \A u \in 1..v : u \in ledger
      BY DEF IInv, LedgerIsPrefix
    <2>4. ledger' = ledger \cup {mig[r].at} /\ schema' = schema \cup {mig[r].at}
      BY <1>2 DEF Commits
    <2>5. ASSUME NEW v \in ledger', NEW u \in 1..v PROVE u \in ledger'
      BY <2>1, <2>2, <2>3, <2>4, <2>5
    <2> QED
      BY Zenon, <2>1, <2>3, <2>4, <2>5 DEF LedgerIsPrefix, LedgerNext
  <1> QED
    BY <1>1, <1>2 DEF CommitUnseen

\* The types of mig and of the database, and what Apply needs of them.
ApplyOK == MigrateTypeOK /\ LockWhileApplying /\ LedgerIsPrefix /\ ApplyInv

Frame == [pc : {"idle", "acquire", "lock", "ledger", "exists", "tx", "unlock", "returned"},
          at : Nat, err : BOOLEAN]

(***************************************************************************)
(* A step of r in Apply replaces its own frame by m, does nothing to the   *)
(* others and takes no row out of the ledger; it is enough to look at m.   *)
(***************************************************************************)
FrameNext(r, m) ==
    /\ m \in Frame /\ mig' = [mig EXCEPT ![r] = m]
    /\ m.at >= 1 /\ m.at <= Embedded[r] + 1
    /\ \A v \in Nat : 1 <= v /\ v < m.at => v \in ledger'
    /\ m.pc = "tx" => m.at <= Embedded[r]
    /\ m.pc \in {"unlock", "returned"} /\ ~m.err => m.at > Embedded[r]

LockNext(r, label) ==
    /\ lock' \in Replica \cup {None, Orphan}
    /\ label \in Applying => lock' = r
    /\ lock' = r => label \in Applying \cup {"unlock"}
    /\ \A q \in Replica : q # r => (lock' = q <=> lock = q)

LEMMA FrameReplaced ==
    ASSUME IInv, NEW r \in Replica, NEW m, FrameNext(r, m), LedgerNext, LockNext(r, m.pc)
    PROVE  ApplyOK'
  <1>1. mig \in [Replica -> Frame] /\ Embedded \in [Replica -> Nat]
    BY MigrateConstants DEF IInv, TypeOK, MigrateTypeOK, Frame
  <1>2. mig' \in [Replica -> Frame] /\ \A q \in Replica : mig'[q] = IF q = r THEN m ELSE mig[q]
    BY <1>1 DEF FrameNext
  <1>3. MigrateTypeOK'
    BY <1>1, <1>2 DEF FrameNext, LedgerNext, LockNext, IInv, TypeOK, MigrateTypeOK, Frame
  <1>4. LockWhileApplying'
    BY <1>2 DEF IInv, LockWhileApplying, LockNext
  <1>5. ApplyInv'
    BY <1>2 DEF IInv, ApplyInv, FrameNext, LedgerNext
  <1> QED
    BY <1>3, <1>4, <1>5 DEF ApplyOK, LedgerNext

\* What is known of r before a step of it.
FrameOK(r) ==
    /\ mig \in [Replica -> Frame] /\ mig[r] \in Frame /\ mig[r].at <= Embedded[r] + 1
    /\ Embedded[r] \in Nat /\ None \notin Replica /\ Orphan \notin Replica /\ None # Orphan
    /\ ledger \subseteq Nat /\ schema \subseteq Nat /\ lock \in Replica \cup {None, Orphan}
    /\ mig[r].at >= 1 /\ \A v \in Nat : 1 <= v /\ v < mig[r].at => v \in ledger
    /\ mig[r].pc = "tx" => mig[r].at <= Embedded[r]
    /\ mig[r].pc \in {"unlock", "returned"} /\ ~mig[r].err => mig[r].at > Embedded[r]
    /\ mig[r].pc \in Applying => lock = r
    /\ lock = r => mig[r].pc \in Applying \cup {"unlock"}
    /\ UNCHANGED <<ledger, schema>> => LedgerNext

LEMMA FrameFacts == ASSUME IInv, NEW r \in Replica PROVE FrameOK(r)
  <1>1. /\ mig \in [Replica -> Frame] /\ mig[r] \in Frame /\ mig[r].at <= Embedded[r] + 1
        /\ Embedded[r] \in Nat /\ None \notin Replica /\ Orphan \notin Replica /\ None # Orphan
        /\ ledger \subseteq Nat /\ schema \subseteq Nat /\ lock \in Replica \cup {None, Orphan}
    BY Zenon, MigrateConstants DEF IInv, TypeOK, MigrateTypeOK, Frame
  <1>2. /\ mig[r].pc \in Applying => lock = r
        /\ lock = r => mig[r].pc \in Applying \cup {"unlock"}
        /\ UNCHANGED <<ledger, schema>> => LedgerNext
    BY Zenon, <1>1 DEF IInv, LockWhileApplying, LedgerIsPrefix, LedgerNext
  <1> QED
    BY <1>1, <1>2 DEF IInv, ApplyInv, FrameOK

LEMMA ApplyKeeps ==
    ASSUME IInv, NEW r \in Replica, Apply(r)
    PROVE  ApplyOK' /\ LedgerNext
  <1>0. FrameOK(r)
    BY FrameFacts
  <1> DEFINE At(label) == [mig[r] EXCEPT !.pc = label]
  <1>1. CASE Acquire(r)
    <2>1. FrameNext(r, At("lock")) /\ At("lock").pc = "lock"
      BY <1>0, <1>1 DEF Acquire, Goto, database, FrameNext, FrameOK, Frame
    <2>2. LedgerNext
      BY Zenon, <1>0, <1>1 DEF Acquire, database, FrameOK
    <2>3. LockNext(r, "lock")
      BY <1>0, <1>1 DEF Acquire, database, LockNext, FrameOK, Applying
    <2> QED
      BY Zenon, <2>1, <2>2, <2>3, FrameReplaced
  <1>2. CASE Lock(r)
    <2>1. FrameNext(r, At("ledger")) /\ At("ledger").pc = "ledger"
      BY <1>0, <1>2 DEF Lock, Goto, FrameNext, FrameOK, Frame
    <2>2. LedgerNext
      BY <1>0, <1>2 DEF Lock, FrameOK
    <2>3. LockNext(r, "ledger")
      BY <1>0, <1>2 DEF Lock, LockNext, FrameOK, Applying
    <2> QED
      BY Zenon, <2>1, <2>2, <2>3, FrameReplaced
  <1>3. CASE EnsureLedger(r)
    <2>1. FrameNext(r, At("exists")) /\ At("exists").pc = "exists"
      BY <1>0, <1>3 DEF EnsureLedger, Goto, database, FrameNext, FrameOK, Frame
    <2>2. LedgerNext
      BY <1>0, <1>3 DEF EnsureLedger, database, FrameOK
    <2>3. LockNext(r, "exists")
      BY <1>0, <1>3 DEF EnsureLedger, database, LockNext, FrameOK, Applying
    <2> QED
      BY Zenon, <2>1, <2>2, <2>3, FrameReplaced
  <1>4. CASE Exists(r)
    <2> DEFINE next == [mig[r] EXCEPT !.at = @ + 1]
    <2>1. LedgerNext
      BY <1>0, <1>4 DEF Exists, database, FrameOK
    <2>2. CASE mig[r].at > Embedded[r]
      <3>1. FrameNext(r, At("unlock")) /\ At("unlock").pc = "unlock"
        BY <1>0, <1>4, <2>2 DEF Exists, Goto, database, FrameNext, FrameOK, Frame
      <3>2. LockNext(r, "unlock")
        BY <1>0, <1>4 DEF Exists, database, LockNext, FrameOK, Applying
      <3> QED
        BY Zenon, <2>1, <3>1, <3>2, FrameReplaced
    <2>3. CASE mig[r].at <= Embedded[r] /\ mig[r].at \in ledger
      <3>1. next \in Frame /\ next.at = mig[r].at + 1 /\ next.pc = "exists"
        BY <1>0, <1>4 DEF Exists, FrameOK, Frame
      <3>2. \A v \in Nat : 1 <= v /\ v < next.at => v \in ledger
        BY <1>0, <2>3, <3>1 DEF FrameOK, Frame
      <3>3. mig' = [mig EXCEPT ![r] = next]
        BY <1>0, <1>4, <2>3 DEF Exists, FrameOK, Frame
      <3>4. FrameNext(r, next)
        BY <1>0, <1>4, <2>3, <3>1, <3>2, <3>3 DEF Exists, database, FrameNext, FrameOK, Frame
      <3>5. LockNext(r, "exists")
        BY <1>0, <1>4 DEF Exists, database, LockNext, FrameOK, Applying
      <3> QED
        BY Zenon, <2>1, <3>1, <3>4, <3>5, FrameReplaced
    <2>4. CASE mig[r].at <= Embedded[r] /\ mig[r].at \notin ledger
      <3>1. FrameNext(r, At("tx")) /\ At("tx").pc = "tx"
        BY <1>0, <1>4, <2>4 DEF Exists, Goto, database, FrameNext, FrameOK, Frame
      <3>2. LockNext(r, "tx")
        BY <1>0, <1>4 DEF Exists, database, LockNext, FrameOK, Applying
      <3> QED
        BY Zenon, <2>1, <3>1, <3>2, FrameReplaced
    <2> QED
      BY <1>0, <2>2, <2>3, <2>4 DEF FrameOK, Frame
  <1>5. CASE Tx(r)
    <2> DEFINE next == [mig[r] EXCEPT !.pc = "exists", !.at = @ + 1]
    <2>1. LedgerNext
      BY <1>5, CommitUnseenEffect DEF Tx, CommitUnseen
    <2>2. next \in Frame /\ next.at = mig[r].at + 1 /\ next.pc = "exists"
      <3>1. mig[r] \in Frame /\ mig[r].at + 1 \in Nat
        BY <1>0 DEF FrameOK, Frame
      <3> QED
        BY Zenon, <3>1 DEF Frame
    <2>3. \A v \in Nat : 1 <= v /\ v < next.at => v \in ledger'
      <3>1. mig[r].at \in Nat /\ mig[r].at \in ledger' /\ ledger \subseteq ledger'
        BY Zenon, <1>0, <1>5, <2>1 DEF Tx, Commits, LedgerNext, FrameOK, Frame
      <3>2. \A v \in Nat : 1 <= v /\ v < mig[r].at => v \in ledger
        BY <1>0 DEF FrameOK
      <3> QED
        BY <2>2, <3>1, <3>2
    <2>4. mig' = [mig EXCEPT ![r] = next]
      BY <1>0, <1>5 DEF Tx, FrameOK, Frame
    <2>5. FrameNext(r, next)
      BY <1>0, <1>5, <2>2, <2>3, <2>4 DEF Tx, FrameNext, FrameOK, Frame
    <2>6. LockNext(r, "exists")
      BY <1>0, <1>5 DEF Tx, LockNext, FrameOK, Applying
    <2> QED
      BY Zenon, <2>1, <2>2, <2>5, <2>6, FrameReplaced
  <1>6. CASE Unlock(r)
    <2>1. FrameNext(r, At("returned")) /\ At("returned").pc = "returned"
      BY <1>0, <1>6 DEF Unlock, Goto, FrameNext, FrameOK, Frame
    <2>2. LedgerNext
      BY <1>0, <1>6 DEF Unlock, FrameOK
    <2>3. LockNext(r, "returned")
      BY <1>0, <1>6 DEF Unlock, LockNext, FrameOK, Applying, Abandoned
    <2> QED
      BY Zenon, <2>1, <2>2, <2>3, FrameReplaced
  <1> QED
    BY <1>1, <1>2, <1>3, <1>4, <1>5, <1>6 DEF Apply

LEMMA FaultKeeps ==
    ASSUME IInv, NEW r \in Replica, AcquireFails(r) \/ ApplyFails(r)
    PROVE  ApplyOK' /\ LedgerNext
  <1>0. FrameOK(r)
    BY FrameFacts
  <1> DEFINE Failed(label) == [mig[r] EXCEPT !.pc = label, !.err = TRUE]
  <1>1. CASE AcquireFails(r)
    <2>1. FrameNext(r, Failed("returned")) /\ Failed("returned").pc = "returned"
      BY ZenonT(40), <1>0, <1>1 DEF AcquireFails, database, FrameNext, FrameOK, Frame
    <2>2. LedgerNext
      BY <1>0, <1>1 DEF AcquireFails, database, FrameOK
    <2>3. LockNext(r, "returned")
      BY <1>0, <1>1 DEF AcquireFails, database, LockNext, FrameOK, Applying
    <2> QED
      BY Zenon, <2>1, <2>2, <2>3, FrameReplaced
  <1>2. CASE ApplyFails(r)
    <2>1. LedgerNext
      BY <1>2, CommitUnseenEffect DEF ApplyFails
    <2>2. FrameNext(r, Failed("unlock")) /\ Failed("unlock").pc = "unlock"
      BY ZenonT(40), <1>0, <1>2, <2>1 DEF ApplyFails, LedgerNext, FrameNext, FrameOK, Frame
    <2>3. LockNext(r, "unlock")
      BY <1>0, <1>2 DEF ApplyFails, Abandoned, LockNext, FrameOK, Applying
    <2> QED
      BY Zenon, <2>1, <2>2, <2>3, FrameReplaced
  <1> QED
    BY <1>1, <1>2

LEMMA KilledKeeps ==
    ASSUME IInv, NEW r \in Replica, Killed(r)
    PROVE  ApplyOK' /\ LedgerNext
  <1>0. FrameOK(r)
    BY FrameFacts
  <1>1. LedgerNext
    BY CommitUnseenEffect DEF Killed
  <1>2. FrameNext(r, NotApplying) /\ NotApplying.pc = "idle"
    BY <1>0 DEF Killed, NotApplying, FrameNext, FrameOK, Frame
  <1>3. LockNext(r, "idle")
    BY <1>0 DEF Killed, Abandoned, LockNext, FrameOK, Applying
  <1> QED
    BY <1>1, <1>2, <1>3, FrameReplaced

\* A replica is in Apply before such a step and after it.
LEMMA ApplyingStays ==
    ASSUME IInv, NEW r \in Replica, Apply(r) \/ AcquireFails(r) \/ ApplyFails(r)
    PROVE  \A q \in Replica : mig'[q].pc # "idle" <=> mig[q].pc # "idle"
  <1>1. mig \in [Replica -> Frame] /\ mig[r] \in Frame
    BY Zenon, FrameFacts DEF FrameOK
  <1>2. mig[r].pc # "idle" /\ mig'[r].pc # "idle"
    <2>1. CASE Acquire(r) \/ Lock(r) \/ EnsureLedger(r) \/ Unlock(r)
      <3>1. mig[r].pc # "idle" /\ \E label \in {"lock", "ledger", "exists", "returned"} : Goto(r, label)
        BY <1>1, <2>1 DEF Acquire, Lock, EnsureLedger, Unlock
      <3> QED
        BY <1>1, <3>1 DEF Goto, Frame
    <2>2. CASE Exists(r)
      BY <1>1, <2>2 DEF Exists, Goto, Frame
    <2>3. CASE Tx(r)
      BY <1>1, <2>3 DEF Tx, Frame
    <2>4. CASE AcquireFails(r) \/ ApplyFails(r)
      BY <1>1, <2>4 DEF AcquireFails, ApplyFails, Frame
    <2> QED
      BY <2>1, <2>2, <2>3, <2>4 DEF Apply
  <1>3. \A q \in Replica : q # r => mig'[q] = mig[q]
    BY <1>1 DEF Apply, Acquire, Lock, EnsureLedger, Exists, Tx, Unlock, Goto, AcquireFails, ApplyFails
  <1> QED
    BY <1>2, <1>3
----------------------------------------------------------------------------
CallFrame == [pc : {"idle", "login", "getRealm", "createRealm", "getClients", "createClient",
                    "updateClient", "returned"},
              i : 1..2, err : BOOLEAN]

\* A call may create the realm and may make a client what the replicas want.
KeycloakNext ==
    /\ realm => realm'
    /\ realm' \in BOOLEAN
    /\ clients' \in [1..2 -> {"none", "want", "other"}]
    /\ \A i \in 1..2 : clients'[i] \in {clients[i], "want"}

(***************************************************************************)
(* A step of r in EnsureProvisioned replaces its frame by m; as with       *)
(* FrameNext it is enough to look at m.                                    *)
(***************************************************************************)
CallNext(r, m) ==
    /\ m \in CallFrame /\ m.pc # "idle"
    /\ prov' = [prov EXCEPT ![r] = m]
    /\ m.pc \in {"getClients", "createClient", "updateClient"} \/ (m.pc = "returned" /\ ~m.err)
          => realm'
    /\ \A i \in 1..2 : m.i > i \/ (m.pc = "returned" /\ ~m.err) =>
          clients'[i] = "want" \/ (clients'[i] = "other" /\ i \in since[r])

\* What is known of r before a step of it.
CallOK(r) ==
    /\ boot[r] = "provision"
    /\ prov \in [Replica -> CallFrame] /\ prov[r] \in CallFrame
    /\ clients \in [1..2 -> {"none", "want", "other"}] /\ realm \in BOOLEAN
    /\ prov[r].pc \in {"getClients", "createClient", "updateClient"} => realm
    /\ \A i \in 1..2 : prov[r].i > i => clients[i] = "want" \/ (clients[i] = "other" /\ i \in since[r])

LEMMA CallFacts ==
    ASSUME IInv, NEW r \in Replica, prov[r].pc # "idle"
    PROVE  CallOK(r)
  <1>1. /\ prov \in [Replica -> CallFrame] /\ prov[r] \in CallFrame
        /\ clients \in [1..2 -> {"none", "want", "other"}] /\ realm \in BOOLEAN
    BY DEF IInv, TypeOK, ProvisionTypeOK, CallFrame
  <1>2. boot[r] = "provision"
    BY DEF IInv, TypeOK
  <1> QED
    BY <1>1, <1>2 DEF CallOK, IInv, ProvisionInv, PastRealm, PastClient

LEMMA CallReplaced ==
    ASSUME IInv, NEW r \in Replica, NEW m, prov[r].pc # "idle", CallNext(r, m), KeycloakNext,
           UNCHANGED <<boot, since>>
    PROVE  /\ ProvisionTypeOK' /\ ProvisionInv'
           /\ \A q \in Replica : prov'[q].pc # "idle" <=> prov[q].pc # "idle"
  <1>1. CallOK(r)
    BY CallFacts
  <1>2. /\ prov' \in [Replica -> CallFrame]
        /\ \A q \in Replica : prov'[q] = IF q = r THEN m ELSE prov[q]
    BY <1>1 DEF CallNext, CallOK
  <1>3. ProvisionTypeOK'
    BY <1>2 DEF ProvisionTypeOK, CallFrame, KeycloakNext
  <1>4. ASSUME NEW q \in Replica
        PROVE  /\ PastRealm(q)' => realm'
               /\ \A i \in 1..2 : PastClient(q, i)' =>
                     clients'[i] = "want" \/ (clients'[i] = "other" /\ i \in since'[q])
    <2>1. CASE q = r
      BY <1>1, <1>2, <2>1 DEF CallNext, CallOK, PastRealm, PastClient, AfterProvision, AfterSecret,
                              AfterKeys, AfterMigrate, AfterConfig
    <2>2. CASE q # r
      <3>1. /\ PastRealm(q)' => PastRealm(q)
            /\ \A i \in 1..2 : PastClient(q, i)' => PastClient(q, i)
        BY <1>2, <2>2 DEF PastRealm, PastClient
      <3> QED
        BY <3>1 DEF IInv, ProvisionInv, KeycloakNext
    <2> QED
      BY Zenon, <2>1, <2>2
  <1>5. ProvisionInv'
    BY <1>4 DEF ProvisionInv
  <1> QED
    BY <1>1, <1>2, <1>3, <1>5 DEF CallNext

LEMMA CallKeeps ==
    ASSUME IInv, NEW r \in Replica, UNCHANGED <<boot, since>>,
           EnsureProvisioned(r) \/ Conflict(r) \/ GetRealmFails(r) \/ CallFails(r)
    PROVE  /\ ProvisionTypeOK' /\ ProvisionInv'
           /\ \A q \in Replica : prov'[q].pc # "idle" <=> prov[q].pc # "idle"
  <1>1. prov[r].pc # "idle"
    BY DEF EnsureProvisioned, Login, GetRealm, CreateRealm, GetClients, CreateClient, UpdateClient,
           Conflict, GetRealmFails, CallFails
  <1>2. CallOK(r)
    BY <1>1, CallFacts
  <1> DEFINE At(label) == [prov[r] EXCEPT !.pc = label]
             Failed == [prov[r] EXCEPT !.pc = "returned", !.err = TRUE]
  <1>3. CASE Login(r) \/ GetRealm(r) \/ GetRealmFails(r) \/ GetClients(r)
    <2>1. KeycloakNext
      BY Zenon, <1>2, <1>3 DEF Login, GetRealm, GetRealmFails, GetClients, keycloak, KeycloakNext, CallOK
    <2>2. \E label \in {"getRealm", "createRealm", "getClients", "createClient", "updateClient"} :
             /\ Call(r, label)
             /\ label \in {"getClients", "createClient", "updateClient"} => realm
      BY <1>2, <1>3 DEF Login, GetRealm, GetRealmFails, GetClients, CallOK
    <2>3. PICK label \in {"getRealm", "createRealm", "getClients", "createClient", "updateClient"} :
             /\ Call(r, label)
             /\ label \in {"getClients", "createClient", "updateClient"} => realm
      BY <2>2
    <2>4. At(label) \in CallFrame /\ At(label).pc = label /\ At(label).i = prov[r].i
      BY <1>2 DEF CallOK, CallFrame
    <2>5. UNCHANGED keycloak
      BY <1>3 DEF Login, GetRealm, GetRealmFails, GetClients
    <2>6. CallNext(r, At(label))
      BY <1>2, <2>3, <2>4, <2>5 DEF Call, CallNext, CallOK, keycloak
    <2> QED
      BY Zenon, <1>1, <2>1, <2>6, CallReplaced
  <1>4. CASE CreateRealm(r)
    <2>1. KeycloakNext
      BY <1>2, <1>4 DEF CreateRealm, KeycloakNext, CallOK
    <2>2. CallNext(r, At("getClients"))
      BY Zenon, <1>2, <1>4 DEF CreateRealm, Call, CallNext, CallOK, CallFrame
    <2> QED
      BY <1>1, <2>1, <2>2, CallReplaced
  <1>5. CASE CreateClient(r) \/ UpdateClient(r)
    <2>1. clients' = [clients EXCEPT ![prov[r].i] = "want"] /\ realm' = realm /\ realm /\ Upserted(r)
      BY Zenon, <1>2, <1>5 DEF CreateClient, UpdateClient, Wanted, CallOK
    <2>2. prov[r].i \in 1..2 /\ prov[r] \in CallFrame
      BY Zenon, <1>2 DEF CallOK, CallFrame
    <2>3. KeycloakNext
      BY Zenon, <1>2, <2>1, <2>2 DEF KeycloakNext, CallOK
    <2>4. CASE prov[r].i = 2
      <3>1. prov' = [prov EXCEPT ![r] = At("returned")]
        BY <1>2, <2>1, <2>4, TwoClients DEF Upserted, Call, CallOK
      <3>2. At("returned") \in CallFrame /\ At("returned").pc = "returned" /\ At("returned").i = 2
        BY <2>2, <2>4 DEF CallFrame
      <3>3. CallNext(r, At("returned"))
        BY <1>2, <2>1, <2>4, <3>1, <3>2 DEF CallNext, CallOK
      <3> QED
        BY <1>1, <2>3, <3>3, CallReplaced
    <2>5. CASE prov[r].i = 1
      <3> DEFINE next == [prov[r] EXCEPT !.pc = "getClients", !.i = @ + 1]
      <3>1. prov' = [prov EXCEPT ![r] = next]
        <4>1. prov' = [prov EXCEPT ![r].pc = "getClients", ![r].i = @ + 1]
          BY <2>1, <2>5, TwoClients DEF Upserted
        <4> QED
          BY <1>2, <4>1 DEF CallOK, CallFrame
      <3>2. next \in CallFrame /\ next.pc = "getClients" /\ next.i = 2
        <4>1. prov[r].i + 1 = 2 /\ prov[r].i + 1 \in 1..2
          BY <2>5
        <4>2. next \in CallFrame
          BY Zenon, <2>2, <4>1 DEF CallFrame
        <4>3. next.pc = "getClients" /\ next.i = prov[r].i + 1
          BY <2>2 DEF CallFrame
        <4> QED
          BY Zenon, <4>1, <4>2, <4>3
      <3>3. CallNext(r, next)
        BY <1>2, <2>1, <2>5, <3>1, <3>2 DEF CallNext, CallOK
      <3> QED
        BY <1>1, <2>3, <3>3, CallReplaced
    <2> QED
      BY <2>2, <2>4, <2>5
  <1>6. CASE Conflict(r) \/ CallFails(r)
    <2>1. prov[r].i \in 1..2 /\ prov[r] \in CallFrame
      BY <1>2 DEF CallOK, CallFrame
    <2>2. KeycloakNext
      <3>1. CASE UNCHANGED keycloak
        BY Zenon, <1>2, <3>1 DEF keycloak, KeycloakNext, CallOK
      <3>2. CASE ~realm /\ realm' = TRUE /\ UNCHANGED clients
        BY <1>2, <3>2 DEF KeycloakNext, CallOK
      <3>3. CASE Wanted(r) /\ UNCHANGED realm
        BY <1>2, <2>1, <3>3 DEF Wanted, KeycloakNext, CallOK
      <3> QED
        BY Zenon, <1>6, <3>1, <3>2, <3>3 DEF Conflict, CallFails, Unseen
    <2>3. Failed \in CallFrame /\ Failed.pc = "returned" /\ Failed.i = prov[r].i /\ Failed.err
      BY Zenon, <2>1 DEF CallFrame
    <2>4. prov' = [prov EXCEPT ![r] = Failed]
      BY Zenon, <1>2, <1>6 DEF Conflict, CallFails, Refused, CallOK
    <2>5. CallNext(r, Failed)
      BY Zenon, <1>2, <2>2, <2>3, <2>4 DEF KeycloakNext, CallNext, CallOK
    <2> QED
      BY Zenon, <1>1, <2>2, <2>5, CallReplaced
  <1> QED
    BY Zenon, <1>3, <1>4, <1>5, <1>6 DEF EnsureProvisioned
----------------------------------------------------------------------------
\* Steps of runServer that leave Apply and EnsureProvisioned alone.
LEMMA ApplyUntouched ==
    ASSUME IInv, UNCHANGED migrateVars
    PROVE  ApplyOK' /\ LedgerNext
  BY DEF IInv, TypeOK, migrateVars, MigrateTypeOK, LockWhileApplying, LedgerIsPrefix, ApplyInv,
         ApplyOK, LedgerNext

\* Load and Migrated replace a frame that is outside Apply's loop.
LEMMA FrameOutside ==
    ASSUME IInv, NEW r \in Replica, NEW m \in {NotApplying, [NotApplying EXCEPT !.pc = "acquire"]},
           mig' = [mig EXCEPT ![r] = m], UNCHANGED database,
           mig[r].pc \in {"idle", "returned"}
    PROVE  ApplyOK' /\ LedgerNext
  <1>0. FrameOK(r)
    BY FrameFacts
  <1>1. m \in Frame /\ m.pc \in {"idle", "acquire"} /\ m.at = 1
    <2>1. NotApplying \in Frame /\ NotApplying.pc = "idle" /\ NotApplying.at = 1
      BY DEF NotApplying, Frame
    <2>2. CASE m = NotApplying
      BY <2>1, <2>2
    <2>3. CASE m = [NotApplying EXCEPT !.pc = "acquire"]
      BY <2>1, <2>3 DEF Frame
    <2> QED
      BY <2>2, <2>3
  <1>2. LedgerNext
    BY <1>0 DEF database, FrameOK
  <1>3. FrameNext(r, m)
    <2>1. m.at >= 1 /\ m.at <= Embedded[r] + 1 /\ \A v \in Nat : ~(1 <= v /\ v < m.at)
      BY <1>0, <1>1 DEF FrameOK
    <2> QED
      BY <1>1, <2>1 DEF FrameNext
  <1>4. LockNext(r, m.pc)
    BY Zenon, <1>0, <1>1 DEF database, LockNext, FrameOK, Applying
  <1> QED
    BY <1>2, <1>3, <1>4, FrameReplaced

\* What TypeOK says of runServer's own variables.
BootType ==
    /\ boot \in [Replica -> {"down", "config", "migrate", "keys", "secret", "provision",
                             "issuer", "serving"}]
    /\ missing \in [Replica -> SUBSET Setting]
    /\ since \in [Replica -> SUBSET (1..Len(Client))]
    /\ activeKey \in BOOLEAN /\ fault \in BOOLEAN /\ lost \in BOOLEAN
    /\ \A r \in Replica : /\ mig[r].pc # "idle" <=> boot[r] = "migrate"
                          /\ prov[r].pc # "idle" <=> boot[r] = "provision"

LEMMA Assembled ==
    ASSUME ApplyOK', ProvisionTypeOK', BootType', StagesInv', ProvisionInv', SettingsInv', IdleInv'
    PROVE  IInv'
  BY DEF IInv, TypeOK, ApplyOK, BootType

LEMMA TypesApart == IInv => BootType /\ ProvisionTypeOK /\ MigrateTypeOK
  BY DEF IInv, TypeOK, BootType

(***************************************************************************)
(* Steps within Apply or within EnsureProvisioned: runServer stays where   *)
(* it is.                                                                  *)
(***************************************************************************)
LEMMA BootUntouched ==
    ASSUME IInv, LedgerNext, UNCHANGED <<boot, missing, since, activeKey>>,
           fault' \in BOOLEAN, lost' \in BOOLEAN,
           \A q \in Replica : mig'[q].pc # "idle" <=> mig[q].pc # "idle",
           \A q \in Replica : prov'[q].pc # "idle" <=> prov[q].pc # "idle"
    PROVE  BootType' /\ StagesInv' /\ SettingsInv'
  <1>1. BootType'
    BY TypesApart DEF BootType
  <1>2. StagesInv'
    BY Zenon DEF IInv, StagesInv, LedgerNext
  <1>3. SettingsInv'
    BY DEF IInv, SettingsInv
  <1> QED
    BY Zenon, <1>1, <1>2, <1>3

LEMMA ProvisionUntouched ==
    ASSUME IInv, UNCHANGED <<keycloakVars, boot, since>>
    PROVE  ProvisionTypeOK' /\ ProvisionInv'
  <1>1. ProvisionTypeOK'
    BY Zenon, TypesApart DEF ProvisionTypeOK, keycloakVars
  <1>2. ProvisionInv'
    BY Zenon DEF IInv, ProvisionInv, PastRealm, PastClient, keycloakVars
  <1> QED
    BY <1>1, <1>2

(***************************************************************************)
(* Steps of runServer itself: only r moves.                                *)
(***************************************************************************)
LEMMA ProvisionMoves ==
    ASSUME IInv, NEW r \in Replica, KeycloakNext,
           \A q \in Replica : q # r => prov'[q] = prov[q] /\ boot'[q] = boot[q] /\ since'[q] = since[q],
           PastRealm(r)' => realm',
           \A i \in 1..2 : PastClient(r, i)' =>
               clients'[i] = "want" \/ (clients'[i] = "other" /\ i \in since'[r])
    PROVE  ProvisionInv'
  <1>1. ASSUME NEW q \in Replica, q # r
        PROVE  /\ PastRealm(q)' => PastRealm(q)
               /\ \A i \in 1..2 : PastClient(q, i)' => PastClient(q, i)
    BY <1>1 DEF PastRealm, PastClient
  <1> QED
    BY ZenonT(40), <1>1 DEF IInv, ProvisionInv, KeycloakNext

LEMMA StagesMove ==
    ASSUME IInv, NEW r \in Replica, LedgerNext, activeKey => activeKey',
           \A q \in Replica : q # r => boot'[q] = boot[q],
           boot'[r] \in AfterMigrate => 1..Embedded[r] \subseteq ledger,
           boot'[r] \in AfterKeys => activeKey'
    PROVE  StagesInv'
  BY DEF IInv, StagesInv, LedgerNext

LEMMA KeycloakUntouched == IInv /\ UNCHANGED <<realm, clients>> => KeycloakNext
  BY DEF IInv, TypeOK, ProvisionTypeOK, KeycloakNext

\* A frame that is replaced by a new one, or kept.
LEMMA FramesIdle ==
    ASSUME IInv, NEW r \in Replica,
           \A q \in Replica : q # r => mig'[q] = mig[q] /\ prov'[q] = prov[q],
           mig'[r].pc = "idle" => mig'[r] = NotApplying,
           prov'[r].pc = "idle" => prov'[r] = NotProvisioning
    PROVE  IdleInv'
  BY DEF IInv, IdleInv
----------------------------------------------------------------------------
(* One lemma for each group of actions. *)

LEMMA ApplySteps ==
    ASSUME IInv, NEW r \in Replica, MigrateStep(r) \/ MigrateFault(r)
    PROVE  IInv'
  <1>1. Apply(r) \/ AcquireFails(r) \/ ApplyFails(r)
    BY DEF MigrateStep, MigrateFault
  <1>2. ApplyOK' /\ LedgerNext
    BY Zenon, <1>1, ApplyKeeps, FaultKeeps
  <1>3. \A q \in Replica : mig'[q].pc # "idle" <=> mig[q].pc # "idle"
    BY <1>1, ApplyingStays
  <1>4. UNCHANGED <<keycloakVars, boot, missing, since, activeKey, lost>>
    BY DEF MigrateStep, MigrateFault, own
  <1>5. fault' \in BOOLEAN /\ lost' \in BOOLEAN
    BY Zenon, <1>4, TypesApart DEF MigrateStep, MigrateFault, own, BootType
  <1>6. BootType' /\ StagesInv' /\ SettingsInv'
    BY Zenon, <1>2, <1>3, <1>4, <1>5, BootUntouched DEF keycloakVars
  <1>7. ProvisionTypeOK' /\ ProvisionInv'
    BY Zenon, <1>4, ProvisionUntouched
  <1>8. IdleInv'
    <2>1. mig[r].pc # "idle" /\ \A q \in Replica : q # r => mig'[q] = mig[q]
      <3>1. mig \in [Replica -> Frame]
        BY FrameFacts DEF FrameOK
      <3> QED
        BY Zenon, <1>1, <3>1 DEF Apply, Acquire, Lock, EnsureLedger, Exists, Tx, Unlock, Goto, AcquireFails,
                          ApplyFails
    <2> QED
      BY Zenon, <1>3, <1>4, <2>1 DEF IInv, IdleInv, keycloakVars
  <1> QED
    BY <1>2, <1>6, <1>7, <1>8, Assembled

LEMMA ProvisionSteps ==
    ASSUME IInv, NEW r \in Replica, ProvisionStep(r) \/ LosesRace(r) \/ ProvisionFault(r)
    PROVE  IInv'
  <1>1. EnsureProvisioned(r) \/ Conflict(r) \/ GetRealmFails(r) \/ CallFails(r)
    BY DEF ProvisionStep, LosesRace, ProvisionFault
  <1>2. UNCHANGED <<migrateVars, boot, missing, since, activeKey>>
    BY DEF ProvisionStep, LosesRace, ProvisionFault, own
  <1>3. fault' \in BOOLEAN /\ lost' \in BOOLEAN
    BY Zenon, TypesApart DEF ProvisionStep, LosesRace, ProvisionFault, own, BootType
  <1>4. /\ ProvisionTypeOK' /\ ProvisionInv'
        /\ \A q \in Replica : prov'[q].pc # "idle" <=> prov[q].pc # "idle"
    BY <1>1, <1>2, CallKeeps
  <1>5. ApplyOK' /\ LedgerNext
    BY Zenon, <1>2, ApplyUntouched
  <1>6. BootType' /\ StagesInv' /\ SettingsInv'
    BY Zenon, <1>2, <1>3, <1>4, <1>5, BootUntouched DEF migrateVars
  <1>7. IdleInv'
    <2>1. prov[r].pc # "idle" /\ \A q \in Replica : q # r => prov'[q] = prov[q]
      <3>1. prov \in [Replica -> CallFrame]
        BY TypesApart DEF ProvisionTypeOK, CallFrame
      <3> QED
        BY <1>1, <3>1 DEF EnsureProvisioned, Login, GetRealm, CreateRealm, GetClients, CreateClient,
                          UpdateClient, Conflict, GetRealmFails, CallFails, Call, Upserted, Refused
    <2> QED
      BY Zenon, <1>2, <1>4, <2>1 DEF IInv, IdleInv, migrateVars
  <1> QED
    BY <1>4, <1>5, <1>6, <1>7, Assembled

\* The configuration, and the exits, of a replica.
LEMMA StartSteps ==
    ASSUME IInv, NEW r \in Replica, Start(r) \/ EnsureActive(r) \/ Serve(r)
    PROVE  IInv'
  <1>1. UNCHANGED <<migrateVars, keycloakVars, lost>>
    BY DEF Start, EnsureActive, Serve
  <1>2. ApplyOK' /\ LedgerNext
    BY <1>1, ApplyUntouched
  <1>3. BootType /\ ProvisionTypeOK
    BY TypesApart
  <1>4. ProvisionTypeOK' /\ KeycloakNext /\ IdleInv'
    BY Zenon, <1>1, <1>3, KeycloakUntouched DEF ProvisionTypeOK, keycloakVars, migrateVars, IInv, IdleInv
  <1>5. /\ boot[r] \in {"down", "keys", "issuer"} /\ boot'[r] \in {"down", "config", "secret", "serving"}
        /\ boot' = [boot EXCEPT ![r] = boot'[r]]
        /\ since' \in [Replica -> SUBSET (1..Len(Client))]
        /\ \A q \in Replica : q # r => since'[q] = since[q] /\ missing'[q] = missing[q]
        /\ boot'[r] = "secret" => boot[r] = "keys" /\ UNCHANGED <<missing, since>>
        /\ boot'[r] = "serving" => boot[r] = "issuer" /\ UNCHANGED <<missing, since>>
    BY ZenonT(40), <1>3 DEF BootType, Start, EnsureActive, Serve, BootTo, Exits
  <1>6. missing' \in [Replica -> SUBSET Setting]
    <2>1. missing' = missing \/ \E s \in SUBSET Setting : missing' = [missing EXCEPT ![r] = s]
      <3>1. CASE Start(r)
        BY Zenon, <3>1, EnvironmentConstants DEF Start
      <3>2. CASE EnsureActive(r) \/ Serve(r)
        <4>1. {} \in SUBSET Setting
          OBVIOUS
        <4> QED
          BY Zenon, <3>2, <4>1 DEF EnsureActive, Serve, Exits
      <3> QED
        BY <3>1, <3>2
    <2> QED
      BY Zenon, <1>3, <2>1 DEF BootType
  <1>7. fault' \in BOOLEAN /\ activeKey' \in BOOLEAN
    BY Zenon, <1>3 DEF BootType, Start, EnsureActive, Serve
  <1>8. (activeKey => activeKey') /\ (boot'[r] = "secret" => activeKey')
    <2>1. activeKey => activeKey'
      BY Zenon DEF Start, EnsureActive, Serve
    <2>2. activeKey' = TRUE \/ boot' \in {[boot EXCEPT ![r] = l] : l \in {"down", "config", "serving"}}
      BY DEF Start, EnsureActive, Serve, BootTo, Exits
    <2>3. activeKey' = TRUE \/ boot'[r] # "secret"
      BY Zenon, <1>3, <2>2 DEF BootType
    <2> QED
      BY Zenon, <2>1, <2>3
  <1>9. BootType'
    <2>1. mig' = mig /\ prov' = prov /\ lost' \in BOOLEAN
      BY Zenon, <1>1, <1>3 DEF BootType, migrateVars, keycloakVars
    <2>2. \A q \in Replica : /\ mig'[q].pc # "idle" <=> boot'[q] = "migrate"
                             /\ prov'[q].pc # "idle" <=> boot'[q] = "provision"
      BY <1>3, <1>5, <2>1 DEF BootType
    <2>3. boot' \in [Replica -> {"down", "config", "migrate", "keys", "secret", "provision",
                                 "issuer", "serving"}]
      BY <1>3, <1>5 DEF BootType
    <2> QED
      BY Zenon, <1>5, <1>6, <1>7, <2>1, <2>2, <2>3 DEF BootType
  <1>10. StagesInv'
    <2>1. boot'[r] \in AfterMigrate => 1..Embedded[r] \subseteq ledger
      BY <1>5 DEF IInv, StagesInv, AfterMigrate, AfterConfig
    <2>2. boot'[r] \in AfterKeys => activeKey'
      BY ZenonT(40), <1>5, <1>8 DEF IInv, StagesInv, AfterKeys, AfterMigrate, AfterConfig
    <2> QED
      BY Zenon, <1>2, <1>3, <1>5, <1>8, <2>1, <2>2, StagesMove DEF BootType
  <1>11. SettingsInv'
    <2>1. boot'[r] = "serving" =>
             missing[r] \cap {"BS_PUBLIC_ISSUER", "BS_APIKEY_PEPPER"} = {}
      BY Zenon, <1>3 DEF BootType, Start, EnsureActive, Serve, BootTo, Exits
    <2>2. boot'[r] = "serving" => missing[r] \subseteq {"BS_ROOT_TOKEN"}
      BY <1>3, <1>5, <2>1 DEF IInv, SettingsInv, AfterSecret, AfterKeys, AfterMigrate, AfterConfig,
                              BootType, Setting, Required
    <2> QED
      BY <1>3, <1>5, <2>2 DEF IInv, SettingsInv, AfterSecret, AfterKeys, AfterMigrate, AfterConfig,
                              BootType
  <1>12. ProvisionInv'
    <2>1. prov[r].pc = "idle" /\ prov'[r].pc = "idle"
      BY Zenon, <1>1, <1>3, <1>5 DEF BootType, keycloakVars
    <2>2. PastRealm(r)' => PastRealm(r) /\ boot'[r] = "serving"
      BY Zenon, <1>5, <2>1 DEF PastRealm, AfterProvision, AfterSecret, AfterKeys, AfterMigrate, AfterConfig
    <2>3. \A i \in 1..2 : PastClient(r, i)' => PastClient(r, i) /\ boot'[r] = "serving"
      BY <1>5 DEF PastClient, AfterProvision, AfterSecret, AfterKeys, AfterMigrate, AfterConfig
    <2> QED
      BY <1>1, <1>3, <1>4, <1>5, <2>2, <2>3, ProvisionMoves
      DEF IInv, ProvisionInv, keycloakVars, BootType
  <1> QED
    BY Zenon, <1>2, <1>4, <1>9, <1>10, <1>11, <1>12, Assembled

LEMMA MigrateEnds ==
    ASSUME IInv, NEW r \in Replica, Load(r) \/ Migrated(r)
    PROVE  IInv'
  <1>1. UNCHANGED <<database, keycloakVars, activeKey, lost>>
    BY DEF Load, Migrated
  <1>2. BootType /\ ProvisionTypeOK /\ FrameOK(r)
    BY Zenon, TypesApart, FrameFacts
  <1>3. \/ /\ boot[r] = "config" /\ boot'[r] = "migrate" /\ boot' = [boot EXCEPT ![r] = boot'[r]]
           /\ mig[r].pc = "idle" /\ mig' = [mig EXCEPT ![r] = [NotApplying EXCEPT !.pc = "acquire"]]
           /\ missing[r] \cap {"DATABASE_URL", "KEYCLOAK_URL", "BS_SIGNING_KEK"} = {}
           /\ UNCHANGED <<missing, since>>
        \/ /\ boot[r] = "config" /\ UNCHANGED mig /\ Exits(r)
        \/ /\ boot[r] = "migrate" /\ mig[r].pc = "returned" /\ mig' = [mig EXCEPT ![r] = NotApplying]
           /\ Exits(r)
        \/ /\ boot[r] = "migrate" /\ boot'[r] = "keys" /\ boot' = [boot EXCEPT ![r] = boot'[r]]
           /\ mig[r].pc = "returned" /\ ~mig[r].err /\ mig' = [mig EXCEPT ![r] = NotApplying]
           /\ UNCHANGED <<missing, since>>
    <2>1. CASE Load(r)
      <3>1. boot[r] = "config" /\ mig[r].pc = "idle"
        BY Zenon, <1>2, <2>1 DEF Load, BootType
      <3>2. mig[r] = NotApplying
        BY <3>1 DEF IInv, IdleInv
      <3>3. mig' = [mig EXCEPT ![r].pc = "acquire"] =>
               mig' = [mig EXCEPT ![r] = [NotApplying EXCEPT !.pc = "acquire"]]
        BY Zenon, <3>2
      <3> QED
        BY Zenon, <1>2, <2>1, <3>1, <3>3 DEF Load, BootTo, BootType
    <2>2. CASE Migrated(r)
      BY <1>2, <2>2 DEF Migrated, BootTo, BootType
    <2> QED
      BY Zenon, <2>1, <2>2
  <1>4. ApplyOK' /\ LedgerNext
    <2>1. CASE UNCHANGED mig
      BY <1>1, <2>1, ApplyUntouched DEF migrateVars, database
    <2>2. CASE mig' # mig
      BY <1>1, <1>3, <2>2, FrameOutside
    <2> QED
      BY <2>1, <2>2
  <1>5. ProvisionTypeOK' /\ KeycloakNext
    BY Zenon, <1>1, <1>2, KeycloakUntouched DEF ProvisionTypeOK, keycloakVars
  <1>6. /\ boot'[r] \in {"down", "migrate", "keys"} /\ boot' = [boot EXCEPT ![r] = boot'[r]]
        /\ missing' \in [Replica -> SUBSET Setting]
        /\ since' \in [Replica -> SUBSET (1..Len(Client))]
        /\ \A q \in Replica : q # r => since'[q] = since[q] /\ missing'[q] = missing[q]
    BY <1>2, <1>3 DEF BootType, Exits, BootTo
  <1>7. fault' \in BOOLEAN
    BY Zenon, <1>2 DEF Load, Migrated, BootType
  <1>8. /\ \A q \in Replica : q # r => mig'[q] = mig[q]
        /\ mig'[r].pc = "idle" => mig'[r] = NotApplying
        /\ mig'[r].pc # "idle" <=> boot'[r] = "migrate"
    <2>1. mig \in [Replica -> Frame] /\ NotApplying.pc = "idle"
          /\ [NotApplying EXCEPT !.pc = "acquire"].pc = "acquire"
      BY Zenon, <1>2 DEF FrameOK, NotApplying
    <2>2. boot[r] = "config" => mig[r].pc = "idle" /\ mig[r] = NotApplying
      BY Zenon, <1>2 DEF BootType, IInv, IdleInv
    <2>3. Exits(r) => boot'[r] = "down"
      BY <1>2 DEF Exits, BootTo, BootType
    <2> QED
      BY ZenonT(20), <1>3, <2>1, <2>2, <2>3
  <1>9. prov[r].pc = "idle" /\ prov' = prov
    BY ZenonT(40), <1>1, <1>2, <1>3 DEF BootType, keycloakVars
  <1>10. BootType'
    BY <1>1, <1>2, <1>6, <1>7, <1>8, <1>9 DEF BootType
  <1>11. IdleInv'
    BY Zenon, <1>8, <1>9, FramesIdle DEF IInv, IdleInv
  <1>12. StagesInv'
    <2>1. boot'[r] = "keys" => 1..Embedded[r] \subseteq ledger
      <3>1. boot'[r] = "keys" => mig[r].at > Embedded[r]
        BY <1>2, <1>3 DEF FrameOK, Exits, BootTo, BootType
      <3>2. mig[r].at \in Nat /\ Embedded[r] \in Nat
            /\ \A v \in Nat : 1 <= v /\ v < mig[r].at => v \in ledger
        BY Zenon, <1>2 DEF FrameOK, Frame
      <3> QED
        BY <3>1, <3>2
    <2> QED
      BY ZenonT(40), <1>1, <1>2, <1>4, <1>6, <2>1, StagesMove DEF BootType, AfterKeys, AfterMigrate, AfterConfig
  <1>13. SettingsInv'
    <2>1. boot'[r] \in AfterConfig =>
            missing'[r] \cap {"DATABASE_URL", "KEYCLOAK_URL", "BS_SIGNING_KEK"} = {}
      <3>1. Exits(r) => boot'[r] = "down"
        BY <1>2 DEF Exits, BootTo, BootType
      <3> QED
        BY Zenon, <1>3, <3>1 DEF IInv, SettingsInv, AfterConfig
    <2>2. boot'[r] \notin AfterSecret /\ boot'[r] # "serving"
      BY Zenon, <1>6 DEF AfterSecret, AfterKeys, AfterMigrate, AfterConfig
    <2> QED
      BY <1>2, <1>6, <2>1, <2>2 DEF IInv, SettingsInv, BootType
  <1>14. ProvisionInv'
    <2>1. ~PastRealm(r)' /\ \A i \in 1..2 : ~PastClient(r, i)'
      BY Zenon, <1>6, <1>9 DEF PastRealm, PastClient, AfterProvision, AfterSecret, AfterKeys, AfterMigrate,
                        AfterConfig
    <2> QED
      BY Zenon, <1>2, <1>5, <1>6, <1>9, <2>1, ProvisionMoves DEF BootType
  <1> QED
    BY Zenon, <1>4, <1>5, <1>10, <1>11, <1>12, <1>13, <1>14, Assembled

LEMMA ProvisionEnds ==
    ASSUME IInv, NEW r \in Replica, Secret(r) \/ Provisioned(r)
    PROVE  IInv'
  <1>1. UNCHANGED <<migrateVars, realm, clients, activeKey, lost>>
    BY Zenon DEF Secret, Provisioned
  <1>2. /\ BootType /\ ProvisionTypeOK
        /\ prov \in [Replica -> CallFrame] /\ NotProvisioning \in CallFrame
        /\ NotProvisioning.pc = "idle" /\ NotProvisioning.i = 1
    BY TypesApart DEF ProvisionTypeOK, CallFrame, NotProvisioning
  <1> DEFINE Called == [NotProvisioning EXCEPT !.pc = "login"]
  <1>3. Called \in CallFrame /\ Called.pc = "login" /\ Called.i = 1
    BY Zenon, <1>2 DEF CallFrame
  <1>4. \/ /\ boot[r] = "secret" /\ boot'[r] = "provision" /\ boot' = [boot EXCEPT ![r] = boot'[r]]
           /\ prov' = [prov EXCEPT ![r] = Called]
           /\ "BS_SERVICE_CLIENT_SECRET" \notin missing[r]
           /\ UNCHANGED <<missing, since>>
        \/ /\ boot[r] = "secret" /\ UNCHANGED prov /\ Exits(r)
        \/ /\ boot[r] = "provision" /\ prov' = [prov EXCEPT ![r] = NotProvisioning] /\ Exits(r)
        \/ /\ boot[r] = "provision" /\ boot'[r] = "issuer" /\ boot' = [boot EXCEPT ![r] = boot'[r]]
           /\ prov[r].pc = "returned" /\ ~prov[r].err /\ prov' = [prov EXCEPT ![r] = NotProvisioning]
           /\ UNCHANGED <<missing, since>>
    <2>1. CASE Secret(r)
      <3>1. prov[r] = NotProvisioning
        BY <1>2, <2>1 DEF Secret, BootType, IInv, IdleInv
      <3>2. prov' = [prov EXCEPT ![r].pc = "login"] => prov' = [prov EXCEPT ![r] = Called]
        BY <3>1
      <3> QED
        BY Zenon, <1>2, <2>1, <3>2 DEF Secret, BootTo, BootType
    <2>2. CASE Provisioned(r)
      BY Zenon, <1>2, <2>2 DEF Provisioned, BootTo, BootType
    <2> QED
      BY <2>1, <2>2
  <1>5. ApplyOK' /\ LedgerNext
    BY <1>1, ApplyUntouched
  <1>6. KeycloakNext
    BY Zenon, <1>1, KeycloakUntouched
  <1>7. Exits(r) => boot' = [boot EXCEPT ![r] = "down"] /\ boot'[r] = "down"
    BY Zenon, <1>2 DEF Exits, BootTo, BootType
  <1>8. /\ boot'[r] \in {"down", "provision", "issuer"} /\ boot' = [boot EXCEPT ![r] = boot'[r]]
        /\ missing' \in [Replica -> SUBSET Setting]
        /\ since' \in [Replica -> SUBSET (1..Len(Client))]
        /\ \A q \in Replica : q # r => since'[q] = since[q] /\ missing'[q] = missing[q]
    BY <1>2, <1>4, <1>7 DEF BootType, Exits
  <1>9. /\ prov' \in [Replica -> CallFrame]
        /\ \A q \in Replica : q # r => prov'[q] = prov[q]
        /\ prov'[r] = IF boot'[r] = "provision" THEN Called ELSE NotProvisioning
    <2>1. boot[r] = "secret" => prov[r] = NotProvisioning
      BY <1>2 DEF BootType, IInv, IdleInv
    <2> QED
      BY ZenonT(40), <1>2, <1>3, <1>4, <1>7, <2>1
  <1>10. ProvisionTypeOK'
    BY <1>1, <1>2, <1>9 DEF ProvisionTypeOK, CallFrame
  <1>11. fault' \in BOOLEAN
    BY Zenon, <1>2 DEF Secret, Provisioned, BootType
  <1>12. mig' = mig /\ mig[r].pc = "idle"
    BY <1>1, <1>2, <1>4 DEF BootType, migrateVars
  <1>13. BootType'
    <2>1. \A q \in Replica : /\ mig'[q].pc # "idle" <=> boot'[q] = "migrate"
                             /\ prov'[q].pc # "idle" <=> boot'[q] = "provision"
      <3>1. \A q \in Replica : q # r => boot'[q] = boot[q] /\ prov'[q] = prov[q] /\ mig'[q] = mig[q]
        BY Zenon, <1>2, <1>8, <1>9, <1>12 DEF BootType
      <3>2. mig'[r].pc = "idle" /\ boot'[r] # "migrate"
        BY <1>8, <1>12
      <3>3. prov'[r].pc # "idle" <=> boot'[r] = "provision"
        BY Zenon, <1>2, <1>3, <1>9
      <3> QED
        BY <1>2, <3>1, <3>2, <3>3 DEF BootType
    <2>2. boot' \in [Replica -> {"down", "config", "migrate", "keys", "secret", "provision",
                                 "issuer", "serving"}]
      BY <1>2, <1>8 DEF BootType
    <2>3. activeKey' \in BOOLEAN /\ lost' \in BOOLEAN
      BY <1>1, <1>2 DEF BootType
    <2> QED
      BY ZenonT(40), <1>8, <1>11, <2>1, <2>2, <2>3 DEF BootType
  <1>14. IdleInv'
    BY Zenon, <1>3, <1>9, <1>12, FramesIdle DEF IInv, IdleInv
  <1>15. StagesInv'
    <2>1. boot[r] \in AfterKeys
      BY <1>4 DEF AfterKeys, AfterMigrate, AfterConfig
    <2>2. 1..Embedded[r] \subseteq ledger /\ activeKey
      BY Zenon, <2>1 DEF IInv, StagesInv, AfterKeys
    <2> QED
      BY Zenon, <1>1, <1>2, <1>5, <1>8, <2>2, StagesMove DEF BootType
  <1>16. SettingsInv'
    <2>1. missing[r] \cap {"DATABASE_URL", "KEYCLOAK_URL", "BS_SIGNING_KEK"} = {}
      BY Zenon, <1>4 DEF IInv, SettingsInv, AfterConfig
    <2>2. boot'[r] # "down" =>
             UNCHANGED missing /\ "BS_SERVICE_CLIENT_SECRET" \notin missing[r]
      BY Zenon, <1>4, <1>7 DEF IInv, SettingsInv, AfterSecret, AfterKeys, AfterMigrate, AfterConfig
    <2>3. boot'[r] # "serving"
      BY <1>8
    <2>4. boot'[r] \in AfterConfig => boot'[r] # "down"
      BY DEF AfterConfig
    <2>5. boot'[r] \in AfterSecret => boot'[r] \in AfterConfig
      BY Zenon DEF AfterSecret, AfterKeys, AfterMigrate
    <2>6. \A q \in Replica : q # r => boot'[q] = boot[q] /\ missing'[q] = missing[q]
      BY <1>2, <1>8 DEF BootType
    <2> QED
      BY Zenon, <2>1, <2>2, <2>3, <2>4, <2>5, <2>6 DEF IInv, SettingsInv
  <1>17. ProvisionInv'
    <2>1. CASE boot'[r] = "issuer"
      <3>1. PastRealm(r) /\ \A i \in 1..2 : PastClient(r, i)
        BY <1>4, <1>7, <2>1 DEF PastRealm, PastClient
      <3>2. UNCHANGED since
        BY Zenon, <1>4, <1>7, <2>1
      <3> QED
        BY <1>1, <1>2, <1>6, <1>8, <1>9, <3>1, <3>2, ProvisionMoves DEF IInv, ProvisionInv, BootType
    <2>2. CASE boot'[r] # "issuer"
      <3>1. ~PastRealm(r)' /\ \A i \in 1..2 : ~PastClient(r, i)'
        BY <1>2, <1>3, <1>8, <1>9, <2>2 DEF PastRealm, PastClient, AfterProvision, AfterSecret, AfterKeys,
                                      AfterMigrate, AfterConfig
      <3> QED
        BY ZenonT(40), <1>2, <1>6, <1>8, <1>9, <3>1, ProvisionMoves DEF BootType
    <2> QED
      BY Zenon, <2>1, <2>2
  <1> QED
    BY Zenon, <1>5, <1>10, <1>13, <1>14, <1>15, <1>16, <1>17, Assembled

LEMMA CrashStep ==
    ASSUME IInv, NEW r \in Replica, Crash(r)
    PROVE  IInv'
  <1>1. /\ BootType /\ ProvisionTypeOK /\ FrameOK(r)
        /\ prov \in [Replica -> CallFrame] /\ NotProvisioning \in CallFrame
        /\ NotProvisioning.pc = "idle" /\ NotApplying.pc = "idle"
    BY TypesApart, FrameFacts DEF ProvisionTypeOK, CallFrame, NotProvisioning, NotApplying
  <1>2. ApplyOK' /\ LedgerNext
    BY KilledKeeps DEF Crash
  <1>3. KeycloakNext
    <2>1. prov[r].i \in 1..2 /\ realm \in BOOLEAN /\ clients \in [1..2 -> {"none", "want", "other"}]
      BY <1>1 DEF CallFrame, ProvisionTypeOK
    <2>2. CASE UNCHANGED keycloak
      BY Zenon, <2>1, <2>2 DEF keycloak, KeycloakNext
    <2>3. CASE ~realm /\ realm' = TRUE /\ UNCHANGED clients
      BY <2>1, <2>3 DEF KeycloakNext
    <2>4. CASE Wanted(r) /\ UNCHANGED realm
      BY Zenon, <2>1, <2>4 DEF Wanted, KeycloakNext
    <2> QED
      BY ZenonT(20), <2>2, <2>3, <2>4 DEF Crash, Unseen
  <1>4. /\ boot' = [boot EXCEPT ![r] = "down"] /\ boot'[r] = "down"
        /\ missing' \in [Replica -> SUBSET Setting]
        /\ since' \in [Replica -> SUBSET (1..Len(Client))]
        /\ \A q \in Replica : q # r => since'[q] = since[q] /\ missing'[q] = missing[q]
    BY Zenon, <1>1 DEF Crash, Exits, BootTo, BootType
  <1>5. /\ prov' \in [Replica -> CallFrame] /\ prov'[r] = NotProvisioning /\ mig'[r] = NotApplying
        /\ \A q \in Replica : q # r => prov'[q] = prov[q] /\ mig'[q] = mig[q]
    BY Zenon, <1>1 DEF Crash, Killed, FrameOK
  <1>6. ProvisionTypeOK'
    BY <1>3, <1>5 DEF ProvisionTypeOK, KeycloakNext, CallFrame
  <1>7. BootType'
    <2>1. fault' \in BOOLEAN /\ activeKey' \in BOOLEAN /\ lost' \in BOOLEAN
      BY ZenonT(20), <1>1 DEF Crash, BootType
    <2>2. \A q \in Replica : /\ mig'[q].pc # "idle" <=> boot'[q] = "migrate"
                             /\ prov'[q].pc # "idle" <=> boot'[q] = "provision"
      BY <1>1, <1>4, <1>5 DEF BootType
    <2> QED
      BY Zenon, <1>1, <1>4, <2>1, <2>2 DEF BootType
  <1>8. IdleInv'
    BY Zenon, <1>5, FramesIdle
  <1>9. StagesInv'
    BY Zenon, <1>1, <1>2, <1>4, StagesMove DEF Crash, BootType, AfterKeys, AfterMigrate, AfterConfig
  <1>10. SettingsInv'
    BY ZenonT(40), <1>1, <1>4 DEF IInv, SettingsInv, BootType, AfterSecret, AfterKeys, AfterMigrate, AfterConfig
  <1>11. ProvisionInv'
    <2>1. ~PastRealm(r)' /\ \A i \in 1..2 : ~PastClient(r, i)'
      BY Zenon, <1>1, <1>4, <1>5 DEF PastRealm, PastClient, AfterProvision, AfterSecret, AfterKeys,
                              AfterMigrate, AfterConfig
    <2> QED
      BY ZenonT(40), <1>1, <1>3, <1>4, <1>5, <2>1, ProvisionMoves DEF BootType
  <1> QED
    BY Zenon, <1>2, <1>6, <1>7, <1>8, <1>9, <1>10, <1>11, Assembled

\* Postgres ends a session; an administrator edits a client.
LEMMA OtherSteps ==
    ASSUME IInv, Reaped \/ \E i \in 1..Len(Client) : Edited(i)
    PROVE  IInv'
  <1>1. CASE Reaped
    <2>1. /\ lock = Orphan /\ lock' = None
          /\ UNCHANGED <<ledger, schema, mig, keycloakVars, boot, missing, since, activeKey, fault, lost>>
      BY <1>1 DEF Reaped, SessionEnds, own
    <2>2. LedgerNext
      BY ZenonT(40), <2>1 DEF IInv, TypeOK, MigrateTypeOK, LedgerIsPrefix, LedgerNext
    <2>3. ApplyOK'
      BY Zenon, <2>1, <2>2, MigrateConstants
      DEF IInv, TypeOK, MigrateTypeOK, LockWhileApplying, ApplyInv, ApplyOK, LedgerNext
    <2>4. BootType' /\ StagesInv' /\ SettingsInv'
      BY Zenon, <2>1, <2>2, TypesApart, BootUntouched DEF BootType, keycloakVars
    <2>5. IdleInv'
      BY <2>1 DEF IInv, IdleInv, keycloakVars
    <2> QED
      BY Zenon, <2>1, <2>3, <2>4, <2>5, ProvisionUntouched, Assembled
  <1>2. ASSUME NEW e \in 1..Len(Client), Edited(e) PROVE IInv'
    <2>1. /\ UNCHANGED <<migrateVars, realm, prov, boot, missing, activeKey, fault, lost>>
          /\ clients[e] # "none" /\ clients' = [clients EXCEPT ![e] = "other"]
          /\ since' = [r \in Replica |-> since[r] \cup {j \in {e} : HasUpserted(r, j)}]
      BY <1>2 DEF Edited, Drift
    <2>2. BootType /\ ProvisionTypeOK /\ e \in 1..2
      BY TypesApart, TwoClients
    <2>3. ApplyOK' /\ LedgerNext
      BY Zenon, <2>1, ApplyUntouched
    <2>4. ProvisionTypeOK' /\ IdleInv'
      BY Zenon, <2>1, <2>2 DEF ProvisionTypeOK, migrateVars, IInv, IdleInv
    <2>5. since' \in [Replica -> SUBSET (1..Len(Client))]
      BY Zenon, <2>1, <2>2 DEF BootType
    <2>6. BootType' /\ SettingsInv' /\ StagesInv'
      BY <2>1, <2>2, <2>3, <2>5 DEF BootType, migrateVars, IInv, SettingsInv, StagesInv, LedgerNext
    <2>7. ProvisionInv'
      <3>1. ASSUME NEW q \in Replica
            PROVE  /\ PastRealm(q)' => realm'
                   /\ \A i \in 1..2 : PastClient(q, i)' =>
                         clients'[i] = "want" \/ (clients'[i] = "other" /\ i \in since'[q])
        <4>1. PastRealm(q)' => PastRealm(q)
          BY Zenon, <2>1 DEF PastRealm
        <4>2. \A i \in 1..2 : PastClient(q, i)' => PastClient(q, i)
          BY Zenon, <2>1 DEF PastClient
        <4>3. PastClient(q, e) => e \in since'[q]
          BY Zenon, <2>1 DEF PastClient, HasUpserted, AfterProvision, AfterSecret, AfterKeys, AfterMigrate,
                      AfterConfig
        <4>4. \A i \in 1..2 : i \in since[q] => i \in since'[q]
          BY Zenon, <2>1
        <4>5. clients'[e] = "other" /\ \A i \in 1..2 : i # e => clients'[i] = clients[i]
          BY <2>1, <2>2 DEF ProvisionTypeOK
        <4> QED
          BY Zenon, <2>1, <4>1, <4>2, <4>3, <4>4, <4>5 DEF IInv, ProvisionInv
      <3> QED
        BY Zenon, <3>1 DEF ProvisionInv
    <2> QED
      BY Zenon, <2>3, <2>4, <2>6, <2>7, Assembled
  <1> QED
    BY Zenon, <1>1, <1>2
----------------------------------------------------------------------------
LEMMA Inductive == Spec => []IInv
  <1>1. IInv /\ [Next]_vars => IInv'
    <2> SUFFICES ASSUME IInv, [Next]_vars PROVE IInv'
      BY Zenon
    <2>1. CASE UNCHANGED vars
      <3>1. UNCHANGED <<migrateVars, keycloakVars, boot, missing, since, activeKey, fault, lost>>
        BY <2>1 DEF vars, own
      <3>2. ApplyOK' /\ LedgerNext
        BY Zenon, <3>1, ApplyUntouched
      <3>3. BootType' /\ StagesInv' /\ SettingsInv'
        BY Zenon, <3>1, <3>2, TypesApart, BootUntouched DEF BootType, migrateVars, keycloakVars
      <3>4. IdleInv'
        BY Zenon, <3>1 DEF IInv, IdleInv, migrateVars, keycloakVars
      <3> QED
        BY Zenon, <3>1, <3>2, <3>3, <3>4, ProvisionUntouched, Assembled
    <2>2. ASSUME NEW r \in Replica,
                 Start(r) \/ Runs(r) \/ MigrateFault(r) \/ ProvisionFault(r) \/ Crash(r)
          PROVE  IInv'
      BY Zenon, <2>2, ApplySteps, ProvisionSteps, StartSteps, MigrateEnds, ProvisionEnds, CrashStep DEF Runs
    <2>3. CASE Reaped \/ \E i \in 1..Len(Client) : Edited(i)
      BY <2>3, OtherSteps
    <2> QED
      BY <2>1, <2>2, <2>3 DEF Next
  <1> QED
    BY <1>1, InitHolds, PTL DEF Spec

(***************************************************************************)
(* Migrations are applied by one replica at a time, and only an Apply that *)
(* runs, or a session about to end, holds the lock, for any number of      *)
(* replicas (the deferred unlock of Apply).                                *)
(***************************************************************************)
THEOREM LockWhileApplyingHolds == Spec => []LockWhileApplying
  BY Inductive, PTL DEF IInv

(***************************************************************************)
(* The migrations in effect are those of the ledger and a prefix of the    *)
(* order, for replicas of any releases (the transactions of Apply).        *)
(***************************************************************************)
THEOREM LedgerIsPrefixHolds == Spec => []LedgerIsPrefix
  BY Inductive, PTL DEF IInv

(***************************************************************************)
(* A replica that serves has its settings, its migrations, a signing key,  *)
(* the realm and the clients, but for later edits and the root token       *)
(* (runServer).                                                            *)
(***************************************************************************)
THEOREM ServesOnBaselineHolds == Spec => []ServesOnBaseline
  <1>1. IInv => ServesOnBaseline
    <2> SUFFICES ASSUME IInv, NEW r \in Replica, boot[r] = "serving"
                 PROVE  /\ missing[r] \subseteq {"BS_ROOT_TOKEN"} /\ 1..Embedded[r] \subseteq ledger
                        /\ activeKey /\ realm
                        /\ \A i \in 1..2 : clients[i] = "want" \/ (clients[i] = "other" /\ i \in since[r])
      BY TwoClients DEF ServesOnBaseline
    <2>1. boot[r] \in AfterMigrate /\ boot[r] \in AfterKeys /\ boot[r] \in AfterProvision
      BY Zenon DEF AfterProvision, AfterSecret, AfterKeys, AfterMigrate, AfterConfig
    <2>2. missing[r] \subseteq {"BS_ROOT_TOKEN"} /\ 1..Embedded[r] \subseteq ledger /\ activeKey
      BY <2>1 DEF IInv, SettingsInv, StagesInv
    <2>3. PastRealm(r) /\ \A i \in 1..2 : PastClient(r, i)
      BY Zenon, <2>1 DEF PastRealm, PastClient
    <2> QED
      BY Zenon, <2>2, <2>3 DEF IInv, ProvisionInv
  <1> QED
    BY <1>1, Inductive, PTL
----------------------------------------------------------------------------
(* Somebody wins. *)

\* r is about to create client i, if nobody else does; r has created the last one.
Upserting(r, i) ==
    /\ boot[r] = "provision" /\ ~prov[r].err
    /\ prov[r].i = i /\ prov[r].pc \in {"getClients", "createClient"}

Won(r) ==
    /\ ~prov[r].err
    /\ boot[r] \in AfterProvision \/ (boot[r] = "provision" /\ prov[r].pc = "returned")

CallInv(r) ==
    /\ prov[r].pc # "returned" => ~prov[r].err
    /\ prov[r].pc \in {"login", "getRealm", "createRealm"} => prov[r].i = 1
    /\ prov[r].pc = "updateClient" => clients[prov[r].i] # "none"

(***************************************************************************)
(* Whoever creates the realm comes to the first client, whoever creates    *)
(* that comes to the second, and whoever creates the second is through: a  *)
(* replica that loses leaves one behind that is further on.                *)
(***************************************************************************)
WinInv ==
    /\ \A r \in Replica : CallInv(r)
    /\ lost => realm
    /\ ~fault =>
          /\ realm /\ clients[1] = "none" => \E r \in Replica : Upserting(r, 1)
          /\ clients[1] # "none" /\ clients[2] = "none" => \E r \in Replica : Upserting(r, 2)
          /\ clients[2] # "none" => \E r \in Replica : Won(r)

\* What a step of r must keep up.
Advances(r) ==
    /\ Upserting(r, 1) /\ clients'[1] = "none" => Upserting(r, 1)'
    /\ Upserting(r, 2) /\ clients'[2] = "none" => Upserting(r, 2)'
    /\ Won(r) => Won(r)'
    /\ realm' /\ ~realm => Upserting(r, 1)'
    /\ clients'[1] # "none" /\ clients[1] = "none" /\ clients'[2] = "none" => Upserting(r, 2)'
    /\ clients'[2] # "none" /\ clients[2] = "none" => Won(r)'

LEMMA WinKept ==
    ASSUME IInv, WinInv, NEW r \in Replica,
           \A q \in Replica \ {r} : prov'[q] = prov[q] /\ boot'[q] = boot[q],
           \A i \in 1..2 : clients[i] # "none" => clients'[i] # "none",
           realm => realm', lost' => realm', CallInv(r)', ~fault' => ~fault /\ Advances(r)
    PROVE  WinInv'
  <1>1. \A q \in Replica : CallInv(q)'
    <2> SUFFICES ASSUME NEW q \in Replica \ {r} PROVE CallInv(q)'
      BY Zenon
    <2>1. CallInv(q) /\ prov'[q] = prov[q] /\ prov[q].i \in 1..2
      BY Zenon, TypesApart DEF WinInv, ProvisionTypeOK
    <2> QED
      BY <2>1 DEF CallInv
  <1>2. ASSUME ~fault', realm', clients'[1] = "none" PROVE \E q \in Replica : Upserting(q, 1)'
    <2>1. clients[1] = "none" /\ ~fault
      BY <1>2
    <2>2. CASE realm
      <3>1. PICK q \in Replica : Upserting(q, 1)
        BY ZenonT(40), <2>1, <2>2 DEF WinInv
      <3>2. Upserting(q, 1)'
        BY <1>2, <3>1 DEF Upserting, Advances
      <3> QED
        BY Zenon, <3>2
    <2> QED
      BY Zenon, <1>2, <2>2 DEF Advances
  <1>3. ASSUME ~fault', clients'[1] # "none", clients'[2] = "none"
        PROVE  \E q \in Replica : Upserting(q, 2)'
    <2>1. clients[2] = "none" /\ ~fault
      BY <1>3
    <2>2. CASE clients[1] # "none"
      <3>1. PICK q \in Replica : Upserting(q, 2)
        BY Zenon, <2>1, <2>2 DEF WinInv
      <3>2. Upserting(q, 2)'
        BY <1>3, <3>1 DEF Upserting, Advances
      <3> QED
        BY Zenon, <3>2
    <2> QED
      BY Zenon, <1>3, <2>2 DEF Advances
  <1>4. ASSUME ~fault', clients'[2] # "none" PROVE \E q \in Replica : Won(q)'
    <2>1. CASE clients[2] # "none"
      <3>1. PICK q \in Replica : Won(q)
        BY Zenon, <1>4, <2>1 DEF WinInv
      <3>2. Won(q)'
        BY Zenon, <1>4, <3>1 DEF Won, Advances
      <3> QED
        BY Zenon, <3>2
    <2> QED
      BY ZenonT(40), <1>4, <2>1 DEF Advances
  <1> QED
    BY Zenon, <1>1, <1>2, <1>3, <1>4 DEF WinInv

\* Steps outside EnsureProvisioned.
LEMMA OutsideKeeps ==
    ASSUME IInv, WinInv, NEW r \in Replica,
           \/ Start(r) \/ Load(r) \/ MigrateStep(r) \/ MigrateFault(r) \/ Migrated(r)
           \/ EnsureActive(r) \/ Serve(r)
    PROVE  WinInv'
  <1>1. BootType /\ ProvisionTypeOK
    BY TypesApart
  <1>2. UNCHANGED <<realm, clients, prov, lost>>
    BY Zenon DEF Start, Load, MigrateStep, MigrateFault, Migrated, EnsureActive, Serve, keycloakVars, own
  <1>3. \A q \in Replica \ {r} : boot'[q] = boot[q]
    BY <1>1 DEF Start, Load, MigrateStep, MigrateFault, Migrated, EnsureActive, Serve, Exits, BootTo,
                own, BootType
  <1>4. fault' = fault \/ fault'
    BY DEF Start, Load, MigrateStep, MigrateFault, Migrated, EnsureActive, Serve, own
  <1>5. \/ fault'
        \/ boot[r] \in {"down", "config", "migrate", "keys"}
        \/ boot[r] = "issuer" /\ boot'[r] = "serving"
    <2>1. mig[r].pc # "idle" => boot[r] = "migrate"
      BY Zenon, <1>1 DEF BootType
    <2>2. Apply(r) \/ AcquireFails(r) \/ ApplyFails(r) => mig[r].pc # "idle"
      BY DEF Apply, Acquire, Lock, EnsureLedger, Exists, Tx, Unlock, AcquireFails, ApplyFails
    <2> QED
      BY Zenon, <1>1, <2>1, <2>2 DEF Start, Load, MigrateStep, MigrateFault, Migrated, EnsureActive, Serve,
                              BootTo, BootType
  <1>6. ~fault' => Advances(r)
    BY ZenonT(40), <1>2, <1>5 DEF Advances, Upserting, Won, AfterProvision, AfterSecret, AfterKeys, AfterMigrate,
                      AfterConfig
  <1>7. CallInv(r)'
    BY Zenon, <1>1, <1>2 DEF WinInv, CallInv
  <1>8. lost' => realm'
    BY <1>2 DEF WinInv
  <1> QED
    BY <1>1, <1>2, <1>3, <1>4, <1>6, <1>7, <1>8, WinKept

\* The call begins and ends.
LEMMA CallBounds ==
    ASSUME IInv, WinInv, NEW r \in Replica, Secret(r) \/ Provisioned(r)
    PROVE  WinInv'
  <1>1. /\ BootType /\ prov \in [Replica -> CallFrame] /\ clients \in [1..2 -> {"none", "want", "other"}]
        /\ NotProvisioning \in CallFrame /\ NotProvisioning.pc = "idle" /\ NotProvisioning.i = 1
        /\ ~NotProvisioning.err
    BY TypesApart DEF ProvisionTypeOK, CallFrame, NotProvisioning
  <1>2. UNCHANGED <<realm, clients, lost>> /\ (lost' => realm')
    BY DEF Secret, Provisioned, WinInv
  <1>3. CASE Secret(r)
    <2> DEFINE q == NotProvisioning
               called == [q EXCEPT !.pc = "login"]
    <2>1. boot[r] = "secret" /\ prov[r] = NotProvisioning
      BY <1>1, <1>3 DEF Secret, BootType, IInv, IdleInv
    <2>2. q \in CallFrame /\ ~q.err /\ q.i = 1
      BY <1>1
    <2> HIDE DEF q
    <2>3. called.pc = "login" /\ called.i = 1 /\ ~called.err
      BY <2>2 DEF CallFrame
    <2>4. prov' = prov \/ prov' = [prov EXCEPT ![r] = called]
      BY <1>3, <2>1 DEF Secret, q
    <2> HIDE DEF called
    <2>5. (\A p \in Replica \ {r} : prov'[p] = prov[p] /\ boot'[p] = boot[p]) /\ (fault' = fault \/ fault')
      BY <1>1, <1>3, <2>4 DEF Secret, Exits, BootTo, BootType
    <2>6. CallInv(r)'
      BY Zenon, <1>1, <1>2, <2>1, <2>3, <2>4 DEF CallInv
    <2>7. Advances(r)
      BY Zenon, <1>2, <2>1 DEF Advances, Upserting, Won, AfterProvision, AfterSecret
    <2> QED
      BY <1>2, <2>5, <2>6, <2>7, WinKept
  <1>4. CASE Provisioned(r)
    <2>1. prov'[r] = NotProvisioning /\ prov[r].pc = "returned" /\ boot[r] = "provision"
      BY Zenon, <1>1, <1>4 DEF Provisioned, BootType
    <2>2. (\A q \in Replica \ {r} : prov'[q] = prov[q] /\ boot'[q] = boot[q]) /\ fault' = fault
      BY ZenonT(40), <1>1, <1>4 DEF Provisioned, Exits, BootTo, BootType
    <2>3. ~prov[r].err => boot'[r] = "issuer"
      BY Zenon, <1>1, <1>4 DEF Provisioned, BootTo, BootType
    <2>4. CallInv(r)'
      BY Zenon, <1>1, <2>1 DEF CallInv
    <2>5. Won(r) => Won(r)'
      BY Zenon, <1>1, <2>1, <2>3 DEF Won, AfterProvision, AfterSecret, AfterKeys, AfterMigrate, AfterConfig
    <2>6. Advances(r)
      BY Zenon, <1>2, <2>1, <2>5 DEF Advances, Upserting
    <2> QED
      BY Zenon, <1>2, <2>2, <2>4, <2>6, WinKept
  <1> QED
    BY Zenon, <1>3, <1>4

\* The steps of EnsureProvisioned and their failures.
LEMMA OthersCalls ==
    ASSUME IInv, NEW r \in Replica, UNCHANGED boot,
           EnsureProvisioned(r) \/ Conflict(r) \/ GetRealmFails(r) \/ CallFails(r)
    PROVE  \A q \in Replica \ {r} : prov'[q] = prov[q] /\ boot'[q] = boot[q]
  <1>1. prov \in [Replica -> CallFrame]
    BY Zenon, TypesApart DEF ProvisionTypeOK, CallFrame
  <1> QED
    BY Zenon, <1>1 DEF EnsureProvisioned, Login, GetRealm, CreateRealm, GetClients, CreateClient,
                UpdateClient, Conflict, GetRealmFails, CallFails, Call, Upserted, Refused

LEMMA CallGoesOn ==
    ASSUME IInv, WinInv, NEW r \in Replica, ProvisionStep(r)
    PROVE  WinInv'
  <1>1. /\ EnsureProvisioned(r) /\ UNCHANGED <<boot, fault, lost>>
    BY Zenon DEF ProvisionStep, own
  <1>2. prov[r].pc # "idle"
    BY Zenon, <1>1 DEF EnsureProvisioned, Login, GetRealm, CreateRealm, GetClients, CreateClient, UpdateClient
  <1>3. CallOK(r) /\ CallInv(r) /\ (lost => realm)
    BY Zenon, <1>2, CallFacts DEF WinInv
  <1>4. \A q \in Replica \ {r} : prov'[q] = prov[q] /\ boot'[q] = boot[q]
    BY Zenon, <1>1, OthersCalls
  <1> DEFINE i == prov[r].i
  <1>5. i \in 1..2 /\ prov[r] \in CallFrame
    BY <1>3 DEF CallOK, CallFrame
  <1>6. ASSUME NEW label, Call(r, label)
        PROVE  prov'[r].pc = label /\ prov'[r].i = i /\ prov'[r].err = prov[r].err
    BY Zenon, <1>3, <1>5, <1>6 DEF Call, CallOK, CallFrame
  <1>7. CASE Login(r) \/ GetRealm(r)
    <2>1. /\ prov[r].pc \in {"login", "getRealm"} /\ UNCHANGED <<realm, clients>>
          /\ prov'[r].pc \in {"getRealm", "createRealm", "getClients"} /\ prov'[r].i = i
          /\ prov'[r].err = prov[r].err
      BY ZenonT(40), <1>6, <1>7 DEF Login, GetRealm, keycloak
    <2>2. CallInv(r)' /\ Advances(r)
      BY <1>1, <1>3, <2>1 DEF CallInv, Advances, Upserting, Won, CallOK, AfterProvision, AfterSecret,
                              AfterKeys, AfterMigrate, AfterConfig
    <2> QED
      BY Zenon, <1>1, <1>3, <1>4, <2>1, <2>2, WinKept
  <1>8. CASE CreateRealm(r)
    <2>1. /\ prov[r].pc = "createRealm" /\ realm' /\ UNCHANGED clients
          /\ prov'[r].pc = "getClients" /\ prov'[r].i = i /\ prov'[r].err = prov[r].err
      BY Zenon, <1>6, <1>8 DEF CreateRealm
    <2>2. CallInv(r)' /\ Advances(r)
      BY Zenon, <1>1, <1>3, <2>1 DEF CallInv, Advances, Upserting, Won, CallOK, AfterProvision, AfterSecret,
                              AfterKeys, AfterMigrate, AfterConfig
    <2> QED
      BY ZenonT(40), <1>1, <1>3, <1>4, <2>1, <2>2, WinKept
  <1>9. CASE GetClients(r)
    <2>1. /\ prov[r].pc = "getClients" /\ UNCHANGED <<realm, clients>>
          /\ prov'[r].pc = IF clients[i] = "none" THEN "createClient" ELSE "updateClient"
          /\ prov'[r].i = i /\ prov'[r].err = prov[r].err
      BY Zenon, <1>6, <1>9 DEF GetClients, keycloak
    <2>2. CallInv(r)'
      BY Zenon, <1>3, <2>1 DEF CallInv
    <2>3. Advances(r)
      BY Zenon, <1>1, <1>3, <2>1 DEF Advances, Upserting, Won, CallOK, AfterProvision, AfterSecret,
                              AfterKeys, AfterMigrate, AfterConfig
    <2> QED
      BY ZenonT(40), <1>1, <1>3, <1>4, <2>1, <2>2, <2>3, WinKept
  <1>10. CASE CreateClient(r) \/ UpdateClient(r)
    <2>1. /\ clients' = [clients EXCEPT ![i] = "want"] /\ realm' = realm /\ Upserted(r)
          /\ prov[r].pc \in {"createClient", "updateClient"}
      BY Zenon, <1>10 DEF CreateClient, UpdateClient, Wanted
    <2>2. /\ clients'[i] # "none"
          /\ \A j \in 1..2 : j # i => clients'[j] = clients[j]
          /\ \A j \in 1..2 : clients[j] # "none" => clients'[j] # "none"
      BY <1>3, <1>5, <2>1 DEF CallOK
    <2>3. i = 1 => prov'[r].pc = "getClients" /\ prov'[r].i = 2 /\ prov'[r].err = prov[r].err
      <3> SUFFICES ASSUME i = 1
                   PROVE  prov'[r].pc = "getClients" /\ prov'[r].i = 2 /\ prov'[r].err = prov[r].err
        OBVIOUS
      <3>1. prov' = [prov EXCEPT ![r].pc = "getClients", ![r].i = @ + 1]
        BY <2>1, TwoClients DEF Upserted
      <3> QED
        BY <1>3, <1>5, <3>1 DEF CallOK, CallFrame
    <2>4. i = 2 => prov'[r].pc = "returned" /\ prov'[r].i = 2 /\ prov'[r].err = prov[r].err
      BY <1>6, <2>1, TwoClients DEF Upserted
    <2>5. i = 1 \/ i = 2
      BY <1>5
    <2>6. ~prov[r].err /\ boot[r] = "provision" /\ boot'[r] = "provision"
      BY Zenon, <1>1, <1>3, <2>1 DEF CallInv, CallOK
    <2> HIDE DEF i
    <2>7. CallInv(r)'
      BY ZenonT(40), <2>3, <2>4, <2>5, <2>6 DEF CallInv
    <2>8. i = 1 => Advances(r)
      BY <2>1, <2>2, <2>3, <2>6 DEF Advances, Upserting, Won, AfterProvision, AfterSecret, AfterKeys,
                                    AfterMigrate, AfterConfig, i
    <2>9. i = 2 => Advances(r)
      BY Zenon, <2>1, <2>2, <2>4, <2>6 DEF Advances, Upserting, Won, AfterProvision, AfterSecret, AfterKeys,
                                    AfterMigrate, AfterConfig, i
    <2> QED
      BY ZenonT(40), <1>1, <1>3, <1>4, <2>1, <2>2, <2>5, <2>7, <2>8, <2>9, WinKept
  <1> QED
    BY Zenon, <1>1, <1>7, <1>8, <1>9, <1>10 DEF EnsureProvisioned

LEMMA LoserLeaves ==
    ASSUME IInv, WinInv, NEW r \in Replica, LosesRace(r)
    PROVE  WinInv'
  <1>1. /\ Conflict(r) /\ UNCHANGED <<boot, fault, realm, clients>> /\ prov[r].pc # "idle"
    BY DEF LosesRace, Conflict, keycloak
  <1>2. CallOK(r) /\ CallInv(r)
    BY ZenonT(40), <1>1, CallFacts DEF WinInv
  <1>3. \A q \in Replica \ {r} : prov'[q] = prov[q] /\ boot'[q] = boot[q]
    BY Zenon, <1>1, OthersCalls
  <1>4. realm
    BY <1>1, <1>2 DEF Conflict, CallOK
  <1>5. prov'[r].pc = "returned" /\ prov[r].pc \in {"createRealm", "createClient"}
    BY Zenon, <1>1, <1>2 DEF Conflict, Refused, CallOK, CallFrame
  <1>6. prov[r].pc = "createClient" => clients[prov[r].i] # "none"
    BY Zenon, <1>1 DEF Conflict
  <1>7. CallInv(r)'
    BY <1>5 DEF CallInv
  <1>8. Advances(r)
    BY ZenonT(40), <1>1, <1>2, <1>5, <1>6 DEF Advances, Upserting, Won, CallOK, AfterProvision, AfterSecret,
                                  AfterKeys, AfterMigrate, AfterConfig
  <1> QED
    BY ZenonT(40), <1>1, <1>3, <1>4, <1>7, <1>8, WinKept

\* After a fault nothing is promised.
LEMMA FaultFrees ==
    ASSUME IInv, WinInv, NEW r \in Replica, ProvisionFault(r) \/ Crash(r)
    PROVE  WinInv'
  <1>1. /\ fault' /\ UNCHANGED lost /\ prov \in [Replica -> CallFrame]
        /\ clients \in [1..2 -> {"none", "want", "other"}] /\ CallInv(r) /\ BootType
    BY Zenon, TypesApart DEF ProvisionFault, Crash, ProvisionTypeOK, CallFrame, WinInv
  <1>2. /\ realm => realm' 
        /\ \A i \in 1..2 : clients[i] # "none" => clients'[i] # "none"
    <2>1. Unseen(r) \/ UNCHANGED keycloak
      BY Zenon DEF ProvisionFault, Crash, GetRealmFails, CallFails
    <2> QED
      BY <1>1, <2>1 DEF Unseen, Wanted, keycloak
  <1>3. (\A q \in Replica \ {r} : prov'[q] = prov[q] /\ boot'[q] = boot[q]) /\ (lost' => realm')
    <2>1. lost' => realm'
      BY Zenon, <1>1, <1>2 DEF WinInv
    <2>2. CASE ProvisionFault(r)
      <3>1. UNCHANGED boot /\ (GetRealmFails(r) \/ CallFails(r))
        BY Zenon, <2>2 DEF ProvisionFault
      <3> QED
        BY Zenon, <2>1, <3>1, OthersCalls
    <2>3. CASE Crash(r)
      <3>1. \E x, y : prov' = [prov EXCEPT ![r] = x] /\ boot' = [boot EXCEPT ![r] = y]
        BY Zenon, <2>3 DEF Crash, Exits, BootTo
      <3> QED
        BY Zenon, <1>1, <2>1, <3>1 DEF BootType
    <2> QED
      BY Zenon, <2>2, <2>3
  <1>4. CallInv(r)'
    <2>1. CASE GetRealmFails(r)
      <3>1. prov'[r].pc = "createRealm" /\ prov[r].pc = "getRealm" /\ prov'[r].i = prov[r].i
            /\ prov'[r].err = prov[r].err
        BY Zenon, <1>1, <2>1 DEF GetRealmFails, Call, CallFrame
      <3> QED
        BY <1>1, <3>1 DEF CallInv
    <2>2. CASE CallFails(r)
      <3>1. prov'[r].pc = "returned"
        BY Zenon, <1>1, <2>2 DEF CallFails, Refused, CallFrame
      <3> QED
        BY <3>1 DEF CallInv
    <2>3. CASE Crash(r)
      BY Zenon, <1>1, <2>3 DEF Crash, CallInv, NotProvisioning
    <2> QED
      BY Zenon, <2>1, <2>2, <2>3 DEF ProvisionFault
  <1> QED
    BY Zenon, <1>1, <1>2, <1>3, <1>4, WinKept

LEMMA WinStep ==
    ASSUME IInv, WinInv, [Next]_vars
    PROVE  WinInv'
  <1>1. ASSUME NEW r \in Replica, Start(r) \/ Runs(r) \/ MigrateFault(r) \/ ProvisionFault(r) \/ Crash(r)
        PROVE  WinInv'
    BY Zenon, <1>1, OutsideKeeps, CallBounds, CallGoesOn, LoserLeaves, FaultFrees DEF Runs
  <1>2. CASE Reaped \/ UNCHANGED vars
    <2>1. UNCHANGED <<realm, clients, prov, boot, fault, lost>>
      BY Zenon, <1>2 DEF Reaped, vars, keycloakVars, own
    <2> QED
      BY ZenonT(40), <2>1 DEF WinInv, CallInv, Upserting, Won
  <1>3. CASE \E i \in 1..Len(Client) : Edited(i)
    <2>1. PICK i \in 1..2 : Edited(i)
      BY <1>3, TwoClients
    <2>2. UNCHANGED <<realm, prov, boot, fault, lost>>
      BY Zenon, <2>1 DEF Edited, Drift
    <2>3. \A j \in 1..2 : clients'[j] # "none" <=> clients[j] # "none"
      BY Zenon, <2>1, TypesApart DEF Edited, Drift, ProvisionTypeOK
    <2>4. \A r \in Replica : CallInv(r)'
      BY <2>2, <2>3, TypesApart DEF CallInv, WinInv, ProvisionTypeOK
    <2> QED
      BY <2>2, <2>3, <2>4 DEF WinInv, Upserting, Won
  <1> QED
    BY Zenon, <1>1, <1>2, <1>3 DEF Next

(***************************************************************************)
(* However many replicas start against an empty Keycloak, they never all   *)
(* exit because somebody else was first to create the realm or a client:   *)
(* unless something else fails, one of them is still at it or serves       *)
(* (ensureRealm, upsertClient).                                            *)
(***************************************************************************)
THEOREM SomeoneWinsHolds == Spec => []SomeoneWins
  <1>1. Init => WinInv
    <2> SUFFICES ASSUME Init PROVE WinInv
      OBVIOUS
    <2>1. ~realm /\ ~lost /\ clients[1] = "none" /\ clients[2] = "none"
      BY DEF Init, ProvisionInit
    <2>2. \A r \in Replica : CallInv(r)
      BY DEF Init, ProvisionInit, NotProvisioning, CallInv
    <2> QED
      BY <2>1, <2>2 DEF WinInv
  <1>2. IInv /\ WinInv /\ [Next]_vars => WinInv'
    BY Zenon, WinStep
  <1>3. WinInv => SomeoneWins
    BY DEF WinInv, SomeoneWins, Upserting, Won, AfterProvision, AfterSecret, AfterKeys, AfterMigrate,
           AfterConfig
  <1> QED
    BY <1>1, <1>2, <1>3, Inductive, PTL DEF Spec
============================================================================
