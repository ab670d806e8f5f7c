--------------------------- MODULE ApiKeysProofs ---------------------------
(***************************************************************************)
(* Proofs about ApiKeys, for all sets of threads, principals and keys, all *)
(* caps, lifetimes and policies.                                           *)
(***************************************************************************)
EXTENDS ApiKeys, FiniteSetTheorems, TLAPS

\* What holds of each row: a key nobody was given was never used, and the last use
\* of any other is in last_used, about to be written there, or lost.
RowInv(k) ==
    /\ used[k] <= now
    /\ k \notin Stored => used[k] = Never /\ k \notin touches
    /\ k \notin touches \cup lost /\ used[k] # Never =>
          keys[k].lastUsed # Never /\ keys[k].lastUsed >= used[k] - Minute

Useless(k) == keys[k].revoked \/ Expired(k)

\* What a request knows of itself, and of the key it came with, at each place.
ThreadInv(t) ==
    LET l == loc[t] IN
    /\ l.cred.kind = "apikey" => l.cred.key \in Stored
    /\ l.op = "Issue" => l.p \in Principal
    /\ l.op = "Revoke" => l.key \in Stored
    /\ l.dead => pc[t] = "authn" /\ l.cred.kind = "apikey" /\ Useless(l.cred.key)
    /\ pc[t] \in {"count", "insert"} => l.op = "Issue" /\ l.cred.kind # "apikey"
    /\ pc[t] = "revoke" => l.op = "Revoke"
    /\ pc[t] \notin {"idle", "authn"} /\ l.cred.kind = "apikey" =>
          MayCall(keys[l.cred.key].ro, l.op)

IInv ==
    /\ TypeOK
    /\ IsFiniteSet(Stored)
    /\ \A k \in KeyId : RowInv(k)
    /\ \A t \in Thread : ThreadInv(t)
    /\ CapOvershoot

\* What no step does to a row: rows are not deleted, and of what is in them only
\* revoked, once, and lastUsed change. Time does not go back.
RowsStay ==
    /\ now' >= now
    /\ \A k \in Stored :
          /\ k \in Stored' /\ keys'[k].principal = keys[k].principal
          /\ keys'[k].ro = keys[k].ro /\ keys'[k].exp = keys[k].exp
          /\ keys[k].revoked => keys'[k].revoked
----------------------------------------------------------------------------
(* Types. *)

LEMMA Times == /\ Half \in Nat /\ Half > 1 /\ Never \in Int /\ Never < -Half
               /\ MaxTime \in Nat /\ MaxTTL \in Nat /\ Minute \in Nat
               /\ 0 \in Expiry
  BY ConstantsOK DEF ConstantsOK, Never, Expiry

LEMMA RowFacts ==
    ASSUME TypeOK, NEW k \in Stored
    PROVE  keys[k] \in Key /\ k \in KeyId
  BY DEF TypeOK, Stored

LEMMA KeyIsStored ==
    ASSUME NEW row \in Key
    PROVE  row # NoKey
  <1>1. row.principal \in Principal
    BY DEF Key
  <1>2. NoKey.principal = None
    BY DEF NoKey
  <1> QED
    BY <1>1, <1>2, ConstantsOK DEF ConstantsOK

\* One row is replaced, or added.
LEMMA RowSet ==
    ASSUME TypeOK, NEW k \in KeyId, NEW row \in Key, keys' = [keys EXCEPT ![k] = row]
    PROVE  /\ keys' \in [KeyId -> Key \cup {NoKey}]
           /\ keys'[k] = row /\ \A j \in KeyId \ {k} : keys'[j] = keys[j]
           /\ Stored' = Stored \cup {k}
  <1>1. keys' \in [KeyId -> Key \cup {NoKey}] /\ keys'[k] = row
        /\ \A j \in KeyId \ {k} : keys'[j] = keys[j]
    BY DEF TypeOK
  <1>2. row # NoKey
    BY KeyIsStored
  <1>3. NoKey' = NoKey
    BY DEF NoKey, Never
  <1> QED
    BY <1>1, <1>2, <1>3 DEF Stored

LEMMA NoLocFacts ==
    /\ NoLoc \in Loc /\ NoLoc.cred.kind = "root" /\ NoLoc.op = "none" /\ NoLoc.dead = FALSE
  <1>1. NoCred \in Cred /\ NoCred.kind = "root"
    BY DEF NoCred, Cred
  <1> QED
    BY <1>1, Times DEF NoLoc, Loc

LEMMA LocSet ==
    ASSUME TypeOK, NEW t \in Thread, NEW l \in Loc, loc' = [loc EXCEPT ![t] = l]
    PROVE  /\ loc' \in [Thread -> Loc]
           /\ loc'[t] = l /\ \A u \in Thread \ {t} : loc'[u] = loc[u]
  BY DEF TypeOK

LEMMA PcSet ==
    ASSUME TypeOK, NEW t \in Thread,
           NEW label \in {"idle", "authn", "handle", "count", "insert", "revoke"}, Goto(t, label)
    PROVE  /\ pc' \in [Thread -> {"idle", "authn", "handle", "count", "insert", "revoke"}]
           /\ pc'[t] = label /\ \A u \in Thread \ {t} : pc'[u] = pc[u]
  BY DEF TypeOK, Goto

\* A handler that returns leaves nothing to say about its thread.
LEMMA DoneThread ==
    ASSUME TypeOK, NEW t \in Thread, Done(t)
    PROVE  /\ pc' \in [Thread -> {"idle", "authn", "handle", "count", "insert", "revoke"}]
           /\ loc' \in [Thread -> Loc]
           /\ pc'[t] = "idle" /\ loc'[t] = NoLoc
           /\ \A u \in Thread \ {t} : pc'[u] = pc[u] /\ loc'[u] = loc[u]
           /\ ThreadInv(t)'
  <1>1. Goto(t, "idle") /\ loc' = [loc EXCEPT ![t] = NoLoc]
    BY DEF Done
  <1>2. /\ pc' \in [Thread -> {"idle", "authn", "handle", "count", "insert", "revoke"}]
        /\ pc'[t] = "idle" /\ \A u \in Thread \ {t} : pc'[u] = pc[u]
    BY <1>1, PcSet
  <1>3. /\ loc' \in [Thread -> Loc]
        /\ loc'[t] = NoLoc /\ \A u \in Thread \ {t} : loc'[u] = loc[u]
    BY Zenon, <1>1, NoLocFacts, LocSet
  <1>4. ThreadInv(t)'
    BY ZenonT(40), <1>2, <1>3, NoLocFacts DEF ThreadInv
  <1> QED
    BY <1>2, <1>3, <1>4
----------------------------------------------------------------------------
(* What a step leaves to the rest of the system. *)

LEMMA OthersStay ==
    ASSUME IInv, RowsStay, TypeOK', NEW u \in Thread, pc'[u] = pc[u], loc'[u] = loc[u]
    PROVE  ThreadInv(u)'
  <1> DEFINE l == loc[u]
             k == l.cred.key
  <1>1. ThreadInv(u)
    BY DEF IInv
  <1>2. ASSUME k \in Stored PROVE k \in Stored' /\ keys'[k].ro = keys[k].ro
    BY ZenonT(40), <1>2 DEF RowsStay
  <1>3. ASSUME k \in Stored, Useless(k) PROVE keys'[k].revoked \/ (keys'[k].exp # Never /\ now' > keys'[k].exp)
    <2>1. keys[k] \in Key /\ keys'[k].exp = keys[k].exp /\ (keys[k].revoked => keys'[k].revoked)
      BY Zenon, <1>3, RowFacts DEF RowsStay, IInv
    <2>2. keys[k].exp \in Int /\ now \in Int /\ now' \in Int /\ now' >= now
      BY <2>1, Times, ConstantsOK DEF RowsStay, IInv, TypeOK, Key, Expiry, ConstantsOK
    <2> QED
      BY <1>3, <2>1, <2>2 DEF Useless, Expired
  <1>4. l.key \in Stored => l.key \in Stored'
    BY DEF RowsStay
  <1>5. l.dead => l.cred.kind = "apikey" /\ k \in Stored /\ Useless(k) /\ pc[u] = "authn"
    BY <1>1 DEF ThreadInv
  <1> QED
    BY <1>1, <1>2, <1>3, <1>4, <1>5 DEF ThreadInv, Useless, Expired, MayCall

LEMMA RowsUntouched ==
    ASSUME IInv, UNCHANGED keys, now' >= now
    PROVE  RowsStay /\ Stored' = Stored
  <1>1. NoKey' = NoKey
    BY DEF NoKey, Never
  <1> QED
    BY <1>1 DEF RowsStay, Stored

\* Only Authenticate and the writes of last_used touch what RowInv is about.
LEMMA UseUntouched ==
    ASSUME IInv, UNCHANGED <<keys, touches, used, lost>>, now' >= now, now' \in Int
    PROVE  \A k \in KeyId : RowInv(k)'
  <1>1. Stored' = Stored
    BY RowsUntouched
  <1>2. \A k \in KeyId : RowInv(k) /\ used[k] \in Int /\ now \in Int
    BY Times DEF IInv, TypeOK
  <1> QED
    BY <1>1, <1>2, Times DEF RowInv

LEMMA CountsFinite ==
    ASSUME IInv, NEW p
    PROVE  /\ IsFiniteSet(Active(p)) /\ IsFiniteSet(Inserting(p)) /\ IsFiniteSet(Thread)
           /\ Cardinality(Active(p)) \in Nat /\ Cardinality(Inserting(p)) \in Nat
           /\ Cardinality(Thread) \in Nat /\ Cardinality(Inserting(p)) <= Cardinality(Thread)
  <1>1. IsFiniteSet(Thread) /\ IsFiniteSet(Stored)
    BY ConstantsOK DEF ConstantsOK, IInv
  <1>2. Active(p) \subseteq Stored /\ Inserting(p) \subseteq Thread
    BY DEF Active, Inserting
  <1>3. IsFiniteSet(Active(p)) /\ IsFiniteSet(Inserting(p))
    BY <1>1, <1>2, FS_Subset
  <1>4. Cardinality(Inserting(p)) <= Cardinality(Thread)
    BY <1>1, <1>2, FS_Subset
  <1> QED
    BY <1>1, <1>3, <1>4, FS_CardinalityType

\* The cap is in no danger from a step that adds neither an active key nor a
\* request that has passed the count.
LEMMA CapStays ==
    ASSUME IInv,
           \A p \in Principal : Active(p)' \subseteq Active(p) /\ Inserting(p)' \subseteq Inserting(p)
    PROVE  CapOvershoot'
  <1> SUFFICES ASSUME NEW p \in Principal
               PROVE  Cardinality(Active(p)') + Cardinality(Inserting(p)')
                         <= KeyCap + Cardinality(Thread) - 1
    BY DEF CapOvershoot
  <1>1. /\ Cardinality(Active(p)') \in Nat /\ Cardinality(Active(p)') <= Cardinality(Active(p))
        /\ Cardinality(Inserting(p)') \in Nat
        /\ Cardinality(Inserting(p)') <= Cardinality(Inserting(p))
    BY CountsFinite, FS_Subset, FS_CardinalityType
  <1>2. Cardinality(Active(p)) + Cardinality(Inserting(p)) <= KeyCap + Cardinality(Thread) - 1
    BY DEF IInv, CapOvershoot
  <1> QED
    BY <1>1, <1>2, CountsFinite, ConstantsOK DEF ConstantsOK

\* A step that changes no row but to revoke it or write its last_used, lets time
\* pass or not, and sends no thread to the insert.
LEMMA CapUntouched ==
    ASSUME IInv, now' >= now, now' \in Int, Stored' = Stored,
           \A k \in Stored : /\ keys'[k].principal = keys[k].principal
                             /\ keys'[k].exp = keys[k].exp
                             /\ keys[k].revoked => keys'[k].revoked,
           \A u \in Thread : pc'[u] = "insert" => pc[u] = "insert" /\ loc'[u] = loc[u]
    PROVE  CapOvershoot'
  <1> SUFFICES ASSUME NEW p \in Principal
               PROVE  Active(p)' \subseteq Active(p) /\ Inserting(p)' \subseteq Inserting(p)
    BY CapStays
  <1>1. Inserting(p)' \subseteq Inserting(p)
    BY DEF Inserting
  <1>2. ASSUME NEW k \in Active(p)' PROVE k \in Active(p)
    <2>1. k \in Stored /\ keys[k].exp \in Int /\ now \in Int
      BY <1>2, RowFacts, Times, ConstantsOK DEF Active, Key, Expiry, IInv, TypeOK, ConstantsOK
    <2>2. /\ keys'[k].principal = p /\ ~keys'[k].revoked
          /\ keys'[k].exp = Never \/ keys'[k].exp > now'
      BY <1>2 DEF Active, Never
    <2> QED
      BY <2>1, <2>2 DEF Active
  <1> QED
    BY <1>1, <1>2
----------------------------------------------------------------------------
(* The steps. *)

\* What is left to show of a step of t that touches no row and is not the count.
LEMMA RequestStep ==
    ASSUME IInv, NEW t \in Thread, UNCHANGED <<now, keys, touches, used, lost>>,
           pc' \in [Thread -> {"idle", "authn", "handle", "count", "insert", "revoke"}],
           loc' \in [Thread -> Loc],
           \A u \in Thread \ {t} : pc'[u] = pc[u] /\ loc'[u] = loc[u],
           pc'[t] # "insert", ThreadInv(t)'
    PROVE  IInv'
  <1>1. TypeOK'
    BY DEF IInv, TypeOK, Key, NoKey, Expiry, Never, Loc, Cred
  <1>2. now \in Int /\ now' \in Int /\ now' >= now
    BY ConstantsOK DEF IInv, TypeOK, ConstantsOK
  <1>3. RowsStay /\ Stored' = Stored
    BY <1>2, RowsUntouched
  <1>4. \A k \in KeyId : RowInv(k)'
    BY <1>2, UseUntouched
  <1>5. \A u \in Thread : ThreadInv(u)'
    BY <1>1, <1>3, OthersStay
  <1>6. CapOvershoot'
    BY <1>2, <1>3, CapUntouched
  <1> QED
    BY Zenon, <1>1, <1>3, <1>4, <1>5, <1>6 DEF IInv

LEMMA Returns ==
    ASSUME IInv, NEW t \in Thread, Done(t), UNCHANGED <<now, keys, touches, used, lost>>
    PROVE  IInv'
  <1>1. TypeOK
    BY DEF IInv
  <1> QED
    BY <1>1, DoneThread, RequestStep

LEMMA CredFacts ==
    ASSUME TypeOK, NEW cred \in Creds
    PROVE  cred \in Cred /\ (cred.kind = "apikey" => cred.key \in Stored)
  <1>1. Stored \subseteq KeyId
    BY DEF Stored
  <1>2. CASE cred = [kind |-> "root", who |-> Root, key |-> None, secret |-> TRUE]
    BY <1>2 DEF Cred
  <1>3. CASE cred \in [kind : {"oidc"}, who : Principal, key : {None}, secret : {TRUE}]
    BY Zenon, <1>3 DEF Cred
  <1>4. CASE cred \in [kind : {"apikey"}, who : {None}, key : Stored, secret : BOOLEAN]
    BY <1>1, <1>4 DEF Cred
  <1> QED
    BY Zenon, <1>2, <1>3, <1>4 DEF Creds

\* A request r as it arrives: NoLoc with some of its fields set.
LEMMA Arrives ==
    ASSUME IInv, NEW t \in Thread, NEW r \in Loc, Asks(t, r), pc[t] = "idle", Goto(t, "authn"),
           UNCHANGED <<now, keys, touches, used, lost>>,
           r.cred.kind = "apikey" => r.cred.key \in Stored,
           r.op = "Issue" => r.p \in Principal,
           r.op = "Revoke" => r.key \in Stored
    PROVE  IInv'
  <1> DEFINE dead == r.cred.kind = "apikey" /\ Useless(r.cred.key)
             l == [r EXCEPT !.dead = dead]
  <1>1. dead \in BOOLEAN
    BY Zenon
  <1>2. loc' = [loc EXCEPT ![t] = l]
    BY DEF Asks, Useless
  <1>3. dead => r.cred.kind = "apikey" /\ Useless(r.cred.key)
    OBVIOUS
  <1> HIDE DEF dead
  <1>4. l \in Loc /\ l.cred = r.cred /\ l.op = r.op /\ l.p = r.p /\ l.key = r.key /\ l.dead = dead
    BY <1>1 DEF Loc
  <1> HIDE DEF l
  <1>5. TypeOK
    BY DEF IInv
  <1>6. /\ loc' \in [Thread -> Loc]
        /\ loc'[t] = l /\ \A u \in Thread \ {t} : loc'[u] = loc[u]
    BY Zenon, <1>2, <1>4, <1>5, LocSet
  <1>7. /\ pc' \in [Thread -> {"idle", "authn", "handle", "count", "insert", "revoke"}]
        /\ pc'[t] = "authn" /\ \A u \in Thread \ {t} : pc'[u] = pc[u]
    BY <1>5, PcSet
  <1>8. Stored' = Stored
    BY DEF Stored, NoKey, Never
  <1>9. \A k : Useless(k)' <=> Useless(k)
    BY Zenon DEF Useless, Expired, Never
  <1>10. ThreadInv(t)'
    BY <1>3, <1>4, <1>6, <1>7, <1>8, <1>9 DEF ThreadInv
  <1> QED
    BY <1>6, <1>7, <1>10, RequestStep

LEMMA ArriveStep == ASSUME IInv, NEW t \in Thread, Arrive(t) PROVE IInv'
  <1>1. /\ pc[t] = "idle" /\ Goto(t, "authn") /\ UNCHANGED <<now, keys, touches, used, lost>>
        /\ TypeOK
    BY DEF Arrive, IInv
  <1>2. PICK cred \in Creds : AsksWith(t, cred)
    BY DEF Arrive
  <1>3. cred \in Cred /\ (cred.kind = "apikey" => cred.key \in Stored)
    BY <1>1, CredFacts
  <1>4. Stored \subseteq KeyId /\ Ttl \subseteq Int
    BY ConstantsOK DEF Stored, ConstantsOK
  <1>5. CASE Asks(t, [NoLoc EXCEPT !.op = "List", !.cred = cred])
    <2> DEFINE r == [NoLoc EXCEPT !.op = "List", !.cred = cred]
    <2>1. r \in Loc /\ r.cred = cred /\ r.op = "List"
      BY Zenon, <1>3, NoLocFacts DEF Loc
    <2> HIDE DEF r
    <2>2. Asks(t, r)
      BY <1>5 DEF r
    <2> QED
      BY <1>1, <1>3, <2>1, <2>2, Arrives
  <1>6. ASSUME NEW p \in Principal, NEW ttl \in Ttl, NEW ro \in BOOLEAN,
               Asks(t, [NoLoc EXCEPT !.op = "Issue", !.cred = cred, !.p = p, !.ttl = ttl, !.ro = ro])
        PROVE  IInv'
    <2> DEFINE r == [NoLoc EXCEPT !.op = "Issue", !.cred = cred, !.p = p, !.ttl = ttl, !.ro = ro]
    <2>1. r \in Loc /\ r.cred = cred /\ r.op = "Issue" /\ r.p = p
      BY Zenon, <1>3, <1>4, NoLocFacts DEF Loc
    <2> HIDE DEF r
    <2>2. Asks(t, r)
      BY <1>6 DEF r
    <2> QED
      BY <1>1, <1>3, <2>1, <2>2, Arrives
  <1>7. ASSUME NEW k \in Stored, Asks(t, [NoLoc EXCEPT !.op = "Revoke", !.cred = cred, !.key = k])
        PROVE  IInv'
    <2> DEFINE r == [NoLoc EXCEPT !.op = "Revoke", !.cred = cred, !.key = k]
    <2>1. r \in Loc /\ r.cred = cred /\ r.op = "Revoke" /\ r.key = k
      BY Zenon, <1>3, <1>4, NoLocFacts DEF Loc
    <2> HIDE DEF r
    <2>2. Asks(t, r)
      BY <1>7 DEF r
    <2> QED
      BY <1>1, <1>3, <2>1, <2>2, Arrives
  <1> QED
    BY Zenon, <1>2, <1>5, <1>6, <1>7 DEF AsksWith

\* The caller is filled in and the handler called. A key that was of no use when
\* the request arrived is of none now, and is not verified.
LEMMA Handles ==
    ASSUME IInv, NEW t \in Thread, pc[t] = "authn", Goto(t, "handle"), UNCHANGED <<now, keys, lost>>,
           NEW who \in Principal \cup {Root, None}, loc' = [loc EXCEPT ![t].caller = who],
           loc[t].cred.kind = "apikey" =>
              Verified(loc[t].cred) /\ MayCall(keys[loc[t].cred.key].ro, loc[t].op)
    PROVE  /\ pc' \in [Thread -> {"idle", "authn", "handle", "count", "insert", "revoke"}]
           /\ loc' \in [Thread -> Loc] /\ pc'[t] = "handle"
           /\ \A u \in Thread \ {t} : pc'[u] = pc[u] /\ loc'[u] = loc[u]
           /\ ThreadInv(t)'
  <1> DEFINE q == loc[t]
             l == [q EXCEPT !.caller = who]
  <1>1. TypeOK /\ q \in Loc /\ ThreadInv(t)
    BY DEF IInv, TypeOK
  <1>2. loc' = [loc EXCEPT ![t] = l]
    OBVIOUS
  <1>3. q = loc[t]
    OBVIOUS
  <1> HIDE DEF q
  <1>4. /\ l \in Loc /\ l.cred = q.cred /\ l.op = q.op /\ l.p = q.p /\ l.key = q.key
        /\ l.dead = q.dead
    BY <1>1 DEF Loc
  <1> HIDE DEF l
  <1>5. /\ loc' \in [Thread -> Loc]
        /\ loc'[t] = l /\ \A u \in Thread \ {t} : loc'[u] = loc[u]
    BY Zenon, <1>1, <1>2, <1>4, LocSet
  <1>6. /\ pc' \in [Thread -> {"idle", "authn", "handle", "count", "insert", "revoke"}]
        /\ pc'[t] = "handle" /\ \A u \in Thread \ {t} : pc'[u] = pc[u]
    BY <1>1, PcSet
  <1>7. Stored' = Stored
    BY DEF Stored, NoKey, Never
  <1>8. q.dead = FALSE
    <2>1. q.dead \in BOOLEAN
      BY <1>1 DEF Loc
    <2>2. q.dead => q.cred.kind = "apikey" /\ Useless(q.cred.key)
      BY Zenon, <1>1, <1>3 DEF ThreadInv
    <2>3. q.cred.kind = "apikey" => ~Useless(q.cred.key)
      BY <1>3 DEF Verified, Useless
    <2> QED
      BY <2>1, <2>2, <2>3
  <1>9. ThreadInv(t)'
    BY <1>1, <1>3, <1>4, <1>5, <1>6, <1>7, <1>8 DEF ThreadInv, MayCall
  <1> QED
    BY <1>5, <1>6, <1>9

LEMMA AuthenticateStep == ASSUME IInv, NEW t \in Thread, Authenticate(t) PROVE IInv'
  <1> DEFINE cred == loc[t].cred
             k == cred.key
  <1>1. pc[t] = "authn" /\ UNCHANGED <<now, keys, lost>> /\ TypeOK
    BY DEF Authenticate, IInv
  <1>2. CASE AuthenticateOther(t)
    <2>1. cred.kind # "apikey" /\ UNCHANGED <<touches, used>>
      BY <1>2 DEF AuthenticateOther
    <2>2. CASE Done(t)
      BY <1>1, <2>1, <2>2, Returns
    <2>3. CASE Goto(t, "handle") /\ loc' = [loc EXCEPT ![t].caller = loc[t].cred.who]
      <3>1. loc[t].cred.who \in Principal \cup {Root, None}
        BY <1>1 DEF TypeOK, Loc, Cred
      <3>2. /\ pc' \in [Thread -> {"idle", "authn", "handle", "count", "insert", "revoke"}]
            /\ loc' \in [Thread -> Loc] /\ pc'[t] = "handle"
            /\ \A u \in Thread \ {t} : pc'[u] = pc[u] /\ loc'[u] = loc[u]
            /\ ThreadInv(t)'
        BY Zenon, <1>1, <2>1, <2>3, <3>1, Handles
      <3> QED
        BY <1>1, <2>1, <3>2, RequestStep
    <2> QED
      BY <1>2, <2>2, <2>3 DEF AuthenticateOther
  <1>3. CASE AuthenticateKey(t) /\ ~Verified(cred)
    BY <1>1, <1>3, Returns DEF AuthenticateKey
  <1>4. CASE AuthenticateKey(t) /\ Verified(cred)
    <2>1. /\ cred.kind = "apikey" /\ touches' = touches \cup {k} /\ used' = [used EXCEPT ![k] = now]
      BY Zenon, <1>4 DEF AuthenticateKey
    <2>2. k \in Stored /\ k \in KeyId /\ keys[k] \in Key
      BY Zenon, <1>1, <2>1, RowFacts DEF IInv, ThreadInv
    <2>3. /\ pc' \in [Thread -> {"idle", "authn", "handle", "count", "insert", "revoke"}]
          /\ loc' \in [Thread -> Loc] /\ pc'[t] # "insert"
          /\ \A u \in Thread \ {t} : pc'[u] = pc[u] /\ loc'[u] = loc[u]
          /\ ThreadInv(t)'
      <3>1. CASE Done(t)
        BY <1>1, <3>1, DoneThread
      <3>2. CASE /\ MayCall(keys[k].ro, loc[t].op) /\ Goto(t, "handle")
                 /\ loc' = [loc EXCEPT ![t].caller = keys[k].principal]
        <4>1. keys[k].principal \in Principal \cup {Root, None}
          BY <2>2 DEF Key
        <4> QED
          BY Zenon, <1>1, <1>4, <3>2, <4>1, Handles
      <3> QED
        BY <1>4, <3>1, <3>2 DEF AuthenticateKey
    <2>4. used' \in [KeyId -> {Never} \cup 0..MaxTime] /\ touches' \subseteq KeyId
      BY Zenon, <1>1, <2>1, <2>2 DEF TypeOK
    <2>5. TypeOK'
      BY <1>1, <2>3, <2>4 DEF TypeOK, Key, NoKey, Expiry, Never, Loc, Cred
    <2>6. now \in Int /\ now' \in Int /\ now' >= now /\ now >= 0
      BY <1>1, ConstantsOK DEF TypeOK, ConstantsOK
    <2>7. RowsStay /\ Stored' = Stored
      BY Zenon, <1>1, <2>6, RowsUntouched
    <2>8. ASSUME NEW j \in KeyId PROVE RowInv(j)'
      <3>1. RowInv(j)
        BY Zenon DEF IInv
      <3>2. used'[j] = IF j = k THEN now ELSE used[j]
        BY Zenon, <1>1, <2>1, <2>2 DEF TypeOK
      <3> QED
        BY Zenon, <1>1, <2>1, <2>2, <2>6, <2>7, <3>1, <3>2 DEF RowInv, Never
    <2>9. \A u \in Thread : ThreadInv(u)'
      BY Zenon, <2>3, <2>5, <2>7, OthersStay
    <2>10. CapOvershoot'
      BY Zenon, <1>1, <2>3, <2>6, <2>7, CapUntouched
    <2> QED
      BY Zenon, <2>5, <2>7, <2>8, <2>9, <2>10 DEF IInv
  <1> QED
    BY <1>2, <1>3, <1>4 DEF Authenticate

\* The handler goes on to its next statement.
LEMMA GoesOn ==
    ASSUME IInv, NEW t \in Thread, NEW label \in {"count", "revoke"}, Goto(t, label),
           UNCHANGED loc, UNCHANGED <<now, keys, touches, used, lost>>, pc[t] = "handle",
           label = "count" => loc[t].op = "Issue" /\ loc[t].cred.kind # "apikey",
           label = "revoke" => loc[t].op = "Revoke"
    PROVE  IInv'
  <1>1. TypeOK /\ ThreadInv(t)
    BY DEF IInv
  <1>2. /\ pc' \in [Thread -> {"idle", "authn", "handle", "count", "insert", "revoke"}]
        /\ pc'[t] = label /\ \A u \in Thread \ {t} : pc'[u] = pc[u]
    BY Zenon, <1>1, PcSet
  <1>3. Stored' = Stored
    BY Zenon DEF Stored, NoKey, Never
  <1>4. ThreadInv(t)'
    BY <1>1, <1>2, <1>3 DEF ThreadInv, MayCall
  <1> QED
    BY Zenon, <1>1, <1>2, <1>4, RequestStep DEF TypeOK

LEMMA IssueStep == ASSUME IInv, NEW t \in Thread, Issue(t) PROVE IInv'
  <1>1. CASE MayIssue(loc[t])
    BY Zenon, <1>1, GoesOn DEF Issue, MayIssue
  <1>2. CASE ~MayIssue(loc[t])
    BY Zenon, <1>2, Returns DEF Issue
  <1> QED
    BY Zenon, <1>1, <1>2

LEMMA RevokeStep == ASSUME IInv, NEW t \in Thread, Revoke(t) PROVE IInv'
  <1>1. CASE loc[t].caller \in {Root, keys[loc[t].key].principal} \cup Admin
    BY Zenon, <1>1, GoesOn DEF Revoke
  <1>2. CASE ~(loc[t].caller \in {Root, keys[loc[t].key].principal} \cup Admin)
    BY <1>2, Returns DEF Revoke
  <1> QED
    BY Zenon, <1>1, <1>2

\* However ttl * time.Second wraps around, an expiry is within the policy.
LEMMA ExpiryWithinPolicy ==
    ASSUME TypeOK, NEW ttl \in Int, ~TooLong(ttl)
    PROVE  ExpiryFor(ttl) \in Expiry
  <1>1. now \in 0..MaxTime
    BY DEF TypeOK
  <1>2. Half \in Nat /\ Half > 1 /\ MaxTime \in Nat /\ MaxTTL \in Nat
    BY Times
  <1>3. CASE ttl > 0
    <2> DEFINE n == 2 * Half
               x == ttl + Half
    <2>1. n \in Nat /\ n > 0 /\ x \in Int
      BY <1>2
    <2>2. x % n \in 0..n-1
      <3> HIDE DEF n, x
      <3> QED
        BY <2>1
    <2>3. Lifetime(ttl) \in Int /\ Lifetime(ttl) >= -Half
      <3>1. Lifetime(ttl) = (x % n) - Half
        BY DEF Lifetime
      <3>2. x % n \in Int /\ x % n >= 0
        BY <2>1, <2>2
      <3> HIDE DEF x, n
      <3> QED
        BY <1>2, <3>1, <3>2
    <2>4. Lifetime(ttl) <= MaxTTL
      BY <1>2, <1>3, <2>3 DEF TooLong
    <2> QED
      BY <1>1, <1>2, <1>3, <2>3, <2>4 DEF ExpiryFor, Expiry
  <1>4. CASE ~(ttl > 0)
    BY <1>1, <1>2, <1>4 DEF ExpiryFor, Expiry
  <1> QED
    BY <1>3, <1>4

\* The count found less than KeyCap keys, whoever else is about to insert one.
LEMMA CountActiveStep == ASSUME IInv, NEW t \in Thread, CountActive(t) PROVE IInv'
  <1> DEFINE q == loc[t]
             e == ExpiryFor(q.ttl)
             l == [q EXCEPT !.exp = e]
  <1>1. pc[t] = "count" /\ UNCHANGED <<now, keys, touches, used, lost>> /\ TypeOK
    BY DEF CountActive, IInv
  <1>2. CASE Cardinality(Active(q.p)) >= KeyCap \/ TooLong(q.ttl)
    BY Zenon, <1>1, <1>2, Returns DEF CountActive
  <1>3. CASE ~(Cardinality(Active(q.p)) >= KeyCap \/ TooLong(q.ttl))
    <2>1. Goto(t, "insert") /\ loc' = [loc EXCEPT ![t] = l]
      BY Zenon, <1>3 DEF CountActive
    <2>2. q \in Loc /\ q.ttl \in Int /\ ThreadInv(t)
      BY Zenon, <1>1 DEF IInv, TypeOK, Loc
    <2>3. e \in Expiry
      BY <1>1, <1>3, <2>2, ExpiryWithinPolicy
    <2>4. q = loc[t]
      OBVIOUS
    <2> HIDE DEF q, e
    <2>5. /\ l \in Loc /\ l.cred = q.cred /\ l.op = q.op /\ l.p = q.p /\ l.key = q.key
          /\ l.dead = q.dead
      BY <2>2, <2>3 DEF Loc
    <2> HIDE DEF l
    <2>6. /\ loc' \in [Thread -> Loc]
          /\ loc'[t] = l /\ \A u \in Thread \ {t} : loc'[u] = loc[u]
      BY Zenon, <1>1, <2>1, <2>5, LocSet
    <2>7. /\ pc' \in [Thread -> {"idle", "authn", "handle", "count", "insert", "revoke"}]
          /\ pc'[t] = "insert" /\ \A u \in Thread \ {t} : pc'[u] = pc[u]
      BY Zenon, <1>1, <2>1, PcSet
    <2>8. TypeOK'
      BY Zenon, <1>1, <2>6, <2>7 DEF TypeOK, Key, NoKey, Expiry, Never, Loc, Cred
    <2>9. now \in Int /\ now' \in Int /\ now' >= now
      BY <1>1, ConstantsOK DEF TypeOK, ConstantsOK
    <2>10. RowsStay /\ Stored' = Stored
      BY <1>1, <2>9, RowsUntouched
    <2>11. \A k \in KeyId : RowInv(k)'
      BY Zenon, <1>1, <2>9, UseUntouched
    <2>12. ThreadInv(t)'
      BY Zenon, <1>1, <2>2, <2>4, <2>5, <2>6, <2>7, <2>10 DEF ThreadInv
    <2>13. \A u \in Thread : ThreadInv(u)'
      BY Zenon, <2>6, <2>7, <2>8, <2>10, <2>12, OthersStay
    <2>14. ASSUME NEW p \in Principal
           PROVE  Cardinality(Active(p)') + Cardinality(Inserting(p)')
                     <= KeyCap + Cardinality(Thread) - 1
      <3>1. Active(p)' = Active(p)
        BY <1>1, <2>10 DEF Active, Never
      <3>2. Inserting(p)' \subseteq Thread
        BY DEF Inserting
      <3>3. /\ IsFiniteSet(Thread) /\ Cardinality(Thread) \in Nat
            /\ Cardinality(Active(p)) \in Nat /\ Cardinality(Inserting(p)) \in Nat
        BY CountsFinite
      <3>4. /\ Cardinality(Inserting(p)') \in Nat
            /\ Cardinality(Inserting(p)') <= Cardinality(Thread)
        BY Zenon, <3>2, <3>3, FS_Subset, FS_CardinalityType
      <3>5. KeyCap \in Nat
        BY ConstantsOK DEF ConstantsOK
      <3>6. CASE p = q.p
        <4>1. Cardinality(Active(p)) < KeyCap
          BY <1>3, <2>4, <3>3, <3>5, <3>6
        <4> QED
          BY <3>1, <3>3, <3>4, <3>5, <4>1
      <3>7. CASE p # q.p
        <4>1. Inserting(p)' = Inserting(p)
          <5>1. t \notin Inserting(p) /\ t \notin Inserting(p)'
            BY Zenon, <1>1, <2>5, <2>6, <3>7 DEF Inserting
          <5> QED
            BY Zenon, <2>6, <2>7, <5>1 DEF Inserting
        <4> QED
          BY <3>1, <4>1 DEF IInv, CapOvershoot
      <3> QED
        BY <3>6, <3>7
    <2> QED
      BY <2>8, <2>10, <2>11, <2>13, <2>14 DEF IInv, CapOvershoot
  <1> QED
    BY <1>2, <1>3

\* A request that was counted becomes a key.
LEMMA InsertStep == ASSUME IInv, NEW t \in Thread, NEW k \in KeyId, Insert(t, k) PROVE IInv'
  <1> DEFINE q == loc[t]
             row == [principal |-> q.p, ro |-> q.ro, revoked |-> FALSE, exp |-> q.exp,
                     lastUsed |-> Never]
  <1>1. /\ pc[t] = "insert" /\ UNCHANGED <<now, touches, used, lost>> /\ TypeOK /\ Done(t)
        /\ k \notin Stored /\ keys' = [keys EXCEPT ![k] = row]
    BY DEF Insert, InsertApiKey, IInv
  <1>2. q \in Loc /\ q.p \in Principal
    BY ZenonT(40), <1>1 DEF IInv, TypeOK, ThreadInv
  <1>3. row \in Key /\ row.principal = q.p /\ row.lastUsed = Never
    BY <1>2 DEF Loc, Key
  <1> HIDE DEF row
  <1>4. /\ keys' \in [KeyId -> Key \cup {NoKey}]
        /\ keys'[k] = row /\ \A j \in KeyId \ {k} : keys'[j] = keys[j]
        /\ Stored' = Stored \cup {k}
    BY Zenon, <1>1, <1>3, RowSet
  <1>5. /\ pc' \in [Thread -> {"idle", "authn", "handle", "count", "insert", "revoke"}]
        /\ loc' \in [Thread -> Loc] /\ pc'[t] = "idle"
        /\ \A u \in Thread \ {t} : pc'[u] = pc[u] /\ loc'[u] = loc[u]
        /\ ThreadInv(t)'
    BY Zenon, <1>1, DoneThread
  <1>6. TypeOK'
    BY Zenon, <1>1, <1>4, <1>5 DEF TypeOK, Key, NoKey, Expiry, Never, Loc, Cred
  <1>7. now \in Int /\ now' = now /\ Stored \subseteq KeyId
    BY <1>1, ConstantsOK DEF TypeOK, ConstantsOK, Stored
  <1>8. RowsStay
    BY <1>1, <1>4, <1>7 DEF RowsStay
  <1>9. IsFiniteSet(Stored')
    BY <1>4, FS_AddElement DEF IInv
  <1>10. ASSUME NEW j \in KeyId PROVE RowInv(j)'
    <2>1. RowInv(j)
      BY DEF IInv
    <2>2. CASE j = k
      BY Zenon, <1>1, <1>4, <2>1, <2>2 DEF RowInv, Never
    <2>3. CASE j # k
      BY Zenon, <1>1, <1>4, <2>1, <2>3 DEF RowInv, Never
    <2> QED
      BY <2>2, <2>3
  <1>11. \A u \in Thread : ThreadInv(u)'
    BY <1>5, <1>6, <1>8, OthersStay
  <1>12. ASSUME NEW p \in Principal
         PROVE  Cardinality(Active(p)') + Cardinality(Inserting(p)')
                   <= KeyCap + Cardinality(Thread) - 1
    <2>1. /\ IsFiniteSet(Active(p)) /\ Cardinality(Active(p)) \in Nat
          /\ IsFiniteSet(Inserting(p)) /\ Cardinality(Inserting(p)) \in Nat
          /\ Cardinality(Thread) \in Nat
      BY CountsFinite
    <2>2. Cardinality(Active(p)) + Cardinality(Inserting(p)) <= KeyCap + Cardinality(Thread) - 1
      BY DEF IInv, CapOvershoot
    <2>3. KeyCap \in Nat
      BY ConstantsOK DEF ConstantsOK
    <2>4. k \notin Active(p)
      BY Zenon, <1>1 DEF Active
    <2>5. Active(p)' \subseteq Active(p) \cup {k}
      BY Zenon, <1>1, <1>4, <1>7 DEF Active, Never
    <2>6. IsFiniteSet(Active(p) \cup {k}) /\ Cardinality(Active(p) \cup {k}) = Cardinality(Active(p)) + 1
      BY Zenon, <2>1, <2>4, FS_AddElement
    <2>7. CASE p = q.p
      <3>1. Cardinality(Active(p)') \in Nat /\ Cardinality(Active(p)') <= Cardinality(Active(p)) + 1
        BY Zenon, <2>5, <2>6, FS_Subset, FS_CardinalityType
      <3>2. t \in Inserting(p) /\ Inserting(p)' = Inserting(p) \ {t}
        BY <1>1, <1>5, <2>7 DEF Inserting
      <3>3. Cardinality(Inserting(p)') = Cardinality(Inserting(p)) - 1
        BY ZenonT(40), <2>1, <3>2, FS_RemoveElement
      <3> QED
        BY <2>1, <2>2, <2>3, <3>1, <3>3
    <2>8. CASE p # q.p
      <3>1. k \notin Active(p)'
        BY <1>3, <1>4, <2>8 DEF Active
      <3>2. Active(p)' \subseteq Active(p)
        BY Zenon, <2>5, <3>1
      <3>3. Inserting(p)' = Inserting(p)
        BY Zenon, <1>1, <1>5, <2>8 DEF Inserting
      <3>4. Cardinality(Active(p)') \in Nat /\ Cardinality(Active(p)') <= Cardinality(Active(p))
        BY Zenon, <2>1, <3>2, FS_Subset, FS_CardinalityType
      <3> QED
        BY <2>1, <2>2, <2>3, <3>3, <3>4
    <2> QED
      BY <2>7, <2>8
  <1> QED
    BY Zenon, <1>6, <1>9, <1>10, <1>11, <1>12 DEF IInv, CapOvershoot

\* A row of a stored key is written: revoked, or its last_used.
LEMMA RowWritten ==
    ASSUME IInv, NEW k \in Stored, NEW row \in Key, keys' = [keys EXCEPT ![k] = row],
           row.principal = keys[k].principal, row.ro = keys[k].ro, row.exp = keys[k].exp,
           keys[k].revoked => row.revoked, UNCHANGED <<now, used>>
    PROVE  /\ keys' \in [KeyId -> Key \cup {NoKey}] /\ Stored' = Stored /\ RowsStay
           /\ keys'[k] = row /\ \A j \in KeyId \ {k} : keys'[j] = keys[j]
  <1>1. TypeOK /\ k \in KeyId /\ Stored \subseteq KeyId /\ now \in Int
    BY ConstantsOK DEF IInv, Stored, TypeOK, ConstantsOK
  <1>2. /\ keys' \in [KeyId -> Key \cup {NoKey}]
        /\ keys'[k] = row /\ \A j \in KeyId \ {k} : keys'[j] = keys[j]
        /\ Stored' = Stored \cup {k}
    BY Zenon, <1>1, RowSet
  <1>3. RowsStay
    BY <1>1, <1>2 DEF RowsStay
  <1> QED
    BY Zenon, <1>2, <1>3

\* last_used is at most a minute behind now, and so behind the last use, when its
\* write is done, whether or not the minute had passed.
LEMMA TouchStep == ASSUME IInv, NEW k \in KeyId, TouchLastUsed(k) PROVE IInv'
  <1> DEFINE q == keys[k]
             at == IF q.lastUsed = Never \/ q.lastUsed < now - Minute THEN now ELSE q.lastUsed
             row == [q EXCEPT !.lastUsed = at]
  <1>1. /\ k \in touches /\ touches' = touches \ {k} /\ UNCHANGED <<now, used, lost, pc, loc>>
        /\ TypeOK /\ keys' = [keys EXCEPT ![k] = row]
    BY DEF TouchLastUsed, IInv
  <1>2. k \in Stored /\ q \in Key
    BY <1>1, RowFacts DEF IInv, RowInv
  <1>3. now \in 0..MaxTime /\ q.lastUsed \in {Never} \cup 0..MaxTime
    BY Zenon, <1>1, <1>2 DEF TypeOK, Key
  <1>4. at \in 0..MaxTime /\ at # Never /\ at >= now - Minute
    BY <1>3, Times
  <1>5. q = keys[k]
    OBVIOUS
  <1> HIDE DEF q, at
  <1>6. /\ row \in Key /\ row.principal = q.principal /\ row.ro = q.ro /\ row.exp = q.exp
        /\ row.revoked = q.revoked /\ row.lastUsed = at
    BY <1>2, <1>4 DEF Key
  <1> HIDE DEF row
  <1>7. /\ keys' \in [KeyId -> Key \cup {NoKey}] /\ Stored' = Stored /\ RowsStay
        /\ keys'[k] = row /\ \A j \in KeyId \ {k} : keys'[j] = keys[j]
    BY Zenon, <1>1, <1>2, <1>5, <1>6, RowWritten
  <1>8. TypeOK'
    BY <1>1, <1>7 DEF TypeOK, Key, NoKey, Expiry, Never, Loc, Cred
  <1>9. ASSUME NEW j \in KeyId PROVE RowInv(j)'
    <2>1. RowInv(j) /\ used[j] \in Int
      BY <1>1, Times DEF IInv, TypeOK
    <2>2. CASE j = k
      BY <1>1, <1>2, <1>3, <1>4, <1>6, <1>7, <2>1, <2>2, Times DEF RowInv, Never
    <2>3. CASE j # k
      BY Zenon, <1>1, <1>7, <2>1, <2>3 DEF RowInv, Never
    <2> QED
      BY Zenon, <2>2, <2>3
  <1>10. \A u \in Thread : ThreadInv(u)'
    BY Zenon, <1>1, <1>7, <1>8, OthersStay
  <1>11. CapOvershoot'
    BY <1>1, <1>3, <1>7, CapUntouched, Times DEF RowsStay
  <1> QED
    BY Zenon, <1>7, <1>8, <1>9, <1>10, <1>11 DEF IInv

LEMMA TouchFailsStep == ASSUME IInv, NEW k \in KeyId, TouchFails(k) PROVE IInv'
  <1>1. /\ touches' = touches \ {k} /\ lost' = lost \cup {k} /\ UNCHANGED <<now, keys, used, pc, loc>>
        /\ TypeOK
    BY Zenon DEF TouchFails, IInv
  <1>2. TypeOK'
    BY Zenon, <1>1 DEF TypeOK, Key, NoKey, Expiry, Never, Loc, Cred
  <1>3. now \in Int /\ now' >= now /\ now' \in Int
    BY <1>1, ConstantsOK DEF TypeOK, ConstantsOK
  <1>4. RowsStay /\ Stored' = Stored
    BY Zenon, <1>1, <1>3, RowsUntouched
  <1>5. \A j \in KeyId : RowInv(j)'
    BY Zenon, <1>1, <1>4 DEF IInv, RowInv, Never
  <1>6. \A u \in Thread : ThreadInv(u)'
    BY Zenon, <1>1, <1>2, <1>4, OthersStay
  <1>7. CapOvershoot'
    BY Zenon, <1>1, <1>3, <1>4, CapUntouched
  <1> QED
    BY Zenon, <1>2, <1>4, <1>5, <1>6, <1>7 DEF IInv

LEMMA RevokeApiKeyStep == ASSUME IInv, NEW t \in Thread, RevokeApiKey(t) PROVE IInv'
  <1> DEFINE k == loc[t].key
             q == keys[k]
             row == [q EXCEPT !.revoked = TRUE]
  <1>1. /\ pc[t] = "revoke" /\ UNCHANGED <<now, touches, used, lost>> /\ TypeOK /\ Done(t)
        /\ keys' = [keys EXCEPT ![k] = row]
    BY DEF RevokeApiKey, SetRevoked, IInv
  <1>2. k \in Stored /\ q \in Key
    BY Zenon, <1>1, RowFacts DEF IInv, ThreadInv
  <1>3. q = keys[k] /\ k \in KeyId
    BY <1>2 DEF Stored
  <1> HIDE DEF q, k
  <1>4. /\ row \in Key /\ row.principal = q.principal /\ row.ro = q.ro /\ row.exp = q.exp
        /\ row.revoked = TRUE /\ row.lastUsed = q.lastUsed
    BY Zenon, <1>2 DEF Key
  <1> HIDE DEF row
  <1>5. /\ keys' \in [KeyId -> Key \cup {NoKey}] /\ Stored' = Stored /\ RowsStay
        /\ keys'[k] = row /\ \A j \in KeyId \ {k} : keys'[j] = keys[j]
    BY ZenonT(40), <1>1, <1>2, <1>3, <1>4, RowWritten
  <1>6. /\ pc' \in [Thread -> {"idle", "authn", "handle", "count", "insert", "revoke"}]
        /\ loc' \in [Thread -> Loc] /\ pc'[t] = "idle"
        /\ \A u \in Thread \ {t} : pc'[u] = pc[u] /\ loc'[u] = loc[u]
        /\ ThreadInv(t)'
    BY Zenon, <1>1, DoneThread
  <1>7. TypeOK'
    BY Zenon, <1>1, <1>5, <1>6 DEF TypeOK, Key, NoKey, Expiry, Never, Loc, Cred
  <1>8. ASSUME NEW j \in KeyId PROVE RowInv(j)'
    <2>1. RowInv(j) /\ keys'[j].lastUsed = keys[j].lastUsed
      BY Zenon, <1>3, <1>4, <1>5 DEF IInv
    <2> QED
      BY Zenon, <1>1, <1>5, <2>1 DEF RowInv, Never
  <1>9. \A u \in Thread : ThreadInv(u)'
    BY Zenon, <1>5, <1>6, <1>7, OthersStay
  <1>10. CapOvershoot'
    <2>1. now' >= now /\ now' \in Int
      BY <1>1, ConstantsOK DEF TypeOK, ConstantsOK
    <2> QED
      BY Zenon, <1>5, <1>6, <2>1, CapUntouched DEF RowsStay
  <1> QED
    BY Zenon, <1>5, <1>7, <1>8, <1>9, <1>10 DEF IInv

LEMMA TickStep == ASSUME IInv, Tick PROVE IInv'
  <1>1. now < MaxTime /\ now' = now + 1 /\ UNCHANGED <<keys, touches, used, lost, pc, loc>> /\ TypeOK
    BY DEF Tick, IInv
  <1>2. now' \in 0..MaxTime /\ now' \in Int /\ now' >= now
    BY <1>1, Times DEF TypeOK
  <1>3. TypeOK'
    BY <1>1, <1>2 DEF TypeOK, Key, NoKey, Expiry, Never, Loc, Cred
  <1>4. RowsStay /\ Stored' = Stored
    BY <1>1, <1>2, RowsUntouched
  <1>5. \A k \in KeyId : RowInv(k)'
    BY <1>1, <1>2, UseUntouched
  <1>6. \A u \in Thread : ThreadInv(u)'
    BY Zenon, <1>1, <1>3, <1>4, OthersStay
  <1>7. CapOvershoot'
    BY <1>1, <1>2, <1>4, CapUntouched
  <1> QED
    BY <1>3, <1>4, <1>5, <1>6, <1>7 DEF IInv
----------------------------------------------------------------------------
(* The theorems. *)

LEMMA InitHolds == Init => IInv
  <1> SUFFICES ASSUME Init PROVE IInv
    OBVIOUS
  <1>1. TypeOK
    BY NoLocFacts, Times DEF Init, TypeOK
  <1>2. Stored = {}
    BY DEF Init, Stored
  <1>3. IsFiniteSet(Stored)
    BY <1>2, FS_EmptySet
  <1>4. \A k \in KeyId : RowInv(k)
    BY <1>2, Times DEF Init, RowInv
  <1>5. \A t \in Thread : ThreadInv(t)
    BY NoLocFacts DEF Init, ThreadInv
  <1>6. ASSUME NEW p \in Principal
        PROVE  Cardinality(Active(p)) + Cardinality(Inserting(p)) <= KeyCap + Cardinality(Thread) - 1
    <2>1. Active(p) = {} /\ Inserting(p) = {}
      BY <1>2 DEF Active, Inserting, Init
    <2>2. Cardinality({}) = 0 /\ Cardinality(Thread) \in Nat
      BY FS_EmptySet, FS_CardinalityType, ConstantsOK DEF ConstantsOK
    <2> QED
      BY <2>1, <2>2, ConstantsOK DEF ConstantsOK
  <1> QED
    BY <1>1, <1>3, <1>4, <1>5, <1>6 DEF IInv, CapOvershoot

LEMMA StepHolds == IInv /\ [Next]_vars => IInv'
  <1> SUFFICES ASSUME IInv, [Next]_vars PROVE IInv'
    OBVIOUS
  <1>1. ASSUME NEW k \in KeyId, TouchLastUsed(k) \/ TouchFails(k) PROVE IInv'
    BY Zenon, <1>1, TouchStep, TouchFailsStep
  <1>2. ASSUME NEW t \in Thread, Abort(t) \/ List(t) PROVE IInv'
    BY <1>2, Returns DEF Abort, List
  <1>3. ASSUME NEW t \in Thread, NEW k \in KeyId, Insert(t, k) PROVE IInv'
    BY <1>3, InsertStep
  <1>4. CASE UNCHANGED vars
    <2>1. Stored' = Stored
      BY Zenon, <1>4 DEF Stored, NoKey, Never, vars
    <2>2. TypeOK'
      BY Zenon, <1>4 DEF vars, IInv, TypeOK, Key, NoKey, Expiry, Never, Loc, Cred
    <2>3. now \in Int /\ now' \in Int /\ now' >= now
      BY <1>4, ConstantsOK DEF IInv, TypeOK, ConstantsOK, vars
    <2>4. RowsStay
      BY <1>4, <2>3, RowsUntouched DEF vars
    <2>5. \A k \in KeyId : RowInv(k)'
      BY Zenon, <1>4, <2>3, UseUntouched DEF vars
    <2>6. \A u \in Thread : ThreadInv(u)'
      BY Zenon, <1>4, <2>2, <2>4, OthersStay DEF vars
    <2>7. CapOvershoot'
      BY <1>4, <2>1, <2>3, CapUntouched DEF vars
    <2> QED
      BY Zenon, <2>1, <2>2, <2>5, <2>6, <2>7 DEF IInv
  <1> QED
    BY Zenon, <1>1, <1>2, <1>3, <1>4, TickStep, ArriveStep, AuthenticateStep, IssueStep, CountActiveStep,
       RevokeStep, RevokeApiKeyStep DEF Next

LEMMA Inductive == Spec => []IInv
  BY InitHolds, StepHolds, PTL DEF Spec

(***************************************************************************)
(* Type correctness; in particular no stored expiry is later than the      *)
(* policy allows, although the multiplication of a lifetime may wrap       *)
(* around, and only a policy that allows it stores keys without one        *)
(* (Handler.Issue).                                                        *)
(***************************************************************************)
THEOREM TypeCorrect == Spec => []TypeOK
  <1>1. IInv => TypeOK
    BY DEF IInv
  <1> QED
    BY <1>1, Inductive, PTL

(***************************************************************************)
(* However many requests, revocations and clock ticks interleave, a        *)
(* request that arrives with a revoked or expired key gets no further than *)
(* Verify.                                                                 *)
(***************************************************************************)
THEOREM DeadKeyRejectedHolds == Spec => []DeadKeyRejected
  <1>1. IInv => DeadKeyRejected
    BY DEF IInv, ThreadInv, DeadKeyRejected
  <1> QED
    BY <1>1, Inductive, PTL

(***************************************************************************)
(* For any number of goroutines that write last_used late and in any       *)
(* order, it lags the last use by at most the minute.                      *)
(***************************************************************************)
THEOREM LastUsedTracksHolds == Spec => []LastUsedTracks
  <1>1. IInv => LastUsedTracks
    BY DEF IInv, RowInv, LastUsedTracks, Stored
  <1> QED
    BY <1>1, Inductive, PTL

(***************************************************************************)
(* For any cap and any number of concurrent requests, the cap of           *)
(* Handler.Issue is exceeded by at most the number of requests in flight   *)
(* less one.                                                               *)
(***************************************************************************)
THEOREM CapOvershootHolds == Spec => []CapOvershoot
  <1>1. IInv => CapOvershoot
    BY DEF IInv
  <1> QED
    BY <1>1, Inductive, PTL

\* A key, if the step creates or revokes it, is k.
LEMMA OnlyChanged ==
    ASSUME NEW k, \A j \in KeyId \ {k} : keys'[j] = keys[j] PROVE Changed \subseteq {k}
  BY Zenon DEF Changed, NoKey

LEMMA NothingChanged == ASSUME UNCHANGED keys PROVE Changed = {}
  BY DEF Changed, NoKey

\* The step made by t, which is at its last statement.
Powers(t) ==
    \A k \in Changed :
        /\ pc[t] \in {"insert", "revoke"} /\ pc'[t] = "idle"
        /\ loc[t].cred.kind = "apikey" => keys[k] # NoKey /\ ~keys[loc[t].cred.key].ro

LEMMA StepPowers ==
    ASSUME IInv, Next
    PROVE  \A k \in Changed :
             \E t \in Thread :
                /\ pc[t] \in {"insert", "revoke"} /\ pc'[t] = "idle"
                /\ loc[t].cred.kind = "apikey" => keys[k] # NoKey /\ ~keys[loc[t].cred.key].ro
  <1>1. TypeOK
    BY DEF IInv
  <1>2. ASSUME NEW k \in KeyId, TouchLastUsed(k) PROVE Changed = {}
    <2> DEFINE q == keys[k]
               at == IF q.lastUsed = Never \/ q.lastUsed < now - Minute THEN now ELSE q.lastUsed
               row == [q EXCEPT !.lastUsed = at]
    <2>1. k \in touches /\ keys' = [keys EXCEPT ![k] = row]
      BY <1>2 DEF TouchLastUsed
    <2>2. k \in Stored /\ q \in Key
      BY <1>1, <2>1, RowFacts DEF IInv, RowInv
    <2>3. keys'[k] = row /\ \A j \in KeyId \ {k} : keys'[j] = keys[j]
      BY <1>1, <2>1 DEF TypeOK
    <2>4. q = keys[k]
      OBVIOUS
    <2> HIDE DEF q, at
    <2>5. row.revoked = q.revoked
      BY <2>2 DEF Key
    <2> HIDE DEF row
    <2>6. keys[k] # NoKey /\ keys'[k].revoked = keys[k].revoked
      BY Zenon, <2>2, <2>3, <2>4, <2>5 DEF Stored
    <2>7. k \notin Changed
      BY Zenon, <2>6 DEF Changed
    <2> QED
      BY <2>3, <2>7, OnlyChanged
  <1>3. ASSUME NEW t \in Thread, NEW k \in KeyId, Insert(t, k) PROVE Powers(t)
    <2>1. /\ pc[t] = "insert" /\ Done(t) /\ \A j \in KeyId \ {k} : keys'[j] = keys[j]
      BY Zenon, <1>1, <1>3 DEF Insert, InsertApiKey, TypeOK
    <2>2. pc'[t] = "idle"
      BY Zenon, <1>1, <2>1, DoneThread
    <2>3. loc[t].cred.kind # "apikey"
      BY Zenon, <2>1 DEF IInv, ThreadInv
    <2> QED
      BY Zenon, <2>1, <2>2, <2>3 DEF Powers
  <1>4. ASSUME NEW t \in Thread, RevokeApiKey(t) PROVE Powers(t)
    <2>1. /\ pc[t] = "revoke" /\ Done(t) /\ \A j \in KeyId \ {loc[t].key} : keys'[j] = keys[j]
      BY Zenon, <1>1, <1>4 DEF RevokeApiKey, SetRevoked, TypeOK
    <2>2. pc'[t] = "idle"
      BY Zenon, <1>1, <2>1, DoneThread
    <2>3. loc[t].op = "Revoke" /\ loc[t].key \in Stored
      BY Zenon, <2>1 DEF IInv, ThreadInv
    <2>4. loc[t].cred.kind = "apikey" => ~keys[loc[t].cred.key].ro
      BY <2>1, <2>3 DEF IInv, ThreadInv, MayCall
    <2>5. Changed \subseteq {loc[t].key}
      BY Zenon, <2>1, OnlyChanged
    <2> QED
      BY <2>1, <2>2, <2>3, <2>4, <2>5 DEF Powers, Stored
  <1>5. CASE \E t \in Thread : Powers(t)
    BY Zenon, <1>5 DEF Powers
  <1>6. CASE \/ Tick \/ \E k \in KeyId : TouchFails(k)
             \/ \E t \in Thread : \/ Arrive(t) \/ Authenticate(t) \/ Abort(t) \/ Issue(t)
                                  \/ CountActive(t) \/ Revoke(t) \/ List(t)
    BY <1>6, NothingChanged DEF Tick, TouchFails, Arrive, Authenticate, Abort, Issue, CountActive,
       Revoke, List
  <1> QED
    BY Zenon, <1>2, <1>3, <1>4, <1>5, <1>6 DEF Next

(***************************************************************************)
(* For any number of requests under way: a step that creates or revokes a  *)
(* key is the last statement of a request that no read-only key made, and  *)
(* that no key at all made if the step creates one.                        *)
(***************************************************************************)
THEOREM KeyPowersHolds == Spec => KeyPowers
  <1>1. IInv /\ [Next]_vars =>
          [\A k \in Changed :
             \E t \in Thread :
                /\ pc[t] \in {"insert", "revoke"} /\ pc'[t] = "idle"
                /\ loc[t].cred.kind = "apikey" =>
                      keys[k] # NoKey /\ ~keys[loc[t].cred.key].ro]_vars
    BY StepPowers
  <1> QED
    BY <1>1, Inductive, PTL DEF Spec, KeyPowers
============================================================================
