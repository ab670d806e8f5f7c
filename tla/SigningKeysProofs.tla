------------------------- MODULE SigningKeysProofs -------------------------
(***************************************************************************)
(* Proofs, for every set of processes, threads and keys and all time       *)
(* bounds that satisfy the assumptions, that SigningKeys keeps its         *)
(* invariants. The first part of the inductive invariant does not speak of *)
(* time: control, the table and its row lock, and key encryption keys. The *)
(* second adds when rows, keysets and tokens came about.                   *)
(***************************************************************************)
EXTENDS SigningKeys, TLAPS


(***************************************************************************)
(* The strengthening. Control: which call a thread is in, and that it      *)
(* implies a started process.                                              *)
(***************************************************************************)
InCall(t) ==
    /\ pc[t] \in {"keyset", "return", "sign"} => loc[t].call = "sign"
    /\ pc[t] \in {"demote", "blocked", "insert", "retire"} =>
          loc[t].call = "rotate"
    /\ pc[t] \in {"mint", "list", "store"} => loc[t].call # "none"
    /\ loc[t].call \in {"sign", "rotate"} => up[Home[t]]

ControlInv == \A t \in Thread : InCall(t)

(***************************************************************************)
(* The table: one active row once there is any row, a rotation's own key   *)
(* is not in the table until it commits, and the lock is held only between *)
(* a transaction's UPDATE and its commit.                                  *)
(***************************************************************************)
OneActive ==
    /\ \A j, k \in Active : j = k
    /\ Active = {} => \A k \in Kid : rows[k].state = "unborn"

Seeded ==
    /\ \A t \in Thread : pc[t] \in {"list", "store"} => Active # {}
    /\ \A p \in Proc : up[p] => Active # {}

FreshKeys ==
    /\ \A t \in Thread : pc[t] \in {"demote", "blocked", "insert"} =>
          loc[t].fresh \in Kid /\ rows[loc[t].fresh].state = "unborn"
    /\ \A t, u \in Thread : t # u /\ loc[t].fresh # NoKid =>
          loc[t].fresh # loc[u].fresh

LockHeld == lock \in Thread => pc[lock] = "insert" /\ Active # {}

TableInv == OneActive /\ Seeded /\ FreshKeys /\ LockHeld

(***************************************************************************)
(* Every process that has started, or is about to store what it read at    *)
(* start-up, holds the KEK of all live rows.                               *)
(***************************************************************************)
OpensAll(p) == \A k \in Live : CanOpen(p, k)

KekInv ==
    /\ \A p \in Proc : up[p] => OpensAll(p)
    /\ \A t \in Thread : pc[t] = "store" => OpensAll(Home[t])
----------------------------------------------------------------------------
(* Type correctness. *)

LEMMA InitType == Init => TypeOK
  <1> SUFFICES ASSUME Init PROVE TypeOK
    OBVIOUS
  <1>1. NoRow \in Row
    BY ConstantsOK DEF NoRow, Row, Kek
  <1>2. NoKeyset \in Keyset
    BY DEF NoKeyset, Keyset, KidOrNone
  <1>3. NoLocal \in Local
    BY <1>2 DEF NoLocal, Local, Call, KidOrNone
  <1> QED
    BY <1>1, <1>2, <1>3 DEF Init, TypeOK, PC

LEMMA GetActiveType == GetActive \in KidOrNone
  BY DEF GetActive, Active, KidOrNone

LEMMA NewRowType == ASSUME NEW p \in Proc PROVE NewRow(p) \in Row
  BY DEF NewRow, Row, Kek

LEMMA ExitType ==
    ASSUME NEW p \in Proc, TypeOK, Exit(p), UNCHANGED <<now, rows, tokens>>
    PROVE  TypeOK'
  <1>1. NoKeyset \in Keyset
    BY DEF NoKeyset, Keyset, KidOrNone
  <1>2. NoLocal \in Local
    BY <1>1 DEF NoLocal, Local, Call, KidOrNone
  <1> QED
    BY <1>1, <1>2 DEF TypeOK, Exit, PC

LEMMA TypeStep == TypeOK /\ [Next]_vars => TypeOK'
  <1> SUFFICES ASSUME TypeOK, [Next]_vars PROVE TypeOK'
    OBVIOUS
  <1> USE ConstantsOK
  <1>0. NoLocal \in Local
    BY DEF NoLocal, Local, Call, KidOrNone, NoKeyset, Keyset
  <1>1. CASE Tick
    BY <1>1 DEF TypeOK, Tick
  <1>2. ASSUME NEW p \in Proc, Crash(p) PROVE TypeOK'
    BY <1>2, ExitType DEF Crash
  <1>3. ASSUME NEW t \in Thread, EnsureActive(t) PROVE TypeOK'
    BY <1>3 DEF TypeOK, EnsureActive, Goto, PC, Local, Call
  <1>4. ASSUME NEW t \in Thread, NEW k \in Kid, Mint(t, k) PROVE TypeOK'
    BY <1>4, NewRowType DEF TypeOK, Mint, Goto, PC
  <1>5. ASSUME NEW t \in Thread, ListLive(t) PROVE TypeOK'
    <2>1. [active |-> GetActive, all |-> Live, loadedAt |-> 0, asOf |-> now] \in Keyset
      BY GetActiveType DEF TypeOK, Keyset, Live
    <2>2. \A ks \in Keyset : [loc[t] EXCEPT !.ks = ks] \in Local
      BY DEF TypeOK, Local
    <2> QED
      BY <1>5, <2>1, <2>2 DEF TypeOK, ListLive, Goto, PC
  <1>6. ASSUME NEW t \in Thread, RefreshFails(t) PROVE TypeOK'
    <2>1. [loc[t] EXCEPT !.stale = TRUE] \in Local
      BY ZenonT(40) DEF TypeOK, Local
    <2>2. CASE loc[t].call = "sign"
      <3>1. /\ Goto(t, "return")
            /\ loc' = [loc EXCEPT ![t].stale = TRUE]
            /\ UNCHANGED <<now, rows, lock, up, cache, tokens>>
        BY <1>6, <2>2 DEF RefreshFails
      <3> QED
        BY <2>1, <3>1 DEF TypeOK, Goto, PC
    <2>3. CASE loc[t].call # "sign"
      BY <1>6, <2>3, ExitType DEF RefreshFails
    <2> QED
      BY <2>2, <2>3
  <1>7. ASSUME NEW t \in Thread, StoreBoot(t) \/ StoreSign(t) PROVE TypeOK'
    <2>1. [loc[t].ks EXCEPT !.loadedAt = Clock(Home[t])] \in Keyset
      <3>1. Clock(Home[t]) \in Int
        BY DEF TypeOK, Clock
      <3>2. loc[t].ks \in Keyset
        BY DEF TypeOK, Local
      <3> QED
        BY <3>1, <3>2 DEF Keyset
    <2>2. CASE StoreBoot(t)
      BY <2>2, <1>0, <2>1 DEF TypeOK, StoreBoot, Store, Goto, PC
    <2>3. CASE StoreSign(t)
      BY <2>3, <2>1 DEF TypeOK, StoreSign, Store, Goto, PC
    <2> QED
      BY <1>7, <2>2, <2>3
  <1>8. ASSUME NEW t \in Thread, StoreRotate(t) PROVE TypeOK'
    BY <1>8, ExitType DEF StoreRotate
  <1>9. ASSUME NEW t \in Thread, NEW ttl \in 1..MaxTTL, Issue(t, ttl) PROVE TypeOK'
    <2>1. Clock(Home[t]) + ttl \in Int
      BY DEF TypeOK, Clock
    <2>2. \A e \in Int : [loc[t] EXCEPT !.call = "sign", !.exp = e] \in Local
      BY ZenonT(40) DEF TypeOK, Local, Call
    <2> QED
      BY Zenon, <1>9, <2>1, <2>2 DEF TypeOK, Issue, Goto, PC
  <1>10. ASSUME NEW t \in Thread, KeysetHit(t) \/ KeysetMiss(t) \/ KeysetReturn(t)
         PROVE TypeOK'
    <2>1. [loc[t] EXCEPT !.ks = cache[Home[t]]] \in Local
      BY DEF TypeOK, Local
    <2> QED
      BY <1>10, <2>1 DEF TypeOK, KeysetHit, KeysetMiss, KeysetReturn, Goto, PC
  <1>11. ASSUME NEW t \in Thread, Sign(t) PROVE TypeOK'
    BY <1>11, <1>0 DEF TypeOK, Sign, Goto, PC, Local, Keyset, Token, KidOrNone
  <1>12. ASSUME NEW t \in Thread, NEW k \in Kid, Rotate(t, k) PROVE TypeOK'
    <2>1. Clock(Home[t]) + RetireWindow \in Int
      BY DEF TypeOK, Clock
    <2>2. \A u \in Int : [loc[t] EXCEPT !.call = "rotate", !.fresh = k, !.began = now,
                                      !.until = u] \in Local
      <3>1. loc[t] \in Local /\ now \in Int
        BY DEF TypeOK
      <3> QED
        BY Zenon, <3>1 DEF Local, Call, KidOrNone
    <2> QED
      BY Zenon, <1>12, <2>1, <2>2 DEF TypeOK, Rotate, Goto, PC
  <1>13. ASSUME NEW t \in Thread, Demote(t) \/ DemoteBlocks(t) \/ DemoteResumes(t)
         PROVE TypeOK'
    <2>1. [loc[t] EXCEPT !.saw = GetActive] \in Local
      BY GetActiveType DEF TypeOK, Local
    <2> QED
      BY <1>13, <2>1 DEF TypeOK, Demote, DemoteBlocks, DemoteResumes, Goto, PC
  <1>14. ASSUME NEW t \in Thread, RotateCommit(t) PROVE TypeOK'
    <2>1. loc[t].until \in Int
      BY DEF TypeOK, Local
    <2>2. \A k \in Kid : [rows[k] EXCEPT !.state = "retiring", !.demotedAt = now,
                                       !.retireAfter = loc[t].until] \in Row
      <3>1. now \in Int /\ \A k \in Kid : rows[k] \in Row
        BY DEF TypeOK
      <3> QED
        BY Zenon, <2>1, <3>1 DEF Row
    <2> QED
      BY Zenon, <1>14, <2>2, NewRowType DEF TypeOK, RotateCommit, Goto, PC
  <1>15. ASSUME NEW t \in Thread, RotateConflict(t) PROVE TypeOK'
    BY <1>15, ExitType DEF RotateConflict
  <1>16. ASSUME NEW t \in Thread, RetireExpired(t) PROVE TypeOK'
    BY <1>16 DEF TypeOK, RetireExpired, Goto, PC, Row
  <1>17. CASE UNCHANGED vars
    BY <1>17 DEF TypeOK, vars
  <1> QED
    BY <1>1, <1>2, <1>3, <1>4, <1>5, <1>6, <1>7, <1>8, <1>9, <1>10, <1>11,
       <1>12, <1>13, <1>14, <1>15, <1>16, <1>17 DEF Next
----------------------------------------------------------------------------
(* What a step does to the threads it does not belong to. *)

LEMMA ExitFrame ==
    ASSUME NEW p \in Proc, TypeOK, Exit(p), NEW u \in Thread
    PROVE  /\ Home[u] = p => pc'[u] = "idle" /\ loc'[u] = NoLocal
           /\ Home[u] # p => pc'[u] = pc[u] /\ loc'[u] = loc[u]
           /\ up'[Home[u]] = (Home[u] # p /\ up[Home[u]])
  <1>1. up'[Home[u]] = (Home[u] # p /\ up[Home[u]])
    <2>1. up \in [Proc -> BOOLEAN] /\ Home[u] \in Proc /\ up' = [up EXCEPT ![p] = FALSE]
      BY ConstantsOK DEF TypeOK, Exit
    <2> QED
      BY Zenon, <2>1
  <1> QED
    BY Zenon, <1>1 DEF Exit

LEMMA ControlExit ==
    ASSUME NEW p \in Proc, TypeOK, ControlInv, Exit(p)
    PROVE  ControlInv'
  <1> SUFFICES ASSUME NEW t \in Thread PROVE InCall(t)'
    BY DEF ControlInv
  <1>1. CASE Home[t] = p
    BY <1>1, ExitFrame DEF InCall, NoLocal
  <1>2. CASE Home[t] # p
    BY ZenonT(40), <1>2, ExitFrame DEF ControlInv, InCall
  <1> QED
    BY <1>1, <1>2

LEMMA ControlStep == TypeOK /\ ControlInv /\ [Next]_vars => ControlInv'
  <1> SUFFICES ASSUME TypeOK, ControlInv, [Next]_vars PROVE ControlInv'
    OBVIOUS
  <1> USE ConstantsOK
  <1>1. CASE Tick
    BY <1>1 DEF ControlInv, InCall, Tick
  <1>2. ASSUME NEW p \in Proc, Crash(p) PROVE ControlInv'
    BY <1>2, ControlExit DEF Crash
  <1>3. ASSUME NEW t \in Thread, EnsureActive(t) PROVE ControlInv'
    BY <1>3 DEF TypeOK, ControlInv, InCall, EnsureActive, Goto, Local
  <1>4. ASSUME NEW t \in Thread, NEW k \in Kid, Mint(t, k) PROVE ControlInv'
    BY <1>4 DEF TypeOK, ControlInv, InCall, Mint, Goto
  <1>5. ASSUME NEW t \in Thread, ListLive(t) PROVE ControlInv'
    BY <1>5 DEF TypeOK, ControlInv, InCall, ListLive, Goto, Local
  <1>6. ASSUME NEW t \in Thread, RefreshFails(t) PROVE ControlInv'
    BY <1>6, ControlExit DEF TypeOK, ControlInv, InCall, RefreshFails, Goto, Local
  <1>7. ASSUME NEW t \in Thread, StoreBoot(t) PROVE ControlInv'
    BY <1>7 DEF TypeOK, ControlInv, InCall, StoreBoot, Goto, NoLocal
  <1>8. ASSUME NEW t \in Thread, StoreSign(t) PROVE ControlInv'
    BY <1>8 DEF TypeOK, ControlInv, InCall, StoreSign, Goto
  <1>9. ASSUME NEW t \in Thread, StoreRotate(t) PROVE ControlInv'
    BY <1>9, ControlExit DEF StoreRotate
  <1>10. ASSUME NEW t \in Thread, NEW ttl \in 1..MaxTTL, Issue(t, ttl) PROVE ControlInv'
    BY <1>10 DEF TypeOK, ControlInv, InCall, Issue, Goto, Local
  <1>11. ASSUME NEW t \in Thread, KeysetHit(t) PROVE ControlInv'
    BY <1>11 DEF TypeOK, ControlInv, InCall, KeysetHit, Goto, Local
  <1>12. ASSUME NEW t \in Thread, KeysetMiss(t) PROVE ControlInv'
    BY <1>12 DEF TypeOK, ControlInv, InCall, KeysetMiss, Goto
  <1>13. ASSUME NEW t \in Thread, KeysetReturn(t) PROVE ControlInv'
    BY <1>13 DEF TypeOK, ControlInv, InCall, KeysetReturn, Goto, Local
  <1>14. ASSUME NEW t \in Thread, Sign(t) PROVE ControlInv'
    BY <1>14 DEF TypeOK, ControlInv, InCall, Sign, Goto, NoLocal
  <1>15. ASSUME NEW t \in Thread, NEW k \in Kid, Rotate(t, k) PROVE ControlInv'
    BY <1>15 DEF TypeOK, ControlInv, InCall, Rotate, Goto, Local
  <1>16. ASSUME NEW t \in Thread, Demote(t) PROVE ControlInv'
    BY <1>16 DEF TypeOK, ControlInv, InCall, Demote, Goto
  <1>17. ASSUME NEW t \in Thread, DemoteBlocks(t) PROVE ControlInv'
    BY <1>17 DEF TypeOK, ControlInv, InCall, DemoteBlocks, Goto, Local
  <1>18. ASSUME NEW t \in Thread, DemoteResumes(t) PROVE ControlInv'
    BY <1>18 DEF TypeOK, ControlInv, InCall, DemoteResumes, Goto
  <1>19. ASSUME NEW t \in Thread, RotateCommit(t) PROVE ControlInv'
    BY Zenon, <1>19 DEF TypeOK, ControlInv, InCall, RotateCommit, Goto
  <1>20. ASSUME NEW t \in Thread, RotateConflict(t) PROVE ControlInv'
    BY <1>20, ControlExit DEF RotateConflict
  <1>21. ASSUME NEW t \in Thread, RetireExpired(t) PROVE ControlInv'
    BY <1>21 DEF TypeOK, ControlInv, InCall, RetireExpired, Goto
  <1>22. CASE UNCHANGED vars
    BY <1>22 DEF ControlInv, InCall, vars
  <1> QED
    BY <1>1, <1>2, <1>3, <1>4, <1>5, <1>6, <1>7, <1>8, <1>9, <1>10, <1>11,
       <1>12, <1>13, <1>14, <1>15, <1>16, <1>17, <1>18, <1>19, <1>20, <1>21,
       <1>22 DEF Next
----------------------------------------------------------------------------
(* The table. *)

LEMMA TableExit ==
    ASSUME NEW p \in Proc, TypeOK, TableInv, Exit(p), UNCHANGED rows
    PROVE  TableInv'
  <1>1. Active' = Active
    BY DEF Active
  <1>2. OneActive'
    BY <1>1 DEF TableInv, OneActive
  <1>3. Seeded'
    <2>1. \A t \in Thread : pc'[t] \in {"list", "store"} => pc[t] \in {"list", "store"}
      BY ExitFrame
    <2>2. \A q \in Proc : up'[q] => up[q]
      BY DEF TypeOK, Exit
    <2> QED
      BY <1>1, <2>1, <2>2 DEF TableInv, Seeded
  <1>4. FreshKeys'
    <2>1. \A t \in Thread : pc'[t] # "idle" => pc'[t] = pc[t] /\ loc'[t] = loc[t]
      BY ExitFrame
    <2>2. \A t \in Thread : loc'[t].fresh # NoKid => loc'[t] = loc[t]
      BY ExitFrame DEF NoLocal
    <2> QED
      BY <2>1, <2>2 DEF TableInv, FreshKeys
  <1>5. LockHeld'
    <2>1. lock' \in Thread => lock' = lock /\ Home[lock] # p
      BY ConstantsOK DEF Exit
    <2> QED
      BY <1>1, <2>1, ExitFrame DEF TableInv, LockHeld
  <1> QED
    BY <1>2, <1>3, <1>4, <1>5 DEF TableInv

LEMMA TableMint ==
    ASSUME NEW t \in Thread, NEW k \in Kid, TypeOK, TableInv, Mint(t, k)
    PROVE  TableInv'
  <1>1. CASE Active = {}
    <2>1. rows' = [rows EXCEPT ![k] = NewRow(Home[t])] /\ rows[k].state = "unborn"
      BY <1>1 DEF Mint, Unused
    <2>2. Active' = {k}
      BY <1>1, <2>1 DEF TypeOK, Active, NewRow
    <2>3. OneActive' /\ Seeded'
      BY <2>2 DEF OneActive, Seeded
    <2>4. FreshKeys'
      <3>1. \A u \in Thread : loc[u].fresh # k
        BY DEF Mint, Unused
      <3>2. \A u \in Thread : pc'[u] \in {"demote", "blocked", "insert"} => pc'[u] = pc[u]
        BY DEF TypeOK, Mint, Goto
      <3> QED
        BY <2>1, <3>1, <3>2 DEF TypeOK, TableInv, FreshKeys, Mint
    <2>5. LockHeld'
      BY ZenonT(40), ConstantsOK DEF Mint, LockHeld
    <2> QED
      BY <2>3, <2>4, <2>5 DEF TableInv
  <1>2. CASE Active # {}
    <2>1. rows' = rows /\ Active' = Active
      BY <1>2 DEF Mint, Active
    <2>2. \A u \in Thread : pc'[u] \in {"demote", "blocked", "insert"} => pc'[u] = pc[u]
      BY DEF TypeOK, Mint, Goto
    <2> QED
      BY <1>2, <2>1, <2>2, ConstantsOK
      DEF TableInv, OneActive, Seeded, FreshKeys, LockHeld, Mint
  <1> QED
    BY <1>1, <1>2

LEMMA TableCommit ==
    ASSUME NEW t \in Thread, TypeOK, TableInv, RotateCommit(t)
    PROVE  TableInv' /\ Active' = {loc[t].fresh}
  <1> DEFINE f == loc[t].fresh
  <1>1. f \in Kid /\ rows[f].state = "unborn"
    BY Zenon DEF TableInv, FreshKeys, RotateCommit
  <1>2. \A k \in Kid : /\ k = f => rows'[k].state = "active"
                       /\ rows[k].state = "active" => rows'[k].state = "retiring"
                       /\ k # f /\ rows[k].state # "active" => rows'[k] = rows[k]
    <2>1. \A k \in Active : k # f /\ rows[k] \in Row
      BY <1>1 DEF Active, TypeOK
    <2> QED
      BY Zenon, <1>1, <2>1 DEF RotateCommit, NewRow, Row, Active
  <1>3. Active' = {f}
    <2>1. \A k \in Kid : rows'[k].state = "active" <=> k = f
      BY <1>1, <1>2
    <2> QED
      BY <1>1, <2>1 DEF Active
  <1>4. OneActive' /\ Seeded'
    BY <1>3 DEF OneActive, Seeded
  <1>5. FreshKeys'
    <2>1. loc' = loc /\ f # NoKid
      BY Zenon, <1>1, ConstantsOK DEF RotateCommit
    <2>2. ASSUME NEW u \in Thread, pc'[u] \in {"demote", "blocked", "insert"}
          PROVE  loc[u].fresh \in Kid /\ rows'[loc[u].fresh].state = "unborn"
      <3>1. u # t /\ pc[u] = pc'[u]
        BY Zenon, <2>2 DEF TypeOK, RotateCommit, Goto
      <3>2. loc[u].fresh \in Kid /\ rows[loc[u].fresh].state = "unborn" /\ loc[u].fresh # f
        BY <2>1, <2>2, <3>1 DEF TableInv, FreshKeys
      <3> QED
        BY <1>2, <3>2
    <2> QED
      BY <2>1, <2>2 DEF TableInv, FreshKeys
  <1>6. LockHeld'
    BY Zenon, ConstantsOK DEF RotateCommit, LockHeld
  <1> QED
    BY <1>3, <1>4, <1>5, <1>6 DEF TableInv

LEMMA TableRetire ==
    ASSUME NEW t \in Thread, TypeOK, ControlInv, TableInv, RetireExpired(t)
    PROVE  TableInv' /\ Active' = Active
  <1>1. ASSUME NEW k \in Kid
        PROVE  /\ rows'[k].state = "active" <=> rows[k].state = "active"
               /\ rows[k].state = "unborn" => rows'[k] = rows[k]
               /\ \/ rows'[k].state = "deleted" /\ rows[k].state = "retiring"
                  \/ rows'[k] = rows[k]
    <2>1. rows[k] \in Row
      BY DEF TypeOK
    <2> QED
      BY <2>1 DEF RetireExpired, Row
  <1>2. Active' = Active
    BY <1>1 DEF Active
  <1>3. OneActive'
    BY <1>1, <1>2 DEF TableInv, OneActive
  <1>4. /\ \A u \in Thread : pc'[u] = "list" \/ pc'[u] = pc[u]
        /\ pc[t] = "retire"
        /\ UNCHANGED <<lock, up, loc>>
    BY DEF TypeOK, RetireExpired, Goto
  <1>5. Seeded'
    <2>1. Active # {}
      BY ConstantsOK DEF ControlInv, InCall, TableInv, Seeded, RetireExpired
    <2> QED
      BY <1>2, <2>1 DEF Seeded
  <1>6. FreshKeys'
    BY <1>1, <1>4 DEF TableInv, FreshKeys
  <1>7. LockHeld'
    BY <1>2, <1>4 DEF TypeOK, TableInv, LockHeld, RetireExpired, Goto
  <1> QED
    BY <1>2, <1>3, <1>5, <1>6, <1>7 DEF TableInv

LEMMA TableStep == TypeOK /\ ControlInv /\ TableInv /\ [Next]_vars => TableInv'
  <1> SUFFICES ASSUME TypeOK, ControlInv, TableInv, [Next]_vars PROVE TableInv'
    OBVIOUS
  <1> USE ConstantsOK
  <1>0. rows' = rows => Active' = Active
    BY DEF Active
  <1>1. CASE Tick
    BY <1>0, <1>1 DEF TableInv, OneActive, Seeded, FreshKeys, LockHeld, Tick
  <1>2. ASSUME NEW p \in Proc, Crash(p) PROVE TableInv'
    BY <1>2, TableExit DEF Crash
  <1>3. ASSUME NEW t \in Thread, EnsureActive(t) PROVE TableInv'
    <2>1. loc'[t].fresh = loc[t].fresh
      BY <1>3 DEF TypeOK, Local, EnsureActive
    <2> QED
      BY <1>0, <1>3, <2>1
      DEF TypeOK, TableInv, OneActive, Seeded, FreshKeys, LockHeld, EnsureActive, Goto
  <1>4. ASSUME NEW t \in Thread, NEW k \in Kid, Mint(t, k) PROVE TableInv'
    BY <1>4, TableMint
  <1>5. ASSUME NEW t \in Thread, ListLive(t) PROVE TableInv'
    <2>1. loc'[t].fresh = loc[t].fresh
      BY <1>5 DEF TypeOK, Local, ListLive
    <2> QED
      BY <1>0, <1>5, <2>1
      DEF TypeOK, TableInv, OneActive, Seeded, FreshKeys, LockHeld, ListLive, Goto
  <1>6. ASSUME NEW t \in Thread, RefreshFails(t) PROVE TableInv'
    <2>1. CASE loc[t].call # "sign"
      BY <1>6, <2>1, TableExit DEF RefreshFails
    <2>2. CASE loc[t].call = "sign"
      <3>1. /\ pc' = [pc EXCEPT ![t] = "return"]
            /\ loc' = [loc EXCEPT ![t].stale = TRUE]
            /\ pc[t] = "list"
            /\ UNCHANGED <<rows, lock, up>>
        BY <1>6, <2>2 DEF RefreshFails, Goto
      <3>2. loc'[t].fresh = loc[t].fresh
        BY Zenon, <3>1 DEF TypeOK, Local
      <3> QED
        BY <1>0, <3>1, <3>2
        DEF TypeOK, TableInv, OneActive, Seeded, FreshKeys, LockHeld
    <2> QED
      BY <2>1, <2>2
  <1>7. ASSUME NEW t \in Thread, StoreBoot(t) PROVE TableInv'
    <2>1. Active # {}
      BY <1>7 DEF TableInv, Seeded, StoreBoot
    <2>2. loc'[t].fresh = NoKid /\ \A u \in Thread : u # t => loc'[u] = loc[u]
      BY <1>7 DEF TypeOK, NoLocal, StoreBoot
    <2> QED
      BY <1>0, <1>7, <2>1, <2>2
      DEF TypeOK, TableInv, OneActive, Seeded, FreshKeys, LockHeld, StoreBoot, Goto
  <1>8. ASSUME NEW t \in Thread, StoreSign(t) PROVE TableInv'
    BY ZenonT(40), <1>0, <1>8
    DEF TypeOK, TableInv, OneActive, Seeded, FreshKeys, LockHeld, StoreSign, Goto
  <1>9. ASSUME NEW t \in Thread, StoreRotate(t) PROVE TableInv'
    BY <1>9, TableExit DEF StoreRotate
  <1>10. ASSUME NEW t \in Thread, NEW ttl \in 1..MaxTTL, Issue(t, ttl) PROVE TableInv'
    <2>1. loc'[t].fresh = loc[t].fresh
      BY <1>10 DEF TypeOK, Local, Issue
    <2> QED
      BY <1>0, <1>10, <2>1
      DEF TypeOK, TableInv, OneActive, Seeded, FreshKeys, LockHeld, Issue, Goto
  <1>11. ASSUME NEW t \in Thread, KeysetHit(t) \/ KeysetReturn(t) PROVE TableInv'
    <2>1. loc'[t].fresh = loc[t].fresh
      BY <1>11 DEF TypeOK, Local, KeysetHit, KeysetReturn
    <2> QED
      <3>1. CASE KeysetHit(t)
        BY <1>0, <2>1, <3>1
        DEF TypeOK, TableInv, OneActive, Seeded, FreshKeys, LockHeld, KeysetHit, Goto
      <3>2. CASE KeysetReturn(t)
        BY <1>0, <2>1, <3>2
        DEF TypeOK, TableInv, OneActive, Seeded, FreshKeys, LockHeld, KeysetReturn, Goto
      <3> QED
        BY Zenon, <1>11, <3>1, <3>2
  <1>12. ASSUME NEW t \in Thread, KeysetMiss(t) PROVE TableInv'
    <2>1. Active # {}
      BY <1>12 DEF ControlInv, InCall, TableInv, Seeded, KeysetMiss
    <2> QED
      BY <1>0, <1>12, <2>1
      DEF TypeOK, TableInv, OneActive, Seeded, FreshKeys, LockHeld, KeysetMiss, Goto
  <1>13. ASSUME NEW t \in Thread, Sign(t) PROVE TableInv'
    <2>1. loc'[t].fresh = NoKid /\ \A u \in Thread : u # t => loc'[u] = loc[u]
      BY Zenon, <1>13 DEF TypeOK, NoLocal, Sign
    <2> QED
      BY <1>0, <1>13, <2>1
      DEF TypeOK, TableInv, OneActive, Seeded, FreshKeys, LockHeld, Sign, Goto
  <1>14. ASSUME NEW t \in Thread, NEW k \in Kid, Rotate(t, k) PROVE TableInv'
    <2>1. loc'[t].fresh = k /\ \A u \in Thread : u # t => loc'[u] = loc[u]
      BY <1>14 DEF TypeOK, Local, Rotate
    <2>2. rows[k].state = "unborn" /\ \A u \in Thread : loc[u].fresh # k
      BY Zenon, <1>14 DEF Rotate, Unused
    <2> QED
      BY <1>0, <1>14, <2>1, <2>2
      DEF TypeOK, TableInv, OneActive, Seeded, FreshKeys, LockHeld, Rotate, Goto
  <1>15. ASSUME NEW t \in Thread, Demote(t) \/ DemoteResumes(t) PROVE TableInv'
    BY <1>0, <1>15 DEF TypeOK, TableInv, OneActive, Seeded, FreshKeys, LockHeld,
                       Demote, DemoteResumes, Goto
  <1>16. ASSUME NEW t \in Thread, DemoteBlocks(t) PROVE TableInv'
    <2>1. loc'[t].fresh = loc[t].fresh
      BY <1>16 DEF TypeOK, Local, DemoteBlocks
    <2> QED
      BY <1>0, <1>16, <2>1
      DEF TypeOK, TableInv, OneActive, Seeded, FreshKeys, LockHeld, DemoteBlocks, Goto
  <1>17. ASSUME NEW t \in Thread, RotateCommit(t) PROVE TableInv'
    BY <1>17, TableCommit
  <1>18. ASSUME NEW t \in Thread, RotateConflict(t) PROVE TableInv'
    BY <1>18, TableExit DEF RotateConflict
  <1>19. ASSUME NEW t \in Thread, RetireExpired(t) PROVE TableInv'
    BY ZenonT(40), <1>19, TableRetire
  <1>20. CASE UNCHANGED vars
    BY <1>0, <1>20 DEF TableInv, OneActive, Seeded, FreshKeys, LockHeld, vars
  <1> QED
    BY <1>1, <1>2, <1>3, <1>4, <1>5, <1>6, <1>7, <1>8, <1>9, <1>10, <1>11,
       <1>12, <1>13, <1>14, <1>15, <1>16, <1>17, <1>18, <1>19, <1>20 DEF Next
----------------------------------------------------------------------------
(***************************************************************************)
(* Which actions change what. The arguments about keks, caches and tokens  *)
(* below go by the part of the state, not by the action.                   *)
(***************************************************************************)
InRotation == {"demote", "blocked", "insert"}

ThreadFrame(t) ==
    /\ pc'[t] = "store" => (pc[t] = "store" /\ loc'[t] = loc[t]) \/ ListLive(t)
    /\ pc'[t] = "sign" => \/ pc[t] = "sign" /\ loc'[t] = loc[t]
                          \/ KeysetHit(t) \/ KeysetReturn(t)
    /\ pc'[t] = "return" => \/ pc[t] = "return" /\ loc'[t] = loc[t]
                            \/ StoreSign(t)
                            \/ loc'[t].stale
    /\ pc'[t] \in InRotation => \/ /\ pc[t] \in InRotation
                                   /\ loc'[t].began = loc[t].began
                                   /\ loc'[t].until = loc[t].until
                                \/ \E k \in Kid : Rotate(t, k)
    /\ loc'[t].call = "sign" => \/ loc[t].call = "sign" /\ loc'[t].exp = loc[t].exp
                                \/ \E ttl \in 1..MaxTTL : Issue(t, ttl)

ProcFrame(p) ==
    up'[p] => \/ up[p] /\ cache'[p] = cache[p]
              \/ \E t \in Thread : /\ Home[t] = p
                                   /\ StoreBoot(t) \/ (StoreSign(t) /\ up[p])

Frame ==
    /\ \A t \in Thread : ThreadFrame(t)
    /\ \A p \in Proc : ProcFrame(p)
    /\ \/ rows' = rows
       \/ \E t \in Thread, k \in Kid : Mint(t, k) /\ Active = {}
       \/ \E t \in Thread : RotateCommit(t) \/ RetireExpired(t)
    /\ tokens' = tokens \/ \E t \in Thread : Sign(t)
    /\ now' = now \/ Tick

LEMMA FrameExit ==
    ASSUME NEW p \in Proc, TypeOK, Exit(p), UNCHANGED <<now, rows, tokens>>
    PROVE  Frame
  <1>1. ASSUME NEW t \in Thread PROVE ThreadFrame(t)
    <2>1. CASE Home[t] = p
      BY <2>1, ExitFrame DEF ThreadFrame, InRotation, NoLocal
    <2>2. CASE Home[t] # p
      BY <2>2, ExitFrame DEF ThreadFrame
    <2> QED
      BY ZenonT(40), <2>1, <2>2
  <1>2. ASSUME NEW q \in Proc PROVE ProcFrame(q)
    <2>1. CASE q = p
      BY <2>1 DEF TypeOK, ProcFrame, Exit
    <2>2. CASE q # p
      BY Zenon, <2>2 DEF TypeOK, ProcFrame, Exit
    <2> QED
      BY Zenon, <2>1, <2>2
  <1> QED
    BY <1>1, <1>2 DEF Frame

LEMMA FrameStep == TypeOK /\ [Next]_vars => Frame
  <1> SUFFICES ASSUME TypeOK, [Next]_vars PROVE Frame
    OBVIOUS
  <1> USE ConstantsOK
  <1>1. CASE Tick
    BY Zenon, <1>1 DEF Frame, ThreadFrame, ProcFrame, Tick
  <1>2. ASSUME NEW p \in Proc, Crash(p) PROVE Frame
    BY <1>2, FrameExit DEF Crash
  <1>3. ASSUME NEW t \in Thread, RefreshFails(t) PROVE Frame
    <2>1. CASE loc[t].call # "sign"
      BY <1>3, <2>1, FrameExit DEF RefreshFails
    <2>2. CASE loc[t].call = "sign"
      <3>1. /\ pc' = [pc EXCEPT ![t] = "return"]
            /\ loc' = [loc EXCEPT ![t].stale = TRUE]
            /\ pc[t] = "list"
            /\ UNCHANGED <<now, rows, up, cache, tokens>>
        BY Zenon, <1>3, <2>2 DEF RefreshFails, Goto
      <3> QED
        BY <3>1 DEF TypeOK, Local, Frame, ThreadFrame, ProcFrame, InRotation
    <2> QED
      BY <2>1, <2>2
  <1>4. ASSUME NEW t \in Thread, StoreBoot(t) PROVE Frame
    <2>1. \A u \in Thread : ThreadFrame(u)
      BY Zenon, <1>4 DEF TypeOK, ThreadFrame, InRotation, StoreBoot, Goto, NoLocal
    <2>2. \A p \in Proc : ProcFrame(p)
      BY Zenon, <1>4 DEF TypeOK, ProcFrame, StoreBoot, Store
    <2> QED
      BY <1>4, <2>1, <2>2 DEF Frame, StoreBoot
  <1>5. ASSUME NEW t \in Thread, NEW k \in Kid, Mint(t, k) PROVE Frame
    BY Zenon, <1>5 DEF TypeOK, Frame, ThreadFrame, ProcFrame, InRotation, Mint, Goto
  <1>6. ASSUME NEW t \in Thread, StoreRotate(t) PROVE Frame
    BY <1>6, FrameExit DEF StoreRotate
  <1>7. ASSUME NEW t \in Thread, RotateConflict(t) PROVE Frame
    BY <1>7, FrameExit DEF RotateConflict
  <1>8. ASSUME NEW t \in Thread, Sign(t) PROVE Frame
    BY Zenon, <1>8 DEF TypeOK, Frame, ThreadFrame, ProcFrame, InRotation, Sign, Goto, NoLocal
  <1>9. ASSUME NEW t \in Thread, RotateCommit(t) PROVE Frame
    BY Zenon, <1>9 DEF TypeOK, Frame, ThreadFrame, ProcFrame, InRotation, RotateCommit, Goto
  <1>10. ASSUME NEW t \in Thread, RetireExpired(t) PROVE Frame
    BY Zenon, <1>10 DEF TypeOK, Frame, ThreadFrame, ProcFrame, InRotation, RetireExpired, Goto
  <1>11. ASSUME NEW t \in Thread, EnsureActive(t) PROVE Frame
    BY <1>11 DEF TypeOK, Local, Frame, ThreadFrame, ProcFrame, InRotation, EnsureActive, Goto
  <1>12. ASSUME NEW t \in Thread, ListLive(t) PROVE Frame
    BY ZenonT(40), <1>12 DEF TypeOK, Local, Frame, ThreadFrame, ProcFrame, InRotation, ListLive, Goto
  <1>13. ASSUME NEW t \in Thread, StoreSign(t) PROVE Frame
    BY Zenon, <1>13
      DEF TypeOK, Frame, ThreadFrame, ProcFrame, InRotation, StoreSign, Goto, Store
  <1>14. ASSUME NEW t \in Thread, NEW ttl \in 1..MaxTTL, Issue(t, ttl) PROVE Frame
    BY Zenon, <1>14 DEF TypeOK, Local, Frame, ThreadFrame, ProcFrame, InRotation, Issue, Goto
  <1>15. ASSUME NEW t \in Thread, KeysetHit(t) PROVE Frame
    BY ZenonT(40), <1>15
      DEF TypeOK, Local, Frame, ThreadFrame, ProcFrame, InRotation, KeysetHit, Goto
  <1>16. ASSUME NEW t \in Thread, KeysetMiss(t) PROVE Frame
    BY <1>16 DEF TypeOK, Frame, ThreadFrame, ProcFrame, InRotation, KeysetMiss, Goto
  <1>17. ASSUME NEW t \in Thread, KeysetReturn(t) PROVE Frame
    BY ZenonT(40), <1>17
      DEF TypeOK, Local, Frame, ThreadFrame, ProcFrame, InRotation, KeysetReturn, Goto
  <1>18. ASSUME NEW t \in Thread, NEW k \in Kid, Rotate(t, k) PROVE Frame
    <2>1. pc'[t] = "demote" /\ loc'[t].call = "rotate"
      BY <1>18 DEF TypeOK, Local, Rotate, Goto
    <2>2. \A u \in Thread : u # t => pc'[u] = pc[u] /\ loc'[u] = loc[u]
      BY <1>18 DEF TypeOK, Rotate, Goto
    <2>3. \A u \in Thread : ThreadFrame(u)
      BY Zenon, <1>18, <2>1, <2>2 DEF ThreadFrame
    <2> QED
      BY <1>18, <2>3 DEF Frame, ProcFrame, Rotate
  <1>19. ASSUME NEW t \in Thread, Demote(t) PROVE Frame
    BY <1>19 DEF TypeOK, Frame, ThreadFrame, ProcFrame, InRotation, Demote, Goto
  <1>20. ASSUME NEW t \in Thread, DemoteBlocks(t) PROVE Frame
    BY <1>20 DEF TypeOK, Local, Frame, ThreadFrame, ProcFrame, InRotation, DemoteBlocks, Goto
  <1>21. ASSUME NEW t \in Thread, DemoteResumes(t) PROVE Frame
    BY <1>21 DEF TypeOK, Frame, ThreadFrame, ProcFrame, InRotation, DemoteResumes, Goto
  <1>22. CASE UNCHANGED vars
    BY Zenon, <1>22 DEF Frame, ThreadFrame, ProcFrame, vars
  <1> QED
    BY <1>1, <1>2, <1>3, <1>4, <1>5, <1>6, <1>7, <1>8, <1>9, <1>10, <1>11,
       <1>12, <1>13, <1>14, <1>15, <1>16, <1>17, <1>18, <1>19, <1>20, <1>21, <1>22 DEF Next
----------------------------------------------------------------------------
(***************************************************************************)
(* What a step does to a row. Rows only move from unborn over active and   *)
(* retiring to deleted, and keep their kek once they are in the table.     *)
(***************************************************************************)
RowStep(k) ==
    \/ rows'[k] = rows[k]
    \/ /\ rows[k].state = "unborn"
       /\ rows'[k].state = "active"
       /\ \E t \in Thread : /\ rows'[k].kek = KekOf[Home[t]]
                            /\ up[Home[t]] \/ Active = {}
       /\ Active \cap Active' = {}
    \/ /\ rows[k].state = "active"
       /\ rows'[k].state = "retiring"
       /\ rows'[k].kek = rows[k].kek
       /\ rows'[k].demotedAt = now
       /\ \E t \in Thread : pc[t] = "insert" /\ rows'[k].retireAfter = loc[t].until
    \/ /\ rows[k].state = "retiring" /\ rows[k].retireAfter < now
       /\ rows'[k].state = "deleted"
       /\ rows'[k].kek = rows[k].kek
       /\ rows'[k].demotedAt = rows[k].demotedAt
       /\ rows'[k].retireAfter = rows[k].retireAfter

LEMMA RowSteps ==
    ASSUME TypeOK, ControlInv, TableInv, Frame, NEW k \in Kid
    PROVE  RowStep(k)
  <1>0. rows[k] \in Row
    BY DEF TypeOK
  <1>1. CASE rows' = rows
    BY <1>1 DEF RowStep
  <1>2. ASSUME NEW t \in Thread, NEW j \in Kid, Mint(t, j), Active = {} PROVE RowStep(k)
    <2>1. rows[j].state = "unborn" /\ rows' = [rows EXCEPT ![j] = NewRow(Home[t])]
      BY ZenonT(40), <1>2 DEF Mint, Unused
    <2>2. CASE j = k
      <3>1. rows'[k] = NewRow(Home[t])
        BY <2>1, <2>2 DEF TypeOK
      <3> QED
        BY <1>2, <2>1, <2>2, <3>1 DEF RowStep, NewRow
    <2>3. CASE j # k
      BY Zenon, <2>1, <2>3 DEF TypeOK, RowStep
    <2> QED
      BY <2>2, <2>3
  <1>3. ASSUME NEW t \in Thread, RotateCommit(t) PROVE RowStep(k)
    <2>1. /\ pc[t] = "insert" /\ up[Home[t]]
          /\ loc[t].fresh \in Kid /\ rows[loc[t].fresh].state = "unborn"
      BY Zenon, <1>3, ConstantsOK DEF ControlInv, InCall, TableInv, FreshKeys, RotateCommit
    <2>2. Active \cap Active' = {}
      BY Zenon, <1>3, <2>1, TableCommit DEF Active
    <2>3. CASE k = loc[t].fresh
      <3>1. rows'[k] = NewRow(Home[t])
        BY Zenon, <1>3, <2>3 DEF RotateCommit
      <3> QED
        BY <2>1, <2>2, <2>3, <3>1 DEF RowStep, NewRow
    <2>4. CASE rows[k].state = "active"
      <3>1. rows'[k] = [rows[k] EXCEPT !.state = "retiring", !.demotedAt = now,
                                       !.retireAfter = loc[t].until]
        BY Zenon, <1>3, <2>1, <2>4 DEF RotateCommit, Active
      <3> QED
        BY <1>0, <2>1, <2>4, <3>1 DEF RowStep, Row
    <2>5. CASE k # loc[t].fresh /\ rows[k].state # "active"
      BY Zenon, <1>3, <2>5 DEF RowStep, RotateCommit, Active
    <2> QED
      BY <2>3, <2>4, <2>5
  <1>4. ASSUME NEW t \in Thread, RetireExpired(t) PROVE RowStep(k)
    <2>1. CASE rows[k].state = "retiring" /\ rows[k].retireAfter < now
      <3>1. rows'[k] = [rows[k] EXCEPT !.state = "deleted"]
        BY <1>4, <2>1 DEF RetireExpired
      <3> QED
        BY <1>0, <2>1, <3>1 DEF RowStep, Row
    <2>2. CASE ~(rows[k].state = "retiring" /\ rows[k].retireAfter < now)
      BY <1>4, <2>2 DEF RetireExpired, RowStep
    <2> QED
      BY <2>1, <2>2
  <1> QED
    BY <1>1, <1>2, <1>3, <1>4 DEF Frame
----------------------------------------------------------------------------
(* Key encryption keys. *)

LEMMA KeepsOpening ==
    ASSUME TypeOK, ControlInv, TableInv, KekInv, Frame,
           NEW p \in Proc, OpensAll(p), Active # {}
    PROVE  OpensAll(p)'
  <1> SUFFICES ASSUME NEW k \in Kid, rows'[k].state \in {"active", "retiring"}
               PROVE  rows'[k].kek = KekOf[p]
    BY ZenonT(40) DEF OpensAll, CanOpen, Live
  <1>1. CASE rows[k].state \in {"active", "retiring"}
    <2>1. rows[k].kek = KekOf[p]
      BY Zenon, <1>1 DEF OpensAll, CanOpen, Live
    <2> QED
      BY <1>1, <2>1, RowSteps DEF RowStep
  <1>2. CASE rows[k].state \notin {"active", "retiring"}
    <2>1. PICK t \in Thread : rows'[k].kek = KekOf[Home[t]] /\ up[Home[t]]
      BY <1>2, RowSteps DEF RowStep
    <2>2. PICK j \in Kid : rows[j].state = "active"
      BY Zenon DEF Active
    <2>3. rows[j].kek = KekOf[p] /\ rows[j].kek = KekOf[Home[t]]
      BY <2>1, <2>2, ConstantsOK DEF KekInv, OpensAll, CanOpen, Live
    <2> QED
      BY Zenon, <2>1, <2>3
  <1> QED
    BY <1>1, <1>2

LEMMA KekStep ==
    ASSUME TypeOK, ControlInv, TableInv, KekInv, Frame
    PROVE  KekInv'
  <1>1. ASSUME NEW p \in Proc, up'[p] PROVE OpensAll(p)'
    <2>1. OpensAll(p) /\ Active # {}
      BY ZenonT(40), <1>1 DEF Frame, ProcFrame, KekInv, TableInv, Seeded, StoreBoot
    <2> QED
      BY <2>1, KeepsOpening
  <1>2. ASSUME NEW t \in Thread, pc'[t] = "store" PROVE OpensAll(Home[t])'
    <2>1. OpensAll(Home[t]) /\ Active # {}
      BY <1>2 DEF Frame, ThreadFrame, KekInv, TableInv, Seeded, OpensAll, ListLive
    <2> QED
      BY <2>1, KeepsOpening, ConstantsOK
  <1> QED
    BY <1>1, <1>2 DEF KekInv
----------------------------------------------------------------------------

(***************************************************************************)
(* A row that was demoted says when, late enough for the window; a deleted *)
(* row has outlived its window.                                            *)
(***************************************************************************)
RowTimes ==
    \A k \in Kid : rows[k].state \in {"retiring", "deleted"} =>
        /\ rows[k].demotedAt <= now
        /\ rows[k].retireAfter >=
              rows[k].demotedAt - RotateDelay - MaxSkew + RetireWindow
        /\ rows[k].state = "deleted" => rows[k].retireAfter < now

RotationTimes ==
    \A t \in Thread : pc[t] \in {"demote", "blocked", "insert"} =>
        /\ loc[t].began <= now /\ now <= loc[t].began + RotateDelay
        /\ loc[t].until >= loc[t].began - MaxSkew + RetireWindow

(***************************************************************************)
(* WasActiveAt(k, a): k is active, or was until some time not before a.    *)
(* A keyset read at asOf has the key that was active then, and misses a    *)
(* live key only once its own active key has been demoted.                 *)
(***************************************************************************)
WasActiveAt(k, a) ==
    \/ rows[k].state = "active"
    \/ rows[k].state \in {"retiring", "deleted"} /\ rows[k].demotedAt >= a

Good(ks) ==
    /\ ks.active \in Kid
    /\ ks.active \in ks.all
    /\ ks.asOf <= now
    /\ WasActiveAt(ks.active, ks.asOf)
    /\ ks.active \in Active => Live \subseteq ks.all

\* loadedAt, on the database's clock.
LoadedAt(p) == cache[p].loadedAt - Offset[p]

CacheInv ==
    /\ \A p \in Proc : up[p] => /\ Good(cache[p])
                                /\ LoadedAt(p) <= now
                                /\ cache[p].asOf >= LoadedAt(p) - RefreshDelay
    /\ \A t \in Thread : pc[t] \in {"store", "sign"} => Good(loc[t].ks)
    /\ \A t \in Thread : pc[t] = "store" /\ loc[t].call # "rotate" =>
          now <= loc[t].ks.asOf + RefreshDelay

(***************************************************************************)
(* A token was issued no earlier than IssuedAfter(exp). A thread that      *)
(* issues one holds a keyset at most Lag older than that, unless its       *)
(* refresh failed.                                                         *)
(***************************************************************************)
IssuedAfter(exp) == exp - MaxTTL - MaxSkew

TokenInv ==
    /\ \A t \in Thread : loc[t].call = "sign" => IssuedAfter(loc[t].exp) <= now
    /\ \A t \in Thread : pc[t] = "store" /\ loc[t].call = "sign" =>
          IssuedAfter(loc[t].exp) <= loc[t].ks.asOf
    /\ \A t \in Thread : pc[t] = "return" /\ ~loc[t].stale =>
          IssuedAfter(loc[t].exp) <= LoadedAt(Home[t])
    /\ \A t \in Thread : pc[t] = "sign" /\ ~loc[t].stale =>
          IssuedAfter(loc[t].exp) - Lag <= loc[t].ks.asOf
    /\ \A tok \in tokens : ~tok.stale =>
          /\ IssuedAfter(tok.exp) <= now
          /\ WasActiveAt(tok.kid, IssuedAfter(tok.exp) - Lag)

IInv ==
    /\ TypeOK
    /\ ControlInv
    /\ TableInv
    /\ KekInv
    /\ RowTimes
    /\ RotationTimes
    /\ CacheInv
    /\ TokenInv
----------------------------------------------------------------------------
(* Times. *)

LEMMA Time == ASSUME TypeOK, Frame PROVE now \in Nat /\ now' \in Nat /\ now <= now'
  BY DEF TypeOK, Frame, Tick

LEMMA RowTimesStep ==
    ASSUME TypeOK, TypeOK', ControlInv, TableInv, RowTimes, RotationTimes, Frame
    PROVE  RowTimes'
  <1> SUFFICES ASSUME NEW k \in Kid, rows'[k].state \in {"retiring", "deleted"}
               PROVE  /\ rows'[k].demotedAt <= now'
                      /\ rows'[k].retireAfter >=
                            rows'[k].demotedAt - RotateDelay - MaxSkew + RetireWindow
                      /\ rows'[k].state = "deleted" => rows'[k].retireAfter < now'
    BY DEF RowTimes
  <1>1. /\ rows[k].demotedAt \in Int /\ rows[k].retireAfter \in Int
        /\ rows'[k].demotedAt \in Int /\ rows'[k].retireAfter \in Int
    BY Zenon DEF TypeOK, Row
  <1>2. CASE rows[k].state \in {"retiring", "deleted"}
    BY <1>1, <1>2, Time, RowSteps DEF RowStep, RowTimes
  <1>3. CASE rows[k].state \notin {"retiring", "deleted"}
    <2>1. /\ rows'[k].state = "retiring" /\ rows'[k].demotedAt = now
          /\ \E t \in Thread : pc[t] = "insert" /\ rows'[k].retireAfter = loc[t].until
      BY <1>3, RowSteps DEF RowStep
    <2>2. PICK t \in Thread : pc[t] = "insert" /\ rows'[k].retireAfter = loc[t].until
      BY <2>1
    <2>3. loc[t].began \in Int /\ loc[t].until \in Int
      BY DEF TypeOK, Local
    <2>4. /\ loc[t].until >= loc[t].began - MaxSkew + RetireWindow
          /\ now <= loc[t].began + RotateDelay
      BY Zenon, <2>2 DEF RotationTimes
    <2> QED
      BY <2>1, <2>2, <2>3, <2>4, Time, ConstantsOK
  <1> QED
    BY <1>2, <1>3

LEMMA RotationTimesStep ==
    ASSUME TypeOK, TypeOK', RotationTimes, Frame
    PROVE  RotationTimes'
  <1> SUFFICES ASSUME NEW t \in Thread, pc'[t] \in InRotation
               PROVE  /\ loc'[t].began <= now' /\ now' <= loc'[t].began + RotateDelay
                      /\ loc'[t].until >= loc'[t].began - MaxSkew + RetireWindow
    BY DEF RotationTimes, InRotation
  <1>1. loc[t].began \in Int /\ loc[t].until \in Int
    BY DEF TypeOK, Local
  <1>2. ASSUME NEW k \in Kid, Rotate(t, k)
        PROVE  /\ loc'[t].began <= now' /\ now' <= loc'[t].began + RotateDelay
               /\ loc'[t].until >= loc'[t].began - MaxSkew + RetireWindow
    <2>1. loc'[t].began = now /\ loc'[t].until = now + Offset[Home[t]] + RetireWindow
      BY <1>2, ConstantsOK DEF TypeOK, Local, Rotate, Clock
    <2>2. Offset[Home[t]] \in Int /\ -MaxSkew <= Offset[Home[t]]
      BY ConstantsOK
    <2> QED
      BY <1>2, <2>1, <2>2, Time, ConstantsOK DEF Rotate
  <1>3. CASE /\ pc[t] \in InRotation
             /\ loc'[t].began = loc[t].began /\ loc'[t].until = loc[t].until
    <2>1. now' <= loc[t].began + RotateDelay
      <3>1. CASE now' = now
        BY Zenon, <1>3, <3>1 DEF RotationTimes, InRotation
      <3>2. CASE Tick
        BY <1>1, <1>3, <3>2, Time, ConstantsOK DEF InRotation, Tick
      <3> QED
        BY Zenon, <3>1, <3>2 DEF Frame
    <2> QED
      BY <1>1, <1>3, <2>1, Time DEF RotationTimes, InRotation
  <1> QED
    BY Zenon, <1>2, <1>3 DEF Frame, ThreadFrame
----------------------------------------------------------------------------
(* Keysets. *)

LEMMA WasActiveKept ==
    ASSUME TypeOK, ControlInv, TableInv, Frame,
           NEW k \in Kid, NEW a \in Int, a <= now, WasActiveAt(k, a)
    PROVE  /\ WasActiveAt(k, a)'
           /\ k \in Active' => k \in Active /\ Live' \subseteq Live
  <1>1. /\ rows[k].state # "unborn"
        /\ rows[k].state \in {"retiring", "deleted"} => rows[k].demotedAt >= a
    BY Zenon DEF WasActiveAt
  <1>2. WasActiveAt(k, a)'
    BY Zenon, <1>1, RowSteps DEF RowStep, WasActiveAt
  <1>3. ASSUME k \in Active' PROVE k \in Active
    BY <1>1, <1>3, RowSteps DEF RowStep, Active
  <1>4. ASSUME k \in Active', NEW j \in Live' PROVE j \in Live
    <2>1. ~(Active \cap Active' = {})
      BY <1>3, <1>4
    <2>2. j \in Kid /\ rows'[j].state \in {"active", "retiring"}
      BY Zenon, <1>4 DEF Live
    <2>3. rows[j].state \in {"active", "retiring"}
      BY Zenon, <2>1, <2>2, RowSteps DEF RowStep
    <2> QED
      BY <2>2, <2>3 DEF Live
  <1> QED
    BY <1>2, <1>3, <1>4

LEMMA GoodKept ==
    ASSUME TypeOK, ControlInv, TableInv, Frame, NEW ks \in Keyset, Good(ks)
    PROVE  Good(ks)'
  <1>1. ks.active \in Kid /\ ks.asOf \in Int /\ ks.asOf <= now
    BY DEF Good, Keyset
  <1>2. /\ WasActiveAt(ks.active, ks.asOf)'
        /\ ks.active \in Active' => ks.active \in Active /\ Live' \subseteq Live
    BY ZenonT(40), <1>1, WasActiveKept DEF Good
  <1> QED
    BY <1>1, <1>2, Time DEF Good

LEMMA CacheStep ==
    ASSUME TypeOK, TypeOK', ControlInv, TableInv, CacheInv, Frame
    PROVE  CacheInv'
  <1> USE ConstantsOK
  <1>0. \A t \in Thread : loc[t].ks \in Keyset
    BY Zenon DEF TypeOK, Local
  <1>1. ASSUME NEW p \in Proc, up'[p]
        PROVE  /\ Good(cache[p])'
               /\ LoadedAt(p)' <= now'
               /\ cache'[p].asOf >= LoadedAt(p)' - RefreshDelay
    <2>1. CASE up[p] /\ cache'[p] = cache[p]
      <3>1. cache[p] \in Keyset /\ Good(cache[p])
        BY Zenon, <2>1 DEF TypeOK, CacheInv
      <3>2. PICK ks \in Keyset : ks = cache[p] /\ ks = cache'[p]
        BY Zenon, <2>1, <3>1
      <3>3. Good(ks)'
        BY Zenon, <3>1, <3>2, GoodKept
      <3>4. cache[p].loadedAt \in Int /\ cache[p].asOf \in Int
        BY Zenon, <3>1 DEF Keyset
      <3> QED
        BY <2>1, <3>2, <3>3, <3>4, Time DEF CacheInv, LoadedAt
    <2>2. ASSUME NEW t \in Thread, Home[t] = p, StoreBoot(t) \/ StoreSign(t)
          PROVE  /\ Good(cache[p])'
                 /\ LoadedAt(p)' <= now'
                 /\ cache'[p].asOf >= LoadedAt(p)' - RefreshDelay
      <3>1. pc[t] = "store" /\ loc[t].call # "rotate" /\ now' = now /\ rows' = rows
        BY <2>2 DEF StoreBoot, StoreSign
      <3>2. /\ cache'[p].active = loc[t].ks.active
            /\ cache'[p].all = loc[t].ks.all
            /\ cache'[p].asOf = loc[t].ks.asOf
            /\ cache'[p].loadedAt = now + Offset[p]
        <4>1. cache' = [cache EXCEPT ![p] = [loc[t].ks EXCEPT !.loadedAt = Clock(p)]]
          BY <2>2 DEF StoreBoot, StoreSign, Store
        <4>2. cache'[p] = [loc[t].ks EXCEPT !.loadedAt = Clock(p)]
          BY Zenon, <4>1 DEF TypeOK
        <4> QED
          BY <1>0, <4>2 DEF Keyset, Clock
      <3>3. Good(loc[t].ks) /\ now <= loc[t].ks.asOf + RefreshDelay
        BY Zenon, <3>1 DEF CacheInv
      <3>4. Good(cache[p])'
        BY ZenonT(40), <3>1, <3>2, <3>3 DEF Good, WasActiveAt, Active, Live
      <3>5. loc[t].ks.asOf \in Int /\ Offset[p] \in Int /\ now \in Int
        BY <1>0 DEF Keyset, TypeOK
      <3> QED
        BY <3>1, <3>2, <3>3, <3>4, <3>5 DEF LoadedAt
    <2> QED
      BY ZenonT(40), <1>1, <2>1, <2>2 DEF Frame, ProcFrame
  <1>2. ASSUME NEW t \in Thread, pc'[t] \in {"store", "sign"}
        PROVE  Good(loc[t].ks)'
    <2>1. CASE pc[t] \in {"store", "sign"} /\ loc'[t] = loc[t]
      <3>1. PICK ks \in Keyset : ks = loc[t].ks /\ ks = loc'[t].ks
        BY Zenon, <1>0, <2>1
      <3>2. Good(ks)
        BY ZenonT(40), <2>1, <3>1 DEF CacheInv
      <3> QED
        BY Zenon, <3>1, <3>2, GoodKept
    <2>2. CASE ListLive(t)
      <3>1. loc'[t].ks = [active |-> GetActive, all |-> Live, loadedAt |-> 0, asOf |-> now]
        BY <2>2 DEF TypeOK, Local, ListLive
      <3>2. GetActive \in Active /\ Active \subseteq Live /\ Active \subseteq Kid
        BY <2>2 DEF GetActive, Active, Live, TableInv, Seeded, ListLive
      <3>3. rows' = rows /\ now' = now
        BY ZenonT(40), <2>2 DEF ListLive
      <3> QED
        BY <3>1, <3>2, <3>3, Time DEF Good, WasActiveAt, Active, Live
    <2>3. CASE KeysetHit(t) \/ KeysetReturn(t)
      <3>1. loc'[t].ks = cache[Home[t]] /\ rows' = rows /\ now' = now
        BY <2>3 DEF TypeOK, Local, KeysetHit, KeysetReturn
      <3>2. up[Home[t]] /\ Home[t] \in Proc
        BY Zenon, <2>3 DEF ControlInv, InCall, KeysetHit, KeysetReturn
      <3>3. Good(cache[Home[t]])
        BY <3>2 DEF CacheInv
      <3> QED
        BY <3>1, <3>3 DEF Good, WasActiveAt, Active, Live
    <2> QED
      BY ZenonT(40), <1>2, <2>1, <2>2, <2>3 DEF Frame, ThreadFrame
  <1>3. ASSUME NEW t \in Thread, pc'[t] = "store", loc'[t].call # "rotate"
        PROVE  now' <= loc'[t].ks.asOf + RefreshDelay
    <2>0. loc[t].ks.asOf \in Int
      BY <1>0 DEF Keyset
    <2>1. CASE ListLive(t)
      BY <2>1, Time DEF TypeOK, Local, ListLive
    <2>2. CASE pc[t] = "store" /\ loc'[t] = loc[t]
      <3>1. CASE now' = now
        BY Zenon, <1>3, <2>2, <3>1 DEF CacheInv
      <3>2. CASE Tick
        BY <1>3, <2>0, <2>2, <3>2, Time DEF Tick
      <3> QED
        BY Zenon, <3>1, <3>2 DEF Frame
    <2> QED
      BY Zenon, <1>3, <2>1, <2>2 DEF Frame, ThreadFrame
  <1> QED
    BY <1>1, <1>2, <1>3 DEF CacheInv
----------------------------------------------------------------------------
(* Tokens. *)

LEMMA TokenThreadStep ==
    ASSUME TypeOK, TypeOK', ControlInv, ControlInv', TableInv, CacheInv, TokenInv, Frame,
           NEW t \in Thread
    PROVE  /\ loc'[t].call = "sign" => IssuedAfter(loc'[t].exp) <= now'
           /\ pc'[t] = "store" /\ loc'[t].call = "sign" =>
                 IssuedAfter(loc'[t].exp) <= loc'[t].ks.asOf
           /\ pc'[t] = "return" /\ ~loc'[t].stale =>
                 IssuedAfter(loc'[t].exp) <= LoadedAt(Home[t])'
           /\ pc'[t] = "sign" /\ ~loc'[t].stale =>
                 IssuedAfter(loc'[t].exp) - Lag <= loc'[t].ks.asOf
  <1> USE ConstantsOK
  <1>0. /\ Home[t] \in Proc /\ Offset[Home[t]] \in Int /\ Offset[Home[t]] <= MaxSkew
        /\ loc[t].exp \in Int /\ loc'[t].exp \in Int
        /\ loc[t].ks \in Keyset /\ loc[t].ks.asOf \in Int
        /\ cache[Home[t]].loadedAt \in Int /\ cache[Home[t]].asOf \in Int
    BY ZenonT(40) DEF TypeOK, Local, Keyset
  <1>1. ASSUME loc'[t].call = "sign" PROVE IssuedAfter(loc'[t].exp) <= now'
    <2>1. CASE loc[t].call = "sign" /\ loc'[t].exp = loc[t].exp
      BY <1>0, <2>1, Time DEF TokenInv, IssuedAfter
    <2>2. ASSUME NEW ttl \in 1..MaxTTL, Issue(t, ttl)
          PROVE  IssuedAfter(loc'[t].exp) <= now'
      <3>1. loc'[t].exp = now + Offset[Home[t]] + ttl
        BY <2>2 DEF TypeOK, Local, Issue, Clock
      <3> QED
        BY <1>0, <3>1, Time DEF IssuedAfter
    <2> QED
      BY ZenonT(40), <1>1, <2>1, <2>2 DEF Frame, ThreadFrame
  <1>2. ASSUME pc'[t] = "store", loc'[t].call = "sign"
        PROVE  IssuedAfter(loc'[t].exp) <= loc'[t].ks.asOf
    <2>1. CASE pc[t] = "store" /\ loc'[t] = loc[t]
      BY ZenonT(40), <1>2, <2>1 DEF TokenInv
    <2>2. CASE ListLive(t)
      <3>1. loc'[t].ks.asOf = now /\ loc'[t].exp = loc[t].exp /\ loc'[t].call = loc[t].call
        BY SMTT(20), <2>2 DEF TypeOK, Local, ListLive
      <3> QED
        BY <1>2, <3>1 DEF TokenInv
    <2> QED
      BY Zenon, <1>2, <2>1, <2>2 DEF Frame, ThreadFrame
  <1>3. ASSUME pc'[t] = "return", ~loc'[t].stale
        PROVE  IssuedAfter(loc'[t].exp) <= LoadedAt(Home[t])'
    <2>1. up'[Home[t]]
      BY Zenon, <1>3 DEF ControlInv, InCall
    <2>2. /\ IssuedAfter(loc[t].exp) <= now /\ loc'[t].exp = loc[t].exp
          /\ (pc[t] = "return" /\ ~loc[t].stale) \/ StoreSign(t)
      <3>1. CASE pc[t] = "return" /\ loc'[t] = loc[t]
        BY Zenon, <1>3, <3>1 DEF TokenInv, ControlInv, InCall
      <3>2. CASE StoreSign(t)
        BY Zenon, <3>2 DEF TokenInv, StoreSign
      <3> QED
        BY Zenon, <1>3, <3>1, <3>2 DEF Frame, ThreadFrame
    <2>3. ASSUME NEW u \in Thread, Home[u] = Home[t], StoreBoot(u) \/ StoreSign(u)
          PROVE  LoadedAt(Home[t])' = now
      <3>1. cache' = [cache EXCEPT ![Home[t]] = [loc[u].ks EXCEPT !.loadedAt = Clock(Home[t])]]
        BY <2>3 DEF StoreBoot, StoreSign, Store
      <3>2. cache'[Home[t]].loadedAt = now + Offset[Home[t]]
        BY ZenonT(40), <1>0, <3>1 DEF TypeOK, Local, Keyset, Clock
      <3> QED
        BY <1>0, <3>2, Time DEF LoadedAt
    <2>4. CASE ~StoreSign(t) /\ cache'[Home[t]] = cache[Home[t]]
      BY <2>2, <2>4 DEF TokenInv, LoadedAt
    <2> QED
      BY Zenon, <1>0, <2>1, <2>2, <2>3, <2>4 DEF Frame, ProcFrame
  <1>4. ASSUME pc'[t] = "sign", ~loc'[t].stale
        PROVE  IssuedAfter(loc'[t].exp) - Lag <= loc'[t].ks.asOf
    <2>1. CASE pc[t] = "sign" /\ loc'[t] = loc[t]
      BY <1>4, <2>1 DEF TokenInv
    <2>2. CASE KeysetHit(t) \/ KeysetReturn(t)
      <3>1. /\ loc'[t].ks = cache[Home[t]] /\ loc'[t].exp = loc[t].exp
            /\ loc'[t].stale = loc[t].stale
        BY <2>2 DEF TypeOK, Local, KeysetHit, KeysetReturn
      <3>2. up[Home[t]] /\ IssuedAfter(loc[t].exp) <= now
        BY Zenon, <2>2 DEF ControlInv, InCall, TokenInv, KeysetHit, KeysetReturn
      <3>3. cache[Home[t]].asOf >= LoadedAt(Home[t]) - RefreshDelay
        BY Zenon, <1>0, <3>2 DEF CacheInv
      <3>4. LoadedAt(Home[t]) >= IssuedAfter(loc[t].exp) - CacheTTL
        <4>1. CASE KeysetHit(t)
          BY <1>0, <3>2, <4>1, Time DEF KeysetHit, Fresh, Clock, LoadedAt, IssuedAfter
        <4>2. CASE KeysetReturn(t)
          BY <1>0, <1>4, <3>1, <4>2 DEF KeysetReturn, TokenInv, LoadedAt, IssuedAfter
        <4> QED
          BY <2>2, <4>1, <4>2
      <3> QED
        BY <1>0, <3>1, <3>3, <3>4 DEF Lag, LoadedAt, IssuedAfter
    <2> QED
      BY ZenonT(40), <1>4, <2>1, <2>2 DEF Frame, ThreadFrame
  <1> QED
    BY Zenon, <1>1, <1>2, <1>3, <1>4

LEMMA TokenStep ==
    ASSUME TypeOK, TypeOK', ControlInv, ControlInv', TableInv, CacheInv, TokenInv, Frame
    PROVE  TokenInv'
  <1> USE ConstantsOK
  <1>1. ASSUME NEW tok \in tokens', ~tok.stale
        PROVE  IssuedAfter(tok.exp) <= now' /\ WasActiveAt(tok.kid, IssuedAfter(tok.exp) - Lag)'
    <2>0. tok.kid \in Kid /\ tok.exp \in Int
      BY DEF TypeOK, Token
    <2>1. IssuedAfter(tok.exp) <= now /\ WasActiveAt(tok.kid, IssuedAfter(tok.exp) - Lag)
      <3>1. CASE tok \in tokens
        BY ZenonT(40), <1>1, <3>1 DEF TokenInv
      <3>2. CASE tok \notin tokens
        <4>1. PICK t \in Thread : Sign(t)
          BY ZenonT(40), <3>2 DEF Frame
        <4>2. /\ tok.kid = loc[t].ks.active /\ tok.exp = loc[t].exp
              /\ tok.stale = loc[t].stale /\ pc[t] = "sign"
          BY <3>2, <4>1 DEF Sign
        <4>3. Good(loc[t].ks) /\ loc[t].call = "sign"
          BY Zenon, <4>2 DEF CacheInv, ControlInv, InCall
        <4>4. /\ IssuedAfter(loc[t].exp) <= now
              /\ IssuedAfter(loc[t].exp) - Lag <= loc[t].ks.asOf
          BY Zenon, <1>1, <4>2, <4>3 DEF TokenInv
        <4>5. /\ loc[t].ks.asOf \in Int /\ rows[tok.kid].demotedAt \in Int
              /\ IssuedAfter(tok.exp) - Lag \in Int
          BY <2>0 DEF TypeOK, Local, Keyset, Row, IssuedAfter, Lag
        <4> QED
          BY <4>2, <4>3, <4>4, <4>5 DEF Good, WasActiveAt
      <3> QED
        BY Zenon, <3>1, <3>2
    <2>2. /\ IssuedAfter(tok.exp) - Lag \in Int /\ IssuedAfter(tok.exp) - Lag <= now
          /\ IssuedAfter(tok.exp) <= now'
      BY <2>0, <2>1, Time DEF IssuedAfter, Lag
    <2> QED
      BY Zenon, <2>0, <2>1, <2>2, WasActiveKept
  <1> QED
    BY Zenon, <1>1, TokenThreadStep DEF TokenInv, LoadedAt
----------------------------------------------------------------------------
(* The inductive invariant, and what follows from it. *)

LEMMA InitIInv == Init => IInv
  <1> SUFFICES ASSUME Init PROVE IInv
    OBVIOUS
  <1>1. TypeOK
    BY Zenon, InitType
  <1>2. /\ \A t \in Thread : pc[t] = "idle" /\ loc[t].call = "none" /\ loc[t].fresh = NoKid
        /\ \A p \in Proc : up[p] = FALSE
        /\ \A k \in Kid : rows[k].state = "unborn"
        /\ lock \notin Thread /\ tokens = {}
    BY Zenon, ConstantsOK DEF Init, NoLocal, NoRow
  <1>3. ControlInv
    BY Zenon, <1>2 DEF ControlInv, InCall
  <1>4. TableInv
    BY Zenon, <1>2 DEF TableInv, OneActive, Seeded, FreshKeys, LockHeld, Active
  <1>5. KekInv /\ RowTimes /\ RotationTimes
    BY ZenonT(40), <1>2 DEF KekInv, RowTimes, RotationTimes
  <1>6. CacheInv /\ TokenInv
    BY <1>2 DEF CacheInv, TokenInv
  <1> QED
    BY <1>1, <1>3, <1>4, <1>5, <1>6 DEF IInv

(***************************************************************************)
(* The inductive invariant holds of every behaviour.                       *)
(***************************************************************************)
THEOREM Inductive == Spec => []IInv
  <1>1. IInv /\ [Next]_vars => IInv'
    <2> SUFFICES ASSUME IInv, [Next]_vars PROVE IInv'
      OBVIOUS
    <2>1. TypeOK' /\ ControlInv' /\ TableInv' /\ Frame
      BY TypeStep, ControlStep, TableStep, FrameStep DEF IInv
    <2>2. KekInv' /\ RowTimes' /\ RotationTimes'
      BY <2>1, KekStep, RowTimesStep, RotationTimesStep DEF IInv
    <2>3. CacheInv' /\ TokenInv'
      BY <2>1, CacheStep, TokenStep DEF IInv
    <2> QED
      BY <2>1, <2>2, <2>3 DEF IInv
  <1> QED
    BY <1>1, InitIInv, PTL DEF Spec

(***************************************************************************)
(* Type correctness of the tables, caches and threads.                     *)
(***************************************************************************)
THEOREM TypeCorrect == Spec => []TypeOK
  <1>1. IInv => TypeOK
    BY DEF IInv
  <1> QED
    BY <1>1, Inductive, PTL

(***************************************************************************)
(* EnsureActive and Rotate: with any number of processes under any KEKs, a *)
(* started process can open every live key.                                *)
(***************************************************************************)
THEOREM OneKekHolds == Spec => []OneKek
  <1>1. IInv => OneKek
    BY DEF IInv, KekInv, OpensAll, OneKek
  <1> QED
    BY <1>1, Inductive, PTL

(***************************************************************************)
(* Start-ups and rotations, racing and crashing, leave exactly one active  *)
(* row, and every started process caches a keyset with an active key.      *)
(***************************************************************************)
THEOREM AlwaysCanSignHolds == Spec => []AlwaysCanSign
  <1>1. IInv => AlwaysCanSign
    <2> SUFFICES ASSUME IInv PROVE AlwaysCanSign
      OBVIOUS
    <2>1. ASSUME \E k \in Kid : rows[k].state # "unborn"
          PROVE  \E k \in Active : Active = {k}
      BY ZenonT(40), <2>1 DEF IInv, TableInv, OneActive
    <2>2. \A p \in Proc : up[p] => cache[p].active \in cache[p].all
      BY DEF IInv, CacheInv, Good
    <2> QED
      BY <2>1, <2>2 DEF AlwaysCanSign
  <1> QED
    BY <1>1, Inductive, PTL

(***************************************************************************)
(* RetireWindow is long enough: RetireExpired never deletes the key of an  *)
(* unexpired token that was signed without a failed refresh.               *)
(***************************************************************************)
THEOREM RetainedHolds == Spec => []RetainedUntilExpiry
  <1>1. IInv => RetainedUntilExpiry
    <2> SUFFICES ASSUME IInv, NEW tok \in tokens, ~tok.stale, Unexpired(tok),
                        tok.kid \notin Live
                 PROVE  FALSE
      BY DEF RetainedUntilExpiry
    <2> DEFINE row == rows[tok.kid]
    <2>1. /\ tok.kid \in Kid /\ tok.exp \in Int /\ now \in Int
          /\ row.demotedAt \in Int /\ row.retireAfter \in Int
      BY DEF IInv, TypeOK, Token, Row
    <2>2. PICK p \in Proc : now + Offset[p] < tok.exp
      BY DEF Unexpired, Clock
    <2>3. Offset[p] \in Int /\ -MaxSkew <= Offset[p]
      BY SMTT(20), ConstantsOK
    <2>4. WasActiveAt(tok.kid, IssuedAfter(tok.exp) - Lag)
      BY Zenon DEF IInv, TokenInv
    <2>5. row.state = "deleted" /\ row.demotedAt >= IssuedAfter(tok.exp) - Lag
      BY ZenonT(40), <2>1, <2>4 DEF WasActiveAt, Live
    <2>6. /\ row.retireAfter >= row.demotedAt - RotateDelay - MaxSkew + RetireWindow
          /\ row.retireAfter < now
      BY <2>1, <2>5 DEF IInv, RowTimes
    <2> QED
      BY <2>1, <2>2, <2>3, <2>5, <2>6, ConstantsOK, WindowCoversTokens DEF IssuedAfter, Lag
  <1> QED
    BY <1>1, Inductive, PTL

(***************************************************************************)
(* A keyset that Keyset takes from the cache is at most Lag behind the     *)
(* table: its active key is the table's, or was until Lag ago.             *)
(***************************************************************************)
THEOREM CacheConvergesHolds == Spec => []CacheConverges
  <1>1. IInv => CacheConverges
    <2> SUFFICES ASSUME IInv, NEW p \in Server, up[p], Fresh(p)
                 PROVE  \/ cache[p].active \in Active /\ Live \subseteq cache[p].all
                        \/ rows[cache[p].active].demotedAt >= now - Lag
      BY DEF CacheConverges, JWKS
    <2>1. p \in Proc
      BY Zenon DEF Proc
    <2>2. /\ Good(cache[p])
          /\ cache[p].asOf >= LoadedAt(p) - RefreshDelay
      BY <2>1 DEF IInv, CacheInv
    <2>3. /\ cache[p].asOf \in Int /\ cache[p].loadedAt \in Int /\ now \in Int
          /\ Offset[p] \in Int
      BY <2>1, ConstantsOK DEF IInv, TypeOK, Keyset
    <2>4. cache[p].asOf >= now - Lag
      BY <2>2, <2>3, ConstantsOK DEF Fresh, Clock, LoadedAt, Lag
    <2>5. CASE cache[p].active \in Active
      BY ZenonT(40), <2>2, <2>5 DEF Good
    <2>6. CASE cache[p].active \notin Active
      <3>1. rows[cache[p].active].demotedAt >= cache[p].asOf
        BY ZenonT(40), <2>2, <2>6 DEF Good, WasActiveAt, Active
      <3>2. rows[cache[p].active].demotedAt \in Int
        BY Zenon, <2>2 DEF Good, IInv, TypeOK, Row
      <3> QED
        BY SMTT(20), <2>3, <2>4, <3>1, <3>2, ConstantsOK DEF Lag
    <2> QED
      BY <2>5, <2>6
  <1> QED
    BY <1>1, Inductive, PTL
============================================================================
