--------------------------- MODULE AuditLogProofs ---------------------------
(***************************************************************************)
(* The safety of AuditLog, for any replicas, requests, chains, channel     *)
(* capacity and batch size. The argument: the advisory lock makes the head *)
(* that an Append has read the head until its transaction ends (TxInv), so *)
(* that its rows continue the chain; an event that was accepted is in the  *)
(* channel, in a batch, stored or failed (AcceptInv), and a recorder that  *)
(* has stopped has nothing left (ControlInv). For the refinement, batch    *)
(* and channel are the end of what the process accepted (TrailInv).        *)
(***************************************************************************)
EXTENDS AuditLog, TLAPS

\* Verify, of a sequence of rows.
Verified(t) ==
    \A i \in 1..Len(t) :
        /\ t[i].seq = i
        /\ t[i].prev = IF i = 1 THEN genesis ELSE t[i - 1].hash
        /\ t[i].hash = canonicalHash(t[i].seq, t[i].ev, t[i].prev)

LastHash(t) == IF t = <<>> THEN genesis ELSE t[Len(t)].hash

\* The rows s continue t, up to sequence number n and hash h.
Continues(t, s, n, h) ==
    /\ n = Len(t) + Len(s)
    /\ \A i \in 1..Len(s) :
          /\ s[i].seq = Len(t) + i
          /\ s[i].prev = IF i = 1 THEN LastHash(t) ELSE s[i - 1].hash
          /\ s[i].hash = canonicalHash(s[i].seq, s[i].ev, s[i].prev)
    /\ h = IF s = <<>> THEN LastHash(t) ELSE s[Len(s)].hash

Hash == Seq(Nat \X Request)

\* A cancelled process whose requests are done has nothing in flight, and its
\* recorder, once stopped, nothing left.
Control(p) ==
    /\ draining[p] => phase[p] = "cancelled"
    /\ rpc[p] = "stopped" => phase[p] \in {"cancelled", "gone"}
    /\ rpc[p] = "select" => taken[p] = 0
    /\ taken[p] = 0 => batch[p] = NoBatch
    /\ phase[p] = "cancelled" /\ ~timedOut[p] =>
          /\ InFlight(p) = {}
          /\ rpc[p] = "stopped" => ch[p] = <<>> /\ batch[p] = NoBatch

ControlInv == \A p \in Proc : Control(p)

\* Under the lock, the rows of a transaction continue its chain.
Tx(p) ==
    /\ rpc[p] \in {"lock", "head", "insert"} => cur[p] \in Chain
    /\ rpc[p] \in {"head", "insert"} => lock[cur[p]] = p
    /\ rpc[p] # "insert" => rows[p] = <<>>
    /\ rpc[p] = "insert" =>
          /\ Continues(table[cur[p]], rows[p], seq[p], prev[p])
          /\ Len(rows[p]) <= Len(batch[p][cur[p]])
          /\ \A i \in 1..Len(rows[p]) : rows[p][i].ev = batch[p][cur[p]][i]

TxInv == \A p \in Proc : Tx(p)

\* No event is lost.
AcceptInv ==
    \A p \in Proc : Alive(p) =>
        \A r \in Range(accepted[p]) : r \in Stored \cup failed \cup Range(ch[p]) \cup Batched(p)

IInv == TypeOK /\ ChainVerifies /\ ControlInv /\ TxInv /\ AcceptInv
----------------------------------------------------------------------------
\* Sequences and their indices.
LEMMA RangeMembers ==
    ASSUME NEW S, NEW q \in Seq(S)
    PROVE  /\ Len(q) \in Nat /\ DOMAIN q = 1..Len(q) /\ Range(q) \subseteq S
           /\ \A i \in 1..Len(q) : q[i] \in Range(q)
           /\ \A x \in Range(q) : \E i \in 1..Len(q) : x = q[i]
  BY DEF Range

LEMMA EmptySeq ==
    ASSUME NEW S
    PROVE  <<>> \in Seq(S) /\ Len(<<>>) = 0 /\ DOMAIN <<>> = {} /\ Range(<<>>) = {}
  BY DEF Range

LEMMA NonemptySeq ==
    ASSUME NEW S, NEW q \in Seq(S), q # <<>>
    PROVE  Len(q) # 0 /\ Len(q) \in 1..Len(q) /\ q[Len(q)] \in S
  OBVIOUS

LEMMA AppendParts ==
    ASSUME NEW S, NEW q \in Seq(S), NEW e \in S
    PROVE  /\ Append(q, e) \in Seq(S) /\ Append(q, e) # <<>>
           /\ Len(Append(q, e)) = Len(q) + 1 /\ DOMAIN Append(q, e) = 1..(Len(q) + 1)
           /\ \A i \in 1..Len(q) : Append(q, e)[i] = q[i]
           /\ Append(q, e)[Len(q) + 1] = e
  OBVIOUS

LEMMA RangeAppend ==
    ASSUME NEW S, NEW q \in Seq(S), NEW e \in S
    PROVE  Range(Append(q, e)) = Range(q) \cup {e}
  <1>1. /\ DOMAIN q = 1..Len(q) /\ DOMAIN Append(q, e) = 1..(Len(q) + 1) /\ Len(q) \in Nat
        /\ \A i \in 1..Len(q) : Append(q, e)[i] = q[i]
        /\ Append(q, e)[Len(q) + 1] = e
    OBVIOUS
  <1>2. /\ Len(q) + 1 \in 1..(Len(q) + 1)
        /\ \A i \in 1..Len(q) : i \in 1..(Len(q) + 1)
        /\ \A i \in 1..(Len(q) + 1) : i \in 1..Len(q) \/ i = Len(q) + 1
    BY <1>1
  <1> DEFINE u == Append(q, e)
             n == Len(q)
  <1>3. /\ DOMAIN q = 1..n /\ DOMAIN u = 1..(n + 1) /\ u[n + 1] = e
        /\ \A i \in 1..n : u[i] = q[i]
    BY <1>1
  <1> HIDE DEF u, n
  <1>4. ASSUME NEW x \in Range(u) PROVE x \in Range(q) \cup {e}
    <2>1. PICK i \in 1..(n + 1) : x = u[i]
      BY <1>3 DEF Range
    <2> QED
      BY <1>2, <1>3, <2>1 DEF Range, n
  <1>5. ASSUME NEW x \in Range(q) PROVE x \in Range(u)
    <2>1. PICK i \in 1..n : x = q[i]
      BY <1>3 DEF Range
    <2> QED
      BY Zenon, <1>2, <1>3, <2>1 DEF Range, n
  <1>6. e \in Range(u)
    BY <1>2, <1>3 DEF Range, n
  <1> QED
    BY <1>4, <1>5, <1>6 DEF u

\* The same, of a sequence of requests.
LEMMA Requests ==
    ASSUME NEW q \in Seq(Request)
    PROVE  /\ Len(q) \in Nat /\ DOMAIN q = 1..Len(q) /\ Range(q) \subseteq Request
           /\ \A i \in 1..Len(q) : q[i] \in Request /\ q[i] \in Range(q)
  BY RangeMembers

LEMMA AppendRequest ==
    ASSUME NEW q \in Seq(Request), NEW e \in Request
    PROVE  /\ Append(q, e) \in Seq(Request) /\ Range(Append(q, e)) = Range(q) \cup {e}
           /\ Len(Append(q, e)) = Len(q) + 1 /\ DOMAIN Append(q, e) = 1..(Len(q) + 1)
           /\ \A i \in 1..Len(q) : Append(q, e)[i] = q[i]
           /\ Append(q, e)[Len(q) + 1] = e
  <1>1. Range(Append(q, e)) = Range(q) \cup {e}
    BY RangeAppend
  <1> QED
    BY <1>1, AppendParts

LEMMA AppendRow ==
    ASSUME NEW q \in Seq(Row), NEW x \in Row
    PROVE  /\ Append(q, x) \in Seq(Row) /\ Len(Append(q, x)) = Len(q) + 1
           /\ \A i \in 1..Len(q) : Append(q, x)[i] = q[i]
           /\ Append(q, x)[Len(q) + 1] = x
  BY AppendParts

LEMMA FirstPart ==
    ASSUME NEW S, NEW q \in Seq(S), NEW s \in Seq(S), NEW i \in 1..Len(q)
    PROVE  (q \o s)[i] = q[i]
  OBVIOUS

LEMMA SecondPart ==
    ASSUME NEW S, NEW q \in Seq(S), NEW s \in Seq(S), NEW i \in 1..Len(s)
    PROVE  (q \o s)[Len(q) + i] = s[i]
  OBVIOUS

LEMMA ConcatDomain ==
    ASSUME NEW S, NEW q \in Seq(S), NEW s \in Seq(S)
    PROVE  q \o s \in Seq(S) /\ DOMAIN (q \o s) = 1..(Len(q) + Len(s))
  OBVIOUS

LEMMA ConcatRows ==
    ASSUME NEW q \in Seq(Row), NEW s \in Seq(Row)
    PROVE  /\ Len(q) \in Nat /\ Len(s) \in Nat
           /\ DOMAIN q = 1..Len(q) /\ DOMAIN (q \o s) = 1..(Len(q) + Len(s))
           /\ \A i \in 1..Len(q) : (q \o s)[i] = q[i]
           /\ \A i \in 1..Len(s) : (q \o s)[Len(q) + i] = s[i]
  BY FirstPart, SecondPart, ConcatDomain

LEMMA NextIndex ==
    ASSUME NEW n \in Nat
    PROVE  /\ n + 1 \in Nat /\ n + 1 \in 1..(n + 1)
           /\ \A i \in 1..n : i \in 1..(n + 1)
           /\ \A i \in 1..(n + 1) : i \in 1..n \/ i = n + 1
           /\ \A m \in Nat : n < m => n + 1 \in 1..m /\ n + 1 <= m
  OBVIOUS

\* The part lo..hi of a sequence of length n, and what comes after it.
LEMMA Window ==
    ASSUME NEW n \in Nat, NEW hi \in 0..n, NEW lo \in 1..(hi + 1)
    PROVE  /\ \A i \in lo..n : i \in 1..n
           /\ \A i \in (hi + 1)..n : i \in lo..n /\ i \in 1..n
           /\ \A i \in lo..hi : i \in 1..n /\ ~(i \in (hi + 1)..n)
           /\ \A i \in (hi + 1)..(n + 1) : i \in 1..(n + 1) /\ (i \in 1..n => i \in (hi + 1)..n)
           /\ \A i \in lo..(n + 1) : i \in 1..(n + 1) /\ (i \in 1..n => i \in lo..n)
  OBVIOUS

\* The part has k events, of which l are in a batch.
LEMMA Taken ==
    ASSUME NEW n \in Nat, NEW hi \in 0..n, NEW lo \in 1..(hi + 1), NEW k \in Nat, lo + k = hi + 1,
           NEW l \in Nat, l # 0, l <= k
    PROVE  lo \in 1..n /\ hi \in 1..n /\ l \in 1..(hi - lo + 1)
  OBVIOUS

\* Of n events m are queued, and k were taken before those.
LEMMA Unqueued ==
    ASSUME NEW n \in Nat, NEW m \in Nat, NEW k \in Nat, m + k <= n
    PROVE  /\ n - m \in 0..n /\ (n - m + 1) - k \in 1..(n - m + 1)
           /\ (n - m) + m = n /\ ((n - m + 1) - k) + k = n - m + 1
  OBVIOUS

\* What is queued is the rest.
LEMMA Shifted ==
    ASSUME NEW n \in Nat, NEW m \in Nat, NEW hi \in 0..n, hi + m = n
    PROVE  (\A i \in 1..m : hi + i \in 1..n) /\ hi + (m + 1) = n + 1 /\ (n + 1) - (m + 1) = n - m
  OBVIOUS

LEMMA OneTaken ==
    ASSUME NEW n \in Nat, NEW m \in Nat, NEW k \in Nat
    PROVE  /\ n - (m - 1) = (n - m) + 1
           /\ ((n - (m - 1)) + 1) - (k + 1) = ((n - m) + 1) - k
           /\ m <= k => m <= k + 1 /\ m + 1 <= k + 1
  OBVIOUS

LEMMA HashType ==
    ASSUME NEW n \in Nat, NEW e \in Request, NEW h \in Hash
    PROVE  canonicalHash(n, e, h) \in Hash
  BY DEF canonicalHash, Hash

\* The row with the greatest number is the last.
LEMMA HeadIsLast ==
    ASSUME NEW t \in Seq(Row), Verified(t), t # <<>>,
           NEW r \in Range(t), \A s \in Range(t) : s.seq <= r.seq
    PROVE  r = t[Len(t)]
  <1>1. PICK i \in 1..Len(t) : r = t[i]
    BY DEF Range
  <1>2. Len(t) \in 1..Len(t) /\ t[Len(t)] \in Range(t)
    BY DEF Range
  <1>3. t[i].seq = i /\ t[Len(t)].seq = Len(t)
    BY <1>2 DEF Verified
  <1>4. Len(t) <= i
    BY <1>1, <1>2, <1>3
  <1> QED
    BY <1>1, <1>4

LEMMA LastIsHead ==
    ASSUME NEW t \in Seq(Row), Verified(t), t # <<>>
    PROVE  t[Len(t)] \in Range(t) /\ \A s \in Range(t) : s.seq <= t[Len(t)].seq
  <1>1. Len(t) \in 1..Len(t)
    OBVIOUS
  <1>2. \A i \in 1..Len(t) : t[i].seq <= t[Len(t)].seq
    BY <1>1 DEF Verified
  <1> QED
    BY <1>1, <1>2 DEF Range

LEMMA OneMore ==
    ASSUME NEW t \in Seq(Row), NEW s \in Seq(Row), NEW n \in Nat, NEW h \in Hash,
           Continues(t, s, n, h), NEW row \in Row,
           row.seq = n + 1, row.prev = h, row.hash = canonicalHash(row.seq, row.ev, row.prev)
    PROVE  Continues(t, Append(s, row), n + 1, row.hash)
  <1> DEFINE u == Append(s, row)
  <1>1. /\ u \in Seq(Row) /\ Len(u) = Len(s) + 1 /\ u # <<>> /\ u[Len(u)] = row
        /\ \A i \in 1..Len(s) : u[i] = s[i]
    OBVIOUS
  <1> HIDE DEF u
  <1>2. Len(s) \in Nat /\ Len(t) \in Nat
    OBVIOUS
  <1>3. ASSUME NEW i \in 1..Len(u)
        PROVE  /\ u[i].seq = Len(t) + i
               /\ u[i].prev = IF i = 1 THEN LastHash(t) ELSE u[i - 1].hash
               /\ u[i].hash = canonicalHash(u[i].seq, u[i].ev, u[i].prev)
    <2>1. CASE i \in 1..Len(s)
      <3>1. u[i] = s[i] /\ (i # 1 => u[i - 1] = s[i - 1])
        <4>1. i # 1 => i - 1 \in 1..Len(s)
          BY <1>2, <2>1
        <4> QED
          BY Zenon, <1>1, <2>1, <4>1
      <3>2. /\ s[i].seq = Len(t) + i
            /\ s[i].prev = IF i = 1 THEN LastHash(t) ELSE s[i - 1].hash
            /\ s[i].hash = canonicalHash(s[i].seq, s[i].ev, s[i].prev)
        BY <2>1 DEF Continues
      <3> QED
        BY <3>1, <3>2
    <2>2. CASE i = Len(s) + 1
      <3>1. u[i] = row /\ row.seq = Len(t) + i
        BY <1>1, <1>2, <2>2 DEF Continues
      <3>2. h = IF i = 1 THEN LastHash(t) ELSE u[i - 1].hash
        <4>1. CASE s = <<>>
          BY <1>2, <2>2, <4>1 DEF Continues
        <4>2. CASE s # <<>>
          <5>1. Len(s) \in 1..Len(s) /\ i - 1 = Len(s) /\ i # 1
            BY <1>2, <2>2, <4>2
          <5>2. u[i - 1] = s[Len(s)]
            BY <1>1, <5>1
          <5>3. h = s[Len(s)].hash
            BY <4>2 DEF Continues
          <5> QED
            BY <5>1, <5>2, <5>3
        <4> QED
          BY <4>1, <4>2
      <3> QED
        BY <3>1, <3>2
    <2> QED
      BY <1>1, <1>2, <2>1, <2>2
  <1>4. n + 1 = Len(t) + Len(u)
    BY <1>1, <1>2 DEF Continues
  <1> QED
    BY Zenon, <1>1, <1>3, <1>4 DEF Continues, u

LEMMA Concatenated ==
    ASSUME NEW t \in Seq(Row), NEW s \in Seq(Row), NEW n, NEW h, Verified(t), Continues(t, s, n, h)
    PROVE  Verified(t \o s)
  <1> DEFINE u == t \o s
  <1>1. /\ u \in Seq(Row) /\ Len(u) = Len(t) + Len(s) /\ Len(t) \in Nat /\ Len(s) \in Nat
        /\ \A i \in 1..Len(t) : u[i] = t[i]
        /\ \A i \in 1..Len(s) : u[Len(t) + i] = s[i]
    OBVIOUS
  <1> HIDE DEF u
  <1>2. ASSUME NEW i \in 1..Len(u)
        PROVE  /\ u[i].seq = i
               /\ u[i].prev = IF i = 1 THEN genesis ELSE u[i - 1].hash
               /\ u[i].hash = canonicalHash(u[i].seq, u[i].ev, u[i].prev)
    <2>1. CASE i \in 1..Len(t)
      <3>1. u[i] = t[i] /\ (i # 1 => u[i - 1] = t[i - 1])
        <4>1. Len(t) \in Nat
          OBVIOUS
        <4>2. i # 1 => i - 1 \in 1..Len(t)
          BY <2>1, <4>1
        <4> QED
          BY Zenon, <1>1, <2>1, <4>2
      <3>2. /\ t[i].seq = i
            /\ t[i].prev = IF i = 1 THEN genesis ELSE t[i - 1].hash
            /\ t[i].hash = canonicalHash(t[i].seq, t[i].ev, t[i].prev)
        BY <2>1 DEF Verified
      <3> QED
        BY <3>1, <3>2
    <2>2. CASE i \notin 1..Len(t)
      <3> DEFINE j == i - Len(t)
      <3>1. j \in 1..Len(s) /\ i = Len(t) + j
        <4>1. i \in Nat /\ i > Len(t) /\ i <= Len(t) + Len(s)
          BY <1>1, <2>2
        <4> QED
          BY <1>1, <4>1
      <3> HIDE DEF j
      <3>2. u[i] = s[j]
        BY <1>1, <3>1
      <3>3. s[j].seq = i /\ s[j].hash = canonicalHash(s[j].seq, s[j].ev, s[j].prev)
        BY <3>1 DEF Continues
      <3>4. s[j].prev = IF i = 1 THEN genesis ELSE u[i - 1].hash
        <4>1. CASE j = 1
          <5>1. s[j].prev = LastHash(t)
            BY <3>1, <4>1 DEF Continues
          <5>2. CASE t = <<>>
            BY <3>1, <4>1, <5>1, <5>2 DEF LastHash
          <5>3. CASE t # <<>>
            <6>1. Len(t) \in 1..Len(t) /\ i - 1 = Len(t) /\ i # 1
              BY <1>1, <3>1, <4>1, <5>3
            <6> QED
              BY Zenon, <1>1, <5>1, <5>3, <6>1 DEF LastHash
          <5> QED
            BY <5>2, <5>3
        <4>2. CASE j # 1
          <5>1. j - 1 \in 1..Len(s) /\ i - 1 = Len(t) + (j - 1) /\ i # 1
            BY <1>1, <3>1, <4>2
          <5>2. u[i - 1] = s[j - 1]
            BY Zenon, <1>1, <5>1
          <5>3. s[j].prev = s[j - 1].hash
            BY <3>1, <4>2 DEF Continues
          <5> QED
            BY <5>1, <5>2, <5>3
        <4> QED
          BY <4>1, <4>2
      <3> QED
        BY <3>2, <3>3, <3>4
    <2> QED
      BY <2>1, <2>2
  <1> QED
    BY Zenon, <1>2 DEF Verified, u

LEMMA InitHolds == Init => IInv
  <1> SUFFICES ASSUME Init PROVE IInv
    OBVIOUS
  <1>1. /\ NoBatch \in [Chain -> Seq(Request)] /\ genesis \in Seq(Nat \X Request)
        /\ <<>> \in Seq(Request) /\ <<>> \in Seq(Row) /\ Len(<<>>) = 0
    BY DEF NoBatch, genesis
  <1>2. TypeOK
    BY <1>1, ConstantsOK DEF Init, TypeOK, RPC
  <1>3. ChainVerifies
    BY <1>1 DEF Init, ChainVerifies, Verify, ScanAuditChain
  <1>4. ControlInv
    BY DEF Init, ControlInv, Control
  <1>5. TxInv
    BY DEF Init, TxInv, Tx
  <1>6. AcceptInv
    <2>1. Range(<<>>) = {}
      BY Zenon, EmptySeq
    <2> QED
      BY <2>1 DEF Init, AcceptInv
  <1> QED
    BY <1>2, <1>3, <1>4, <1>5, <1>6 DEF IInv

LEMMA ChainsVerified == ASSUME TypeOK PROVE ChainVerifies <=> \A c \in Chain : Verified(table[c])
  <1>1. \A c \in Chain : table[c] \in Seq(Row) /\ DOMAIN table[c] = 1..Len(table[c])
    BY DEF TypeOK
  <1> QED
    BY <1>1 DEF ChainVerifies, Verify, ScanAuditChain, Verified

\* A step that leaves the database and the transactions alone.
LEMMA TxUntouched ==
    ASSUME IInv, UNCHANGED <<transaction, database>>,
           \A p \in Proc : \/ rpc'[p] = rpc[p] /\ batch'[p] = batch[p]
                           \/ {rpc[p], rpc'[p]} \cap {"lock", "head", "insert"} = {}
    PROVE  ChainVerifies' /\ TxInv' /\ Stored' = Stored
  <1>1. UNCHANGED <<cur, seq, prev, rows, lock, table>>
    BY DEF transaction, database
  <1>2. ChainVerifies' /\ Stored' = Stored
    BY <1>1 DEF IInv, ChainVerifies, Verify, ScanAuditChain, Stored
  <1>3. ASSUME NEW p \in Proc
        PROVE  /\ rpc'[p] \in {"lock", "head", "insert"} => cur[p] \in Chain
               /\ rpc'[p] \in {"head", "insert"} => lock[cur[p]] = p
               /\ rpc'[p] # "insert" => rows[p] = <<>>
               /\ rpc'[p] = "insert" =>
                     /\ Continues(table[cur[p]], rows[p], seq[p], prev[p])
                     /\ Len(rows[p]) <= Len(batch'[p][cur[p]])
                     /\ \A i \in 1..Len(rows[p]) : rows[p][i].ev = batch'[p][cur[p]][i]
    <2>1. CASE rpc'[p] = rpc[p] /\ batch'[p] = batch[p]
      BY <2>1 DEF IInv, TxInv, Tx
    <2>2. CASE {rpc[p], rpc'[p]} \cap {"lock", "head", "insert"} = {}
      BY Zenon, <2>2 DEF IInv, TxInv, Tx
    <2> QED
      BY <2>1, <2>2
  <1>4. TxInv'
    BY <1>1, <1>3 DEF TxInv, Tx
  <1> QED
    BY <1>2, <1>4

LEMMA RangeConcat ==
    ASSUME NEW S, NEW q \in Seq(S), NEW s \in Seq(S)
    PROVE  Range(q) \subseteq Range(q \o s) /\ Range(s) \subseteq Range(q \o s)
  <1> DEFINE u == q \o s
  <1>1. /\ Len(q) \in Nat /\ Len(s) \in Nat
        /\ DOMAIN q = 1..Len(q) /\ DOMAIN s = 1..Len(s) /\ DOMAIN u = 1..(Len(q) + Len(s))
    OBVIOUS
  <1>2. \A i \in 1..Len(q) : u[i] = q[i]
    OBVIOUS
  <1>3. \A i \in 1..Len(s) : u[Len(q) + i] = s[i]
    OBVIOUS
  <1> HIDE DEF u
  <1>4. \A i \in 1..Len(q) : i \in 1..(Len(q) + Len(s))
    BY <1>1
  <1>5. \A i \in 1..Len(s) : Len(q) + i \in 1..(Len(q) + Len(s))
    BY <1>1
  <1>6. Range(q) \subseteq Range(u)
    BY <1>1, <1>2, <1>4 DEF Range
  <1>7. Range(s) \subseteq Range(u)
    BY Zenon, <1>1, <1>3, <1>5 DEF Range
  <1> QED
    BY <1>6, <1>7 DEF u

LEMMA TailParts ==
    ASSUME NEW S, NEW q \in Seq(S), q # <<>>
    PROVE  /\ Len(q) \in Nat \ {0} /\ Head(q) \in S /\ Head(q) = q[1] /\ Len(Tail(q)) = Len(q) - 1
           /\ \A i \in 1..(Len(q) - 1) : Tail(q)[i] = q[i + 1]
  <1>1. Len(q) \in Nat \ {0} /\ Head(q) \in S /\ Head(q) = q[1] /\ Len(Tail(q)) = Len(q) - 1
    OBVIOUS
  <1>2. \A i \in 1..(Len(q) - 1) : Tail(q)[i] = q[i + 1]
    OBVIOUS
  <1> QED
    BY <1>1, <1>2

LEMMA RangeTail ==
    ASSUME NEW S, NEW q \in Seq(S), q # <<>>
    PROVE  Range(q) = {Head(q)} \cup Range(Tail(q)) /\ Head(q) \in S /\ Tail(q) \in Seq(S)
  <1>1. /\ DOMAIN q = 1..Len(q) /\ Len(q) \in Nat \ {0} /\ Tail(q) \in Seq(S) /\ Head(q) = q[1]
        /\ DOMAIN Tail(q) = 1..(Len(q) - 1) /\ Head(q) \in S
        /\ \A i \in 1..(Len(q) - 1) : Tail(q)[i] = q[i + 1]
    OBVIOUS
  <1>2. \A i \in 1..Len(q) : i = 1 \/ i - 1 \in 1..(Len(q) - 1)
    BY <1>1
  <1>3. 1 \in 1..Len(q) /\ \A i \in 1..(Len(q) - 1) : i + 1 \in 1..Len(q)
    BY <1>1
  <1>4. \A x \in Range(q) : x = Head(q) \/ x \in Range(Tail(q))
    <2> SUFFICES ASSUME NEW i \in 1..Len(q), i # 1 PROVE q[i] \in Range(Tail(q))
      BY <1>1 DEF Range
    <2>1. i - 1 \in 1..(Len(q) - 1) /\ (i - 1) + 1 = i
      BY <1>1, <1>2
    <2>2. q[i] = Tail(q)[i - 1]
      BY <1>1, <2>1
    <2> QED
      BY Zenon, <1>1, <2>1, <2>2 DEF Range
  <1>5. Head(q) \in Range(q) /\ Range(Tail(q)) \subseteq Range(q)
    BY <1>1, <1>3 DEF Range
  <1> QED
    BY <1>1, <1>4, <1>5
----------------------------------------------------------------------------
(* Requests and shutdown.                                                  *)

LEMMA BeginStep ==
    ASSUME IInv, NEW r \in Request, Begin(r)
    PROVE  IInv'
  <1>1. /\ UNCHANGED <<phase, timedOut, ch, dropped, rpc, draining, taken, batch, transaction,
                       database, accepted, failed>>
        /\ phase[Home[r]] = "serving" /\ req' = [req EXCEPT ![r] = "running"]
    BY Zenon DEF Begin, recorder
  <1>2. TypeOK'
    BY Zenon, <1>1 DEF IInv, TypeOK, transaction, database
  <1>3. ChainVerifies' /\ TxInv' /\ Stored' = Stored
    BY Zenon, <1>1, TxUntouched
  <1>4. ControlInv'
    <2>1. \A p \in Proc : phase[p] # "serving" => InFlight(p)' = InFlight(p)
      BY Zenon, <1>1 DEF IInv, TypeOK, InFlight
    <2> QED
      BY <1>1, <2>1 DEF IInv, ControlInv, Control
  <1>5. AcceptInv'
    BY <1>1, <1>3 DEF IInv, AcceptInv, Alive, Batched
  <1> QED
    BY <1>2, <1>3, <1>4, <1>5 DEF IInv

LEMMA RecordStep ==
    ASSUME IInv, NEW r \in Request, Record(r)
    PROVE  IInv'
  <1> DEFINE p == Home[r]
  <1>0. p \in Proc
    BY ZenonT(40), ConstantsOK
  <1>1. /\ UNCHANGED <<phase, timedOut, rpc, draining, taken, batch, transaction, database, failed>>
        /\ req[r] = "running" /\ req' = [req EXCEPT ![r] = "recorded"]
        /\ \/ /\ Len(ch[p]) < Buffer /\ UNCHANGED dropped
              /\ ch' = [ch EXCEPT ![p] = Append(ch[p], r)]
              /\ accepted' = [accepted EXCEPT ![p] = Append(accepted[p], r)]
           \/ dropped' = [dropped EXCEPT ![p] = dropped[p] + 1] /\ UNCHANGED <<ch, accepted>>
    BY DEF Record, recorder
  <1> HIDE DEF p
  <1>2. ch[p] \in Seq(Request) /\ accepted[p] \in Seq(Request) /\ dropped[p] \in Nat /\ Len(ch[p]) \in Nat
    BY <1>0 DEF IInv, TypeOK
  <1>3. TypeOK'
    <2>1. /\ ch' \in [Proc -> Seq(Request)] /\ accepted' \in [Proc -> Seq(Request)]
          /\ dropped' \in [Proc -> Nat] /\ \A q \in Proc : Len(ch'[q]) <= Buffer
      <3>1. CASE UNCHANGED <<ch, accepted>>
        <4>1. dropped' = dropped \/ dropped' = [dropped EXCEPT ![p] = dropped[p] + 1]
          BY <1>1
        <4>2. dropped \in [Proc -> Nat] /\ dropped[p] + 1 \in Nat
          BY Zenon, <1>2, NextIndex DEF IInv, TypeOK
        <4>3. dropped' \in [Proc -> Nat]
          BY <4>1, <4>2
        <4> QED
          BY Zenon, <3>1, <4>3 DEF IInv, TypeOK
      <3>2. CASE ~UNCHANGED <<ch, accepted>>
        <4>1. /\ ch' = [ch EXCEPT ![p] = Append(ch[p], r)] /\ dropped' = dropped
              /\ accepted' = [accepted EXCEPT ![p] = Append(accepted[p], r)]
              /\ Len(ch[p]) < Buffer /\ Buffer \in Nat
          BY <1>1, <3>2, ConstantsOK
        <4>2. /\ Append(ch[p], r) \in Seq(Request) /\ Append(accepted[p], r) \in Seq(Request)
              /\ Len(Append(ch[p], r)) <= Buffer
          BY <1>2, <4>1
        <4>3. /\ ch \in [Proc -> Seq(Request)] /\ accepted \in [Proc -> Seq(Request)]
              /\ dropped \in [Proc -> Nat] /\ \A q \in Proc : Len(ch[q]) <= Buffer
          BY Zenon DEF IInv, TypeOK
        <4> HIDE DEF IInv
        <4> QED
          BY Zenon, <4>1, <4>2, <4>3
      <3> QED
        BY <3>1, <3>2
    <2>2. req' \in [Request -> {"new", "running", "recorded", "done"}]
      BY <1>1 DEF IInv, TypeOK
    <2> QED
      BY Zenon, <1>1, <2>1, <2>2 DEF IInv, TypeOK, transaction, database
  <1>4. ChainVerifies' /\ TxInv' /\ Stored' = Stored
    BY Zenon, <1>1, TxUntouched
  <1>5. ControlInv'
    <2>1. \A q \in Proc : InFlight(q)' = InFlight(q)
      BY Zenon, <1>1 DEF IInv, TypeOK, InFlight
    <2>2. r \in InFlight(p)
      BY Zenon, <1>1 DEF InFlight, p
    <2>3. \A q \in Proc : q # p => ch'[q] = ch[q]
      BY Zenon, <1>1 DEF IInv, TypeOK
    <2> QED
      BY <1>1, <2>1, <2>2, <2>3 DEF IInv, ControlInv, Control
  <1>6. AcceptInv'
    <2>1. \A q \in Proc : Batched(q)' = Batched(q)
      BY Zenon, <1>1 DEF Batched
    <2>2. CASE UNCHANGED <<ch, accepted>>
      BY Zenon, <1>1, <1>4, <2>1, <2>2 DEF IInv, AcceptInv, Alive
    <2>3. CASE ~UNCHANGED <<ch, accepted>>
      <3>1. /\ ch'[p] = Append(ch[p], r) /\ accepted'[p] = Append(accepted[p], r)
            /\ \A q \in Proc : q # p => ch'[q] = ch[q] /\ accepted'[q] = accepted[q]
        BY ZenonT(40), <1>0, <1>1, <2>3 DEF IInv, TypeOK
      <3>2. Range(ch'[p]) = Range(ch[p]) \cup {r} /\ Range(accepted'[p]) = Range(accepted[p]) \cup {r}
        <4>1. Range(Append(ch[p], r)) = Range(ch[p]) \cup {r}
          BY Zenon, <1>2, AppendRequest
        <4>2. Range(Append(accepted[p], r)) = Range(accepted[p]) \cup {r}
          BY Zenon, <1>2, AppendRequest
        <4> QED
          BY Zenon, <3>1, <4>1, <4>2
      <3>3. Alive(p)' = Alive(p) /\ \A x \in Range(accepted[p]) :
               Alive(p) => x \in Stored \cup failed \cup Range(ch[p]) \cup Batched(p)
        BY Zenon, <1>0, <1>1 DEF IInv, AcceptInv, Alive
      <3>4. Alive(p)' => \A x \in Range(accepted'[p]) :
               x \in Stored' \cup failed' \cup Range(ch'[p]) \cup Batched(p)'
        BY ZenonT(40), <1>0, <1>1, <1>4, <2>1, <3>2, <3>3
      <3>5. ASSUME NEW q \in Proc, q # p, Alive(q)'
            PROVE  \A x \in Range(accepted'[q]) :
                     x \in Stored' \cup failed' \cup Range(ch'[q]) \cup Batched(q)'
        BY <1>1, <1>4, <2>1, <3>1, <3>5 DEF IInv, AcceptInv, Alive
      <3> QED
        BY Zenon, <3>4, <3>5 DEF AcceptInv
    <2> QED
      BY <2>2, <2>3
  <1> QED
    BY <1>3, <1>4, <1>5, <1>6 DEF IInv

LEMMA FinishStep ==
    ASSUME IInv, NEW r \in Request, Finish(r)
    PROVE  IInv'
  <1>1. /\ UNCHANGED <<phase, timedOut, ch, dropped, rpc, draining, taken, batch, transaction,
                       database, accepted, failed>>
        /\ req' = [req EXCEPT ![r] = "done"]
    BY Zenon DEF Finish, recorder
  <1>2. TypeOK'
    BY <1>1 DEF IInv, TypeOK, transaction, database
  <1>3. ChainVerifies' /\ TxInv' /\ Stored' = Stored
    BY ZenonT(40), <1>1, TxUntouched
  <1>4. ControlInv'
    <2>1. \A p \in Proc : InFlight(p)' \subseteq InFlight(p)
      BY <1>1 DEF IInv, TypeOK, InFlight
    <2> QED
      BY Zenon, <1>1, <2>1 DEF IInv, ControlInv, Control
  <1>5. AcceptInv'
    BY <1>1, <1>3 DEF IInv, AcceptInv, Alive, Batched
  <1> QED
    BY Zenon, <1>2, <1>3, <1>4, <1>5 DEF IInv

LEMMA StopSteps ==
    ASSUME IInv, NEW p \in Proc, Signal(p) \/ Shutdown(p)
    PROVE  IInv'
  <1>1. /\ UNCHANGED <<req, ch, dropped, rpc, draining, taken, batch, transaction, database,
                       accepted, failed>>
        /\ phase[p] \in {"serving", "stopping"}
        /\ \/ phase' = [phase EXCEPT ![p] = "stopping"] /\ timedOut' = timedOut
           \/ /\ phase' = [phase EXCEPT ![p] = "cancelled"]
              /\ timedOut' = [timedOut EXCEPT ![p] = InFlight(p) # {}]
    BY DEF Signal, Shutdown, recorder
  <1>2. /\ \A q \in Proc : q # p => phase'[q] = phase[q] /\ (timedOut'[q] <=> timedOut[q])
        /\ phase'[p] \in {"stopping", "cancelled"}
        /\ phase'[p] = "cancelled" => (timedOut'[p] <=> InFlight(p) # {})
        /\ phase' \in [Proc -> {"serving", "stopping", "cancelled", "gone"}]
    BY ZenonT(40), <1>1 DEF IInv, TypeOK
  <1>3. timedOut' \in [Proc -> BOOLEAN]
    <2>1. (InFlight(p) # {}) \in BOOLEAN
      OBVIOUS
    <2> QED
      BY Zenon, <1>1, <2>1 DEF IInv, TypeOK
  <1>4. TypeOK'
    BY Zenon, <1>1, <1>2, <1>3 DEF IInv, TypeOK, transaction, database
  <1>5. ChainVerifies' /\ TxInv' /\ Stored' = Stored
    BY ZenonT(40), <1>1, TxUntouched
  <1>6. ControlInv'
    <2>1. \A q \in Proc : InFlight(q)' = InFlight(q)
      BY Zenon, <1>1 DEF InFlight
    <2>2. ~draining[p] /\ rpc[p] # "stopped"
      BY Zenon, <1>1 DEF IInv, ControlInv, Control
    <2> QED
      BY <1>1, <1>2, <2>1, <2>2 DEF IInv, ControlInv, Control
  <1>7. AcceptInv'
    <2>1. \A q \in Proc : Alive(q)' = Alive(q)
      BY Zenon, <1>1, <1>2 DEF Alive
    <2> QED
      BY <1>1, <1>5, <2>1 DEF IInv, AcceptInv, Batched
  <1> QED
    BY Zenon, <1>4, <1>5, <1>6, <1>7 DEF IInv

----------------------------------------------------------------------------
(* The recorder, outside of Append.                                        *)

LEMMA TakeEffect ==
    ASSUME IInv, NEW p \in Proc, Take(p), taken[p] < MaxBatch
    PROVE  /\ ch' \in [Proc -> Seq(Request)] /\ \A q \in Proc : Len(ch'[q]) <= Buffer
           /\ taken' \in [Proc -> 0..MaxBatch] /\ taken'[p] # 0
           /\ batch' \in [Proc -> [Chain -> Seq(Request)]]
           /\ \A q \in Proc : q # p => /\ ch'[q] = ch[q] /\ taken'[q] = taken[q]
                                       /\ batch'[q] = batch[q] /\ Batched(q)' = Batched(q)
           /\ \A x \in Range(ch[p]) \cup Batched(p) : x \in Range(ch'[p]) \cup Batched(p)'
  <1> DEFINE r == Head(ch[p])
             c == ChainOf[r]
  <1>1. /\ ch \in [Proc -> Seq(Request)] /\ \A q \in Proc : Len(ch[q]) <= Buffer
        /\ taken \in [Proc -> 0..MaxBatch] /\ batch \in [Proc -> [Chain -> Seq(Request)]]
        /\ Buffer \in Nat /\ MaxBatch \in Nat
    BY Zenon, ConstantsOK DEF IInv, TypeOK
  <1>2. /\ ch[p] \in Seq(Request) /\ ch[p] # <<>>
        /\ taken' = [taken EXCEPT ![p] = taken[p] + 1]
        /\ ch' = [ch EXCEPT ![p] = Tail(ch[p])]
        /\ batch' = [batch EXCEPT ![p] = [batch[p] EXCEPT ![c] = Append(batch[p][c], r)]]
    BY Zenon, <1>1 DEF Take
  <1>3. /\ Range(ch[p]) = {r} \cup Range(Tail(ch[p])) /\ r \in Request /\ Tail(ch[p]) \in Seq(Request)
    BY Zenon, <1>2, RangeTail
  <1>4. c \in Chain
    BY <1>3, ConstantsOK
  <1>5. Len(Tail(ch[p])) <= Buffer
    <2>1. Len(Tail(ch[p])) = Len(ch[p]) - 1 /\ Len(ch[p]) \in Nat /\ Len(ch[p]) <= Buffer
      BY <1>1, <1>2
    <2> QED
      BY <1>1, <2>1
  <1> HIDE DEF r, c
  <1>6. /\ ch' \in [Proc -> Seq(Request)] /\ \A q \in Proc : Len(ch'[q]) <= Buffer
        /\ ch'[p] = Tail(ch[p]) /\ \A q \in Proc : q # p => ch'[q] = ch[q]
    BY Zenon, <1>1, <1>2, <1>3, <1>5
  <1>7. /\ taken' \in [Proc -> 0..MaxBatch] /\ taken'[p] # 0
        /\ \A q \in Proc : q # p => taken'[q] = taken[q]
    <2>1. taken[p] + 1 \in 0..MaxBatch /\ taken[p] + 1 # 0
      BY <1>1
    <2> QED
      BY <1>1, <1>2, <2>1
  <1>8. Append(batch[p][c], r) \in Seq(Request) /\ Range(Append(batch[p][c], r)) = Range(batch[p][c]) \cup {r}
    <2>1. batch[p][c] \in Seq(Request)
      BY <1>1, <1>4
    <2> QED
      BY <1>3, <2>1, RangeAppend
  <1>9. /\ batch' \in [Proc -> [Chain -> Seq(Request)]]
        /\ batch'[p][c] = Append(batch[p][c], r)
        /\ \A d \in Chain : d # c => batch'[p][d] = batch[p][d]
        /\ \A q \in Proc : q # p => batch'[q] = batch[q]
    BY ZenonT(40), <1>1, <1>2, <1>4, <1>8
  <1>10. \A q \in Proc : q # p => Batched(q)' = Batched(q)
    BY <1>9 DEF Batched
  <1>11. Batched(p) \cup {r} \subseteq Batched(p)'
    <2>1. \A d \in Chain : Range(batch[p][d]) \subseteq Range(batch'[p][d])
      BY ZenonT(40), <1>8, <1>9
    <2>2. r \in Range(batch'[p][c])
      BY <1>8, <1>9
    <2> QED
      BY <1>4, <2>1, <2>2 DEF Batched
  <1> QED
    BY Zenon, <1>3, <1>6, <1>7, <1>9, <1>10, <1>11

LEMMA TakeSteps ==
    ASSUME IInv, NEW p \in Proc, Receive(p) \/ DrainOne(p)
    PROVE  IInv'
  <1>1. /\ UNCHANGED <<phase, timedOut, req, dropped, draining, transaction, database, accepted, failed>>
        /\ rpc[p] \in {"select", "drain"} /\ Take(p)
        /\ rpc' = [rpc EXCEPT ![p] = "drain"]
    BY ZenonT(40) DEF Receive, DrainOne, Goto, server, IInv, TypeOK
  <1>2. taken[p] < MaxBatch
    BY <1>1, ConstantsOK DEF Receive, DrainOne, IInv, ControlInv, Control
  <1>3. /\ ch' \in [Proc -> Seq(Request)] /\ \A q \in Proc : Len(ch'[q]) <= Buffer
        /\ taken' \in [Proc -> 0..MaxBatch] /\ taken'[p] # 0
        /\ batch' \in [Proc -> [Chain -> Seq(Request)]]
        /\ \A q \in Proc : q # p => /\ ch'[q] = ch[q] /\ taken'[q] = taken[q]
                                    /\ batch'[q] = batch[q] /\ Batched(q)' = Batched(q)
        /\ \A x \in Range(ch[p]) \cup Batched(p) : x \in Range(ch'[p]) \cup Batched(p)'
    BY ZenonT(40), <1>1, <1>2, TakeEffect
  <1>4. rpc' \in [Proc -> RPC] /\ rpc'[p] = "drain" /\ \A q \in Proc : q # p => rpc'[q] = rpc[q]
    BY <1>1 DEF IInv, TypeOK, RPC
  <1>5. TypeOK'
    BY ZenonT(40), <1>1, <1>3, <1>4 DEF IInv, TypeOK, transaction, database
  <1>6. ChainVerifies' /\ TxInv' /\ Stored' = Stored
    BY <1>1, <1>3, <1>4, TxUntouched
  <1>7. ControlInv'
    <2>1. \A q \in Proc : InFlight(q)' = InFlight(q)
      BY <1>1 DEF InFlight
    <2>2. \A q \in Proc : q # p => /\ phase'[q] = phase[q] /\ timedOut'[q] = timedOut[q]
                                   /\ draining'[q] = draining[q] /\ rpc'[q] = rpc[q]
                                   /\ taken'[q] = taken[q] /\ batch'[q] = batch[q] /\ ch'[q] = ch[q]
      BY ZenonT(40), <1>1, <1>3, <1>4
    <2>3. phase'[p] = phase[p] /\ timedOut'[p] = timedOut[p] /\ draining'[p] = draining[p]
      BY <1>1
    <2>4. \A q \in Proc : Control(q)
      BY DEF IInv, ControlInv
    <2>5. ASSUME NEW q \in Proc, q # p PROVE Control(q)'
      BY ZenonT(40), <2>1, <2>2, <2>4, <2>5 DEF Control
    <2>6. Control(p)'
      BY Zenon, <1>3, <1>4, <2>1, <2>3, <2>4 DEF Control
    <2> QED
      BY Zenon, <2>5, <2>6 DEF ControlInv
  <1>8. AcceptInv'
    <2>1. ASSUME NEW q \in Proc, Alive(q)', NEW x \in Range(accepted'[q])
          PROVE  x \in Stored' \cup failed' \cup Range(ch'[q]) \cup Batched(q)'
      <3>1. x \in Stored \cup failed \cup Range(ch[q]) \cup Batched(q)
        BY Zenon, <1>1, <2>1 DEF IInv, AcceptInv, Alive
      <3> QED
        BY Zenon, <1>1, <1>3, <1>6, <3>1
    <2> QED
      BY <2>1 DEF AcceptInv
  <1> QED
    BY Zenon, <1>5, <1>6, <1>7, <1>8 DEF IInv

\* A step of the recorder that leaves its batch alone.
LEMMA Moves ==
    ASSUME IInv, NEW p \in Proc, NEW to \in {"select", "drain", "group", "stopped"},
           rpc[p] \in {"select", "drain", "group"}, rpc' = [rpc EXCEPT ![p] = to],
           UNCHANGED <<server, ch, dropped, batch, transaction, database, accepted, failed>>,
           NEW n \in 0..MaxBatch, taken' = [taken EXCEPT ![p] = n], n = 0 => batch[p] = NoBatch,
           NEW d \in BOOLEAN, draining' = [draining EXCEPT ![p] = d], d => phase[p] = "cancelled",
           to = "select" => n = 0,
           to = "stopped" => d /\ n = 0 /\ ch[p] = <<>>
    PROVE  IInv'
  <1>1. UNCHANGED <<phase, timedOut, req>>
    BY Zenon DEF server
  <1>2. /\ rpc' \in [Proc -> RPC] /\ rpc'[p] = to /\ \A q \in Proc : q # p => rpc'[q] = rpc[q]
        /\ taken' \in [Proc -> 0..MaxBatch] /\ taken'[p] = n
        /\ \A q \in Proc : q # p => taken'[q] = taken[q]
    BY Zenon DEF IInv, TypeOK, RPC
  <1>3. /\ draining' \in [Proc -> BOOLEAN] /\ draining'[p] = d
        /\ \A q \in Proc : q # p => draining'[q] = draining[q]
    BY DEF IInv, TypeOK
  <1>4. TypeOK'
    BY ZenonT(40), <1>1, <1>2, <1>3 DEF IInv, TypeOK, transaction, database
  <1>5. ChainVerifies' /\ TxInv' /\ Stored' = Stored
    BY ZenonT(40), <1>2, TxUntouched
  <1>6. ControlInv'
    <2>1. \A q \in Proc : InFlight(q)' = InFlight(q)
      BY <1>1 DEF InFlight
    <2>2. \A q \in Proc : /\ phase'[q] = phase[q] /\ timedOut'[q] = timedOut[q]
                          /\ batch'[q] = batch[q] /\ ch'[q] = ch[q]
      BY ZenonT(40), <1>1
    <2> QED
      BY <1>2, <1>3, <2>1, <2>2 DEF IInv, ControlInv, Control
  <1>7. AcceptInv'
    BY <1>1, <1>5 DEF IInv, AcceptInv, Alive, Batched
  <1> QED
    BY <1>4, <1>5, <1>6, <1>7 DEF IInv

LEMMA IdleSteps ==
    ASSUME IInv, NEW p \in Proc, Cancelled(p) \/ DrainEnd(p) \/ AppendEnd(p)
    PROVE  IInv'
  <1>1. /\ taken[p] \in 0..MaxBatch /\ taken = [taken EXCEPT ![p] = taken[p]]
        /\ draining[p] \in BOOLEAN /\ draining = [draining EXCEPT ![p] = draining[p]]
        /\ 0 \in 0..MaxBatch /\ MaxBatch # 0
        /\ taken[p] = 0 => batch[p] = NoBatch
        /\ draining[p] => phase[p] = "cancelled"
    BY ConstantsOK DEF IInv, TypeOK, ControlInv, Control
  <1>2. CASE Cancelled(p)
    <2>1. rpc' = [rpc EXCEPT ![p] = "drain"] /\ draining' = [draining EXCEPT ![p] = TRUE] /\ taken' = taken
      BY Zenon, <1>2 DEF Cancelled, Goto
    <2> QED
      BY Zenon, <1>1, <1>2, <2>1, Moves DEF Cancelled
  <1>3. CASE DrainEnd(p)
    <2> DEFINE to == IF taken[p] # 0 THEN "group" ELSE IF draining[p] THEN "stopped" ELSE "select"
    <2>1. /\ rpc[p] \in {"select", "drain", "group"} /\ rpc' = [rpc EXCEPT ![p] = to]
          /\ draining' = draining /\ taken' = taken
          /\ UNCHANGED <<server, ch, dropped, batch, transaction, database, accepted, failed>>
      BY Zenon, <1>3 DEF DrainEnd, Goto
    <2>2. /\ to \in {"select", "drain", "group", "stopped"} /\ (to = "select" => taken[p] = 0)
          /\ to = "stopped" => draining[p] /\ taken[p] = 0 /\ ch[p] = <<>>
      BY <1>1, <1>3 DEF DrainEnd
    <2> HIDE DEF to
    <2> QED
      BY Zenon, <1>1, <2>1, <2>2, Moves
  <1>4. CASE AppendEnd(p)
    <2> DEFINE to == IF draining[p] THEN "drain" ELSE "select"
    <2>1. /\ rpc[p] \in {"select", "drain", "group"} /\ rpc' = [rpc EXCEPT ![p] = to]
          /\ draining' = draining /\ taken' = [taken EXCEPT ![p] = 0] /\ batch[p] = NoBatch
          /\ UNCHANGED <<server, ch, dropped, batch, transaction, database, accepted, failed>>
      BY Zenon, <1>4 DEF AppendEnd, Goto
    <2>2. to \in {"select", "drain", "group", "stopped"} /\ to # "stopped"
      BY ZenonT(40)
    <2> HIDE DEF to
    <2> QED
      BY ZenonT(40), <1>1, <2>1, <2>2, Moves
  <1> QED
    BY Zenon, <1>2, <1>3, <1>4

----------------------------------------------------------------------------
(* Store.Append.                                                           *)

LEMMA ControlInAppend ==
    ASSUME IInv, NEW p \in Proc, NEW to \in {"group", "lock", "head", "insert"},
           rpc' = [rpc EXCEPT ![p] = to], UNCHANGED <<server, ch, draining, taken>>,
           \A q \in Proc : q # p => batch'[q] = batch[q],
           batch[p] = NoBatch => batch'[p] = NoBatch
    PROVE  /\ ControlInv' /\ rpc' \in [Proc -> RPC] /\ rpc'[p] = to
           /\ \A q \in Proc : q # p => rpc'[q] = rpc[q]
           /\ UNCHANGED <<phase, timedOut, req, ch, draining, taken>>
  <1>1. UNCHANGED <<phase, timedOut, req, ch, draining, taken>>
    BY Zenon DEF server
  <1>2. /\ rpc' \in [Proc -> RPC] /\ rpc'[p] = to
        /\ \A q \in Proc : q # p => rpc'[q] = rpc[q]
    BY ZenonT(40) DEF IInv, TypeOK, RPC
  <1>3. \A q \in Proc : InFlight(q)' = InFlight(q)
    BY <1>1 DEF InFlight
  <1>4. \A q \in Proc : Control(q)
    BY Zenon DEF IInv, ControlInv
  <1>5. ASSUME NEW q \in Proc, q # p PROVE Control(q)'
    BY ZenonT(40), <1>1, <1>2, <1>3, <1>4, <1>5 DEF Control
  <1>6. Control(p)'
    BY Zenon, <1>1, <1>2, <1>3, <1>4 DEF Control
  <1>7. ControlInv'
    BY Zenon, <1>5, <1>6 DEF ControlInv
  <1> QED
    BY <1>1, <1>2, <1>7

\* A process other than the one that moves.
LEMMA TxOfOther ==
    ASSUME NEW q \in Proc, Tx(q), rpc'[q] = rpc[q], cur'[q] = cur[q], seq'[q] = seq[q],
           prev'[q] = prev[q], rows'[q] = rows[q], batch'[q] = batch[q],
           rpc[q] \in {"head", "insert"} => lock'[cur[q]] = lock[cur[q]] /\ table'[cur[q]] = table[cur[q]]
    PROVE  Tx(q)'
  BY Zenon DEF Tx

\* Two transactions that hold the lock work on different chains.
LEMMA Exclusive ==
    ASSUME IInv, NEW p \in Proc, NEW q \in Proc, p # q,
           rpc[p] \in {"head", "insert"}, rpc[q] \in {"head", "insert"}
    PROVE  cur[p] # cur[q]
  BY ZenonT(40) DEF IInv, TxInv, Tx

LEMMA BeginAppendStep ==
    ASSUME IInv, NEW p \in Proc, NEW c \in Chain, AppendBegin(p, c)
    PROVE  IInv'
  <1>1. /\ UNCHANGED <<server, ch, dropped, draining, taken, batch, seq, prev, rows, lock, table,
                       accepted, failed>>
        /\ rpc[p] = "group" /\ rpc' = [rpc EXCEPT ![p] = "lock"] /\ cur' = [cur EXCEPT ![p] = c]
    BY DEF AppendBegin, Goto, database
  <1>2. /\ ControlInv' /\ rpc' \in [Proc -> RPC] /\ rpc'[p] = "lock"
        /\ \A q \in Proc : q # p => rpc'[q] = rpc[q]
        /\ UNCHANGED <<phase, timedOut, req, ch, draining, taken>>
    BY ZenonT(40), <1>1, ControlInAppend
  <1>3. cur' \in [Proc -> Chain \cup {None}] /\ cur'[p] = c /\ \A q \in Proc : q # p => cur'[q] = cur[q]
    BY <1>1 DEF IInv, TypeOK
  <1>4. TypeOK'
    BY Zenon, <1>1, <1>2, <1>3 DEF IInv, TypeOK
  <1>5. TxInv'
    <2>1. \A q \in Proc : Tx(q)
      BY ZenonT(40) DEF IInv, TxInv
    <2>2. ASSUME NEW q \in Proc, q # p PROVE Tx(q)'
      BY <1>1, <1>2, <1>3, <2>1, <2>2, TxOfOther
    <2>3. Tx(p)'
      BY ZenonT(40), <1>1, <1>2, <1>3, <2>1 DEF Tx
    <2> QED
      BY <2>2, <2>3 DEF TxInv
  <1>6. ChainVerifies' /\ AcceptInv'
    BY <1>1, <1>2 DEF IInv, ChainVerifies, Verify, ScanAuditChain, AcceptInv, Alive, Batched, Stored
  <1> QED
    BY ZenonT(40), <1>2, <1>4, <1>5, <1>6 DEF IInv

LEMMA LockStep ==
    ASSUME IInv, NEW p \in Proc, AppendLock(p)
    PROVE  IInv'
  <1>1. /\ UNCHANGED <<server, ch, dropped, draining, taken, batch, cur, seq, prev, rows, table,
                       accepted, failed>>
        /\ rpc[p] = "lock" /\ rpc' = [rpc EXCEPT ![p] = "head"]
        /\ lock[cur[p]] = None /\ lock' = [lock EXCEPT ![cur[p]] = p]
    BY Zenon DEF AppendLock, Goto, transaction
  <1>2. /\ ControlInv' /\ rpc' \in [Proc -> RPC] /\ rpc'[p] = "head"
        /\ \A q \in Proc : q # p => rpc'[q] = rpc[q]
        /\ UNCHANGED <<phase, timedOut, req, ch, draining, taken>>
    BY ZenonT(40), <1>1, ControlInAppend
  <1>3. cur[p] \in Chain
    BY ZenonT(40), <1>1 DEF IInv, TxInv, Tx
  <1>4. /\ lock' \in [Chain -> Proc \cup {None}] /\ lock'[cur[p]] = p
        /\ \A c \in Chain : c # cur[p] => lock'[c] = lock[c]
    BY <1>1, <1>3 DEF IInv, TypeOK
  <1>5. TypeOK'
    BY Zenon, <1>1, <1>2, <1>4 DEF IInv, TypeOK
  <1>6. TxInv'
    <2>1. \A q \in Proc : Tx(q)
      BY DEF IInv, TxInv
    <2>2. ASSUME NEW q \in Proc, q # p PROVE Tx(q)'
      <3>1. rpc[q] \in {"head", "insert"} => cur[q] \in Chain /\ cur[q] # cur[p]
        BY <1>1, <2>1, ConstantsOK DEF Tx
      <3> QED
        BY ZenonT(40), <1>1, <1>2, <1>4, <2>1, <2>2, <3>1, TxOfOther
    <2>3. Tx(p)'
      BY ZenonT(40), <1>1, <1>2, <1>3, <1>4, <2>1 DEF Tx
    <2> QED
      BY <2>2, <2>3 DEF TxInv
  <1>7. ChainVerifies' /\ AcceptInv'
    BY <1>1, <1>2 DEF IInv, ChainVerifies, Verify, ScanAuditChain, AcceptInv, Alive, Batched, Stored
  <1> QED
    BY ZenonT(40), <1>2, <1>5, <1>6, <1>7 DEF IInv

LEMMA HeadStep ==
    ASSUME IInv, NEW p \in Proc, AppendHead(p)
    PROVE  IInv'
  <1> DEFINE c == cur[p]
             none == [seq |-> 0, hash |-> genesis]
             heads == AuditChainHead(c)
             head == IF heads = {} THEN none ELSE CHOOSE r \in heads : TRUE
  <1>1. /\ UNCHANGED <<server, ch, dropped, draining, taken, batch, cur, rows, lock, table,
                       accepted, failed>>
        /\ rpc[p] = "head" /\ rpc' = [rpc EXCEPT ![p] = "insert"]
        /\ seq' = [seq EXCEPT ![p] = head.seq] /\ prev' = [prev EXCEPT ![p] = head.hash]
    BY ZenonT(40) DEF AppendHead, Goto, database
  <1>2. /\ ControlInv' /\ rpc' \in [Proc -> RPC] /\ rpc'[p] = "insert"
        /\ \A q \in Proc : q # p => rpc'[q] = rpc[q]
        /\ UNCHANGED <<phase, timedOut, req, ch, draining, taken>>
    BY ZenonT(40), <1>1, ControlInAppend
  <1>3. c \in Chain /\ rows[p] = <<>> /\ lock[c] = p
    BY Zenon, <1>1 DEF IInv, TxInv, Tx
  <1>4. table[c] \in Seq(Row) /\ Verified(table[c]) /\ batch[p][c] \in Seq(Request)
    <2>1. Verified(table[c])
      BY ZenonT(40), <1>3, ChainsVerified DEF IInv
    <2> QED
      BY <1>3, <2>1 DEF IInv, TypeOK
  <1>5. head.seq = Len(table[c]) /\ head.hash = LastHash(table[c]) /\ head.hash \in Hash
    <2>1. CASE table[c] = <<>>
      <3>1. Range(table[c]) = {}
        BY Zenon, <2>1, EmptySeq
      <3>2. head = none
        BY Zenon, <3>1 DEF AuditChainHead
      <3>3. head.seq = 0 /\ head.hash = <<>>
        <4>1. none.seq = 0 /\ none.hash = <<>>
          BY DEF genesis
        <4> HIDE DEF head, none
        <4> QED
          BY Zenon, <3>2, <4>1
      <3>4. Len(table[c]) = 0 /\ LastHash(table[c]) = <<>> /\ <<>> \in Hash
        BY <2>1 DEF LastHash, genesis, Hash
      <3> HIDE DEF head
      <3> QED
        BY Zenon, <3>3, <3>4
    <2>2. CASE table[c] # <<>>
      <3> DEFINE last == table[c][Len(table[c])]
      <3>1. last \in heads
        BY Zenon, <1>4, <2>2, LastIsHead DEF AuditChainHead
      <3>2. head \in heads
        BY Zenon, <3>1
      <3>3. head = last
        BY Zenon, <1>4, <2>2, <3>2, HeadIsLast DEF AuditChainHead
      <3>4. Len(table[c]) \in 1..Len(table[c]) /\ last \in Row
        BY Zenon, <1>4, <2>2, NonemptySeq
      <3>5. last.seq = Len(table[c])
        BY ZenonT(40), <1>4, <3>4 DEF Verified
      <3>6. last.hash \in Hash
        BY <3>4 DEF Row, Hash
      <3> HIDE DEF head, last
      <3> QED
        BY Zenon, <2>2, <3>3, <3>5, <3>6 DEF LastHash, last
    <2> QED
      BY Zenon, <2>1, <2>2
  <1> HIDE DEF c, heads, head, none
  <1>6. /\ seq' \in [Proc -> Nat] /\ seq'[p] = head.seq /\ \A q \in Proc : q # p => seq'[q] = seq[q]
        /\ prev' \in [Proc -> Hash] /\ prev'[p] = head.hash
        /\ \A q \in Proc : q # p => prev'[q] = prev[q]
    <2>1. head.seq \in Nat
      BY <1>4, <1>5
    <2> QED
      BY ZenonT(40), <1>1, <1>5, <2>1 DEF IInv, TypeOK, Hash
  <1>7. TypeOK'
    BY ZenonT(40), <1>1, <1>2, <1>6 DEF IInv, TypeOK, Hash
  <1>8. TxInv'
    <2>1. \A q \in Proc : Tx(q)
      BY DEF IInv, TxInv
    <2>2. ASSUME NEW q \in Proc, q # p PROVE Tx(q)'
      BY ZenonT(40), <1>1, <1>2, <1>6, <2>1, <2>2, TxOfOther
    <2>3. Continues(table[c], <<>>, head.seq, head.hash)
      BY <1>4, <1>5 DEF Continues
    <2>4. Len(<<>>) <= Len(batch[p][c]) /\ 1..Len(<<>>) = {}
      BY <1>4
    <2>5. Tx(p)'
      BY ZenonT(40), <1>1, <1>2, <1>3, <1>6, <2>3, <2>4 DEF Tx, c
    <2> QED
      BY <2>2, <2>5 DEF TxInv
  <1>9. ChainVerifies' /\ AcceptInv'
    BY <1>1, <1>2 DEF IInv, ChainVerifies, Verify, ScanAuditChain, AcceptInv, Alive, Batched, Stored
  <1> QED
    BY <1>2, <1>7, <1>8, <1>9 DEF IInv

LEMMA InsertStep ==
    ASSUME IInv, NEW p \in Proc, AppendInsert(p)
    PROVE  IInv'
  <1> DEFINE c == cur[p]
             k == Len(rows[p])
             e == batch[p][c][k + 1]
             n == seq[p] + 1
             h == canonicalHash(n, e, prev[p])
             row == [seq |-> n, ev |-> e, prev |-> prev[p], hash |-> h]
  <1>1. /\ UNCHANGED <<server, ch, dropped, rpc, draining, taken, batch, cur, lock, table, accepted,
                       failed>>
        /\ rpc[p] = "insert" /\ k < Len(batch[p][c])
        /\ rows' = [rows EXCEPT ![p] = Append(rows[p], row)]
        /\ seq' = [seq EXCEPT ![p] = n] /\ prev' = [prev EXCEPT ![p] = h]
    BY ZenonT(40) DEF AppendInsert, InsertAuditEvent, database
  <1>2. /\ c \in Chain /\ lock[c] = p /\ Continues(table[c], rows[p], seq[p], prev[p])
        /\ \A i \in 1..k : rows[p][i].ev = batch[p][c][i]
    BY ZenonT(40), <1>1 DEF IInv, TxInv, Tx
  <1>3. /\ table[c] \in Seq(Row) /\ rows[p] \in Seq(Row) /\ seq[p] \in Nat /\ prev[p] \in Hash
        /\ batch[p][c] \in Seq(Request) /\ k \in Nat
    <2>1. /\ table \in [Chain -> Seq(Row)] /\ rows \in [Proc -> Seq(Row)] /\ seq \in [Proc -> Nat]
          /\ prev \in [Proc -> Hash] /\ batch \in [Proc -> [Chain -> Seq(Request)]]
      BY Zenon DEF IInv, TypeOK, Hash
    <2>2. /\ table[c] \in Seq(Row) /\ rows[p] \in Seq(Row) /\ seq[p] \in Nat /\ prev[p] \in Hash
          /\ batch[p][c] \in Seq(Request)
      BY Zenon, <1>2, <2>1
    <2>3. k \in Nat
      BY Zenon, <2>2, RangeMembers
    <2> QED
      BY Zenon, <2>2, <2>3
  <1>4. k + 1 \in 1..Len(batch[p][c]) /\ e \in Request /\ n \in Nat
    <2>1. Len(batch[p][c]) \in Nat
      BY Zenon, <1>3, Requests
    <2>2. k + 1 \in 1..Len(batch[p][c])
      BY Zenon, <1>1, <1>3, <2>1, NextIndex
    <2>3. e \in Request
      BY Zenon, <1>3, <2>2, Requests
    <2>4. n \in Nat
      BY ZenonT(40), <1>3, NextIndex
    <2> QED
      BY Zenon, <2>2, <2>3, <2>4
  <1> HIDE DEF e, n
  <1>5. h \in Hash
    BY Zenon, <1>3, <1>4, HashType
  <1>6. /\ row \in Row /\ row.seq = seq[p] + 1 /\ row.prev = prev[p] /\ row.ev = e /\ row.hash = h
        /\ row.hash = canonicalHash(row.seq, row.ev, row.prev)
    BY ZenonT(40), <1>3, <1>4, <1>5 DEF Row, Hash, n
  <1> HIDE DEF h, row
  <1>7. Continues(table[c], Append(rows[p], row), n, h)
    BY Zenon, <1>2, <1>3, <1>6, OneMore DEF n
  <1>8. /\ Append(rows[p], row) \in Seq(Row) /\ Len(Append(rows[p], row)) = k + 1
        /\ \A i \in 1..k : Append(rows[p], row)[i] = rows[p][i]
        /\ Append(rows[p], row)[k + 1] = row
    <2>1. rows[p] \in Seq(Row) /\ row \in Row
      BY Zenon, <1>3, <1>6
    <2> QED
      BY Zenon, <2>1, AppendRow
  <1>9. /\ rows' \in [Proc -> Seq(Row)] /\ rows'[p] = Append(rows[p], row)
        /\ \A q \in Proc : q # p => rows'[q] = rows[q]
        /\ seq' \in [Proc -> Nat] /\ seq'[p] = n /\ \A q \in Proc : q # p => seq'[q] = seq[q]
        /\ prev' \in [Proc -> Hash] /\ prev'[p] = h /\ \A q \in Proc : q # p => prev'[q] = prev[q]
    BY ZenonT(40), <1>1, <1>4, <1>5, <1>8 DEF IInv, TypeOK, Hash
  <1>10. TypeOK'
    BY ZenonT(40), <1>1, <1>9 DEF IInv, TypeOK, Hash, server
  <1>11. TxInv'
    <2>1. \A q \in Proc : Tx(q)
      BY Zenon DEF IInv, TxInv
    <2>2. ASSUME NEW q \in Proc, q # p PROVE Tx(q)'
      BY Zenon, <1>1, <1>9, <2>1, <2>2, TxOfOther
    <2>3. \A i \in 1..(k + 1) : Append(rows[p], row)[i].ev = batch[p][c][i]
      <3>1. \A i \in 1..(k + 1) : i \in 1..k \/ i = k + 1
        BY Zenon, <1>3, NextIndex
      <3> QED
        BY Zenon, <1>2, <1>6, <1>8, <3>1 DEF e
    <2>4. k + 1 <= Len(batch[p][c])
      BY Zenon, <1>1, <1>3, NextIndex, RangeMembers
    <2>5. Tx(p)'
      BY ZenonT(40), <1>1, <1>2, <1>7, <1>8, <1>9, <2>3, <2>4 DEF Tx
    <2> QED
      BY <2>2, <2>5 DEF TxInv
  <1>12. ControlInv'
    BY ZenonT(40), <1>1 DEF IInv, ControlInv, Control, InFlight, server
  <1>13. ChainVerifies' /\ AcceptInv'
    BY <1>1 DEF IInv, ChainVerifies, Verify, ScanAuditChain, AcceptInv, Alive, Batched, Stored, server
  <1> QED
    BY <1>10, <1>11, <1>12, <1>13 DEF IInv

LEMMA EndTxEffect ==
    ASSUME IInv, NEW p \in Proc, EndTx(p)
    PROVE  /\ lock' \in [Chain -> Proc \cup {None}] /\ cur' \in [Proc -> Chain \cup {None}]
           /\ seq' \in [Proc -> Nat] /\ prev' \in [Proc -> Hash] /\ rows' \in [Proc -> Seq(Row)]
           /\ rows'[p] = <<>> /\ \A c \in Chain : lock[c] # p => lock'[c] = lock[c]
           /\ \A q \in Proc : q # p => /\ cur'[q] = cur[q] /\ seq'[q] = seq[q]
                                       /\ prev'[q] = prev[q] /\ rows'[q] = rows[q]
  <1>1. genesis \in Hash /\ <<>> \in Seq(Row)
    BY Zenon, EmptySeq DEF genesis, Hash
  <1> QED
    BY Zenon, <1>1 DEF IInv, TypeOK, EndTx, Hash

\* The end of an Append, with or without a commit.
LEMMA ReturnEffect ==
    ASSUME IInv, NEW p \in Proc, Return(p), rpc[p] \in {"lock", "head", "insert"},
           table' \in [Chain -> Seq(Row)], failed' \subseteq Request,
           \A c \in Chain : rpc[p] # "insert" \/ c # cur[p] => table'[c] = table[c]
    PROVE  /\ TypeOK' /\ ControlInv' /\ TxInv' /\ UNCHANGED <<phase, ch, accepted>>
           /\ \A q \in Proc : q # p => Batched(q)' = Batched(q)
           /\ \A x \in Batched(p) : x \in Batched(p)' \/ x \in Range(batch[p][cur[p]])
  <1> DEFINE c == cur[p]
  <1>1. c \in Chain
    BY Zenon DEF IInv, TxInv, Tx
  <1>2. /\ UNCHANGED <<server, ch, dropped, draining, taken, accepted>> /\ EndTx(p)
        /\ batch' = [batch EXCEPT ![p] = [batch[p] EXCEPT ![c] = <<>>]]
        /\ rpc' = [rpc EXCEPT ![p] = "group"]
    BY DEF Return, Goto
  <1>3. /\ lock' \in [Chain -> Proc \cup {None}] /\ cur' \in [Proc -> Chain \cup {None}]
        /\ seq' \in [Proc -> Nat] /\ prev' \in [Proc -> Hash] /\ rows' \in [Proc -> Seq(Row)]
        /\ rows'[p] = <<>> /\ \A d \in Chain : lock[d] # p => lock'[d] = lock[d]
        /\ \A q \in Proc : q # p => /\ cur'[q] = cur[q] /\ seq'[q] = seq[q]
                                    /\ prev'[q] = prev[q] /\ rows'[q] = rows[q]
    BY Zenon, <1>2, EndTxEffect
  <1> HIDE DEF c
  <1>4. /\ batch' \in [Proc -> [Chain -> Seq(Request)]] /\ batch'[p][c] = <<>>
        /\ \A d \in Chain : d # c => batch'[p][d] = batch[p][d]
        /\ \A q \in Proc : q # p => batch'[q] = batch[q]
    <2>1. batch \in [Proc -> [Chain -> Seq(Request)]]
      BY Zenon DEF IInv, TypeOK
    <2>2. <<>> \in Seq(Request)
      BY ZenonT(40), EmptySeq
    <2> QED
      BY Zenon, <1>1, <1>2, <2>1, <2>2
  <1>5. batch[p] = NoBatch => batch'[p] = NoBatch
    BY <1>4 DEF NoBatch
  <1>6. /\ ControlInv' /\ rpc' \in [Proc -> RPC] /\ rpc'[p] = "group"
        /\ \A q \in Proc : q # p => rpc'[q] = rpc[q]
        /\ UNCHANGED <<phase, timedOut, req, ch, draining, taken>>
    BY ZenonT(40), <1>2, <1>4, <1>5, ControlInAppend
  <1>7. TypeOK'
    BY ZenonT(40), <1>2, <1>3, <1>4, <1>6 DEF IInv, TypeOK, Hash
  <1>8. TxInv'
    <2>1. \A q \in Proc : Tx(q)
      BY ZenonT(40) DEF IInv, TxInv
    <2>2. ASSUME NEW q \in Proc, q # p PROVE Tx(q)'
      <3>1. CASE rpc[q] \in {"head", "insert"}
        <4>1. cur[q] \in Chain /\ lock[cur[q]] = q
          BY Zenon, <2>1, <3>1 DEF Tx
        <4>2. rpc[p] = "insert" => cur[q] # c
          BY ZenonT(40), <2>2, <3>1, Exclusive DEF c
        <4>3. lock'[cur[q]] = lock[cur[q]] /\ table'[cur[q]] = table[cur[q]]
          BY <1>3, <2>2, <4>1, <4>2 DEF c
        <4> QED
          BY ZenonT(40), <1>3, <1>4, <1>6, <2>1, <2>2, <4>3, TxOfOther
      <3>2. CASE rpc[q] \notin {"head", "insert"}
        BY ZenonT(40), <1>3, <1>4, <1>6, <2>1, <2>2, <3>2, TxOfOther
      <3> QED
        BY <3>1, <3>2
    <2>3. Tx(p)'
      BY ZenonT(40), <1>3, <1>6 DEF Tx
    <2> QED
      BY Zenon, <2>2, <2>3 DEF TxInv
  <1>9. \A q \in Proc : q # p => Batched(q)' = Batched(q)
    BY <1>4 DEF Batched
  <1>10. \A x \in Batched(p) : x \in Batched(p)' \/ x \in Range(batch[p][c])
    BY ZenonT(40), <1>4 DEF Batched
  <1> QED
    BY Zenon, <1>2, <1>6, <1>7, <1>8, <1>9, <1>10 DEF c

LEMMA CommitStep ==
    ASSUME IInv, NEW p \in Proc, AppendCommit(p)
    PROVE  IInv'
  <1> DEFINE c == cur[p]
  <1>1. /\ rpc[p] = "insert" /\ Len(rows[p]) = Len(batch[p][c])
        /\ table' = [table EXCEPT ![c] = table[c] \o rows[p]]
        /\ Return(p) /\ failed' = failed
    BY Zenon DEF AppendCommit, Committing
  <1>2. /\ c \in Chain /\ Continues(table[c], rows[p], seq[p], prev[p])
        /\ \A i \in 1..Len(rows[p]) : rows[p][i].ev = batch[p][c][i]
    BY Zenon, <1>1 DEF IInv, TxInv, Tx
  <1>3. /\ table \in [Chain -> Seq(Row)] /\ rows[p] \in Seq(Row) /\ batch[p][c] \in Seq(Request)
        /\ failed \subseteq Request
    <2>1. /\ table \in [Chain -> Seq(Row)] /\ rows \in [Proc -> Seq(Row)]
          /\ batch \in [Proc -> [Chain -> Seq(Request)]] /\ failed \subseteq Request
      BY Zenon DEF IInv, TypeOK
    <2> QED
      BY Zenon, <1>2, <2>1
  <1>4. \A d \in Chain : Verified(table[d])
    BY ChainsVerified DEF IInv
  <1> HIDE DEF c
  <1>5. /\ table' \in [Chain -> Seq(Row)] /\ table'[c] = table[c] \o rows[p]
        /\ \A d \in Chain : d # c => table'[d] = table[d]
    <2>1. table[c] \o rows[p] \in Seq(Row)
      BY <1>2, <1>3
    <2> QED
      BY ZenonT(40), <1>1, <1>2, <1>3, <2>1
  <1>6. /\ TypeOK' /\ ControlInv' /\ TxInv' /\ UNCHANGED <<phase, ch, accepted>>
        /\ \A q \in Proc : q # p => Batched(q)' = Batched(q)
        /\ \A x \in Batched(p) : x \in Batched(p)' \/ x \in Range(batch[p][c])
    BY Zenon, <1>1, <1>3, <1>5, ReturnEffect DEF c
  <1>7. ChainVerifies'
    <2>1. Verified(table'[c])
      BY <1>2, <1>3, <1>4, <1>5, Concatenated
    <2>2. \A d \in Chain : Verified(table'[d])
      BY ZenonT(40), <1>4, <1>5, <2>1
    <2>3. \A d \in Chain : DOMAIN table'[d] = 1..Len(table'[d])
      BY <1>5
    <2> QED
      BY <2>2, <2>3 DEF ChainVerifies, Verify, ScanAuditChain, Verified
  <1>8. Stored \subseteq Stored' /\ Range(batch[p][c]) \subseteq Stored'
    <2>1. table[c] \in Seq(Row)
      BY ZenonT(40), <1>2, <1>3
    <2>2. Range(table[c]) \subseteq Range(table'[c]) /\ Range(rows[p]) \subseteq Range(table'[c])
      BY <1>3, <1>5, <2>1, RangeConcat
    <2>3. \A d \in Chain : Range(table[d]) \subseteq Range(table'[d])
      BY ZenonT(40), <1>5, <2>2
    <2>4. Stored \subseteq Stored'
      BY <2>3 DEF Stored
    <2>5. ASSUME NEW x \in Range(batch[p][c]) PROVE x \in Stored'
      <3>1. PICK i \in 1..Len(batch[p][c]) : x = batch[p][c][i]
        BY Zenon, <1>3, RangeMembers
      <3>2. rows[p][i] \in Range(rows[p]) /\ x = rows[p][i].ev
        BY ZenonT(40), <1>1, <1>2, <1>3, <3>1, RangeMembers DEF c
      <3> QED
        BY <1>2, <2>2, <3>2 DEF Stored
    <2> QED
      BY Zenon, <2>4, <2>5
  <1>9. AcceptInv'
    <2>1. ASSUME NEW q \in Proc, Alive(q)', NEW x \in Range(accepted'[q])
          PROVE  x \in Stored' \cup failed' \cup Range(ch'[q]) \cup Batched(q)'
      <3>1. x \in Stored \cup failed \cup Range(ch[q]) \cup Batched(q)
        BY ZenonT(40), <1>6, <2>1 DEF IInv, AcceptInv, Alive
      <3> QED
        BY ZenonT(40), <1>1, <1>6, <1>8, <3>1
    <2> QED
      BY <2>1 DEF AcceptInv
  <1> QED
    BY Zenon, <1>6, <1>7, <1>9 DEF IInv

LEMMA FailStep ==
    ASSUME IInv, NEW p \in Proc, AppendFails(p)
    PROVE  IInv'
  <1> DEFINE c == cur[p]
  <1>1. /\ rpc[p] \in {"lock", "head", "insert"} /\ failed' = failed \cup Range(batch[p][c])
        /\ Return(p) /\ table' = table
    BY Zenon DEF AppendFails
  <1>2. c \in Chain
    BY Zenon, <1>1 DEF IInv, TxInv, Tx
  <1>3. failed' \subseteq Request
    <2>0. batch \in [Proc -> [Chain -> Seq(Request)]] /\ failed \subseteq Request
      BY Zenon DEF IInv, TypeOK
    <2>1. batch[p][c] \in Seq(Request) /\ failed \subseteq Request
      BY Zenon, <1>2, <2>0
    <2>2. Range(batch[p][c]) \subseteq Request
      BY Zenon, <2>1, Requests
    <2> QED
      BY Zenon, <1>1, <2>1, <2>2
  <1>4. /\ TypeOK' /\ ControlInv' /\ TxInv' /\ UNCHANGED <<phase, ch, accepted>>
        /\ \A q \in Proc : q # p => Batched(q)' = Batched(q)
        /\ \A x \in Batched(p) : x \in Batched(p)' \/ x \in Range(batch[p][c])
    <2>1. table' \in [Chain -> Seq(Row)]
      BY ZenonT(40), <1>1 DEF IInv, TypeOK
    <2> QED
      BY Zenon, <1>1, <1>3, <2>1, ReturnEffect
  <1>5. ChainVerifies' /\ Stored' = Stored
    BY <1>1 DEF IInv, ChainVerifies, Verify, ScanAuditChain, Stored
  <1>6. AcceptInv'
    <2>1. ASSUME NEW q \in Proc, Alive(q)', NEW x \in Range(accepted'[q])
          PROVE  x \in Stored' \cup failed' \cup Range(ch'[q]) \cup Batched(q)'
      <3>1. x \in Stored \cup failed \cup Range(ch[q]) \cup Batched(q)
        BY Zenon, <1>4, <2>1 DEF IInv, AcceptInv, Alive
      <3> QED
        BY ZenonT(40), <1>1, <1>4, <1>5, <3>1
    <2> QED
      BY <2>1 DEF AcceptInv
  <1> QED
    BY ZenonT(40), <1>4, <1>5, <1>6 DEF IInv

\* A process that ends, in whatever way, leaves no transaction.
LEMMA GoneStep ==
    ASSUME IInv, NEW p \in Proc, Gone(p), failed' \subseteq Request, failed \subseteq failed'
    PROVE  IInv'
  <1>1. /\ UNCHANGED <<timedOut, req, table, accepted>> /\ EndTx(p)
        /\ phase' = [phase EXCEPT ![p] = "gone"] /\ ch' = [ch EXCEPT ![p] = <<>>]
        /\ taken' = [taken EXCEPT ![p] = 0] /\ batch' = [batch EXCEPT ![p] = NoBatch]
        /\ rpc' = [rpc EXCEPT ![p] = "stopped"] /\ draining' = [draining EXCEPT ![p] = FALSE]
        /\ dropped' = [dropped EXCEPT ![p] = 0]
    BY DEF Gone
  <1>2. /\ lock' \in [Chain -> Proc \cup {None}] /\ cur' \in [Proc -> Chain \cup {None}]
        /\ seq' \in [Proc -> Nat] /\ prev' \in [Proc -> Hash] /\ rows' \in [Proc -> Seq(Row)]
        /\ rows'[p] = <<>> /\ \A c \in Chain : lock[c] # p => lock'[c] = lock[c]
        /\ \A q \in Proc : q # p => /\ cur'[q] = cur[q] /\ seq'[q] = seq[q]
                                    /\ prev'[q] = prev[q] /\ rows'[q] = rows[q]
    BY Zenon, <1>1, EndTxEffect
  <1>3. /\ NoBatch \in [Chain -> Seq(Request)] /\ <<>> \in Seq(Request) /\ Len(<<>>) = 0
        /\ 0 \in 0..MaxBatch /\ 0 <= Buffer
    BY ConstantsOK DEF NoBatch
  <1>4. /\ phase' \in [Proc -> {"serving", "stopping", "cancelled", "gone"}] /\ phase'[p] = "gone"
        /\ rpc' \in [Proc -> RPC] /\ rpc'[p] = "stopped"
        /\ ch' \in [Proc -> Seq(Request)] /\ \A q \in Proc : Len(ch'[q]) <= Buffer
        /\ taken' \in [Proc -> 0..MaxBatch] /\ taken'[p] = 0
        /\ batch' \in [Proc -> [Chain -> Seq(Request)]] /\ batch'[p] = NoBatch
        /\ dropped' \in [Proc -> Nat]
    BY Zenon, <1>1, <1>3 DEF IInv, TypeOK, RPC
  <1>5. draining' \in [Proc -> BOOLEAN] /\ ~draining'[p]
    BY ZenonT(40), <1>1 DEF IInv, TypeOK
  <1>6. \A q \in Proc : q # p => /\ phase'[q] = phase[q] /\ rpc'[q] = rpc[q] /\ ch'[q] = ch[q]
                                 /\ taken'[q] = taken[q] /\ batch'[q] = batch[q]
                                 /\ draining'[q] = draining[q]
    BY <1>1 DEF IInv, TypeOK
  <1>7. TypeOK'
    BY ZenonT(40), <1>1, <1>2, <1>4, <1>5 DEF IInv, TypeOK, Hash
  <1>8. ChainVerifies' /\ Stored' = Stored
    BY SMTT(30), <1>1 DEF IInv, ChainVerifies, Verify, ScanAuditChain, Stored
  <1>9. ControlInv'
    <2>1. \A q \in Proc : InFlight(q)' = InFlight(q) /\ timedOut'[q] = timedOut[q]
      BY Zenon, <1>1 DEF InFlight
    <2>2. \A q \in Proc : Control(q)
      BY DEF IInv, ControlInv
    <2>3. ASSUME NEW q \in Proc, q # p PROVE Control(q)'
      BY ZenonT(40), <1>6, <2>1, <2>2, <2>3 DEF Control
    <2>4. Control(p)'
      BY <1>4, <1>5 DEF Control
    <2> QED
      BY <2>3, <2>4 DEF ControlInv
  <1>10. TxInv'
    <2>1. \A q \in Proc : Tx(q)
      BY DEF IInv, TxInv
    <2>2. ASSUME NEW q \in Proc, q # p PROVE Tx(q)'
      <3>1. rpc[q] \in {"head", "insert"} => lock'[cur[q]] = lock[cur[q]] /\ table'[cur[q]] = table[cur[q]]
        BY ZenonT(40), <1>1, <1>2, <2>1, <2>2 DEF Tx
      <3> QED
        BY ZenonT(40), <1>2, <1>6, <2>1, <2>2, <3>1, TxOfOther
    <2>3. Tx(p)'
      BY ZenonT(40), <1>2, <1>4 DEF Tx
    <2> QED
      BY <2>2, <2>3 DEF TxInv
  <1>11. AcceptInv'
    <2>1. ASSUME NEW q \in Proc, Alive(q)', NEW x \in Range(accepted'[q])
          PROVE  x \in Stored' \cup failed' \cup Range(ch'[q]) \cup Batched(q)'
      <3>1. q # p
        BY Zenon, <1>4, <2>1 DEF Alive
      <3>2. x \in Stored \cup failed \cup Range(ch[q]) \cup Batched(q)
        BY ZenonT(40), <1>1, <1>6, <2>1, <3>1 DEF IInv, AcceptInv, Alive
      <3>3. Batched(q)' = Batched(q)
        BY <1>6, <3>1 DEF Batched
      <3> QED
        BY ZenonT(40), <1>6, <1>8, <3>1, <3>2, <3>3
    <2> QED
      BY ZenonT(40), <2>1 DEF AcceptInv
  <1> QED
    BY ZenonT(40), <1>7, <1>8, <1>9, <1>10, <1>11 DEF IInv

LEMMA EndSteps ==
    ASSUME IInv, NEW p \in Proc, Exit(p) \/ Crash(p)
    PROVE  IInv'
  <1>1. failed \subseteq Request /\ Range(ch[p]) \subseteq Request /\ Batched(p) \subseteq Request
    <2>1. /\ failed \subseteq Request /\ ch \in [Proc -> Seq(Request)]
          /\ batch \in [Proc -> [Chain -> Seq(Request)]]
      BY Zenon DEF IInv, TypeOK
    <2>2. ch[p] \in Seq(Request) /\ \A c \in Chain : batch[p][c] \in Seq(Request)
      BY Zenon, <2>1
    <2>3. Range(ch[p]) \subseteq Request /\ \A c \in Chain : Range(batch[p][c]) \subseteq Request
      BY ZenonT(40), <2>2, RangeMembers
    <2> QED
      BY Zenon, <2>1, <2>3 DEF Batched
  <1>2. Gone(p) /\ (failed' = failed \/ failed' = failed \cup Range(ch[p]) \cup Batched(p))
    BY DEF Exit, Crash
  <1> QED
    BY Zenon, <1>1, <1>2, GoneStep
----------------------------------------------------------------------------
LEMMA Inductive == Spec => []IInv
  <1>1. IInv /\ [Next]_vars => IInv'
    <2> SUFFICES ASSUME IInv, [Next]_vars PROVE IInv'
      OBVIOUS
    <2>1. CASE UNCHANGED vars
      <3>1. UNCHANGED <<phase, timedOut, req, ch, dropped, rpc, draining, taken, batch, transaction,
                        database, accepted, failed>>
        BY Zenon, <2>1 DEF vars, server, recorder
      <3>2. ChainVerifies' /\ TxInv' /\ Stored' = Stored
        BY Zenon, <3>1, TxUntouched
      <3>3. TypeOK'
        BY ZenonT(40), <3>1 DEF IInv, TypeOK, transaction, database
      <3>4. ControlInv' /\ AcceptInv'
        BY <3>1, <3>2 DEF IInv, ControlInv, Control, InFlight, AcceptInv, Alive, Batched
      <3> QED
        BY <3>2, <3>3, <3>4 DEF IInv
    <2>2. ASSUME NEW r \in Request, Begin(r) \/ Record(r) \/ Finish(r) PROVE IInv'
      BY <2>2, BeginStep, RecordStep, FinishStep
    <2>3. ASSUME NEW p \in Proc, NEW c \in Chain, AppendBegin(p, c) PROVE IInv'
      BY Zenon, <2>3, BeginAppendStep
    <2>4. ASSUME NEW p \in Proc, \/ Receive(p) \/ Cancelled(p) \/ DrainOne(p) \/ DrainEnd(p)
                                 \/ AppendEnd(p) \/ AppendLock(p) \/ AppendHead(p)
                                 \/ AppendInsert(p) \/ AppendCommit(p)
          PROVE  IInv'
      BY ZenonT(40), <2>4, TakeSteps, IdleSteps, LockStep, HeadStep, InsertStep, CommitStep
    <2>5. ASSUME NEW p \in Proc, AppendFails(p) \/ Signal(p) \/ Shutdown(p) \/ Exit(p) \/ Crash(p)
          PROVE  IInv'
      BY <2>5, FailStep, StopSteps, EndSteps
    <2> QED
      BY Zenon, <2>1, <2>2, <2>3, <2>4, <2>5 DEF Next, Recorder
  <1> QED
    BY <1>1, InitHolds, PTL DEF Spec

(***************************************************************************)
(* Every chain passes Verify in every state, for any number of replicas    *)
(* that append to it, fail and crash (Store.Append under its lock).        *)
(***************************************************************************)
THEOREM ChainVerifiesHolds == Spec => []ChainVerifies
  BY Inductive, PTL DEF IInv

(***************************************************************************)
(* The chain head that an Append has read stays the head to the end of its *)
(* transaction (pg_advisory_xact_lock before AuditChainHead).              *)
(***************************************************************************)
THEOREM HeadIsCurrentHolds == Spec => []HeadIsCurrent
  <1>1. IInv => HeadIsCurrent
    BY ZenonT(40) DEF IInv, TxInv, Tx, Continues, HeadIsCurrent
  <1> QED
    BY <1>1, Inductive, PTL

(***************************************************************************)
(* A process whose Shutdown did not time out exits with every event it     *)
(* accepted stored or reported as failed, for any channel capacity and     *)
(* batch size (drainAll, and runServer's order at the end).                *)
(***************************************************************************)
THEOREM DrainedAtExitHolds == Spec => []DrainedAtExit
  <1>1. IInv => DrainedAtExit
    <2> SUFFICES ASSUME IInv, NEW p \in Proc, phase[p] = "cancelled", rpc[p] = "stopped", ~timedOut[p]
                 PROVE  InFlight(p) = {} /\ Range(accepted[p]) \subseteq Stored \cup failed
      BY Zenon DEF DrainedAtExit
    <2>1. InFlight(p) = {} /\ ch[p] = <<>> /\ batch[p] = NoBatch
      BY Zenon DEF IInv, ControlInv, Control
    <2>2. Range(<<>>) = {}
      BY DEF Range
    <2>3. Batched(p) = {}
      BY ZenonT(40), <2>1, <2>2 DEF Batched, NoBatch
    <2>4. \A r \in Range(accepted[p]) : r \in Stored \cup failed \cup Range(ch[p]) \cup Batched(p)
      BY DEF IInv, AcceptInv, Alive
    <2> QED
      BY Zenon, <2>1, <2>2, <2>3, <2>4
  <1> QED
    BY <1>1, Inductive, PTL
----------------------------------------------------------------------------
(* The refinement of AuditTrail. What a recorder still has is the end of   *)
(* what its process accepted: first the batch, then the channel.           *)

\* How much of what p accepted has left the channel, and where its batch begins.
Off(p) == Len(accepted[p]) - Len(ch[p])
First(p) == (Off(p) + 1) - taken[p]

Logged(c) == {table[c][i].ev : i \in DOMAIN table[c]}

\* No event is accepted twice, or by a process other than its request's.
OnceInv ==
    /\ \A p \in Proc : \A i, j \in 1..Len(accepted[p]) : accepted[p][i] = accepted[p][j] => i = j
    /\ \A p \in Proc : \A r \in Range(accepted[p]) : Home[r] = p /\ req[r] \in {"recorded", "done"}
    /\ \A c \in Chain : \A r \in Logged(c) : req[r] \in {"recorded", "done"}

\* A group that is being collected, or is not stored yet, is all of its chain since
\* the batch began, and none of it or of what came later is stored.
Group(p, c) ==
    rpc[p] \in {"select", "drain"} \/ batch[p][c] # <<>> =>
        /\ Len(batch[p][c]) <= taken[p]
        /\ Trail!Selects(batch[p][c], accepted[p], c, First(p), Off(p))
        /\ \A i \in First(p)..Len(accepted[p]) : accepted[p][i] \notin Logged(c)

Queue(p) ==
    /\ ~Alive(p) => rpc[p] = "stopped"
    /\ Alive(p) =>
        /\ Len(ch[p]) + taken[p] <= Len(accepted[p])
        /\ \A i \in 1..Len(ch[p]) : ch[p][i] = accepted[p][Off(p) + i]
        /\ \A c \in Chain : \A i \in (Off(p) + 1)..Len(accepted[p]) : accepted[p][i] \notin Logged(c)
        /\ \A c \in Chain : Group(p, c)
        /\ rpc[p] \in {"lock", "head", "insert"} => batch[p][cur[p]] # <<>>

TrailInv == OnceInv /\ \A p \in Proc : Queue(p)

LEMMA OffBounds ==
    ASSUME NEW p \in Proc, Queue(p), Alive(p),
           accepted[p] \in Seq(Request), ch[p] \in Seq(Request), taken[p] \in Nat
    PROVE  /\ Len(accepted[p]) \in Nat /\ Len(ch[p]) \in Nat
           /\ Off(p) \in 0..Len(accepted[p]) /\ First(p) \in 1..(Off(p) + 1)
           /\ Off(p) + Len(ch[p]) = Len(accepted[p]) /\ First(p) + taken[p] = Off(p) + 1
  <1> DEFINE n == Len(accepted[p])
             m == Len(ch[p])
  <1>1. n \in Nat /\ m \in Nat
    OBVIOUS
  <1>2. m + taken[p] <= n
    BY Zenon DEF Queue
  <1>3. Off(p) = n - m /\ First(p) = (n - m + 1) - taken[p]
    BY Zenon DEF Off, First
  <1> HIDE DEF n, m
  <1>4. /\ n - m \in 0..n /\ (n - m + 1) - taken[p] \in 1..(n - m + 1)
        /\ (n - m) + m = n /\ ((n - m + 1) - taken[p]) + taken[p] = n - m + 1
    BY ZenonT(40), <1>1, <1>2, Unqueued
  <1> QED
    BY ZenonT(40), <1>1, <1>3, <1>4 DEF n, m

\* A step that neither moves p's events nor stores any of them.
LEMMA QueueKept ==
    ASSUME NEW p \in Proc, Queue(p), Alive(p)' <=> Alive(p), rpc[p] = "stopped" => rpc'[p] = "stopped",
           accepted'[p] = accepted[p], ch'[p] = ch[p], batch'[p] = batch[p], taken'[p] = taken[p],
           rpc'[p] \in {"select", "drain"} => rpc[p] \in {"select", "drain"},
           rpc'[p] \in {"lock", "head", "insert"} => batch[p][cur'[p]] # <<>>,
           \A c \in Chain : \A r \in Range(accepted[p]) : r \in Logged(c)' => r \in Logged(c),
           accepted[p] \in Seq(Request), ch[p] \in Seq(Request), taken[p] \in Nat
    PROVE  Queue(p)'
  <1> SUFFICES ASSUME Alive(p), Alive(p)' PROVE Queue(p)'
    BY ZenonT(40) DEF Queue
  <1>1. Off(p)' = Off(p) /\ First(p)' = First(p)
    BY Zenon DEF Off, First
  <1>2. /\ Len(accepted[p]) \in Nat /\ Len(ch[p]) + taken[p] <= Len(accepted[p])
        /\ \A i \in 1..Len(ch[p]) : ch[p][i] = accepted[p][Off(p) + i]
    BY ZenonT(40), OffBounds DEF Queue
  <1>3. First(p) \in 1..(Off(p) + 1) /\ Off(p) \in 0..Len(accepted[p])
    BY Zenon, OffBounds
  <1>4. \A i \in First(p)..Len(accepted[p]) : accepted[p][i] \in Range(accepted[p])
    <2>1. \A i \in First(p)..Len(accepted[p]) : i \in 1..Len(accepted[p])
      BY Zenon, <1>2, <1>3, Window
    <2> QED
      BY Zenon, <2>1, RangeMembers
  <1>5. ASSUME NEW c \in Chain PROVE Group(p, c)'
    <2>1. Group(p, c)
      BY ZenonT(40) DEF Queue
    <2> QED
      BY ZenonT(40), <1>1, <1>4, <2>1 DEF Group
  <1>6. ASSUME NEW c \in Chain, NEW i \in (Off(p) + 1)..Len(accepted[p])
        PROVE  accepted[p][i] \notin Logged(c)'
    <2>1. i \in First(p)..Len(accepted[p])
      BY Zenon, <1>2, <1>3, Window
    <2>2. accepted[p][i] \notin Logged(c)
      BY ZenonT(40) DEF Queue
    <2> QED
      BY Zenon, <1>4, <2>1, <2>2
  <1> QED
    BY ZenonT(40), <1>1, <1>2, <1>5, <1>6 DEF Queue

LEMMA TrailTypes ==
    ASSUME TypeOK
    PROVE  \A p \in Proc : /\ accepted[p] \in Seq(Request) /\ ch[p] \in Seq(Request)
                           /\ Len(accepted[p]) \in Nat /\ Len(ch[p]) \in Nat /\ taken[p] \in Nat
                           /\ DOMAIN accepted[p] = 1..Len(accepted[p])
                           /\ DOMAIN ch[p] = 1..Len(ch[p])
                           /\ \A c \in Chain : batch[p][c] \in Seq(Request)
  <1>1. MaxBatch \in Nat
    BY Zenon, ConstantsOK
  <1>2. \A p \in Proc : taken[p] \in Nat
    BY <1>1 DEF TypeOK
  <1>3. \A p \in Proc : accepted[p] \in Seq(Request) /\ ch[p] \in Seq(Request)
    BY Zenon DEF TypeOK
  <1>4. \A p \in Proc, c \in Chain : batch[p][c] \in Seq(Request)
    BY DEF TypeOK
  <1> QED
    BY <1>2, <1>3, <1>4

LEMMA LoggedType == ASSUME TypeOK PROVE \A c \in Chain : Logged(c) \subseteq Request
  <1>1. \A c \in Chain : table[c] \in Seq(Row)
    BY DEF TypeOK
  <1>2. \A c \in Chain : \A i \in DOMAIN table[c] : table[c][i] \in Row
    BY <1>1
  <1>3. \A row \in Row : row.ev \in Request
    BY Zenon DEF Row
  <1> QED
    BY Zenon, <1>2, <1>3 DEF Logged

\* Steps that move no event and store none.
LEMMA TrailUntouched ==
    ASSUME TypeOK, TrailInv, UNCHANGED <<accepted, table, ch, batch, taken>>,
           \A r \in Request : req[r] \in {"recorded", "done"} => req'[r] \in {"recorded", "done"},
           \A p \in Proc :
               /\ Alive(p)' <=> Alive(p)
               /\ rpc[p] = "stopped" => rpc'[p] = "stopped"
               /\ rpc'[p] \in {"select", "drain"} => rpc[p] \in {"select", "drain"}
               /\ rpc'[p] \in {"lock", "head", "insert"} => batch[p][cur'[p]] # <<>>
    PROVE  TrailInv'
  <1>1. \A c \in Chain : Logged(c)' = Logged(c)
    BY Zenon DEF Logged
  <1>2. \A p \in Proc : accepted[p] \in Seq(Request) /\ ch[p] \in Seq(Request) /\ taken[p] \in Nat
    BY ZenonT(40), TrailTypes
  <1>3. \A p \in Proc : Range(accepted[p]) \subseteq Request
    BY <1>2 DEF Range
  <1>4. \A c \in Chain : Logged(c) \subseteq Request
    BY ZenonT(40), LoggedType
  <1>5. OnceInv'
    BY <1>1, <1>3, <1>4 DEF TrailInv, OnceInv
  <1>6. ASSUME NEW p \in Proc PROVE Queue(p)'
    <2>1. Queue(p)
      BY ZenonT(40) DEF TrailInv
    <2> QED
      BY ZenonT(40), <1>1, <1>2, <2>1, QueueKept
  <1> QED
    BY Zenon, <1>5, <1>6 DEF TrailInv

LEMMA GroupNonempty ==
    ASSUME TrailInv
    PROVE  \A p \in Proc : rpc[p] \in {"lock", "head", "insert"} => batch[p][cur[p]] # <<>>
  BY ZenonT(40) DEF TrailInv, Queue

LEMMA RequestStepsTrail ==
    ASSUME IInv, TrailInv, NEW r \in Request, Begin(r) \/ Finish(r)
    PROVE  TrailInv'
  <1>1. /\ UNCHANGED <<phase, ch, rpc, taken, batch, cur, table, accepted>>
        /\ \/ req[r] = "new" /\ req' = [req EXCEPT ![r] = "running"]
           \/ req[r] = "recorded" /\ req' = [req EXCEPT ![r] = "done"]
    BY Zenon DEF Begin, Finish, recorder, transaction, database
  <1>2. \A x \in Request : req[x] \in {"recorded", "done"} => req'[x] \in {"recorded", "done"}
    BY ZenonT(40), <1>1 DEF IInv, TypeOK
  <1>3. \A p \in Proc : rpc[p] \in {"lock", "head", "insert"} => batch[p][cur[p]] # <<>>
    BY GroupNonempty
  <1>4. \A p \in Proc : Alive(p)' <=> Alive(p)
    BY Zenon, <1>1 DEF Alive
  <1> QED
    BY Zenon, <1>1, <1>2, <1>3, <1>4, TrailUntouched DEF IInv

LEMMA StopStepsTrail ==
    ASSUME IInv, TrailInv, NEW p \in Proc, Signal(p) \/ Shutdown(p)
    PROVE  TrailInv'
  <1>1. /\ UNCHANGED <<req, ch, rpc, taken, batch, cur, table, accepted>>
        /\ phase[p] # "gone"
        /\ \E ph \in {"stopping", "cancelled"} : phase' = [phase EXCEPT ![p] = ph]
    BY Zenon DEF Signal, Shutdown, recorder, transaction, database
  <1>2. \A q \in Proc : Alive(q)' <=> Alive(q)
    BY Zenon, <1>1 DEF IInv, TypeOK, Alive
  <1>3. \A q \in Proc : rpc[q] \in {"lock", "head", "insert"} => batch[q][cur[q]] # <<>>
    BY GroupNonempty
  <1> QED
    BY ZenonT(40), <1>1, <1>2, <1>3, TrailUntouched DEF IInv

\* Steps of the recorder that only move on.
LEMMA MovesTrail ==
    ASSUME IInv, TrailInv, NEW p \in Proc,
           \/ Cancelled(p) \/ DrainEnd(p) \/ AppendLock(p) \/ AppendHead(p) \/ AppendInsert(p)
           \/ \E c \in Chain : AppendBegin(p, c)
    PROVE  TrailInv'
  <1>1. UNCHANGED <<phase, req, ch, taken, batch, table, accepted>>
    BY ZenonT(40) DEF Cancelled, DrainEnd, AppendLock, AppendHead, AppendInsert, AppendBegin, InsertAuditEvent,
           server, database
  <1>2. \A q \in Proc : rpc[q] \in {"lock", "head", "insert"} => batch[q][cur[q]] # <<>>
    BY GroupNonempty
  <1>3. /\ \A q \in Proc \ {p} : rpc'[q] = rpc[q] /\ cur'[q] = cur[q]
        /\ rpc[p] # "stopped"
        /\ rpc'[p] \in {"select", "drain"} => rpc[p] \in {"select", "drain"}
        /\ rpc'[p] \in {"lock", "head", "insert"} => batch[p][cur'[p]] # <<>>
    <2>0. rpc \in [Proc -> RPC] /\ cur \in [Proc -> Chain \cup {None}]
      BY Zenon DEF IInv, TypeOK
    <2>1. CASE Cancelled(p)
      BY ZenonT(40), <2>0, <2>1 DEF Cancelled, Goto, transaction
    <2>2. CASE DrainEnd(p)
      BY ZenonT(40), <2>0, <2>2 DEF DrainEnd, Goto, transaction
    <2>3. CASE AppendLock(p)
      BY ZenonT(40), <1>2, <2>0, <2>3 DEF AppendLock, Goto, transaction
    <2>4. CASE AppendHead(p)
      BY ZenonT(40), <1>2, <2>0, <2>4 DEF AppendHead, Goto
    <2>5. CASE AppendInsert(p)
      BY ZenonT(40), <1>2, <2>0, <2>5 DEF AppendInsert
    <2>6. ASSUME NEW c \in Chain, AppendBegin(p, c)
          PROVE  /\ \A q \in Proc \ {p} : rpc'[q] = rpc[q] /\ cur'[q] = cur[q]
                 /\ rpc[p] # "stopped" /\ rpc'[p] = "lock" /\ batch[p][cur'[p]] # <<>>
      BY ZenonT(40), <2>0, <2>6 DEF AppendBegin, Goto
    <2> QED
      BY ZenonT(40), <2>1, <2>2, <2>3, <2>4, <2>5, <2>6
  <1>4. \A q \in Proc : Alive(q)' <=> Alive(q)
    BY <1>1 DEF Alive
  <1> QED
    BY ZenonT(40), <1>1, <1>2, <1>3, <1>4, TrailUntouched DEF IInv

LEMMA GoneTrail ==
    ASSUME IInv, TrailInv, NEW p \in Proc, Exit(p) \/ Crash(p)
    PROVE  TrailInv'
  <1>1. /\ UNCHANGED <<req, table, accepted>>
        /\ phase' = [phase EXCEPT ![p] = "gone"] /\ rpc' = [rpc EXCEPT ![p] = "stopped"]
        /\ ch' = [ch EXCEPT ![p] = <<>>] /\ taken' = [taken EXCEPT ![p] = 0]
        /\ batch' = [batch EXCEPT ![p] = NoBatch] /\ cur' = [cur EXCEPT ![p] = None]
    BY ZenonT(40) DEF Exit, Crash, Gone, EndTx
  <1>2. \A c \in Chain : Logged(c)' = Logged(c)
    BY ZenonT(40), <1>1 DEF Logged
  <1>3. OnceInv'
    BY ZenonT(40), <1>1, <1>2 DEF TrailInv, OnceInv
  <1>4. Queue(p)'
    BY <1>1 DEF IInv, TypeOK, Queue, Alive
  <1>5. ASSUME NEW q \in Proc, q # p PROVE Queue(q)'
    <2>1. /\ phase'[q] = phase[q] /\ ch'[q] = ch[q] /\ batch'[q] = batch[q] /\ taken'[q] = taken[q]
          /\ rpc'[q] = rpc[q] /\ cur'[q] = cur[q] /\ accepted'[q] = accepted[q]
      BY Zenon, <1>1, <1>5 DEF IInv, TypeOK
    <2>2. accepted[q] \in Seq(Request) /\ ch[q] \in Seq(Request) /\ taken[q] \in Nat
      BY Zenon, TrailTypes DEF IInv
    <2>3. Queue(q) /\ (rpc[q] \in {"lock", "head", "insert"} => batch[q][cur[q]] # <<>>)
      BY Zenon, GroupNonempty DEF TrailInv
    <2>4. Alive(q)' <=> Alive(q)
      BY Zenon, <2>1 DEF Alive
    <2> QED
      BY ZenonT(40), <1>2, <2>1, <2>2, <2>3, <2>4, QueueKept
  <1> QED
    BY <1>3, <1>4, <1>5 DEF TrailInv

LEMMA SelectsKept ==
    ASSUME NEW s, NEW a, NEW b, NEW c, NEW lo, NEW hi,
           Trail!Selects(s, a, c, lo, hi), \A k \in lo..hi : b[k] = a[k]
    PROVE  Trail!Selects(s, b, c, lo, hi)
  BY ZenonT(40) DEF Trail!Selects

\* The next event is the last of its chain's group, and of no other.
LEMMA SelectsMore ==
    ASSUME NEW s \in Seq(Request), NEW a \in Seq(Request), NEW c \in Chain,
           NEW lo \in Nat, NEW hi \in Nat, lo >= 1, lo <= hi + 1, hi + 1 <= Len(a),
           \A i, j \in 1..Len(a) : a[i] = a[j] => i = j,
           Trail!Selects(s, a, c, lo, hi)
    PROVE  IF ChainOf[a[hi + 1]] = c
           THEN Trail!Selects(Append(s, a[hi + 1]), a, c, lo, hi + 1)
           ELSE Trail!Selects(s, a, c, lo, hi + 1)
  <1> DEFINE e == a[hi + 1]
             u == Append(s, e)
  <1>1. Len(a) \in Nat /\ Len(s) \in Nat
    OBVIOUS
  <1>2. /\ hi + 1 \in lo..(hi + 1) /\ hi + 1 \in 1..Len(a)
        /\ \A k \in lo..(hi + 1) : k \in lo..hi \/ k = hi + 1
        /\ \A k \in lo..hi : k \in lo..(hi + 1) /\ k \in 1..Len(a) /\ k < hi + 1
    BY <1>1
  <1>3. e \in Request
    BY <1>2
  <1>4. /\ Range(s) = {a[k] : k \in {k \in lo..hi : ChainOf[a[k]] = c}}
        /\ \A i, j \in DOMAIN s, k, l \in lo..hi : i < j /\ s[i] = a[k] /\ s[j] = a[l] => k < l
    BY ZenonT(40) DEF Trail!Selects, Trail!Range, Range
  <1>5. e \notin Range(s)
    BY SMTT(30), <1>2, <1>4
  <1>6. CASE ChainOf[e] # c
    <2>1. {k \in lo..(hi + 1) : ChainOf[a[k]] = c} = {k \in lo..hi : ChainOf[a[k]] = c}
      BY ZenonT(40), <1>2, <1>6
    <2>2. ASSUME NEW i \in DOMAIN s, NEW j \in DOMAIN s, NEW k \in lo..(hi + 1), NEW l \in lo..(hi + 1),
                 i < j, s[i] = a[k], s[j] = a[l]
          PROVE  k < l
      <3>1. s[i] \in Range(s) /\ s[j] \in Range(s)
        BY ZenonT(40) DEF Range
      <3>2. k \in lo..hi /\ l \in lo..hi
        BY Zenon, <1>2, <1>5, <2>2, <3>1
      <3> QED
        BY ZenonT(40), <1>4, <2>2, <3>2
    <2> QED
      BY ZenonT(40), <1>4, <1>6, <2>1, <2>2 DEF Trail!Selects
  <1>7. CASE ChainOf[e] = c
    <2>1. {k \in lo..(hi + 1) : ChainOf[a[k]] = c} = {k \in lo..hi : ChainOf[a[k]] = c} \cup {hi + 1}
      BY Zenon, <1>2, <1>7
    <2>2. Range(u) = Range(s) \cup {e}
      BY ZenonT(40), <1>3, AppendRequest
    <2>3. Range(u) = {a[k] : k \in {k \in lo..(hi + 1) : ChainOf[a[k]] = c}}
      BY <1>4, <2>1, <2>2
    <2>4. /\ DOMAIN s = 1..Len(s) /\ DOMAIN u = 1..(Len(s) + 1)
          /\ \A i \in 1..Len(s) : u[i] = s[i] /\ s[i] \in Range(s)
          /\ u[Len(s) + 1] = e
      <3>1. DOMAIN s = 1..Len(s) /\ \A i \in 1..Len(s) : s[i] \in Range(s)
        BY Zenon, Requests
      <3>2. DOMAIN u = 1..(Len(s) + 1)
        BY Zenon, <1>3, AppendRequest
      <3>3. \A i \in 1..Len(s) : u[i] = s[i]
        BY ZenonT(40), <1>3, AppendRequest
      <3>4. u[Len(s) + 1] = e
        BY Zenon, <1>3, AppendRequest
      <3> QED
        BY Zenon, <3>1, <3>2, <3>3, <3>4
    <2> HIDE DEF u
    <2>5. ASSUME NEW i \in DOMAIN u, NEW j \in DOMAIN u, NEW k \in lo..(hi + 1), NEW l \in lo..(hi + 1),
                 i < j, u[i] = a[k], u[j] = a[l]
          PROVE  k < l
      <3>0. j \in 1..Len(s) \/ j = Len(s) + 1
        BY ZenonT(40), <1>1, <2>4, NextIndex
      <3>1. i \in 1..Len(s)
        BY <1>1, <2>4, <2>5
      <3>2. k \in lo..hi
        BY ZenonT(40), <1>2, <1>5, <2>4, <2>5, <3>1
      <3>3. CASE j \in 1..Len(s)
        <4>1. l \in lo..hi
          BY Zenon, <1>2, <1>5, <2>4, <2>5, <3>3
        <4> QED
          BY ZenonT(40), <1>4, <2>4, <2>5, <3>1, <3>2, <3>3, <4>1
      <3>4. CASE j = Len(s) + 1
        <4>1. l = hi + 1
          <5>1. a[l] = a[hi + 1] /\ l \in 1..Len(a)
            BY ZenonT(40), <1>2, <2>4, <2>5, <3>4
          <5> QED
            BY Zenon, <1>2, <5>1
        <4> QED
          BY Zenon, <1>2, <3>2, <4>1
      <3> QED
        BY Zenon, <3>0, <3>3, <3>4
    <2> QED
      BY ZenonT(40), <1>7, <2>3, <2>5 DEF Trail!Selects, Trail!Range, Range, u
  <1> QED
    BY Zenon, <1>6, <1>7

\* What a request recorded is at the end of what its process accepted and queued.
LEMMA RecordTrail ==
    ASSUME IInv, TrailInv, NEW r \in Request, Record(r)
    PROVE  /\ TrailInv'
           /\ \/ UNCHANGED accepted
              \/ \E p \in Proc : /\ accepted' = [accepted EXCEPT ![p] = Append(accepted[p], r)]
                                 /\ \A q \in Proc : r \notin Range(accepted[q])
  <1> DEFINE p == Home[r]
  <1>0. p \in Proc
    BY Zenon, ConstantsOK
  <1>1. /\ UNCHANGED <<phase, rpc, taken, batch, cur, table>>
        /\ req[r] = "running" /\ req' = [req EXCEPT ![r] = "recorded"] /\ Alive(p)
        /\ \/ /\ ch' = [ch EXCEPT ![p] = Append(ch[p], r)]
              /\ accepted' = [accepted EXCEPT ![p] = Append(accepted[p], r)]
           \/ UNCHANGED <<ch, accepted>>
    BY Zenon DEF Record, recorder, transaction, database
  <1> HIDE DEF p
  <1>2. \A x \in Request : req[x] \in {"recorded", "done"} => req'[x] \in {"recorded", "done"}
    BY Zenon, <1>1 DEF IInv, TypeOK
  <1>3. \A q \in Proc : rpc[q] \in {"lock", "head", "insert"} => batch[q][cur[q]] # <<>>
    BY Zenon, GroupNonempty
  <1>4. \A q \in Proc : Alive(q)' <=> Alive(q)
    BY <1>1 DEF Alive
  <1>5. CASE UNCHANGED <<ch, accepted>>
    BY ZenonT(40), <1>1, <1>2, <1>3, <1>4, <1>5, TrailUntouched DEF IInv
  <1>6. CASE /\ ch' = [ch EXCEPT ![p] = Append(ch[p], r)]
             /\ accepted' = [accepted EXCEPT ![p] = Append(accepted[p], r)]
    <2> DEFINE a == accepted[p]
               n == Len(a)
               m == Len(ch[p])
    <2>1. /\ a \in Seq(Request) /\ ch[p] \in Seq(Request) /\ n \in Nat /\ m \in Nat /\ taken[p] \in Nat
          /\ DOMAIN a = 1..n
      BY Zenon, <1>0, TrailTypes DEF IInv
    <2>2. /\ accepted'[p] = Append(a, r) /\ ch'[p] = Append(ch[p], r)
          /\ \A q \in Proc : q # p => accepted'[q] = accepted[q] /\ ch'[q] = ch[q]
      BY ZenonT(40), <1>0, <1>6 DEF IInv, TypeOK
    <2>3. /\ Len(accepted'[p]) = n + 1 /\ Len(ch'[p]) = m + 1
          /\ accepted'[p][n + 1] = r /\ ch'[p][m + 1] = r
          /\ \A i \in 1..n : accepted'[p][i] = a[i]
          /\ \A i \in 1..m : ch'[p][i] = ch[p][i]
          /\ Range(accepted'[p]) = Range(a) \cup {r}
      <3>1. /\ Len(Append(a, r)) = n + 1 /\ Append(a, r)[n + 1] = r
            /\ \A i \in 1..n : Append(a, r)[i] = a[i]
            /\ Range(Append(a, r)) = Range(a) \cup {r}
        BY Zenon, <2>1, AppendRequest
      <3>2. /\ Len(Append(ch[p], r)) = m + 1 /\ Append(ch[p], r)[m + 1] = r
            /\ \A i \in 1..m : Append(ch[p], r)[i] = ch[p][i]
        BY Zenon, <2>1, AppendRequest
      <3> QED
        BY Zenon, <2>2, <3>1, <3>2
    <2>4. \A q \in Proc : r \notin Range(accepted[q])
      BY Zenon, <1>1 DEF TrailInv, OnceInv
    <2>5. \A c \in Chain : Logged(c)' = Logged(c) /\ r \notin Logged(c)
      <3>1. \A c \in Chain : Logged(c)' = Logged(c)
        BY Zenon, <1>1 DEF Logged
      <3>2. \A c \in Chain : r \notin Logged(c)
        BY Zenon, <1>1 DEF TrailInv, OnceInv
      <3> QED
        BY ZenonT(40), <3>1, <3>2
    <2>6. Queue(p) /\ Off(p) \in 0..n /\ First(p) \in 1..(Off(p) + 1) /\ Off(p) + m = n
      BY Zenon, <1>0, <1>1, <2>1, OffBounds DEF TrailInv
    <2>7. Off(p)' = Off(p) /\ First(p)' = First(p)
      <3>1. (n + 1) - (m + 1) = n - m
        BY Zenon, <2>1, <2>6, Shifted
      <3> QED
        BY Zenon, <1>1, <2>3, <3>1 DEF Off, First
    <2>8. \A i \in 1..(n + 1) : i \in 1..n \/ i = n + 1
      BY Zenon, <2>1, NextIndex
    <2> HIDE DEF n, m, a
    <2>9. OnceInv'
      <3>1. \A q \in Proc : Range(accepted[q]) \subseteq Request
        BY Zenon, TrailTypes, RangeMembers DEF IInv
      <3>2. Range(accepted'[p]) = Range(a) \cup {r}
        BY Zenon, <2>3
      <3>3. \A q \in Proc : \A x \in Range(accepted'[q]) : Home[x] = q /\ req'[x] \in {"recorded", "done"}
        <4>1. ASSUME NEW q \in Proc, NEW x \in Range(accepted[q])
              PROVE  Home[x] = q /\ req'[x] \in {"recorded", "done"}
          BY Zenon, <1>2, <3>1 DEF TrailInv, OnceInv
        <4>2. Home[r] = p /\ req'[r] = "recorded"
          BY Zenon, <1>1 DEF IInv, TypeOK, p
        <4>3. ASSUME NEW x \in Range(accepted'[p])
              PROVE  Home[x] = p /\ req'[x] \in {"recorded", "done"}
          BY Zenon, <1>0, <3>2, <4>1, <4>2 DEF a
        <4>4. ASSUME NEW q \in Proc, q # p, NEW x \in Range(accepted'[q])
              PROVE  Home[x] = q /\ req'[x] \in {"recorded", "done"}
          BY Zenon, <2>2, <4>1, <4>4
        <4> QED
          BY Zenon, <4>3, <4>4
      <3>4. ASSUME NEW q \in Proc, NEW i \in 1..Len(accepted'[q]), NEW j \in 1..Len(accepted'[q]),
                   accepted'[q][i] = accepted'[q][j]
            PROVE  i = j
        <4>1. CASE q # p
          <5>1. i \in 1..Len(accepted[q]) /\ j \in 1..Len(accepted[q]) /\ accepted[q][i] = accepted[q][j]
            BY Zenon, <2>2, <3>4, <4>1
          <5> QED
            BY Zenon, <5>1 DEF TrailInv, OnceInv
        <4>2. CASE q = p
          <5>1. \A k \in 1..n : a[k] \in Range(a) /\ a[k] # r
            <6>1. \A k \in 1..n : a[k] \in Range(a)
              BY Zenon, <2>1, Requests DEF n
            <6>2. r \notin Range(a)
              BY Zenon, <1>0, <2>4 DEF a
            <6> QED
              BY Zenon, <6>1, <6>2
          <5>2. \A k, l \in 1..n : a[k] = a[l] => k = l
            BY ZenonT(40), <1>0 DEF TrailInv, OnceInv, a, n
          <5> QED
            BY ZenonT(40), <2>3, <2>8, <3>4, <4>2, <5>1, <5>2
        <4> QED
          BY Zenon, <4>1, <4>2
      <3>5. \A c \in Chain : \A x \in Logged(c)' : req'[x] \in {"recorded", "done"}
        <4>1. \A c \in Chain : Logged(c) \subseteq Request
          BY LoggedType DEF IInv
        <4> QED
          BY ZenonT(40), <1>2, <2>5, <4>1 DEF TrailInv, OnceInv
      <3> QED
        BY Zenon, <3>3, <3>4, <3>5 DEF OnceInv
    <2>10. Queue(p)'
      <3>1. /\ m + taken[p] <= n /\ \A i \in 1..m : ch[p][i] = a[Off(p) + i]
            /\ \A c \in Chain : \A i \in (Off(p) + 1)..n : a[i] \notin Logged(c)
            /\ \A c \in Chain : Group(p, c)
        BY ZenonT(40), <1>1, <2>6 DEF Queue, a, n, m
      <3>2. (m + 1) + taken[p] <= n + 1
        BY <2>1, <3>1
      <3>3. ASSUME NEW i \in 1..(m + 1) PROVE ch'[p][i] = accepted'[p][Off(p) + i]
        <4>1. CASE i \in 1..m
          <5>1. Off(p) + i \in 1..n
            BY Zenon, <2>1, <2>6, <4>1, Shifted
          <5> QED
            BY ZenonT(40), <2>3, <3>1, <4>1, <5>1
        <4>2. CASE i = m + 1
          <5>1. Off(p) + i = n + 1
            BY Zenon, <2>1, <2>6, <4>2, Shifted
          <5>2. ch'[p][i] = r /\ accepted'[p][n + 1] = r
            BY Zenon, <2>3, <4>2
          <5> QED
            BY Zenon, <5>1, <5>2
        <4> QED
          BY Zenon, <2>1, <4>1, <4>2, NextIndex
      <3>4. ASSUME NEW c \in Chain, NEW i \in 1..(n + 1), i \in 1..n => a[i] \notin Logged(c)
            PROVE  accepted'[p][i] \notin Logged(c)'
        BY ZenonT(40), <2>3, <2>5, <2>8, <3>4
      <3>5. ASSUME NEW c \in Chain, NEW i \in (Off(p) + 1)..(n + 1)
            PROVE  accepted'[p][i] \notin Logged(c)'
        <4>1. i \in 1..(n + 1) /\ (i \in 1..n => i \in (Off(p) + 1)..n)
          BY ZenonT(40), <2>1, <2>6, Window
        <4> QED
          BY ZenonT(40), <3>1, <3>4, <4>1
      <3>6. ASSUME NEW c \in Chain PROVE Group(p, c)'
        <4> SUFFICES ASSUME rpc[p] \in {"select", "drain"} \/ batch[p][c] # <<>>
                     PROVE  /\ Len(batch[p][c]) <= taken[p]
                            /\ Trail!Selects(batch[p][c], accepted'[p], c, First(p), Off(p))
                            /\ \A i \in First(p)..(n + 1) : accepted'[p][i] \notin Logged(c)'
          BY ZenonT(40), <1>1, <2>3, <2>7 DEF Group
        <4>1. /\ Len(batch[p][c]) <= taken[p]
              /\ Trail!Selects(batch[p][c], a, c, First(p), Off(p))
              /\ \A i \in First(p)..n : a[i] \notin Logged(c)
          BY ZenonT(40), <3>1 DEF Group, a, n
        <4>2. \A k \in First(p)..Off(p) : accepted'[p][k] = a[k]
          <5>1. \A k \in First(p)..Off(p) : k \in 1..n
            BY Zenon, <2>1, <2>6, Window
          <5> QED
            BY Zenon, <2>3, <5>1
        <4>3. Trail!Selects(batch[p][c], accepted'[p], c, First(p), Off(p))
          BY ZenonT(40), <4>1, <4>2, SelectsKept
        <4>4. ASSUME NEW i \in First(p)..(n + 1) PROVE accepted'[p][i] \notin Logged(c)'
          <5>1. i \in 1..(n + 1) /\ (i \in 1..n => i \in First(p)..n)
            BY ZenonT(40), <2>1, <2>6, Window
          <5> QED
            BY ZenonT(40), <3>4, <4>1, <5>1
        <4> QED
          BY ZenonT(40), <4>1, <4>3, <4>4
      <3>7. Alive(p)' /\ (rpc'[p] \in {"lock", "head", "insert"} => batch'[p][cur'[p]] # <<>>)
        BY Zenon, <1>0, <1>1, <1>3, <1>4
      <3> QED
        BY ZenonT(40), <1>1, <2>3, <2>7, <3>2, <3>3, <3>5, <3>6, <3>7 DEF Queue
    <2>11. ASSUME NEW q \in Proc, q # p PROVE Queue(q)'
      <3>1. accepted[q] \in Seq(Request) /\ ch[q] \in Seq(Request) /\ taken[q] \in Nat
        BY TrailTypes DEF IInv
      <3>2. Queue(q)
        BY DEF TrailInv
      <3> QED
        BY ZenonT(40), <1>1, <1>3, <1>4, <2>2, <2>5, <2>11, <3>1, <3>2, QueueKept
    <2>12. TrailInv'
      BY Zenon, <2>9, <2>10, <2>11 DEF TrailInv
    <2> QED
      BY ZenonT(40), <1>0, <1>6, <2>4, <2>12
  <1> QED
    BY <1>1, <1>5, <1>6

\* The recorder takes the next event off the channel.
LEMMA TakeTrail ==
    ASSUME IInv, TrailInv, NEW p \in Proc, Receive(p) \/ DrainOne(p)
    PROVE  TrailInv'
  <1> DEFINE a == accepted[p]
             n == Len(a)
             m == Len(ch[p])
             e == Head(ch[p])
             d == ChainOf[e]
             hi == Off(p)
             lo == First(p)
  <1>1. /\ UNCHANGED <<phase, req, cur, table, accepted>>
        /\ rpc[p] \in {"select", "drain"} /\ rpc' = [rpc EXCEPT ![p] = "drain"] /\ ch[p] # <<>>
        /\ taken' = [taken EXCEPT ![p] = taken[p] + 1] /\ ch' = [ch EXCEPT ![p] = Tail(ch[p])]
        /\ batch' = [batch EXCEPT ![p] = [batch[p] EXCEPT ![d] = Append(batch[p][d], e)]]
    <2>1. rpc \in [Proc -> RPC]
      BY Zenon DEF IInv, TypeOK
    <2> QED
      BY Zenon, <2>1 DEF Receive, DrainOne, Take, Goto, server, transaction, database
  <1>2. /\ a \in Seq(Request) /\ ch[p] \in Seq(Request) /\ n \in Nat /\ m \in Nat /\ taken[p] \in Nat
        /\ \A c \in Chain : batch[p][c] \in Seq(Request)
    BY Zenon, TrailTypes DEF IInv
  <1>3. Queue(p) /\ Alive(p)
    BY Zenon, <1>1 DEF TrailInv, Queue
  <1>4. hi \in 0..n /\ lo \in 1..(hi + 1) /\ hi + m = n /\ lo + taken[p] = hi + 1
    BY Zenon, <1>2, <1>3, OffBounds
  <1>5. /\ m + taken[p] <= n /\ \A i \in 1..m : ch[p][i] = a[hi + i]
        /\ \A c \in Chain : \A i \in (hi + 1)..n : a[i] \notin Logged(c)
        /\ \A c \in Chain : Group(p, c)
    BY ZenonT(40), <1>3 DEF Queue
  <1>6. /\ m \in Nat \ {0} /\ e \in Request /\ e = ch[p][1] /\ Len(Tail(ch[p])) = m - 1
        /\ \A i \in 1..(m - 1) : Tail(ch[p])[i] = ch[p][i + 1]
    BY Zenon, <1>1, <1>2, TailParts
  <1>7. e = a[hi + 1]
    <2>1. 1 \in 1..m
      BY <1>6
    <2> QED
      BY ZenonT(40), <1>5, <1>6, <2>1
  <1>8. d \in Chain
    BY Zenon, <1>6, ConstantsOK
  <1>9. \A c \in Chain : Logged(c)' = Logged(c)
    BY Zenon, <1>1 DEF Logged
  <1> HIDE DEF e, d
  <1>10. /\ taken'[p] = taken[p] + 1 /\ ch'[p] = Tail(ch[p]) /\ accepted'[p] = a /\ rpc'[p] = "drain"
         /\ \A c \in Chain : batch'[p][c] = IF c = d THEN Append(batch[p][c], e) ELSE batch[p][c]
    <2>1. batch \in [Proc -> [Chain -> Seq(Request)]]
      BY DEF IInv, TypeOK
    <2> QED
      BY ZenonT(40), <1>1, <1>8, <2>1 DEF IInv, TypeOK
  <1>11. /\ \A q \in Proc : q # p => /\ ch'[q] = ch[q] /\ taken'[q] = taken[q] /\ batch'[q] = batch[q]
                                     /\ rpc'[q] = rpc[q]
    BY Zenon, <1>1 DEF IInv, TypeOK
  <1>12. Off(p)' = hi + 1 /\ First(p)' = lo
    <2>1. hi = n - m /\ lo = ((n - m) + 1) - taken[p]
      BY Zenon DEF Off, First
    <2>2. /\ Off(p)' = n - (m - 1) /\ First(p)' = ((n - (m - 1)) + 1) - (taken[p] + 1)
      BY ZenonT(40), <1>6, <1>10 DEF Off, First
    <2>3. n - (m - 1) = (n - m) + 1 /\ ((n - (m - 1)) + 1) - (taken[p] + 1) = ((n - m) + 1) - taken[p]
      BY ZenonT(40), <1>2, OneTaken
    <2> HIDE DEF n, m, hi, lo
    <2> QED
      BY Zenon, <2>1, <2>2, <2>3
  <1> HIDE DEF a, n, m, hi, lo
  <1>13. OnceInv'
    BY SMTT(30), <1>1, <1>9 DEF TrailInv, OnceInv
  <1>14. ASSUME NEW c \in Chain PROVE Group(p, c)'
    <2>1. /\ Len(batch[p][c]) <= taken[p] /\ Trail!Selects(batch[p][c], a, c, lo, hi)
          /\ \A i \in lo..n : a[i] \notin Logged(c)
      BY ZenonT(40), <1>1, <1>5 DEF Group, a, n, lo, hi
    <2>2. \A i, j \in 1..Len(a) : a[i] = a[j] => i = j
      BY DEF TrailInv, OnceInv, a
    <2>3. lo \in Nat /\ hi \in Nat /\ lo >= 1 /\ lo <= hi + 1 /\ hi + 1 <= Len(a)
      <3>1. n \in Nat /\ m \in Nat \ {0}
        BY ZenonT(40), <1>2, <1>6
      <3>2. lo \in Nat /\ hi \in Nat /\ lo >= 1 /\ lo <= hi + 1 /\ hi + 1 <= n
        BY <1>4, <3>1
      <3> QED
        BY Zenon, <3>2 DEF n
    <2>4. Trail!Selects(batch'[p][c], a, c, lo, hi + 1)
      <3>1. IF ChainOf[a[hi + 1]] = c
            THEN Trail!Selects(Append(batch[p][c], a[hi + 1]), a, c, lo, hi + 1)
            ELSE Trail!Selects(batch[p][c], a, c, lo, hi + 1)
        <4>1. a \in Seq(Request) /\ batch[p][c] \in Seq(Request)
          BY ZenonT(40), <1>2
        <4>2. Trail!Selects(batch[p][c], a, c, lo, hi)
          BY ZenonT(40), <2>1
        <4> QED
          BY ZenonT(40), <2>2, <2>3, <4>1, <4>2, SelectsMore
      <3>2. d = ChainOf[a[hi + 1]] /\ e = a[hi + 1]
        BY <1>7 DEF d
      <3> QED
        BY ZenonT(40), <1>10, <3>1, <3>2
    <2>5. Len(batch'[p][c]) <= taken[p] + 1
      <3>1. Len(batch[p][c]) \in Nat /\ Len(Append(batch[p][c], e)) = Len(batch[p][c]) + 1
        BY ZenonT(40), <1>2, <1>6, AppendRequest, Requests
      <3>2. Len(batch'[p][c]) \in {Len(batch[p][c]), Len(batch[p][c]) + 1}
        BY ZenonT(40), <1>10, <3>1
      <3>3. taken[p] \in Nat /\ Len(batch[p][c]) <= taken[p]
        BY Zenon, <1>2, <2>1
      <3>4. Len(batch[p][c]) <= taken[p] + 1 /\ Len(batch[p][c]) + 1 <= taken[p] + 1
        BY Zenon, <3>1, <3>3, OneTaken
      <3> QED
        BY Zenon, <3>2, <3>4
    <2> QED
      BY ZenonT(40), <1>9, <1>10, <1>12, <2>1, <2>4, <2>5 DEF Group, n
  <1>15. Queue(p)'
    <2>1. (m - 1) + (taken[p] + 1) <= n
      BY SMTT(30), <1>2, <1>5, <1>6
    <2>2. ASSUME NEW i \in 1..(m - 1) PROVE Tail(ch[p])[i] = a[(hi + 1) + i]
      <3>0. m \in Nat /\ hi \in Int
        BY <1>2, <1>4
      <3>1. i + 1 \in 1..m /\ hi + (i + 1) = (hi + 1) + i
        BY <3>0
      <3> QED
        BY ZenonT(40), <1>5, <1>6, <3>1
    <2>3. ASSUME NEW c \in Chain, NEW i \in ((hi + 1) + 1)..n PROVE a[i] \notin Logged(c)
      <3>1. i \in (hi + 1)..n
        BY <1>4
      <3> QED
        BY Zenon, <1>5, <3>1
    <2>4. Alive(p)'
      BY Zenon, <1>1, <1>3 DEF Alive
    <2> QED
      BY ZenonT(40), <1>6, <1>9, <1>10, <1>12, <1>14, <2>1, <2>2, <2>3, <2>4 DEF Queue, n
  <1>16. ASSUME NEW q \in Proc, q # p PROVE Queue(q)'
    <2>1. accepted[q] \in Seq(Request) /\ ch[q] \in Seq(Request) /\ taken[q] \in Nat
      BY Zenon, TrailTypes DEF IInv
    <2>2. Queue(q) /\ (rpc[q] \in {"lock", "head", "insert"} => batch[q][cur[q]] # <<>>)
      BY ZenonT(40), GroupNonempty DEF TrailInv
    <2>3. Alive(q)' <=> Alive(q)
      BY <1>1 DEF Alive
    <2> QED
      BY ZenonT(40), <1>1, <1>9, <1>11, <1>16, <2>1, <2>2, <2>3, QueueKept
  <1> QED
    BY Zenon, <1>13, <1>15, <1>16 DEF TrailInv

\* All groups of the batch are done, and the next batch begins.
LEMMA BatchEndTrail ==
    ASSUME IInv, TrailInv, NEW p \in Proc, AppendEnd(p)
    PROVE  TrailInv'
  <1>1. /\ UNCHANGED <<phase, req, ch, batch, cur, table, accepted>>
        /\ rpc[p] = "group" /\ batch[p] = NoBatch /\ taken' = [taken EXCEPT ![p] = 0]
        /\ \E label \in {"drain", "select"} : rpc' = [rpc EXCEPT ![p] = label]
    BY Zenon DEF AppendEnd, Goto, server, transaction, database
  <1>2. /\ accepted[p] \in Seq(Request) /\ ch[p] \in Seq(Request) /\ taken[p] \in Nat
        /\ Len(accepted[p]) \in Nat /\ Len(ch[p]) \in Nat
    BY TrailTypes DEF IInv
  <1>3. Queue(p) /\ Alive(p)
    BY ZenonT(40), <1>1 DEF TrailInv, Queue
  <1>4. Off(p) \in 0..Len(accepted[p]) /\ Off(p) + Len(ch[p]) = Len(accepted[p])
    BY Zenon, <1>2, <1>3, OffBounds
  <1>5. taken'[p] = 0 /\ rpc'[p] \in {"drain", "select"} /\ Off(p)' = Off(p) /\ First(p)' = Off(p) + 1
    <2>1. taken'[p] = 0 /\ rpc'[p] \in {"drain", "select"}
      BY ZenonT(40), <1>1 DEF IInv, TypeOK
    <2>2. (Off(p) + 1) - 0 = Off(p) + 1
      BY <1>4
    <2> QED
      BY Zenon, <1>1, <2>1, <2>2 DEF Off, First
  <1>6. \A c \in Chain : Logged(c)' = Logged(c)
    BY ZenonT(40), <1>1 DEF Logged
  <1>7. OnceInv'
    BY SMTT(30), <1>1, <1>6 DEF TrailInv, OnceInv
  <1>8. ASSUME NEW c \in Chain PROVE Group(p, c)'
    <2>1. batch'[p][c] = <<>> /\ Len(<<>>) = 0 /\ DOMAIN <<>> = {}
      BY <1>1 DEF NoBatch
    <2>2. (Off(p) + 1)..Off(p) = {}
      BY <1>4
    <2>3. Trail!Selects(<<>>, accepted[p], c, Off(p) + 1, Off(p))
      BY Zenon, <2>1, <2>2 DEF Trail!Selects, Trail!Range
    <2>4. \A i \in (Off(p) + 1)..Len(accepted[p]) : accepted[p][i] \notin Logged(c)
      BY ZenonT(40), <1>3 DEF Queue
    <2>5. /\ Len(batch'[p][c]) <= taken'[p]
          /\ Trail!Selects(batch'[p][c], accepted'[p], c, First(p)', Off(p)')
      BY <1>1, <1>5, <2>1, <2>3
    <2>6. \A i \in First(p)'..Len(accepted'[p]) : accepted'[p][i] \notin Logged(c)'
      BY Zenon, <1>1, <1>5, <1>6, <2>4
    <2> QED
      BY ZenonT(40), <2>5, <2>6 DEF Group
  <1>9. Queue(p)'
    <2>1. Alive(p)'
      BY Zenon, <1>1, <1>3 DEF Alive
    <2>2. Len(ch[p]) + 0 <= Len(accepted[p])
      BY <1>2, <1>4
    <2> QED
      BY ZenonT(40), <1>1, <1>3, <1>5, <1>6, <1>8, <2>1, <2>2 DEF Queue
  <1>10. ASSUME NEW q \in Proc, q # p PROVE Queue(q)'
    <2>1. accepted[q] \in Seq(Request) /\ ch[q] \in Seq(Request) /\ taken[q] \in Nat
      BY Zenon, TrailTypes DEF IInv
    <2>2. Queue(q) /\ (rpc[q] \in {"lock", "head", "insert"} => batch[q][cur[q]] # <<>>)
      BY Zenon, GroupNonempty DEF TrailInv
    <2>3. rpc'[q] = rpc[q] /\ taken'[q] = taken[q]
      BY ZenonT(40), <1>1, <1>10 DEF IInv, TypeOK
    <2>4. Alive(q)' <=> Alive(q)
      BY ZenonT(40), <1>1 DEF Alive
    <2> QED
      BY ZenonT(40), <1>1, <1>6, <2>1, <2>2, <2>3, <2>4, QueueKept
  <1> QED
    BY Zenon, <1>7, <1>9, <1>10 DEF TrailInv

\* An Append that returns has stored all of its group, or none of it.
LEMMA ReturnTrail ==
    ASSUME IInv, TrailInv, NEW p \in Proc, Return(p), rpc[p] \in {"lock", "head", "insert"},
           \A d \in Chain : \A x \in Logged(d)' :
               x \in Logged(d) \/ (d = cur[p] /\ x \in Range(batch[p][d]))
    PROVE  TrailInv'
  <1> DEFINE a == accepted[p]
             c == cur[p]
  <1>1. /\ UNCHANGED <<phase, req, ch, taken, accepted>> /\ rpc' = [rpc EXCEPT ![p] = "group"]
        /\ batch' = [batch EXCEPT ![p] = [batch[p] EXCEPT ![c] = <<>>]]
        /\ cur' = [cur EXCEPT ![p] = None]
    BY DEF Return, EndTx, Goto, server
  <1>2. c \in Chain /\ batch[p][c] # <<>>
    BY ZenonT(40), GroupNonempty DEF IInv, TxInv, Tx
  <1>3. /\ a \in Seq(Request) /\ ch[p] \in Seq(Request) /\ Len(a) \in Nat /\ taken[p] \in Nat
        /\ DOMAIN a = 1..Len(a)
    BY TrailTypes DEF IInv
  <1>4. Queue(p) /\ Alive(p)
    BY ZenonT(40) DEF TrailInv, Queue
  <1>5. Off(p) \in 0..Len(a) /\ First(p) \in 1..(Off(p) + 1)
    BY Zenon, <1>3, <1>4, OffBounds
  <1>6. \A d \in Chain : Group(p, d)
    BY ZenonT(40), <1>4 DEF Queue
  <1>7. \A x \in Range(batch[p][c]) : \E k \in First(p)..Off(p) : x = a[k]
    <2>1. Trail!Selects(batch[p][c], a, c, First(p), Off(p))
      BY ZenonT(40), <1>2, <1>6 DEF Group
    <2> QED
      BY ZenonT(40), <2>1 DEF Trail!Selects, Trail!Range, Range
  <1>8. \A k \in First(p)..Off(p) : k \in 1..Len(a) /\ k \notin (Off(p) + 1)..Len(a)
    BY Zenon, <1>3, <1>5, Window, RangeMembers
  <1>9. \A x \in Range(batch[p][c]) : x \in Range(a)
    BY ZenonT(40), <1>3, <1>7, <1>8 DEF Range
  <1> HIDE DEF a, c
  <1>10. OnceInv'
    <2>1. \A d \in Chain : \A x \in Logged(d)' : req[x] \in {"recorded", "done"}
      BY ZenonT(40), <1>9 DEF TrailInv, OnceInv, a, c
    <2> QED
      BY ZenonT(40), <1>1, <2>1 DEF TrailInv, OnceInv
  <1>11. /\ rpc'[p] = "group" /\ batch'[p][c] = <<>>
         /\ \A d \in Chain : d # c => batch'[p][d] = batch[p][d]
         /\ \A q \in Proc : q # p => rpc'[q] = rpc[q] /\ batch'[q] = batch[q] /\ cur'[q] = cur[q]
    <2>1. batch \in [Proc -> [Chain -> Seq(Request)]]
      BY ZenonT(40) DEF IInv, TypeOK
    <2> QED
      BY ZenonT(40), <1>1, <1>2, <2>1 DEF IInv, TypeOK
  <1>12. Off(p)' = Off(p) /\ First(p)' = First(p)
    BY <1>1 DEF Off, First
  <1>13. ASSUME NEW d \in Chain PROVE Group(p, d)'
    <2>1. CASE d = c
      BY ZenonT(40), <1>11, <2>1 DEF Group
    <2>2. CASE d # c
      <3>1. \A x \in Logged(d)' : x \in Logged(d)
        BY <2>2 DEF c
      <3> QED
        BY ZenonT(40), <1>1, <1>6, <1>11, <1>12, <2>2, <3>1 DEF Group
    <2> QED
      BY ZenonT(40), <2>1, <2>2
  <1>14. ASSUME NEW d \in Chain, NEW i \in (Off(p) + 1)..Len(a) PROVE a[i] \notin Logged(d)'
    <2>1. a[i] \notin Logged(d)
      BY ZenonT(40), <1>4 DEF Queue, a
    <2>2. a[i] \notin Range(batch[p][c])
      <3>1. i \in 1..Len(a)
        BY Zenon, <1>3, <1>5, Window, RangeMembers
      <3>2. ASSUME NEW k \in First(p)..Off(p), a[i] = a[k] PROVE FALSE
        <4>1. k \in 1..Len(a) /\ k \notin (Off(p) + 1)..Len(a)
          BY Zenon, <1>8
        <4>2. i = k
          BY Zenon, <3>1, <3>2, <4>1 DEF TrailInv, OnceInv, a
        <4> QED
          BY Zenon, <4>1, <4>2
      <3> QED
        BY Zenon, <1>7, <3>2
    <2> QED
      BY ZenonT(40), <2>1, <2>2 DEF c
  <1>15. Queue(p)'
    <2>1. Alive(p)'
      BY Zenon, <1>1, <1>4 DEF Alive
    <2> QED
      BY ZenonT(40), <1>1, <1>4, <1>11, <1>12, <1>13, <1>14, <2>1 DEF Queue, a
  <1>16. ASSUME NEW q \in Proc, q # p PROVE Queue(q)'
    <2>1. accepted[q] \in Seq(Request) /\ ch[q] \in Seq(Request) /\ taken[q] \in Nat
      BY ZenonT(40), TrailTypes DEF IInv
    <2>2. Queue(q) /\ (rpc[q] \in {"lock", "head", "insert"} => batch[q][cur[q]] # <<>>)
      BY Zenon, GroupNonempty DEF TrailInv
    <2>3. Alive(q)' <=> Alive(q)
      BY <1>1 DEF Alive
    <2>4. ASSUME NEW d \in Chain, NEW x \in Range(accepted[q]), x \in Logged(d)' PROVE x \in Logged(d)
      <3>1. Home[x] = q
        BY Zenon DEF TrailInv, OnceInv
      <3>2. \A y \in Range(a) : Home[y] = p
        BY Zenon DEF TrailInv, OnceInv, a
      <3> QED
        BY ZenonT(40), <1>9, <1>16, <2>4, <3>1, <3>2 DEF c
    <2> QED
      BY ZenonT(40), <1>1, <1>11, <1>16, <2>1, <2>2, <2>3, <2>4, QueueKept
  <1> QED
    BY ZenonT(40), <1>10, <1>15, <1>16 DEF TrailInv

\* The rows u are of the events s.
Carries(u, s) == Len(u) = Len(s) /\ \A i \in 1..Len(u) : u[i].ev = s[i]

\* Past the first part.
LEMMA Offset ==
    ASSUME NEW n \in Nat, NEW m \in Nat, NEW i \in 1..(n + m), i \notin 1..n
    PROVE  i - n \in 1..m /\ i = n + (i - n)
  <1>1. i \in Nat /\ i > n /\ i <= n + m
    OBVIOUS
  <1> QED
    BY <1>1

LEMMA EventsConcat ==
    ASSUME NEW t \in Seq(Row), NEW u \in Seq(Row), NEW s \in Seq(Request), Carries(u, s)
    PROVE  [i \in DOMAIN (t \o u) |-> (t \o u)[i].ev] = [i \in DOMAIN t |-> t[i].ev] \o s
  <1> DEFINE v == t \o u
             f == [i \in 1..Len(t) |-> t[i].ev]
             g == f \o s
  <1>1. /\ Len(t) \in Nat /\ Len(u) \in Nat /\ DOMAIN t = 1..Len(t) /\ DOMAIN v = 1..(Len(t) + Len(u))
        /\ \A i \in 1..Len(t) : v[i] = t[i]
        /\ \A i \in 1..Len(u) : v[Len(t) + i] = u[i]
    <2>1. Len(t) \in Nat /\ Len(u) \in Nat /\ DOMAIN t = 1..Len(t) /\ DOMAIN v = 1..(Len(t) + Len(u))
      OBVIOUS
    <2>2. \A i \in 1..Len(t) : v[i] = t[i]
      BY Zenon, FirstPart
    <2>3. \A i \in 1..Len(u) : v[Len(t) + i] = u[i]
      BY Zenon, SecondPart
    <2> HIDE DEF v
    <2> QED
      BY Zenon, <2>1, <2>2, <2>3
  <1>2. f \in Seq(Request) /\ Len(f) = Len(t)
    <2>1. \A i \in 1..Len(t) : t[i].ev \in Request
      <3>1. \A i \in 1..Len(t) : t[i] \in Row
        OBVIOUS
      <3> QED
        BY Zenon, <3>1 DEF Row
    <2> QED
      BY <1>1, <2>1
  <1>3. \A i \in 1..Len(t) : f[i] = t[i].ev
    OBVIOUS
  <1> HIDE DEF f
  <1>4. /\ g \in Seq(Request) /\ DOMAIN g = 1..(Len(t) + Len(s))
        /\ \A i \in 1..Len(t) : g[i] = f[i]
        /\ \A i \in 1..Len(s) : g[Len(t) + i] = s[i]
    <2>1. g \in Seq(Request) /\ DOMAIN g = 1..(Len(f) + Len(s))
      BY <1>2
    <2>2. \A i \in 1..Len(f) : g[i] = f[i]
      BY Zenon, <1>2, FirstPart
    <2>3. \A i \in 1..Len(s) : g[Len(f) + i] = s[i]
      BY ZenonT(40), <1>2, SecondPart
    <2> HIDE DEF g
    <2> QED
      BY ZenonT(40), <1>2, <2>1, <2>2, <2>3
  <1> HIDE DEF v, g
  <1>5. ASSUME NEW i \in 1..(Len(t) + Len(u)) PROVE v[i].ev = g[i]
    <2>1. CASE i \in 1..Len(t)
      BY Zenon, <1>1, <1>3, <1>4, <2>1
    <2>2. CASE i \notin 1..Len(t)
      <3> DEFINE j == i - Len(t)
      <3>1. j \in 1..Len(u) /\ i = Len(t) + j
        BY Zenon, <1>1, <2>2, Offset
      <3> HIDE DEF j
      <3>2. j \in 1..Len(s) /\ u[j].ev = s[j]
        BY Zenon, <3>1 DEF Carries
      <3>3. v[i] = u[j] /\ g[i] = s[j]
        BY ZenonT(40), <1>1, <1>4, <3>1, <3>2
      <3> QED
        BY Zenon, <3>2, <3>3
    <2> QED
      BY Zenon, <2>1, <2>2
  <1>6. g = [i \in 1..(Len(t) + Len(u)) |-> g[i]]
    BY <1>4 DEF Carries
  <1>7. g = [i \in DOMAIN v |-> v[i].ev]
    BY Zenon, <1>1, <1>5, <1>6
  <1>8. f = [i \in DOMAIN t |-> t[i].ev]
    BY <1>1 DEF f
  <1> QED
    BY Zenon, <1>7, <1>8 DEF v, g

\* A commit stores a group of the batch.
LEMMA CommitTrail ==
    ASSUME IInv, TrailInv, NEW p \in Proc, AppendCommit(p)
    PROVE  TrailInv' /\ Trail!Next
  <1> DEFINE c == cur[p]
             s == batch[p][c]
  <1>1. /\ rpc[p] = "insert" /\ Len(rows[p]) = Len(s) /\ accepted' = accepted
        /\ table' = [table EXCEPT ![c] = table[c] \o rows[p]] /\ Return(p)
    BY DEF AppendCommit, Committing, Return
  <1>2. /\ c \in Chain /\ \A i \in 1..Len(rows[p]) : rows[p][i].ev = s[i]
    BY ZenonT(40), <1>1 DEF IInv, TxInv, Tx
  <1>3. /\ table \in [Chain -> Seq(Row)] /\ table[c] \in Seq(Row) /\ rows[p] \in Seq(Row)
        /\ s \in Seq(Request)
    <2>1. table \in [Chain -> Seq(Row)] /\ rows \in [Proc -> Seq(Row)]
      BY Zenon DEF IInv, TypeOK
    <2>2. batch \in [Proc -> [Chain -> Seq(Request)]]
      BY Zenon DEF IInv, TypeOK
    <2>3. s \in Seq(Request)
      BY Zenon, <1>2, <2>2
    <2> QED
      BY ZenonT(40), <1>2, <2>1, <2>3
  <1>4. s # <<>>
    BY Zenon, <1>1, GroupNonempty
  <1> HIDE DEF c, s
  <1>5. table'[c] = table[c] \o rows[p] /\ \A d \in Chain : d # c => table'[d] = table[d]
    BY Zenon, <1>1, <1>2, <1>3
  <1>6. [i \in DOMAIN table'[c] |-> table'[c][i].ev] = LogBar[c] \o s
    <2>1. LogBar[c] = [i \in DOMAIN table[c] |-> table[c][i].ev]
      BY ZenonT(40), <1>2 DEF LogBar
    <2>2. [i \in DOMAIN (table[c] \o rows[p]) |-> (table[c] \o rows[p])[i].ev]
          = [i \in DOMAIN table[c] |-> table[c][i].ev] \o s
      BY ZenonT(40), <1>1, <1>2, <1>3, EventsConcat DEF Carries
    <2> QED
      BY ZenonT(40), <1>5, <2>1, <2>2
  <1>7. LogBar' = [LogBar EXCEPT ![c] = LogBar[c] \o s]
    <2>1. ASSUME NEW d \in Chain, d # c
          PROVE  [i \in DOMAIN table'[d] |-> table'[d][i].ev] = LogBar[d]
      BY <1>5, <2>1 DEF LogBar
    <2>2. LogBar' = [d \in Chain |-> [i \in DOMAIN table'[d] |-> table'[d][i].ev]]
      BY DEF LogBar
    <2>3. DOMAIN LogBar = Chain
      BY DEF LogBar
    <2> QED
      BY ZenonT(40), <1>2, <1>6, <2>1, <2>2, <2>3
  <1>8. \A d \in Chain : Logged(d) = Range(LogBar[d])
    BY ZenonT(40) DEF Logged, LogBar, Range
  <1>9. /\ Alive(p) /\ Queue(p) /\ Group(p, c)
    BY Zenon, <1>1, <1>2 DEF TrailInv, Queue
  <1>10. /\ Len(s) <= taken[p] /\ Trail!Selects(s, accepted[p], c, First(p), Off(p))
         /\ \A i \in First(p)..Len(accepted[p]) : accepted[p][i] \notin Range(LogBar[c])
    BY Zenon, <1>2, <1>4, <1>8, <1>9 DEF Group, s
  <1>11. /\ First(p) \in 1..Len(accepted[p]) /\ Off(p) \in 1..Len(accepted[p])
         /\ Len(s) \in 1..(Off(p) - First(p) + 1)
    <2>1. Len(s) \in Nat /\ Len(s) # 0
      BY <1>3, <1>4
    <2>2. accepted[p] \in Seq(Request) /\ ch[p] \in Seq(Request) /\ taken[p] \in Nat
      BY TrailTypes DEF IInv
    <2>3. /\ Len(accepted[p]) \in Nat /\ Off(p) \in 0..Len(accepted[p])
          /\ First(p) \in 1..(Off(p) + 1) /\ First(p) + taken[p] = Off(p) + 1
      BY ZenonT(40), <1>9, <2>2, OffBounds
    <2>4. Len(s) <= taken[p] /\ taken[p] \in Nat
      BY Zenon, <1>10, <2>2
    <2> QED
      BY Zenon, <2>1, <2>3, <2>4, Taken
  <1>12. s \in [1..Len(s) -> Request]
    BY <1>3
  <1>13. Trail!Store(p, c, First(p), Off(p), s)
    BY ZenonT(40), <1>1, <1>7, <1>10 DEF Trail!Store, Trail!Range, Range
  <1>14. Trail!Next
    BY Zenon, <1>2, <1>11, <1>12, <1>13 DEF Trail!Next
  <1>15. ASSUME NEW d \in Chain, NEW x \in Logged(d)'
         PROVE  x \in Logged(d) \/ (d = c /\ x \in Range(batch[p][d]))
    <2>1. CASE d # c
      BY Zenon, <1>5, <1>15, <2>1 DEF Logged
    <2>2. CASE d = c
      <3>1. PICK i \in DOMAIN (table[c] \o rows[p]) : x = (table[c] \o rows[p])[i].ev
        BY ZenonT(40), <1>5, <1>15, <2>2 DEF Logged
      <3>2. CASE i \in 1..Len(table[c])
        <4>1. (table[c] \o rows[p])[i] = table[c][i] /\ i \in DOMAIN table[c]
          BY Zenon, <1>3, <3>2, ConcatRows
        <4> QED
          BY Zenon, <2>2, <3>1, <4>1 DEF Logged
      <3>3. CASE i \notin 1..Len(table[c])
        <4> DEFINE j == i - Len(table[c])
        <4>1. /\ Len(table[c]) \in Nat /\ Len(rows[p]) \in Nat
              /\ DOMAIN (table[c] \o rows[p]) = 1..(Len(table[c]) + Len(rows[p]))
              /\ \A k \in 1..Len(rows[p]) : (table[c] \o rows[p])[Len(table[c]) + k] = rows[p][k]
          BY Zenon, <1>3, ConcatRows
        <4>2. j \in 1..Len(rows[p]) /\ i = Len(table[c]) + j
          <5>1. i \in 1..(Len(table[c]) + Len(rows[p])) /\ i \notin 1..Len(table[c])
            BY Zenon, <3>1, <3>3, <4>1
          <5>2. Len(table[c]) \in Nat /\ Len(rows[p]) \in Nat
            BY Zenon, <4>1
          <5> QED
            BY Zenon, <5>1, <5>2, Offset
        <4> HIDE DEF j
        <4>3. x = rows[p][j].ev
          BY ZenonT(40), <3>1, <4>1, <4>2
        <4>4. x = s[j] /\ j \in DOMAIN s
          BY SMTT(30), <1>1, <1>2, <1>3, <4>2, <4>3
        <4> QED
          BY Zenon, <2>2, <4>4 DEF Range, s
      <3> QED
        BY Zenon, <3>2, <3>3
    <2> QED
      BY Zenon, <2>1, <2>2
  <1>16. TrailInv'
    BY ZenonT(40), <1>1, <1>15, ReturnTrail DEF c
  <1> QED
    BY ZenonT(40), <1>14, <1>16

LEMMA FailTrail ==
    ASSUME IInv, TrailInv, NEW p \in Proc, AppendFails(p)
    PROVE  TrailInv'
  <1>1. rpc[p] \in {"lock", "head", "insert"} /\ Return(p) /\ table' = table
    BY Zenon DEF AppendFails
  <1>2. \A d \in Chain : Logged(d)' = Logged(d)
    BY Zenon, <1>1 DEF Logged
  <1> QED
    BY Zenon, <1>1, <1>2, ReturnTrail

LEMMA TrailInitHolds == Init => TrailInv
  <1> SUFFICES ASSUME Init PROVE TrailInv
    BY Zenon
  <1>1. /\ Len(<<>>) = 0 /\ DOMAIN <<>> = {} /\ Range(<<>>) = {} /\ 1..0 = {} /\ (0 + 1)..0 = {}
        /\ 0 - 0 = 0 /\ (0 + 1) - 0 = 1 /\ 0 + 0 <= 0
    BY EmptySeq
  <1>2. \A c \in Chain : Logged(c) = {}
    BY Zenon, <1>1 DEF Init, Logged
  <1>3. OnceInv
    BY Zenon, <1>1, <1>2 DEF Init, OnceInv
  <1>4. ASSUME NEW p \in Proc PROVE Queue(p)
    <2>1. Off(p) = 0 /\ First(p) = 1
      BY ZenonT(40), <1>1 DEF Init, Off, First
    <2>2. \A c \in Chain : Group(p, c)
      <3>1. \A c \in Chain : Trail!Selects(<<>>, <<>>, c, 1, 0)
        BY Zenon, <1>1 DEF Trail!Selects, Trail!Range
      <3> QED
        BY <1>1, <1>2, <2>1, <3>1 DEF Init, Group, NoBatch
    <2>3. /\ phase[p] = "serving" /\ rpc[p] = "select" /\ taken[p] = 0
          /\ ch[p] = <<>> /\ accepted[p] = <<>>
      BY Zenon DEF Init
    <2>4. Len(ch[p]) + taken[p] <= Len(accepted[p]) /\ 1..Len(ch[p]) = {}
      BY ZenonT(40), <1>1, <2>3
    <2> QED
      BY ZenonT(40), <1>2, <2>2, <2>3, <2>4 DEF Queue, Alive
  <1> QED
    BY Zenon, <1>3, <1>4 DEF TrailInv

\* A step of the recorders is one of AuditTrail, or changes nothing that it shows.
LEMMA TrailStep ==
    ASSUME IInv, TrailInv, Next
    PROVE  /\ TrailInv'
           /\ Trail!Next \/ UNCHANGED <<accepted, LogBar>>
  <1>1. ASSUME NEW r \in Request, Begin(r) \/ Finish(r)
        PROVE  TrailInv' /\ UNCHANGED <<accepted, table>>
    BY ZenonT(40), <1>1, RequestStepsTrail DEF Begin, Finish, database
  <1>2. ASSUME NEW r \in Request, Record(r)
        PROVE  TrailInv' /\ (Trail!Next \/ UNCHANGED <<accepted, table>>)
    <2>1. table' = table
      BY Zenon, <1>2 DEF Record, database
    <2>2. LogBar' = LogBar
      BY Zenon, <2>1 DEF LogBar
    <2>3. TrailInv'
      BY Zenon, <1>2, RecordTrail
    <2>4. ASSUME NEW p \in Proc, accepted' = [accepted EXCEPT ![p] = Append(accepted[p], r)],
                 \A q \in Proc : r \notin Range(accepted[q])
          PROVE  Trail!Next
      <3>1. Trail!Accept(p, r)
        BY Zenon, <2>2, <2>4 DEF Trail!Accept, Trail!Range, Range
      <3> QED
        BY Zenon, <3>1 DEF Trail!Next
    <2> QED
      BY Zenon, <1>2, <2>1, <2>3, <2>4, RecordTrail
  <1>3. ASSUME NEW p \in Proc, \/ Cancelled(p) \/ DrainEnd(p) \/ AppendLock(p) \/ AppendHead(p)
                               \/ AppendInsert(p) \/ \E c \in Chain : AppendBegin(p, c)
        PROVE  TrailInv' /\ UNCHANGED <<accepted, table>>
    <2>1. UNCHANGED <<accepted, table>>
      BY ZenonT(40), <1>3 DEF Cancelled, DrainEnd, AppendLock, AppendHead, AppendInsert, AppendBegin, database
    <2> QED
      BY Zenon, <1>3, <2>1, MovesTrail
  <1>4. ASSUME NEW p \in Proc, Receive(p) \/ DrainOne(p) \/ AppendEnd(p)
        PROVE  TrailInv' /\ UNCHANGED <<accepted, table>>
    BY Zenon, <1>4, TakeTrail, BatchEndTrail DEF Receive, DrainOne, AppendEnd, database
  <1>5. ASSUME NEW p \in Proc, AppendCommit(p)
        PROVE  TrailInv' /\ Trail!Next
    BY Zenon, <1>5, CommitTrail
  <1>6. ASSUME NEW p \in Proc, AppendFails(p)
        PROVE  TrailInv' /\ UNCHANGED <<accepted, table>>
    BY Zenon, <1>6, FailTrail DEF AppendFails, Return
  <1>7. ASSUME NEW p \in Proc, Signal(p) \/ Shutdown(p) \/ Exit(p) \/ Crash(p)
        PROVE  TrailInv' /\ UNCHANGED <<accepted, table>>
    BY ZenonT(40), <1>7, StopStepsTrail, GoneTrail DEF Signal, Shutdown, Exit, Crash, Gone, database
  <1>8. UNCHANGED <<accepted, table>> => UNCHANGED <<accepted, LogBar>>
    BY DEF LogBar
  <1> QED
    BY ZenonT(40), <1>1, <1>2, <1>3, <1>4, <1>5, <1>6, <1>7, <1>8 DEF Next, Recorder

LEMMA TrailUnchanged == ASSUME IInv, TrailInv, UNCHANGED vars PROVE TrailInv' /\ UNCHANGED <<accepted, LogBar>>
  <1>1. UNCHANGED <<phase, req, ch, rpc, taken, batch, cur, table, accepted>>
    BY Zenon DEF vars, server, recorder, transaction, database
  <1>2. \A p \in Proc : rpc[p] \in {"lock", "head", "insert"} => batch[p][cur[p]] # <<>>
    BY Zenon, GroupNonempty
  <1>3. \A p \in Proc : Alive(p)' <=> Alive(p)
    BY Zenon, <1>1 DEF Alive
  <1>4. TrailInv'
    BY Zenon, <1>1, <1>2, <1>3, TrailUntouched DEF IInv
  <1> QED
    BY Zenon, <1>1, <1>4 DEF LogBar

(***************************************************************************)
(* The recorders and the chains they share implement AuditTrail, whatever  *)
(* fails: chains only grow, an event enters its chain at most once, and    *)
(* those of one process in the order in which Record took them             *)
(* (drainUpTo, append and Store.Append).                                   *)
(***************************************************************************)
THEOREM ImplementsTrailHolds == Spec => ImplementsTrail
  <1>1. Init => Trail!Init
    <2> SUFFICES ASSUME Init PROVE Trail!Init
      BY Zenon
    <2>1. DOMAIN <<>> = {}
      OBVIOUS
    <2>2. [i \in {} |-> <<>>[i].ev] = <<>>
      OBVIOUS
    <2>3. LogBar = [c \in Chain |-> <<>>]
      BY Zenon, <2>1, <2>2 DEF Init, LogBar
    <2> QED
      BY Zenon, <2>3 DEF Init, Trail!Init
  <1>2. IInv /\ TrailInv /\ [Next]_vars => TrailInv' /\ [Trail!Next]_<<accepted, LogBar>>
    BY TrailStep, TrailUnchanged
  <1> QED
    BY <1>1, <1>2, Inductive, TrailInitHolds, PTL DEF Spec, ImplementsTrail, Trail!Spec
----------------------------------------------------------------------------
(* What the refinement gives: each event once, and in order.               *)

LEMMA FollowsMore ==
    ASSUME NEW g, NEW a \in Seq(Request), NEW r \in Request, Trail!Follows(g, a),
           \A i \in DOMAIN g : g[i] # r
    PROVE  Trail!Follows(g, Append(a, r))
  <1> DEFINE u == Append(a, r)
             n == Len(a)
  <1>1. /\ n \in Nat /\ DOMAIN a = 1..n /\ DOMAIN u = 1..(n + 1)
        /\ u[n + 1] = r /\ \A k \in 1..n : u[k] = a[k]
    BY Zenon, Requests, AppendRequest
  <1> HIDE DEF u, n
  <1>2. \A k \in DOMAIN u : k \in 1..n \/ k = n + 1
    BY Zenon, <1>1, NextIndex
  <1>3. ASSUME NEW i \in DOMAIN g, NEW k \in DOMAIN u, g[i] = u[k] PROVE k \in DOMAIN a /\ g[i] = a[k]
    BY Zenon, <1>1, <1>2, <1>3
  <1>4. ASSUME NEW i \in DOMAIN g, NEW j \in DOMAIN g, NEW k \in DOMAIN u, NEW l \in DOMAIN u,
               i < j, g[i] = u[k], g[j] = u[l]
        PROVE  k < l
    <2>1. k \in DOMAIN a /\ g[i] = a[k] /\ l \in DOMAIN a /\ g[j] = a[l]
      BY Zenon, <1>3, <1>4
    <2> QED
      BY Zenon, <1>4, <2>1 DEF Trail!Follows
  <1> QED
    BY Zenon, <1>4 DEF Trail!Follows, u

\* An index of a concatenation is one of the first part, or of the second.
LEMMA ConcatIndex ==
    ASSUME NEW g \in Seq(Request), NEW s \in Seq(Request), NEW i \in DOMAIN (g \o s)
    PROVE  \/ i \in DOMAIN g /\ (g \o s)[i] = g[i]
           \/ \E j \in DOMAIN s : i = Len(g) + j /\ (g \o s)[i] = s[j]
  <1>1. /\ Len(g) \in Nat /\ Len(s) \in Nat /\ DOMAIN g = 1..Len(g) /\ DOMAIN s = 1..Len(s)
        /\ DOMAIN (g \o s) = 1..(Len(g) + Len(s))
    BY Requests, ConcatDomain
  <1>2. CASE i \in 1..Len(g)
    BY Zenon, <1>1, <1>2, FirstPart
  <1>3. CASE i \notin 1..Len(g)
    <2> DEFINE j == i - Len(g)
    <2>1. j \in 1..Len(s) /\ i = Len(g) + j
      BY Zenon, <1>1, <1>3, Offset
    <2>2. (g \o s)[Len(g) + j] = s[j]
      BY ZenonT(40), <2>1, SecondPart
    <2> HIDE DEF j
    <2> QED
      BY Zenon, <1>1, <2>1, <2>2
  <1> QED
    BY Zenon, <1>2, <1>3

\* Where the new part is of none of a's events.
LEMMA FollowsOther ==
    ASSUME NEW g \in Seq(Request), NEW s \in Seq(Request), NEW a, Trail!Follows(g, a),
           \A j \in DOMAIN s, k \in DOMAIN a : s[j] # a[k]
    PROVE  Trail!Follows(g \o s, a)
  <1>1. ASSUME NEW i \in DOMAIN (g \o s), NEW k \in DOMAIN a, (g \o s)[i] = a[k]
        PROVE  i \in DOMAIN g /\ g[i] = a[k]
    <2>1. \/ i \in DOMAIN g /\ (g \o s)[i] = g[i]
          \/ \E j \in DOMAIN s : i = Len(g) + j /\ (g \o s)[i] = s[j]
      BY Zenon, ConcatIndex
    <2> QED
      BY Zenon, <1>1, <2>1
  <1>2. ASSUME NEW i \in DOMAIN (g \o s), NEW j \in DOMAIN (g \o s), NEW k \in DOMAIN a, NEW l \in DOMAIN a,
               i < j, (g \o s)[i] = a[k], (g \o s)[j] = a[l]
        PROVE  k < l
    <2>1. i \in DOMAIN g /\ g[i] = a[k] /\ j \in DOMAIN g /\ g[j] = a[l]
      BY Zenon, <1>1, <1>2
    <2> QED
      BY Zenon, <1>2, <2>1 DEF Trail!Follows
  <1> QED
    BY Zenon, <1>2 DEF Trail!Follows

LEMMA Before ==
    ASSUME NEW n \in Nat, NEW lo \in 1..n, NEW k \in 1..n, k \notin lo..n, NEW l \in Nat, lo <= l
    PROVE  k < l
  OBVIOUS

LEMMA Apart ==
    ASSUME NEW n \in Nat, NEW i \in Nat, NEW j \in Nat
    PROVE  (n + i < n + j => i < j) /\ \A k \in 1..n : ~(n + i < k)
  OBVIOUS

\* Where the new part is a batch of a's events, past those that g has.
LEMMA FollowsStore ==
    ASSUME NEW g \in Seq(Request), NEW s \in Seq(Request), NEW a \in Seq(Request), NEW c,
           NEW lo \in 1..Len(a), NEW hi \in 1..Len(a),
           Trail!Selects(s, a, c, lo, hi), \A k \in lo..Len(a) : a[k] \notin Range(g),
           \A k, l \in 1..Len(a) : a[k] = a[l] => k = l, Trail!Follows(g, a)
    PROVE  Trail!Follows(g \o s, a)
  <1>1. /\ Len(g) \in Nat /\ DOMAIN g = 1..Len(g) /\ DOMAIN s = 1..Len(s) /\ Len(a) \in Nat
        /\ DOMAIN a = 1..Len(a) /\ \A i \in DOMAIN g : g[i] \in Range(g)
    BY ZenonT(40), Requests
  <1>2. \A k \in lo..hi : k \in 1..Len(a) /\ k \in Nat /\ lo <= k
    BY <1>1
  <1>3. ASSUME NEW j \in DOMAIN s, NEW l \in DOMAIN a, s[j] = a[l] PROVE l \in lo..hi
    <2>1. s[j] \in {a[k] : k \in {k \in lo..hi : ChainOf[a[k]] = c}}
      BY Zenon DEF Trail!Selects, Trail!Range
    <2>2. PICK k \in lo..hi : s[j] = a[k]
      BY Zenon, <2>1
    <2>3. k = l
      BY Zenon, <1>1, <1>2, <1>3, <2>2
    <2> QED
      BY Zenon, <2>3
  <1>4. ASSUME NEW i \in DOMAIN (g \o s), NEW j \in DOMAIN (g \o s), NEW k \in DOMAIN a, NEW l \in DOMAIN a,
               i < j, (g \o s)[i] = a[k], (g \o s)[j] = a[l]
        PROVE  k < l
    <2>0. /\ \/ i \in DOMAIN g /\ g[i] = a[k]
             \/ \E m \in DOMAIN s : i = Len(g) + m /\ s[m] = a[k]
          /\ \/ j \in DOMAIN g /\ g[j] = a[l]
             \/ \E m \in DOMAIN s : j = Len(g) + m /\ s[m] = a[l]
      <3>1. \/ i \in DOMAIN g /\ (g \o s)[i] = g[i]
            \/ \E m \in DOMAIN s : i = Len(g) + m /\ (g \o s)[i] = s[m]
        BY ZenonT(40), ConcatIndex
      <3>2. \/ j \in DOMAIN g /\ (g \o s)[j] = g[j]
            \/ \E m \in DOMAIN s : j = Len(g) + m /\ (g \o s)[j] = s[m]
        BY ZenonT(40), ConcatIndex
      <3> QED
        BY Zenon, <1>4, <3>1, <3>2
    <2>1. CASE i \in DOMAIN g /\ g[i] = a[k]
      <3>1. CASE j \in DOMAIN g /\ g[j] = a[l]
        BY Zenon, <1>4, <2>1, <3>1 DEF Trail!Follows
      <3>2. CASE \E m \in DOMAIN s : s[m] = a[l]
        <4>1. l \in lo..hi
          BY Zenon, <1>3, <3>2
        <4>2. k \in 1..Len(a) /\ k \notin lo..Len(a)
          BY Zenon, <1>1, <2>1
        <4> QED
          BY ZenonT(40), <1>1, <1>2, <4>1, <4>2, Before
      <3> QED
        BY Zenon, <2>0, <3>1, <3>2
    <2>2. ASSUME NEW m \in DOMAIN s, i = Len(g) + m, s[m] = a[k] PROVE k < l
      <3>1. k \in lo..hi /\ m \in Nat
        <4>1. m \in Nat
          BY <1>1
        <4> QED
          BY ZenonT(40), <1>3, <2>2, <4>1
      <3>2. ~(j \in DOMAIN g)
        BY Zenon, <1>1, <1>4, <2>2, <3>1, Apart
      <3>3. PICK o \in DOMAIN s : j = Len(g) + o /\ s[o] = a[l]
        BY Zenon, <2>0, <3>2
      <3>4. m < o
        <4>1. o \in Nat
          BY <1>1
        <4> QED
          BY ZenonT(40), <1>1, <1>4, <2>2, <3>1, <3>3, <4>1, Apart
      <3>5. l \in lo..hi
        BY Zenon, <1>3, <3>3
      <3> QED
        BY Zenon, <2>2, <3>1, <3>3, <3>4, <3>5 DEF Trail!Selects
    <2> QED
      BY Zenon, <2>0, <2>1, <2>2
  <1> QED
    BY Zenon, <1>4 DEF Trail!Follows

LEMMA LogType == ASSUME TypeOK PROVE \A c \in Chain : LogBar[c] \in Seq(Request)
  <1> SUFFICES ASSUME NEW c \in Chain PROVE LogBar[c] \in Seq(Request)
    BY Zenon
  <1>1. table[c] \in Seq(Row)
    BY Zenon DEF TypeOK
  <1>2. Len(table[c]) \in Nat /\ DOMAIN table[c] = 1..Len(table[c]) /\ \A i \in 1..Len(table[c]) : table[c][i] \in Row
    BY <1>1
  <1>3. \A row \in Row : row.ev \in Request
    BY DEF Row
  <1>4. LogBar[c] = [i \in 1..Len(table[c]) |-> table[c][i].ev]
    BY Zenon, <1>2 DEF LogBar
  <1>5. LogBar[c] \in [1..Len(table[c]) -> Request]
    BY Zenon, <1>2, <1>3, <1>4
  <1> QED
    BY <1>2, <1>5

\* What OnceInOrder says of the log of c, by its indices.
InOrder(log, c, acc) ==
    /\ \A i \in DOMAIN log : ChainOf[log[i]] = c /\ \E q \in Proc : log[i] \in Range(acc[q])
    /\ \A q \in Proc : Trail!Follows(log, acc[q])

Promise == \A c \in Chain : InOrder(LogBar[c], c, accepted)

LEMMA PromiseIsOnceInOrder == Promise <=> Trail!OnceInOrder
  <1>1. \A f : Trail!Range(f) = {f[i] : i \in DOMAIN f}
    BY Zenon DEF Trail!Range
  <1>2. \A f : Trail!Range(f) = Range(f)
    BY Zenon, <1>1 DEF Range
  <1>3. ASSUME NEW c \in Chain
        PROVE  InOrder(LogBar[c], c, accepted) <=>
                 /\ \A e \in Trail!Range(LogBar[c]) :
                       ChainOf[e] = c /\ \E p \in Proc : e \in Trail!Range(accepted[p])
                 /\ \A p \in Proc : Trail!Follows(LogBar[c], accepted[p])
    <2>1. ASSUME NEW e \in Trail!Range(LogBar[c]) PROVE \E i \in DOMAIN LogBar[c] : e = LogBar[c][i]
      BY Zenon, <1>1
    <2>2. ASSUME NEW i \in DOMAIN LogBar[c] PROVE LogBar[c][i] \in Trail!Range(LogBar[c])
      BY Zenon, <1>1
    <2>3. \A p \in Proc : Trail!Range(accepted[p]) = Range(accepted[p])
      BY Zenon, <1>2
    <2>4. (\A i \in DOMAIN LogBar[c] : /\ ChainOf[LogBar[c][i]] = c
                                       /\ \E p \in Proc : LogBar[c][i] \in Range(accepted[p]))
            <=> \A e \in Trail!Range(LogBar[c]) :
                  ChainOf[e] = c /\ \E p \in Proc : e \in Range(accepted[p])
      BY ZenonT(40), <2>1, <2>2
    <2>5. \A e : (\E p \in Proc : e \in Range(accepted[p])) <=> \E p \in Proc : e \in Trail!Range(accepted[p])
      BY Zenon, <2>3
    <2> QED
      BY Zenon, <2>4, <2>5 DEF InOrder
  <1> QED
    BY Zenon, <1>3 DEF Promise, Trail!OnceInOrder

\* An Accept.
LEMMA AcceptInOrder ==
    ASSUME IInv, Promise, NEW p \in Proc, NEW r \in Request, Trail!Accept(p, r)
    PROVE  Promise'
  <1>1. /\ \A q \in Proc : r \notin Range(accepted[q]) /\ accepted[q] \in Seq(Request)
        /\ accepted' = [accepted EXCEPT ![p] = Append(accepted[p], r)] /\ LogBar' = LogBar
        /\ accepted \in [Proc -> Seq(Request)]
    BY ZenonT(40), TrailTypes DEF IInv, TypeOK, Trail!Accept, Trail!Range, Range
  <1>2. accepted'[p] = Append(accepted[p], r) /\ \A q \in Proc : q # p => accepted'[q] = accepted[q]
    BY Zenon, <1>1
  <1>3. \A q \in Proc : Range(accepted[q]) \subseteq Range(accepted'[q])
    <2>1. Range(Append(accepted[p], r)) = Range(accepted[p]) \cup {r}
      BY Zenon, <1>1, AppendRequest
    <2> QED
      BY Zenon, <1>2, <2>1
  <1>4. ASSUME NEW c \in Chain PROVE InOrder(LogBar[c], c, accepted')
    <2>1. InOrder(LogBar[c], c, accepted)
      BY Zenon DEF Promise
    <2>2. ASSUME NEW i \in DOMAIN LogBar[c]
          PROVE  /\ ChainOf[LogBar[c][i]] = c /\ LogBar[c][i] # r
                 /\ \E q \in Proc : LogBar[c][i] \in Range(accepted'[q])
      BY Zenon, <1>1, <1>3, <2>1 DEF InOrder
    <2>3. ASSUME NEW q \in Proc PROVE Trail!Follows(LogBar[c], accepted'[q])
      <3>1. Trail!Follows(LogBar[c], accepted[q])
        BY Zenon, <2>1 DEF InOrder
      <3>2. CASE q # p
        BY Zenon, <1>2, <3>1, <3>2
      <3>3. CASE q = p
        <4>1. Trail!Follows(LogBar[c], Append(accepted[p], r))
          BY Zenon, <1>1, <2>2, <3>1, <3>3, FollowsMore
        <4> QED
          BY Zenon, <1>2, <3>3, <4>1
      <3> QED
        BY Zenon, <3>2, <3>3
    <2> QED
      BY Zenon, <2>2, <2>3 DEF InOrder
  <1> QED
    BY Zenon, <1>1, <1>4 DEF Promise

\* A Store.
LEMMA StoreInOrder ==
    ASSUME IInv, TrailInv, Promise, NEW p \in Proc, NEW c \in Chain,
           NEW lo \in 1..Len(accepted[p]), NEW hi \in 1..Len(accepted[p]),
           NEW s \in Seq(Request), Trail!Store(p, c, lo, hi, s)
    PROVE  Promise'
  <1> DEFINE a == accepted[p]
             g == LogBar[c]
  <1>1. /\ \A i \in lo..Len(a) : a[i] \notin Range(g)
        /\ Trail!Selects(s, a, c, lo, hi)
        /\ LogBar' = [LogBar EXCEPT ![c] = g \o s] /\ accepted' = accepted
    BY ZenonT(40) DEF Trail!Store, Trail!Range, Range
  <1>2. /\ \A q \in Proc : accepted[q] \in Seq(Request) /\ DOMAIN accepted[q] = 1..Len(accepted[q])
        /\ g \in Seq(Request) /\ DOMAIN LogBar = Chain
    BY Zenon, TrailTypes, LogType DEF IInv, LogBar
  <1>3. LogBar'[c] = g \o s /\ \A d \in Chain : d # c => LogBar'[d] = LogBar[d]
    BY Zenon, <1>1, <1>2
  <1>4. \A j \in DOMAIN s : s[j] \in Range(a) /\ ChainOf[s[j]] = c
    <2>1. \A j \in DOMAIN s : s[j] \in {a[k] : k \in {k \in lo..hi : ChainOf[a[k]] = c}}
      BY Zenon, <1>1 DEF Trail!Selects, Trail!Range
    <2>2. \A k \in lo..hi : k \in 1..Len(a)
      <3>1. Len(a) \in Nat
        BY Zenon, <1>2, Requests
      <3> QED
        BY <3>1
    <2>3. \A k \in 1..Len(a) : a[k] \in Range(a)
      BY Zenon, <1>2, Requests
    <2> QED
      BY Zenon, <2>1, <2>2, <2>3
  <1>5. \A q \in Proc : \A x \in Range(accepted[q]) : Home[x] = q
    BY Zenon DEF TrailInv, OnceInv
  <1>6. /\ \A i \in DOMAIN g : ChainOf[g[i]] = c /\ \E q \in Proc : g[i] \in Range(accepted[q])
        /\ \A q \in Proc : Trail!Follows(g, accepted[q])
    BY Zenon DEF Promise, InOrder
  <1>7. \A k, l \in 1..Len(a) : a[k] = a[l] => k = l
    BY Zenon DEF TrailInv, OnceInv
  <1> HIDE DEF a, g
  <1>8. ASSUME NEW i \in DOMAIN (g \o s)
        PROVE  ChainOf[(g \o s)[i]] = c /\ \E q \in Proc : (g \o s)[i] \in Range(accepted[q])
    <2>1. \/ i \in DOMAIN g /\ (g \o s)[i] = g[i]
          \/ \E j \in DOMAIN s : i = Len(g) + j /\ (g \o s)[i] = s[j]
      BY Zenon, <1>2, ConcatIndex
    <2>2. CASE i \in DOMAIN g /\ (g \o s)[i] = g[i]
      BY Zenon, <1>6, <2>2
    <2>3. CASE \E j \in DOMAIN s : (g \o s)[i] = s[j]
      BY Zenon, <1>4, <2>3 DEF a
    <2> QED
      BY ZenonT(40), <2>1, <2>2, <2>3
  <1>9. ASSUME NEW q \in Proc PROVE Trail!Follows(g \o s, accepted[q])
    <2>1. CASE q = p
      <3>1. a \in Seq(Request) /\ Trail!Follows(g, a) /\ g \in Seq(Request)
        BY Zenon, <1>2, <1>6 DEF a
      <3>2. Trail!Follows(g \o s, a)
        <4>1. lo \in 1..Len(a) /\ hi \in 1..Len(a)
          BY Zenon DEF a
        <4> QED
          BY ZenonT(40), <1>1, <1>7, <3>1, <4>1, FollowsStore
      <3> QED
        BY Zenon, <2>1, <3>2 DEF a
    <2>2. CASE q # p
      <3>1. \A k \in DOMAIN accepted[q] : accepted[q][k] \in Range(accepted[q])
        BY Zenon DEF Range
      <3>2. \A j \in DOMAIN s, k \in DOMAIN accepted[q] : s[j] # accepted[q][k]
        <4>1. \A j \in DOMAIN s : Home[s[j]] = p
          BY Zenon, <1>4, <1>5 DEF a
        <4>2. \A k \in DOMAIN accepted[q] : Home[accepted[q][k]] = q
          BY Zenon, <1>5, <3>1
        <4>3. ASSUME NEW j \in DOMAIN s, NEW k \in DOMAIN accepted[q], s[j] = accepted[q][k] PROVE FALSE
          <5>1. Home[s[j]] = p /\ Home[accepted[q][k]] = q
            BY Zenon, <4>1, <4>2
          <5> QED
            BY ZenonT(40), <2>2, <4>3, <5>1
        <4> QED
          BY Zenon, <4>3
      <3>3. g \in Seq(Request) /\ Trail!Follows(g, accepted[q])
        BY Zenon, <1>2, <1>6
      <3> QED
        BY ZenonT(40), <3>2, <3>3, FollowsOther
    <2> QED
      BY Zenon, <2>1, <2>2
  <1>10. InOrder(g \o s, c, accepted)
    BY Zenon, <1>8, <1>9 DEF InOrder
  <1>11. ASSUME NEW d \in Chain PROVE InOrder(LogBar'[d], d, accepted)
    BY Zenon, <1>3, <1>10 DEF Promise
  <1> QED
    BY Zenon, <1>1, <1>11 DEF Promise

(***************************************************************************)
(* A chain holds only events recorded for it, each at most once, and those *)
(* of one process in the order in which Record took them, through failed   *)
(* transactions, crashes and shutdowns, for any number of processes and    *)
(* any buffer and batch sizes (Record, drainUpTo, append, Store.Append).   *)
(***************************************************************************)
THEOREM OnceInOrderHolds == Spec => []Trail!OnceInOrder
  <1>1. Init => Promise
    <2> SUFFICES ASSUME Init PROVE Promise
      BY Zenon
    <2>1. \A c \in Chain : DOMAIN LogBar[c] = {}
      BY Zenon, EmptySeq DEF Init, LogBar
    <2> QED
      BY Zenon, <2>1 DEF Promise, InOrder, Trail!Follows
  <1>2. ASSUME IInv, TrailInv, Promise, Trail!Next PROVE Promise'
    <2>1. CASE \E p \in Proc, e \in Request : Trail!Accept(p, e)
      BY Zenon, <1>2, <2>1, AcceptInOrder
    <2>2. ASSUME NEW p \in Proc, NEW c \in Chain, NEW lo \in 1..Len(accepted[p]),
                 NEW hi \in 1..Len(accepted[p]), NEW n \in 1..(hi - lo + 1),
                 NEW s \in [1..n -> Request], Trail!Store(p, c, lo, hi, s)
          PROVE  Promise'
      <3>1. n \in Nat
        <4>1. Len(accepted[p]) \in Nat
          BY Zenon, <1>2, TrailTypes DEF IInv
        <4> QED
          BY <4>1
      <3>2. s \in Seq(Request)
        BY <3>1
      <3> QED
        BY Zenon, <1>2, <2>2, <3>2, StoreInOrder
    <2> QED
      BY Zenon, <1>2, <2>1, <2>2 DEF Trail!Next
  <1>3. UNCHANGED <<accepted, LogBar>> /\ Promise => Promise'
    BY Zenon DEF Promise
  <1>4. IInv /\ TrailInv /\ Promise /\ [Next]_vars => TrailInv' /\ Promise'
    BY <1>2, <1>3, TrailStep, TrailUnchanged
  <1> QED
    BY <1>1, <1>4, Inductive, TrailInitHolds, PromiseIsOnceInOrder, PTL DEF Spec
============================================================================
