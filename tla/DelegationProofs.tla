-------------------------- MODULE DelegationProofs --------------------------
(***************************************************************************)
(* Proofs about Delegation: tokens, revocation, expiry and the delegator's *)
(* authority, for any number of requests, delegations and principals, any  *)
(* length of a second, lifetimes and clock skew.                           *)
(***************************************************************************)
EXTENDS Delegation, TLAPS

Loc == [row : Row \cup {NoRow}, did : Id \cup {None}, tok : Token \cup {NoToken},
        act : Action \cup {None}, res : Resource \cup {None}, org : Org \cup {None},
        team : (Scope \ Org) \cup {None}, proof : Proof \cup {NoProof}, why : Why,
        dead : BOOLEAN, at : Nat]

End(d) == d.issued + d.ttl * S

\* All but revoked, and the agent, which no check reads.
Same(d, e) ==
    /\ d.delegator = e.delegator /\ d.org = e.org /\ d.scope = e.scope /\ d.cnf = e.cnf
    /\ d.exp = e.exp /\ d.issued = e.issued /\ d.ttl = e.ttl
----------------------------------------------------------------------------
(* The inductive invariant. *)

\* The expiry of a row is the end of its lifetime, up to the issuer's skew.
RowOK(d) ==
    /\ d \in Row /\ d.delegator \notin Agent
    /\ d.exp <= End(d) + MaxSkew /\ d.exp >= End(d) - MaxSkew

RowsInv == \A id \in Id : rows[id] # NoRow => RowOK(rows[id])

Writing(t) ==
    /\ pc[t] \in {"insert", "sign"} => RowOK(loc[t].row)
    /\ pc[t] = "sign" => /\ loc[t].did \in Id /\ rows[loc[t].did] # NoRow
                         /\ Same(rows[loc[t].did], loc[t].row)
    /\ pc[t] = "revoke" => loc[t].did \in Id /\ rows[loc[t].did] # NoRow

BoundKey(l) == l.proof # NoProof => l.proof.jkt = l.tok.cnf

\* The row that l has read allowed the request when it was read.
Admitted(l) ==
    /\ ~l.dead /\ RowOK(l.row) /\ Same(rows[l.tok.did], l.row)
    /\ l.act \in l.row.scope /\ l.org = l.row.org /\ BoundKey(l)
    /\ l.at <= End(l.row) + 2 * MaxSkew

Checking(t) ==
    LET l == loc[t] IN
    /\ pc[t] \in {"idle", "insert", "sign", "revoke"} => ~l.dead
    /\ pc[t] \notin {"idle", "insert", "sign", "revoke"} =>
          l.tok \in tokens /\ (l.dead => rows[l.tok.did].revoked)
    /\ pc[t] # "answered" => l.why = "none"
    /\ pc[t] = "get" => BoundKey(l)
    /\ pc[t] \in {"owner", "permission"} \/ l.why \in {"allowed", "forbidden"} => Admitted(l)
    /\ l.why = "expired" => l.at > End(rows[l.tok.did]) - S - 2 * MaxSkew

\* Permissions are never taken back: a refusal was right when the owner was read.
Answered(t) ==
    LET l == loc[t] IN
    /\ pc[t] = "permission" =>
          HasPermission(l.row.delegator, l.act, Scopes(l)) \/ FALSE \in could[t]
    /\ l.why = "allowed" => TRUE \in could[t]
    /\ l.why = "forbidden" => FALSE \in could[t]

ThreadsInv == \A t \in Thread : Writing(t) /\ Checking(t) /\ Answered(t)

IInv == TypeOK /\ RowsInv /\ TokenMatchesRow /\ ThreadsInv
----------------------------------------------------------------------------
LEMMA Products ==
    ASSUME NEW a \in Int, NEW b \in Int, NEW s \in Nat
    PROVE  a * s \in Int /\ (a <= b => a * s <= b * s)
  <1>1. a * s \in Int /\ b * s \in Int
    OBVIOUS
  <1>2. ASSUME a <= b PROVE a * s <= b * s
    <2>1. b - a \in Nat /\ b * s = a * s + (b - a) * s
      BY <1>2
    <2>2. (b - a) * s \in Nat
      BY <2>1
    <2> QED
      BY <1>1, <2>1, <2>2
  <1> QED
    BY <1>1, <1>2

\* Rounding down to whole seconds.
LEMMA Seconds ==
    ASSUME NEW e \in Int
    PROVE  /\ e \div S \in Int /\ (e \div S) * S <= e /\ e < ((e \div S) + 1) * S
           /\ \A x \in Int : e \div S >= x => e >= x * S
  <1>1. S \in Nat \ {0}
    BY ConstantsOK
  <1> DEFINE q == e \div S
  <1>2. q \in Int
    BY <1>1
  <1>3. q * S <= e
    BY <1>1, <1>2
  <1>4. e < (q + 1) * S
    BY <1>1, <1>2
  <1> HIDE DEF q
  <1>5. ASSUME NEW x \in Int, q >= x PROVE e >= x * S
    <2>1. x <= q
      BY <1>2, <1>5
    <2>2. x * S <= q * S /\ x * S \in Int /\ q * S \in Int
      BY <1>1, <1>2, <2>1, Products
    <2> QED
      BY <1>3, <2>2
  <1> QED
    BY <1>2, <1>3, <1>4, <1>5 DEF q

LEMMA NoRowFacts == NoRow \notin Row
  <1>1. NoRow.ttl = 0
    BY DEF NoRow
  <1>2. \A d \in Row : d.ttl \in 1..MaxTTL
    BY DEF Row
  <1>3. 0 \notin 1..MaxTTL
    BY ConstantsOK
  <1> QED
    BY <1>1, <1>2, <1>3

LEMMA LifetimeFacts ==
    ASSUME NEW d \in Row
    PROVE  End(d) \in Int /\ d.exp \in Int
  <1>1. d.issued \in Int /\ d.ttl \in Int /\ d.exp \in Int
    BY ConstantsOK DEF Row
  <1>2. d.ttl * S \in Int
    BY <1>1, ConstantsOK, Products
  <1> QED
    BY <1>1, <1>2 DEF End

LEMMA NoLocFacts ==
    /\ NoLoc \in Loc /\ ~NoLoc.dead /\ NoLoc.why = "none" /\ NoLoc.row = NoRow
  BY DEF NoLoc, Loc, Why

LEMMA InitHolds == Init => IInv
  <1> SUFFICES ASSUME Init PROVE IInv
    OBVIOUS
  <1>1. TypeOK
    BY NoLocFacts DEF Init, AuthorityInit, TypeOK, PC, Loc
  <1>2. RowsInv /\ TokenMatchesRow
    BY DEF Init, RowsInv, TokenMatchesRow
  <1>3. \A t \in Thread : pc[t] = "idle" /\ loc[t] = NoLoc
    BY DEF Init
  <1>4. ThreadsInv
    BY ZenonT(40), <1>3, NoLocFacts DEF ThreadsInv, Writing, Checking, Answered
  <1> QED
    BY <1>1, <1>2, <1>4 DEF IInv
----------------------------------------------------------------------------
\* Rows are only added, and change only by being revoked; tokens are only added.
Grows ==
    /\ \A id \in Id : rows[id] # NoRow =>
          rows'[id] # NoRow /\ Same(rows'[id], rows[id]) /\ (rows[id].revoked => rows'[id].revoked)
    /\ tokens \subseteq tokens'

LEMMA TokenRows ==
    ASSUME IInv, NEW tok \in tokens
    PROVE  tok \in Token /\ tok.did \in Id /\ rows[tok.did] # NoRow /\ RowOK(rows[tok.did])
  BY DEF IInv, TypeOK, Token, TokenMatchesRow, RowsInv

LEMMA GrowsUntouched ==
    ASSUME UNCHANGED <<rows, tokens>>
    PROVE  Grows
  BY DEF Grows, Same

LEMMA SameTrans ==
    ASSUME NEW c, NEW d, NEW e, Same(c, d), Same(d, e)
    PROVE  Same(c, e) /\ End(c) = End(e)
  BY DEF Same, End

\* A thread that does not move.
LEMMA Still ==
    ASSUME IInv, NEW t \in Thread, Grows, pc'[t] = pc[t], loc'[t] = loc[t]
    PROVE  Writing(t)' /\ Checking(t)'
  <1> DEFINE l == loc[t]
  <1>1. Writing(t) /\ Checking(t)
    BY DEF IInv, ThreadsInv
  <1>2. Writing(t)'
    <2>1. RowOK(loc[t].row)' <=> RowOK(loc[t].row)
      BY DEF RowOK, End
    <2>2. ASSUME pc[t] = "sign" PROVE rows'[l.did] # NoRow /\ Same(rows'[l.did], l.row)
      BY <1>1, <2>2, SameTrans DEF Writing, Grows
    <2>3. ASSUME pc[t] = "revoke" PROVE rows'[l.did] # NoRow
      BY <1>1, <2>3 DEF Writing, Grows
    <2> QED
      BY <1>1, <2>1, <2>2, <2>3 DEF Writing
  <1>3. CASE pc[t] \in {"idle", "insert", "sign", "revoke"}
    BY ZenonT(40), <1>1, <1>2, <1>3 DEF Checking
  <1>4. CASE pc[t] \notin {"idle", "insert", "sign", "revoke"}
    <2> DEFINE d == rows[l.tok.did]
               e == rows'[l.tok.did]
    <2>1. l.tok \in tokens
      BY <1>1, <1>4 DEF Checking
    <2>2. l.tok.did \in Id /\ d # NoRow
      BY <2>1, TokenRows
    <2>3. Same(e, d) /\ (d.revoked => e.revoked) /\ l.tok \in tokens'
      BY Zenon, <2>1, <2>2 DEF Grows
    <2>4. End(e) = End(d)
      BY Zenon, <2>3 DEF Same, End
    <2>5. Admitted(l) => Admitted(loc[t])'
      BY <2>3, SameTrans DEF Admitted, RowOK, End, BoundKey
    <2> QED
      BY <1>1, <1>2, <1>4, <2>3, <2>4, <2>5 DEF Checking, BoundKey, End
  <1> QED
    BY <1>2, <1>3, <1>4

LEMMA CouldGrows ==
    ASSUME Observe, NEW t \in Thread
    PROVE  LET b == Permitted(loc[t].row.delegator, loc[t].act, loc[t].res, Scopes(loc[t]))' IN
           /\ b \in BOOLEAN
           /\ loc'[t].row # NoRow /\ pc'[t] \in {"owner", "permission", "answered"} =>
                 could'[t] = could[t] \cup {b}
           /\ ~(loc'[t].row # NoRow /\ pc'[t] \in {"owner", "permission", "answered"}) =>
                 could'[t] = {}
  BY DEF Observe, Permitted

LEMMA CouldType ==
    ASSUME could \in [Thread -> SUBSET BOOLEAN], Observe
    PROVE  could' \in [Thread -> SUBSET BOOLEAN]
  <1>1. \A t \in Thread : could'[t] \in SUBSET BOOLEAN
    <2> TAKE t \in Thread
    <2>1. could[t] \in SUBSET BOOLEAN
      OBVIOUS
    <2> QED
      BY <2>1, CouldGrows, Zenon
  <1>2. DOMAIN could' = Thread /\ could' = [t \in Thread |-> could'[t]]
    BY DEF Observe
  <1> QED
    BY <1>1, <1>2

LEMMA StillAnswered ==
    ASSUME IInv, NEW t \in Thread, Observe, perms \subseteq perms', pc'[t] = pc[t], loc'[t] = loc[t]
    PROVE  Answered(t)'
  <1> DEFINE l == loc[t]
  <1>1. Checking(t) /\ Answered(t)
    BY DEF IInv, ThreadsInv
  <1>2. ASSUME pc[t] = "permission" \/ l.why \in {"allowed", "forbidden"}
        PROVE  could[t] \subseteq could'[t]
    <2>1. l.row # NoRow
      BY <1>1, <1>2, NoRowFacts DEF Checking, Admitted, RowOK
    <2>2. pc[t] \in {"permission", "answered"}
      BY <1>1, <1>2 DEF Checking
    <2> QED
      BY <2>1, <2>2, CouldGrows
  <1>3. HasPermission(l.row.delegator, l.act, Scopes(l)) =>
            HasPermission(loc[t].row.delegator, loc[t].act, Scopes(loc[t]))'
    BY DEF HasPermission, Scopes
  <1> QED
    BY Zenon, <1>1, <1>2, <1>3 DEF Answered

\* A step of thread t to label, with l in its registers.
LEMMA StepHolds ==
    ASSUME IInv, Observe, NEW t \in Thread, NEW label \in PC, NEW l \in Loc, Goto(t, label),
           loc' = [loc EXCEPT ![t] = l], UNCHANGED <<now, authority>>,
           rows' \in [Id -> Row \cup {NoRow}], tokens' \subseteq Token, Grows,
           RowsInv', TokenMatchesRow', Writing(t)', Checking(t)', Answered(t)'
    PROVE  IInv'
  <1>1. TypeOK'
    <2>1. could' \in [Thread -> SUBSET BOOLEAN]
      BY CouldType DEF IInv, TypeOK
    <2> QED
      BY Zenon, <2>1 DEF IInv, TypeOK, Goto, authority, Loc
  <1>2. \A q \in Thread : q # t => pc'[q] = pc[q] /\ loc'[q] = loc[q]
    BY DEF IInv, TypeOK, Goto
  <1>3. perms' = perms
    BY DEF authority
  <1>4. ThreadsInv'
    BY <1>2, <1>3, Still, StillAnswered DEF ThreadsInv
  <1> QED
    BY <1>1, <1>4 DEF IInv

\* One that writes nothing.
LEMMA ReadStep ==
    ASSUME IInv, Observe, NEW t \in Thread, NEW label \in PC, NEW l \in Loc, Goto(t, label),
           loc' = [loc EXCEPT ![t] = l], UNCHANGED <<now, rows, tokens, authority>>,
           Writing(t)', Checking(t)', Answered(t)'
    PROVE  IInv'
  <1>1. rows' \in [Id -> Row \cup {NoRow}] /\ tokens' \subseteq Token
    BY Zenon DEF IInv, TypeOK
  <1>2. RowsInv' /\ TokenMatchesRow'
    BY DEF IInv, RowsInv, RowOK, End, TokenMatchesRow
  <1>3. Grows
    BY GrowsUntouched
  <1> QED
    BY Zenon, <1>1, <1>2, <1>3, StepHolds

LEMMA DoneStep ==
    ASSUME IInv, Observe, NEW t \in Thread, Done(t), UNCHANGED <<now, authority>>,
           rows' \in [Id -> Row \cup {NoRow}], tokens' \subseteq Token, Grows,
           RowsInv', TokenMatchesRow'
    PROVE  IInv'
  <1>1. Goto(t, "idle") /\ loc' = [loc EXCEPT ![t] = NoLoc] /\ "idle" \in PC
    BY DEF Done, PC
  <1>2. pc'[t] = "idle" /\ loc'[t] = NoLoc
    BY <1>1 DEF IInv, TypeOK, Goto
  <1>3. Writing(t)' /\ Checking(t)' /\ Answered(t)'
    BY <1>2, NoLocFacts DEF Writing, Checking, Answered
  <1> QED
    BY Zenon, <1>1, <1>3, NoLocFacts, StepHolds

LEMMA EndSteps ==
    ASSUME IInv, Observe, NEW t \in Thread, Abort(t) \/ Reply(t)
    PROVE  IInv'
  <1>1. Done(t) /\ UNCHANGED <<now, rows, tokens, authority>>
    BY DEF Abort, Reply
  <1>2. rows' \in [Id -> Row \cup {NoRow}] /\ tokens' \subseteq Token
    BY <1>1 DEF IInv, TypeOK
  <1>3. RowsInv' /\ TokenMatchesRow'
    BY <1>1 DEF IInv, RowsInv, RowOK, End, TokenMatchesRow
  <1>4. Grows
    BY <1>1, GrowsUntouched
  <1> QED
    BY <1>1, <1>2, <1>3, <1>4, DoneStep

LEMMA NoThreadSteps ==
    ASSUME IInv, Observe, Tick \/ AuthorityChanges
    PROVE  IInv'
  <1>1. /\ UNCHANGED <<rows, tokens, pc, loc>> /\ now' \in Nat /\ perms \subseteq perms'
        /\ perms' \subseteq Principal \X Action \X Scope
        /\ owner' \in [Resource -> Principal \cup {NoOwner}]
    <2>1. CASE Tick
      BY <2>1 DEF IInv, TypeOK, Tick, authority
    <2>2. CASE AuthorityChanges
      <3>1. UNCHANGED <<now, rows, tokens, pc, loc>> /\ AuthorityNext
        BY <2>2 DEF AuthorityChanges
      <3>2. ASSUME NEW p \in Principal, NEW r \in Resource, Register(r, p)
            PROVE  perms' = perms /\ owner' \in [Resource -> Principal \cup {NoOwner}]
        BY <3>2 DEF IInv, TypeOK, Register
      <3>3. ASSUME NEW p \in Principal, NEW acts \in SUBSET Action, NEW s \in Scope, Grant(p, acts, s)
            PROVE  /\ owner' = owner /\ perms \subseteq perms'
                   /\ perms' \subseteq Principal \X Action \X Scope
        BY <3>3 DEF IInv, TypeOK, Grant
      <3> QED
        BY Zenon, <3>1, <3>2, <3>3 DEF AuthorityNext, IInv, TypeOK
    <2> QED
      BY <2>1, <2>2
  <1>2. TypeOK'
    <2>1. could' \in [Thread -> SUBSET BOOLEAN]
      BY CouldType DEF IInv, TypeOK
    <2> QED
      BY <1>1, <2>1 DEF IInv, TypeOK
  <1>3. RowsInv' /\ TokenMatchesRow'
    BY <1>1 DEF IInv, RowsInv, RowOK, End, TokenMatchesRow
  <1>4. ThreadsInv'
    BY <1>1, GrowsUntouched, Still, StillAnswered DEF ThreadsInv
  <1> QED
    BY <1>2, <1>3, <1>4 DEF IInv
----------------------------------------------------------------------------
(* Issue and Revoke. *)

LEMMA IssueStep ==
    ASSUME IInv, Observe, NEW t \in Thread, NEW by, NEW ag \in Principal, NEW p \in Principal,
           NEW o \in Org, NEW acts \in SUBSET Action, NEW ttl \in 0..MaxTTL + 1,
           NEW cnf \in Jkt \cup {NoJkt}, Issue(t, by, ag, p, o, acts, ttl, cnf)
    PROVE  IInv'
  <1> DEFINE d == [agent |-> ag, delegator |-> p, org |-> o, scope |-> acts, cnf |-> cnf,
                   exp |-> Clock(t) + ttl * S, revoked |-> FALSE, issued |-> now, ttl |-> ttl]
             l == [loc[t] EXCEPT !.row = d]
  <1>1. /\ pc[t] = "idle" /\ Goto(t, "insert") /\ loc' = [loc EXCEPT ![t] = l]
        /\ UNCHANGED <<now, rows, tokens, authority>> /\ p \notin Agent /\ "insert" \in PC
    BY DEF Issue, PC
  <1>2. ttl \in 1..MaxTTL /\ ttl \in Int
    BY ConstantsOK DEF Issue
  <1>3. /\ now \in Nat /\ S \in Nat /\ MaxSkew \in Nat /\ Offset[t] \in Int
        /\ Offset[t] <= MaxSkew /\ Offset[t] >= -MaxSkew
    BY ConstantsOK DEF IInv, TypeOK
  <1>4. ttl * S \in Int
    BY <1>2, <1>3, Products
  <1>5. Clock(t) + ttl * S \in Int
    BY <1>3, <1>4 DEF Clock
  <1>6. /\ d \in Row /\ d.delegator = p /\ d.exp = Clock(t) + ttl * S /\ d.issued = now
        /\ d.ttl = ttl
    BY <1>2, <1>3, <1>5 DEF Row
  <1> HIDE DEF d
  <1>7. RowOK(d)
    <2>1. End(d) = now + ttl * S
      BY <1>6 DEF End
    <2>2. d.exp <= End(d) + MaxSkew /\ d.exp >= End(d) - MaxSkew
      BY <1>3, <1>4, <1>6, <2>1 DEF Clock
    <2> QED
      BY <1>1, <1>6, <2>2 DEF RowOK
  <1>8. loc[t] \in Loc /\ ~loc[t].dead /\ loc[t].why = "none"
    BY <1>1 DEF IInv, TypeOK, Loc, ThreadsInv, Checking
  <1>9. l \in Loc /\ l.row = d /\ ~l.dead /\ l.why = "none"
    BY <1>6, <1>8 DEF Loc
  <1> HIDE DEF l
  <1>10. pc'[t] = "insert" /\ loc'[t] = l
    BY Zenon, <1>1 DEF IInv, TypeOK, Goto
  <1>11. Writing(t)'
    BY <1>7, <1>9, <1>10 DEF Writing, RowOK, End
  <1>12. Checking(t)' /\ Answered(t)'
    BY Zenon, <1>9, <1>10 DEF Checking, Answered
  <1> QED
    BY Zenon, <1>1, <1>9, <1>11, <1>12, ReadStep

LEMMA InsertStep ==
    ASSUME IInv, Observe, NEW t \in Thread, NEW id \in Id, Insert(t, id)
    PROVE  IInv'
  <1> DEFINE d == loc[t].row
             l == [loc[t] EXCEPT !.did = id]
  <1>1. /\ pc[t] = "insert" /\ Goto(t, "sign") /\ loc' = [loc EXCEPT ![t] = l] /\ "sign" \in PC
        /\ rows[id] = NoRow /\ rows' = [rows EXCEPT ![id] = d] /\ UNCHANGED <<now, tokens, authority>>
    BY DEF Insert, InsertDelegation, PC
  <1>2. loc[t] \in Loc /\ ~loc[t].dead /\ loc[t].why = "none" /\ RowOK(d)
    BY Zenon, <1>1 DEF IInv, TypeOK, Loc, ThreadsInv, Checking, Writing
  <1>3. d \in Row /\ d # NoRow
    BY <1>2, NoRowFacts DEF RowOK
  <1>4. l \in Loc /\ l.row = d /\ ~l.dead /\ l.why = "none" /\ l.did = id
    BY <1>2 DEF Loc
  <1> HIDE DEF l, d
  <1>5. pc'[t] = "sign" /\ loc'[t] = l
    BY <1>1 DEF IInv, TypeOK, Goto
  <1>6. /\ rows' \in [Id -> Row \cup {NoRow}] /\ rows'[id] = d
        /\ \A i \in Id : i # id => rows'[i] = rows[i]
    BY <1>1, <1>3 DEF IInv, TypeOK
  <1>7. Grows
    BY Zenon, <1>1, <1>6 DEF Grows, Same
  <1>8. RowsInv'
    BY Zenon, <1>2, <1>6 DEF IInv, RowsInv, RowOK, End
  <1>9. TokenMatchesRow' /\ tokens' \subseteq Token
    <2>1. \A tok \in tokens : tok.did \in Id /\ tok.did # id
      BY Zenon, <1>1, TokenRows
    <2> QED
      BY <1>1, <1>6, <2>1 DEF IInv, TypeOK, TokenMatchesRow
  <1>10. Writing(t)'
    BY <1>2, <1>3, <1>4, <1>5, <1>6 DEF Writing, RowOK, End, Same
  <1>11. Checking(t)' /\ Answered(t)'
    BY Zenon, <1>4, <1>5 DEF Checking, Answered
  <1> QED
    BY ZenonT(40), <1>1, <1>4, <1>6, <1>7, <1>8, <1>9, <1>10, <1>11, StepHolds

LEMMA SignStep ==
    ASSUME IInv, Observe, NEW t \in Thread, Sign(t)
    PROVE  IInv'
  <1> DEFINE l == loc[t]
             new == [did |-> l.did, exp |-> l.row.exp \div S, cnf |-> l.row.cnf]
  <1>1. /\ pc[t] = "sign" /\ tokens' = tokens \cup {new} /\ Done(t)
        /\ UNCHANGED <<now, rows, authority>>
    BY Zenon DEF Sign
  <1>2. /\ RowOK(l.row) /\ l.did \in Id /\ rows[l.did] # NoRow /\ Same(rows[l.did], l.row)
    BY Zenon, <1>1 DEF IInv, ThreadsInv, Writing
  <1>3. l.row.exp \in Int /\ l.row.cnf \in Jkt \cup {NoJkt}
    BY Zenon, <1>2 DEF RowOK, Row
  <1>4. /\ l.row.exp \div S \in Int /\ (l.row.exp \div S) * S <= l.row.exp
        /\ l.row.exp < ((l.row.exp \div S) + 1) * S
    BY Zenon, <1>3, Seconds
  <1>5. /\ new \in Token /\ new.did = l.did /\ new.cnf = l.row.cnf
        /\ new.exp * S <= l.row.exp /\ l.row.exp < (new.exp + 1) * S
    BY Zenon, <1>2, <1>3, <1>4 DEF Token
  <1> HIDE DEF new
  <1>6. TokenMatchesRow'
    <2>1. ASSUME NEW tok \in tokens'
          PROVE  LET d == rows'[tok.did] IN
                 d # NoRow /\ d.cnf = tok.cnf /\ tok.exp * S <= d.exp /\ d.exp < (tok.exp + 1) * S
      <3>1. CASE tok \in tokens
        BY Zenon, <1>1, <3>1 DEF IInv, TokenMatchesRow
      <3>2. CASE tok = new
        BY Zenon, <1>1, <1>2, <1>5, <3>2 DEF Same
      <3> QED
        BY Zenon, <1>1, <2>1, <3>1, <3>2
    <2> QED
      BY Zenon, <2>1 DEF TokenMatchesRow
  <1>7. rows' \in [Id -> Row \cup {NoRow}] /\ tokens' \subseteq Token
    BY ZenonT(40), <1>1, <1>5 DEF IInv, TypeOK
  <1>8. RowsInv'
    BY <1>1 DEF IInv, RowsInv, RowOK, End
  <1>9. Grows
    BY <1>1 DEF Grows, Same
  <1> QED
    BY Zenon, <1>1, <1>6, <1>7, <1>8, <1>9, DoneStep

LEMMA RevokeStep ==
    ASSUME IInv, Observe, NEW t \in Thread, NEW by, NEW id \in Id, Revoke(t, by, id)
    PROVE  IInv'
  <1> DEFINE l == [loc[t] EXCEPT !.did = id]
  <1>1. /\ pc[t] = "idle" /\ Goto(t, "revoke") /\ loc' = [loc EXCEPT ![t] = l] /\ "revoke" \in PC
        /\ UNCHANGED <<now, rows, tokens, authority>> /\ \E tok \in tokens : tok.did = id
    BY DEF Revoke, PC
  <1>2. loc[t] \in Loc /\ ~loc[t].dead /\ loc[t].why = "none"
    BY <1>1 DEF IInv, TypeOK, Loc, ThreadsInv, Checking
  <1>3. l \in Loc /\ ~l.dead /\ l.why = "none" /\ l.did = id
    BY <1>2 DEF Loc
  <1> HIDE DEF l
  <1>4. pc'[t] = "revoke" /\ loc'[t] = l
    BY Zenon, <1>1 DEF IInv, TypeOK, Goto
  <1>5. rows[id] # NoRow
    BY <1>1, TokenRows
  <1>6. Writing(t)' /\ Checking(t)' /\ Answered(t)'
    BY Zenon, <1>1, <1>3, <1>4, <1>5 DEF Writing, Checking, Answered
  <1> QED
    BY Zenon, <1>1, <1>3, <1>6, ReadStep

LEMMA RevokedStep ==
    ASSUME IInv, Observe, NEW t \in Thread, RevokeDelegation(t)
    PROVE  IInv'
  <1> DEFINE id == loc[t].did
             d == rows[id]
             e == [d EXCEPT !.revoked = TRUE]
  <1>1. /\ pc[t] = "revoke" /\ rows' = [rows EXCEPT ![id] = e] /\ Done(t)
        /\ UNCHANGED <<now, tokens, authority>>
    BY DEF RevokeDelegation, SetRevoked
  <1>2. id \in Id /\ d # NoRow
    BY Zenon, <1>1 DEF IInv, ThreadsInv, Writing
  <1>3. RowOK(d) /\ d \in Row
    BY <1>2 DEF IInv, RowsInv, RowOK
  <1>4. e \in Row /\ Same(e, d) /\ e.revoked
    BY Zenon, <1>3 DEF Row, Same
  <1> HIDE DEF e
  <1>5. RowOK(e) /\ e # NoRow
    BY Zenon, <1>3, <1>4, NoRowFacts DEF RowOK, Same, End
  <1>6. /\ rows' \in [Id -> Row \cup {NoRow}] /\ rows'[id] = e
        /\ \A i \in Id : i # id => rows'[i] = rows[i]
    BY Zenon, <1>1, <1>2, <1>4 DEF IInv, TypeOK
  <1>7. Grows
    <2>1. \A i \in Id : i # id /\ rows[i] # NoRow => rows'[i] # NoRow /\ Same(rows'[i], rows[i])
                                                      /\ (rows[i].revoked => rows'[i].revoked)
      BY Zenon, <1>6 DEF Same
    <2>2. rows'[id] # NoRow /\ Same(rows'[id], rows[id]) /\ (rows[id].revoked => rows'[id].revoked)
      BY Zenon, <1>4, <1>5, <1>6
    <2> QED
      BY Zenon, <1>1, <2>1, <2>2 DEF Grows
  <1>8. RowsInv'
    BY Zenon, <1>5, <1>6 DEF IInv, RowsInv, RowOK, End
  <1>9. TokenMatchesRow' /\ tokens' \subseteq Token
    <2>1. \A tok \in tokens : tok.did \in Id /\ rows[tok.did] # NoRow
      BY TokenRows
    <2>2. \A tok \in tokens : rows'[tok.did] # NoRow /\ Same(rows'[tok.did], rows[tok.did])
      BY <1>7, <2>1 DEF Grows
    <2> QED
      BY ZenonT(40), <1>1, <2>2 DEF IInv, TypeOK, TokenMatchesRow, Same
  <1> QED
    BY <1>1, <1>6, <1>7, <1>8, <1>9, DoneStep
----------------------------------------------------------------------------
(* CheckDelegatedDPoP. *)

LEMMA CheckStep ==
    ASSUME IInv, Observe, NEW t \in Thread, NEW tok \in tokens, NEW a \in Action, NEW r \in Resource,
           NEW o \in Org, NEW m \in (Scope \ Org) \cup {None}, NEW proof \in Proofs \cup {NoProof},
           CheckDelegated(t, tok, a, r, o, m, proof)
    PROVE  IInv'
  <1> DEFINE l == [NoLoc EXCEPT !.tok = tok, !.act = a, !.res = r, !.org = o, !.team = m,
                                !.proof = proof, !.dead = rows[tok.did].revoked]
  <1>1. /\ Goto(t, "verify") /\ loc' = [loc EXCEPT ![t] = l] /\ "verify" \in PC
        /\ UNCHANGED <<now, rows, tokens, authority>>
    BY DEF CheckDelegated, PC
  <1>2. tok \in Token /\ rows[tok.did].revoked \in BOOLEAN /\ proof \in Proof \cup {NoProof}
    <2>1. tok \in Token /\ rows[tok.did] \in Row
      BY Zenon, TokenRows DEF RowOK
    <2> QED
      BY Zenon, <2>1, ProofsOK DEF Row
  <1>3. l \in Loc /\ l.tok = tok /\ l.why = "none" /\ (l.dead => rows[tok.did].revoked)
    <2> DEFINE b == rows[tok.did].revoked
               n == [NoLoc EXCEPT !.tok = tok, !.act = a, !.res = r, !.org = o, !.team = m,
                                  !.proof = proof]
    <2>0. a \in Action \cup {None} /\ r \in Resource \cup {None} /\ o \in Org \cup {None}
          /\ tok \in Token \cup {NoToken}
      BY <1>2
    <2>1. n \in Loc /\ n.tok = tok /\ n.why = "none"
      BY ZenonT(40), <1>2, <2>0, NoLocFacts DEF Loc
    <2>2. l = [n EXCEPT !.dead = b]
      OBVIOUS
    <2> HIDE DEF l, n, b
    <2>3. b \in BOOLEAN
      BY <1>2 DEF b
    <2>4. l \in Loc /\ l.tok = tok /\ l.why = "none" /\ l.dead = b
      BY <2>1, <2>2, <2>3 DEF Loc
    <2> QED
      BY Zenon, <2>4 DEF b
  <1> HIDE DEF l
  <1>4. pc'[t] = "verify" /\ loc'[t] = l
    BY <1>1 DEF IInv, TypeOK, Goto
  <1>5. Writing(t)' /\ Answered(t)'
    BY Zenon, <1>3, <1>4 DEF Writing, Answered
  <1>6. Checking(t)'
    <2>1. l.tok \in tokens' /\ (l.dead => rows'[l.tok.did].revoked) /\ l.why = "none"
      BY Zenon, <1>1, <1>3
    <2>2. pc'[t] \notin {"idle", "insert", "sign", "revoke", "answered", "get", "owner", "permission"}
      BY <1>4
    <2> QED
      BY <1>4, <2>1, <2>2 DEF Checking
  <1> QED
    BY ZenonT(40), <1>1, <1>3, <1>5, <1>6, ReadStep

\* A check refuses before it has admitted the row.
LEMMA AnswerStep ==
    ASSUME IInv, Observe, NEW t \in Thread, pc[t] \in {"verify", "dpop", "get"},
           NEW why \in {"invalid", "expired", "revoked", "outside"}, Answer(t, why),
           UNCHANGED <<now, rows, tokens, authority>>,
           why = "expired" => now > End(rows[loc[t].tok.did]) - S - 2 * MaxSkew
    PROVE  IInv'
  <1> DEFINE l == [[loc[t] EXCEPT !.why = why] EXCEPT !.at = now]
  <1>1. Goto(t, "answered") /\ "answered" \in PC
    BY DEF Answer, PC
  <1>2. loc' = [loc EXCEPT ![t] = l]
    BY Zenon DEF Answer, IInv, TypeOK
  <1>3. loc[t] \in Loc /\ loc[t].tok \in tokens /\ (loc[t].dead => rows[loc[t].tok.did].revoked)
    BY Zenon DEF IInv, TypeOK, Loc, ThreadsInv, Checking
  <1>4. now \in Nat /\ why \in Why
    BY DEF IInv, TypeOK, Why
  <1>5. l \in Loc /\ l.tok = loc[t].tok /\ l.dead = loc[t].dead /\ l.why = why /\ l.at = now
    BY ZenonT(40), <1>3, <1>4 DEF Loc
  <1> HIDE DEF l
  <1>6. pc'[t] = "answered" /\ loc'[t] = l
    BY <1>1, <1>2 DEF IInv, TypeOK, Goto
  <1>7. Writing(t)' /\ Answered(t)'
    BY Zenon, <1>5, <1>6 DEF Writing, Answered
  <1>8. Checking(t)'
    BY Zenon, <1>3, <1>5, <1>6 DEF Checking, End
  <1> QED
    BY Zenon, <1>1, <1>2, <1>5, <1>7, <1>8, ReadStep

LEMMA ProceedStep ==
    ASSUME IInv, Observe, NEW t \in Thread, pc[t] \in {"verify", "dpop"},
           NEW label \in {"dpop", "get"}, Proceed(t, label),
           UNCHANGED <<now, rows, tokens, authority>>, label = "get" => BoundKey(loc[t])
    PROVE  IInv'
  <1> DEFINE l == [loc[t] EXCEPT !.at = now]
  <1>1. Goto(t, label) /\ label \in PC /\ loc' = [loc EXCEPT ![t] = l]
    BY DEF Proceed, PC
  <1>2. /\ loc[t] \in Loc /\ loc[t].tok \in tokens /\ (loc[t].dead => rows[loc[t].tok.did].revoked)
        /\ loc[t].why = "none"
    BY DEF IInv, TypeOK, Loc, ThreadsInv, Checking
  <1>3. now \in Nat
    BY DEF IInv, TypeOK
  <1>4. /\ l \in Loc /\ l.tok = loc[t].tok /\ l.dead = loc[t].dead /\ l.why = "none"
        /\ l.proof = loc[t].proof
    BY <1>2, <1>3 DEF Loc
  <1> HIDE DEF l
  <1>5. pc'[t] = label /\ loc'[t] = l
    BY <1>1 DEF IInv, TypeOK, Goto
  <1>6. Writing(t)' /\ Answered(t)'
    BY Zenon, <1>4, <1>5 DEF Writing, Answered
  <1>7. Checking(t)'
    BY ZenonT(40), <1>2, <1>4, <1>5 DEF Checking, BoundKey
  <1> QED
    BY ZenonT(40), <1>1, <1>4, <1>6, <1>7, ReadStep

\* A token that is out refers to a row of that binding and, to a second, of that expiry.
LEMMA TokenFacts ==
    ASSUME IInv, NEW tok \in tokens
    PROVE  LET d == rows[tok.did] IN
           /\ d \in Row /\ RowOK(d) /\ d.cnf = tok.cnf /\ End(d) \in Int /\ d.exp \in Int
           /\ tok.exp \in Int /\ tok.exp * S \in Int /\ d.exp < tok.exp * S + S
  <1>1. tok \in Token /\ RowOK(rows[tok.did])
    BY TokenRows
  <1>2. tok.exp \in Int /\ S \in Nat
    BY <1>1, ConstantsOK DEF Token
  <1>3. tok.exp * S \in Int /\ (tok.exp + 1) * S = tok.exp * S + S
    BY <1>2
  <1>4. rows[tok.did].cnf = tok.cnf /\ rows[tok.did].exp < (tok.exp + 1) * S
    BY DEF IInv, TokenMatchesRow
  <1>5. rows[tok.did] \in Row
    BY <1>1 DEF RowOK
  <1> QED
    BY Zenon, <1>1, <1>2, <1>3, <1>4, <1>5, LifetimeFacts

LEMMA ClockFacts ==
    ASSUME IInv, NEW t \in Thread
    PROVE  /\ now \in Nat /\ MaxSkew \in Nat /\ Clock(t) \in Int
           /\ now <= Clock(t) + MaxSkew /\ now >= Clock(t) - MaxSkew
  <1>1. /\ now \in Nat /\ MaxSkew \in Nat /\ Offset[t] \in Int
        /\ Offset[t] <= MaxSkew /\ Offset[t] >= -MaxSkew
    BY ConstantsOK DEF IInv, TypeOK
  <1> QED
    BY <1>1 DEF Clock

LEMMA VerifyStep ==
    ASSUME IInv, Observe, NEW t \in Thread, Verify(t)
    PROVE  IInv'
  <1>1. pc[t] = "verify" /\ UNCHANGED <<now, rows, tokens, authority>>
    BY DEF Verify
  <1>2. CASE Answer(t, "invalid")
    BY Zenon, <1>1, <1>2, AnswerStep
  <1>3. CASE Clock(t) \div S >= loc[t].tok.exp /\ Answer(t, "expired")
    <2> DEFINE tok == loc[t].tok
               d == rows[tok.did]
    <2>1. tok \in tokens
      BY Zenon, <1>1 DEF IInv, ThreadsInv, Checking
    <2>2. /\ RowOK(d) /\ End(d) \in Int /\ d.exp \in Int /\ tok.exp \in Int /\ tok.exp * S \in Int
          /\ d.exp < tok.exp * S + S
      BY <2>1, TokenFacts
    <2>3. /\ now \in Nat /\ MaxSkew \in Nat /\ Clock(t) \in Int /\ now >= Clock(t) - MaxSkew
          /\ S \in Nat
      BY Zenon, ClockFacts, ConstantsOK
    <2>4. Clock(t) >= tok.exp * S
      BY ZenonT(40), <1>3, <2>2, <2>3, Seconds
    <2>5. d.exp >= End(d) - MaxSkew
      BY <2>2 DEF RowOK
    <2> HIDE DEF tok, d
    <2>6. now > End(d) - S - 2 * MaxSkew
      BY <2>2, <2>3, <2>4, <2>5
    <2> QED
      BY Zenon, <1>1, <1>3, <2>6, AnswerStep DEF tok, d
  <1>4. CASE loc[t].proof = NoProof /\ Proceed(t, "get")
    BY <1>1, <1>4, ProceedStep DEF BoundKey
  <1>5. CASE Proceed(t, "dpop")
    BY Zenon, <1>1, <1>5, ProceedStep
  <1> QED
    BY <1>2, <1>3, <1>4, <1>5 DEF Verify

LEMMA DPoPStep ==
    ASSUME IInv, Observe, NEW t \in Thread, VerifyDPoP(t)
    PROVE  IInv'
  <1>1. pc[t] = "dpop" /\ UNCHANGED <<now, rows, tokens, authority>>
    BY Zenon DEF VerifyDPoP
  <1>2. CASE Answer(t, "invalid")
    BY Zenon, <1>1, <1>2, AnswerStep
  <1>3. CASE loc[t].proof.jkt = loc[t].tok.cnf /\ Proceed(t, "get")
    BY Zenon, <1>1, <1>3, ProceedStep DEF BoundKey
  <1> QED
    BY Zenon, <1>2, <1>3 DEF VerifyDPoP

LEMMA GetStep ==
    ASSUME IInv, Observe, NEW t \in Thread, Get(t)
    PROVE  IInv'
  <1> DEFINE tok == loc[t].tok
             d == rows[tok.did]
             l == [[loc[t] EXCEPT !.row = d] EXCEPT !.at = now]
  <1>1. pc[t] = "get" /\ UNCHANGED <<now, rows, tokens, authority>>
    BY Zenon DEF Get
  <1>2. /\ loc[t] \in Loc /\ tok \in tokens /\ (loc[t].dead => d.revoked) /\ BoundKey(loc[t])
        /\ loc[t].why = "none"
    BY Zenon, <1>1 DEF IInv, TypeOK, Loc, ThreadsInv, Checking
  <1>3. d \in Row /\ RowOK(d) /\ End(d) \in Int /\ d.exp \in Int
    BY <1>2, TokenFacts
  <1>4. /\ now \in Nat /\ MaxSkew \in Nat /\ Clock(t) \in Int /\ now <= Clock(t) + MaxSkew
        /\ now >= Clock(t) - MaxSkew /\ S \in Nat /\ S > 0
    BY ClockFacts, ConstantsOK
  <1>5. d.exp <= End(d) + MaxSkew /\ d.exp >= End(d) - MaxSkew
    BY Zenon, <1>3 DEF RowOK
  <1>6. CASE Answer(t, "invalid") \/ Answer(t, "revoked") \/ Answer(t, "outside")
    BY Zenon, <1>1, <1>6, AnswerStep
  <1>7. CASE Clock(t) > d.exp /\ Answer(t, "expired")
    <2> HIDE DEF d
    <2>1. now > End(d) - S - 2 * MaxSkew
      BY <1>3, <1>4, <1>5, <1>7
    <2> QED
      BY <1>1, <1>7, <2>1, AnswerStep DEF d
  <1>8. CASE /\ ~d.revoked /\ Clock(t) <= d.exp /\ loc[t].org = d.org /\ loc[t].act \in d.scope
             /\ Goto(t, "owner") /\ loc' = [loc EXCEPT ![t].row = d, ![t].at = now]
    <2>1. now <= End(d) + 2 * MaxSkew
      <3> HIDE DEF d
      <3> QED
        BY <1>3, <1>4, <1>5, <1>8
    <2>2. loc' = [loc EXCEPT ![t] = l] /\ "owner" \in PC
      BY Zenon, <1>8 DEF IInv, TypeOK, PC
    <2>3. /\ l \in Loc /\ l.tok = tok /\ l.row = d /\ l.at = now /\ l.dead = loc[t].dead
          /\ l.org = loc[t].org /\ l.act = loc[t].act /\ l.proof = loc[t].proof /\ l.why = "none"
      BY ZenonT(40), <1>2, <1>3, <1>4 DEF Loc
    <2> HIDE DEF l, d
    <2>4. pc'[t] = "owner" /\ loc'[t] = l
      BY Zenon, <1>8, <2>2 DEF IInv, TypeOK, Goto
    <2>5. Writing(t)' /\ Answered(t)'
      BY ZenonT(40), <2>3, <2>4 DEF Writing, Answered
    <2>6. ~l.dead /\ BoundKey(l)
      BY <1>2, <1>8, <2>3 DEF BoundKey
    <2>7. Same(rows[l.tok.did], l.row)
      BY <2>3 DEF Same, d
    <2>8. Admitted(l)
      BY <1>3, <1>8, <2>1, <2>3, <2>6, <2>7 DEF Admitted
    <2>9. Admitted(loc[t])'
      BY Zenon, <1>1, <2>4, <2>8 DEF Admitted, RowOK, End, BoundKey
    <2>10. Checking(t)'
      BY <1>1, <1>2, <2>3, <2>4, <2>6, <2>9 DEF Checking
    <2> QED
      BY Zenon, <1>1, <1>8, <2>2, <2>3, <2>5, <2>10, ReadStep
  <1> QED
    BY Zenon, <1>6, <1>7, <1>8 DEF Get, Read

\* A check of the delegator's authority moves on, and its answer is among those that
\* an atomic check could have given.
LEMMA AuthorityStep ==
    ASSUME IInv, Observe, NEW t \in Thread, pc[t] \in {"owner", "permission"},
           NEW label \in {"permission", "answered"}, Goto(t, label), NEW l \in Loc,
           NEW why \in {"none", "allowed", "forbidden"}, l = [loc[t] EXCEPT !.why = why],
           loc' = [loc EXCEPT ![t] = l], UNCHANGED <<now, rows, tokens, authority>>,
           why # "none" => label = "answered",
           label = "permission" =>
              \/ HasPermission(l.row.delegator, l.act, Scopes(l)) \/ FALSE \in could'[t],
           why = "allowed" => TRUE \in could'[t], why = "forbidden" => FALSE \in could'[t]
    PROVE  IInv'
  <1>1. loc[t] \in Loc /\ loc[t].tok \in tokens /\ Admitted(loc[t])
    BY DEF IInv, TypeOK, Loc, ThreadsInv, Checking
  <1>2. /\ l.tok = loc[t].tok /\ l.row = loc[t].row /\ l.act = loc[t].act /\ l.org = loc[t].org
        /\ l.proof = loc[t].proof /\ l.at = loc[t].at /\ l.dead = loc[t].dead /\ l.why = why
    BY <1>1 DEF Loc
  <1>3. pc'[t] = label /\ loc'[t] = l /\ label \in PC
    BY Zenon DEF IInv, TypeOK, Goto, PC
  <1>4. Admitted(loc[t])'
    BY <1>1, <1>2, <1>3 DEF Admitted, RowOK, End, BoundKey
  <1>5. Checking(t)'
    <2>1. ~l.dead /\ l.tok \in tokens'
      BY <1>1, <1>2 DEF Admitted
    <2> QED
      BY Zenon, <1>2, <1>3, <1>4, <2>1 DEF Checking
  <1>6. Writing(t)'
    BY <1>3 DEF Writing
  <1>7. HasPermission(l.row.delegator, l.act, Scopes(l)) =>
           HasPermission(loc[t].row.delegator, loc[t].act, Scopes(loc[t]))'
    <2>1. perms' = perms
      BY DEF authority
    <2>2. Scopes(loc[t])' = Scopes(l)
      BY <1>3 DEF Scopes
    <2> QED
      BY <1>3, <2>1, <2>2 DEF HasPermission
  <1>8. Answered(t)'
    BY Zenon, <1>2, <1>3, <1>7 DEF Answered
  <1> QED
    BY Zenon, <1>3, <1>5, <1>6, <1>8, ReadStep

\* What an atomic check would say after the step is among the possible answers.
LEMMA CouldNow ==
    ASSUME IInv, Observe, NEW t \in Thread, pc[t] \in {"owner", "permission"},
           pc'[t] \in {"permission", "answered"}, NEW l, loc'[t] = l, l.row = loc[t].row,
           l.act = loc[t].act, l.res = loc[t].res, Scopes(l) = Scopes(loc[t]), UNCHANGED authority
    PROVE  LET k == loc[t] IN
           /\ Permitted(k.row.delegator, k.act, k.res, Scopes(k)) => TRUE \in could'[t]
           /\ ~Permitted(k.row.delegator, k.act, k.res, Scopes(k)) => FALSE \in could'[t]
  <1> DEFINE b == Permitted(loc[t].row.delegator, loc[t].act, loc[t].res, Scopes(loc[t]))'
             c == Permitted(loc[t].row.delegator, loc[t].act, loc[t].res, Scopes(loc[t]))
  <1>1. l.row # NoRow
    <2>1. Admitted(loc[t])
      BY DEF IInv, ThreadsInv, Checking
    <2> QED
      BY Zenon, <2>1, NoRowFacts DEF Admitted, RowOK
  <1>2. b \in BOOLEAN /\ b \in could'[t]
    <2>1. b \in BOOLEAN /\ could'[t] = could[t] \cup {b}
      BY ZenonT(40), <1>1, CouldGrows
    <2> HIDE DEF b
    <2> QED
      BY Zenon, <2>1
  <1>3. b <=> c
    <2>1. owner' = owner /\ perms' = perms
      BY Zenon DEF authority
    <2>2. Scopes(loc[t])' = Scopes(loc[t])
      BY Zenon DEF Scopes
    <2>3. IsOwner(loc[t].row.delegator, loc[t].res)' <=> IsOwner(loc[t].row.delegator, loc[t].res)
      BY Zenon, <2>1 DEF IsOwner
    <2>4. HasPermission(loc[t].row.delegator, loc[t].act, Scopes(loc[t]))'
             <=> HasPermission(loc[t].row.delegator, loc[t].act, Scopes(loc[t]))
      BY <2>1, <2>2 DEF HasPermission
    <2> QED
      BY <2>3, <2>4 DEF Permitted
  <1> HIDE DEF b, c
  <1>4. (c => TRUE \in could'[t]) /\ (~c => FALSE \in could'[t])
    BY <1>2, <1>3, Zenon
  <1> QED
    BY Zenon, <1>4 DEF c

LEMMA OwnerStep ==
    ASSUME IInv, Observe, NEW t \in Thread, CheckOwner(t)
    PROVE  IInv'
  <1> DEFINE k == loc[t]
  <1>1. pc[t] = "owner" /\ UNCHANGED <<now, rows, tokens, authority>>
    BY Zenon DEF CheckOwner
  <1>2. k \in Loc /\ k.why = "none"
    BY <1>1 DEF IInv, TypeOK, Loc, ThreadsInv, Checking
  <1>3. CASE /\ IsOwner(k.row.delegator, k.res) /\ Goto(t, "answered")
             /\ loc' = [loc EXCEPT ![t].why = "allowed"]
    <2> DEFINE l == [k EXCEPT !.why = "allowed"]
    <2>1. /\ l \in Loc /\ l.row = k.row /\ l.act = k.act /\ l.res = k.res /\ l.org = k.org
          /\ l.team = k.team
      BY <1>2 DEF Loc, Why
    <2>2. loc' = [loc EXCEPT ![t] = l] /\ pc'[t] = "answered" /\ loc'[t] = l
      BY <1>3 DEF IInv, TypeOK, Goto
    <2> HIDE DEF l
    <2>3. Scopes(l) = Scopes(k)
      BY <2>1 DEF Scopes
    <2>4. TRUE \in could'[t]
      BY Zenon, <1>1, <1>3, <2>1, <2>2, <2>3, CouldNow DEF Permitted
    <2>5. l = [loc[t] EXCEPT !.why = "allowed"]
      BY DEF l
    <2> QED
      BY Zenon, <1>1, <1>3, <2>1, <2>2, <2>4, <2>5, AuthorityStep
  <1>4. CASE ~IsOwner(k.row.delegator, k.res) /\ Goto(t, "permission") /\ UNCHANGED loc
    <2>1. pc'[t] = "permission" /\ loc'[t] = k
      BY <1>4 DEF IInv, TypeOK, Goto
    <2>2. HasPermission(k.row.delegator, k.act, Scopes(k)) \/ FALSE \in could'[t]
      BY Zenon, <1>1, <1>4, <2>1, CouldNow DEF Permitted
    <2>3. k = [loc[t] EXCEPT !.why = "none"] /\ loc' = [loc EXCEPT ![t] = k]
      BY <1>2, <1>4 DEF Loc, IInv, TypeOK
    <2> QED
      BY Zenon, <1>1, <1>2, <1>4, <2>2, <2>3, AuthorityStep
  <1> QED
    BY <1>3, <1>4 DEF CheckOwner

LEMMA PermissionStep ==
    ASSUME IInv, Observe, NEW t \in Thread, CheckPermission(t)
    PROVE  IInv'
  <1> DEFINE k == loc[t]
             has == HasPermission(k.row.delegator, k.act, Scopes(k))
             why == IF has THEN "allowed" ELSE "forbidden"
             l == [k EXCEPT !.why = why]
  <1>1. /\ pc[t] = "permission" /\ UNCHANGED <<now, rows, tokens, authority>> /\ Goto(t, "answered")
        /\ loc' = [loc EXCEPT ![t] = l]
    BY DEF CheckPermission
  <1>2. k \in Loc /\ (has \/ FALSE \in could[t]) /\ k.row # NoRow
    BY Zenon, <1>1, NoRowFacts DEF IInv, TypeOK, Loc, ThreadsInv, Answered, Checking, Admitted, RowOK
  <1>3. why \in {"allowed", "forbidden"} /\ (why = "allowed" <=> has)
    OBVIOUS
  <1> HIDE DEF why
  <1>4. /\ l \in Loc /\ l.row = k.row /\ l.act = k.act /\ l.res = k.res /\ l.org = k.org
        /\ l.team = k.team
    BY <1>2, <1>3 DEF Loc, Why
  <1>5. pc'[t] = "answered" /\ loc'[t] = l
    BY <1>1 DEF IInv, TypeOK, Goto
  <1>6. l = [loc[t] EXCEPT !.why = why]
    OBVIOUS
  <1> HIDE DEF l
  <1>7. Scopes(l) = Scopes(k)
    BY <1>4 DEF Scopes
  <1>8. has => TRUE \in could'[t]
    BY Zenon, <1>1, <1>4, <1>5, <1>7, CouldNow DEF Permitted
  <1>9. ~has => FALSE \in could'[t]
    <2>1. could[t] \subseteq could'[t]
      BY Zenon, <1>2, <1>4, <1>5, CouldGrows
    <2> QED
      BY Zenon, <1>2, <2>1
  <1> QED
    BY Zenon, <1>1, <1>3, <1>4, <1>6, <1>8, <1>9, AuthorityStep
----------------------------------------------------------------------------
LEMMA Inductive == Spec => []IInv
  <1>1. IInv /\ [Next]_vars => IInv'
    <2> SUFFICES ASSUME IInv, [Next]_vars PROVE IInv'
      OBVIOUS
    <2>1. CASE UNCHANGED vars
      <3>1. UNCHANGED <<now, rows, tokens, pc, loc, could, owner, perms>>
        BY Zenon, <2>1 DEF vars
      <3>2. TypeOK'
        BY <3>1 DEF IInv, TypeOK
      <3>3. RowsInv' /\ TokenMatchesRow'
        BY Zenon, <3>1 DEF IInv, RowsInv, RowOK, End, TokenMatchesRow
      <3>4. ASSUME NEW t \in Thread PROVE Writing(t)' /\ Checking(t)' /\ Answered(t)'
        <4>1. Writing(t)' /\ Checking(t)'
          BY <3>1, GrowsUntouched, Still
        <4>2. Answered(t)'
          BY Zenon, <3>1 DEF IInv, ThreadsInv, Answered, HasPermission, Scopes
        <4> QED
          BY <4>1, <4>2
      <3> QED
        BY <3>2, <3>3, <3>4 DEF IInv, ThreadsInv
    <2>2. CASE Step /\ Observe
      <3> USE <2>2
      <3>1. CASE Tick \/ AuthorityChanges
        BY <3>1, NoThreadSteps
      <3>2. ASSUME NEW t \in Thread, NEW by, NEW ag \in Principal, NEW p \in Principal, NEW o \in Org,
                   NEW acts \in SUBSET Action, NEW ttl \in 0..MaxTTL + 1, NEW cnf \in Jkt \cup {NoJkt},
                   Issue(t, by, ag, p, o, acts, ttl, cnf)
            PROVE  IInv'
        BY <3>2, IssueStep
      <3>3. ASSUME NEW t \in Thread, NEW id \in Id, Insert(t, id) PROVE IInv'
        BY <3>3, InsertStep
      <3>4. ASSUME NEW t \in Thread, NEW by, NEW id \in Id, Revoke(t, by, id) PROVE IInv'
        BY <3>4, RevokeStep
      <3>5. ASSUME NEW t \in Thread, NEW tok \in tokens, NEW a \in Action, NEW r \in Resource,
                   NEW o \in Org, NEW m \in (Scope \ Org) \cup {None},
                   NEW proof \in Proofs \cup {NoProof}, CheckDelegated(t, tok, a, r, o, m, proof)
            PROVE  IInv'
        BY <3>5, CheckStep
      <3>6. ASSUME NEW t \in Thread, Sign(t) \/ RevokeDelegation(t) \/ Abort(t) \/ Reply(t)
            PROVE  IInv'
        BY <3>6, SignStep, RevokedStep, EndSteps
      <3>7. ASSUME NEW t \in Thread, \/ Verify(t) \/ VerifyDPoP(t) \/ Get(t) \/ CheckOwner(t)
                                     \/ CheckPermission(t)
            PROVE  IInv'
        BY <3>7, VerifyStep, DPoPStep, GetStep, OwnerStep, PermissionStep
      <3> QED
        BY ZenonT(40), <3>1, <3>2, <3>3, <3>4, <3>5, <3>6, <3>7 DEF Step
    <2> QED
      BY <2>1, <2>2 DEF Next
  <1> QED
    BY <1>1, InitHolds, PTL DEF Spec

(***************************************************************************)
(* A token that is out has its row, with its key binding and its expiry to *)
(* the second (Issue: the row is stored before the token is signed).       *)
(***************************************************************************)
THEOREM TokenMatchesRowHolds == Spec => []TokenMatchesRow
  BY Inductive, PTL DEF IInv

(***************************************************************************)
(* No check that began after the revocation is allowed (CheckDelegatedDPoP *)
(* reads the row in every call).                                           *)
(***************************************************************************)
THEOREM RevokedStaysRevokedHolds == Spec => []RevokedStaysRevoked
  <1>1. IInv => RevokedStaysRevoked
    BY Zenon DEF IInv, ThreadsInv, Checking, Admitted, RevokedStaysRevoked
  <1> QED
    BY <1>1, Inductive, PTL

\* The row of a thread that has answered for it.
LEMMA AnsweredRow ==
    ASSUME IInv, NEW t \in Thread, loc[t].why \in {"allowed", "forbidden"}
    PROVE  /\ Admitted(loc[t]) /\ loc[t].tok \in tokens
           /\ rows[loc[t].tok.did].cnf = loc[t].tok.cnf
  <1>1. Admitted(loc[t]) /\ pc[t] = "answered" /\ loc[t].tok \in tokens
    BY DEF IInv, ThreadsInv, Checking
  <1> QED
    BY Zenon, <1>1, TokenFacts

(***************************************************************************)
(* In true time and for any skew: an allowed check read the row within its *)
(* lifetime and twice the skew, and a token is called expired at most a    *)
(* second and twice the skew early (CheckDelegatedDPoP, Verify).           *)
(***************************************************************************)
THEOREM ValidityBoundedHolds == Spec => []ValidityBounded
  <1>1. IInv => ValidityBounded
    <2> SUFFICES ASSUME IInv, NEW t \in Thread
                 PROVE  LET d == rows[loc[t].tok.did] IN
                        /\ loc[t].why = "allowed" => loc[t].at <= End(d) + 2 * MaxSkew
                        /\ loc[t].why = "expired" => loc[t].at > End(d) - S - 2 * MaxSkew
      BY ZenonT(40) DEF ValidityBounded, End
    <2>1. ASSUME loc[t].why = "allowed" PROVE loc[t].at <= End(rows[loc[t].tok.did]) + 2 * MaxSkew
      BY <2>1, AnsweredRow DEF Admitted, Same, End
    <2> QED
      BY Zenon, <2>1 DEF IInv, ThreadsInv, Checking
  <1> QED
    BY <1>1, Inductive, PTL

(***************************************************************************)
(* The two statements of the authority check act as one: the answer is one *)
(* that the delegator could have been given at a moment of the call, and   *)
(* it stays within the row (CheckDelegatedDPoP, authz.Service.Check).      *)
(***************************************************************************)
THEOREM AnswersForDelegatorHolds == Spec => []AnswersForDelegator
  <1>1. IInv => AnswersForDelegator
    <2> SUFFICES ASSUME IInv, NEW t \in Thread
                 PROVE  LET l == loc[t]
                            d == rows[l.tok.did] IN
                        /\ l.why \in {"allowed", "forbidden"} => (l.why = "allowed") \in could[t]
                        /\ l.why = "allowed" =>
                              /\ l.act \in d.scope /\ l.org = d.org /\ d.delegator \notin Agent
                              /\ l.proof # NoProof => l.proof.jkt = d.cnf
      BY DEF AnswersForDelegator
    <2>1. Answered(t)
      BY DEF IInv, ThreadsInv
    <2>2. loc[t].why \in {"allowed", "forbidden"} => (loc[t].why = "allowed") \in could[t]
      <3>1. CASE loc[t].why = "allowed"
        <4>1. (loc[t].why = "allowed") = TRUE /\ TRUE \in could[t]
          BY Zenon, <2>1, <3>1 DEF Answered
        <4> QED
          BY Zenon, <4>1
      <3>2. CASE loc[t].why = "forbidden"
        <4>1. (loc[t].why = "allowed") = FALSE /\ FALSE \in could[t]
          BY Zenon, <2>1, <3>2 DEF Answered
        <4> QED
          BY Zenon, <4>1
      <3> QED
        BY <3>1, <3>2
    <2>3. ASSUME loc[t].why = "allowed"
          PROVE  LET l == loc[t]
                     d == rows[l.tok.did] IN
                 /\ l.act \in d.scope /\ l.org = d.org /\ d.delegator \notin Agent
                 /\ l.proof # NoProof => l.proof.jkt = d.cnf
      BY Zenon, <2>3, AnsweredRow DEF Admitted, RowOK, Same, BoundKey
    <2> QED
      BY ZenonT(40), <2>2, <2>3
  <1> QED
    BY <1>1, Inductive, PTL
============================================================================
