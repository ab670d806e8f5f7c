----------------------------- MODULE Delegation -----------------------------
(***************************************************************************)
(* Delegations: a principal lets an agent act for it, within a scope and   *)
(* an organisation, until an expiry or a revocation. Issue stores a row    *)
(* and then signs a token that refers to it; CheckDelegated verifies the   *)
(* token, reads the row and asks for the delegator's own authority, each   *)
(* in a statement of its own, on any replica. (internal/delegation.)       *)
(*                                                                         *)
(* now is the true time in ticks, S ticks to a second; a thread's replica  *)
(* reads now + Offset[t]. Tokens carry whole seconds, rows the exact time. *)
(* Fields marked ghost are read by the properties only.                    *)
(***************************************************************************)
EXTENDS Integers, Authority

CONSTANTS
    Thread,         \* requests served at the same time
    Agent,          \* the principals of type agent
    Root,           \* the caller with the root token
    Org,            \* organisations
    Id,             \* delegation ids
    Jkt, NoJkt,     \* thumbprints of holders' keys; NoJkt: a token bound to none
    Proofs,         \* the DPoP proofs that clients send
    None,
    S,              \* ticks in a second
    MaxTTL,         \* MaxTTLSeconds
    Window,         \* dpopFreshnessWindow, in seconds
    Offset,         \* each thread's clock minus the true time
    MaxSkew,        \* bound on |Offset|
    MaxTime         \* bound on now, for TLC

ASSUME ConstantsOK ==
    /\ S \in Nat \ {0} /\ MaxTTL \in Nat /\ Window \in Nat
    /\ MaxSkew \in Nat /\ MaxTime \in Nat
    /\ Offset \in [Thread -> -MaxSkew..MaxSkew]
    /\ Agent \subseteq Principal /\ Root \notin Principal
    /\ None \notin Scope \cup Id /\ NoJkt \notin Jkt

VARIABLES
    now,
    rows,       \* the delegations table
    tokens,     \* every token signed
    pc, loc,    \* where each thread is, and its local variables
    could       \* ghost: what the authority check could have said so far

vars == <<now, rows, tokens, pc, loc, could, owner, perms>>

\* issued and ttl are ghost: the true time at which exp was computed, and for
\* how long.
Row == [agent : Principal, delegator : Principal, org : Org, scope : SUBSET Action,
        cnf : Jkt \cup {NoJkt}, exp : Int, revoked : BOOLEAN, issued : Nat, ttl : 1..MaxTTL]

NoRow == [agent |-> None, delegator |-> None, org |-> None, scope |-> {}, cnf |-> NoJkt,
          exp |-> 0, revoked |-> FALSE, issued |-> 0, ttl |-> 0]

Token == [did : Id, exp : Int, cnf : Jkt \cup {NoJkt}]

\* A DPoP proof: whose key signed it, its iat, and whether its htm, htu and ath
\* are those of the request.
Proof == [jkt : Jkt, iat : Nat, bound : BOOLEAN]
NoProof == [jkt |-> NoJkt, iat |-> 0, bound |-> FALSE]

ASSUME ProofsOK == Proofs \subseteq Proof

NoToken == [did |-> None, exp |-> 0, cnf |-> NoJkt]

\* dead and at are ghost: the delegation was already revoked when the check
\* began; the true time at which it last read its clock.
NoLoc == [row |-> NoRow, did |-> None, tok |-> NoToken, act |-> None, res |-> None,
          org |-> None, team |-> None, proof |-> NoProof, why |-> "none", dead |-> FALSE,
          at |-> 0]

PC == {"idle", "insert", "sign", "revoke", "verify", "dpop", "get", "owner",
       "permission", "answered"}
Why == {"none", "allowed", "invalid", "expired", "revoked", "outside",
        "forbidden"}

TypeOK ==
    /\ now \in Nat
    /\ rows \in [Id -> Row \cup {NoRow}]
    /\ tokens \subseteq Token
    /\ pc \in [Thread -> PC]
    /\ loc \in [Thread ->
                  [row : Row \cup {NoRow}, did : Id \cup {None}, tok : Token \cup {NoToken},
                   act : Action \cup {None}, res : Resource \cup {None},
                   org : Org \cup {None}, team : (Scope \ Org) \cup {None},
                   proof : Proof \cup {NoProof}, why : Why, dead : BOOLEAN, at : Nat]]
    /\ could \in [Thread -> SUBSET BOOLEAN]
    /\ owner \in [Resource -> Principal \cup {NoOwner}]
    /\ perms \subseteq Principal \X Action \X Scope

Init ==
    /\ AuthorityInit
    /\ now = 0
    /\ rows = [i \in Id |-> NoRow] /\ tokens = {}
    /\ pc = [t \in Thread |-> "idle"] /\ loc = [t \in Thread |-> NoLoc]
    /\ could = [t \in Thread |-> {}]

Clock(t) == now + Offset[t]
Goto(t, label) == pc' = [pc EXCEPT ![t] = label]

Done(t) ==
    /\ Goto(t, "idle")
    /\ loc' = [loc EXCEPT ![t] = NoLoc]
----------------------------------------------------------------------------
(***************************************************************************)
(* Issue: the handler admits root and the delegator itself, the service    *)
(* refuses agents and lifetimes out of range, computes the expiry, inserts *)
(* the row and signs the token.                                            *)
(***************************************************************************)
MayIssue(by, delegator) == by = Root \/ by = delegator

Issue(t, by, ag, p, o, acts, ttl, cnf) ==
    /\ pc[t] = "idle"
    /\ MayIssue(by, p)
    /\ acts # {} /\ ttl > 0 /\ p \notin Agent /\ ttl <= MaxTTL
    /\ Goto(t, "insert")
    /\ loc' = [loc EXCEPT ![t].row =
                 [agent |-> ag, delegator |-> p, org |-> o, scope |-> acts, cnf |-> cnf,
                  exp |-> Clock(t) + ttl * S, revoked |-> FALSE, issued |-> now, ttl |-> ttl]]
    /\ UNCHANGED <<now, rows, tokens, authority>>

InsertDelegation(id, row) ==
    /\ rows[id] = NoRow
    /\ rows' = [rows EXCEPT ![id] = row]

Insert(t, id) ==
    /\ pc[t] = "insert"
    /\ InsertDelegation(id, loc[t].row)
    /\ loc' = [loc EXCEPT ![t].did = id]
    /\ Goto(t, "sign")
    /\ UNCHANGED <<now, tokens, authority>>

\* Mutant: the expiry is rounded up to a whole second.
SignRoundsUp(t) ==
    /\ pc[t] = "sign"
    /\ tokens' = tokens \cup {[did |-> loc[t].did, exp |-> (loc[t].row.exp + S - 1) \div S,
                               cnf |-> loc[t].row.cnf]}
    /\ Done(t)
    /\ UNCHANGED <<now, rows, authority>>

\* ExpiresAt.Unix(): the token's expiry is a whole second, rounded down.
Sign(t) ==
    /\ pc[t] = "sign"
    /\ tokens' = tokens \cup {[did |-> loc[t].did, exp |-> loc[t].row.exp \div S,
                               cnf |-> loc[t].row.cnf]}
    /\ Done(t)
    /\ UNCHANGED <<now, rows, authority>>

(***************************************************************************)
(* Revoke: read the row, admit root and its delegator, update it. A client *)
(* knows the ids that Issue returned.                                      *)
(***************************************************************************)
Revoke(t, by, id) ==
    /\ pc[t] = "idle"
    /\ \E tok \in tokens : tok.did = id
    /\ MayIssue(by, rows[id].delegator)
    /\ Goto(t, "revoke")
    /\ loc' = [loc EXCEPT ![t].did = id]
    /\ UNCHANGED <<now, rows, tokens, authority>>

SetRevoked(id) == rows' = [rows EXCEPT ![id].revoked = TRUE]

RevokeDelegation(t) ==
    /\ pc[t] = "revoke"
    /\ SetRevoked(loc[t].did)
    /\ Done(t)
    /\ UNCHANGED <<now, tokens, authority>>

\* A statement fails, there is no active key, or the process dies.
Abort(t) ==
    /\ pc[t] \in {"insert", "sign", "revoke", "owner", "permission"}
    /\ Done(t)
    /\ UNCHANGED <<now, rows, tokens, authority>>
----------------------------------------------------------------------------
(* CheckDelegatedDPoP. *)

Answer(t, why) ==
    /\ Goto(t, "answered")
    /\ loc' = [loc EXCEPT ![t].why = why, ![t].at = now]

Proceed(t, label) ==
    /\ Goto(t, label)
    /\ loc' = [loc EXCEPT ![t].at = now]

CheckDelegated(t, tok, a, r, o, m, proof) ==
    /\ pc[t] = "idle"
    /\ Goto(t, "verify")
    /\ loc' = [loc EXCEPT ![t] = [NoLoc EXCEPT !.tok = tok, !.act = a, !.res = r, !.org = o,
                                               !.team = m, !.proof = proof,
                                               !.dead = rows[tok.did].revoked]]
    /\ UNCHANGED <<now, rows, tokens, authority>>

\* The replica may not have the token's key (see SigningKeys).
Verify(t) ==
    /\ pc[t] = "verify"
    /\ \/ Answer(t, "invalid")
       \/ IF Clock(t) \div S >= loc[t].tok.exp
          THEN Answer(t, "expired")
          ELSE Proceed(t, IF loc[t].proof = NoProof THEN "get" ELSE "dpop")
    /\ UNCHANGED <<now, rows, tokens, authority>>

Fresh(t, iat) == LET age == Clock(t) - iat * S IN age <= Window * S /\ -age <= Window * S

VerifyDPoP(t) ==
    LET p == loc[t].proof IN
    /\ pc[t] = "dpop"
    /\ IF p.jkt = loc[t].tok.cnf /\ p.bound /\ p.iat # 0 /\ Fresh(t, p.iat)
       THEN Proceed(t, "get") ELSE Answer(t, "invalid")
    /\ UNCHANGED <<now, rows, tokens, authority>>

Read(t, d) ==
    IF loc[t].org = d.org /\ loc[t].act \in d.scope
    THEN Goto(t, "owner") /\ loc' = [loc EXCEPT ![t].row = d, ![t].at = now]
    ELSE Answer(t, "outside")

\* Mutant: the expiry is left to the token's own.
GetTrustsToken(t) ==
    LET d == rows[loc[t].tok.did] IN
    /\ pc[t] = "get"
    /\ \/ d # NoRow /\ d.revoked /\ Answer(t, "revoked")
       \/ d # NoRow /\ ~d.revoked /\ Read(t, d)
    /\ UNCHANGED <<now, rows, tokens, authority>>

\* Mutant: && for ||.
GetRevokedAndExpired(t) ==
    LET d == rows[loc[t].tok.did] IN
    /\ pc[t] = "get"
    /\ \/ d # NoRow /\ d.revoked /\ Clock(t) > d.exp /\ Answer(t, "revoked")
       \/ d # NoRow /\ ~(d.revoked /\ Clock(t) > d.exp) /\ Read(t, d)
    /\ UNCHANGED <<now, rows, tokens, authority>>

\* No row, and any error of the query, refuse.
Get(t) ==
    LET d == rows[loc[t].tok.did] IN
    /\ pc[t] = "get"
    /\ \/ Answer(t, "invalid")
       \/ d # NoRow /\ d.revoked /\ Answer(t, "revoked")
       \/ d # NoRow /\ ~d.revoked /\ Clock(t) > d.exp /\ Answer(t, "expired")
       \/ d # NoRow /\ ~d.revoked /\ Clock(t) <= d.exp /\ Read(t, d)
    /\ UNCHANGED <<now, rows, tokens, authority>>

Scopes(l) == {l.org, l.team} \ {None}

\* authz.Service.Check, on the delegator: two statements.
CheckOwner(t) ==
    LET l == loc[t] IN
    /\ pc[t] = "owner"
    /\ IF IsOwner(l.row.delegator, l.res)
       THEN Goto(t, "answered") /\ loc' = [loc EXCEPT ![t].why = "allowed"]
       ELSE Goto(t, "permission") /\ UNCHANGED loc
    /\ UNCHANGED <<now, rows, tokens, authority>>

\* Mutant: the agent's own roles are asked.
CheckPermissionAgent(t) ==
    LET l == loc[t] IN
    /\ pc[t] = "permission"
    /\ Goto(t, "answered")
    /\ loc' = [loc EXCEPT ![t].why =
                 IF HasPermission(l.row.agent, l.act, Scopes(l)) THEN "allowed" ELSE "forbidden"]
    /\ UNCHANGED <<now, rows, tokens, authority>>

CheckPermission(t) ==
    LET l == loc[t] IN
    /\ pc[t] = "permission"
    /\ Goto(t, "answered")
    /\ loc' = [loc EXCEPT ![t].why =
                 IF HasPermission(l.row.delegator, l.act, Scopes(l)) THEN "allowed"
                                                                     ELSE "forbidden"]
    /\ UNCHANGED <<now, rows, tokens, authority>>

Reply(t) ==
    /\ pc[t] = "answered"
    /\ Done(t)
    /\ UNCHANGED <<now, rows, tokens, authority>>
----------------------------------------------------------------------------
Tick ==
    /\ now < MaxTime
    /\ now' = now + 1
    /\ UNCHANGED <<rows, tokens, pc, loc, authority>>

\* Ownership moves and roles are assigned as Authority says.
AuthorityChanges ==
    /\ AuthorityNext
    /\ UNCHANGED <<now, rows, tokens, pc, loc>>

\* could collects what an atomic check on the delegator would say.
Observe ==
    could' = [t \in Thread |->
                IF loc'[t].row # NoRow /\ pc'[t] \in {"owner", "permission", "answered"}
                THEN could[t] \cup {Permitted(loc[t].row.delegator, loc[t].act, loc[t].res,
                                              Scopes(loc[t]))'}
                ELSE {}]

Step ==
    \/ Tick \/ AuthorityChanges
    \/ \E t \in Thread :
        \/ \E by \in Principal \cup {Root}, ag \in Principal, p \in Principal, o \in Org,
              acts \in SUBSET Action, ttl \in 0..MaxTTL + 1, cnf \in Jkt \cup {NoJkt} :
                Issue(t, by, ag, p, o, acts, ttl, cnf)
        \/ \E id \in Id : Insert(t, id)
        \/ Sign(t)
        \/ \E by \in Principal \cup {Root}, id \in Id : Revoke(t, by, id)
        \/ RevokeDelegation(t) \/ Abort(t)
        \/ \E tok \in tokens, a \in Action, r \in Resource, o \in Org, m \in (Scope \ Org) \cup {None},
              proof \in Proofs \cup {NoProof} :
                CheckDelegated(t, tok, a, r, o, m, proof)
        \/ Verify(t) \/ VerifyDPoP(t) \/ Get(t) \/ CheckOwner(t) \/ CheckPermission(t)
        \/ Reply(t)

Next == Step /\ Observe

Spec == Init /\ [][Next]_vars
----------------------------------------------------------------------------
(***************************************************************************)
(* A token that is out has its row, made by Issue before it, with the same *)
(* key binding; it never outlives the row, and the row outlives it by less *)
(* than the second that ExpiresAt.Unix() cuts off.                         *)
(***************************************************************************)
TokenMatchesRow ==
    \A tok \in tokens :
        LET d == rows[tok.did] IN
        /\ d # NoRow /\ d.cnf = tok.cnf
        /\ tok.exp * S <= d.exp /\ d.exp < (tok.exp + 1) * S

(***************************************************************************)
(* Revocation is final: a check that begins after RevokeDelegation has     *)
(* committed, on whatever replica, is never allowed.                       *)
(***************************************************************************)
RevokedStaysRevoked ==
    \A t \in Thread : loc[t].dead => loc[t].why # "allowed"

(***************************************************************************)
(* In true time, whatever the replicas' clocks: an allowed check read the  *)
(* row before the requested lifetime was over, but for the skew; and no    *)
(* check calls a token expired more than a second, and the skew, early.    *)
(***************************************************************************)
ValidityBounded ==
    \A t \in Thread :
        LET l == loc[t]
            d == rows[l.tok.did]
            end == d.issued + d.ttl * S IN
        /\ l.why = "allowed" => l.at <= end + 2 * MaxSkew
        /\ l.why = "expired" => l.at > end - S - 2 * MaxSkew

(***************************************************************************)
(* What CheckDelegatedDPoP answers once it has read the row is what the    *)
(* delegator itself, never an agent, could have been told at one moment of *)
(* the call, within the scope and organisation of the row; and a proof     *)
(* that came along was made with the key the row is bound to.              *)
(***************************************************************************)
AnswersForDelegator ==
    \A t \in Thread :
        LET l == loc[t]
            d == rows[l.tok.did] IN
        /\ l.why \in {"allowed", "forbidden"} => (l.why = "allowed") \in could[t]
        /\ l.why = "allowed" =>
              /\ l.act \in d.scope /\ l.org = d.org /\ d.delegator \notin Agent
              /\ l.proof # NoProof => l.proof.jkt = d.cnf
============================================================================
