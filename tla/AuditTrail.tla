----------------------------- MODULE AuditTrail -----------------------------
(***************************************************************************)
(* What the audit subsystem promises: each chain is a log that only grows, *)
(* a recorded event enters the log of its chain at most once, and events   *)
(* that one process recorded for a chain enter it in the order in which    *)
(* they were recorded. (internal/audit, package comment of event.go.)      *)
(***************************************************************************)
EXTENDS Naturals, Sequences, Functions

CONSTANTS Proc, Event, Chain, ChainOf

VARIABLES
    accepted,   \* per process, the events its recorder took, in order
    log         \* per chain, the stored events

Init ==
    /\ accepted = [p \in Proc |-> <<>>]
    /\ log = [c \in Chain |-> <<>>]

Accept(p, e) ==
    /\ \A q \in Proc : e \notin Range(accepted[q])
    /\ accepted' = [accepted EXCEPT ![p] = Append(@, e)]
    /\ UNCHANGED log

\* s is the events of chain c that a, which has none twice, has from lo to hi, in
\* their order.
Selects(s, a, c, lo, hi) ==
    /\ Range(s) = {a[k] : k \in {k \in lo..hi : ChainOf[a[k]] = c}}
    /\ \A i, j \in DOMAIN s, k, l \in lo..hi : i < j /\ s[i] = a[k] /\ s[j] = a[l] => k < l

\* A batch is of a run of what p accepted, past everything of p the chain has.
Store(p, c, lo, hi, batch) ==
    /\ \A i \in lo..Len(accepted[p]) : accepted[p][i] \notin Range(log[c])
    /\ Selects(batch, accepted[p], c, lo, hi)
    /\ log' = [log EXCEPT ![c] = @ \o batch]
    /\ UNCHANGED accepted

Next ==
    \E p \in Proc :
        \/ \E e \in Event : Accept(p, e)
        \/ \E c \in Chain, lo, hi \in 1..Len(accepted[p]) :
              \E n \in 1..(hi - lo + 1) :
                  \E batch \in [1..n -> Event] : Store(p, c, lo, hi, batch)

Spec == Init /\ [][Next]_<<accepted, log>>

\* In the log g, the events of a are in a's order, and none is there twice.
Follows(g, a) ==
    \A i, j \in DOMAIN g, k, l \in DOMAIN a : i < j /\ g[i] = a[k] /\ g[j] = a[l] => k < l

(***************************************************************************)
(* A chain holds only events that some process recorded for it, each at    *)
(* most once, and those of one process in the order in which its recorder  *)
(* took them (Recorder.Record, drainUpTo, append and Store.Append).        *)
(***************************************************************************)
OnceInOrder ==
    \A c \in Chain :
        /\ \A e \in Range(log[c]) : ChainOf[e] = c /\ \E p \in Proc : e \in Range(accepted[p])
        /\ \A p \in Proc : Follows(log[c], accepted[p])
============================================================================
