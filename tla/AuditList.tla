------------------------------ MODULE AuditList ------------------------------
(***************************************************************************)
(* Paging through one audit chain while replicas append to it. Rows are    *)
(* known by their sequence number and carry the clock reading of the       *)
(* replica that appended them; a page is ordered by time, its cursor is a  *)
(* sequence number. (Store.Append and Store.List, Handler.List,            *)
(* ListAuditEvents in db/query/audit.sql.)                                 *)
(***************************************************************************)
EXTENDS Integers, FiniteSets, Sequences

CONSTANTS
    Proc,       \* the replicas
    Offset,     \* how far each replica's clock is from the true time, an integer
    Limit,      \* page_size
    MaxRows,    \* bound on the chain, for TLC
    MaxTime     \* bound on now, for TLC

VARIABLES
    now,
    ts,         \* the rows: the time of row i is ts[i]
    state,      \* of the client: new, paging, finished
    after,      \* ListRequest.after_seq
    seen,       \* rows it has been given
    twice,      \* rows it has been given more than once
    extent      \* ghost: the length of the chain at the first page

vars == <<now, ts, state, after, seen, twice, extent>>

Init ==
    /\ now = 0 /\ ts = <<>> /\ state = "new" /\ after = 0
    /\ seen = {} /\ twice = {} /\ extent = 0

\* The advisory lock makes Appends take turns; each stamps its own clock.
Insert(p) ==
    /\ Len(ts) < MaxRows
    /\ ts' = Append(ts, now + Offset[p])
    /\ UNCHANGED <<now, state, after, seen, twice, extent>>

Tick ==
    /\ now < MaxTime
    /\ now' = now + 1
    /\ UNCHANGED <<ts, state, after, seen, twice, extent>>

\* WHERE seq < $7 OR $7 = 0
Older(cursor) == {i \in DOMAIN ts : cursor = 0 \/ i < cursor}

\* ORDER BY ts DESC, seq DESC
Before(i, j) == ts[i] > ts[j] \/ (ts[i] = ts[j] /\ i > j)

\* LIMIT
Page(cursor) ==
    {i \in Older(cursor) : Cardinality({j \in Older(cursor) : Before(j, i)}) < Limit}

\* The client asks for the next page, and stops at an empty one.
List ==
    LET page == Page(after) IN
    /\ state # "finished"
    /\ state' = IF page = {} THEN "finished" ELSE "paging"
    /\ after' = IF page = {} THEN after
                ELSE CHOOSE i \in page : \A j \in page : i = j \/ Before(j, i)
    /\ seen' = seen \cup page
    /\ twice' = twice \cup (seen \cap page)
    /\ extent' = IF state = "new" THEN Len(ts) ELSE extent
    /\ UNCHANGED <<now, ts>>

Next == Tick \/ List \/ \E p \in Proc : Insert(p)

Spec == Init /\ [][Next]_vars
----------------------------------------------------------------------------
(***************************************************************************)
(* TestAuditListPaginatesStrictlyOlderEachPage: every page is strictly     *)
(* older than the one before, and all events appear exactly once ("且全部事件  *)
(* 恰好出现一次"), for the events there were when the client began.          *)
(***************************************************************************)
ExactlyOnce ==
    /\ twice = {}
    /\ state = "finished" => seen = 1..extent
============================================================================
