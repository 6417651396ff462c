------------------------------- MODULE Listing -------------------------------
(***************************************************************************)
(* Keyset pagination: a client walks GET /nodes, /users, /nodes/{id}/ips or    *)
(* /nodes/{id}/traffic page by page while rows are inserted, deleted and       *)
(* moved. The cursor is the sort key of the last row shown; no page keeps      *)
(* anything on the server. The default range of /traffic is worked out anew    *)
(* from the clock for every page.                                           *)
(***************************************************************************)
EXTENDS Integers, FiniteSets

CONSTANTS
    Rows,       \* the part of the key that is unique: name, id, address, bucket (numbers, in its order)
    Sorts,      \* values of the column that leads the key of /ips
    Edges,      \* ends of the range of /traffic when the walk begins
    PageSize,
    MaxWrites   \* bound: changes of the table and of the range

\* What is listed, and how.
Lists == {"nodes", "users", "traffic", "ipsAsc", "ipsDesc"}

VARIABLES
    list,
    rowKey,     \* the table: the leading column of the rows that exist
    matches,    \* rows that pass the filter of the request (q, tag, enabled)
    from, to,   \* /traffic: the range of buckets
    given,      \* /traffic: the ends of the range the client gave, which the next link carries
    cursor,     \* the key of the last row shown, << >> before the first page
    shown,      \* how often a row was on one of the pages
    done, writes,
    \* --- history, read by properties only ---
    still,      \* rows that have been in the table, unmoved, since the walk began
    steady      \* rows that have passed the filter and been in the range since the walk began

vars == <<list, rowKey, matches, from, to, given, cursor, shown, done, writes, still, steady>>

\* Names, ids and buckets are the whole key; /ips is sorted by bytes or by last_seen_at first.
Leads == IF list \in {"ipsAsc", "ipsDesc"} THEN Sorts ELSE {0}

\* The filters of /nodes and /ips, by any set of rows; the range of /traffic is one of its own.
Filters == IF list \in {"users", "traffic"} THEN {Rows} ELSE SUBSET Rows
Ends == IF list = "traffic" THEN Edges ELSE {0}
Descending == list \in {"traffic", "ipsDesc"}

\* bucket_start >= ? AND bucket_start <= ?
InRange(r) == list = "traffic" => from <= r /\ r <= to

Passes(r) == r \in matches /\ InRange(r)

Init ==
    /\ list \in Lists
    /\ rowKey \in UNION {[S -> Leads] : S \in SUBSET Rows}
    /\ matches \in Filters
    /\ from \in Ends /\ to \in Ends /\ from <= to
    /\ given \in IF list = "traffic" THEN SUBSET {"from", "to"} ELSE {{}}
    /\ cursor = <<>> /\ shown = [r \in Rows |-> 0] /\ done = FALSE /\ writes = 0
    /\ still = DOMAIN rowKey /\ steady = {r \in Rows : Passes(r)}

Key(r) == <<rowKey[r], r>>

Before(k, l) ==
    LET Less(x, y) == x[1] < y[1] \/ (x[1] = y[1] /\ x[2] < y[2])
    IN IF Descending THEN Less(l, k) ELSE Less(k, l)

\* Mutant of After: the tie-break on source_ip is missing.
AfterLead(r) == cursor = <<>> \/ (IF Descending THEN Key(r)[1] < cursor[1] ELSE Key(r)[1] > cursor[1])

\* col < ? OR (col = ? AND source_ip < ?), and the comparisons of a name, an id, a bucket.
After(r) == cursor = <<>> \/ Before(cursor, Key(r))

\* The rows behind the cursor that pass the filter.
Rest == {r \in DOMAIN rowKey : After(r) /\ Passes(r)}

\* The first PageSize of them (LIMIT), or all.
IsPage(page, rest) ==
    /\ page \subseteq rest
    /\ Cardinality(page) = PageSize \/ (page = rest /\ Cardinality(rest) < PageSize)
    /\ \A q \in page, r \in rest \ page : Before(Key(q), Key(r))

IsLast(r, page) == \A q \in page \ {r} : Before(Key(q), Key(r))

\* /traffic offers a next page after every full one, the others look one row further.
More(rest) == IF list = "traffic" THEN Cardinality(rest) >= PageSize ELSE Cardinality(rest) > PageSize

\* One page.
Page ==
    /\ ~done
    /\ \E page \in SUBSET Rest :
         /\ IsPage(page, Rest)
         /\ shown' = [r \in Rows |-> IF r \in page THEN shown[r] + 1 ELSE shown[r]]
         /\ IF More(Rest) THEN (\E r \in page : IsLast(r, page) /\ cursor' = Key(r)) /\ UNCHANGED done
                          ELSE done' = TRUE /\ UNCHANGED cursor
    /\ UNCHANGED <<list, rowKey, matches, from, to, given, writes, still, steady>>

handleListNodes == list = "nodes" /\ Page
handleListUsers == list = "users" /\ Page
handleNodeIps == list \in {"ipsAsc", "ipsDesc"} /\ Page

\* A range that ends before it begins is refused.
handleNodeTraffic == list = "traffic" /\ from <= to /\ Page

Write == ~done /\ writes < MaxWrites /\ writes' = writes + 1 /\ UNCHANGED <<list, given, cursor, shown, done>>

\* A row appears, or (in /ips) grows or is seen again: it moves in the order.
PutRow(r, lead) ==
    /\ Write /\ lead \in Leads
    /\ r \in DOMAIN rowKey => lead > rowKey[r]
    /\ rowKey' = [x \in DOMAIN rowKey \cup {r} |-> IF x = r THEN lead ELSE rowKey[x]]
    /\ still' = still \ {r} /\ UNCHANGED <<matches, from, to, steady>>

DeleteRow(r) ==
    /\ Write /\ r \in DOMAIN rowKey
    /\ rowKey' = [x \in DOMAIN rowKey \ {r} |-> rowKey[x]]
    /\ still' = still \ {r} /\ UNCHANGED <<matches, from, to, steady>>

\* PATCH of a node's tags or of enabled: it enters or leaves the filter where it stands.
EditRow(r) ==
    /\ Write /\ list = "nodes" /\ r \in DOMAIN rowKey
    /\ matches' = IF r \in matches THEN matches \ {r} ELSE matches \cup {r}
    /\ steady' = steady \ {r} /\ UNCHANGED <<rowKey, from, to, still>>

\* parseTimeRange, a page later: the ends that are not given have moved up with the clock.
SlideRange ==
    /\ Write /\ list = "traffic" /\ given # {"from", "to"}
    /\ from' = IF "from" \in given THEN from ELSE from + 1
    /\ to' = IF "to" \in given THEN to ELSE to + 1
    /\ UNCHANGED <<rowKey, matches, still>>
    /\ steady' = {r \in steady : Passes(r)'}

Next ==
    \/ handleListNodes \/ handleListUsers \/ handleNodeIps \/ handleNodeTraffic
    \/ SlideRange
    \/ \E r \in Rows : EditRow(r) \/ DeleteRow(r) \/ \E lead \in Sorts \cup {0} : PutRow(r, lead)

Spec == Init /\ [][Next]_vars
-----------------------------------------------------------------------------
(* Properties.                                                              *)

\* Every variable keeps its type.
TypeOK ==
    /\ list \in Lists /\ DOMAIN rowKey \subseteq Rows /\ matches \subseteq Rows /\ done \in BOOLEAN
    /\ from \in Int /\ to \in Int /\ given \subseteq {"from", "to"}
    /\ still \subseteq DOMAIN rowKey /\ steady \subseteq Rows /\ writes \in 0..MaxWrites
    /\ shown \in [Rows -> Nat]
    /\ cursor # <<>> => cursor \in (Sorts \cup {0}) \X Rows

\* Whatever appears, disappears or moves around it, and however the range slides, a row that stays in
\* its place is never shown twice; and a walk to the last page has shown it, if it passed the filter of
\* every page. Of /traffic without from, the oldest buckets are those that do not: they may drop out of
\* the range before the walk gets to them.
UnmovedShownOnce ==
    \A r \in still : shown[r] <= 1 /\ (done /\ r \in steady => shown[r] = 1)
==============================================================================
