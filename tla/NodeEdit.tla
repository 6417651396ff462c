------------------------------ MODULE NodeEdit -------------------------------
(***************************************************************************)
(* Writers of one row of the nodes table: PATCH /nodes/{id}, the node forms  *)
(* of the web UI, DELETE, and the ICMP monitor.                              *)
(*                                                                          *)
(* UpdateNode writes every column, so a writer brings back the whole row it   *)
(* read. PATCH compares the client's If-Match with the ETag of the row it     *)
(* reads; the ETag is updated_at, in seconds. The monitor lists the rows,     *)
(* pings for seconds per node, and writes counters and enabled. Nodes here    *)
(* are imported nodes with an outbound, the ones the monitor looks at.        *)
(***************************************************************************)
EXTENDS Naturals, Sequences

CONSTANTS
    Nodes, Editors,
    Gone,           \* no row
    Consecutive,    \* icmp_auto_disable_consecutive
    MaxEdits,       \* bound: accepted edits of one node
    MaxPings,       \* bound: pings of one node
    MaxTime         \* bound: clock, in seconds

VARIABLES
    row,        \* nodes table; the columns only edits change are left out
    now,        \* time.Now().Unix()
    ed,         \* clients that edit, and the handler of their PATCH
    mon,        \* Monitor.checkAllNodes
    \* --- history ---
    edits,      \* the seconds in which the accepted edits of a node were committed
    streak,     \* bad pings of a node since its last good one
    pings,
    missed      \* nodes whose failure count has missed a good ping

vars == <<row, now, ed, mon, edits, streak, pings, missed>>

Idle == [pc |-> "idle", node |-> Gone, etag |-> 0, copy |-> Gone, seen |-> 0, base |-> 0]
Resting == [pc |-> "idle", todo |-> {}, node |-> Gone, copy |-> Gone]
Fresh == [enabled |-> TRUE, fails |-> 0, at |-> 0]

Init ==
    /\ row = [n \in Nodes |-> Fresh]
    /\ now = 0
    /\ ed = [e \in Editors |-> Idle]
    /\ mon = Resting
    /\ edits = [n \in Nodes |-> <<>>]
    /\ streak = [n \in Nodes |-> 0] /\ pings = [n \in Nodes |-> 0]
    /\ missed = {}
-----------------------------------------------------------------------------
(* The nodes table.                                                         *)

\* UpdateNode: every column of r, and the time; no row, no write.
UpdateNode(n, r) ==
    /\ row' = [row EXCEPT ![n] = IF @ = Gone THEN Gone ELSE [r EXCEPT !.at = now]]
    /\ missed' = IF row[n] # Gone /\ r.fails > row[n].fails THEN missed \cup {n} ELSE missed

\* UpdateNodeLatency: the latency columns, and the time.
UpdateNodeLatency(n, fails) ==
    row' = [row EXCEPT ![n] = IF @ = Gone THEN Gone ELSE [@ EXCEPT !.fails = fails, !.at = now]]
-----------------------------------------------------------------------------
(* PATCH /nodes/{node_id}.                                                  *)

\* handleGetNode: the client has the row and its ETag on its screen.
GetNode(e, n) ==
    /\ ed[e].pc = "idle" /\ row[n] # Gone
    /\ ed' = [ed EXCEPT ![e] = [Idle EXCEPT !.pc = "edit", !.node = n, !.etag = row[n].at,
                                            !.seen = Len(edits[n])]]
    /\ UNCHANGED <<row, now, mon, edits, streak, pings, missed>>

\* Mutant of Matches: If-Match has to be present, and is not compared.
MatchesAny(e) == row[ed[e].node] # Gone

\* nodeOr404 and the comparison of If-Match with nodeETag(node.UpdatedAt).
Matches(e) == row[ed[e].node] # Gone /\ row[ed[e].node].at = ed[e].etag

\* The handler reads the row; 404 or 412 ends it here.
PatchRead(e) ==
    /\ ed[e].pc = "edit"
    /\ ed' = IF Matches(e)
             THEN [ed EXCEPT ![e].pc = "write", ![e].copy = row[ed[e].node],
                             ![e].base = Len(edits[ed[e].node])]
             ELSE [ed EXCEPT ![e].pc = "answered"]
    /\ UNCHANGED <<row, now, mon, edits, streak, pings, missed>>

\* applyNodePatch: a new name, address, outbound, tags or remark, or enabled.
applyNodePatch(copy) == {copy, [copy EXCEPT !.enabled = ~copy.enabled]}

\* The merged row is written, refused by validation (422) or by the unique name
\* (409), or its node is gone (404). Reload follows and reads only.
PatchWrite(e) ==
    LET n == ed[e].node IN
    /\ ed[e].pc = "write"
    /\ \/ /\ Len(edits[n]) < MaxEdits
          /\ \E r \in applyNodePatch(ed[e].copy) : UpdateNode(n, r)
          /\ edits' = IF row[n] = Gone THEN edits ELSE [edits EXCEPT ![n] = Append(@, now)]
       \/ UNCHANGED <<row, missed, edits>>
    /\ ed' = [ed EXCEPT ![e].pc = "answered"]
    /\ UNCHANGED <<now, mon, streak, pings>>

\* handleNodeUpdate and handleNodeToggle of the web UI call PATCH without an
\* If-Match header: 404, or 428, and nothing is read or written further.
FormPatch(e, n) ==
    /\ ed[e].pc = "idle"
    /\ ed' = [ed EXCEPT ![e] = [Idle EXCEPT !.pc = "answered", !.node = n]]
    /\ UNCHANGED <<row, now, mon, edits, streak, pings, missed>>

\* The client has its answer.
Respond(e) ==
    /\ ed[e].pc = "answered"
    /\ ed' = [ed EXCEPT ![e] = Idle]
    /\ UNCHANGED <<row, now, mon, edits, streak, pings, missed>>

\* DELETE /nodes/{node_id} of an imported node.
DeleteNode(n) ==
    /\ row[n] # Gone
    /\ row' = [row EXCEPT ![n] = Gone]
    /\ UNCHANGED <<now, ed, mon, edits, streak, pings, missed>>
-----------------------------------------------------------------------------
(* Monitor.checkAllNodes. The rows it lists are enabled, so its branch that     *)
(* enables a node (node.Enabled is false) is never taken.                      *)

\* ListSubscriptionNodesWithServer: enabled nodes and their failure counts.
ListNodes ==
    /\ mon.pc = "idle"
    /\ mon' = [Resting EXCEPT !.pc = "check",
                   !.todo = {[node |-> n, fails |-> row[n].fails] :
                                n \in {m \in Nodes : row[m] # Gone /\ row[m].enabled}}]
    /\ UNCHANGED <<row, now, ed, edits, streak, pings, missed>>

\* Mutant of FailCount: a good ping does not reset the count.
FailCountKept(listed, good) == IF good THEN listed ELSE listed + 1

\* failCount, from the count in the list. No answer, no permission to ping and a
\* latency over the threshold all count as bad.
FailCount(listed, good) == IF good THEN 0 ELSE listed + 1

\* One node of the round: ping (a few seconds), then UpdateNodeLatency, whose
\* failure skips the node; with enough failures the node is to be disabled.
CheckNode(t, good, stored) ==
    LET fails == FailCount(t.fails, good) IN
    /\ mon.pc = "check" /\ t \in mon.todo /\ pings[t.node] < MaxPings
    /\ pings' = [pings EXCEPT ![t.node] = @ + 1]
    /\ streak' = [streak EXCEPT ![t.node] = IF good THEN 0 ELSE @ + 1]
    /\ IF stored THEN UpdateNodeLatency(t.node, fails) ELSE UNCHANGED row
    /\ mon' = [mon EXCEPT !.todo = @ \ {t}, !.node = t.node,
                          !.pc = IF stored /\ fails >= Consecutive THEN "fetch" ELSE "check"]
    /\ missed' = IF good /\ ~stored THEN missed \cup {t.node} ELSE missed
    /\ UNCHANGED <<now, ed, edits>>

\* The outbound does not decrypt or parse, or names no server: the node is passed over.
SkipNode(t) ==
    /\ mon.pc = "check" /\ t \in mon.todo
    /\ mon' = [mon EXCEPT !.todo = @ \ {t}]
    /\ UNCHANGED <<row, now, ed, edits, streak, pings, missed>>

\* GetNode of the node to be disabled, or an error.
FetchNode ==
    /\ mon.pc = "fetch"
    /\ \/ /\ row[mon.node] # Gone
          /\ mon' = [mon EXCEPT !.pc = "disable", !.copy = [row[mon.node] EXCEPT !.enabled = FALSE]]
       \/ mon' = [mon EXCEPT !.pc = "check"]
    /\ UNCHANGED <<row, now, ed, edits, streak, pings, missed>>

\* UpdateNode of the row fetched above, enabled cleared; an error is logged. The hub is not told.
AutoDisable ==
    /\ mon.pc = "disable"
    /\ UpdateNode(mon.node, mon.copy) \/ UNCHANGED <<row, missed>>
    /\ mon' = [mon EXCEPT !.pc = "check", !.copy = Gone]
    /\ UNCHANGED <<now, ed, edits, streak, pings>>

\* The round is over; monitorLoop sleeps.
EndRound ==
    /\ mon.pc = "check" /\ mon.todo = {}
    /\ mon' = Resting
    /\ UNCHANGED <<row, now, ed, edits, streak, pings, missed>>

Tick ==
    /\ now < MaxTime
    /\ now' = now + 1
    /\ UNCHANGED <<row, ed, mon, edits, streak, pings, missed>>

Next ==
    \/ \E e \in Editors : PatchRead(e) \/ PatchWrite(e) \/ Respond(e)
    \/ \E e \in Editors, n \in Nodes : GetNode(e, n) \/ FormPatch(e, n)
    \/ \E n \in Nodes : DeleteNode(n)
    \/ \E t \in mon.todo, good, stored \in BOOLEAN : CheckNode(t, good, stored)
    \/ \E t \in mon.todo : SkipNode(t)
    \/ ListNodes \/ FetchNode \/ AutoDisable \/ EndRound \/ Tick

Spec == Init /\ [][Next]_vars
-----------------------------------------------------------------------------
(* Properties.                                                              *)

RowType == [enabled : BOOLEAN, fails : Nat, at : Nat]

\* Every variable keeps its type.
TypeOK ==
    /\ row \in [Nodes -> RowType \cup {Gone}] /\ now \in Nat
    /\ ed \in [Editors -> [pc : {"idle", "edit", "write", "answered"}, node : Nodes \cup {Gone},
                           etag : Nat, copy : RowType \cup {Gone}, seen : Nat, base : Nat]]
    /\ mon.pc \in {"idle", "check", "fetch", "disable"}
    /\ mon.todo \subseteq [node : Nodes, fails : Nat]
    /\ mon.node \in Nodes \cup {Gone} /\ mon.copy \in RowType \cup {Gone}
    /\ edits \in [Nodes -> Seq(Nat)] /\ streak \in [Nodes -> Nat] /\ missed \subseteq Nodes

\* A PATCH that gets past the comparison of its If-Match builds on the edits its
\* client has seen: any other edit between the client's GET and the handler's
\* read was committed in the very second of the ETag (which has no finer
\* resolution). The monitor's writes change the ETag as well, and never hide an edit.
EditsSeen ==
    \A e \in Editors : ed[e].pc = "write" =>
        \A i \in (ed[e].seen + 1)..ed[e].base : edits[ed[e].node][i] = ed[e].etag

\* The monitor disables a node only after the configured number of consecutive
\* bad pings, although it counts on from rows it read before the pings and a PATCH
\* writes counters along with the rest of the row. The exception is a node whose
\* count has missed a good ping: a PATCH straddled it and put the old count back,
\* or UpdateNodeLatency failed.
DisabledAfterStreak ==
    [][\A n \in Nodes :
          mon.pc = "disable" /\ mon'.pc # "disable" /\ mon.node = n =>
              streak[n] >= Consecutive \/ n \in missed]_vars
==============================================================================
