------------------------------ MODULE NodesProofs ------------------------------
(***************************************************************************)
(* What MCNodes checks, for every set of nodes, clients, requests and ids:     *)
(* lost updates and the monitor's counters in NodeEdit, and what a failed,     *)
(* repeated or overlapping import leaves behind in NodeImport. The last part   *)
(* is about an import that overlaps with no other request: it leaves exactly   *)
(* the document, whatever was there before.                                    *)
(***************************************************************************)
EXTENDS MCNodes, FiniteSetTheorems, WellFoundedInduction, TLAPS
-----------------------------------------------------------------------------
(* Writers of one row.                                                      *)

EdType ==
    [pc : {"idle", "edit", "write", "answered"}, node : Nodes \cup {Gone}, etag : Nat,
     copy : E!RowType \cup {Gone}, seen : Nat, base : Nat]

MonType ==
    [pc : {"idle", "check", "fetch", "disable"}, todo : SUBSET [node : Nodes, fails : Nat],
     node : Nodes \cup {Gone}, copy : E!RowType \cup {Gone}]

\* Who writes has a node and a row to write.
EditTypes ==
    /\ row \in [Nodes -> E!RowType \cup {Gone}] /\ now \in Nat
    /\ ed \in [Editors -> EdType] /\ mon \in MonType
    /\ edits \in [Nodes -> Seq(Nat)] /\ streak \in [Nodes -> Nat] /\ missed \subseteq Nodes
    /\ \A e \in Editors : /\ ed[e].pc \in {"edit", "write"} => ed[e].node \in Nodes
                          /\ ed[e].pc = "write" => ed[e].copy \in E!RowType
    /\ mon.pc \in {"fetch", "disable"} => mon.node \in Nodes
    /\ mon.pc = "disable" => mon.copy \in E!RowType

\* updated_at is never behind an accepted edit, and no edit since a client's GET is older than its ETag.
EditTimes ==
    /\ \A n \in Nodes : row[n] # Gone =>
           row[n].at <= now /\ \A i \in 1..Len(edits[n]) : edits[n][i] <= row[n].at
    /\ \A e \in Editors : ed[e].pc = "edit" =>
           /\ ed[e].etag <= now
           /\ \A i \in (ed[e].seen + 1)..Len(edits[ed[e].node]) : edits[ed[e].node][i] >= ed[e].etag
    /\ \A e \in Editors : ed[e].pc = "write" => ed[e].base <= Len(edits[ed[e].node])
    /\ E!EditsSeen

\* A count that has missed no good ping is no longer than the streak: in the table, in the monitor's
\* list and when the monitor has decided to disable the node.
Counts ==
    /\ \A n \in Nodes \ missed : row[n] # Gone => row[n].fails <= streak[n]
    /\ \A t \in mon.todo : t.node \notin missed => t.fails <= streak[t.node]
    /\ \A t, u \in mon.todo : t.node = u.node => t = u
    /\ mon.pc \in {"fetch", "disable"} /\ mon.node \notin missed => streak[mon.node] >= Consecutive

EditInv == EditTypes /\ EditTimes /\ Counts

\* UpdateNode writes the row it is given, or nothing.
LEMMA UpdateFrame ==
    ASSUME EditTypes, NEW n \in Nodes, NEW r \in E!RowType, E!UpdateNode(n, r)
    PROVE  /\ row' \in [Nodes -> E!RowType \cup {Gone}] /\ missed' \subseteq Nodes /\ missed \subseteq missed'
           /\ \A m \in Nodes \ {n} : row'[m] = row[m]
           /\ row[n] = Gone => row'[n] = Gone
           /\ row[n] # Gone => row'[n].at = now /\ row'[n].fails = r.fails /\ row'[n].enabled = r.enabled
           /\ row[n] # Gone /\ n \notin missed' => r.fails <= row[n].fails
<1>1. PICK w : w = [r EXCEPT !.at = now]
    OBVIOUS
<1>2. w \in E!RowType /\ w.at = now /\ w.fails = r.fails /\ w.enabled = r.enabled
    BY <1>1 DEF E!RowType, EditTypes
<1>3. row' = [row EXCEPT ![n] = IF row[n] = Gone THEN Gone ELSE w]
    BY <1>1 DEF E!UpdateNode
<1>4. missed' = IF row[n] # Gone /\ r.fails > row[n].fails THEN missed \cup {n} ELSE missed
    BY DEF E!UpdateNode
<1>5. row[n] # Gone => row[n].fails \in Nat /\ r.fails \in Nat
    BY DEF EditTypes, E!RowType
<1> QED BY <1>2, <1>3, <1>4, <1>5 DEF EditTypes

\* UpdateNodeLatency writes the count and the time.
LEMMA LatencyFrame ==
    ASSUME EditTypes, NEW n \in Nodes, NEW c \in Nat, E!UpdateNodeLatency(n, c)
    PROVE  /\ row' \in [Nodes -> E!RowType \cup {Gone}]
           /\ \A m \in Nodes \ {n} : row'[m] = row[m]
           /\ row[n] = Gone => row'[n] = Gone
           /\ row[n] # Gone => row'[n].at = now /\ row'[n].fails = c
<1>1. PICK w : w = [row[n] EXCEPT !.fails = c, !.at = now]
    OBVIOUS
<1>2. row[n] # Gone => w \in E!RowType /\ w.at = now /\ w.fails = c
    BY <1>1 DEF E!RowType, EditTypes
<1>3. row' = [row EXCEPT ![n] = IF row[n] = Gone THEN Gone ELSE w]
    BY <1>1 DEF E!UpdateNodeLatency
<1> QED BY <1>2, <1>3 DEF EditTypes

\* Table, list and streaks stand: so do the counts.
LEMMA CountsKept ==
    ASSUME EditTypes, Counts, UNCHANGED <<streak, mon>>, missed \subseteq missed',
           \A n \in Nodes \ missed' : row'[n] # Gone => row[n] # Gone /\ row'[n].fails <= row[n].fails,
           row' \in [Nodes -> E!RowType \cup {Gone}]
    PROVE  Counts'
<1>1. ASSUME NEW n \in Nodes \ missed', row'[n] # Gone
      PROVE  row'[n].fails <= streak[n]
  <2>1. row'[n].fails <= row[n].fails /\ row[n].fails <= streak[n]
      BY <1>1 DEF Counts
  <2>2. row'[n].fails \in Nat /\ row[n].fails \in Nat /\ streak[n] \in Nat
      BY <1>1 DEF EditTypes, E!RowType
  <2> QED BY <2>1, <2>2
<1> QED BY <1>1 DEF Counts

\* Nobody commits an edit and no client gets further with one: the times stay in order.
LEMMA TimesKept ==
    ASSUME EditTypes, EditTimes, EditTypes', now <= now', UNCHANGED edits,
           \A n \in Nodes : row'[n] # Gone => row[n] # Gone /\ row[n].at <= row'[n].at /\ row'[n].at <= now',
           \A e \in Editors : ed'[e] = ed[e] \/ ed'[e].pc \in {"idle", "answered"}
    PROVE  EditTimes'
<1>1. ASSUME NEW n \in Nodes, row'[n] # Gone
      PROVE  row'[n].at <= now' /\ \A i \in 1..Len(edits[n]) : edits[n][i] <= row'[n].at
  <2>1. row'[n].at \in Nat /\ row[n].at \in Nat /\ edits[n] \in Seq(Nat) /\ row[n].at <= row'[n].at
      BY <1>1 DEF EditTypes, E!RowType
  <2>2. \A i \in 1..Len(edits[n]) : edits[n][i] \in Nat /\ edits[n][i] <= row[n].at
      BY <1>1, <2>1 DEF EditTimes
  <2> QED BY <1>1, <2>1, <2>2
<1>2. ASSUME NEW e \in Editors, ed'[e].pc = "edit"
      PROVE  /\ ed'[e].etag <= now'
             /\ \A i \in (ed'[e].seen + 1)..Len(edits[ed'[e].node]) : edits[ed'[e].node][i] >= ed'[e].etag
  <2>1. ed'[e] = ed[e] /\ ed[e].etag \in Nat
      BY <1>2 DEF EditTypes, EdType
  <2> QED BY <1>2, <2>1 DEF EditTimes, EditTypes
<1>3. \A e \in Editors : ed'[e].pc = "write" => ed'[e].base <= Len(edits[ed'[e].node])
    BY DEF EditTimes
<1>4. E!EditsSeen'
    BY DEF EditTimes, E!EditsSeen
<1> QED BY <1>1, <1>2, <1>3, <1>4 DEF EditTimes

\* GET, and the read of PATCH.
LEMMA ReadTimes ==
    ASSUME EditTypes, EditTimes, NEW e \in Editors,
           E!PatchRead(e) \/ \E n \in Nodes : E!GetNode(e, n)
    PROVE  EditTypes' /\ EditTimes'
<1>1. ed[e] \in EdType /\ ed \in [Editors -> EdType]
    BY DEF EditTypes
<1>2. UNCHANGED <<row, now, mon, edits, streak, missed>>
    BY DEF E!PatchRead, E!GetNode
<1>3. ASSUME NEW q \in EdType, ed' = [ed EXCEPT ![e] = q],
             q.pc \in {"edit", "write"} => q.node \in Nodes, q.pc = "write" => q.copy \in E!RowType
      PROVE  EditTypes' /\ ed'[e] = q /\ \A x \in Editors \ {e} : ed'[x] = ed[x]
    BY <1>1, <1>2, <1>3 DEF EditTypes
<1>4. ASSUME NEW n \in Nodes, E!GetNode(e, n)
      PROVE  EditTypes' /\ EditTimes'
  <2>1. row[n] # Gone /\ row[n].at \in Nat /\ edits[n] \in Seq(Nat) /\ row[n].at <= now
      BY <1>4 DEF E!GetNode, EditTypes, E!RowType, EditTimes
  <2>2. PICK q : q = [E!Idle EXCEPT !.pc = "edit", !.node = n, !.etag = row[n].at, !.seen = Len(edits[n])]
      OBVIOUS
  <2>3. q \in EdType /\ q.pc = "edit" /\ q.node = n /\ q.etag = row[n].at /\ q.seen = Len(edits[n])
    <3>1. PICK k \in Nat, t \in Nat : k = Len(edits[n]) /\ t = row[n].at
        BY <2>1
    <3>2. q = [pc |-> "edit", node |-> n, etag |-> t, copy |-> Gone, seen |-> k, base |-> 0]
        BY <2>2, <3>1 DEF E!Idle
    <3> QED BY <3>1, <3>2 DEF EdType
  <2>4. EditTypes' /\ ed'[e] = q /\ \A x \in Editors \ {e} : ed'[x] = ed[x]
      BY <1>3, <1>4, <2>2, <2>3 DEF E!GetNode
  <2>5. Len(edits[n]) \in Nat /\ \A i \in (q.seen + 1)..Len(edits[n]) : FALSE
      BY <2>1, <2>3
  <2>6. E!EditsSeen'
      BY <1>2, <2>3, <2>4 DEF EditTimes, E!EditsSeen
  <2>7. \A x \in Editors : ed'[x].pc = "edit" =>
            /\ ed'[x].etag <= now
            /\ \A i \in (ed'[x].seen + 1)..Len(edits[ed'[x].node]) : edits[ed'[x].node][i] >= ed'[x].etag
    <3>1. \A x \in Editors \ {e} : ed'[x].pc = "edit" =>
            /\ ed'[x].etag <= now
            /\ \A i \in (ed'[x].seen + 1)..Len(edits[ed'[x].node]) : edits[ed'[x].node][i] >= ed'[x].etag
        BY <2>4 DEF EditTimes
    <3> QED BY <2>1, <2>3, <2>4, <2>5, <3>1
  <2>8. \A x \in Editors : ed'[x].pc = "write" => ed'[x].base <= Len(edits[ed'[x].node])
      BY <2>3, <2>4 DEF EditTimes
  <2>9. \A m \in Nodes : row'[m] # Gone =>
           row'[m].at <= now' /\ \A i \in 1..Len(edits'[m]) : edits'[m][i] <= row'[m].at
      BY <1>2 DEF EditTimes
  <2> QED BY <1>2, <2>4, <2>6, <2>7, <2>8, <2>9 DEF EditTimes
<1>5. CASE E!PatchRead(e) /\ ~E!Matches(e)
  <2>1. PICK q : q = [ed[e] EXCEPT !.pc = "answered"]
      OBVIOUS
  <2>2. q \in EdType /\ q.pc = "answered"
      BY <1>1, <2>1 DEF EdType
  <2>3. EditTypes' /\ ed'[e] = q /\ \A x \in Editors \ {e} : ed'[x] = ed[x]
      BY <1>3, <1>5, <2>1, <2>2 DEF E!PatchRead
  <2>4. \A n \in Nodes : row[n] # Gone => row[n].at \in Nat /\ row[n].at <= now
      BY DEF EditTimes, EditTypes, E!RowType
  <2>5. now \in Nat
      BY DEF EditTypes
  <2> QED BY <1>2, <2>2, <2>3, <2>4, <2>5, TimesKept
<1>6. CASE E!PatchRead(e) /\ E!Matches(e)
  <2>1. PICK n \in Nodes : n = ed[e].node /\ ed[e].pc = "edit"
      BY <1>6 DEF E!PatchRead, EditTypes
  <2>2. row[n] \in E!RowType /\ row[n] # Gone /\ row[n].at = ed[e].etag /\ edits[n] \in Seq(Nat)
      BY <1>6, <2>1 DEF E!Matches, EditTypes
  <2>3. PICK q : q = [ed[e] EXCEPT !.pc = "write", !.copy = row[n], !.base = Len(edits[n])]
      OBVIOUS
  <2>4. /\ q \in EdType /\ q.pc = "write" /\ q.copy = row[n] /\ q.base = Len(edits[n]) /\ q.node = n
        /\ q.seen = ed[e].seen /\ q.etag = ed[e].etag /\ q.etag \in Nat /\ q.seen \in Nat
    <3>1. PICK k \in Nat : k = Len(edits[n])
        BY <2>2
    <3>2. PICK w \in E!RowType \cup {Gone} : w = row[n]
        BY <2>2
    <3>3. q = [ed[e] EXCEPT !.pc = "write", !.copy = w, !.base = k]
        BY <2>3, <3>1, <3>2
    <3> QED BY <1>1, <2>1, <3>1, <3>2, <3>3 DEF EdType
  <2>5. ed' = [ed EXCEPT ![e] = q]
      BY <1>1, <1>6, <2>1, <2>3 DEF E!PatchRead
  <2>6. EditTypes' /\ ed'[e] = q /\ \A x \in Editors \ {e} : ed'[x] = ed[x]
      BY <1>3, <2>2, <2>4, <2>5
  <2>7. ASSUME NEW i \in (q.seen + 1)..q.base
        PROVE  edits[n][i] = q.etag
    <3>1. i \in 1..Len(edits[n]) /\ i \in (ed[e].seen + 1)..Len(edits[n])
        BY <2>2, <2>4, <2>7
    <3>2. edits[n][i] \in Nat /\ edits[n][i] <= row[n].at /\ edits[n][i] >= ed[e].etag
        BY <2>1, <2>2, <3>1 DEF EditTimes
    <3> QED BY <2>2, <2>4, <3>2
  <2>8. E!EditsSeen'
    <3>1. \A x \in Editors \ {e} : ed'[x].pc = "write" =>
              \A i \in (ed'[x].seen + 1)..ed'[x].base : edits'[ed'[x].node][i] = ed'[x].etag
        BY <1>2, <2>6 DEF EditTimes, E!EditsSeen
    <3> QED BY <1>2, <2>4, <2>6, <2>7, <3>1 DEF E!EditsSeen
  <2>9. \A x \in Editors : ed'[x].pc = "write" => ed'[x].base <= Len(edits[ed'[x].node])
    <3>1. q.base <= Len(edits[q.node])
        BY <2>2, <2>4
    <3> QED BY <2>6, <3>1 DEF EditTimes
  <2>10. \A x \in Editors : ed'[x].pc = "edit" =>
            /\ ed'[x].etag <= now
            /\ \A i \in (ed'[x].seen + 1)..Len(edits[ed'[x].node]) : edits[ed'[x].node][i] >= ed'[x].etag
      BY <2>4, <2>6 DEF EditTimes
  <2>11. \A m \in Nodes : row'[m] # Gone =>
           row'[m].at <= now' /\ \A i \in 1..Len(edits'[m]) : edits'[m][i] <= row'[m].at
      BY <1>2 DEF EditTimes
  <2> QED BY <1>2, <2>6, <2>8, <2>9, <2>10, <2>11 DEF EditTimes
<1> QED BY <1>4, <1>5, <1>6

\* A PATCH that is accepted: its second joins the edits, and is the new updated_at.
LEMMA WriteTimes ==
    ASSUME EditTypes, EditTimes, NEW e \in Editors, NEW n \in Nodes, NEW r \in E!RowType, n = ed[e].node,
           E!UpdateNode(n, r), edits' = IF row[n] = Gone THEN edits ELSE [edits EXCEPT ![n] = Append(edits[n], now)],
           ed' = [ed EXCEPT ![e].pc = "answered"], UNCHANGED <<now, mon, streak>>
    PROVE  EditTypes' /\ EditTimes'
<1>1. PICK q \in EdType : q = [ed[e] EXCEPT !.pc = "answered"] /\ q.pc = "answered"
  <2>1. ed[e] \in EdType
      BY DEF EditTypes
  <2>2. [ed[e] EXCEPT !.pc = "answered"] \in EdType /\ [ed[e] EXCEPT !.pc = "answered"].pc = "answered"
      BY <2>1 DEF EdType
  <2> QED BY <2>2
<1>2. ed' \in [Editors -> EdType] /\ ed'[e] = q /\ \A x \in Editors \ {e} : ed'[x] = ed[x]
    BY <1>1 DEF EditTypes
<1>3. now \in Nat /\ edits[n] \in Seq(Nat) /\ \A m \in Nodes : edits[m] \in Seq(Nat)
    BY DEF EditTypes
<1>4. PICK s \in Seq(Nat) : /\ edits' = [edits EXCEPT ![n] = s]
                            /\ s = IF row[n] = Gone THEN edits[n] ELSE Append(edits[n], now)
  <2>1. CASE row[n] = Gone
      BY <1>3, <2>1 DEF EditTypes
  <2>2. CASE row[n] # Gone
    <3>1. Append(edits[n], now) \in Seq(Nat)
        BY <1>3
    <3> QED BY <2>2, <3>1
  <2> QED BY <2>1, <2>2
<1>5. /\ Len(s) \in Nat /\ Len(edits[n]) <= Len(s) /\ \A i \in 1..Len(edits[n]) : s[i] = edits[n][i]
      /\ \A i \in 1..Len(s) : i > Len(edits[n]) => s[i] = now /\ row[n] # Gone
    BY <1>3, <1>4
<1>6. edits' \in [Nodes -> Seq(Nat)] /\ edits'[n] = s /\ \A m \in Nodes \ {n} : edits'[m] = edits[m]
    BY <1>4 DEF EditTypes
<1>7. EditTypes'
    BY <1>1, <1>2, <1>6, UpdateFrame DEF EditTypes
<1>8. \A m \in Nodes : /\ Len(edits[m]) \in Nat /\ Len(edits'[m]) \in Nat /\ Len(edits[m]) <= Len(edits'[m])
                       /\ \A i \in 1..Len(edits[m]) : edits'[m][i] = edits[m][i]
                       /\ \A i \in 1..Len(edits'[m]) : edits'[m][i] \in Nat /\ (i > Len(edits[m]) => edits'[m][i] = now)
    BY <1>3, <1>4, <1>5, <1>6
<1>9. ASSUME NEW m \in Nodes, row'[m] # Gone
      PROVE  row'[m].at <= now /\ \A i \in 1..Len(edits'[m]) : edits'[m][i] <= row'[m].at
  <2>1. CASE m # n
    <3>1. row'[m] = row[m] /\ edits'[m] = edits[m]
        BY <1>6, <2>1, UpdateFrame
    <3> QED BY <1>9, <3>1 DEF EditTimes
  <2>2. CASE m = n
    <3>1. row[n] # Gone /\ row'[n].at = now
        BY <1>9, <2>2, UpdateFrame
    <3>2. \A i \in 1..Len(s) : s[i] <= now
      <4>1. row[n].at \in Nat /\ row[n].at <= now
          BY <3>1 DEF EditTypes, EditTimes, E!RowType
      <4>2. \A i \in 1..Len(edits[n]) : edits[n][i] \in Nat /\ edits[n][i] <= row[n].at
          BY <1>3, <3>1 DEF EditTimes
      <4>3. \A i \in 1..Len(s) : i \in 1..Len(edits[n]) \/ i > Len(edits[n])
          BY <1>3
      <4>4. \A i \in 1..Len(edits[n]) : s[i] <= now
          BY <1>3, <1>5, <4>1, <4>2
      <4>5. \A i \in 1..Len(s) : i > Len(edits[n]) => s[i] <= now
          BY <1>3, <1>5
      <4> QED BY <4>3, <4>4, <4>5
    <3>3. row'[m].at = now /\ edits'[m] = s /\ now <= now
        BY <1>3, <1>6, <2>2, <3>1
    <3> QED BY <3>2, <3>3
  <2> QED BY <2>1, <2>2
<1>10. ASSUME NEW x \in Editors, ed'[x].pc = "edit"
       PROVE  /\ ed'[x].etag <= now
              /\ \A i \in (ed'[x].seen + 1)..Len(edits'[ed'[x].node]) : edits'[ed'[x].node][i] >= ed'[x].etag
  <2>1. x # e /\ ed'[x] = ed[x]
      BY <1>1, <1>2, <1>10
  <2>2. PICK m \in Nodes : m = ed[x].node
      BY <1>10, <2>1 DEF EditTypes
  <2>3. PICK a \in Nat, t \in Nat : a = ed[x].seen /\ t = ed[x].etag
      BY DEF EditTypes, EdType
  <2>4. t <= now /\ \A i \in (a + 1)..Len(edits[m]) : edits[m][i] >= t
      BY <1>10, <2>1, <2>2, <2>3 DEF EditTimes
  <2>5. ASSUME NEW i \in (a + 1)..Len(edits'[m])
        PROVE  edits'[m][i] >= t
    <3>1. i \in 1..Len(edits'[m]) /\ (i \in (a + 1)..Len(edits[m]) \/ i > Len(edits[m]))
        BY <1>8, <2>5
    <3>2. CASE i \in (a + 1)..Len(edits[m])
      <4>1. i \in 1..Len(edits[m])
          BY <1>8, <3>2
      <4> QED BY <1>8, <2>4, <3>2, <4>1
    <3>3. CASE i > Len(edits[m])
        BY <1>3, <1>8, <2>4, <3>1, <3>3
    <3> QED BY <3>1, <3>2, <3>3
  <2> QED BY <2>1, <2>2, <2>3, <2>4, <2>5
<1>11. ASSUME NEW x \in Editors, ed'[x].pc = "write"
       PROVE  /\ ed'[x].base <= Len(edits'[ed'[x].node])
              /\ \A i \in (ed'[x].seen + 1)..ed'[x].base : edits'[ed'[x].node][i] = ed'[x].etag
  <2>1. x # e /\ ed'[x] = ed[x]
      BY <1>1, <1>2, <1>11
  <2>2. PICK m \in Nodes : m = ed[x].node
      BY <1>11, <2>1 DEF EditTypes
  <2>3. PICK a \in Nat, b \in Nat : a = ed[x].seen /\ b = ed[x].base
      BY DEF EditTypes, EdType
  <2>4. b <= Len(edits[m]) /\ \A i \in (a + 1)..b : edits[m][i] = ed[x].etag
      BY <1>11, <2>1, <2>2, <2>3 DEF EditTimes, E!EditsSeen
  <2>5. \A i \in (a + 1)..b : i \in 1..Len(edits[m])
      BY <1>8, <2>4
  <2>6. b <= Len(edits'[m])
      BY <1>8, <2>4
  <2> QED BY <1>8, <2>1, <2>2, <2>3, <2>4, <2>5, <2>6
<1>12. E!EditsSeen'
    BY <1>11 DEF E!EditsSeen
<1> QED BY <1>7, <1>9, <1>10, <1>11, <1>12 DEF EditTimes

\* The steps of the clients.
LEMMA ClientStep ==
    ASSUME EditInv, NEW e \in Editors,
           \/ E!PatchRead(e) \/ E!PatchWrite(e) \/ E!Respond(e)
           \/ \E n \in Nodes : E!GetNode(e, n) \/ E!FormPatch(e, n)
    PROVE  EditInv'
<1>1. EditTypes /\ EditTimes /\ Counts /\ ed[e] \in EdType /\ now \in Nat
    BY DEF EditInv, EditTypes
<1>2. \A n \in Nodes : row[n] # Gone => row[n].at \in Nat /\ row[n].fails \in Nat /\ row[n].at <= now
    BY <1>1 DEF EditTypes, EditTimes, E!RowType
<1>3. ASSUME UNCHANGED <<row, missed, streak, mon>>
      PROVE  Counts'
  <2>1. row' \in [Nodes -> E!RowType \cup {Gone}]
      BY <1>1, <1>3 DEF EditTypes
  <2>2. \A n \in Nodes \ missed' : row'[n] # Gone => row[n] # Gone /\ row'[n].fails <= row[n].fails
      BY <1>2, <1>3
  <2> QED BY <1>1, <1>3, <2>1, <2>2, CountsKept
<1>4. ASSUME NEW q \in EdType, ed' = [ed EXCEPT ![e] = q], q.pc \in {"idle", "answered"},
             UNCHANGED <<row, now, mon, edits, streak, missed>>
      PROVE  EditInv'
  <2>1. EditTypes' /\ \A x \in Editors : ed'[x] = ed[x] \/ ed'[x].pc \in {"idle", "answered"}
      BY <1>1, <1>4 DEF EditTypes
  <2>2. EditTimes'
      BY <1>1, <1>2, <1>4, <2>1, TimesKept
  <2> QED BY <1>3, <1>4, <2>1, <2>2 DEF EditInv
<1>5. CASE E!PatchRead(e) \/ \E n \in Nodes : E!GetNode(e, n)
  <2>1. UNCHANGED <<row, missed, streak, mon>>
      BY <1>5 DEF E!PatchRead, E!GetNode
  <2> QED BY <1>1, <1>3, <1>5, <2>1, ReadTimes DEF EditInv
<1>6. CASE E!Respond(e)
  <2>1. E!Idle \in EdType /\ E!Idle.pc = "idle"
      BY DEF E!Idle, EdType
  <2> QED BY <1>4, <1>6, <2>1 DEF E!Respond
<1>7. ASSUME NEW n \in Nodes, E!FormPatch(e, n)
      PROVE  EditInv'
  <2>1. PICK q : q = [E!Idle EXCEPT !.pc = "answered", !.node = n]
      OBVIOUS
  <2>2. q \in EdType /\ q.pc = "answered"
      BY <2>1 DEF E!Idle, EdType
  <2> QED BY <1>4, <1>7, <2>1, <2>2 DEF E!FormPatch
<1>8. CASE E!PatchWrite(e)
  <2>1. PICK n \in Nodes : n = ed[e].node
      BY <1>1, <1>8 DEF E!PatchWrite, EditTypes
  <2>2. UNCHANGED <<now, mon, streak>> /\ ed' = [ed EXCEPT ![e].pc = "answered"]
      BY <1>8 DEF E!PatchWrite
  <2>3. CASE UNCHANGED <<row, missed, edits>>
    <3>1. PICK q : q = [ed[e] EXCEPT !.pc = "answered"]
        OBVIOUS
    <3>2. q \in EdType /\ q.pc = "answered"
        BY <1>1, <3>1 DEF EdType
    <3>3. ed' = [ed EXCEPT ![e] = q]
        BY <2>2, <3>1
    <3> QED BY <1>4, <2>2, <2>3, <3>2, <3>3
  <2>4. ASSUME NEW r \in E!applyNodePatch(ed[e].copy), E!UpdateNode(n, r),
               edits' = IF row[n] = Gone THEN edits ELSE [edits EXCEPT ![n] = Append(edits[n], now)]
        PROVE  EditInv'
    <3>1. r \in E!RowType
      <4>1. ed[e].copy \in E!RowType
          BY <1>1, <1>8 DEF E!PatchWrite, EditTypes
      <4> QED BY <2>4, <4>1 DEF E!applyNodePatch, E!RowType
    <3>2. EditTypes' /\ EditTimes'
        BY <1>1, <2>1, <2>2, <2>4, <3>1, WriteTimes
    <3>3. row' \in [Nodes -> E!RowType \cup {Gone}] /\ missed \subseteq missed'
        BY <1>1, <2>4, <3>1, UpdateFrame
    <3>4. ASSUME NEW m \in Nodes \ missed', row'[m] # Gone
          PROVE  row[m] # Gone /\ row'[m].fails <= row[m].fails
      <4>1. CASE m = n
          BY <1>1, <2>4, <3>1, <3>4, <4>1, UpdateFrame
      <4>2. CASE m # n
        <5>1. row'[m] = row[m]
            BY <1>1, <2>4, <3>1, <3>4, <4>2, UpdateFrame
        <5> QED BY <1>2, <3>4, <5>1
      <4> QED BY <4>1, <4>2
    <3>5. Counts'
        BY <1>1, <2>2, <3>3, <3>4, CountsKept
    <3> QED BY <3>2, <3>5 DEF EditInv
  <2> QED BY <1>8, <2>1, <2>3, <2>4 DEF E!PatchWrite
<1> QED BY <1>5, <1>6, <1>7, <1>8

\* The monitor writes the table: the clients' times stay in order.
LEMMA MonitorTimes ==
    ASSUME EditTypes, EditTimes, UNCHANGED <<now, ed, edits>>, mon' \in MonType, streak' \in [Nodes -> Nat],
           missed' \subseteq Nodes, row' \in [Nodes -> E!RowType \cup {Gone}],
           mon'.pc \in {"fetch", "disable"} => mon'.node \in Nodes, mon'.pc = "disable" => mon'.copy \in E!RowType,
           \A n \in Nodes : row'[n] = row[n] \/ (row[n] # Gone /\ row'[n].at = now) \/ row'[n] = Gone
    PROVE  EditTypes' /\ EditTimes'
<1>1. now \in Nat /\ \A n \in Nodes : row[n] # Gone => row[n].at \in Nat /\ row[n].at <= now
    BY DEF EditTypes, EditTimes, E!RowType
<1>2. EditTypes'
    BY DEF EditTypes
<1>3. \A n \in Nodes : row'[n] # Gone => row[n] # Gone /\ row[n].at <= row'[n].at /\ row'[n].at <= now'
    BY <1>1
<1> QED BY <1>1, <1>2, <1>3, TimesKept

\* A ping: the count that is written is at most the streak it leaves, unless a good one was missed.
LEMMA CheckStep ==
    ASSUME EditInv, NEW t \in mon.todo, NEW good \in BOOLEAN, NEW stored \in BOOLEAN, E!CheckNode(t, good, stored)
    PROVE  EditInv'
<1>1. EditTypes /\ EditTimes /\ Counts /\ mon \in MonType /\ mon.pc = "check" /\ Consecutive \in Nat
    BY EditAssumption DEF EditInv, EditTypes, E!CheckNode
<1>2. PICK n \in Nodes : n = t.node /\ t \in [node : Nodes, fails : Nat]
    BY <1>1 DEF MonType
<1>3. t.fails \in Nat /\ streak[n] \in Nat /\ (n \notin missed => t.fails <= streak[n])
    BY <1>1, <1>2 DEF EditTypes, Counts
<1>4. PICK c \in Nat : c = IF good THEN 0 ELSE t.fails + 1
    BY <1>3
<1>5. PICK k \in Nat : k = IF good THEN 0 ELSE streak[n] + 1
    BY <1>3
<1>6. streak' = [streak EXCEPT ![n] = k]
    BY <1>2, <1>5 DEF E!CheckNode
<1>7. streak' \in [Nodes -> Nat] /\ streak'[n] = k /\ \A m \in Nodes \ {n} : streak'[m] = streak[m]
    BY <1>1, <1>6 DEF EditTypes
<1>8. n \notin missed => c <= k
    BY <1>3, <1>4, <1>5
<1>9. missed' = (IF good /\ ~stored THEN missed \cup {n} ELSE missed) /\ UNCHANGED <<now, ed, edits>>
    BY <1>2 DEF E!CheckNode
<1>10. missed' \subseteq Nodes /\ missed \subseteq missed'
    BY <1>1, <1>9 DEF EditTypes
<1>11. PICK s : s = IF stored /\ c >= Consecutive THEN "fetch" ELSE "check"
    OBVIOUS
<1>12. mon' = [mon EXCEPT !.todo = mon.todo \ {t}, !.node = n, !.pc = s]
    BY <1>2, <1>4, <1>11 DEF E!CheckNode, E!FailCount
<1>13. /\ mon' \in MonType /\ mon'.pc = s /\ mon'.todo = mon.todo \ {t} /\ mon'.node = n
       /\ s \in {"fetch", "check"}
    BY <1>1, <1>2, <1>11, <1>12 DEF MonType
<1>14. /\ row' \in [Nodes -> E!RowType \cup {Gone}] /\ \A m \in Nodes \ {n} : row'[m] = row[m]
       /\ row'[n] = row[n] \/ (row[n] # Gone /\ row'[n].at = now) \/ row'[n] = Gone
       /\ stored /\ row'[n] # Gone => row'[n].fails = c
       /\ ~stored => row'[n] = row[n]
  <2>1. CASE stored
    <3>1. E!UpdateNodeLatency(n, c)
        BY <1>2, <1>4, <2>1 DEF E!CheckNode, E!FailCount
    <3> QED BY <1>1, <2>1, <3>1, LatencyFrame
  <2>2. CASE ~stored
      BY <1>1, <2>2 DEF E!CheckNode, EditTypes
  <2> QED BY <2>1, <2>2
<1>15. EditTypes' /\ EditTimes'
    BY <1>1, <1>7, <1>9, <1>10, <1>13, <1>14, MonitorTimes
<1>16. ASSUME NEW m \in Nodes \ missed', row'[m] # Gone
       PROVE  row'[m].fails <= streak'[m]
  <2>1. CASE m # n
    <3>1. row'[m] = row[m] /\ streak'[m] = streak[m] /\ m \notin missed
        BY <1>7, <1>10, <1>14, <1>16, <2>1
    <3> QED BY <1>1, <1>16, <3>1 DEF Counts
  <2>2. CASE m = n /\ stored
      BY <1>7, <1>8, <1>10, <1>14, <1>16, <2>2
  <2>3. CASE m = n /\ ~stored
    <3>1. ~good /\ n \notin missed /\ row'[n] = row[n] /\ row[n] # Gone
        BY <1>9, <1>14, <1>16, <2>3
    <3>2. row[n].fails \in Nat /\ row[n].fails <= streak[n]
        BY <1>1, <3>1 DEF Counts, EditTypes, E!RowType
    <3> QED BY <1>3, <1>5, <1>7, <2>3, <3>1, <3>2
  <2> QED BY <2>1, <2>2, <2>3
<1>17. \A u \in mon'.todo : u \in mon.todo /\ u.node # n /\ u.node \in Nodes
    BY <1>1, <1>2, <1>13 DEF Counts, MonType
<1>18. \A u \in mon'.todo : u.node \notin missed' => u.fails <= streak'[u.node]
    BY <1>1, <1>7, <1>10, <1>17 DEF Counts
<1>19. \A u, v \in mon'.todo : u.node = v.node => u = v
    BY <1>1, <1>17 DEF Counts
<1>20. mon'.pc \in {"fetch", "disable"} /\ mon'.node \notin missed' => streak'[mon'.node] >= Consecutive
  <2>1. mon'.pc \in {"fetch", "disable"} => c >= Consecutive
      BY <1>11, <1>13
  <2>2. mon'.node \notin missed' => c <= k
      BY <1>8, <1>10, <1>13
  <2> QED BY <1>1, <1>4, <1>5, <1>7, <1>13, <2>1, <2>2
<1> QED BY <1>15, <1>16, <1>18, <1>19, <1>20 DEF EditInv, Counts

\* The other steps of the monitor, a deletion and the clock.
LEMMA MonitorStep ==
    ASSUME EditInv,
           \/ E!ListNodes \/ E!FetchNode \/ E!AutoDisable \/ E!EndRound \/ E!Tick
           \/ \E t \in mon.todo : E!SkipNode(t)
           \/ \E n \in Nodes : E!DeleteNode(n)
    PROVE  EditInv'
<1>1. EditTypes /\ EditTimes /\ Counts /\ mon \in MonType /\ now \in Nat /\ UNCHANGED streak
    BY DEF EditInv, EditTypes, E!ListNodes, E!FetchNode, E!AutoDisable, E!EndRound, E!Tick, E!SkipNode, E!DeleteNode
<1>2. \A n \in Nodes : row[n] # Gone => row[n] \in E!RowType /\ row[n].fails \in Nat /\ row[n].at \in Nat
    BY <1>1 DEF EditTypes, E!RowType
<1>3. ASSUME UNCHANGED <<row, now, ed, edits, missed>>, mon' \in MonType,
             mon'.pc \in {"fetch", "disable"} => mon'.node \in Nodes, mon'.pc = "disable" => mon'.copy \in E!RowType,
             \A t \in mon'.todo : t.node \notin missed => t.fails <= streak[t.node],
             \A t, u \in mon'.todo : t.node = u.node => t = u,
             mon'.pc \in {"fetch", "disable"} => mon.pc \in {"fetch", "disable"} /\ mon'.node = mon.node
      PROVE  EditInv'
  <2>1. EditTypes' /\ EditTimes'
      BY <1>1, <1>3, MonitorTimes DEF EditTypes
  <2>2. Counts'
      BY <1>1, <1>3 DEF Counts
  <2> QED BY <2>1, <2>2 DEF EditInv
<1>4. CASE E!ListNodes
  <2>1. PICK S : S = {[node |-> n, fails |-> row[n].fails] : n \in {m \in Nodes : row[m] # Gone /\ row[m].enabled}}
      OBVIOUS
  <2>2. \A t \in S : \E n \in Nodes : row[n] # Gone /\ t = [node |-> n, fails |-> row[n].fails]
      BY <2>1
  <2>3. \A t \in S : /\ t \in [node : Nodes, fails : Nat] /\ row[t.node] # Gone /\ t.fails = row[t.node].fails
                     /\ t = [node |-> t.node, fails |-> t.fails]
      BY <1>2, <2>2
  <2>4. mon' \in MonType /\ mon'.pc = "check" /\ mon'.todo = S
    <3>1. mon' = [pc |-> "check", todo |-> S, node |-> Gone, copy |-> Gone]
        BY <1>4, <2>1 DEF E!ListNodes, E!Resting
    <3> QED BY <2>3, <3>1 DEF MonType
  <2>5. \A t \in S : t.node \notin missed => t.fails <= streak[t.node]
      BY <1>1, <2>3 DEF Counts
  <2>6. \A t, u \in S : t.node = u.node => t = u
      BY <2>3
  <2> QED BY <1>3, <1>4, <2>4, <2>5, <2>6 DEF E!ListNodes
<1>5. ASSUME NEW t \in mon.todo, E!SkipNode(t)
      PROVE  EditInv'
  <2>1. mon' \in MonType /\ mon'.pc = "check" /\ mon'.todo \subseteq mon.todo
      BY <1>1, <1>5 DEF E!SkipNode, MonType
  <2> QED BY <1>1, <1>3, <1>5, <2>1 DEF E!SkipNode, Counts
<1>6. CASE E!FetchNode
  <2>1. PICK n \in Nodes : n = mon.node
      BY <1>1, <1>6 DEF E!FetchNode, EditTypes
  <2>2. CASE row[n] # Gone /\ mon' = [mon EXCEPT !.pc = "disable", !.copy = [row[n] EXCEPT !.enabled = FALSE]]
    <3>1. PICK w : w = [row[n] EXCEPT !.enabled = FALSE]
        OBVIOUS
    <3>2. w \in E!RowType
        BY <1>2, <2>2, <3>1 DEF E!RowType
    <3>3. mon' = [mon EXCEPT !.pc = "disable", !.copy = w]
        BY <2>2, <3>1
    <3>4. mon' \in MonType /\ mon'.pc = "disable" /\ mon'.copy = w /\ mon'.node = n /\ mon'.todo = mon.todo
        BY <1>1, <2>1, <3>2, <3>3 DEF MonType
    <3> QED BY <1>1, <1>3, <1>6, <2>1, <3>2, <3>4 DEF E!FetchNode, Counts
  <2>3. CASE mon' = [mon EXCEPT !.pc = "check"]
    <3>1. mon' \in MonType /\ mon'.pc = "check" /\ mon'.todo = mon.todo
        BY <1>1, <2>3 DEF MonType
    <3> QED BY <1>1, <1>3, <1>6, <3>1 DEF E!FetchNode, Counts
  <2> QED BY <1>6, <2>1, <2>2, <2>3 DEF E!FetchNode
<1>7. CASE E!EndRound
  <2>1. mon' \in MonType /\ mon'.pc = "idle" /\ mon'.todo = {}
    <3>1. mon' = [pc |-> "idle", todo |-> {}, node |-> Gone, copy |-> Gone]
        BY <1>7 DEF E!EndRound, E!Resting
    <3> QED BY <3>1 DEF MonType
  <2> QED BY <1>3, <1>7, <2>1 DEF E!EndRound
<1>8. CASE E!AutoDisable
  <2>1. PICK n \in Nodes, r \in E!RowType : n = mon.node /\ r = mon.copy
      BY <1>1, <1>8 DEF E!AutoDisable, EditTypes
  <2>2. mon' \in MonType /\ mon'.pc = "check" /\ mon'.todo = mon.todo
      BY <1>1, <1>8 DEF E!AutoDisable, MonType
  <2>3. CASE UNCHANGED <<row, missed>>
      BY <1>1, <1>3, <1>8, <2>2, <2>3 DEF E!AutoDisable, Counts
  <2>4. CASE E!UpdateNode(n, r)
    <3>1. /\ row' \in [Nodes -> E!RowType \cup {Gone}] /\ missed' \subseteq Nodes /\ missed \subseteq missed'
          /\ \A m \in Nodes : row'[m] = row[m] \/ (row[m] # Gone /\ row'[m].at = now) \/ row'[m] = Gone
        BY <1>1, <2>4, UpdateFrame
    <3>2. EditTypes' /\ EditTimes'
        BY <1>1, <1>8, <2>2, <3>1, MonitorTimes DEF E!AutoDisable, EditTypes
    <3>3. ASSUME NEW m \in Nodes \ missed', row'[m] # Gone
          PROVE  row'[m].fails <= streak[m]
      <4>1. m \notin missed /\ row[m] # Gone /\ (row'[m] = row[m] \/ row'[m].fails <= row[m].fails)
        <5>1. CASE m # n
            BY <1>1, <2>4, <3>1, <3>3, <5>1, UpdateFrame
        <5>2. CASE m = n
            BY <1>1, <2>4, <3>1, <3>3, <5>2, UpdateFrame
        <5> QED BY <5>1, <5>2
      <4>2. row[m].fails <= streak[m] /\ row[m].fails \in Nat /\ streak[m] \in Nat
          BY <1>1, <1>2, <4>1 DEF Counts, EditTypes
      <4>3. row'[m].fails \in Nat
          BY <3>1, <3>3 DEF E!RowType
      <4> QED BY <4>1, <4>2, <4>3
    <3>4. Counts'
        BY <1>1, <2>2, <3>1, <3>3 DEF Counts
    <3> QED BY <3>2, <3>4 DEF EditInv
  <2> QED BY <1>8, <2>1, <2>3, <2>4 DEF E!AutoDisable
<1>9. ASSUME NEW n \in Nodes, E!DeleteNode(n)
      PROVE  EditInv'
  <2>1. row' \in [Nodes -> E!RowType \cup {Gone}] /\ \A m \in Nodes : row'[m] = row[m] \/ row'[m] = Gone
      BY <1>1, <1>9 DEF E!DeleteNode, EditTypes
  <2>2. EditTypes' /\ EditTimes'
      BY <1>1, <1>9, <2>1, MonitorTimes DEF E!DeleteNode, EditTypes
  <2>3. Counts'
      BY <1>1, <1>2, <1>9, <2>1, CountsKept DEF E!DeleteNode
  <2> QED BY <2>2, <2>3 DEF EditInv
<1>10. CASE E!Tick
  <2>1. EditTypes' /\ now <= now'
      BY <1>1, <1>10 DEF E!Tick, EditTypes
  <2>2. \A n \in Nodes : row'[n] # Gone => row[n] # Gone /\ row[n].at <= row'[n].at /\ row'[n].at <= now'
      BY <1>1, <1>2, <1>10 DEF E!Tick, EditTimes
  <2>3. EditTimes'
      BY <1>1, <1>10, <2>1, <2>2, TimesKept DEF E!Tick
  <2>4. Counts'
      BY <1>1, <1>10 DEF E!Tick, Counts
  <2> QED BY <2>1, <2>3, <2>4 DEF EditInv
<1> QED BY <1>4, <1>5, <1>6, <1>7, <1>8, <1>9, <1>10

\* EditInv is inductive.
LEMMA EditInvariant == Spec => []EditInv
<1>1. Init => EditInv
  <2> SUFFICES ASSUME Init PROVE EditInv
      OBVIOUS
  <2>1. E!Init
      BY DEF Init
  <2>2. E!Fresh \in E!RowType /\ E!Fresh.at = 0 /\ E!Fresh.fails = 0
      BY DEF E!Fresh, E!RowType
  <2>3. E!Idle \in EdType /\ E!Idle.pc = "idle"
      BY DEF E!Idle, EdType
  <2>4. mon \in MonType /\ mon.pc = "idle" /\ mon.todo = {}
      BY <2>1 DEF E!Init, E!Resting, MonType
  <2>5. edits \in [Nodes -> Seq(Nat)] /\ \A n \in Nodes : Len(edits[n]) = 0
      BY <2>1 DEF E!Init
  <2>6. EditTypes
      BY <2>1, <2>2, <2>3, <2>4, <2>5 DEF E!Init, EditTypes
  <2>7. EditTimes
      BY <2>1, <2>2, <2>3, <2>5 DEF E!Init, EditTimes, E!EditsSeen
  <2>8. Counts
      BY <2>1, <2>2, <2>4 DEF E!Init, Counts
  <2> QED BY <2>6, <2>7, <2>8 DEF EditInv
<1>2. EditInv /\ [Next]_<<part, editVars, importVars>> => EditInv'
  <2> SUFFICES ASSUME EditInv, [Next]_<<part, editVars, importVars>> PROVE EditInv'
      OBVIOUS
  <2>1. CASE E!Next
      BY <2>1, ClientStep, CheckStep, MonitorStep DEF E!Next
  <2>2. CASE UNCHANGED editVars
      BY <2>2 DEF editVars, EditInv, EditTypes, EditTimes, Counts, E!EditsSeen
  <2> QED BY <2>1, <2>2 DEF Next
<1> QED BY <1>1, <1>2, PTL DEF Spec

\* A PATCH that gets past its If-Match has seen every edit before it, but for those of the very second
\* of its ETag.
THEOREM NoEditIsLost == Spec => []EditsSeen
<1>1. EditInv => EditsSeen
    BY DEF EditInv, EditTimes, EditsSeen
<1> QED BY <1>1, EditInvariant, PTL

\* Monitor.checkAllNodes disables a node only after the configured number of consecutive bad pings,
\* unless its count has missed a good one.
THEOREM OnlyFailingDisabled == Spec => DisabledAfterStreak
<1>1. EditInv => (\A n \in Nodes : mon.pc = "disable" /\ mon.node = n => streak[n] >= Consecutive \/ n \in missed)
    BY DEF EditInv, Counts
<1>2. EditInv => [\A n \in Nodes : mon.pc = "disable" /\ mon'.pc # "disable" /\ mon.node = n =>
                      streak[n] >= Consecutive \/ n \in missed]_(E!vars)
    BY <1>1
<1> QED BY <1>2, EditInvariant, PTL DEF DisabledAfterStreak, E!DisabledAfterStreak
-----------------------------------------------------------------------------
(* Imports.                                                                 *)

Fields == {"pc", "op", "a", "take", "doc", "pos", "prev", "name", "created", "mine", "shared", "late"}
RowFields == {"src", "name", "val"}
Pcs == {"idle", "create", "fetch", "take", "list", "proxy", "insert", "rollback", "ok", "failed", "replayed", "children"}

\* An id is drawn once; names are unique; an answer that may be sent again is stored.
Table ==
    /\ DOMAIN anchor \subseteq Anchors /\ DOMAIN child = Children /\ DOMAIN req = Requests
    /\ used \subseteq Anchors \cup Children
    /\ \A c \in Children : child[c] # None => c \in used /\ child[c].src \in Anchors /\ DOMAIN child[c] = RowFields
    /\ \A c, d \in Children : child[c] # None /\ child[d] # None /\ c # d => child[c].name # child[d].name
    /\ idem \in Anchors \cup {None} /\ answered \in BOOLEAN /\ raced \in BOOLEAN /\ faults \in Nat
    /\ answered => idem # None

\* A row that a request has listed is, if it is still there, the row of the same name and anchor.
Listed(p) ==
    /\ p.id \in Children /\ p.id \in used /\ p.row.src \in Anchors /\ DOMAIN p.row = RowFields
    /\ child[p.id] # None => child[p.id].name = p.row.name /\ child[p.id].src = p.row.src

\* A request knows what it created: all of it is still to be rolled back until the rollback begins, and a
\* retry never gets as far as creating anything.
Handler(q) ==
    /\ DOMAIN q = Fields /\ q.pc \in Pcs /\ q.a \in Anchors \cup {None}
    /\ q.pc \in {"fetch", "take", "list", "proxy", "insert", "rollback", "ok", "children"} => q.a \in Anchors
    /\ q.created \subseteq q.mine /\ q.mine \subseteq used /\ q.mine \subseteq Children
    /\ q.pc \in {"idle", "create", "replayed", "fetch", "take", "list", "children"} => q.mine = {}
    /\ q.pc \in {"proxy", "insert"} => q.created = q.mine
    /\ q.pc = "children" => q.op = "delete"
    /\ q.late => q.pc = "replayed" /\ q.a = None
    /\ \A p \in q.prev : Listed(p)
    /\ faults = 0 /\ q.pc = "rollback" => \A c \in q.mine \ q.created : child[c] = None
    /\ faults = 0 /\ q.pc = "failed" => \A c \in q.mine : child[c] = None

\* Without store failures and overlapping deletions: children have their anchor at all times. A deletion is
\* alone and has all children before it, and an import has its anchor.
Family ==
    faults = 0 /\ ~raced =>
        /\ \A c \in Children : child[c] # None => child[c].src \in DOMAIN anchor
        /\ \A r \in Requests : req[r].pc = "children" =>
               /\ \A x \in Requests \ {r} : req[x].pc = "idle"
               /\ \A c \in Children : child[c] # None /\ child[c].src = req[r].a => \E p \in req[r].prev : p.id = c
        /\ \A r \in Requests :
               req[r].pc \in {"fetch", "take", "list", "proxy", "insert"} => req[r].a \in DOMAIN anchor

ImportInv == Table /\ (\A r \in Requests : Handler(req[r])) /\ Family

Importing == {"fetch", "take", "list", "proxy", "insert"}

\* Ids stay drawn, and a row keeps its name and its anchor for as long as it is there.
Steady ==
    /\ used \subseteq used' /\ (faults' = 0 => faults = 0)
    /\ \A c \in Children : c \in used =>
           \/ child'[c] = None
           \/ child[c] # None /\ child'[c].name = child[c].name /\ child'[c].src = child[c].src

\* What is known of a request that does nothing outlives the steps of the others.
LEMMA HandlerKept ==
    ASSUME NEW q, Handler(q), Table, Steady
    PROVE  Handler(q)'
<1>1. ASSUME NEW p \in q.prev
      PROVE  Listed(p)'
    BY <1>1 DEF Handler, Listed, Steady
<1>2. ASSUME faults' = 0, q.pc = "rollback", NEW c \in q.mine \ q.created
      PROVE  child'[c] = None
    BY <1>2 DEF Handler, Steady
<1>3. ASSUME faults' = 0, q.pc = "failed", NEW c \in q.mine
      PROVE  child'[c] = None
    BY <1>3 DEF Handler, Steady
<1>4. q.mine \subseteq used'
    BY DEF Handler, Steady
<1> QED BY <1>1, <1>2, <1>3, <1>4 DEF Handler

\* One request moves, the others do nothing.
LEMMA HandlersKept ==
    ASSUME ImportInv, Steady, NEW r \in Requests, NEW k, req' = [req EXCEPT ![r] = k], Handler(k)'
    PROVE  /\ req'[r] = k /\ \A x \in Requests \ {r} : req'[x] = req[x]
           /\ \A x \in Requests : Handler(req[x])'
<1>1. DOMAIN req = Requests /\ req'[r] = k /\ \A x \in Requests \ {r} : req'[x] = req[x]
    BY DEF ImportInv, Table
<1>2. \A x \in Requests \ {r} : Handler(req[x])'
  <2> TAKE x \in Requests \ {r}
  <2>1. PICK q : q = req[x]
      OBVIOUS
  <2>2. Handler(q) /\ q = req'[x]
      BY <1>1, <2>1 DEF ImportInv
  <2> QED BY <2>2, HandlerKept DEF ImportInv, Handler, Listed
<1> QED BY <1>1, <1>2 DEF Handler, Listed

\* A request in flight takes a step.
LEMMA Moved ==
    ASSUME ImportInv, Table', Steady, UNCHANGED raced, DOMAIN anchor \subseteq DOMAIN anchor',
           NEW r \in Requests, NEW k, req' = [req EXCEPT ![r] = k], Handler(k)',
           req[r].pc # "idle", k.pc # "children",
           k.pc \in Importing => (req[r].pc \in Importing /\ k.a = req[r].a) \/ k.a \in DOMAIN anchor',
           \A c \in Children : child'[c] # None =>
               \/ child[c] # None /\ child'[c].src = child[c].src
               \/ child'[c].src = req[r].a /\ req[r].pc = "insert"
    PROVE  ImportInv'
<1>1. req'[r] = k /\ \A x \in Requests \ {r} : req'[x] = req[x]
    BY HandlersKept
<1>2. \A x \in Requests : Handler(req[x])'
    BY HandlersKept
<1>3. ASSUME faults' = 0, ~raced
      PROVE  /\ \A c \in Children : child'[c] # None => child'[c].src \in DOMAIN anchor'
             /\ \A x \in Requests : req'[x].pc # "children"
             /\ \A x \in Requests : req'[x].pc \in Importing => req'[x].a \in DOMAIN anchor'
  <2>1. /\ \A c \in Children : child[c] # None => child[c].src \in DOMAIN anchor
        /\ \A x \in Requests : req[x].pc = "children" => \A y \in Requests \ {x} : req[y].pc = "idle"
        /\ \A x \in Requests : req[x].pc \in Importing => req[x].a \in DOMAIN anchor
      BY <1>3 DEF ImportInv, Family, Steady, Importing
  <2>2. \A x \in Requests : req'[x].pc # "children"
      BY <1>1, <2>1
  <2>3. \A c \in Children : child'[c] # None => child'[c].src \in DOMAIN anchor'
      BY <2>1 DEF Importing
  <2>4. \A x \in Requests : req'[x].pc \in Importing => req'[x].a \in DOMAIN anchor'
      BY <1>1, <2>1
  <2> QED BY <2>2, <2>3, <2>4
<1>4. Family'
    BY <1>3 DEF Family, Importing
<1> QED BY <1>2, <1>4 DEF ImportInv

\* The step leaves the tables alone, and a store call fails at most.
LEMMA Still ==
    ASSUME ImportInv, UNCHANGED <<used, child, idem, answered, raced>>, faults' \in {faults, faults + 1},
           DOMAIN anchor' = DOMAIN anchor, NEW r \in Requests, NEW k, req' = [req EXCEPT ![r] = k]
    PROVE  Table' /\ Steady
<1>1. faults \in Nat /\ faults' \in Nat /\ (faults' = 0 => faults = 0)
    BY DEF ImportInv, Table
<1> QED BY <1>1 DEF ImportInv, Table, Steady

\* Goto changes the program counter only.
LEMMA GotoFrame ==
    ASSUME ImportInv, NEW r \in Requests, NEW s, I!Goto(r, s)
    PROVE  \E k : /\ req' = [req EXCEPT ![r] = k] /\ DOMAIN k = Fields /\ k.pc = s
                  /\ k.op = req[r].op /\ k.a = req[r].a /\ k.late = req[r].late /\ k.prev = req[r].prev
                  /\ k.created = req[r].created /\ k.mine = req[r].mine
<1>1. PICK k : k = [req[r] EXCEPT !.pc = s]
    OBVIOUS
<1>2. DOMAIN req[r] = Fields /\ DOMAIN req = Requests
    BY DEF ImportInv, Handler, Table
<1>3. /\ DOMAIN k = Fields /\ k.pc = s
      /\ k.op = req[r].op /\ k.a = req[r].a /\ k.late = req[r].late /\ k.prev = req[r].prev
      /\ k.created = req[r].created /\ k.mine = req[r].mine
    BY <1>1, <1>2 DEF Fields
<1>4. req' = [req EXCEPT ![r] = k]
    BY <1>1 DEF I!Goto
<1> QED BY <1>3, <1>4

\* A request gives up, or goes on without having touched the tables.
LEMMA GotoStep ==
    ASSUME ImportInv, UNCHANGED <<used, child, idem, answered, raced>>, faults' \in {faults, faults + 1},
           DOMAIN anchor' = DOMAIN anchor, NEW r \in Requests, NEW s, I!Goto(r, s),
           \/ s = "failed" /\ req[r].pc \in {"create", "fetch", "take", "list", "children"}
           \/ s = "failed" /\ req[r].pc = "rollback" /\ req[r].created = {}
           \/ s = "rollback" /\ req[r].pc \in {"proxy", "insert"}
           \/ s = "list" /\ req[r].pc = "take"
           \/ s = "ok" /\ req[r].pc = "proxy"
    PROVE  ImportInv'
<1>1. PICK k : /\ req' = [req EXCEPT ![r] = k] /\ DOMAIN k = Fields /\ k.pc = s
               /\ k.op = req[r].op /\ k.a = req[r].a /\ k.late = req[r].late /\ k.prev = req[r].prev
               /\ k.created = req[r].created /\ k.mine = req[r].mine
    BY GotoFrame
<1>2. Table' /\ Steady
    BY <1>1, Still
<1>3. PICK q : q = req[r]
    OBVIOUS
<1>4. Handler(q) /\ Handler(q)'
    BY <1>2, <1>3, HandlerKept DEF ImportInv
<1>5. Handler(k)'
  <2>1. /\ DOMAIN k = Fields /\ k.pc \in Pcs /\ k.a \in Anchors \cup {None}
        /\ k.pc \in {"fetch", "take", "list", "proxy", "insert", "rollback", "ok", "children"} => k.a \in Anchors
        /\ k.created \subseteq k.mine /\ k.mine \subseteq used' /\ k.mine \subseteq Children
        /\ k.pc \in {"idle", "create", "replayed", "fetch", "take", "list", "children"} => k.mine = {}
        /\ k.pc \in {"proxy", "insert"} => k.created = k.mine
        /\ k.pc = "children" => k.op = "delete"
        /\ k.late => k.pc = "replayed" /\ k.a = None
      BY <1>1, <1>3, <1>4 DEF Handler, Pcs
  <2>2. \A p \in k.prev : Listed(p)'
      BY <1>1, <1>3, <1>4 DEF Handler
  <2>3. /\ faults' = 0 /\ k.pc = "rollback" => \A c \in k.mine \ k.created : child'[c] = None
        /\ faults' = 0 /\ k.pc = "failed" => \A c \in k.mine : child'[c] = None
      BY <1>1, <1>2, <1>3, <1>4 DEF Handler, Steady
  <2> QED BY <2>1, <2>2, <2>3 DEF Handler
<1>6. /\ req[r].pc # "idle" /\ k.pc # "children"
      /\ k.pc \in Importing => req[r].pc \in Importing /\ k.a = req[r].a
    BY <1>1 DEF Importing
<1>7. \A c \in Children : child'[c] # None => child[c] # None /\ child'[c].src = child[c].src
    OBVIOUS
<1> QED BY <1>1, <1>2, <1>5, <1>6, <1>7, Moved

\* No request, nothing to know.
LEMMA IdleHandler == Handler(I!Idle) /\ Handler(I!Idle)' /\ I!Idle.pc = "idle"
    BY DEF Handler, I!Idle, Fields, Pcs

\* An answer is out: 201 is stored first.
LEMMA AnswerStep ==
    ASSUME ImportInv, NEW r \in Requests, I!PostAnswer(r) \/ I!Respond(r)
    PROVE  ImportInv'
<1>1. /\ UNCHANGED <<anchor, used, child, raced, faults>> /\ req' = [req EXCEPT ![r] = I!Idle]
      /\ req[r].pc # "idle"
    BY DEF I!PostAnswer, I!Respond
<1>2. idem' \in Anchors \cup {None} /\ answered' \in BOOLEAN /\ (answered' => idem' # None)
  <2>1. CASE I!PostAnswer(r)
    <3>1. req[r].a \in Anchors
        BY <2>1 DEF I!PostAnswer, ImportInv, Handler
    <3> QED BY <2>1, <3>1, ImportAssumption DEF I!PostAnswer, I!PutAnswer
  <2>2. CASE I!Respond(r)
      BY <2>2 DEF I!Respond, ImportInv, Table
  <2> QED BY <2>1, <2>2
<1>3. Table' /\ Steady
    BY <1>1, <1>2 DEF ImportInv, Table, Steady
<1>4. \A c \in Children : child'[c] # None => child[c] # None /\ child'[c].src = child[c].src
    BY <1>1
<1> QED BY <1>1, <1>3, <1>4, IdleHandler, Moved DEF Importing

\* CreateNode of the anchor.
LEMMA PostCreateStep ==
    ASSUME ImportInv, NEW r \in Requests, I!PostCreate(r)
    PROVE  ImportInv'
<1>1. req[r].pc = "create" /\ UNCHANGED <<child, idem, answered, raced>>
    BY DEF I!PostCreate
<1>2. PICK q : q = req[r]
    OBVIOUS
<1>3. Handler(q) /\ DOMAIN q = Fields /\ DOMAIN req = Requests
    BY <1>2 DEF ImportInv, Handler, Table
<1>4. CASE I!Goto(r, "failed") /\ UNCHANGED <<anchor, used>> /\ faults' \in {faults, faults + 1}
    BY <1>1, <1>4, GotoStep
<1>5. ASSUME NEW a, a = I!newUUID(Anchors), used' = used \cup {a}, UNCHANGED faults,
             anchor' = [x \in DOMAIN anchor \cup {a} |-> IF x = a THEN "" ELSE anchor[x]],
             req' = [req EXCEPT ![r].pc = "fetch", ![r].a = a]
      PROVE  ImportInv'
  <2>1. a \in Anchors
    <3>1. \E x \in Anchors : x \notin used
        BY DEF I!PostCreate
    <3> QED BY <1>5, <3>1 DEF I!newUUID
  <2>2. DOMAIN anchor' = DOMAIN anchor \cup {a}
      BY <1>5
  <2>3. PICK k : k = [q EXCEPT !.pc = "fetch", !.a = a]
      OBVIOUS
  <2>4. /\ DOMAIN k = Fields /\ k.pc = "fetch" /\ k.a = a /\ k.op = q.op /\ k.late = q.late /\ k.prev = q.prev
        /\ k.created = q.created /\ k.mine = q.mine
      BY <1>3, <2>3 DEF Fields
  <2>5. req' = [req EXCEPT ![r] = k]
      BY <1>2, <1>5, <2>3
  <2>6. Table' /\ Steady
      BY <1>1, <1>5, <2>1, <2>2, <2>5 DEF ImportInv, Table, Steady
  <2>7. Handler(q)'
      BY <1>3, <2>6, HandlerKept DEF ImportInv
  <2>8. Handler(k)'
      BY <1>1, <1>2, <1>3, <2>1, <2>4, <2>7 DEF Handler, Pcs
  <2>9. \A c \in Children : child'[c] # None => child[c] # None /\ child'[c].src = child[c].src
      BY <1>1
  <2> QED BY <1>1, <2>2, <2>4, <2>5, <2>6, <2>8, <2>9, Moved
<1>6. faults + 1 \in {faults, faults + 1} /\ faults \in {faults, faults + 1}
    OBVIOUS
<1> QED BY <1>4, <1>5, <1>6 DEF I!PostCreate, I!Fault

\* The document is fetched; the anchor takes the first proxy; the children are listed; a name is chosen.
LEMMA ReadStep ==
    ASSUME ImportInv, NEW r \in Requests,
           \/ \E raw \in RawDocs : I!Fetch(r, raw)
           \/ I!TakeFirst(r) \/ I!ListPrevious(r) \/ I!ChooseName(r)
    PROVE  ImportInv'
<1>1. UNCHANGED <<used, child, idem, answered, raced>> /\ req[r].pc \in Importing
    BY DEF I!Fetch, I!TakeFirst, I!ListPrevious, I!ChooseName, Importing
<1>2. PICK q : q = req[r]
    OBVIOUS
<1>3. Handler(q) /\ DOMAIN q = Fields /\ DOMAIN req = Requests
    BY <1>2 DEF ImportInv, Handler, Table
<1>4. \A c \in Children : child'[c] # None => child[c] # None /\ child'[c].src = child[c].src
    BY <1>1
<1>5. ASSUME NEW k, req' = [req EXCEPT ![r] = k], UNCHANGED <<anchor, faults>>, Handler(k)',
             k.pc # "children", k.a = q.a
      PROVE  ImportInv'
    BY <1>1, <1>2, <1>4, <1>5, Still, Moved DEF Importing
<1>6. ASSUME NEW k, req' = [req EXCEPT ![r] = k], UNCHANGED <<anchor, faults>>
      PROVE  Handler(q)'
    BY <1>1, <1>3, <1>6, Still, HandlerKept DEF ImportInv
<1>7. faults + 1 \in {faults, faults + 1} /\ faults \in {faults, faults + 1}
    OBVIOUS
<1>8. ASSUME NEW raw \in RawDocs, I!Fetch(r, raw)
      PROVE  ImportInv'
  <2>1. CASE I!Goto(r, "failed")
      BY <1>1, <1>7, <1>8, <2>1, GotoStep DEF I!Fetch
  <2>2. ASSUME NEW d, NEW t, t \in {"ok", "take", "list"}, req' = [req EXCEPT ![r].doc = d, ![r].pc = t]
        PROVE  ImportInv'
    <3>1. PICK k : k = [q EXCEPT !.doc = d, !.pc = t]
        OBVIOUS
    <3>2. /\ DOMAIN k = Fields /\ k.pc = t /\ k.op = q.op /\ k.a = q.a /\ k.late = q.late /\ k.prev = q.prev
          /\ k.created = q.created /\ k.mine = q.mine
        BY <1>3, <3>1 DEF Fields
    <3>3. req' = [req EXCEPT ![r] = k] /\ UNCHANGED <<anchor, faults>>
        BY <1>2, <1>8, <2>2, <3>1 DEF I!Fetch
    <3>4. Handler(q)' /\ q.pc = "fetch"
        BY <1>2, <1>6, <1>8, <3>3 DEF I!Fetch
    <3>5. Handler(k)'
        BY <2>2, <3>2, <3>4 DEF Handler, Pcs
    <3> QED BY <1>5, <2>2, <3>2, <3>3, <3>5
  <2> QED BY <1>8, <2>1, <2>2 DEF I!Fetch
<1>9. CASE I!TakeFirst(r)
  <2>1. DOMAIN anchor' = DOMAIN anchor /\ faults' \in {faults, faults + 1} /\ req[r].pc = "take"
      BY <1>9 DEF I!TakeFirst, I!Fault
  <2>2. I!Goto(r, "list") \/ I!Goto(r, "failed")
      BY <1>9 DEF I!TakeFirst
  <2> QED BY <1>1, <2>1, <2>2, GotoStep
<1>10. CASE I!ListPrevious(r)
  <2>1. CASE I!Fault /\ I!Goto(r, "failed")
      BY <1>1, <1>7, <1>10, <2>1, GotoStep DEF I!ListPrevious, I!Fault
  <2>2. ASSUME NEW P, NEW n, P = {[id |-> c, row |-> child[c]] : c \in I!ChildrenOf(req[r].a)},
               req' = [req EXCEPT ![r].prev = P, ![r].pos = n, ![r].pc = "proxy"], UNCHANGED faults
        PROVE  ImportInv'
    <3>1. PICK k : k = [q EXCEPT !.prev = P, !.pos = n, !.pc = "proxy"]
        OBVIOUS
    <3>2. /\ DOMAIN k = Fields /\ k.pc = "proxy" /\ k.op = q.op /\ k.a = q.a /\ k.late = q.late /\ k.prev = P
          /\ k.created = q.created /\ k.mine = q.mine
        BY <1>3, <3>1 DEF Fields
    <3>3. req' = [req EXCEPT ![r] = k] /\ UNCHANGED <<anchor, faults>>
        BY <1>2, <1>10, <2>2, <3>1 DEF I!ListPrevious
    <3>4. Handler(q)' /\ q.pc = "list"
        BY <1>2, <1>6, <1>10, <3>3 DEF I!ListPrevious
    <3>5. \A p \in P : Listed(p)'
      <4> TAKE p \in P
      <4>1. PICK c \in Children : child[c] # None /\ p = [id |-> c, row |-> child[c]]
          BY <2>2 DEF I!ChildrenOf
      <4>2. p.id = c /\ p.row = child[c] /\ c \in used /\ child[c].src \in Anchors /\ DOMAIN child[c] = RowFields
          BY <4>1 DEF ImportInv, Table
      <4> QED BY <1>1, <4>1, <4>2 DEF Listed
    <3>6. Handler(k)'
        BY <3>2, <3>4, <3>5 DEF Handler, Pcs
    <3> QED BY <1>5, <3>2, <3>3, <3>6
  <2>3. PICK P, n : /\ P = {[id |-> c, row |-> child[c]] : c \in I!ChildrenOf(req[r].a)}
                    /\ n = IF req[r].take THEN 2 ELSE 1
      OBVIOUS
  <2>4. \/ req' = [req EXCEPT ![r].prev = P, ![r].pos = n, ![r].pc = "proxy"] /\ UNCHANGED faults
        \/ I!Fault /\ I!Goto(r, "failed")
      BY <1>10, <2>3 DEF I!ListPrevious
  <2> QED BY <2>1, <2>2, <2>3, <2>4
<1>11. CASE I!ChooseName(r)
  <2>1. PICK n : req' = [req EXCEPT ![r].pc = "insert", ![r].name = n]
      BY <1>11 DEF I!ChooseName
  <2>2. PICK k : k = [q EXCEPT !.pc = "insert", !.name = n]
      OBVIOUS
  <2>3. /\ DOMAIN k = Fields /\ k.pc = "insert" /\ k.op = q.op /\ k.a = q.a /\ k.late = q.late /\ k.prev = q.prev
        /\ k.created = q.created /\ k.mine = q.mine
      BY <1>3, <2>2 DEF Fields
  <2>4. req' = [req EXCEPT ![r] = k] /\ UNCHANGED <<anchor, faults>>
      BY <1>2, <1>11, <2>1, <2>2 DEF I!ChooseName
  <2>5. Handler(q)' /\ q.pc = "proxy"
      BY <1>2, <1>6, <1>11, <2>4 DEF I!ChooseName
  <2>6. Handler(k)'
      BY <2>3, <2>5 DEF Handler, Pcs
  <2> QED BY <1>5, <2>3, <2>4, <2>6
<1> QED BY <1>8, <1>9, <1>10, <1>11

\* A row is deleted.
LEMMA RowGone ==
    ASSUME ImportInv, NEW c \in Children, child' = [child EXCEPT ![c] = None], DOMAIN req' = Requests,
           UNCHANGED <<anchor, used, idem, answered, raced, faults>>
    PROVE  /\ Table' /\ Steady /\ child'[c] = None
           /\ \A d \in Children : child'[d] # None => child[d] # None /\ child'[d].src = child[d].src
<1>1. DOMAIN child' = Children /\ child'[c] = None /\ \A d \in Children \ {c} : child'[d] = child[d]
    BY DEF ImportInv, Table
<1> QED BY <1>1 DEF ImportInv, Table, Steady

\* The steps of an import on the rows of its children.
LEMMA RowStep ==
    ASSUME ImportInv, NEW r \in Requests, I!UpdateChild(r) \/ I!RemoveChild(r) \/ I!rollbackCreatedNodes(r)
    PROVE  ImportInv'
<1>1. UNCHANGED <<anchor, used, idem, answered, raced>> /\ req[r].pc \in {"proxy", "rollback"}
    BY DEF I!UpdateChild, I!RemoveChild, I!rollbackCreatedNodes
<1>2. PICK q : q = req[r]
    OBVIOUS
<1>3. Handler(q) /\ DOMAIN q = Fields /\ DOMAIN req = Requests
    BY <1>2 DEF ImportInv, Handler, Table
<1>4. faults + 1 \in {faults, faults + 1} /\ faults \in {faults, faults + 1}
    OBVIOUS
<1>5. CASE I!UpdateChild(r)
  <2>1. q.pc = "proxy" /\ \E p \in I!Known(r, q.doc[q.pos].name) :
         IF p.row.val = q.doc[q.pos].val
         THEN req' = [req EXCEPT ![r].pos = @ + 1] /\ UNCHANGED <<child, faults>>
         ELSE \/ /\ child[p.id] # None
                 /\ child' = [child EXCEPT ![p.id] = [p.row EXCEPT !.val = q.doc[q.pos].val]]
                 /\ req' = [req EXCEPT ![r].pos = @ + 1] /\ UNCHANGED faults
              \/ /\ child[p.id] = None /\ I!Goto(r, "rollback") /\ UNCHANGED <<child, faults>>
              \/ /\ I!Fault /\ I!Goto(r, "rollback") /\ UNCHANGED child
      BY <1>2, <1>5 DEF I!UpdateChild
  <2>2. CASE I!Goto(r, "rollback") /\ UNCHANGED child /\ faults' \in {faults, faults + 1}
      BY <1>1, <1>2, <2>1, <2>2, GotoStep
  <2>3. PICK k : k = [q EXCEPT !.pos = @ + 1]
      OBVIOUS
  <2>4. /\ DOMAIN k = Fields /\ k.pc = "proxy" /\ k.op = q.op /\ k.a = q.a /\ k.late = q.late /\ k.prev = q.prev
        /\ k.created = q.created /\ k.mine = q.mine
      BY <1>3, <2>1, <2>3 DEF Fields
  <2>5. ASSUME req' = [req EXCEPT ![r].pos = @ + 1], Table', Steady,
               \A c \in Children : child'[c] # None => child[c] # None /\ child'[c].src = child[c].src
        PROVE  ImportInv'
    <3>1. req' = [req EXCEPT ![r] = k]
        BY <1>2, <2>3, <2>5
    <3>2. Handler(q)'
        BY <1>3, <2>5, HandlerKept DEF ImportInv
    <3>3. Handler(k)'
        BY <2>1, <2>4, <3>2 DEF Handler, Pcs
    <3> QED BY <1>1, <1>2, <2>1, <2>4, <2>5, <3>1, <3>3, Moved DEF Importing
  <2>6. CASE req' = [req EXCEPT ![r].pos = @ + 1] /\ UNCHANGED <<child, faults>>
    <3>1. req' = [req EXCEPT ![r] = k]
        BY <1>2, <2>3, <2>6
    <3> QED BY <1>1, <1>4, <2>5, <2>6, <3>1, Still
  <2>7. ASSUME NEW p \in q.prev, NEW v, child[p.id] # None, child' = [child EXCEPT ![p.id] = [p.row EXCEPT !.val = v]],
               req' = [req EXCEPT ![r].pos = @ + 1], UNCHANGED faults
        PROVE  ImportInv'
    <3>1. Listed(p)
        BY <1>3, <2>7 DEF Handler
    <3>0. PICK w : w = [p.row EXCEPT !.val = v]
        OBVIOUS
    <3>2. PICK c \in Children : c = p.id /\ w = [p.row EXCEPT !.val = v]
        BY <3>0, <3>1 DEF Listed
    <3>3. DOMAIN w = RowFields /\ w.src = child[c].src /\ w.name = child[c].name
        BY <2>7, <3>1, <3>2 DEF Listed, RowFields
    <3>4. child' = [child EXCEPT ![c] = w] /\ child[c] # None
        BY <2>7, <3>2
    <3>5. DOMAIN child' = Children /\ child'[c] = w /\ \A d \in Children \ {c} : child'[d] = child[d]
        BY <3>4 DEF ImportInv, Table
    <3>6. \A d \in Children : child'[d] # None =>
              child[d] # None /\ child'[d].src = child[d].src /\ child'[d].name = child[d].name
                /\ DOMAIN child'[d] = RowFields
        BY <3>3, <3>4, <3>5 DEF ImportInv, Table
    <3>7. Table'
      <4>1. DOMAIN req' = Requests
          BY <1>3, <2>7
      <4> QED BY <1>1, <2>7, <3>5, <3>6, <4>1 DEF ImportInv, Table
    <3>8. Steady
      <4>1. ASSUME NEW d \in Children
            PROVE  \/ child'[d] = None
                   \/ child[d] # None /\ child'[d].name = child[d].name /\ child'[d].src = child[d].src
          BY <3>6
      <4> QED BY <1>1, <2>7, <4>1 DEF Steady
    <3> QED BY <2>5, <2>7, <3>6, <3>7, <3>8
  <2> QED BY <1>2, <1>4, <2>1, <2>2, <2>6, <2>7 DEF I!Known, I!Fault
<1>6. CASE I!RemoveChild(r)
  <2>1. q.pc = "proxy"
      BY <1>2, <1>6 DEF I!RemoveChild
  <2>2. CASE (I!Goto(r, "rollback") \/ I!Goto(r, "ok")) /\ UNCHANGED child /\ faults' \in {faults, faults + 1}
      BY <1>1, <1>2, <2>1, <2>2, GotoStep
  <2>3. ASSUME NEW p \in q.prev, child' = [child EXCEPT ![p.id] = None],
               req' = [req EXCEPT ![r].prev = @ \ {p}], UNCHANGED faults
        PROVE  ImportInv'
    <3>1. p.id \in Children
        BY <1>3, <2>3 DEF Handler, Listed
    <3>2. PICK k : k = [q EXCEPT !.prev = @ \ {p}]
        OBVIOUS
    <3>3. /\ DOMAIN k = Fields /\ k.pc = "proxy" /\ k.op = q.op /\ k.a = q.a /\ k.late = q.late
          /\ k.prev = q.prev \ {p} /\ k.created = q.created /\ k.mine = q.mine
        BY <1>3, <2>1, <3>2 DEF Fields
    <3>4. req' = [req EXCEPT ![r] = k] /\ DOMAIN req' = Requests
        BY <1>2, <1>3, <2>3, <3>2
    <3>5. /\ Table' /\ Steady
          /\ \A d \in Children : child'[d] # None => child[d] # None /\ child'[d].src = child[d].src
        BY <1>1, <2>3, <3>1, <3>4, RowGone
    <3>6. Handler(q)'
        BY <1>3, <3>5, HandlerKept DEF ImportInv
    <3>7. Handler(k)'
        BY <2>1, <3>3, <3>6 DEF Handler, Pcs
    <3> QED BY <1>1, <1>2, <2>1, <3>3, <3>4, <3>5, <3>7, Moved DEF Importing
  <2> QED BY <1>2, <1>4, <1>6, <2>2, <2>3 DEF I!RemoveChild, I!Obsolete, I!Fault
<1>7. CASE I!rollbackCreatedNodes(r)
  <2>1. q.pc = "rollback"
      BY <1>2, <1>7 DEF I!rollbackCreatedNodes
  <2>2. CASE req[r].created = {} /\ I!Goto(r, "failed") /\ UNCHANGED <<child, faults>>
      BY <1>1, <1>2, <1>4, <2>1, <2>2, GotoStep
  <2>3. ASSUME NEW c \in q.created, req' = [req EXCEPT ![r].created = @ \ {c}],
               \/ child' = [child EXCEPT ![c] = None] /\ UNCHANGED faults
               \/ I!Fault /\ UNCHANGED child
        PROVE  ImportInv'
    <3>1. c \in Children
        BY <1>3, <2>3 DEF Handler
    <3>2. PICK k : k = [q EXCEPT !.created = @ \ {c}]
        OBVIOUS
    <3>3. /\ DOMAIN k = Fields /\ k.pc = "rollback" /\ k.op = q.op /\ k.a = q.a /\ k.late = q.late
          /\ k.prev = q.prev /\ k.created = q.created \ {c} /\ k.mine = q.mine
        BY <1>3, <2>1, <3>2 DEF Fields
    <3>4. req' = [req EXCEPT ![r] = k] /\ DOMAIN req' = Requests
        BY <1>2, <1>3, <2>3, <3>2
    <3>5. /\ Table' /\ Steady /\ (faults' = 0 => child'[c] = None)
          /\ \A d \in Children : child'[d] # None => child[d] # None /\ child'[d].src = child[d].src
      <4>1. CASE child' = [child EXCEPT ![c] = None] /\ UNCHANGED faults
          BY <1>1, <3>1, <3>4, <4>1, RowGone
      <4>2. CASE I!Fault /\ UNCHANGED child
        <5>1. faults' = faults + 1 /\ faults' # 0
            BY <4>2 DEF I!Fault, ImportInv, Table
        <5>2. Table' /\ Steady
            BY <1>1, <1>4, <3>4, <4>2, <5>1, Still
        <5> QED BY <4>2, <5>1, <5>2
      <4> QED BY <2>3, <4>1, <4>2
    <3>6. Handler(q)'
        BY <1>3, <3>5, HandlerKept DEF ImportInv
    <3>7. Handler(k)'
      <4>1. faults' = 0 => \A d \in k.mine \ k.created : child'[d] = None
          BY <2>1, <3>3, <3>5, <3>6 DEF Handler
      <4> QED BY <2>1, <3>3, <3>6, <4>1 DEF Handler, Pcs
    <3> QED BY <1>1, <1>2, <2>1, <3>3, <3>4, <3>5, <3>7, Moved DEF Importing
  <2> QED BY <1>2, <1>7, <2>2, <2>3 DEF I!rollbackCreatedNodes
<1> QED BY <1>5, <1>6, <1>7

\* A child is inserted, under an id nobody has had and a name nobody has.
LEMMA CreateChildStep ==
    ASSUME ImportInv, NEW r \in Requests, I!CreateChild(r)
    PROVE  ImportInv'
<1>1. UNCHANGED <<anchor, idem, answered, raced>> /\ req[r].pc = "insert"
    BY DEF I!CreateChild
<1>2. PICK q : q = req[r]
    OBVIOUS
<1>3. Handler(q) /\ DOMAIN q = Fields /\ DOMAIN req = Requests /\ q.a \in Anchors
    BY <1>1, <1>2 DEF ImportInv, Handler, Table
<1>4. CASE I!Goto(r, "rollback") /\ UNCHANGED <<child, used>> /\ faults' \in {faults, faults + 1}
    BY <1>1, <1>4, GotoStep
<1>5. ASSUME NEW c, NEW v, c = I!newUUID(Children), q.name \notin I!NamesTaken,
             child' = [child EXCEPT ![c] = [src |-> q.a, name |-> q.name, val |-> v]],
             used' = used \cup {c}, UNCHANGED faults,
             req' = [req EXCEPT ![r].pc = "proxy", ![r].pos = @ + 1, ![r].name = <<>>,
                                ![r].created = @ \cup {c}, ![r].mine = @ \cup {c}]
      PROVE  ImportInv'
  <2>1. c \in Children /\ c \notin used /\ child[c] = None
    <3>1. \E x \in Children : x \notin used
        BY DEF I!CreateChild
    <3>2. c \in Children /\ c \notin used
        BY <1>5, <3>1 DEF I!newUUID
    <3> QED BY <3>2 DEF ImportInv, Table
  <2>2. PICK w : w = [src |-> q.a, name |-> q.name, val |-> v]
      OBVIOUS
  <2>3. DOMAIN w = RowFields /\ w.src = q.a /\ w.name = q.name
      BY <2>2 DEF RowFields
  <2>4. DOMAIN child' = Children /\ child'[c] = w /\ \A d \in Children \ {c} : child'[d] = child[d]
      BY <1>5, <2>1, <2>2 DEF ImportInv, Table
  <2>5. \A d \in Children : child[d] # None => child[d].name # q.name
      BY <1>5 DEF I!NamesTaken
  <2>6. PICK k : k = [q EXCEPT !.pc = "proxy", !.pos = @ + 1, !.name = <<>>, !.created = @ \cup {c}, !.mine = @ \cup {c}]
      OBVIOUS
  <2>7. /\ DOMAIN k = Fields /\ k.pc = "proxy" /\ k.op = q.op /\ k.a = q.a /\ k.late = q.late /\ k.prev = q.prev
        /\ k.created = q.created \cup {c} /\ k.mine = q.mine \cup {c}
      BY <1>3, <2>6 DEF Fields
  <2>8. req' = [req EXCEPT ![r] = k] /\ DOMAIN req' = Requests
      BY <1>2, <1>3, <1>5, <2>6
  <2>9. \A d, e \in Children : child'[d] # None /\ child'[e] # None /\ d # e => child'[d].name # child'[e].name
      BY <2>3, <2>4, <2>5 DEF ImportInv, Table
  <2>10. \A d \in Children : child'[d] # None =>
             d \in used' /\ child'[d].src \in Anchors /\ DOMAIN child'[d] = RowFields
      BY <1>3, <1>5, <2>3, <2>4 DEF ImportInv, Table
  <2>11. Table'
      BY <1>1, <1>5, <2>1, <2>4, <2>8, <2>9, <2>10 DEF ImportInv, Table
  <2>12. Steady
    <3>1. ASSUME NEW d \in Children, d \in used
          PROVE  \/ child'[d] = None
                 \/ child[d] # None /\ child'[d].name = child[d].name /\ child'[d].src = child[d].src
        BY <2>1, <2>4, <3>1
    <3> QED BY <1>5, <3>1 DEF Steady
  <2>13. Handler(q)'
      BY <1>3, <2>12, HandlerKept DEF ImportInv
  <2>14. Handler(k)'
      BY <1>1, <1>2, <1>5, <2>1, <2>7, <2>13 DEF Handler, Pcs
  <2>15. \A d \in Children : child'[d] # None =>
             \/ child[d] # None /\ child'[d].src = child[d].src
             \/ child'[d].src = req[r].a /\ req[r].pc = "insert"
      BY <1>1, <1>2, <2>3, <2>4
  <2> QED BY <1>1, <1>2, <2>7, <2>8, <2>11, <2>12, <2>14, <2>15, Moved DEF Importing
<1>6. faults + 1 \in {faults, faults + 1} /\ faults \in {faults, faults + 1}
    OBVIOUS
<1> QED BY <1>2, <1>4, <1>5, <1>6 DEF I!CreateChild, I!Fault

\* The steps of a deletion.
LEMMA DeleteStep ==
    ASSUME ImportInv, NEW r \in Requests, I!DeleteChild(r) \/ I!DeleteAnchor(r)
    PROVE  ImportInv'
<1>1. UNCHANGED <<used, idem, answered, raced>> /\ req[r].pc = "children"
    BY DEF I!DeleteChild, I!DeleteAnchor
<1>2. PICK q : q = req[r]
    OBVIOUS
<1>3. Handler(q) /\ DOMAIN q = Fields /\ DOMAIN req = Requests /\ q.pc = "children"
    BY <1>1, <1>2 DEF ImportInv, Handler, Table
<1>4. ASSUME faults = 0, ~raced
      PROVE  /\ \A c \in Children : child[c] # None => child[c].src \in DOMAIN anchor
             /\ \A x \in Requests \ {r} : req[x].pc = "idle"
             /\ \A c \in Children : child[c] # None /\ child[c].src = q.a => \E p \in q.prev : p.id = c
    BY <1>1, <1>2, <1>4 DEF ImportInv, Family
<1>5. ASSUME NEW p \in q.prev, req' = [req EXCEPT ![r].prev = @ \ {p}], UNCHANGED anchor,
             \/ child' = [child EXCEPT ![p.id] = None] /\ UNCHANGED faults
             \/ I!Fault /\ UNCHANGED child
      PROVE  ImportInv'
  <2>1. PICK c \in Children : c = p.id
      BY <1>3, <1>5 DEF Handler, Listed
  <2>2. PICK k : k = [q EXCEPT !.prev = @ \ {p}]
      OBVIOUS
  <2>3. /\ DOMAIN k = Fields /\ k.pc = "children" /\ k.op = q.op /\ k.a = q.a /\ k.late = q.late
        /\ k.prev = q.prev \ {p} /\ k.created = q.created /\ k.mine = q.mine
      BY <1>3, <2>2 DEF Fields
  <2>4. req' = [req EXCEPT ![r] = k] /\ DOMAIN req' = Requests
      BY <1>2, <1>3, <1>5, <2>2
  <2>5. /\ Table' /\ Steady /\ (faults' = 0 => faults = 0 /\ child'[c] = None)
        /\ \A d \in Children : child'[d] # None => child[d] # None /\ child'[d].src = child[d].src
    <3>1. CASE child' = [child EXCEPT ![c] = None] /\ UNCHANGED faults
        BY <1>1, <1>5, <2>4, <3>1, RowGone
    <3>2. CASE I!Fault /\ UNCHANGED child
      <4>1. faults' = faults + 1 /\ faults' # 0 /\ faults' \in {faults, faults + 1}
          BY <3>2 DEF I!Fault, ImportInv, Table
      <4>2. Table' /\ Steady
          BY <1>1, <1>5, <2>4, <3>2, <4>1, Still
      <4> QED BY <3>2, <4>1, <4>2
    <3> QED BY <1>5, <2>1, <3>1, <3>2
  <2>6. Handler(q)'
      BY <1>3, <2>5, HandlerKept DEF ImportInv
  <2>7. Handler(k)'
      BY <1>3, <2>3, <2>6 DEF Handler, Pcs
  <2>8. /\ req'[r] = k /\ \A x \in Requests \ {r} : req'[x] = req[x]
        /\ \A x \in Requests : Handler(req[x])'
      BY <2>4, <2>5, <2>7, HandlersKept
  <2>9. ASSUME faults' = 0, ~raced
        PROVE  /\ \A d \in Children : child'[d] # None => child'[d].src \in DOMAIN anchor
               /\ \A x \in Requests \ {r} : req'[x].pc = "idle"
               /\ \A d \in Children : child'[d] # None /\ child'[d].src = k.a => \E u \in k.prev : u.id = d
    <3>1. \A d \in Children : child'[d] # None => child'[d].src \in DOMAIN anchor
        BY <1>4, <2>5, <2>9
    <3>2. \A x \in Requests \ {r} : req'[x].pc = "idle"
        BY <1>4, <2>5, <2>8, <2>9
    <3>3. ASSUME NEW d \in Children, child'[d] # None, child'[d].src = k.a
          PROVE  \E u \in k.prev : u.id = d
      <4>1. PICK u \in q.prev : u.id = d
          BY <1>4, <2>3, <2>5, <2>9, <3>3
      <4>2. u # p
          BY <2>1, <2>5, <2>9, <3>3, <4>1
      <4> QED BY <2>3, <4>1, <4>2
    <3> QED BY <3>1, <3>2, <3>3
  <2>10. Family'
    <3>1. \A x \in Requests : req'[x].pc = "children" /\ faults' = 0 /\ ~raced => x = r
        BY <2>8, <2>9
    <3>2. \A x \in Requests : faults' = 0 /\ ~raced => req'[x].pc \notin Importing
        BY <2>3, <2>8, <2>9 DEF Importing
    <3>3. faults' = 0 /\ ~raced' =>
              /\ \A d \in Children : child'[d] # None => child'[d].src \in DOMAIN anchor'
              /\ \A x \in Requests : req'[x].pc = "children" =>
                     /\ \A y \in Requests \ {x} : req'[y].pc = "idle"
                     /\ \A d \in Children : child'[d] # None /\ child'[d].src = req'[x].a =>
                            \E u \in req'[x].prev : u.id = d
        BY <1>1, <1>5, <2>8, <2>9, <3>1
    <3> QED BY <1>1, <3>2, <3>3 DEF Family, Importing
  <2> QED BY <2>5, <2>8, <2>10 DEF ImportInv
<1>6. CASE I!DeleteAnchor(r)
  <2>1. q.prev = {} /\ UNCHANGED child
      BY <1>2, <1>6 DEF I!DeleteAnchor, I!DeleteOrder
  <2>2. CASE I!Fault /\ I!Goto(r, "failed") /\ UNCHANGED anchor
    <3>1. faults' \in {faults, faults + 1}
        BY <2>2 DEF I!Fault
    <3> QED BY <1>1, <2>1, <2>2, <3>1, GotoStep
  <2>3. ASSUME NEW s, s \in {"ok", "failed"}, I!Goto(r, s), UNCHANGED faults,
               anchor' = [x \in DOMAIN anchor \ {req[r].a} |-> anchor[x]]
        PROVE  ImportInv'
    <3>1. DOMAIN anchor' = DOMAIN anchor \ {q.a}
        BY <1>2, <2>3
    <3>2. PICK k : /\ req' = [req EXCEPT ![r] = k] /\ DOMAIN k = Fields /\ k.pc = s
                   /\ k.op = q.op /\ k.a = q.a /\ k.late = q.late /\ k.prev = q.prev
                   /\ k.created = q.created /\ k.mine = q.mine
        BY <1>2, <2>3, GotoFrame
    <3>3. Table' /\ Steady
        BY <1>1, <1>3, <2>1, <2>3, <3>1, <3>2 DEF ImportInv, Table, Steady
    <3>4. Handler(q)'
        BY <1>3, <3>3, HandlerKept DEF ImportInv
    <3>5. Handler(k)'
        BY <1>3, <2>3, <3>2, <3>4 DEF Handler, Pcs
    <3>6. /\ req'[r] = k /\ \A x \in Requests \ {r} : req'[x] = req[x]
          /\ \A x \in Requests : Handler(req[x])'
        BY <3>2, <3>3, <3>5, HandlersKept
    <3>7. ASSUME faults' = 0, ~raced
          PROVE  /\ \A d \in Children : child'[d] # None => child'[d].src \in DOMAIN anchor'
                 /\ \A x \in Requests : req'[x].pc \in {"idle", "ok", "failed"}
      <4>1. \A d \in Children : child[d] # None => child[d].src # q.a /\ child[d].src \in DOMAIN anchor
          BY <1>4, <2>1, <2>3, <3>7
      <4> QED BY <1>4, <2>1, <2>3, <3>1, <3>2, <3>6, <3>7, <4>1
    <3>8. Family'
        BY <1>1, <3>7 DEF Family
    <3> QED BY <3>3, <3>6, <3>8 DEF ImportInv
  <2> QED BY <1>6, <2>2, <2>3 DEF I!DeleteAnchor
<1>7. CASE I!DeleteChild(r)
    BY <1>2, <1>5, <1>7 DEF I!DeleteChild
<1> QED BY <1>6, <1>7

\* Who else is in flight is history, and nothing else depends on it.
LEMMA SharedKept ==
    ASSUME NEW q, Handler(q), NEW b
    PROVE  LET k == [q EXCEPT !.shared = b]
           IN Handler(k) /\ k.pc = q.pc /\ k.op = q.op /\ k.a = q.a /\ k.prev = q.prev
<1>1. PICK k : k = [q EXCEPT !.shared = b]
    OBVIOUS
<1>2. /\ DOMAIN k = Fields /\ k.pc = q.pc /\ k.op = q.op /\ k.a = q.a /\ k.late = q.late /\ k.prev = q.prev
      /\ k.created = q.created /\ k.mine = q.mine
    BY <1>1 DEF Handler, Fields
<1>3. Handler(k)
    BY <1>2 DEF Handler
<1> QED BY <1>1, <1>2, <1>3

\* A request arrives. A deletion that arrives while others are in flight, or is in flight then, has raced.
LEMMA EnterStep ==
    ASSUME ImportInv, NEW r \in Requests, NEW q, Handler(q), I!Enter(r, q), faults' \in {faults, faults + 1},
           UNCHANGED <<anchor, used, child, idem, answered>>,
           q.pc = "children" =>
               \/ faults' = faults + 1
               \/ \A c \in Children : child[c] # None /\ child[c].src = q.a => \E p \in q.prev : p.id = c,
           q.pc \in Importing => q.a \in DOMAIN anchor
    PROVE  ImportInv'
<1>1. /\ req[r].pc = "idle"
      /\ req' = [x \in Requests |-> IF x = r THEN [q EXCEPT !.shared = I!Busy # {}]
                                    ELSE [req[x] EXCEPT !.shared = x \in I!Busy]]
      /\ raced' = (raced \/ \E x \in I!Busy : "delete" \in {q.op, req[x].op})
    BY DEF I!Enter
<1>2. faults \in Nat /\ faults' \in Nat /\ (faults' = 0 => faults = 0)
    BY DEF ImportInv, Table
<1>3. Table'
    BY <1>1, <1>2 DEF ImportInv, Table
<1>4. Steady
    BY <1>2 DEF ImportInv, Table, Steady
<1>5. ASSUME NEW x \in Requests
      PROVE  /\ Handler(req[x])' /\ req'[x].pc = (IF x = r THEN q ELSE req[x]).pc
             /\ req'[x].a = (IF x = r THEN q ELSE req[x]).a /\ req'[x].prev = (IF x = r THEN q ELSE req[x]).prev
  <2>1. PICK h : h = IF x = r THEN q ELSE req[x]
      OBVIOUS
  <2>2. Handler(h)
      BY <2>1 DEF ImportInv
  <2>3. PICK b : req'[x] = [h EXCEPT !.shared = b]
      BY <1>1, <2>1
  <2>4. PICK k : k = [h EXCEPT !.shared = b]
      OBVIOUS
  <2>5. Handler(k) /\ k.pc = h.pc /\ k.a = h.a /\ k.prev = h.prev
      BY <2>2, <2>4, SharedKept
  <2>6. Handler(k)' /\ req'[x] = k
      BY <1>4, <2>3, <2>4, <2>5, HandlerKept DEF ImportInv
  <2>7. Handler(req[x])'
      BY <2>6 DEF Handler, Listed
  <2> QED BY <2>1, <2>5, <2>6, <2>7
<1>6. ASSUME faults' = 0, ~raced'
      PROVE  /\ \A c \in Children : child[c] # None => child[c].src \in DOMAIN anchor
             /\ \A x \in Requests : req'[x].pc = "children" =>
                    /\ \A y \in Requests \ {x} : req'[y].pc = "idle"
                    /\ \A c \in Children : child[c] # None /\ child[c].src = req'[x].a => \E p \in req'[x].prev : p.id = c
             /\ \A x \in Requests : req'[x].pc \in Importing => req'[x].a \in DOMAIN anchor
  <2>1. ~raced /\ \A x \in Requests : req[x].pc # "idle" => q.op # "delete" /\ req[x].op # "delete"
      BY <1>1, <1>6 DEF I!Busy
  <2>2. \A x \in Requests : req[x].pc # "children"
    <3>1. \A x \in Requests : req[x].pc = "children" => req[x].op = "delete"
        BY DEF ImportInv, Handler
    <3> QED BY <2>1, <3>1
  <2>3. /\ \A c \in Children : child[c] # None => child[c].src \in DOMAIN anchor
        /\ \A x \in Requests : req[x].pc \in Importing => req[x].a \in DOMAIN anchor
      BY <1>2, <1>6, <2>1 DEF ImportInv, Family, Importing
  <2>4. \A x \in Requests : req'[x].pc \in Importing => req'[x].a \in DOMAIN anchor
      BY <1>5, <2>3
  <2>5. ASSUME NEW x \in Requests, req'[x].pc = "children"
        PROVE  /\ \A y \in Requests \ {x} : req'[y].pc = "idle"
               /\ \A c \in Children : child[c] # None /\ child[c].src = req'[x].a => \E p \in req'[x].prev : p.id = c
    <3>1. x = r /\ q.pc = "children" /\ req'[x].a = q.a /\ req'[x].prev = q.prev
        BY <1>5, <2>2, <2>5
    <3>2. q.op = "delete"
        BY <3>1 DEF Handler
    <3>3. \A y \in Requests \ {x} : req'[y].pc = "idle"
        BY <1>5, <2>1, <3>1, <3>2
    <3>4. faults' # faults + 1
        BY <1>2, <1>6
    <3> QED BY <3>1, <3>3, <3>4
  <2> QED BY <2>3, <2>4, <2>5
<1>7. Family'
    BY <1>6 DEF Family, Importing
<1> QED BY <1>3, <1>5, <1>7 DEF ImportInv

\* POST, PATCH and DELETE arrive.
LEMMA BeginStep ==
    ASSUME ImportInv, NEW r \in Requests,
           \/ I!PostBegin(r)
           \/ \E a \in Anchors : I!DeleteBegin(r, a)
           \/ \E a \in Anchors, take \in BOOLEAN : I!PatchBegin(r, a, take)
    PROVE  ImportInv'
<1>1. UNCHANGED <<anchor, used, child, idem, answered>>
    BY DEF I!PostBegin, I!DeleteBegin, I!PatchBegin
<1>2. CASE I!PostBegin(r)
  <2>1. PICK q : q = [I!Idle EXCEPT !.op = "post", !.pc = IF idem # None THEN "replayed" ELSE "create",
                                    !.take = TRUE, !.late = answered]
      OBVIOUS
  <2>2. /\ DOMAIN q = Fields /\ q.pc = (IF idem # None THEN "replayed" ELSE "create") /\ q.a = None
        /\ q.prev = {} /\ q.created = {} /\ q.mine = {} /\ q.late = answered
      BY <2>1 DEF I!Idle, Fields
  <2>3. answered => idem # None
      BY DEF ImportInv, Table
  <2>4. Handler(q)
      BY <2>2, <2>3 DEF Handler, Pcs
  <2>5. q.pc \notin Importing /\ q.pc # "children"
      BY <2>2 DEF Importing
  <2> QED BY <1>1, <1>2, <2>1, <2>4, <2>5, EnterStep DEF I!PostBegin
<1>3. ASSUME NEW a \in Anchors, NEW take \in BOOLEAN, I!PatchBegin(r, a, take)
      PROVE  ImportInv'
  <2>1. PICK q : q = [I!Idle EXCEPT !.op = "patch", !.pc = "fetch", !.a = a, !.take = take]
      OBVIOUS
  <2>2. /\ DOMAIN q = Fields /\ q.pc = "fetch" /\ q.a = a
        /\ q.prev = {} /\ q.created = {} /\ q.mine = {} /\ q.late = FALSE
      BY <2>1 DEF I!Idle, Fields
  <2>3. Handler(q)
      BY <2>2 DEF Handler, Pcs
  <2> QED BY <1>1, <1>3, <2>1, <2>2, <2>3, EnterStep DEF I!PatchBegin
<1>4. ASSUME NEW a \in Anchors, I!DeleteBegin(r, a)
      PROVE  ImportInv'
  <2>1. ASSUME NEW P, NEW q, q = [I!Idle EXCEPT !.op = "delete", !.pc = "children", !.a = a, !.prev = P],
               \A p \in P : Listed(p)
        PROVE  Handler(q) /\ q.pc = "children" /\ q.a = a /\ q.prev = P
    <3>1. /\ DOMAIN q = Fields /\ q.pc = "children" /\ q.op = "delete" /\ q.a = a
          /\ q.prev = P /\ q.created = {} /\ q.mine = {} /\ q.late = FALSE
        BY <2>1 DEF I!Idle, Fields
    <3>2. Handler(q)
        BY <2>1, <3>1 DEF Handler, Pcs
    <3> QED BY <3>1, <3>2
  <2>2. PICK P : P = {[id |-> c, row |-> child[c]] : c \in I!ChildrenOf(a)}
      OBVIOUS
  <2>3. \A p \in P : Listed(p)
    <3> TAKE p \in P
    <3>1. PICK c \in Children : child[c] # None /\ p = [id |-> c, row |-> child[c]]
        BY <2>2 DEF I!ChildrenOf
    <3>2. p.id = c /\ p.row = child[c] /\ c \in used /\ child[c].src \in Anchors /\ DOMAIN child[c] = RowFields
        BY <3>1 DEF ImportInv, Table
    <3> QED BY <3>1, <3>2 DEF Listed
  <2>4. \A c \in Children : child[c] # None /\ child[c].src = a => \E p \in P : p.id = c
    <3> SUFFICES ASSUME NEW c \in Children, child[c] # None, child[c].src = a PROVE \E p \in P : p.id = c
        OBVIOUS
    <3>1. [id |-> c, row |-> child[c]] \in P
        BY <2>2 DEF I!ChildrenOf
    <3> QED BY <3>1
  <2>5. PICK q, e : /\ q = [I!Idle EXCEPT !.op = "delete", !.pc = "children", !.a = a, !.prev = P]
                    /\ e = [I!Idle EXCEPT !.op = "delete", !.pc = "children", !.a = a]
      OBVIOUS
  <2>6. \/ I!Enter(r, q) /\ UNCHANGED faults
        \/ I!Enter(r, e) /\ I!Fault
    <3>1. q = [[I!Idle EXCEPT !.op = "delete", !.pc = "children", !.a = a] EXCEPT !.prev = P]
        BY <2>5
    <3> QED BY <1>4, <2>2, <2>5, <3>1 DEF I!DeleteBegin
  <2>7. Handler(q) /\ q.pc = "children" /\ q.a = a /\ q.prev = P
      BY <2>1, <2>3, <2>5
  <2>8. Handler(e) /\ e.pc = "children"
    <3>1. /\ DOMAIN e = Fields /\ e.pc = "children" /\ e.op = "delete" /\ e.a = a
          /\ e.prev = {} /\ e.created = {} /\ e.mine = {} /\ e.late = FALSE
        BY <2>5 DEF I!Idle, Fields
    <3> QED BY <3>1 DEF Handler, Pcs
  <2>9. CASE I!Enter(r, q) /\ UNCHANGED faults
      BY <1>1, <2>4, <2>7, <2>9, EnterStep DEF Importing
  <2>10. CASE I!Enter(r, e) /\ I!Fault
      BY <1>1, <2>8, <2>10, EnterStep DEF Importing, I!Fault
  <2> QED BY <2>6, <2>9, <2>10
<1> QED BY <1>2, <1>3, <1>4

\* ImportInv is inductive.
LEMMA ImportInvariant == Spec => []ImportInv
<1>1. Init => ImportInv
  <2> SUFFICES ASSUME Init PROVE ImportInv
      OBVIOUS
  <2>1. I!Init
      BY DEF Init
  <2>2. Table
      BY <2>1 DEF I!Init, Table
  <2>3. \A r \in Requests : req[r] = I!Idle
      BY <2>1 DEF I!Init
  <2>4. \A r \in Requests : Handler(req[r])
      BY <2>3, IdleHandler DEF Handler, Listed
  <2>5. Family
      BY <2>1, <2>3, IdleHandler DEF I!Init, Family
  <2> QED BY <2>2, <2>4, <2>5 DEF ImportInv
<1>2. ImportInv /\ [Next]_<<part, editVars, importVars>> => ImportInv'
  <2> SUFFICES ASSUME ImportInv, [Next]_<<part, editVars, importVars>> PROVE ImportInv'
      OBVIOUS
  <2>1. ASSUME UNCHANGED <<anchor, used, child, req, raced, faults>>, idem' \in Anchors \cup {None},
               answered' \in BOOLEAN, answered' => idem' # None
        PROVE  ImportInv'
    <3>1. Table'
        BY <2>1 DEF ImportInv, Table
    <3>2. \A r \in Requests : Handler(req[r])'
        BY <2>1 DEF ImportInv, Handler, Listed
    <3>3. Family'
        BY <2>1 DEF ImportInv, Family
    <3> QED BY <3>1, <3>2, <3>3 DEF ImportInv
  <2>2. CASE I!Expire
      BY <2>1, <2>2 DEF I!Expire
  <2>3. CASE UNCHANGED importVars
      BY <2>1, <2>3 DEF importVars, ImportInv, Table
  <2>4. CASE I!Crash
    <3>1. UNCHANGED <<anchor, used, child, raced, faults>> /\ req' = [r \in Requests |-> I!Idle]
        BY <2>4 DEF I!Crash
    <3>2. Table'
      <4>1. DOMAIN req' = Requests
          BY <3>1
      <4>2. idem' = None /\ answered' \in BOOLEAN /\ ~answered'
          BY <2>4 DEF I!Crash
      <4> QED BY <3>1, <4>1, <4>2 DEF ImportInv, Table
    <3>3. \A r \in Requests : Handler(req[r])' /\ req'[r].pc = "idle"
        BY <3>1, IdleHandler DEF Handler, Listed
    <3>4. Family'
        BY <3>1, <3>3 DEF ImportInv, Family
    <3> QED BY <3>2, <3>3, <3>4 DEF ImportInv
  <2>5. CASE I!Next
      BY <2>2, <2>4, <2>5, AnswerStep, PostCreateStep, ReadStep, RowStep, CreateChildStep, DeleteStep, BeginStep
      DEF I!Next
  <2> QED BY <2>3, <2>5 DEF Next
<1> QED BY <1>1, <1>2, PTL DEF Spec

\* A failed import has taken back every node it created, as long as no store call failed.
THEOREM FailedImportsCleanUp == Spec => []FailedLeavesNothingNew
<1>1. ImportInv => FailedLeavesNothingNew
    BY DEF ImportInv, Handler, FailedLeavesNothingNew, I!FailedLeavesNothingNew
<1> QED BY <1>1, ImportInvariant, PTL

\* No child outlives its anchor, wherever the panel dies, unless the store failed or a deletion overlapped
\* with another request.
THEOREM ChildrenHaveAnchors == Spec => []NoOrphans
<1>1. ImportInv => NoOrphans
    BY DEF ImportInv, Family, NoOrphans, I!NoOrphans
<1> QED BY <1>1, ImportInvariant, PTL

\* A POST that is sent again after its 201 has created no anchor while the key is remembered.
THEOREM RetriesAreReplayed == Spec => []RetryCreatesNothing
<1>1. ImportInv => RetryCreatesNothing
    BY DEF ImportInv, Handler, RetryCreatesNothing, I!RetryCreatesNothing
<1> QED BY <1>1, ImportInvariant, PTL

\* Every variable of NodeEdit and NodeImport keeps its type, names and ids of children are unique.
THEOREM NodeTypes == Spec => []TypeOK
<1>1. EditInv => E!TypeOK
  <2> SUFFICES ASSUME EditInv PROVE E!TypeOK
      OBVIOUS
  <2>1. mon \in MonType
      BY DEF EditInv, EditTypes
  <2>2. mon.pc \in {"idle", "check", "fetch", "disable"} /\ mon.todo \subseteq [node : Nodes, fails : Nat]
      BY <2>1 DEF MonType
  <2>3. mon.node \in Nodes \cup {Gone} /\ mon.copy \in E!RowType \cup {Gone}
      BY <2>1 DEF MonType
  <2> QED BY <2>2, <2>3 DEF EditInv, EditTypes, EdType, E!TypeOK
<1>2. ImportInv => I!TypeOK
  <2> SUFFICES ASSUME ImportInv PROVE I!TypeOK
      OBVIOUS
  <2>1. \A r \in Requests : req[r].pc \in Pcs /\ req[r].a \in Anchors \cup {None} /\ req[r].created \subseteq used
      BY DEF ImportInv, Handler
  <2> QED BY <2>1 DEF ImportInv, Table, I!TypeOK, Pcs
<1> QED BY <1>1, <1>2, EditInvariant, ImportInvariant, PTL DEF TypeOK
-----------------------------------------------------------------------------
(* Parsed documents.                                                        *)

Names == Seq(STRING \cup Nat)

\* A nonempty set of numbers has a least member.
LEMMA Least ==
    ASSUME NEW T \in SUBSET Nat, T # {}
    PROVE  \E x \in T : \A y \in T : x <= y
<1> DEFINE R == {p \in Nat \X Nat : p[1] < p[2]}
<1>1. IsWellFoundedOn(R, Nat)
    BY NatLessThanWellFounded, Zenon DEF OpToRel
<1>2. \A x, y \in Nat : <<y, x>> \in R <=> y < x
    OBVIOUS
<1> HIDE DEF R
<1>3. PICK x \in T : \A y \in T : ~(<<y, x>> \in R)
    BY <1>1, WFMin
<1>4. ASSUME NEW y \in T PROVE x <= y
  <2>1. x \in Nat /\ y \in Nat /\ ~(y < x)
      BY <1>2, <1>3
  <2> QED BY <2>1
<1> QED BY <1>4

\* Names with different numbers differ.
LEMMA Numbered ==
    ASSUME NEW name \in Names, NEW k \in Nat
    PROVE  Append(name, k) \in Names /\ Append(name, k)[Len(name) + 1] = k
<1>1. k \in STRING \cup Nat
    OBVIOUS
<1>2. Append(name, k) \in Seq(STRING \cup Nat)
    BY <1>1 DEF Names
<1>3. Append(name, k)[Len(name) + 1] = k
    BY <1>1 DEF Names
<1> QED BY <1>2, <1>3 DEF Names

\* FirstFree returns a name that is not taken: among one more numbers than there are names one is free.
LEMMA FreeName ==
    ASSUME NEW name \in Names, NEW taken, IsFiniteSet(taken)
    PROVE  I!FirstFree(name, taken) \notin taken /\ I!FirstFree(name, taken) \in Names
<1> DEFINE K == 2..(I!Cardinality(taken) + 2)
<1> DEFINE Free == {k \in K : Append(name, k) \notin taken}
<1>1. Cardinality(taken) \in Nat /\ I!Cardinality(taken) = Cardinality(taken)
  <2>1. I!Cardinality(taken) = Cardinality(taken)
      BY DEF I!Cardinality, Cardinality
  <2> QED BY <2>1, FS_CardinalityType
<1>2. Free # {}
  <2> SUFFICES ASSUME Free = {} PROVE FALSE
      OBVIOUS
  <2> DEFINE f == [k \in K |-> Append(name, k)]
  <2>1. f \in [K -> taken]
      OBVIOUS
  <2>2. \A j, k \in K : f[j] = f[k] => j = k
    <3> SUFFICES ASSUME NEW j \in K, NEW k \in K, Append(name, j) = Append(name, k) PROVE j = k
        OBVIOUS
    <3>1. j \in Nat /\ k \in Nat
        BY <1>1
    <3> QED BY <3>1, Numbered
  <2>3. f \in Injection(K, taken)
      BY <2>1, <2>2 DEF Injection, IsInjective
  <2>4. Cardinality(K) <= Cardinality(taken)
      BY <2>3, FS_Injection
  <2>5. Cardinality(K) = Cardinality(taken) + 1
      BY <1>1, FS_Interval
  <2> QED BY <1>1, <2>4, <2>5
<1>3. \E k \in Free : \A j \in Free : k <= j
  <2>1. Free \in SUBSET Nat
      BY <1>1
  <2> HIDE DEF Free
  <2> QED BY <1>2, <2>1, Least
<1> DEFINE c == CHOOSE k \in Free : \A j \in Free : k <= j
<1>4. c \in Free
    BY <1>3
<1>5. c \in Nat /\ Append(name, c) \notin taken
    BY <1>1, <1>4
<1>6. I!FirstFree(name, taken) = IF name \notin taken THEN name ELSE Append(name, c)
    BY Zenon DEF I!FirstFree
<1> HIDE DEF c
<1> QED BY <1>5, <1>6, Numbered

\* No two proxies of a parsed document have the same name.
Distinct(d) == \A i, j \in 1..Len(d) : d[i].name = d[j].name => i = j

\* What AddProxy appends.
Proxies == UNION {{raw.proxies[i] : i \in 1..Len(raw.proxies)} : raw \in RawDocs}
Entries == [name : Names, val : {I!clashToOutbound(p) : p \in Proxies} \X {"global", "rule"}]

\* AddProxy keeps the names distinct.
LEMMA ProxyAdded ==
    ASSUME NEW raw \in RawDocs, NEW i \in 1..Len(raw.proxies), NEW d \in Seq(Entries), Distinct(d)
    PROVE  LET e == I!AddProxy(raw, d, raw.proxies[i]) IN e \in Seq(Entries) /\ Distinct(e)
<1> DEFINE p == raw.proxies[i]
<1> DEFINE taken == {d[j].name : j \in DOMAIN d}
<1> DEFINE name == I!FirstFree(p.name, taken)
<1>1. DOMAIN d = 1..Len(d) /\ Len(d) \in Nat /\ Len(raw.proxies) \in Nat
    BY DocsAssumption
<1>2. IsFiniteSet(taken)
  <2> DEFINE f == [j \in 1..Len(d) |-> d[j].name]
  <2>1. f \in [1..Len(d) -> taken]
      BY <1>1
  <2>2. \A t \in taken : \E j \in 1..Len(d) : f[j] = t
      BY <1>1
  <2>3. f \in Surjection(1..Len(d), taken)
      BY <2>1, <2>2 DEF Surjection
  <2>4. IsFiniteSet(1..Len(d))
      BY <1>1, FS_Interval
  <2> QED BY <2>3, <2>4, FS_Surjection
<1>3. p.name \in Names
    BY DocsAssumption DEF Names
<1>4. name \in Names /\ \A j \in 1..Len(d) : d[j].name # name
  <2>1. name \notin taken /\ name \in Names
      BY <1>2, <1>3, FreeName
  <2> QED BY <1>1, <2>1
<1> HIDE DEF taken
<1>5. CASE I!clashToOutbound(p) = None
    BY <1>5 DEF I!AddProxy
<1>6. CASE I!clashToOutbound(p) # None
  <2> DEFINE e == [name |-> name, val |-> <<I!clashToOutbound(p), I!Mode(raw, name)>>]
  <2>1. I!AddProxy(raw, d, p) = Append(d, e)
      BY <1>6 DEF I!AddProxy, I!uniqueName, taken
  <2>2. I!Mode(raw, name) \in {"global", "rule"}
      BY DEF I!Mode
  <2>3. I!clashToOutbound(p) \in {I!clashToOutbound(x) : x \in Proxies}
    <3>1. p \in Proxies
        BY DEF Proxies
    <3> HIDE DEF p
    <3> QED BY <3>1
  <2>4. e \in Entries
      BY <1>4, <2>2, <2>3 DEF Entries
  <2>5. e.name = name
      OBVIOUS
  <2> HIDE DEF e, name, p
  <2>6. /\ Append(d, e) \in Seq(Entries) /\ Len(Append(d, e)) = Len(d) + 1
        /\ Append(d, e)[Len(d) + 1] = e /\ \A j \in 1..Len(d) : Append(d, e)[j] = d[j]
      BY <1>1, <2>4
  <2>7. Distinct(Append(d, e))
    <3> SUFFICES ASSUME NEW j \in 1..(Len(d) + 1), NEW k \in 1..(Len(d) + 1),
                        Append(d, e)[j].name = Append(d, e)[k].name
                 PROVE  j = k
        BY <2>6 DEF Distinct
    <3>1. CASE j = Len(d) + 1
      <4>1. k \in 1..Len(d) => d[k].name = name
          BY <2>5, <2>6, <3>1
      <4> QED BY <1>1, <1>4, <3>1, <4>1
    <3>2. CASE k = Len(d) + 1
      <4>1. j \in 1..Len(d) => d[j].name = name
          BY <2>5, <2>6, <3>2
      <4> QED BY <1>1, <1>4, <3>2, <4>1
    <3>3. CASE j \in 1..Len(d) /\ k \in 1..Len(d)
        BY <2>6, <3>3 DEF Distinct
    <3> QED BY <1>1, <3>1, <3>2, <3>3
  <2> QED BY <2>1, <2>6, <2>7 DEF p
<1> QED BY <1>5, <1>6

\* u holds the nodes parsed from the first 0, 1, ... k proxies.
Parses(u, raw, k) ==
    /\ u = [n \in 0..k |-> u[n]] /\ u[0] = <<>>
    /\ \A n \in 1..k : u[n] = I!AddProxy(raw, u[n - 1], raw.proxies[n])

\* There is such a function.
LEMMA ParsesExist ==
    ASSUME NEW raw \in RawDocs
    PROVE  \A k \in 0..Len(raw.proxies) : \E u : Parses(u, raw, k)
<1>0. Len(raw.proxies) \in Nat
    BY DocsAssumption
<1> SUFFICES ASSUME ~ \A k \in 0..Len(raw.proxies) : \E u : Parses(u, raw, k) PROVE FALSE
    OBVIOUS
<1> DEFINE T == {k \in 0..Len(raw.proxies) : ~ \E u : Parses(u, raw, k)}
<1>1. PICK k \in T : \A y \in T : k <= y
  <2>1. T # {} /\ T \in SUBSET Nat
      BY <1>0
  <2> HIDE DEF T
  <2> QED BY <2>1, Least
<1>2. CASE k = 0
  <2>1. Parses([i \in 0..0 |-> <<>>], raw, 0)
      BY DEF Parses
  <2> QED BY <1>2, <2>1
<1>3. CASE k # 0
  <2>1. k \in Nat /\ k - 1 \in 0..Len(raw.proxies) /\ k - 1 \notin T
      BY <1>0, <1>1, <1>3
  <2>2. PICK u : Parses(u, raw, k - 1)
      BY <2>1
  <2> DEFINE last == I!AddProxy(raw, u[k - 1], raw.proxies[k])
  <2> DEFINE v == [i \in 0..k |-> IF i = k THEN last ELSE u[i]]
  <2>3. v[0] = u[0] /\ v[k] = last /\ DOMAIN v = 0..k /\ \A i \in 0..(k - 1) : v[i] = u[i]
      BY <1>3, <2>1
  <2>f. v = [n \in 0..k |-> v[n]]
      OBVIOUS
  <2> HIDE DEF v
  <2>4. ASSUME NEW i \in 1..k PROVE v[i] = I!AddProxy(raw, v[i - 1], raw.proxies[i])
    <3>1. i - 1 \in 0..(k - 1) /\ v[i - 1] = u[i - 1]
        BY <2>1, <2>3
    <3>2. CASE i = k
        BY <2>3, <3>1, <3>2
    <3>3. CASE i # k
      <4>1. i \in 1..(k - 1) /\ i \in 0..(k - 1)
          BY <2>1, <3>3
      <4>2. u[i] = I!AddProxy(raw, u[i - 1], raw.proxies[i])
          BY <2>2, <4>1 DEF Parses
      <4> QED BY <2>3, <3>1, <4>1, <4>2
    <3> QED BY <3>2, <3>3
  <2>5. Parses(v, raw, k)
      BY <2>2, <2>3, <2>f, <2>4 DEF Parses
  <2> QED BY <2>5
<1> QED BY <1>2, <1>3

\* The recursive function of ParseClashConfig is it.
LEMMA ParseRuns ==
    ASSUME NEW raw \in RawDocs
    PROVE  \E u : Parses(u, raw, Len(raw.proxies)) /\ I!ParseClashConfig(raw) = u[Len(raw.proxies)]
<1> DEFINE N == Len(raw.proxies)
<1> DEFINE Step(u) == [i \in 0..N |-> IF i = 0 THEN <<>> ELSE I!AddProxy(raw, u[i - 1], raw.proxies[i])]
<1> DEFINE w == CHOOSE u : u = Step(u)
<1>0. N \in Nat
    BY DocsAssumption
<1>1. PICK u : Parses(u, raw, N)
    BY <1>0, ParsesExist
<1>2. u = Step(u)
  <2>1. DOMAIN Step(u) = 0..N /\ Step(u)[0] = <<>>
      BY <1>0
  <2>2. \A i \in 0..N : i # 0 => i \in 1..N
      BY <1>0
  <2>3. \A i \in 0..N : u[i] = Step(u)[i]
      BY <1>1, <2>1, <2>2 DEF Parses
  <2>4. u = [i \in 0..N |-> u[i]]
      BY <1>1 DEF Parses
  <2> QED BY <2>3, <2>4
<1>3. w = Step(w)
  <2> HIDE DEF Step
  <2> QED BY <1>2, Zenon
<1>4. I!ParseClashConfig(raw) = w[N]
    BY DEF I!ParseClashConfig
<1> HIDE DEF w
<1>5. Parses(w, raw, N)
    BY <1>0, <1>3 DEF Parses
<1> QED BY <1>4, <1>5

\* A document has its proxies under distinct names.
Document(d) == Len(d) \in Nat \ {0} /\ Distinct(d)

\* ParseClashConfig yields one, or nothing.
LEMMA Parsed ==
    ASSUME NEW raw \in RawDocs, I!ParseClashConfig(raw) # <<>>
    PROVE  Document(I!ParseClashConfig(raw))
<1> DEFINE N == Len(raw.proxies)
<1>0. N \in Nat
    BY DocsAssumption
<1>1. PICK u : Parses(u, raw, N) /\ I!ParseClashConfig(raw) = u[N]
    BY ParseRuns
<1> DEFINE T == {n \in 0..N : ~(u[n] \in Seq(Entries) /\ Distinct(u[n]))}
<1>2. T = {}
  <2> SUFFICES ASSUME T # {} PROVE FALSE
      OBVIOUS
  <2>1. PICK k \in T : \A y \in T : k <= y
    <3>1. T \in SUBSET Nat
        BY <1>0
    <3> HIDE DEF T
    <3> QED BY <3>1, Least
  <2>2. k # 0
    <3>1. u[0] = <<>> /\ <<>> \in Seq(Entries) /\ Distinct(<<>>)
        BY <1>1 DEF Parses, Distinct
    <3> QED BY <2>1, <3>1
  <2>3. k \in 1..N /\ k - 1 \in 0..N /\ k - 1 \notin T
      BY <1>0, <2>1, <2>2
  <2>4. u[k - 1] \in Seq(Entries) /\ Distinct(u[k - 1])
      BY <2>3
  <2>5. u[k] = I!AddProxy(raw, u[k - 1], raw.proxies[k])
      BY <1>1, <2>3 DEF Parses
  <2>6. u[k] \in Seq(Entries) /\ Distinct(u[k])
      BY <2>3, <2>4, <2>5, ProxyAdded
  <2> QED BY <2>1, <2>6
<1>3. u[N] \in Seq(Entries) /\ Distinct(u[N])
    BY <1>0, <1>2
<1>4. \A d \in Seq(Entries) : d # <<>> => Len(d) \in Nat \ {0}
    OBVIOUS
<1> QED BY <1>1, <1>3, <1>4 DEF Document
-----------------------------------------------------------------------------
(* An import that has the table to itself.                                  *)

First(q) == IF q.take THEN 2 ELSE 1

\* The proxies the loop has behind it.
Behind(q) == First(q)..(q.pos - 1)

\* None stands for a missing row.
NoneIsNoRow == \A a, n, v : None # [src |-> a, name |-> n, val |-> v]

\* The children of an anchor in a table of nodes.
Under(a, rows) == {c \in Children : rows[c] # None /\ rows[c].src = a}

\* m pairs the proxies behind with children of their own: one that was listed under the name of the proxy,
\* or one that was created.
Pairs(q, rows, m) ==
    /\ \A i, j \in Behind(q) : m[i] = m[j] => i = j
    /\ \A i \in Behind(q) : rows[m[i]] # None /\ rows[m[i]].val = q.doc[i].val
    /\ \A i \in Behind(q) : m[i] \in q.created \/ \E p \in q.prev : p.row.name = q.doc[i].name
    /\ \A i \in Behind(q), p \in q.prev : p.row.name = q.doc[i].name => m[i] = p.id
    /\ \A c \in q.created : \E i \in Behind(q) : m[i] = c

\* The children of the anchor are those listed and those created, and a listed one that no proxy behind has
\* the name of is as it was.
Loop(q, rows) ==
    /\ q.pos \in Nat /\ First(q) <= q.pos /\ q.pos <= Len(q.doc) + 1
    /\ \A p \in q.prev : rows[p.id] # None /\ p.id \in Children \ q.created
    /\ \A p, o \in q.prev : p.id = o.id \/ p.row.name = o.row.name => p = o
    /\ Under(q.a, rows) = q.created \cup {p.id : p \in q.prev}
    /\ \A p \in q.prev : (\A i \in Behind(q) : q.doc[i].name # p.row.name) => rows[p.id].val = p.row.val
    /\ \E m \in [Behind(q) -> Children] : Pairs(q, rows, m)

\* The children are the proxies of the document from the given one on, one each.
Match(doc, from, kids, rows) ==
    LET rest == from..Len(doc) IN
    \E m \in [rest -> kids] :
        /\ {m[i] : i \in rest} = kids
        /\ Cardinality(kids) = Cardinality(rest)
        /\ \A i \in rest : rows[m[i]].val = doc[i].val

\* How far an import has come that nobody disturbs.
Import(q, rows, anchors) ==
    /\ q.pc \in {"take", "list", "proxy", "insert"} => Document(q.doc)
    /\ q.pc \in {"list", "proxy", "insert", "ok"} /\ q.op # "delete" /\ q.doc # <<>> /\ q.take =>
           anchors[q.a] = q.doc[1].val[1]
    /\ q.pc \in {"proxy", "insert"} => Loop(q, rows)
    /\ q.pc = "insert" => q.pos <= Len(q.doc) /\ \A p \in q.prev : p.row.name # q.doc[q.pos].name
    /\ q.pc = "ok" /\ q.op # "delete" /\ q.doc # <<>> =>
           Match(q.doc, First(q), Under(q.a, rows), rows)

\* A request that has overlapped with no other is the only one in flight.
Undisturbed ==
    \A r \in Requests : req[r].pc # "idle" /\ ~req[r].shared =>
        Import(req[r], child, anchor) /\ \A x \in Requests \ {r} : req[x].pc = "idle"

\* The loop begins.
LEMMA LoopBegins ==
    ASSUME ImportInv, NEW q, q.prev = {[id |-> c, row |-> child[c]] : c \in I!ChildrenOf(q.a)},
           q.created = {}, q.pos = First(q), Document(q.doc)
    PROVE  Loop(q, child)
<1>1. q.pos \in Nat /\ Behind(q) = {} /\ First(q) <= q.pos /\ q.pos <= Len(q.doc) + 1
    BY DEF First, Behind, Document
<1>2. \A p \in q.prev : p.id \in I!ChildrenOf(q.a) /\ p.row = child[p.id] /\ p = [id |-> p.id, row |-> child[p.id]]
    OBVIOUS
<1>3. \A c \in I!ChildrenOf(q.a) : \E p \in q.prev : p.id = c
  <2> TAKE c \in I!ChildrenOf(q.a)
  <2>1. [id |-> c, row |-> child[c]] \in q.prev
      OBVIOUS
  <2> QED BY <2>1
<1>4. Under(q.a, child) = I!ChildrenOf(q.a) /\ \A c \in I!ChildrenOf(q.a) : c \in Children /\ child[c] # None
    BY DEF Under, I!ChildrenOf
<1>5. \A p \in q.prev : child[p.id] # None /\ p.id \in Children \ q.created
    BY <1>2, <1>4
<1>6. \A p, o \in q.prev : p.id = o.id \/ p.row.name = o.row.name => p = o
  <2> TAKE p, o \in q.prev
  <2>1. \A c, d \in Children : child[c] # None /\ child[d] # None /\ c # d => child[c].name # child[d].name
      BY DEF ImportInv, Table
  <2>2. p.row.name = o.row.name => p.id = o.id
      BY <1>2, <1>5, <2>1
  <2> QED BY <1>2, <2>2
<1>7. Under(q.a, child) = q.created \cup {p.id : p \in q.prev}
    BY <1>2, <1>3, <1>4
<1>8. \E m \in [Behind(q) -> Children] : Pairs(q, child, m)
  <2>1. PICK m : m \in [{} -> Children]
    <3>1. [x \in {} |-> x] \in [{} -> Children]
        OBVIOUS
    <3> QED BY <3>1
  <2>2. Pairs(q, child, m)
      BY <1>1 DEF Pairs
  <2> QED BY <1>1, <2>1, <2>2
<1>9. \A p \in q.prev : child[p.id].val = p.row.val
    BY <1>2
<1> HIDE DEF First
<1> QED BY <1>1, <1>5, <1>6, <1>7, <1>8, <1>9 DEF Loop

\* One more proxy is behind: its child has been brought up to date or created.
LEMMA LoopGoesOn ==
    ASSUME NEW q, NEW k, NEW rows, NEW next, NEW c \in Children, Loop(q, rows), Document(q.doc),
           q.pos <= Len(q.doc), k.pos = q.pos + 1,
           k.take = q.take, k.doc = q.doc, k.a = q.a, k.prev = q.prev,
           next[c] # None, next[c].val = q.doc[q.pos].val, next[c].src = q.a,
           \A d \in Children \ {c} : next[d] = rows[d],
           \/ /\ k.created = q.created
              /\ \E p \in q.prev : p.id = c /\ p.row.name = q.doc[q.pos].name
           \/ /\ k.created = q.created \cup {c} /\ rows[c] = None
              /\ \A p \in q.prev : p.row.name # q.doc[q.pos].name
    PROVE  Loop(k, next)
<1>1. /\ q.pos \in Nat /\ First(q) \in {1, 2} /\ First(k) = First(q) /\ First(q) <= q.pos /\ Len(q.doc) \in Nat
      /\ Behind(k) = Behind(q) \cup {q.pos} /\ q.pos \notin Behind(q) /\ Behind(q) \subseteq 1..Len(q.doc)
      /\ q.pos \in 1..Len(q.doc)
    BY DEF Loop, First, Behind, Document
<1>2. PICK m \in [Behind(q) -> Children] : Pairs(q, rows, m)
    BY DEF Loop
<1>3. /\ \A p \in q.prev : rows[p.id] # None /\ p.id \in Children \ q.created
      /\ \A p, o \in q.prev : p.id = o.id \/ p.row.name = o.row.name => p = o
      /\ Under(q.a, rows) = q.created \cup {p.id : p \in q.prev}
    BY DEF Loop
<1>4. ASSUME NEW i \in Behind(q) PROVE q.doc[i].name # q.doc[q.pos].name
    BY <1>1, <1>4 DEF Document, Distinct
<1>5. \A p \in q.prev : p.id = c => p.row.name = q.doc[q.pos].name
    BY <1>3
<1>6. ASSUME NEW i \in Behind(q) PROVE m[i] # c
  <2>1. /\ rows[m[i]] # None
        /\ m[i] \in q.created \/ \E p \in q.prev : p.row.name = q.doc[i].name /\ m[i] = p.id
      BY <1>2, <1>6 DEF Pairs
  <2>2. CASE \E p \in q.prev : p.id = c
    <3>1. c \notin q.created
        BY <1>3, <2>2
    <3> QED BY <1>4, <1>5, <2>1, <3>1
  <2>3. CASE rows[c] = None
      BY <2>1, <2>3
  <2> QED BY <2>2, <2>3
<1> DEFINE n == [i \in Behind(k) |-> IF i = q.pos THEN c ELSE m[i]]
<1>7. n \in [Behind(k) -> Children] /\ n[q.pos] = c /\ \A i \in Behind(q) : n[i] = m[i] /\ m[i] \in Children
    BY <1>1
<1> HIDE DEF n
<1>8. Pairs(k, next, n)
  <2>1. \A i, j \in Behind(k) : n[i] = n[j] => i = j
      BY <1>1, <1>2, <1>6, <1>7 DEF Pairs
  <2>2. \A i \in Behind(k) : next[n[i]] # None /\ next[n[i]].val = k.doc[i].val
      BY <1>1, <1>2, <1>6, <1>7 DEF Pairs
  <2>3. \A i \in Behind(k) : n[i] \in k.created \/ \E p \in k.prev : p.row.name = k.doc[i].name
      BY <1>1, <1>2, <1>7 DEF Pairs
  <2>4. \A i \in Behind(k), p \in k.prev : p.row.name = k.doc[i].name => n[i] = p.id
    <3> SUFFICES ASSUME NEW i \in Behind(k), NEW p \in q.prev, p.row.name = q.doc[i].name PROVE n[i] = p.id
        OBVIOUS
    <3>1. CASE i = q.pos
        BY <1>3, <1>7, <3>1
    <3>2. CASE i \in Behind(q)
        BY <1>2, <1>7, <3>2 DEF Pairs
    <3> QED BY <1>1, <3>1, <3>2
  <2>5. \A d \in k.created : \E i \in Behind(k) : n[i] = d
      BY <1>1, <1>2, <1>7 DEF Pairs
  <2> QED BY <2>1, <2>2, <2>3, <2>4, <2>5 DEF Pairs
<1>9. \A p \in k.prev : next[p.id] # None /\ p.id \in Children \ k.created
    BY <1>3
<1>10. Under(k.a, next) = k.created \cup {p.id : p \in k.prev}
  <2>1. Under(k.a, next) = Under(q.a, rows) \cup {c}
      BY DEF Under
  <2> QED BY <1>3, <2>1
<1>11. \A p \in k.prev : (\A i \in Behind(k) : k.doc[i].name # p.row.name) => next[p.id].val = p.row.val
  <2> SUFFICES ASSUME NEW p \in q.prev, \A i \in Behind(k) : q.doc[i].name # p.row.name
               PROVE  next[p.id].val = p.row.val
      OBVIOUS
  <2>1. p.id # c
      BY <1>1, <1>5
  <2>2. rows[p.id].val = p.row.val
      BY <1>1 DEF Loop
  <2> QED BY <1>3, <2>1, <2>2
<1>12. k.pos \in Nat /\ First(k) <= k.pos /\ k.pos <= Len(k.doc) + 1
    BY <1>1
<1> QED BY <1>3, <1>7, <1>8, <1>9, <1>10, <1>11, <1>12 DEF Loop

\* A child whose name is not in the document is deleted.
LEMMA LoopCleans ==
    ASSUME NEW q, NEW k, NEW rows, NEW next, Loop(q, rows), Document(q.doc), q.pos > Len(q.doc),
           NEW p \in q.prev, \A i \in First(q)..Len(q.doc) : q.doc[i].name # p.row.name,
           k.take = q.take, k.doc = q.doc, k.a = q.a, k.pos = q.pos, k.created = q.created, k.prev = q.prev \ {p},
           next[p.id] = None, \A d \in Children \ {p.id} : next[d] = rows[d]
    PROVE  Loop(k, next)
<1>1. /\ First(k) = First(q) /\ Behind(k) = Behind(q) /\ Behind(q) = First(q)..Len(q.doc)
      /\ q.pos \in Nat /\ First(q) <= q.pos /\ q.pos <= Len(q.doc) + 1
    BY DEF Loop, First, Behind, Document
<1>2. PICK m \in [Behind(q) -> Children] : Pairs(q, rows, m)
    BY DEF Loop
<1>3. /\ \A o \in q.prev : rows[o.id] # None /\ o.id \in Children \ q.created
      /\ \A o, u \in q.prev : o.id = u.id \/ o.row.name = u.row.name => o = u
      /\ Under(q.a, rows) = q.created \cup {o.id : o \in q.prev}
      /\ \A o \in q.prev : (\A i \in Behind(q) : q.doc[i].name # o.row.name) => rows[o.id].val = o.row.val
    BY DEF Loop
<1>4. \A o \in k.prev : o \in q.prev /\ o.id # p.id
    BY <1>3
<1>5. ASSUME NEW i \in Behind(q) PROVE m[i] # p.id
  <2>1. m[i] \in q.created \/ \E o \in q.prev : o.row.name = q.doc[i].name /\ m[i] = o.id
      BY <1>2, <1>5 DEF Pairs
  <2> QED BY <1>1, <1>3, <2>1
<1>6. Pairs(k, next, m)
  <2>1. \A i, j \in Behind(k) : m[i] = m[j] => i = j
      BY <1>1, <1>2 DEF Pairs
  <2>2. \A i \in Behind(k) : next[m[i]] # None /\ next[m[i]].val = k.doc[i].val
      BY <1>1, <1>2, <1>5 DEF Pairs
  <2>3. \A i \in Behind(k) : m[i] \in k.created \/ \E o \in k.prev : o.row.name = k.doc[i].name
      BY <1>1, <1>2 DEF Pairs
  <2>4. \A i \in Behind(k), o \in k.prev : o.row.name = k.doc[i].name => m[i] = o.id
      BY <1>1, <1>2, <1>4 DEF Pairs
  <2>5. \A d \in k.created : \E i \in Behind(k) : m[i] = d
      BY <1>1, <1>2 DEF Pairs
  <2> QED BY <2>1, <2>2, <2>3, <2>4, <2>5 DEF Pairs
<1>7. \A o \in k.prev : next[o.id] # None /\ o.id \in Children \ k.created
    BY <1>3, <1>4
<1>8. Under(k.a, next) = k.created \cup {o.id : o \in k.prev}
  <2>1. Under(k.a, next) = Under(q.a, rows) \ {p.id}
      BY DEF Under
  <2>2. {o.id : o \in k.prev} = {o.id : o \in q.prev} \ {p.id}
      BY <1>4
  <2> QED BY <1>3, <2>1, <2>2
<1>9. \A o \in k.prev : (\A i \in Behind(k) : k.doc[i].name # o.row.name) => next[o.id].val = o.row.val
    BY <1>1, <1>3, <1>4
<1>10. \A o, u \in k.prev : o.id = u.id \/ o.row.name = u.row.name => o = u
    BY <1>3, <1>4
<1> QED BY <1>1, <1>2, <1>6, <1>7, <1>8, <1>9, <1>10 DEF Loop

\* Nothing is left to delete: the pairs are all there is.
LEMMA LoopEnds ==
    ASSUME NEW q, NEW rows, Loop(q, rows), Document(q.doc), q.pos > Len(q.doc),
           \A p \in q.prev : \E i \in First(q)..Len(q.doc) : q.doc[i].name = p.row.name
    PROVE  Match(q.doc, First(q), Under(q.a, rows), rows)
<1> DEFINE rest == First(q)..Len(q.doc)
<1>1. Behind(q) = rest /\ First(q) \in Int /\ Len(q.doc) \in Int
    BY DEF Loop, First, Behind, Document
<1>2. PICK m \in [rest -> Children] : Pairs(q, rows, m)
    BY <1>1 DEF Loop
<1>3. Under(q.a, rows) = q.created \cup {p.id : p \in q.prev}
    BY DEF Loop
<1> HIDE DEF rest
<1>4. \A i \in rest : m[i] \in Under(q.a, rows)
    BY <1>1, <1>2, <1>3 DEF Pairs
<1>5. \A c \in Under(q.a, rows) : \E i \in rest : m[i] = c
  <2> TAKE c \in Under(q.a, rows)
  <2>1. CASE c \in q.created
      BY <1>1, <1>2, <2>1 DEF Pairs
  <2>2. CASE \E p \in q.prev : p.id = c
    <3>1. PICK p \in q.prev : p.id = c
        BY <2>2
    <3>2. PICK i \in rest : q.doc[i].name = p.row.name
        BY DEF rest
    <3> QED BY <1>1, <1>2, <3>1, <3>2 DEF Pairs
  <2> QED BY <1>3, <2>1, <2>2
<1>6. m \in [rest -> Under(q.a, rows)]
    BY <1>2, <1>4
<1>7. m \in Bijection(rest, Under(q.a, rows))
  <2>1. \A i, j \in rest : m[i] = m[j] => i = j
      BY <1>1, <1>2 DEF Pairs
  <2>2. m \in Injection(rest, Under(q.a, rows))
      BY <1>6, <2>1 DEF Injection, IsInjective
  <2>3. m \in Surjection(rest, Under(q.a, rows))
      BY <1>5, <1>6 DEF Surjection
  <2> QED BY <2>2, <2>3 DEF Bijection
<1>8. Cardinality(Under(q.a, rows)) = Cardinality(rest)
  <2>1. IsFiniteSet(rest)
      BY <1>1, FS_Interval DEF rest
  <2>2. ExistsBijection(rest, Under(q.a, rows))
      BY <1>7 DEF ExistsBijection
  <2> QED BY <2>1, <2>2, FS_Bijection
<1>9. {m[i] : i \in rest} = Under(q.a, rows)
    BY <1>4, <1>5
<1>10. \A i \in rest : rows[m[i]].val = q.doc[i].val
    BY <1>1, <1>2 DEF Pairs
<1> QED BY <1>6, <1>8, <1>9, <1>10 DEF Match, rest

\* The only request in flight takes a step.
LEMMA MovedAlone ==
    ASSUME ImportInv, Undisturbed, NEW r \in Requests, req[r].pc # "idle", NEW k, req' = [req EXCEPT ![r] = k],
           k.pc # "idle" /\ ~k.shared => ~req[r].shared,
           k.pc # "idle" /\ ~k.shared /\ Import(req[r], child, anchor) => Import(k, child', anchor')
    PROVE  Undisturbed'
<1>1. req'[r] = k /\ \A x \in Requests \ {r} : req'[x] = req[x]
    BY DEF ImportInv, Table
<1> SUFFICES ASSUME NEW x \in Requests, req'[x].pc # "idle", ~req'[x].shared
             PROVE  Import(req'[x], child', anchor') /\ \A y \in Requests \ {x} : req'[y].pc = "idle"
    BY DEF Undisturbed
<1>2. CASE x = r
    BY <1>1, <1>2 DEF Undisturbed
<1>3. CASE x # r
    BY <1>1, <1>3 DEF Undisturbed
<1> QED BY <1>2, <1>3

\* A request that has nothing to show yet, or any more.
LEMMA NothingToShow ==
    ASSUME NEW q, NEW rows, NEW anchors,
           q.pc \in {"idle", "create", "fetch", "rollback", "failed", "replayed", "children"}
    PROVE  Import(q, rows, anchors)
BY DEF Import

\* A request arrives: those in flight overlap with it.
LEMMA EnterAlone ==
    ASSUME ImportInv, Undisturbed, NEW r \in Requests, NEW q, DOMAIN q = Fields, I!Enter(r, q),
           q.pc \in {"create", "fetch", "replayed", "children"}
    PROVE  Undisturbed'
<1>1. /\ req[r].pc = "idle"
      /\ req' = [x \in Requests |-> IF x = r THEN [q EXCEPT !.shared = I!Busy # {}]
                                    ELSE [req[x] EXCEPT !.shared = x \in I!Busy]]
    BY DEF I!Enter
<1>2. req'[r] = [q EXCEPT !.shared = I!Busy # {}]
    BY <1>1
<1>3. req'[r].pc = q.pc /\ (req'[r].shared <=> I!Busy # {})
    BY <1>2 DEF Fields
<1>4. ASSUME NEW x \in Requests \ {r}
      PROVE  req'[x].pc = req[x].pc /\ (req'[x].shared <=> req[x].pc # "idle")
  <2>1. DOMAIN req[x] = Fields
      BY DEF ImportInv, Handler
  <2>2. req'[x] = [req[x] EXCEPT !.shared = x \in I!Busy]
      BY <1>1
  <2> QED BY <2>1, <2>2 DEF Fields, I!Busy
<1> SUFFICES ASSUME NEW x \in Requests, req'[x].pc # "idle", ~req'[x].shared
             PROVE  Import(req'[x], child', anchor') /\ \A y \in Requests \ {x} : req'[y].pc = "idle"
    BY DEF Undisturbed
<1>5. x = r
    BY <1>4
<1>6. \A y \in Requests \ {x} : req'[y].pc = "idle"
    BY <1>3, <1>4, <1>5 DEF I!Busy
<1>7. Import(req'[x], child', anchor')
    BY <1>3, <1>5, NothingToShow
<1> QED BY <1>6, <1>7

\* POST, PATCH and DELETE arrive.
LEMMA BeginAlone ==
    ASSUME ImportInv, Undisturbed, NEW r \in Requests,
           \/ I!PostBegin(r)
           \/ \E a \in Anchors : I!DeleteBegin(r, a)
           \/ \E a \in Anchors, take \in BOOLEAN : I!PatchBegin(r, a, take)
    PROVE  Undisturbed'
<1>1. CASE I!PostBegin(r)
  <2>1. PICK q : q = [I!Idle EXCEPT !.op = "post", !.pc = IF idem # None THEN "replayed" ELSE "create",
                                    !.take = TRUE, !.late = answered]
      OBVIOUS
  <2>2. DOMAIN q = Fields /\ q.pc \in {"create", "replayed"}
      BY <2>1 DEF I!Idle, Fields
  <2> QED BY <1>1, <2>1, <2>2, EnterAlone DEF I!PostBegin
<1>2. ASSUME NEW a \in Anchors, NEW take \in BOOLEAN, I!PatchBegin(r, a, take)
      PROVE  Undisturbed'
  <2>1. PICK q : q = [I!Idle EXCEPT !.op = "patch", !.pc = "fetch", !.a = a, !.take = take]
      OBVIOUS
  <2>2. DOMAIN q = Fields /\ q.pc = "fetch"
      BY <2>1 DEF I!Idle, Fields
  <2> QED BY <1>2, <2>1, <2>2, EnterAlone DEF I!PatchBegin
<1>3. ASSUME NEW a \in Anchors, I!DeleteBegin(r, a)
      PROVE  Undisturbed'
  <2>1. PICK e, P : /\ e = [I!Idle EXCEPT !.op = "delete", !.pc = "children", !.a = a]
                    /\ P = {[id |-> c, row |-> child[c]] : c \in I!ChildrenOf(a)}
      OBVIOUS
  <2>2. PICK q : q = [e EXCEPT !.prev = P]
      OBVIOUS
  <2>3. DOMAIN e = Fields /\ e.pc = "children"
      BY <2>1 DEF I!Idle, Fields
  <2>4. DOMAIN q = Fields /\ q.pc = "children"
      BY <2>2, <2>3 DEF Fields
  <2>5. I!Enter(r, q) \/ I!Enter(r, e)
      BY <1>3, <2>1, <2>2 DEF I!DeleteBegin
  <2> QED BY <2>3, <2>4, <2>5, EnterAlone
<1> QED BY <1>1, <1>2, <1>3

\* A request fails, gives up or is over.
LEMMA GiveUpAlone ==
    ASSUME ImportInv, Undisturbed, NEW r \in Requests, NEW s, s \in {"failed", "rollback"},
           req[r].pc # "idle", I!Goto(r, s)
    PROVE  Undisturbed'
<1>1. PICK k : k = [req[r] EXCEPT !.pc = s]
    OBVIOUS
<1>2. DOMAIN req[r] = Fields
    BY DEF ImportInv, Handler
<1>3. req' = [req EXCEPT ![r] = k] /\ k.pc = s /\ k.shared = req[r].shared
    BY <1>1, <1>2 DEF I!Goto, Fields
<1>4. Import(k, child', anchor')
    BY <1>3, NothingToShow
<1> QED BY <1>3, <1>4, MovedAlone

\* Steps outside of the import.
LEMMA OtherAlone ==
    ASSUME ImportInv, Undisturbed, NEW r \in Requests,
           \/ I!PostAnswer(r) \/ I!Respond(r) \/ I!PostCreate(r)
           \/ I!rollbackCreatedNodes(r) \/ I!DeleteChild(r) \/ I!DeleteAnchor(r)
    PROVE  Undisturbed'
<1>1. PICK q : q = req[r]
    OBVIOUS
<1>2. DOMAIN q = Fields /\ DOMAIN req = Requests /\ (q.pc = "children" => q.op = "delete")
    BY <1>1 DEF ImportInv, Handler, Table
<1>3. ASSUME NEW k, req' = [req EXCEPT ![r] = k], k.shared = q.shared, q.pc # "idle",
             \/ k.pc \in {"fetch", "rollback", "children"}
             \/ k.pc = "ok" /\ k.op = "delete"
      PROVE  Undisturbed'
  <2>1. Import(k, child', anchor')
      BY <1>3 DEF Import
  <2> QED BY <1>1, <1>3, <2>1, MovedAlone
<1>4. CASE I!PostAnswer(r) \/ I!Respond(r)
  <2>1. req' = [req EXCEPT ![r] = I!Idle] /\ req[r].pc # "idle" /\ I!Idle.pc = "idle"
      BY <1>4, IdleHandler DEF I!PostAnswer, I!Respond
  <2> QED BY <2>1, MovedAlone
<1>5. CASE I!PostCreate(r)
  <2>1. q.pc = "create"
      BY <1>1, <1>5 DEF I!PostCreate
  <2>2. CASE I!Goto(r, "failed")
      BY <1>1, <2>1, <2>2, GiveUpAlone
  <2>3. ASSUME NEW a, req' = [req EXCEPT ![r].pc = "fetch", ![r].a = a]
        PROVE  Undisturbed'
    <3>1. PICK k : k = [q EXCEPT !.pc = "fetch", !.a = a]
        OBVIOUS
    <3>2. req' = [req EXCEPT ![r] = k] /\ k.pc = "fetch" /\ k.shared = q.shared
        BY <1>1, <1>2, <2>3, <3>1 DEF Fields
    <3> QED BY <1>3, <2>1, <3>2
  <2> QED BY <1>5, <2>2, <2>3 DEF I!PostCreate
<1>6. CASE I!rollbackCreatedNodes(r)
  <2>1. q.pc = "rollback"
      BY <1>1, <1>6 DEF I!rollbackCreatedNodes
  <2>2. CASE I!Goto(r, "failed")
      BY <1>1, <2>1, <2>2, GiveUpAlone
  <2>3. ASSUME NEW c, req' = [req EXCEPT ![r].created = @ \ {c}]
        PROVE  Undisturbed'
    <3>1. PICK k : k = [q EXCEPT !.created = @ \ {c}]
        OBVIOUS
    <3>2. req' = [req EXCEPT ![r] = k] /\ k.pc = "rollback" /\ k.shared = q.shared
        BY <1>1, <1>2, <2>1, <2>3, <3>1 DEF Fields
    <3> QED BY <1>3, <2>1, <3>2
  <2> QED BY <1>6, <2>2, <2>3 DEF I!rollbackCreatedNodes
<1>7. CASE I!DeleteChild(r)
  <2>1. PICK p : q.pc = "children" /\ req' = [req EXCEPT ![r].prev = @ \ {p}]
      BY <1>1, <1>7 DEF I!DeleteChild
  <2>2. PICK k : k = [q EXCEPT !.prev = @ \ {p}]
      OBVIOUS
  <2>3. req' = [req EXCEPT ![r] = k] /\ k.pc = "children" /\ k.shared = q.shared
      BY <1>1, <1>2, <2>1, <2>2 DEF Fields
  <2> QED BY <1>3, <2>1, <2>3
<1>8. CASE I!DeleteAnchor(r)
  <2>1. q.pc = "children" /\ (I!Goto(r, "ok") \/ I!Goto(r, "failed"))
      BY <1>1, <1>8 DEF I!DeleteAnchor
  <2>2. PICK k : k = [q EXCEPT !.pc = "ok"]
      OBVIOUS
  <2>3. k.pc = "ok" /\ k.shared = q.shared /\ k.op = "delete"
      BY <1>2, <2>1, <2>2 DEF Fields
  <2>4. I!Goto(r, "ok") => req' = [req EXCEPT ![r] = k]
      BY <1>1, <2>2 DEF I!Goto
  <2> QED BY <1>1, <1>3, <2>1, <2>3, <2>4, GiveUpAlone
<1> QED BY <1>4, <1>5, <1>6, <1>7, <1>8

\* The import up to its loop.
LEMMA FetchAlone ==
    ASSUME ImportInv, Undisturbed, NEW r \in Requests,
           \/ \E raw \in RawDocs : I!Fetch(r, raw)
           \/ I!TakeFirst(r) \/ I!ListPrevious(r)
    PROVE  Undisturbed'
<1>1. PICK q : q = req[r]
    OBVIOUS
<1>2. DOMAIN q = Fields /\ DOMAIN req = Requests /\ q.created \subseteq q.mine
    BY <1>1 DEF ImportInv, Handler, Table
<1>3. ASSUME NEW raw \in RawDocs, I!Fetch(r, raw)
      PROVE  Undisturbed'
  <2>1. PICK d, t : d = I!ParseClashConfig(raw) /\ t = IF d = <<>> THEN "ok" ELSE IF q.take THEN "take" ELSE "list"
      OBVIOUS
  <2>2. q.pc = "fetch" /\ (req' = [req EXCEPT ![r].doc = d, ![r].pc = t] \/ I!Goto(r, "failed"))
      BY <1>1, <1>3, <2>1 DEF I!Fetch
  <2>3. PICK k : k = [q EXCEPT !.doc = d, !.pc = t]
      OBVIOUS
  <2>4. k.doc = d /\ k.pc = t /\ k.take = q.take /\ k.shared = q.shared
      BY <1>2, <2>3 DEF Fields
  <2>5. Import(k, child', anchor')
    <3>1. CASE d = <<>>
        BY <2>1, <2>4, <3>1 DEF Import
    <3>2. CASE d # <<>>
      <4>1. Document(d)
          BY <2>1, <3>2, Parsed
      <4> QED BY <2>1, <2>4, <3>2, <4>1 DEF Import
    <3> QED BY <3>1, <3>2
  <2>6. CASE req' = [req EXCEPT ![r].doc = d, ![r].pc = t]
    <3>1. req' = [req EXCEPT ![r] = k]
        BY <1>1, <2>3, <2>6
    <3> QED BY <1>1, <2>2, <2>4, <2>5, <3>1, MovedAlone
  <2> QED BY <1>1, <2>2, <2>6, GiveUpAlone
<1>4. CASE I!TakeFirst(r)
  <2>1. q.pc = "take"
      BY <1>1, <1>4 DEF I!TakeFirst
  <2>2. CASE I!Goto(r, "failed")
      BY <1>1, <2>1, <2>2, GiveUpAlone
  <2>3. CASE I!Goto(r, "list") /\ q.a \in DOMAIN anchor /\ anchor' = [anchor EXCEPT ![q.a] = q.doc[1].val[1]]
    <3>1. PICK k : k = [q EXCEPT !.pc = "list"]
        OBVIOUS
    <3>2. /\ req' = [req EXCEPT ![r] = k]
          /\ k.pc = "list" /\ k.shared = q.shared /\ k.doc = q.doc /\ k.a = q.a
        BY <1>1, <1>2, <2>3, <3>1 DEF I!Goto, Fields
    <3>3. anchor'[q.a] = q.doc[1].val[1]
        BY <2>3
    <3>4. Import(q, child, anchor) => Import(k, child', anchor')
        BY <2>1, <3>2, <3>3 DEF Import
    <3> QED BY <1>1, <2>1, <3>2, <3>4, MovedAlone
  <2> QED BY <1>1, <1>4, <2>2, <2>3 DEF I!TakeFirst
<1>5. CASE I!ListPrevious(r)
  <2>1. q.pc = "list" /\ UNCHANGED <<anchor, child>>
      BY <1>1, <1>5 DEF I!ListPrevious
  <2>2. PICK P, n : /\ P = {[id |-> c, row |-> child[c]] : c \in I!ChildrenOf(q.a)}
                    /\ n = First(q)
      OBVIOUS
  <2>3. I!Goto(r, "failed") \/ req' = [req EXCEPT ![r].prev = P, ![r].pos = n, ![r].pc = "proxy"]
      BY <1>1, <1>5, <2>2 DEF I!ListPrevious, First
  <2>4. CASE req' = [req EXCEPT ![r].prev = P, ![r].pos = n, ![r].pc = "proxy"]
    <3>1. PICK k : k = [q EXCEPT !.prev = P, !.pos = n, !.pc = "proxy"]
        OBVIOUS
    <3>2. /\ req' = [req EXCEPT ![r] = k]
          /\ k.pc = "proxy" /\ k.shared = q.shared /\ k.doc = q.doc /\ k.a = q.a /\ k.op = q.op
          /\ k.take = q.take /\ k.prev = P /\ k.pos = n /\ k.created = q.created
        BY <1>1, <1>2, <2>4, <3>1 DEF Fields
    <3>3. k.created = {} /\ k.pos = First(k)
        BY <1>1, <2>1, <2>2, <3>2 DEF ImportInv, Handler, First
    <3>4. Document(k.doc) => Loop(k, child)
        BY <2>2, <3>2, <3>3, LoopBegins
    <3>5. Import(q, child, anchor) => Import(k, child', anchor')
        BY <2>1, <3>2, <3>4 DEF Import
    <3> QED BY <1>1, <2>1, <3>2, <3>5, MovedAlone
  <2> QED BY <1>1, <2>1, <2>3, <2>4, GiveUpAlone
<1> QED BY <1>3, <1>4, <1>5

\* The loop of the import.
LEMMA LoopAlone ==
    ASSUME NoneIsNoRow, ImportInv, Undisturbed, NEW r \in Requests,
           I!ChooseName(r) \/ I!UpdateChild(r) \/ I!CreateChild(r) \/ I!RemoveChild(r)
    PROVE  Undisturbed'
<1>1. PICK q : q = req[r]
    OBVIOUS
<1>2. /\ DOMAIN q = Fields /\ DOMAIN req = Requests /\ DOMAIN child = Children /\ q.created \subseteq used
      /\ \A p \in q.prev : Listed(p)
    BY <1>1 DEF ImportInv, Handler, Table
<1>3. UNCHANGED anchor /\ q.pc \in {"proxy", "insert"}
    BY <1>1 DEF I!ChooseName, I!UpdateChild, I!CreateChild, I!RemoveChild
<1>4. CASE I!Goto(r, "rollback")
    BY <1>1, <1>3, <1>4, GiveUpAlone
<1>5. CASE I!ChooseName(r)
  <2>1. PICK n : /\ req' = [req EXCEPT ![r].pc = "insert", ![r].name = n] /\ UNCHANGED child /\ q.pc = "proxy"
                 /\ q.pos <= Len(q.doc) /\ \A p \in q.prev : p.row.name # q.doc[q.pos].name
      BY <1>1, <1>5 DEF I!ChooseName, I!Known
  <2>2. PICK k : k = [q EXCEPT !.pc = "insert", !.name = n]
      OBVIOUS
  <2>3. /\ req' = [req EXCEPT ![r] = k]
        /\ k.pc = "insert" /\ k.shared = q.shared /\ k.doc = q.doc /\ k.a = q.a /\ k.op = q.op
        /\ k.take = q.take /\ k.prev = q.prev /\ k.pos = q.pos /\ k.created = q.created
      BY <1>1, <1>2, <2>1, <2>2 DEF Fields
  <2>4. Loop(q, child) => Loop(k, child)
    <3>1. First(k) = First(q) /\ Behind(k) = Behind(q)
        BY <2>3 DEF First, Behind
    <3>2. \A m : Pairs(q, child, m) => Pairs(k, child, m)
        BY <2>3, <3>1 DEF Pairs
    <3> QED BY <2>3, <3>1, <3>2 DEF Loop
  <2>5. Import(q, child, anchor) => Import(k, child', anchor')
      BY <1>3, <2>1, <2>3, <2>4 DEF Import
  <2>6. req[r].pc # "idle" /\ k.shared = req[r].shared
      BY <1>1, <2>1, <2>3
  <2> QED BY <1>1, <2>3, <2>5, <2>6, MovedAlone
<1>6. CASE I!UpdateChild(r) /\ ~I!Goto(r, "rollback")
  <2>1. q.pc = "proxy" /\ q.pos <= Len(q.doc)
      BY <1>1, <1>6 DEF I!UpdateChild
  <2>2. PICK p \in q.prev :
            /\ p.row.name = q.doc[q.pos].name /\ req' = [req EXCEPT ![r].pos = @ + 1]
            /\ \/ p.row.val = q.doc[q.pos].val /\ UNCHANGED child
               \/ child' = [child EXCEPT ![p.id] = [p.row EXCEPT !.val = q.doc[q.pos].val]]
      BY <1>1, <1>6 DEF I!UpdateChild, I!Known
  <2>3. PICK k : k = [q EXCEPT !.pos = @ + 1]
      OBVIOUS
  <2>4. /\ req' = [req EXCEPT ![r] = k]
        /\ k.pc = "proxy" /\ k.shared = q.shared /\ k.doc = q.doc /\ k.a = q.a /\ k.op = q.op
        /\ k.take = q.take /\ k.prev = q.prev /\ k.pos = q.pos + 1 /\ k.created = q.created
      BY <1>1, <1>2, <2>1, <2>2, <2>3 DEF Fields
  <2>5. ASSUME Loop(q, child), Document(q.doc)
        PROVE  Loop(k, child')
    <3>1. p.id \in Children /\ child[p.id] # None /\ child[p.id].src = q.a /\ p.row.src = q.a
      <4>1. p.id \in Children /\ child[p.id] # None /\ p.id \in Under(q.a, child)
          BY <2>5 DEF Loop
      <4> QED BY <1>2, <4>1 DEF Under, Listed
    <3>2. \A d \in Children \ {p.id} : child'[d] = child[d]
        BY <1>2, <2>2
    <3>3. child'[p.id] # None /\ child'[p.id].val = q.doc[q.pos].val /\ child'[p.id].src = q.a
      <4>1. CASE p.row.val = q.doc[q.pos].val /\ UNCHANGED child
        <5>1. /\ q.pos \in Nat /\ First(q) \in {1, 2} /\ First(q) <= q.pos /\ Len(q.doc) \in Nat
              /\ Behind(q) \subseteq 1..Len(q.doc) /\ q.pos \in 1..Len(q.doc) /\ q.pos \notin Behind(q)
            BY <2>1, <2>5 DEF Loop, First, Behind, Document
        <5>2. \A i \in Behind(q) : q.doc[i].name # p.row.name
            BY <2>2, <2>5, <5>1 DEF Document, Distinct
        <5>3. child[p.id].val = p.row.val
            BY <2>5, <5>2 DEF Loop
        <5> QED BY <3>1, <4>1, <5>3
      <4>2. CASE child' = [child EXCEPT ![p.id] = [p.row EXCEPT !.val = q.doc[q.pos].val]]
        <5>1. child'[p.id] = [p.row EXCEPT !.val = q.doc[q.pos].val] /\ DOMAIN p.row = RowFields
            BY <1>2, <3>1, <4>2 DEF Listed
        <5>2. child'[p.id].val = q.doc[q.pos].val /\ child'[p.id].src = q.a
            BY <3>1, <5>1 DEF RowFields
        <5>3. child'[p.id] # None
          <6>1. PICK w : w = [p.row EXCEPT !.val = q.doc[q.pos].val]
              OBVIOUS
          <6>2. w = [src |-> w.src, name |-> w.name, val |-> w.val]
            <7>1. DOMAIN w = {"src", "name", "val"}
                BY <5>1, <6>1 DEF RowFields
            <7>2. w = [x \in DOMAIN w |-> w[x]]
                BY <6>1
            <7> QED BY <7>1, <7>2
          <6> QED BY <5>1, <6>1, <6>2 DEF NoneIsNoRow
        <5> QED BY <5>2, <5>3
      <4> QED BY <2>2, <4>1, <4>2
    <3>4. \E o \in q.prev : o.id = p.id /\ o.row.name = q.doc[q.pos].name
        BY <2>2
    <3> QED BY <2>1, <2>4, <2>5, <3>1, <3>2, <3>3, <3>4, LoopGoesOn
  <2>6. Import(q, child, anchor) => Import(k, child', anchor')
      BY <1>3, <2>1, <2>4, <2>5 DEF Import
  <2> QED BY <1>1, <2>1, <2>4, <2>6, MovedAlone
<1>7. CASE I!CreateChild(r) /\ ~I!Goto(r, "rollback")
  <2>1. PICK c : /\ c = I!newUUID(Children) /\ q.pc = "insert" /\ q.name \notin I!NamesTaken
                 /\ child' = [child EXCEPT ![c] = [src |-> q.a, name |-> q.name, val |-> q.doc[q.pos].val]]
                 /\ req' = [req EXCEPT ![r].pc = "proxy", ![r].pos = @ + 1, ![r].name = <<>>,
                                       ![r].created = @ \cup {c}, ![r].mine = @ \cup {c}]
      BY <1>1, <1>7 DEF I!CreateChild
  <2>2. c \in Children /\ c \notin used /\ child[c] = None
    <3>1. \E x \in Children : x \notin used
        BY <1>7 DEF I!CreateChild
    <3>2. c \in Children /\ c \notin used
        BY <2>1, <3>1 DEF I!newUUID
    <3> QED BY <3>2 DEF ImportInv, Table
  <2>3. PICK k : k = [q EXCEPT !.pc = "proxy", !.pos = @ + 1, !.name = <<>>, !.created = @ \cup {c}, !.mine = @ \cup {c}]
      OBVIOUS
  <2>4. /\ req' = [req EXCEPT ![r] = k]
        /\ k.pc = "proxy" /\ k.shared = q.shared /\ k.doc = q.doc /\ k.a = q.a /\ k.op = q.op
        /\ k.take = q.take /\ k.prev = q.prev /\ k.pos = q.pos + 1 /\ k.created = q.created \cup {c}
      BY <1>1, <1>2, <2>1, <2>3 DEF Fields
  <2>5. child'[c].src = q.a /\ child'[c].val = q.doc[q.pos].val /\ \A d \in Children \ {c} : child'[d] = child[d]
      BY <1>2, <2>1, <2>2
  <2>6. child'[c] # None
    <3>1. child'[c] = [src |-> q.a, name |-> q.name, val |-> q.doc[q.pos].val]
        BY <1>2, <2>1, <2>2
    <3> QED BY <3>1 DEF NoneIsNoRow
  <2>7. ASSUME Loop(q, child), Document(q.doc), q.pos <= Len(q.doc), \A p \in q.prev : p.row.name # q.doc[q.pos].name
        PROVE  Loop(k, child')
      BY <2>2, <2>4, <2>5, <2>6, <2>7, LoopGoesOn
  <2>8. Import(q, child, anchor) => Import(k, child', anchor')
      BY <1>3, <2>1, <2>4, <2>7 DEF Import
  <2>9. req[r].pc # "idle" /\ k.shared = req[r].shared
      BY <1>1, <2>1, <2>4
  <2> QED BY <1>1, <2>4, <2>8, <2>9, MovedAlone
<1>8. CASE I!RemoveChild(r) /\ ~I!Goto(r, "rollback")
  <2>1. q.pc = "proxy" /\ q.pos > Len(q.doc)
      BY <1>1, <1>8 DEF I!RemoveChild
  <2>2. ASSUME NEW p \in I!Obsolete(r), child' = [child EXCEPT ![p.id] = None],
               req' = [req EXCEPT ![r].prev = @ \ {p}]
        PROVE  Undisturbed'
    <3>1. p \in q.prev /\ \A i \in First(q)..Len(q.doc) : q.doc[i].name # p.row.name
        BY <1>1, <2>2 DEF I!Obsolete, First
    <3>2. child'[p.id] = None /\ \A d \in Children \ {p.id} : child'[d] = child[d]
        BY <1>2, <2>2, <3>1 DEF Listed
    <3>3. PICK k : k = [q EXCEPT !.prev = @ \ {p}]
        OBVIOUS
    <3>4. /\ req' = [req EXCEPT ![r] = k]
          /\ k.pc = "proxy" /\ k.shared = q.shared /\ k.doc = q.doc /\ k.a = q.a /\ k.op = q.op
          /\ k.take = q.take /\ k.prev = q.prev \ {p} /\ k.pos = q.pos /\ k.created = q.created
        BY <1>1, <1>2, <2>1, <2>2, <3>3 DEF Fields
    <3>5. Import(q, child, anchor) => Loop(k, child')
        BY <2>1, <3>1, <3>2, <3>4, LoopCleans DEF Import
    <3>6. Import(q, child, anchor) => Import(k, child', anchor')
        BY <1>3, <2>1, <3>4, <3>5 DEF Import
    <3> QED BY <1>1, <2>1, <3>4, <3>6, MovedAlone
  <2>3. CASE I!Obsolete(r) = {} /\ I!Goto(r, "ok") /\ UNCHANGED child
    <3>1. \A p \in q.prev : \E i \in First(q)..Len(q.doc) : q.doc[i].name = p.row.name
        BY <1>1, <2>3 DEF I!Obsolete, First
    <3>2. PICK k : k = [q EXCEPT !.pc = "ok"]
        OBVIOUS
    <3>3. /\ req' = [req EXCEPT ![r] = k]
          /\ k.pc = "ok" /\ k.shared = q.shared /\ k.doc = q.doc /\ k.a = q.a /\ k.op = q.op /\ k.take = q.take
        BY <1>1, <1>2, <2>3, <3>2 DEF I!Goto, Fields
    <3>4. Import(q, child, anchor) => Match(q.doc, First(q), Under(q.a, child), child)
        BY <2>1, <3>1, LoopEnds DEF Import
    <3>5. First(k) = First(q)
        BY <3>3 DEF First
    <3>6. Import(q, child, anchor) => Import(k, child', anchor')
        BY <1>3, <2>1, <2>3, <3>3, <3>4, <3>5 DEF Import
    <3> QED BY <1>1, <2>1, <3>3, <3>6, MovedAlone
  <2> QED BY <1>1, <1>8, <2>2, <2>3 DEF I!RemoveChild
<1> QED BY <1>4, <1>5, <1>6, <1>7, <1>8

\* Undisturbed is inductive with ImportInv.
LEMMA AloneInvariant ==
    ASSUME NoneIsNoRow
    PROVE  Spec => []Undisturbed
<1>1. Init => Undisturbed
    BY IdleHandler DEF Init, I!Init, Undisturbed
<1>2. ImportInv /\ Undisturbed /\ [Next]_<<part, editVars, importVars>> => Undisturbed'
  <2> SUFFICES ASSUME ImportInv, Undisturbed, [Next]_<<part, editVars, importVars>> PROVE Undisturbed'
      OBVIOUS
  <2>1. CASE UNCHANGED <<req, child, anchor>>
      BY <2>1 DEF Undisturbed
  <2>2. CASE I!Expire \/ UNCHANGED importVars
      BY <2>1, <2>2 DEF I!Expire, importVars
  <2>3. CASE I!Crash
    <3>1. \A r \in Requests : req'[r].pc = "idle"
        BY <2>3, IdleHandler DEF I!Crash
    <3> QED BY <3>1 DEF Undisturbed
  <2>4. CASE I!Next
      BY <2>2, <2>3, <2>4, BeginAlone, OtherAlone, FetchAlone, LoopAlone DEF I!Next
  <2> QED BY <2>2, <2>4 DEF Next
<1> QED BY <1>1, <1>2, ImportInvariant, PTL DEF Spec

\* An import that reports success and had the table to itself leaves one child per proxy of the document,
\* with its outbound and mode, and no others.
THEOREM ImportsAreExact ==
    ASSUME NoneIsNoRow
    PROVE  Spec => []ImportMatchesDocument
<1>1. Undisturbed => ImportMatchesDocument
  <2> SUFFICES ASSUME Undisturbed, NEW r \in Requests, NEW q, q = req[r],
                      q.pc = "ok", q.op # "delete", ~q.shared, q.doc # <<>>
               PROVE  LET rest == (IF q.take THEN 2 ELSE 1)..Len(q.doc)
                      IN /\ \E m \in [rest -> I!ChildrenOf(q.a)] :
                              /\ {m[i] : i \in rest} = I!ChildrenOf(q.a)
                              /\ I!Cardinality(I!ChildrenOf(q.a)) = I!Cardinality(rest)
                              /\ \A i \in rest : child[m[i]].val = q.doc[i].val
                         /\ q.take => anchor[q.a] = q.doc[1].val[1]
      BY Zenon DEF ImportMatchesDocument, I!ImportMatchesDocument
  <2>1. Import(q, child, anchor)
      BY DEF Undisturbed
  <2>2. Match(q.doc, First(q), Under(q.a, child), child) /\ (q.take => anchor[q.a] = q.doc[1].val[1])
      BY <2>1 DEF Import
  <2>3. Under(q.a, child) = I!ChildrenOf(q.a)
      BY DEF Under, I!ChildrenOf
  <2>4. \A T : I!Cardinality(T) = Cardinality(T)
      BY DEF I!Cardinality, Cardinality
  <2> QED BY <2>2, <2>3, <2>4 DEF Match, First
<1> QED BY <1>1, AloneInvariant, PTL
===============================================================================
