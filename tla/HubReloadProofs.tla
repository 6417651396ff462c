--------------------------- MODULE HubReloadProofs ---------------------------
(***************************************************************************)
(* Theorems about HubReload, for any number of nodes, configurations,        *)
(* intervals and changes.                                                    *)
(*                                                                          *)
(* A Reload acts on a list that may be out of date. It is harmless because   *)
(* whatever its two reads have missed belongs to a handler that is still     *)
(* pending (Fresh), and because the loop leaves every worker it has visited   *)
(* running as the snapshot wants it (Progress).                              *)
(***************************************************************************)
EXTENDS HubReload, TLAPS

Visiting == {"getnode", "flush", "clear", "restart"}
Syncing == Visiting \cup {"sync"}

\* What holds h.mu fits the life of the hub, and Stop visits every worker.
Control ==
    /\ hub = "off" => rpc = "free" /\ ~serving /\ InMap = {}
    /\ hub = "stopped" => rpc \in {"free", "stopping"}
    /\ rpc = "stopping" => hub = "stopped" /\ InMap = todo
    /\ cur \notin todo

\* Outside Stop an active row has a worker, also in the middle of a Reload.
ActiveTracked ==
    hub # "off" /\ rpc # "stopping" /\ "clear" \notin failed =>
        \A n \in Nodes : active[n] => n \in InMap

\* What Reload has read of node n is what the table holds.
Snapshot(n) ==
    /\ n \in DOMAIN desired <=> n \in Desired
    /\ n \in Desired => desired[n] = row[n].cfg

\* Nobody is waiting to reload: what Reload has read holds, but for the nodes written since
\* by somebody who calls no Reload.
Fresh ==
    pending = 0 =>
        /\ rpc \in Syncing \cup {"list"} => want = interval
        /\ rpc \in Syncing => \A n \in Nodes \ skipped : Snapshot(n)

\* The worker runs as the snapshot wants it.
Visited(n) ==
    /\ n \in DOMAIN desired /\ worker[n].run
    /\ worker[n].cfg = desired[n] /\ worker[n].interval = want

\* No call of Reload has failed, and its context is alive.
Good == hub = "up" /\ failed \subseteq {"flush"}

\* The loop has stopped at most the worker it is visiting, and those behind it are as wanted.
Progress ==
    Good =>
        /\ \A n \in InMap : n # cur => worker[n].run
        /\ rpc \in Syncing => \A n \in InMap \ todo : n # cur => Visited(n)
        /\ rpc = "restart" => cur \in DOMAIN desired /\ worker[cur].cfg = desired[cur]

IInv ==
    /\ TypeOK /\ Control /\ ActiveTracked
    /\ Fresh /\ Progress /\ WorkersMatchNodes /\ StoppedForGood

\* A handler or the monitor commits.
Handler ==
    \/ UpdateSettings
    \/ \E n \in Nodes : CreateNode(n) \/ UpdateNode(n) \/ DeleteNode(n) \/ AutoDisable(n)
-----------------------------------------------------------------------------
(* Types.                                                                   *)

\* A worker in the map is a record, and no worker is none.
LEMMA MapType ==
    ASSUME TypeOK
    PROVE  /\ InMap \subseteq Nodes
           /\ \A n \in InMap : worker[n] \in Workers
           /\ \A n \in Nodes : n \notin InMap => worker[n] = NoWorker
           /\ \A n \in Nodes : n # NoWorker
           /\ NoWorker \notin Workers
    BY NoWorkerAssumption DEF TypeOK, InMap

\* Stopping a worker of the map keeps it there.
LEMMA StopInMap ==
    ASSUME TypeOK, NEW n \in InMap, worker' = [worker EXCEPT ![n].run = FALSE]
    PROVE  /\ worker' \in [Nodes -> {NoWorker} \cup Workers] /\ InMap' = InMap
           /\ worker'[n].cfg = worker[n].cfg
           /\ \A m \in Nodes \ {n} : worker'[m] = worker[m]
<1>1. [worker[n] EXCEPT !.run = FALSE] \in Workers
    BY MapType DEF Workers
<1>2. worker' \in [Nodes -> {NoWorker} \cup Workers]
    BY <1>1 DEF TypeOK
<1>3. worker'[n] = [worker[n] EXCEPT !.run = FALSE] /\ \A m \in Nodes \ {n} : worker'[m] = worker[m]
    BY MapType DEF TypeOK
<1>4. worker'[n].cfg = worker[n].cfg
    BY <1>3, MapType DEF Workers
<1>5. InMap' = InMap
    BY <1>1, <1>3, MapType DEF InMap
<1> QED BY <1>2, <1>3, <1>4, <1>5

\* So does starting it again.
LEMMA RestartInMap ==
    ASSUME TypeOK, NEW n \in InMap,
           worker' = [worker EXCEPT ![n].run = TRUE, ![n].interval = want]
    PROVE  /\ worker' \in [Nodes -> {NoWorker} \cup Workers] /\ InMap' = InMap
           /\ worker'[n].run /\ worker'[n].interval = want /\ worker'[n].cfg = worker[n].cfg
           /\ \A m \in Nodes \ {n} : worker'[m] = worker[m]
<1> DEFINE w == [worker[n] EXCEPT !.run = TRUE, !.interval = want]
<1>1. worker[n] \in Workers /\ want \in Intervals /\ n \in Nodes
    BY MapType DEF TypeOK
<1>2. w \in Workers /\ w.run /\ w.interval = want /\ w.cfg = worker[n].cfg
    BY <1>1 DEF Workers
<1>3. worker'[n] = w /\ \A m \in Nodes \ {n} : worker'[m] = worker[m]
    BY <1>1 DEF TypeOK
<1>4. worker' \in [Nodes -> {NoWorker} \cup Workers]
    BY <1>1, <1>2 DEF TypeOK
<1>5. InMap' = InMap
    BY <1>2, <1>3, MapType DEF InMap
<1> QED BY <1>2, <1>3, <1>4, <1>5

\* A wanted node has a row with a configuration.
LEMMA WantedRow ==
    ASSUME TypeOK, NEW n \in Desired
    PROVE  n \in Nodes /\ row[n] \in Rows /\ row[n].cfg \in Cfgs
<1>1. n \in Nodes /\ row[n] \in {Gone} \cup Rows /\ row[n].exists /\ row[n].cfg # NoAPI
    BY DEF Desired, TypeOK
<1>2. row[n] # Gone
    BY <1>1 DEF Gone
<1> QED BY <1>1, <1>2 DEF Rows

\* The tables at the first start are well-typed.
LEMMA TypeInit == Init => TypeOK
<1> SUFFICES ASSUME Init PROVE TypeOK
    OBVIOUS
<1>1. born \subseteq Nodes /\ InMap = {}
    BY DEF Init, InMap
<1> QED BY <1>1 DEF Init, TypeOK

\* Handlers keep the types.
LEMMA TypeHandler ==
    ASSUME TypeOK, Handler
    PROVE  TypeOK'
<1>1. changes' \in Nat /\ pending' \in Nat /\ skipped' \subseteq Nodes
    BY DEF Handler, CreateNode, UpdateNode, DeleteNode, UpdateSettings, AutoDisable, Committed, TypeOK
<1>2. row' \in [Nodes -> {Gone} \cup Rows] /\ born' \subseteq Nodes /\ interval' \in Intervals
      /\ active' \in [Nodes -> BOOLEAN]
  <2>1. CASE \E n \in Nodes : AutoDisable(n)
    <3>1. PICK n \in Nodes : AutoDisable(n)
        BY <2>1
    <3>2. row[n] \in Rows
        BY <3>1 DEF AutoDisable, TypeOK, Gone
    <3>3. [row[n] EXCEPT !.enabled = FALSE] \in Rows
        BY <3>2 DEF Rows
    <3>4. row' = [row EXCEPT ![n] = [row[n] EXCEPT !.enabled = FALSE]]
        BY <3>1 DEF AutoDisable
    <3> QED BY <3>1, <3>3, <3>4 DEF AutoDisable, TypeOK
  <2>2. CASE UpdateSettings \/ \E n \in Nodes : CreateNode(n) \/ UpdateNode(n) \/ DeleteNode(n)
      BY <2>2 DEF CreateNode, UpdateNode, DeleteNode, UpdateSettings, TypeOK
  <2> QED BY <2>1, <2>2 DEF Handler
<1>3. UNCHANGED <<hub, serving, worker, reloadVars, failed, clean>> /\ InMap' = InMap
    BY DEF Handler, CreateNode, UpdateNode, DeleteNode, UpdateSettings, AutoDisable, InMap
<1> QED BY <1>1, <1>2, <1>3 DEF TypeOK, reloadVars

\* A Reload that returns leaves well-typed program variables.
LEMMA TypeReturn ==
    ASSUME TypeOK, NEW ok \in BOOLEAN, Return(ok), UNCHANGED <<tables, hub, pending, changes, skipped>>,
           active' \in [Nodes -> BOOLEAN], worker' \in [Nodes -> {NoWorker} \cup Workers],
           failed' \subseteq Calls
    PROVE  TypeOK'
    BY DEF Return, TypeOK, tables, InMap

\* The failure of a call is recorded.
LEMMA FailType ==
    ASSUME TypeOK, NEW call \in Calls, Fails(call) PROVE failed' \subseteq Calls /\ call \in failed'
    BY DEF Fails, TypeOK

\* Flushing a stopped worker writes zeros at most.
LEMMA FlushType ==
    ASSUME TypeOK, NEW n \in Nodes, FlushStopped(n)
    PROVE  /\ active' \in [Nodes -> BOOLEAN] /\ failed' \subseteq Calls
           /\ \A m \in Nodes : active'[m] => active[m]
           /\ failed \subseteq failed'
           /\ failed' \subseteq failed \cup {"flush"}
    BY DEF FlushStopped, Fails, TypeOK, Calls

\* ClearActiveIPs("") clears everything, or its failure is recorded.
LEMMA ClearType ==
    ASSUME TypeOK, ClearAll
    PROVE  /\ active' \in [Nodes -> BOOLEAN] /\ failed' \subseteq Calls /\ failed \subseteq failed'
           /\ "clear" \notin failed' => \A n \in Nodes : ~active'[n]
    BY DEF ClearAll, Fails, TypeOK, Calls

\* Reload keeps the types.
LEMMA TypeReload ==
    ASSUME TypeOK, Control, ReloadStep
    PROVE  TypeOK'
<1>1. CASE EnterReload
  <2>1. InMap' = InMap /\ rpc # "free" => FALSE
      BY <1>1 DEF EnterReload
  <2> QED BY <1>1 DEF EnterReload, TypeOK, InMap, tables, history
<1>2. CASE ReadSettings
  <2>1. CASE Fails("settings") /\ Return(FALSE)
      BY <1>2, <2>1, FailType, TypeReturn DEF ReadSettings, TypeOK, Calls
  <2>2. CASE want' = interval /\ rpc' = "list" /\ UNCHANGED <<todo, cur, desired, failed, clean, serving>>
      BY <1>2, <2>2 DEF ReadSettings, TypeOK, InMap, tables
  <2> QED BY <1>2, <2>1, <2>2 DEF ReadSettings
<1>3. CASE ListNodes
  <2>1. CASE Fails("list") /\ Return(FALSE) /\ UNCHANGED skipped
      BY <1>3, <2>1, FailType, TypeReturn DEF ListNodes, TypeOK, Calls
  <2>2. CASE /\ desired' = [n \in Desired |-> row[n].cfg]
             /\ todo' = InMap /\ rpc' = "sync" /\ skipped' = {}
             /\ UNCHANGED <<cur, want, failed, clean, serving>>
    <3>1. \A n \in Desired : n \in Nodes /\ row[n].cfg \in Cfgs
        BY WantedRow DEF Desired
    <3>2. DOMAIN desired' \subseteq Nodes /\ \A n \in DOMAIN desired' : desired'[n] \in Cfgs
        BY <2>2, <3>1
    <3> QED BY <1>3, <2>2, <3>2 DEF ListNodes, TypeOK, InMap, tables
  <2> QED BY <1>3, <2>1, <2>2 DEF ListNodes
<1>4. ASSUME NEW n \in Nodes, Visit(n) PROVE TypeOK'
  <2>1. n \in InMap /\ todo' \subseteq InMap
      BY <1>4 DEF Visit, TypeOK
  <2>2. CASE UNCHANGED <<worker, cur, rpc>>
      BY <1>4, <2>1, <2>2 DEF Visit, TypeOK, InMap, tables, history
  <2>3. CASE /\ worker' = [worker EXCEPT ![n].run = FALSE] /\ cur' = n
             /\ rpc' \in {"getnode", "restart"}
    <3>1. worker' \in [Nodes -> {NoWorker} \cup Workers] /\ InMap' = InMap
        BY <2>1, <2>3, StopInMap
    <3> QED BY <1>4, <2>1, <2>3, <3>1 DEF Visit, TypeOK, tables, history
  <2> QED BY <1>4, <2>2, <2>3 DEF Visit
<1>5. CASE GetNode
  <2>1. CASE Fails("getnode") /\ Return(FALSE)
      BY <1>5, <2>1, FailType, TypeReturn DEF GetNode, TypeOK, Calls
  <2>2. CASE /\ rpc' = IF row[cur].exists THEN "flush" ELSE "clear"
             /\ UNCHANGED <<todo, cur, desired, want, failed, clean, serving>>
      BY <1>5, <2>2 DEF GetNode, TypeOK, InMap, tables
  <2> QED BY <1>5, <2>1, <2>2 DEF GetNode
<1>6. CASE FlushReplaced
  <2>1. cur \in Nodes /\ rpc = "flush"
      BY <1>6, MapType DEF FlushReplaced, TypeOK
  <2>2. active' \in [Nodes -> BOOLEAN] /\ failed' \subseteq Calls
      BY <1>6, <2>1, FlushType DEF FlushReplaced
  <2> QED BY <1>6, <2>1, <2>2 DEF FlushReplaced, TypeOK, InMap, tables
<1>7. CASE ClearReplaced
  <2>1. CASE Fails("clear") /\ Return(FALSE) /\ UNCHANGED <<active, worker>>
      BY <1>7, <2>1, FailType, TypeReturn DEF ClearReplaced, TypeOK, Calls
  <2>2. CASE /\ active' = [active EXCEPT ![cur] = FALSE]
             /\ worker' = [worker EXCEPT ![cur] = NoWorker]
             /\ cur' = NoWorker /\ rpc' = "sync"
             /\ UNCHANGED <<todo, desired, want, failed, clean, serving>>
    <3>1. cur \in Nodes /\ InMap' = InMap \ {cur} /\ cur \notin todo
        BY <1>7, <2>2, MapType DEF ClearReplaced, TypeOK, InMap, Control
    <3> QED BY <1>7, <2>2, <3>1 DEF ClearReplaced, TypeOK, tables
  <2> QED BY <1>7, <2>1, <2>2 DEF ClearReplaced
<1>8. CASE RestartWorker
  <2>1. cur \in InMap
      BY <1>8 DEF RestartWorker, TypeOK
  <2>2. active' \in [Nodes -> BOOLEAN] /\ failed' \subseteq Calls
      BY <1>8, <2>1, MapType, FlushType DEF RestartWorker
  <2>3. worker' \in [Nodes -> {NoWorker} \cup Workers] /\ InMap' = InMap
      BY <1>8, <2>1, RestartInMap DEF RestartWorker
  <2> QED BY <1>8, <2>2, <2>3 DEF RestartWorker, TypeOK, tables
<1>9. CASE StartMissing
  <2>1. failed' \subseteq Calls
      BY <1>9 DEF StartMissing, Fails, TypeOK, Calls
  <2>2. worker' \in [Nodes -> {NoWorker} \cup Workers]
    <3>1. \A n \in DOMAIN desired : [run |-> TRUE, cfg |-> desired[n], interval |-> want] \in Workers
        BY DEF TypeOK, Workers
    <3> QED BY <1>9, <3>1 DEF StartMissing, TypeOK
  <2> QED BY <1>9, <2>1, <2>2, TypeReturn DEF StartMissing, TypeOK
<1> QED BY <1>1, <1>2, <1>3, <1>4, <1>5, <1>6, <1>7, <1>8, <1>9 DEF ReloadStep

\* Every step keeps the types.
LEMMA TypeStep ==
    ASSUME TypeOK, Control, [Next]_vars
    PROVE  TypeOK'
<1>1. CASE Handler
    BY <1>1, TypeHandler
<1>3. ASSUME NEW n \in Nodes, FlushTick(n) PROVE TypeOK'
    BY <1>3 DEF FlushTick, TypeOK, InMap, tables, reloadVars, history
<1>4. ASSUME NEW n \in Nodes, WorkerExits(n) PROVE TypeOK'
  <2>1. n \in InMap
      BY <1>4 DEF WorkerExits, Running, InMap
  <2>2. worker' \in [Nodes -> {NoWorker} \cup Workers] /\ InMap' = InMap
      BY <1>4, <2>1, StopInMap DEF WorkerExits
  <2> QED BY <1>4, <2>2 DEF WorkerExits, TypeOK, tables, reloadVars, history
<1>5. CASE Signal
    BY <1>5 DEF Signal, TypeOK, InMap, tables, reloadVars, history
<1>6. CASE Start
  <2>1. active' \in [Nodes -> BOOLEAN] /\ failed' \subseteq Calls
      BY <1>6, ClearType DEF Start
  <2> QED BY <1>6, <2>1 DEF Start, TypeOK, Control, InMap, tables
<1>7. CASE ReloadStep
    BY <1>7, TypeReload
<1>8. CASE EnterStop
    BY <1>8 DEF EnterStop, TypeOK, InMap, tables, history
<1>9. CASE LeaveStop
  <2>1. active' \in [Nodes -> BOOLEAN] /\ failed' \subseteq Calls
      BY <1>9, ClearType DEF LeaveStop
  <2> QED BY <1>9, <2>1 DEF LeaveStop, TypeOK, InMap, tables
<1>10. ASSUME NEW n \in Nodes, StopOne(n) PROVE TypeOK'
  <2>1. active' \in [Nodes -> BOOLEAN] /\ failed' \subseteq Calls
      BY <1>10, FlushType DEF StopOne
  <2>2. todo' \subseteq InMap'
      BY <1>10 DEF StopOne, TypeOK, InMap
  <2> QED BY <1>10, <2>1, <2>2 DEF StopOne, TypeOK, tables
<1>11. CASE Done \/ UNCHANGED vars
    BY <1>11 DEF Done, vars, TypeOK, InMap, tables, reloadVars, history
<1> QED BY <1>1, <1>3, <1>4, <1>5, <1>6, <1>7, <1>8, <1>9, <1>10, <1>11 DEF Next, Handler, StopStep
-----------------------------------------------------------------------------
(* Facts about groups of actions.                                           *)

\* A handler leaves the hub alone, and is pending afterwards unless what it has written is
\* remembered as skipped.
LEMMA HandlerFrame ==
    ASSUME TypeOK, Handler
    PROVE  /\ serving
           /\ UNCHANGED <<hub, serving, worker, rpc, todo, cur, desired, want, failed>> /\ InMap' = InMap
           /\ \/ pending' # 0
              \/ /\ UNCHANGED <<interval, pending>> /\ skipped \subseteq skipped'
                 /\ \A n \in Nodes \ skipped' : row'[n] = row[n]
           /\ \A n \in Nodes : active'[n] => active[n]
<1>1. serving
    BY DEF Handler, CreateNode, UpdateNode, DeleteNode, UpdateSettings, AutoDisable, Committed
<1>2. ASSUME pending' = 0
      PROVE  /\ UNCHANGED <<interval, pending>> /\ skipped \subseteq skipped'
             /\ \A n \in Nodes \ skipped' : row'[n] = row[n]
  <2>1. CASE UpdateSettings
      BY <1>2, <2>1 DEF UpdateSettings, Committed, TypeOK
  <2>2. ASSUME NEW n \in Nodes, CreateNode(n) \/ UpdateNode(n) \/ DeleteNode(n) \/ AutoDisable(n)
        PROVE  /\ UNCHANGED <<interval, pending>> /\ skipped' = skipped \cup {n}
               /\ \A m \in Nodes \ {n} : row'[m] = row[m]
    <3>1. skipped' = skipped \cup {n} /\ UNCHANGED <<interval, pending>>
        BY <1>2, <2>2 DEF CreateNode, UpdateNode, DeleteNode, AutoDisable, Committed, TypeOK
    <3>2. \A m \in Nodes \ {n} : row'[m] = row[m]
        BY <2>2 DEF CreateNode, UpdateNode, DeleteNode, AutoDisable, TypeOK
    <3> QED BY <3>1, <3>2
  <2> QED BY <2>1, <2>2 DEF Handler
<1>3. UNCHANGED <<hub, serving, worker, rpc, todo, cur, desired, want, failed>> /\ InMap' = InMap
    BY DEF Handler, CreateNode, UpdateNode, DeleteNode, UpdateSettings, AutoDisable, reloadVars, InMap
<1>4. \A n \in Nodes : active'[n] => active[n]
    BY DEF Handler, CreateNode, UpdateNode, DeleteNode, UpdateSettings, AutoDisable, TypeOK
<1> QED BY <1>1, <1>2, <1>3, <1>4

\* The reads of Reload either succeed or end it with a failure that is not one of a flush.
LEMMA ReadsFrame ==
    ASSUME TypeOK, ReadSettings \/ ListNodes \/ GetNode
    PROVE  /\ UNCHANGED <<tables, active, hub, worker, pending>> /\ InMap' = InMap
           /\ rpc \in {"settings", "list", "getnode"} /\ failed \subseteq failed'
           /\ \/ rpc' = "free" /\ todo' = {} /\ cur' = NoWorker /\ ~(failed' \subseteq {"flush"})
              \/ rpc' \in {"list", "sync", "flush", "clear"} /\ UNCHANGED <<cur, failed>>
    BY DEF ReadSettings, ListNodes, GetNode, Fails, Return, TypeOK, InMap

\* ClearReplaced takes the worker it is visiting out of the map, or records its failure.
LEMMA ClearFrame ==
    ASSUME TypeOK, ClearReplaced
    PROVE  /\ UNCHANGED <<tables, hub, pending, skipped>> /\ rpc = "clear" /\ cur \in InMap
           /\ cur' = NoWorker /\ failed \subseteq failed'
           /\ \A n \in Nodes : active'[n] => active[n]
           /\ \/ /\ rpc' = "free" /\ todo' = {} /\ "clear" \in failed' /\ UNCHANGED worker
                 /\ InMap' = InMap
              \/ /\ rpc' = "sync" /\ UNCHANGED <<todo, desired, want, failed>>
                 /\ ~active'[cur] /\ InMap' = InMap \ {cur}
                 /\ \A n \in Nodes \ {cur} : worker'[n] = worker[n]
<1>1. rpc = "clear" /\ cur \in InMap /\ cur \in Nodes
    BY MapType DEF ClearReplaced, TypeOK
<1>2. CASE Fails("clear") /\ Return(FALSE) /\ UNCHANGED <<active, worker>>
    BY <1>1, <1>2 DEF ClearReplaced, Fails, Return, InMap
<1>3. CASE /\ active' = [active EXCEPT ![cur] = FALSE]
           /\ worker' = [worker EXCEPT ![cur] = NoWorker]
           /\ cur' = NoWorker /\ rpc' = "sync"
           /\ UNCHANGED <<todo, desired, want, failed, clean, serving>>
  <2>1. InMap' = InMap \ {cur} /\ \A n \in Nodes \ {cur} : worker'[n] = worker[n]
      BY <1>1, <1>3 DEF InMap, TypeOK
  <2>2. ~active'[cur] /\ \A n \in Nodes : active'[n] => active[n]
      BY <1>1, <1>3 DEF TypeOK
  <2> QED BY <1>1, <1>3, <2>1, <2>2 DEF ClearReplaced
<1> QED BY <1>2, <1>3 DEF ClearReplaced

\* RestartWorker brings the worker it is visiting back with the new interval.
LEMMA RestartFrame ==
    ASSUME TypeOK, RestartWorker
    PROVE  /\ UNCHANGED <<tables, hub, todo, desired, want, pending, skipped>>
           /\ rpc = "restart" /\ rpc' = "sync" /\ cur' = NoWorker /\ cur \in InMap /\ InMap' = InMap
           /\ failed \subseteq failed' /\ \A n \in Nodes : active'[n] => active[n]
           /\ worker'[cur].run /\ worker'[cur].interval = want /\ worker'[cur].cfg = worker[cur].cfg
           /\ \A m \in Nodes \ {cur} : worker'[m] = worker[m]
<1>1. rpc = "restart" /\ cur \in InMap /\ cur \in Nodes
    BY MapType DEF RestartWorker, TypeOK
<1>2. /\ InMap' = InMap /\ worker'[cur].run /\ worker'[cur].interval = want
      /\ worker'[cur].cfg = worker[cur].cfg /\ \A m \in Nodes \ {cur} : worker'[m] = worker[m]
    BY <1>1, RestartInMap DEF RestartWorker
<1>3. failed \subseteq failed' /\ \A n \in Nodes : active'[n] => active[n]
    BY <1>1, FlushType DEF RestartWorker
<1> QED BY <1>1, <1>2, <1>3 DEF RestartWorker

\* The map after the last step of a Reload: nothing is taken out, and unless a secret could
\* not be decrypted every wanted node that had no worker has one.
LEMMA StartFrame ==
    ASSUME TypeOK, StartMissing
    PROVE  /\ UNCHANGED <<tables, active, hub, pending, skipped>> /\ failed \subseteq failed'
           /\ rpc = "sync" /\ todo = {} /\ cur = NoWorker
           /\ rpc' = "free" /\ todo' = {} /\ cur' = NoWorker
           /\ \A n \in InMap : worker'[n] = worker[n] /\ n \in InMap'
           /\ failed' \subseteq {"flush"} =>
                 \A n \in Nodes \ InMap :
                    worker'[n] = IF n \in DOMAIN desired
                                 THEN [run |-> TRUE, cfg |-> desired[n], interval |-> want]
                                 ELSE NoWorker
<1>1. rpc = "sync" /\ todo = {} /\ cur = NoWorker
    BY DEF StartMissing, TypeOK
<1>2. PICK sealed \in SUBSET (DOMAIN desired \ InMap) :
          /\ IF sealed = {} THEN UNCHANGED failed ELSE Fails("decrypt")
          /\ worker' = [n \in Nodes |->
                IF n \in DOMAIN desired \ sealed /\ n \notin InMap
                THEN [run |-> TRUE, cfg |-> desired[n], interval |-> want]
                ELSE worker[n]]
    BY DEF StartMissing
<1>3. failed \subseteq failed' /\ (failed' \subseteq {"flush"} => sealed = {})
    BY <1>2 DEF Fails
<1>4. \A n \in InMap : worker'[n] = worker[n] /\ n \in InMap'
    BY <1>2 DEF InMap
<1>5. \A n \in Nodes \ InMap : worker[n] = NoWorker
    BY DEF InMap
<1>6. failed' \subseteq {"flush"} =>
          \A n \in Nodes \ InMap :
             worker'[n] = IF n \in DOMAIN desired
                          THEN [run |-> TRUE, cfg |-> desired[n], interval |-> want]
                          ELSE NoWorker
    BY <1>2, <1>3, <1>5
<1> QED BY <1>1, <1>3, <1>4, <1>6 DEF StartMissing, Return
-----------------------------------------------------------------------------
(* Control, and no worker after Stop.                                       *)

\* The hub is off at the start.
LEMMA ControlInit == Init => Control /\ StoppedForGood
    BY DEF Init, Control, StoppedForGood, InMap

\* Every step fits the life of the hub.
LEMMA ControlStep ==
    ASSUME TypeOK, Control, StoppedForGood, [Next]_vars
    PROVE  Control' /\ StoppedForGood'
<1>a. ASSUME UNCHANGED <<hub, serving, rpc, todo, cur>>, InMap' = InMap PROVE Control' /\ StoppedForGood'
    BY <1>a DEF Control, StoppedForGood
<1>b. ASSUME hub' = hub, hub \notin {"off", "stopped"}, rpc' # "stopping", cur' \notin todo'
      PROVE  Control' /\ StoppedForGood'
    BY <1>b DEF Control, StoppedForGood
<1>c. rpc \notin {"free", "stopping"} => hub \notin {"off", "stopped"}
    BY DEF Control
<1>1. CASE Handler
    BY <1>1, <1>a, HandlerFrame
<1>2. ASSUME NEW n \in Nodes, FlushTick(n) PROVE Control' /\ StoppedForGood'
    BY <1>2, <1>a DEF FlushTick, reloadVars, InMap
<1>3. ASSUME NEW n \in Nodes, WorkerExits(n) PROVE Control' /\ StoppedForGood'
  <2>1. n \in InMap
      BY <1>3 DEF WorkerExits, Running, InMap
  <2> QED BY <1>3, <1>a, <2>1, StopInMap DEF WorkerExits, reloadVars
<1>4. CASE Signal
    BY <1>4 DEF Signal, Control, StoppedForGood, reloadVars, TypeOK
<1>5. CASE Start
    BY <1>5 DEF Start, Control, StoppedForGood
<1>6. CASE EnterReload
    BY <1>6, <1>a, <1>b DEF EnterReload, Control, InMap
<1>7. CASE ReadSettings \/ ListNodes \/ GetNode
  <2>1. cur' \notin todo'
    <3>1. CASE rpc' = "free"
        BY <1>7, <3>1, ReadsFrame
    <3>2. CASE ReadSettings \/ GetNode
        BY <3>2 DEF ReadSettings, GetNode, Return, Control
    <3>3. CASE ListNodes /\ rpc' # "free"
        BY <3>3, MapType DEF ListNodes, Return, TypeOK
    <3> QED BY <1>7, <3>1, <3>2, <3>3
  <2> QED BY <1>7, <1>b, <1>c, <2>1, ReadsFrame
<1>8. ASSUME NEW n \in Nodes, Visit(n) PROVE Control' /\ StoppedForGood'
  <2>1. cur' \notin todo' /\ rpc' # "stopping" /\ hub' = hub /\ rpc = "sync"
      BY <1>8 DEF Visit, Control
  <2> QED BY <1>b, <1>c, <2>1
<1>9. CASE FlushReplaced
    BY <1>9, <1>b, <1>c DEF FlushReplaced, Control
<1>10. CASE ClearReplaced \/ RestartWorker
  <2>1. cur' \notin todo'
      BY <1>10, ClearFrame, RestartFrame, MapType DEF TypeOK
  <2> QED BY <1>10, <1>b, <1>c, <2>1, ClearFrame, RestartFrame
<1>11. CASE StartMissing
    BY <1>11, <1>b, <1>c, StartFrame
<1>12. CASE EnterStop
    BY <1>12, MapType DEF EnterStop, Control, StoppedForGood, InMap, TypeOK
<1>13. CASE LeaveStop
    BY <1>13 DEF LeaveStop, Control, StoppedForGood, InMap
<1>14. ASSUME NEW n \in Nodes, StopOne(n) PROVE Control' /\ StoppedForGood'
  <2>1. InMap' = InMap \ {n}
      BY <1>14 DEF StopOne, InMap, TypeOK
  <2> QED BY <1>14, <2>1 DEF StopOne, Control, StoppedForGood
<1>15. CASE Done \/ UNCHANGED vars
    BY <1>15, <1>a DEF Done, vars, reloadVars, InMap
<1> QED BY <1>1, <1>2, <1>3, <1>4, <1>5, <1>6, <1>7, <1>8, <1>9, <1>10, <1>11, <1>12, <1>13, <1>14, <1>15
    DEF Next, Handler, ReloadStep, StopStep
-----------------------------------------------------------------------------
(* Active rows.                                                             *)

\* Every step leaves a worker for every active row.
LEMMA ActiveStep ==
    ASSUME TypeOK, Control, ActiveTracked, [Next]_vars
    PROVE  ActiveTracked'
<1>a. ASSUME hub' # "off" => hub # "off", rpc' # "stopping" => rpc # "stopping",
             failed \subseteq failed', InMap \subseteq InMap',
             \A n \in Nodes : active'[n] => active[n]
      PROVE  ActiveTracked'
    BY <1>a DEF ActiveTracked
<1>1. CASE Handler
    BY <1>1, <1>a, HandlerFrame
<1>2. ASSUME NEW n \in Nodes, FlushTick(n) PROVE ActiveTracked'
  <2>1. n \in InMap /\ InMap' = InMap /\ UNCHANGED <<hub, rpc, failed>>
      BY <1>2 DEF FlushTick, reloadVars, history, InMap
  <2>2. \A m \in Nodes \ {n} : active'[m] = active[m]
      BY <1>2 DEF FlushTick, TypeOK
  <2> QED BY <2>1, <2>2 DEF ActiveTracked
<1>3. ASSUME NEW n \in Nodes, WorkerExits(n) PROVE ActiveTracked'
  <2>1. n \in InMap
      BY <1>3 DEF WorkerExits, Running, InMap
  <2>2. InMap' = InMap
      BY <1>3, <2>1, StopInMap DEF WorkerExits
  <2> QED BY <1>3, <1>a, <2>2 DEF WorkerExits, reloadVars, history
<1>4. CASE Signal
    BY <1>4, <1>a DEF Signal, reloadVars, history, InMap
<1>5. CASE Start \/ LeaveStop
    BY <1>5, ClearType DEF Start, LeaveStop, ActiveTracked
<1>6. CASE EnterReload
    BY <1>6, <1>a DEF EnterReload, history, InMap
<1>7. CASE ReadSettings \/ ListNodes \/ GetNode
    BY <1>7, <1>a, ReadsFrame
<1>8. ASSUME NEW n \in Nodes, Visit(n) PROVE ActiveTracked'
  <2>1. InMap' = InMap
      BY <1>8, StopInMap DEF Visit, TypeOK, InMap
  <2> QED BY <1>8, <1>a, <2>1 DEF Visit, history
<1>9. CASE FlushReplaced
  <2>1. cur \in Nodes /\ InMap' = InMap
      BY <1>9, MapType DEF FlushReplaced, TypeOK, InMap
  <2> QED BY <1>9, <1>a, <2>1, FlushType DEF FlushReplaced
<1>10. CASE ClearReplaced
    BY <1>10, ClearFrame DEF ActiveTracked
<1>11. CASE RestartWorker
    BY <1>11, <1>a, RestartFrame
<1>12. CASE StartMissing
    BY <1>12, <1>a, StartFrame
<1>13. CASE EnterStop \/ \E n \in Nodes : StopOne(n)
    BY <1>13 DEF EnterStop, StopOne, ActiveTracked
<1>14. CASE Done \/ UNCHANGED vars
    BY <1>14, <1>a DEF Done, vars, reloadVars, history, InMap
<1> QED BY <1>1, <1>2, <1>3, <1>4, <1>5, <1>6, <1>7, <1>8, <1>9, <1>10, <1>11, <1>12, <1>13, <1>14
    DEF Next, Handler, ReloadStep, StopStep
-----------------------------------------------------------------------------
(* What a Reload has read.                                                  *)

\* A read that has been overtaken leaves a pending handler.
LEMMA FreshStep ==
    ASSUME TypeOK, Control, Fresh, [Next]_vars
    PROVE  Fresh'
<1>a. ASSUME rpc' \notin Syncing \cup {"list"} PROVE Fresh'
    BY <1>a DEF Fresh
<1>b. ASSUME UNCHANGED <<row, interval, desired, want, pending, skipped>>,
             rpc' \in Syncing => rpc \in Syncing,
             rpc' \in Syncing \cup {"list"} => rpc \in Syncing \cup {"list"}
      PROVE  Fresh'
    BY <1>b DEF Fresh, Snapshot, Desired
<1>1. CASE Handler
  <2>1. CASE pending' # 0
      BY <2>1 DEF Fresh
  <2>2. CASE pending' = 0
    <3>1. /\ UNCHANGED <<interval, pending, rpc, desired, want>> /\ skipped \subseteq skipped'
          /\ \A n \in Nodes \ skipped' : row'[n] = row[n]
        BY <1>1, <2>2, HandlerFrame
    <3>2. \A n \in Nodes \ skipped' : (n \in Desired' <=> n \in Desired)
        BY <3>1 DEF Desired
    <3> QED BY <2>2, <3>1, <3>2 DEF Fresh, Snapshot
  <2> QED BY <2>1, <2>2
<1>2. ASSUME NEW n \in Nodes, FlushTick(n) \/ WorkerExits(n) PROVE Fresh'
    BY <1>2, <1>b DEF FlushTick, WorkerExits, tables, reloadVars, history
<1>3. CASE Signal \/ Done \/ UNCHANGED vars
    BY <1>3, <1>b DEF Signal, Done, vars, tables, reloadVars, history
<1>4. CASE Start \/ EnterStop \/ LeaveStop
    BY <1>4, <1>a DEF Start, EnterStop, LeaveStop, Syncing, Visiting
<1>5. ASSUME NEW n \in Nodes, StopOne(n) PROVE Fresh'
    BY <1>5, <1>a DEF StopOne, Syncing, Visiting
<1>6. CASE EnterReload
    BY <1>6, <1>a DEF EnterReload, Syncing, Visiting
<1>7. CASE ReadSettings
    BY <1>7, <1>a DEF ReadSettings, Return, Fresh, Syncing, Visiting, tables
<1>8. CASE ListNodes
  <2>1. CASE rpc' = "free"
      BY <1>8, <2>1, <1>a DEF Syncing, Visiting
  <2>2. CASE rpc' # "free"
    <3>1. desired' = [n \in Desired |-> row[n].cfg] /\ rpc = "list"
          /\ UNCHANGED <<row, interval, want, pending>>
        BY <1>8, <2>2 DEF ListNodes, Return, tables
    <3>2. Desired' = Desired /\ \A n \in Nodes : Snapshot(n)'
        BY <3>1 DEF Desired, Snapshot
    <3> QED BY <3>1, <3>2 DEF Fresh
  <2> QED BY <2>1, <2>2
<1>9. ASSUME NEW n \in Nodes, Visit(n) PROVE Fresh'
    BY <1>9, <1>b DEF Visit, tables, history, Syncing, Visiting
<1>10. CASE GetNode
    BY <1>10, <1>a, <1>b DEF GetNode, Return, tables, Syncing, Visiting
<1>11. CASE FlushReplaced
    BY <1>11, <1>b DEF FlushReplaced, tables, Syncing, Visiting
<1>12. CASE ClearReplaced
    BY <1>12, <1>a, <1>b, ClearFrame DEF tables, Syncing, Visiting
<1>13. CASE RestartWorker
    BY <1>13, <1>b, RestartFrame DEF tables, Syncing, Visiting
<1>14. CASE StartMissing
    BY <1>14, <1>a, StartFrame DEF Syncing, Visiting
<1> QED BY <1>1, <1>2, <1>3, <1>4, <1>5, <1>6, <1>7, <1>8, <1>9, <1>10, <1>11, <1>12, <1>13, <1>14
    DEF Next, Handler, ReloadStep, StopStep
-----------------------------------------------------------------------------
(* What the loop of a Reload has done.                                      *)

\* The loop goes on without losing a worker that is wanted.
LEMMA ProgressStep ==
    ASSUME TypeOK, Control, Progress, [Next]_vars
    PROVE  Progress'
<1> USE DEF Syncing, Visiting
<1>a. ASSUME ~Good' PROVE Progress'
    BY <1>a DEF Progress
<1>b. ASSUME Good' => Good, UNCHANGED <<worker, desired, want>>, UNCHANGED <<todo, cur, rpc>> PROVE Progress'
    BY <1>b DEF Progress, Visited, InMap
<1>c. ASSUME Good' => Good, UNCHANGED worker, rpc' \notin Syncing, cur = NoWorker PROVE Progress'
    BY <1>c, MapType DEF Progress, InMap
<1>1. CASE Handler
    BY <1>1, <1>b, HandlerFrame DEF Good
<1>2. ASSUME NEW n \in Nodes, FlushTick(n) PROVE Progress'
    BY <1>2, <1>b DEF FlushTick, reloadVars, history, Good
<1>3. ASSUME NEW n \in Nodes, WorkerExits(n) PROVE Progress'
    BY <1>3, <1>a DEF WorkerExits, Good
<1>4. CASE Signal \/ EnterStop
    BY <1>4, <1>a DEF Signal, EnterStop, Good
<1>5. CASE Start
    BY <1>5, <1>a DEF Start, Control, Progress, InMap
<1>6. CASE EnterReload
    BY <1>6, <1>c, <1>b DEF EnterReload, history, Good, TypeOK
<1>7. CASE ReadSettings
  <2>1. CASE rpc' = "free"
      BY <1>7, <2>1, <1>a, ReadsFrame DEF Good
  <2>2. CASE rpc' # "free"
      BY <1>7, <2>2, <1>c DEF ReadSettings, Return, Good, TypeOK
  <2> QED BY <2>1, <2>2
<1>8. CASE ListNodes
  <2>1. CASE rpc' = "free"
      BY <1>8, <2>1, <1>a, ReadsFrame DEF Good
  <2>2. CASE rpc' # "free"
      BY <1>8, <2>2 DEF ListNodes, Return, Good, Progress, InMap
  <2> QED BY <2>1, <2>2
<1>9. ASSUME NEW n \in Nodes, Visit(n) PROVE Progress'
  <2>1. n \in InMap /\ todo' = todo \ {n} /\ rpc = "sync" /\ cur = NoWorker
        /\ UNCHANGED <<desired, want>> /\ (Good' => Good)
      BY <1>9 DEF Visit, TypeOK, Good, history
  <2>2. CASE UNCHANGED <<worker, cur, rpc>>
    <3>1. n \in DOMAIN desired /\ desired[n] = worker[n].cfg /\ worker[n].interval = want
        BY <1>9, <2>1, <2>2, MapType DEF Visit, Outdated
    <3>2. Good => Visited(n)
        BY <2>1, <3>1, MapType DEF Progress, Visited
    <3> QED BY <2>1, <2>2, <3>2 DEF Progress, Visited, InMap
  <2>3. CASE worker' = [worker EXCEPT ![n].run = FALSE] /\ cur' = n
    <3>1. /\ InMap' = InMap /\ worker'[n].cfg = worker[n].cfg
          /\ \A m \in Nodes \ {n} : worker'[m] = worker[m]
        BY <2>1, <2>3, StopInMap
    <3>2. rpc' = "restart" => n \in DOMAIN desired /\ worker[n].cfg = desired[n]
        BY <1>9, <2>1 DEF Visit, Outdated
    <3>3. ASSUME Good' PROVE \A m \in InMap' : m # cur' => worker'[m].run
        BY <3>3, <2>1, <2>3, <3>1, MapType DEF Progress
    <3>4. ASSUME Good' PROVE \A m \in InMap' \ todo' : m # cur' => Visited(m)'
        BY <3>4, <2>1, <2>3, <3>1, MapType DEF Progress, Visited
    <3> QED BY <2>1, <2>3, <3>1, <3>2, <3>3, <3>4 DEF Progress
  <2> QED BY <1>9, <2>2, <2>3 DEF Visit
<1>10. CASE GetNode
  <2>1. CASE rpc' = "free"
      BY <1>10, <2>1, <1>a, ReadsFrame DEF Good
  <2>2. CASE rpc' # "free"
    <3>1. rpc = "getnode" /\ rpc' \in {"flush", "clear"}
          /\ UNCHANGED <<hub, worker, todo, cur, desired, want, failed>>
        BY <1>10, <2>2 DEF GetNode, Return
    <3> QED BY <3>1 DEF Good, Progress, Visited, InMap
  <2> QED BY <2>1, <2>2
<1>11. CASE FlushReplaced
  <2>1. failed \subseteq failed'
      BY <1>11, MapType, FlushType DEF FlushReplaced, TypeOK
  <2> QED BY <1>11, <2>1 DEF FlushReplaced, Good, Progress, Visited, InMap
<1>12. CASE ClearReplaced
  <2>1. CASE rpc' = "free"
      BY <1>12, <2>1, <1>a, ClearFrame DEF Good
  <2>2. CASE rpc' # "free"
    <3>1. /\ rpc' = "sync" /\ UNCHANGED <<todo, desired, want, failed, hub>>
          /\ InMap' = InMap \ {cur} /\ \A n \in Nodes \ {cur} : worker'[n] = worker[n]
          /\ rpc = "clear"
        BY <1>12, <2>2, ClearFrame
    <3> QED BY <3>1, MapType DEF Good, Progress, Visited
  <2> QED BY <2>1, <2>2
<1>13. CASE RestartWorker
  <2>1. Good' => Good
      BY <1>13, RestartFrame DEF Good
  <2>2. ASSUME Good', NEW n \in InMap', n # cur' PROVE worker'[n].run
      BY <2>1, <2>2, <1>13, RestartFrame, MapType DEF Progress
  <2>3. ASSUME Good', NEW n \in InMap' \ todo', n # cur' PROVE Visited(n)'
      BY <2>1, <2>3, <1>13, RestartFrame, MapType DEF Progress, Visited
  <2> QED BY <2>2, <2>3, <1>13, RestartFrame DEF Progress
<1>14. CASE StartMissing
  <2>1. ASSUME Good', NEW n \in InMap' PROVE worker'[n].run
    <3>1. Good /\ n \in Nodes /\ worker'[n] # NoWorker
        BY <1>14, <2>1, StartFrame DEF Good, InMap
    <3>2. CASE n \in InMap
        BY <1>14, <3>1, <3>2, StartFrame, MapType DEF Progress
    <3>3. CASE n \notin InMap
      <4>1. worker'[n] = [run |-> TRUE, cfg |-> desired[n], interval |-> want]
          BY <1>14, <2>1, <3>1, <3>3, StartFrame DEF Good
      <4> QED BY <4>1
    <3> QED BY <3>2, <3>3
  <2> QED BY <2>1, <1>14, StartFrame DEF Progress
<1>15. CASE LeaveStop \/ \E n \in Nodes : StopOne(n)
    BY <1>15, <1>a DEF LeaveStop, StopOne, Control, Good
<1>16. CASE Done \/ UNCHANGED vars
    BY <1>16, <1>b DEF Done, vars, reloadVars, history, Good
<1> QED BY <1>1, <1>2, <1>3, <1>4, <1>5, <1>6, <1>7, <1>8, <1>9, <1>10, <1>11, <1>12, <1>13, <1>14, <1>15, <1>16
    DEF Next, Handler, ReloadStep, StopStep

\* A Reload that has done all its calls leaves the workers the tables want, unless a
\* handler is waiting to call it again.
LEMMA MatchStep ==
    ASSUME TypeOK, Control, Fresh, Progress, WorkersMatchNodes, [Next]_vars
    PROVE  WorkersMatchNodes'
<1>a. ASSUME ~Quiet' \/ ~(failed' \subseteq {"flush"}) PROVE WorkersMatchNodes'
    BY <1>a DEF WorkersMatchNodes
<1>b. ASSUME Quiet' /\ failed' \subseteq {"flush"} => Quiet /\ failed \subseteq {"flush"},
             UNCHANGED <<interval, worker>>, skipped \subseteq skipped',
             \A n \in Nodes \ skipped' : row'[n] = row[n]
      PROVE  WorkersMatchNodes'
    BY <1>b DEF WorkersMatchNodes, InSync, Running, Desired
<1>1. CASE Handler
  <2>1. CASE pending' # 0
      BY <2>1, <1>a DEF Quiet
  <2>2. CASE pending' = 0
      BY <1>1, <2>2, <1>b, HandlerFrame DEF Quiet
  <2> QED BY <2>1, <2>2
<1>2. ASSUME NEW n \in Nodes, FlushTick(n) PROVE WorkersMatchNodes'
    BY <1>2, <1>b DEF FlushTick, tables, reloadVars, history, Quiet
<1>3. ASSUME NEW n \in Nodes, WorkerExits(n) PROVE WorkersMatchNodes'
    BY <1>3, <1>a DEF WorkerExits, Quiet
<1>4. CASE Signal \/ Start \/ EnterStop
    BY <1>4, <1>a DEF Signal, Start, EnterStop, Quiet
<1>5. CASE EnterReload
    BY <1>5, <1>a DEF EnterReload, Quiet
<1>6. CASE ReadSettings \/ ListNodes \/ GetNode
    BY <1>6, <1>a, ReadsFrame DEF Quiet
<1>7. ASSUME NEW n \in Nodes, Visit(n) PROVE WorkersMatchNodes'
    BY <1>7, <1>a DEF Visit, Quiet
<1>8. CASE FlushReplaced \/ RestartWorker
    BY <1>8, <1>a DEF FlushReplaced, RestartWorker, Quiet
<1>9. CASE ClearReplaced
    BY <1>9, <1>a, ClearFrame DEF Quiet
<1>10. CASE StartMissing
  <2> SUFFICES ASSUME Quiet', failed' \subseteq {"flush"}, NEW n \in Nodes \ skipped'
               PROVE  InSync(n)'
      BY DEF WorkersMatchNodes
  <2>1. /\ Good /\ pending = 0 /\ UNCHANGED skipped /\ rpc = "sync" /\ todo = {} /\ cur = NoWorker
        /\ UNCHANGED <<row, interval>> /\ Desired' = Desired
    <3>1. /\ UNCHANGED <<row, interval, hub, pending, skipped>> /\ failed \subseteq failed'
          /\ rpc = "sync" /\ todo = {} /\ cur = NoWorker
        BY <1>10, StartFrame DEF tables
    <3>2. Good /\ pending = 0
        BY <3>1 DEF Quiet, Good
    <3> QED BY <3>1, <3>2 DEF Desired
  <2>2. want = interval /\ (n \in DOMAIN desired <=> n \in Desired) /\ (n \in Desired => desired[n] = row[n].cfg)
      BY <2>1 DEF Fresh, Syncing, Snapshot
  <2>3. CASE n \in InMap
    <3>1. Visited(n) /\ worker'[n] = worker[n] /\ worker[n] # NoWorker
        BY <1>10, <2>1, <2>3, StartFrame, MapType DEF Progress, Syncing, InMap
    <3> QED BY <2>1, <2>2, <3>1 DEF InSync, Running, Visited
  <2>4. CASE n \notin InMap /\ n \in Desired
    <3>1. worker'[n] = [run |-> TRUE, cfg |-> row[n].cfg, interval |-> interval]
        BY <1>10, <2>2, <2>4, StartFrame
    <3>2. worker'[n] # NoWorker
      <4>1. worker'[n] \in Workers
          BY <2>4, <3>1, WantedRow DEF TypeOK, Workers
      <4> QED BY <4>1, MapType
    <3>3. worker'[n].run /\ worker'[n].cfg = row[n].cfg /\ worker'[n].interval = interval
        BY <3>1
    <3> QED BY <2>1, <2>4, <3>2, <3>3 DEF InSync, Running
  <2>5. CASE n \notin InMap /\ n \notin Desired
    <3>1. worker'[n] = NoWorker
        BY <1>10, <2>2, <2>5, StartFrame
    <3> QED BY <2>1, <2>5, <3>1 DEF InSync, Running
  <2> QED BY <2>3, <2>4, <2>5
<1>11. CASE LeaveStop \/ \E n \in Nodes : StopOne(n)
    BY <1>11, <1>a DEF LeaveStop, StopOne, Control, Quiet
<1>12. CASE Done \/ UNCHANGED vars
    BY <1>12, <1>b DEF Done, vars, tables, reloadVars, history, Quiet
<1> QED BY <1>1, <1>2, <1>3, <1>4, <1>5, <1>6, <1>7, <1>8, <1>9, <1>10, <1>11, <1>12
    DEF Next, Handler, ReloadStep, StopStep
-----------------------------------------------------------------------------
(* The theorems.                                                            *)

\* The inductive invariant of the hub.
LEMMA Invariance == Spec => []IInv
<1>1. Init => IInv
  <2> SUFFICES ASSUME Init PROVE IInv
      OBVIOUS
  <2>1. hub = "off" /\ rpc = "free"
      BY DEF Init
  <2> QED BY <2>1, TypeInit, ControlInit
          DEF IInv, ActiveTracked, Fresh, Progress, Good, WorkersMatchNodes, Quiet, Syncing, Visiting
<1>2. IInv /\ [Next]_vars => IInv'
    BY TypeStep, ControlStep, ActiveStep, FreshStep, ProgressStep, MatchStep DEF IInv
<1> QED BY <1>1, <1>2, PTL DEF Spec

\* The hub's variables keep their types through every interleaving of handlers, ticks,
\* Reload, Start, Stop and the signal, and Reload and Stop visit only workers in the map.
THEOREM HubTypes == Spec => []TypeOK
<1>1. IInv => TypeOK
    BY DEF IInv
<1> QED BY <1>1, Invariance, PTL

\* Between Reloads the running workers are exactly the wanted nodes, as wanted, whatever
\* handlers committed in the middle of one.
THEOREM ReloadsConverge == Spec => []WorkersMatchNodes
<1>1. IInv => WorkersMatchNodes
    BY DEF IInv
<1> QED BY <1>1, Invariance, PTL

\* Start, Reload and Stop leave no active ip_stats row without a worker to bring it down.
THEOREM ActiveRowsHaveWorkers == Spec => []NoActiveWithoutWorker
<1>1. IInv => NoActiveWithoutWorker
    BY DEF IInv, ActiveTracked, NoActiveWithoutWorker
<1> QED BY <1>1, Invariance, PTL

\* After Stop no Reload of a handler in flight brings a worker back.
THEOREM StopIsFinal == Spec => []StoppedForGood
<1>1. IInv => StoppedForGood
    BY DEF IInv
<1> QED BY <1>1, Invariance, PTL
==============================================================================
