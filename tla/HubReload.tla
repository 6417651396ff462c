------------------------------ MODULE HubReload ------------------------------
(***************************************************************************)
(* sampler.Hub and its map of workers, against the nodes table.            *)
(*                                                                         *)
(* API handlers commit a change of a node or of the settings and then call  *)
(* Hub.Reload; Reload, holding h.mu, reads the settings and the nodes and   *)
(* brings the worker set in line with them, one store call and one Worker   *)
(* at a time, while other handlers go on committing. Hub.Start and Hub.Stop *)
(* bracket it, and the process's context may be cancelled by a signal at    *)
(* any moment. What a worker samples is the subject of Sampler; here it is  *)
(* running or stopped, and active[n] tells whether some ip_stats row of n    *)
(* has active_connections # 0.                                              *)
(*                                                                          *)
(* api_url and api_secret_enc are one value, cfg: a worker is replaced when  *)
(* either changes. NoAPI is the empty api_url of an imported node.           *)
(***************************************************************************)
EXTENDS Naturals, FiniteSets

CONSTANTS
    Nodes,       \* node ids (UUIDs: never used again after a delete)
    Cfgs,        \* values of (api_url, api_secret_enc)
    NoAPI,       \* the cfg of a node without Clash API
    Intervals,   \* values of settings.sampler_interval_seconds
    NoWorker,    \* no entry in h.workers
    MayFail,     \* store calls that may fail
    ImportFails, \* whether a config import after a committed write may fail
    MaxChanges   \* bound: committed node and settings changes

Calls == {"settings", "list", "getnode", "flush", "clear", "decrypt"}

ASSUME FleetAssumption ==
    /\ NoAPI \notin Cfgs
    /\ MaxChanges \in Nat /\ MayFail \subseteq Calls /\ ImportFails \in BOOLEAN
    /\ Intervals # {}

Gone == [exists |-> FALSE]
Rows == [exists : {TRUE}, enabled : BOOLEAN, cfg : Cfgs \cup {NoAPI}]
Workers == [run : BOOLEAN, cfg : Cfgs, interval : Intervals]

\* A missing entry of the map is neither a worker nor a node id.
ASSUME NoWorkerAssumption == NoWorker \notin Workers \cup Nodes

VARIABLES
    row,       \* nodes table; Gone before the insert and after the delete
    born,      \* ids that have been handed out
    interval,  \* settings.sampler_interval_seconds
    active,    \* some ip_stats row of the node is active
    hub,       \* "off", "up", "cancelled" (its context is done) or "stopped"
    serving,   \* Start has returned: handlers and flush ticks may run
    worker,    \* h.workers
    rpc,       \* program counter of the holder of h.mu; "free": nobody
    todo,      \* workers the loop of Reload or Stop has yet to visit
    cur,       \* the worker it is visiting
    desired,   \* Reload's snapshot of the wanted nodes
    want,      \* Reload's snapshot of the interval
    pending,   \* handlers that have committed and not yet called Reload
    \* --- history, read by properties only ---
    changes,   \* committed changes
    failed,    \* store calls that have failed
    skipped,   \* nodes written without a Reload to follow, that no Reload has listed since
    clean      \* the last Reload ran to its end without an error

tables == <<row, born, interval>>
reloadVars == <<rpc, todo, cur, desired, want>>
history == <<changes, failed, skipped, clean>>
vars == <<tables, active, hub, serving, worker, reloadVars, pending, history>>
-----------------------------------------------------------------------------
InMap == {n \in Nodes : worker[n] # NoWorker}
Running(n) == worker[n] # NoWorker /\ worker[n].run

\* Mutant of Desired: nodes without a Clash API are wanted too.
DesiredAny == {n \in Nodes : row[n].exists /\ row[n].enabled}

\* Enabled, with a Clash API: the nodes Reload wants a worker for.
Desired == {n \in Nodes : row[n].exists /\ row[n].enabled /\ row[n].cfg # NoAPI}

\* The panel starts over a database that an earlier process may have left in
\* any state, active rows included.
Init ==
    /\ row \in [Nodes -> {Gone} \cup Rows]
    /\ born = {n \in Nodes : row[n].exists}
    /\ interval \in Intervals
    /\ active \in [Nodes -> BOOLEAN]
    /\ \A n \in Nodes : active[n] => row[n].exists
    /\ hub = "off" /\ serving = FALSE
    /\ worker = [n \in Nodes |-> NoWorker]
    /\ rpc = "free" /\ todo = {} /\ cur = NoWorker
    /\ desired = [n \in {} |-> NoAPI] /\ want = interval
    /\ pending = 0
    /\ changes = 0 /\ failed = {} /\ skipped = {} /\ clean = FALSE
-----------------------------------------------------------------------------
(* Handlers. The panel serves once Hub.Start has returned; a signal closes  *)
(* its listener, but the handlers in flight go on.                          *)

\* Mutant of Committed: the handlers do not call Reload.
CommittedSilently(touched) ==
    /\ serving /\ hub \in {"up", "cancelled"} /\ changes < MaxChanges
    /\ changes' = changes + 1
    /\ UNCHANGED <<pending, skipped>>

\* After the commit the handler will call Reload, unless the commit is followed by the import
\* of a remote configuration, or is part of one, and that fails: then it returns at once.
Committed(touched) ==
    /\ serving /\ hub \in {"up", "cancelled"} /\ changes < MaxChanges
    /\ changes' = changes + 1
    /\ \/ pending' = pending + 1 /\ UNCHANGED skipped
       \/ touched # {} /\ ImportFails /\ skipped' = skipped \cup touched /\ UNCHANGED pending

CreateNode(n) ==
    /\ n \notin born
    /\ born' = born \cup {n}
    /\ \E r \in Rows : row' = [row EXCEPT ![n] = r]
    /\ Committed({n})
    /\ UNCHANGED <<interval, active, hub, serving, worker, reloadVars, failed, clean>>

UpdateNode(n) ==
    /\ row[n].exists
    /\ \E r \in Rows \ {row[n]} : row' = [row EXCEPT ![n] = r]
    /\ Committed({n})
    /\ UNCHANGED <<born, interval, active, hub, serving, worker, reloadVars, failed, clean>>

\* DELETE of a node, or of a child its parent's import drops; ip_stats rows go with it
\* (ON DELETE CASCADE).
DeleteNode(n) ==
    /\ row[n].exists
    /\ row' = [row EXCEPT ![n] = Gone]
    /\ active' = [active EXCEPT ![n] = FALSE]
    /\ Committed({n})
    /\ UNCHANGED <<born, interval, hub, serving, worker, reloadVars, failed, clean>>

UpdateSettings ==
    /\ \E i \in Intervals \ {interval} : interval' = i
    /\ Committed({})
    /\ UNCHANGED <<row, born, active, hub, serving, worker, reloadVars, failed, clean>>

\* The ICMP monitor disables a node that no longer answers. It calls no Reload: imported
\* nodes, the ones it pings, have no worker unless they were given an api_url. main stops it
\* after the hub.
AutoDisable(n) ==
    /\ serving /\ changes < MaxChanges
    /\ row[n].exists /\ row[n].enabled
    /\ row' = [row EXCEPT ![n].enabled = FALSE]
    /\ changes' = changes + 1 /\ skipped' = skipped \cup {n}
    /\ UNCHANGED <<born, interval, active, hub, serving, worker, reloadVars, pending, failed, clean>>
-----------------------------------------------------------------------------
(* The flush tick, under the shared lock: only when no Reload or Stop holds  *)
(* h.mu, and also after the context is done, when the loop's select may still *)
(* take a tick. A running worker's rows become whatever it sees; a stopped    *)
(* one has only zeros left. Without the node row the foreign key refuses.     *)

FlushTick(n) ==
    /\ rpc = "free" /\ hub # "off" /\ n \in InMap /\ row[n].exists
    /\ \E v \in BOOLEAN :
          /\ v => worker[n].run
          /\ active' = [active EXCEPT ![n] = v]
    /\ UNCHANGED <<tables, hub, serving, worker, reloadVars, pending, history>>

\* SIGINT or SIGTERM: the context of the hub and of every worker is done.
Signal ==
    /\ hub = "up"
    /\ hub' = "cancelled"
    /\ UNCHANGED <<tables, active, serving, worker, reloadVars, pending, history>>

\* A worker whose context is done leaves its loop by itself.
WorkerExits(n) ==
    /\ hub = "cancelled" /\ Running(n)
    /\ worker' = [worker EXCEPT ![n].run = FALSE]
    /\ UNCHANGED <<tables, active, hub, serving, reloadVars, pending, history>>
-----------------------------------------------------------------------------
(* Reload.                                                                  *)

\* Leave Reload and release h.mu. Start and the handlers only log the error;
\* after Start the panel serves.
Return(ok) ==
    /\ rpc' = "free" /\ todo' = {} /\ cur' = NoWorker
    /\ desired' = [n \in {} |-> NoAPI] /\ want' = interval
    /\ clean' = ok /\ serving' = TRUE

Fails(call) == call \in MayFail /\ failed' = failed \cup {call}

\* Mutant of EnterReload: the hub's context is not looked at.
EnterReloadAnyway ==
    /\ rpc = "free" /\ pending > 0
    /\ pending' = pending - 1
    /\ rpc' = "settings"
    /\ UNCHANGED <<tables, active, hub, serving, worker, todo, cur, desired, want, history>>

\* h.mu is taken. Without a live context there is nothing to do.
EnterReload ==
    /\ rpc = "free" /\ pending > 0
    /\ pending' = pending - 1
    /\ IF hub = "up" THEN rpc' = "settings" ELSE UNCHANGED rpc
    /\ UNCHANGED <<tables, active, hub, serving, worker, todo, cur, desired, want, history>>

ReadSettings ==
    /\ rpc = "settings"
    /\ \/ /\ want' = interval /\ rpc' = "list"
          /\ UNCHANGED <<todo, cur, desired, failed, clean, serving>>
       \/ Fails("settings") /\ Return(FALSE)
    /\ UNCHANGED <<tables, active, hub, worker, pending, changes, skipped>>

ListNodes ==
    /\ rpc = "list"
    /\ \/ /\ desired' = [n \in Desired |-> row[n].cfg]
          /\ todo' = InMap /\ rpc' = "sync" /\ skipped' = {}
          /\ UNCHANGED <<cur, want, failed, clean, serving>>
       \/ Fails("list") /\ Return(FALSE) /\ UNCHANGED skipped
    /\ UNCHANGED <<tables, active, hub, worker, pending, changes>>

\* Mutant of Outdated: a change of address or secret goes unnoticed.
OutdatedIfUnwanted(n) == n \notin DOMAIN desired

\* The worker is not wanted any more, or not with this configuration.
Outdated(n) == n \notin DOMAIN desired \/ desired[n] # worker[n].cfg

\* Next worker of the loop, in the order of a Go map: stop it, or pass over it.
Visit(n) ==
    /\ rpc = "sync" /\ n \in todo
    /\ todo' = todo \ {n}
    /\ IF Outdated(n)
       THEN /\ worker' = [worker EXCEPT ![n].run = FALSE]
            /\ cur' = n /\ rpc' = "getnode"
       ELSE IF worker[n].interval # want
       THEN /\ worker' = [worker EXCEPT ![n].run = FALSE]
            /\ cur' = n /\ rpc' = "restart"
       ELSE UNCHANGED <<worker, cur, rpc>>
    /\ UNCHANGED <<tables, active, hub, serving, desired, want, pending, history>>

\* GetNode tells whether the rows to flush into still exist.
GetNode ==
    /\ rpc = "getnode"
    /\ \/ /\ rpc' = IF row[cur].exists THEN "flush" ELSE "clear"
          /\ UNCHANGED <<todo, cur, desired, want, failed, clean, serving>>
       \/ Fails("getnode") /\ Return(FALSE)
    /\ UNCHANGED <<tables, active, hub, worker, pending, changes, skipped>>

\* flushWorker of a stopped worker writes zeros; its errors are logged, and a
\* node deleted since makes it one.
FlushStopped(n) ==
    \/ /\ row[n].exists /\ active' = [active EXCEPT ![n] = FALSE] /\ UNCHANGED failed
    \/ ~row[n].exists /\ UNCHANGED <<active, failed>>
    \/ Fails("flush") /\ UNCHANGED active

FlushReplaced ==
    /\ rpc = "flush"
    /\ FlushStopped(cur)
    /\ rpc' = "clear"
    /\ UNCHANGED <<tables, hub, serving, worker, todo, cur, desired, want, pending, changes, skipped, clean>>

\* ClearActiveIPs(id), then delete(h.workers, id); an error returns before it.
ClearReplaced ==
    /\ rpc = "clear"
    /\ \/ /\ active' = [active EXCEPT ![cur] = FALSE]
          /\ worker' = [worker EXCEPT ![cur] = NoWorker]
          /\ cur' = NoWorker /\ rpc' = "sync"
          /\ UNCHANGED <<todo, desired, want, failed, clean, serving>>
       \/ Fails("clear") /\ Return(FALSE) /\ UNCHANGED <<active, worker>>
    /\ UNCHANGED <<tables, hub, pending, changes, skipped>>

\* The interval changed: flush, and start the same worker again.
RestartWorker ==
    /\ rpc = "restart"
    /\ FlushStopped(cur)
    /\ worker' = [worker EXCEPT ![cur].run = TRUE, ![cur].interval = want]
    /\ cur' = NoWorker /\ rpc' = "sync"
    /\ UNCHANGED <<tables, hub, serving, todo, desired, want, pending, changes, skipped, clean>>

\* The loop is over: a worker for every wanted node that has none, unless its
\* secret cannot be decrypted.
StartMissing ==
    /\ rpc = "sync" /\ todo = {}
    /\ \E sealed \in SUBSET (DOMAIN desired \ InMap) :
          /\ IF sealed = {} THEN UNCHANGED failed ELSE Fails("decrypt")
          /\ worker' = [n \in Nodes |->
                IF n \in DOMAIN desired \ sealed /\ n \notin InMap
                THEN [run |-> TRUE, cfg |-> desired[n], interval |-> want]
                ELSE worker[n]]
    /\ Return(TRUE)
    /\ UNCHANGED <<tables, active, hub, pending, changes, skipped>>

ReloadStep ==
    \/ EnterReload \/ ReadSettings \/ ListNodes \/ \E n \in Nodes : Visit(n)
    \/ GetNode \/ FlushReplaced \/ ClearReplaced \/ RestartWorker \/ StartMissing
-----------------------------------------------------------------------------
(* Hub.Start and Hub.Stop.                                                  *)

\* Mutant of ClearAll: Start and Stop leave the rows as they are.
ClearNothing == UNCHANGED <<active, failed>>

\* ClearActiveIPs(""): an error is only logged.
ClearAll ==
    \/ active' = [n \in Nodes |-> FALSE] /\ UNCHANGED failed
    \/ Fails("clear") /\ UNCHANGED active

\* Start clears what the last process left and calls Reload.
Start ==
    /\ hub = "off"
    /\ ClearAll
    /\ hub' = "up" /\ rpc' = "settings"
    /\ UNCHANGED <<tables, serving, worker, todo, cur, desired, want, pending, changes, skipped, clean>>

\* The server has returned, on the signal or on an error of its listener: Stop
\* takes h.mu and cancels the context.
EnterStop ==
    /\ hub \in {"up", "cancelled"} /\ rpc = "free"
    /\ hub' = "stopped" /\ rpc' = "stopping" /\ todo' = InMap
    /\ UNCHANGED <<tables, active, serving, worker, cur, desired, want, pending, history>>

\* Stop, flush and delete one worker.
StopOne(n) ==
    /\ rpc = "stopping" /\ n \in todo
    /\ todo' = todo \ {n}
    /\ FlushStopped(n)
    /\ worker' = [worker EXCEPT ![n] = NoWorker]
    /\ UNCHANGED <<tables, hub, serving, rpc, cur, desired, want, pending, changes, skipped, clean>>

LeaveStop ==
    /\ rpc = "stopping" /\ todo = {}
    /\ ClearAll
    /\ rpc' = "free"
    /\ UNCHANGED <<tables, hub, serving, worker, todo, cur, desired, want, pending, changes, skipped, clean>>

StopStep == EnterStop \/ LeaveStop \/ \E n \in Nodes : StopOne(n)

\* After Stop the process ends; handlers that are still waiting for h.mu may
\* get it first.
Done ==
    /\ hub = "stopped" /\ rpc = "free" /\ pending = 0
    /\ UNCHANGED vars

Next ==
    \/ \E n \in Nodes : CreateNode(n) \/ UpdateNode(n) \/ DeleteNode(n)
                        \/ AutoDisable(n) \/ FlushTick(n) \/ WorkerExits(n)
    \/ UpdateSettings \/ Signal \/ Start \/ ReloadStep \/ StopStep \/ Done

Spec == Init /\ [][Next]_vars

\* A handler that committed calls Reload, h.mu is handed on, store calls return.
\* Nobody is obliged to signal the panel.
FairSpec == Spec /\ WF_vars(Start) /\ WF_vars(ReloadStep)
-----------------------------------------------------------------------------
(* Properties.                                                              *)

\* Every variable keeps its type, and the loops visit only workers in the map.
TypeOK ==
    /\ row \in [Nodes -> {Gone} \cup Rows] /\ born \subseteq Nodes
    /\ interval \in Intervals /\ active \in [Nodes -> BOOLEAN]
    /\ hub \in {"off", "up", "cancelled", "stopped"} /\ serving \in BOOLEAN
    /\ worker \in [Nodes -> {NoWorker} \cup Workers]
    /\ rpc \in {"free", "settings", "list", "sync", "getnode", "flush", "clear",
                "restart", "stopping"}
    /\ todo \subseteq InMap
    /\ IF rpc \in {"getnode", "flush", "clear", "restart"} THEN cur \in InMap ELSE cur = NoWorker
    /\ DOMAIN desired \subseteq Nodes /\ \A n \in DOMAIN desired : desired[n] \in Cfgs
    /\ want \in Intervals
    /\ pending \in Nat /\ changes \in Nat
    /\ failed \subseteq Calls /\ skipped \subseteq Nodes /\ clean \in BOOLEAN

\* Node n is sampled exactly when the table wants it, as the table wants it.
InSync(n) ==
    /\ Running(n) <=> n \in Desired
    /\ Running(n) => worker[n].cfg = row[n].cfg /\ worker[n].interval = interval

Quiet == hub = "up" /\ rpc = "free" /\ pending = 0

\* Between Reloads the running workers are exactly the enabled nodes with a
\* Clash API, with their current address, secret and interval, although other
\* handlers commit in the middle of a Reload: whatever its two reads have missed
\* belongs to a handler whose own Reload is still to come. The exceptions are a store
\* call of some Reload that failed, and nodes written since the last Reload by a handler
\* whose import failed or by the monitor, which call none; the next Reload makes up for it.
WorkersMatchNodes ==
    Quiet /\ failed \subseteq {"flush"} => \A n \in Nodes \ skipped : InSync(n)

\* No ip_stats row stays active without a worker to bring it down: not after
\* Start over a crashed process's rows, not after a node was disabled or
\* replaced, not after Stop; a failing ClearActiveIPs is the only exception.
NoActiveWithoutWorker ==
    hub # "off" /\ rpc = "free" /\ "clear" \notin failed =>
        \A n \in Nodes : active[n] => n \in InMap

\* Once Stop has returned no worker exists and none is started again, although
\* handlers in flight may still call Reload: h.ctx is done.
StoppedForGood == hub = "stopped" /\ rpc = "free" => InMap = {}

\* As long as the store answers Reload and the panel is not stopped, every committed change
\* reaches the sampler, however handlers and Reloads interleave. A change by a handler whose
\* import failed, or by the monitor, is let off until some Reload lists the nodes again (Reload
\* has no retry of its own); from then on it counts as well.
ChangesTakeEffect ==
    \A n \in Nodes :
        ~InSync(n) /\ hub = "up" ~> InSync(n) \/ n \in skipped \/ hub # "up"

\* "Reload re-syncs the worker set with enabled nodes": after a Reload that
\* returned no error the workers match, whatever an earlier Reload ran into.
CleanReloadSyncs ==
    Quiet /\ clean => \A n \in Nodes \ skipped : InSync(n)
==============================================================================
