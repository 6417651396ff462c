------------------------------- MODULE Sampler -------------------------------
(***************************************************************************)
(* One node of the panel, sampled.                                         *)
(*                                                                         *)
(*   node    the sing-box process: its table of open connections, read     *)
(*           through the /traffic and /connections WebSockets (external)   *)
(*   worker  sampler.Worker: the supervision loop, its two reader          *)
(*           goroutines and the accumulators guarded by w.mu               *)
(*   hub     sampler.Hub acting on this worker: the flush tick, the Reload  *)
(*           branches that restart or replace a worker, Stop, Start, and a  *)
(*           crash of the panel between any two of their steps             *)
(*   store   the rows of traffic_samples, traffic_rollup and ip_stats of   *)
(*           this node; each store call is one transaction that may fail   *)
(*                                                                         *)
(* The byte and connection counters of a source IP are sums over its       *)
(* connections, and the code only ever adds to them or moves them whole.   *)
(* The model keeps each summand: acc[c][m] is the part of                  *)
(* ipAcc[SourceIP[c]] that connection c contributed to meter m.            *)
(***************************************************************************)
EXTENDS Integers, FiniteSets

CONSTANTS
    Conns,          \* connection ids the node may ever hand out (UUIDs: used once)
    IPs,            \* client source addresses
    NoIP,           \* the empty metadata.sourceIP of a connection without one
    SourceIP,       \* the source address of each connection
    Dirs,           \* traffic directions
    TagKey,         \* the JSON key clash.TrafficMessage decodes for a direction
    WireKey,        \* the JSON key the node sends for a direction
    InitialBackoff, DoublingLimit, \* reconnect delays, in seconds
    BucketLen,      \* length of a bucket of each table, in clock units
    MaxTime,        \* bound: clock
    MaxRate,        \* bound: bytes of one /traffic frame, per direction
    MaxTraffic,     \* bound: bytes the /traffic frames carry in all, per direction
    MaxBytes,       \* bound: bytes a connection carries, per direction
    MaxResets,      \* bound: times a connection's counters restart from zero
    MaxOps,         \* bound: reloads, restarts, shutdowns and crashes of the panel
    MayFail         \* store calls that may fail

Rollups == {"minute", "hour", "day"}     \* traffic_rollup.interval
Tables == Rollups \cup {"sample"}        \* traffic_samples keeps one row per second
Meters == Dirs \cup {"conns"}            \* ip_stats columns that only grow
Readers == {"traffic", "connections"}
StoreCalls == {"getnode", "lastonline", "samples", "rollups", "ips", "clear"}

ASSUME ConnsAssumption == /\ IsFiniteSet(Conns) /\ IsFiniteSet(IPs)
                          /\ SourceIP \in [Conns -> IPs \cup {NoIP}]
                          /\ NoIP \notin IPs
ASSUME MetersAssumption == "conns" \notin Dirs
ASSUME BoundsAssumption ==
    /\ {MaxTime, MaxRate, MaxTraffic, MaxBytes, MaxResets, MaxOps} \subseteq Nat
    /\ {InitialBackoff, DoublingLimit} \subseteq Nat \ {0}
    /\ BucketLen \in [Tables -> Nat \ {0}]
    /\ MayFail \subseteq StoreCalls
\* A second is a whole clock unit, and every longer bucket is made of whole shorter ones.
ASSUME BucketsAssumption ==
    /\ BucketLen["sample"] = 1
    /\ \A fine, coarse \in Tables :
          BucketLen[fine] <= BucketLen[coarse] => BucketLen[coarse] % BucketLen[fine] = 0

VARIABLES
    \* --- node (external) ---
    life,       \* life[c]: "new", "open" or "closed"
    counter,    \* counter[c][d]: upload/download as the node reports it
    moved,      \* moved[c][d]: bytes c really carried (a reset does not clear it)
    resets,     \* counter resets so far
    \* --- worker ---
    wpc,        \* where the supervision goroutine is; "absent": no worker in the hub's map
    readers,    \* reader goroutines still running
    cancelled,  \* the worker's context
    backoff,    \* next reconnect delay
    online, rate,           \* w.state
    lastSeen,               \* w.lastSeen: connection -> counters at its last frame
    active,                 \* w.perIPActive (0: no entry)
    accKeys, acc,           \* w.ipAcc: its keys, and its values by connection
    sum, peak, maxConn,     \* w.sumUp/Down, w.peakUp/Down, w.maxConn
    \* --- hub ---
    hpc,        \* where the hub operation that owns the worker is
    op,         \* which operation: "tick", "restart", "replace" or "shutdown"
    batch,      \* what the last Drain returned
    now,        \* the clock flushes read
    \* --- store ---
    table,      \* table[t][bucket]: traffic_samples and traffic_rollup
    stored,     \* ip_stats byte and connection columns, by connection (ip_daily gets the
                \* same deltas in the same transaction)
    ipActive,   \* ip_stats.active_connections
    lastOnline, \* nodes.last_online_at
    \* --- history, read by properties only ---
    shown,      \* shown[c][m]: what frames have shown of c
    received,   \* bytes the /traffic frames carried
    workers,    \* worker objects created for this node
    failed,     \* store calls that have failed, and "crash" once the panel has crashed
    missed,     \* IPs whose row no store call has brought up to date since one failed
    ops         \* hub operations other than ticks, and crashes

nodeVars == <<life, counter, moved, resets>>
accVars == <<lastSeen, active, accKeys, acc>>
sumVars == <<sum, peak, maxConn>>
workerVars == <<wpc, readers, cancelled, backoff, online, rate, accVars, sumVars>>
hubVars == <<hpc, op, batch>>
storeVars == <<table, stored, ipActive, lastOnline>>
history == <<shown, received, workers, failed, missed, ops>>
vars == <<nodeVars, workerVars, hubVars, now, storeVars, history>>
-----------------------------------------------------------------------------
Max(a, b) == IF a > b THEN a ELSE b

ZeroMeters == [c \in Conns |-> [m \in Meters |-> 0]]
ZeroDirs == [d \in Dirs |-> 0]
ZeroIPs == [ip \in IPs |-> 0]
NoMarks == [c \in {} |-> ZeroDirs]
ZeroRow == [bytes |-> ZeroDirs, peak |-> ZeroDirs, conns |-> 0]

\* Mutant of Plus: the upsert overwrites the columns it should add to.
PlusOverwrites(f, g) == [c \in Conns |-> [m \in Meters |-> IF g[c][m] > 0 THEN g[c][m] ELSE f[c][m]]]

\* Pointwise sum of two splits of the per-IP counters.
Plus(f, g) == [c \in Conns |-> [m \in Meters |-> f[c][m] + g[c][m]]]

\* What Drain returns: nothing, or one sample, three rollups and the IP deltas.
Nothing(at) == [some |-> FALSE, at |-> at, row |-> ZeroRow, ips |-> {},
                acc |-> ZeroMeters, active |-> ZeroIPs]
NoBatch == Nothing(0)

\* Bucket of table t that holds second s: now - now % 60, 3600, 86400.
Bucket(t, s) == s - (s % BucketLen[t])

\* Mutant of UpsertRow: the peaks add up as well.
UpsertRowSumsPeaks(old, new) ==
    [bytes |-> [d \in Dirs |-> old.bytes[d] + new.bytes[d]],
     peak  |-> [d \in Dirs |-> old.peak[d] + new.peak[d]],
     conns |-> Max(old.conns, new.conns)]

\* ON CONFLICT DO UPDATE of both traffic tables: bytes add up, peaks take the maximum.
UpsertRow(old, new) ==
    [bytes |-> [d \in Dirs |-> old.bytes[d] + new.bytes[d]],
     peak  |-> [d \in Dirs |-> Max(old.peak[d], new.peak[d])],
     conns |-> Max(old.conns, new.conns)]

\* Mutant of UpsertRows: each transaction reads the clock again.
UpsertRowsLate(ts, b) ==
    [t \in Tables |->
        IF t \in ts
        THEN [table[t] EXCEPT ![Bucket(t, now)] = UpsertRow(@, b.row)]
        ELSE table[t]]

\* The tables ts after the row of batch b has been upserted into each of them.
UpsertRows(ts, b) ==
    [t \in Tables |->
        IF t \in ts
        THEN [table[t] EXCEPT ![Bucket(t, b.at)] = UpsertRow(@, b.row)]
        ELSE table[t]]
-----------------------------------------------------------------------------
(* Init: Hub.Start has just cleared the active rows and launched the first  *)
(* worker (newWorker, Worker.Start) of an enabled node with no history.     *)

FreshWorker ==
    /\ lastSeen' = NoMarks
    /\ active' = ZeroIPs
    /\ accKeys' = {}
    /\ acc' = ZeroMeters
    /\ sum' = ZeroDirs
    /\ peak' = ZeroDirs
    /\ maxConn' = 0
    /\ online' = FALSE
    /\ rate' = ZeroDirs

Init ==
    /\ life = [c \in Conns |-> "new"]
    /\ counter = [c \in Conns |-> ZeroDirs]
    /\ moved = [c \in Conns |-> ZeroDirs]
    /\ resets = 0
    /\ wpc = "connecting" /\ readers = {} /\ cancelled = FALSE
    /\ backoff = InitialBackoff
    /\ online = FALSE /\ rate = ZeroDirs
    /\ lastSeen = NoMarks /\ active = ZeroIPs /\ accKeys = {} /\ acc = ZeroMeters
    /\ sum = ZeroDirs /\ peak = ZeroDirs /\ maxConn = 0
    /\ hpc = "idle" /\ op = "tick" /\ batch = NoBatch /\ now = 0
    /\ table = [t \in Tables |-> [s \in 0..MaxTime |-> ZeroRow]]
    /\ stored = ZeroMeters /\ ipActive = ZeroIPs /\ lastOnline = 0
    /\ shown = ZeroMeters /\ received = ZeroDirs /\ workers = 1
    /\ failed = {} /\ missed = {} /\ ops = 0
-----------------------------------------------------------------------------
(* The node. Frames show its table at the moment they are applied: a frame  *)
(* delayed in transit is a frame of a node whose later steps have not yet   *)
(* happened.                                                                *)

OpenConn(c) ==
    /\ life[c] = "new"
    /\ life' = [life EXCEPT ![c] = "open"]
    /\ UNCHANGED <<counter, moved, resets>>

Transfer(c, d) ==
    /\ life[c] = "open" /\ moved[c][d] < MaxBytes
    /\ counter' = [counter EXCEPT ![c][d] = @ + 1]
    /\ moved' = [moved EXCEPT ![c][d] = @ + 1]
    /\ UNCHANGED <<life, resets>>

ResetCounters(c) ==
    /\ life[c] = "open" /\ resets < MaxResets
    /\ counter' = [counter EXCEPT ![c] = ZeroDirs]
    /\ resets' = resets + 1
    /\ UNCHANGED <<life, moved>>

CloseConn(c) ==
    /\ life[c] = "open"
    /\ life' = [life EXCEPT ![c] = "closed"]
    /\ counter' = [counter EXCEPT ![c] = ZeroDirs]
    /\ UNCHANGED <<moved, resets>>

NodeStep ==
    /\ \E c \in Conns :
          OpenConn(c) \/ ResetCounters(c) \/ CloseConn(c) \/ \E d \in Dirs : Transfer(c, d)
    /\ UNCHANGED <<workerVars, hubVars, now, storeVars, history>>
-----------------------------------------------------------------------------
(* The worker's supervision loop: Worker.Start and Worker.session.          *)

\* Mutant of MarkOffline: the counter baselines do not survive a reconnect.
MarkOfflineForgets ==
    /\ online' = FALSE
    /\ rate' = ZeroDirs
    /\ accKeys' = accKeys \cup {ip \in IPs : active[ip] > 0}
    /\ active' = ZeroIPs
    /\ lastSeen' = NoMarks
    /\ UNCHANGED <<acc, sumVars>>

\* Mutant of MarkOffline: the IPs it makes inactive get no accumulator.
MarkOfflineSilently ==
    /\ online' = FALSE
    /\ rate' = ZeroDirs
    /\ active' = ZeroIPs
    /\ UNCHANGED <<accKeys, lastSeen, acc, sumVars>>

\* markOffline: the live state goes quiet and every active IP gets an
\* accumulator, so that the next Drain writes its zero. lastSeen survives.
MarkOffline ==
    /\ online' = FALSE
    /\ rate' = ZeroDirs
    /\ accKeys' = accKeys \cup {ip \in IPs : active[ip] > 0}
    /\ active' = ZeroIPs
    /\ UNCHANGED <<lastSeen, acc, sumVars>>

\* Version and Configs answered (MemorySnapshot's error is ignored): markOnline.
Connect ==
    /\ wpc = "connecting"
    /\ wpc' = "opening"
    /\ online' = TRUE
    /\ UNCHANGED <<readers, cancelled, backoff, rate, accVars, sumVars>>

\* Both WebSockets are open: the two reader goroutines start.
OpenStreams ==
    /\ wpc = "opening"
    /\ wpc' = "streaming"
    /\ readers' = Readers
    /\ UNCHANGED <<cancelled, backoff, online, rate, accVars, sumVars>>

\* A reader's Read fails; the session then closes both streams.
ReaderFails(r) ==
    /\ r \in readers
    /\ readers' = readers \ {r}
    /\ UNCHANGED <<wpc, cancelled, backoff, online, rate, accVars, sumVars>>

\* Mutant of SessionOver: the session returns on the first reader's error.
SessionOverEarly ==
    \/ wpc \in {"connecting", "opening"}
    \/ wpc = "streaming" /\ readers # Readers

\* session returned an error: a call failed, or both readers have been waited
\* for. It never returns nil, so the backoff reset after it is never reached.
SessionOver ==
    \/ wpc \in {"connecting", "opening"}
    \/ wpc = "streaming" /\ readers = {}

\* The loop's error branch: markOffline(err) and wait, or, once the context is
\* cancelled, return through the deferred markOffline(nil).
SessionEnds ==
    /\ SessionOver
    /\ MarkOffline
    /\ wpc' = IF cancelled THEN "stopped" ELSE "backoff"
    /\ UNCHANGED <<readers, cancelled, backoff>>

\* The delay elapsed: the backoff doubles while it is below maxBackoff.
BackoffElapsed ==
    /\ wpc = "backoff" /\ ~cancelled
    /\ wpc' = "connecting"
    /\ backoff' = IF backoff < DoublingLimit THEN backoff * 2 ELSE backoff
    /\ UNCHANGED <<readers, cancelled, online, rate, accVars, sumVars>>

BackoffCancelled ==
    /\ wpc = "backoff" /\ cancelled
    /\ MarkOffline
    /\ wpc' = "stopped"
    /\ UNCHANGED <<readers, cancelled, backoff>>

LoopStep ==
    /\ \/ Connect \/ OpenStreams \/ SessionEnds \/ BackoffElapsed \/ BackoffCancelled
       \/ \E r \in Readers : ReaderFails(r)
    /\ UNCHANGED <<nodeVars, hubVars, now, storeVars, history>>
-----------------------------------------------------------------------------
(* The reader goroutines: readTraffic and readConnections.                  *)

\* encoding/json: a direction is zero unless the frame has the key of its tag.
Decode(f) ==
    [d \in Dirs |-> IF \E e \in Dirs : WireKey[e] = TagKey[d]
                    THEN f[CHOOSE e \in Dirs : WireKey[e] = TagKey[d]]
                    ELSE 0]

\* accumulateTraffic
AccumulateTraffic(msg) ==
    /\ rate' = msg
    /\ sum' = [d \in Dirs |-> sum[d] + msg[d]]
    /\ peak' = [d \in Dirs |-> Max(peak[d], msg[d])]
    /\ UNCHANGED <<online, maxConn, accVars>>

ReadTraffic ==
    /\ "traffic" \in readers
    /\ \E f \in [Dirs -> 0..MaxRate] :
          /\ \A d \in Dirs : received[d] + f[d] <= MaxTraffic
          /\ received' = [d \in Dirs |-> received[d] + f[d]]
          /\ AccumulateTraffic(Decode(f))
    /\ UNCHANGED <<nodeVars, wpc, readers, cancelled, backoff, hubVars, now, storeVars,
                   shown, workers, failed, missed, ops>>

\* Mutant of ByteDelta: a counter that has gone back is not recognised.
ByteDeltaSigned(c, d) ==
    IF c \in DOMAIN lastSeen THEN counter[c][d] - lastSeen[c][d] ELSE counter[c][d]

\* The bytes of connection c in direction d that this frame adds: all of them
\* at first sight, the growth since the last frame afterwards, and all of them
\* again when the counter has gone back.
ByteDelta(c, d) ==
    IF c \in DOMAIN lastSeen /\ lastSeen[c][d] <= counter[c][d]
    THEN counter[c][d] - lastSeen[c][d]
    ELSE counter[c][d]

Delta(c, m) ==
    IF m \in Dirs THEN ByteDelta(c, m)
    ELSE IF c \in DOMAIN lastSeen THEN 0 ELSE 1

Frame == {c \in Conns : life[c] = "open"}
Tracked == {c \in Frame : SourceIP[c] # NoIP}
PerIP == [ip \in IPs |-> Cardinality({c \in Tracked : SourceIP[c] = ip})]

\* IPs whose accumulator the loop over the frame touches.
Credited == {SourceIP[c] : c \in {t \in Tracked : \E m \in Meters : Delta(t, m) > 0}}

\* Mutant of Changed: only IPs that are still in the frame are compared.
ChangedInFrame == {ip \in IPs : PerIP[ip] > 0 /\ active[ip] > 0 /\ PerIP[ip] # active[ip]}

\* IPs whose number of active connections changed since the last frame.
Changed == {ip \in IPs : active[ip] > 0 /\ PerIP[ip] # active[ip]}

ApplySnapshot ==
    /\ acc' = [c \in Conns |-> [m \in Meters |->
                  acc[c][m] + IF c \in Tracked THEN Delta(c, m) ELSE 0]]
    /\ accKeys' = accKeys \cup Credited \cup Changed
    /\ lastSeen' = [c \in Tracked |-> counter[c]]
    /\ active' = PerIP
    /\ maxConn' = Max(maxConn, Cardinality(Frame))
    /\ UNCHANGED <<online, rate, sum, peak>>

ReadConnections ==
    /\ "connections" \in readers
    /\ ApplySnapshot
    /\ shown' = [c \in Conns |-> [m \in Meters |->
                    IF c \notin Tracked THEN shown[c][m]
                    ELSE IF m \in Dirs THEN moved[c][m] ELSE 1]]
    /\ UNCHANGED <<nodeVars, wpc, readers, cancelled, backoff, hubVars, now, storeVars,
                   received, workers, failed, missed, ops>>
-----------------------------------------------------------------------------
(* The hub. h.mu serialises its operations on the worker: the flush tick    *)
(* holds it shared, Reload and Stop exclusively, so one is in progress at a *)
(* time and hpc is its program counter. Only w.mu is shared with the        *)
(* readers, which keep running between the steps of a tick.                 *)

\* Each flush has one clock reading; time passes between any two steps.
ClockTick ==
    /\ now < MaxTime
    /\ now' = now + 1
    /\ UNCHANGED <<nodeVars, workerVars, hubVars, storeVars, history>>

\* activeConnections: the sum of perIPActive over its keys.
ActiveConnections ==
    Cardinality({p \in IPs \X (1..Cardinality(Conns)) : p[2] <= active[p[1]]})

NothingToDrain ==
    /\ sum = ZeroDirs
    /\ accKeys = {}
    /\ \A ip \in IPs : active[ip] = 0

\* Drain(at): hand the accumulators over and clear them, or nothing at all.
Drain(at) ==
    IF NothingToDrain
    THEN /\ batch' = Nothing(at)
         /\ UNCHANGED <<accVars, sumVars>>
    ELSE /\ batch' = [some |-> TRUE, at |-> at,
                      row |-> [bytes |-> sum, peak |-> peak, conns |-> maxConn],
                      ips |-> accKeys \cup {ip \in IPs : active[ip] > 0},
                      acc |-> acc, active |-> active]
         /\ sum' = ZeroDirs
         /\ peak' = ZeroDirs
         /\ maxConn' = ActiveConnections
         /\ accKeys' = {}
         /\ acc' = ZeroMeters
         /\ UNCHANGED <<lastSeen, active>>

\* flushOnce reaches this worker, with the time it read before it waited for h.mu
\* and flushed the workers before this one.
FlushTick ==
    /\ hpc = "idle" /\ wpc # "absent"
    /\ op' = "tick" /\ hpc' = "lastonline"
    /\ \E at \in 0..now : Drain(at)
    /\ UNCHANGED <<nodeVars, wpc, readers, cancelled, backoff, online, rate,
                   now, storeVars, history>>

\* Reload finds the interval changed ("restart") or the worker unwanted or
\* outdated ("replace"), or Hub.Stop runs ("shutdown"): cancel, then wait.
StopWorker(o) ==
    /\ hpc = "idle" /\ wpc # "absent" /\ ops < MaxOps
    /\ op' = o /\ hpc' = "stopping"
    /\ cancelled' = TRUE
    /\ ops' = ops + 1
    /\ UNCHANGED <<nodeVars, wpc, readers, backoff, online, rate, accVars, sumVars, batch,
                   now, storeVars, shown, received, workers, failed, missed>>

\* Mutant of FlushStopped: the stopped worker is dropped without a last flush.
FlushStoppedNever ==
    /\ hpc = "stopping" /\ wpc = "stopped"
    /\ hpc' = IF op = "restart" THEN "start" ELSE "clear"
    /\ UNCHANGED <<nodeVars, workerVars, op, batch, now, storeVars, history>>

\* <-w.done returned: the operation flushes the stopped worker.
FlushStopped ==
    /\ hpc = "stopping" /\ wpc = "stopped"
    /\ hpc' = "lastonline"
    /\ Drain(now)
    /\ UNCHANGED <<nodeVars, wpc, readers, cancelled, backoff, online, rate, op,
                   now, storeVars, history>>

\* Reload's GetNode failed: it returns, the stopped worker stays in the map.
GetNodeFails ==
    /\ hpc = "stopping" /\ wpc = "stopped" /\ op = "replace"
    /\ "getnode" \in MayFail
    /\ hpc' = "idle"
    /\ failed' = failed \cup {"getnode"}
    /\ UNCHANGED <<nodeVars, workerVars, op, batch, now, storeVars,
                   shown, received, workers, missed, ops>>

\* What follows flushWorker in each operation.
AfterFlush == CASE op = "tick"    -> "idle"
                [] op = "restart" -> "start"
                [] OTHER          -> "clear"

\* The end of flushWorker.
Flushed ==
    /\ hpc' = AfterFlush
    /\ batch' = NoBatch
    /\ UNCHANGED op

\* Snapshot().Online is read under w.mu again, after the Drain.
SetLastOnline ==
    /\ hpc = "lastonline"
    /\ \/ online /\ lastOnline' = batch.at /\ UNCHANGED failed
       \/ ~online /\ UNCHANGED <<lastOnline, failed>>
       \/ /\ online /\ "lastonline" \in MayFail
          /\ failed' = failed \cup {"lastonline"} /\ UNCHANGED lastOnline
    /\ IF batch.some THEN hpc' = "samples" /\ UNCHANGED <<op, batch>> ELSE Flushed
    /\ UNCHANGED <<nodeVars, workerVars, now, table, stored, ipActive,
                   shown, received, workers, missed, ops>>

\* One transaction into the tables ts; an error is logged and the flush goes on.
WriteRows(call, ts, next) ==
    /\ hpc = call
    /\ hpc' = next
    /\ \/ table' = UpsertRows(ts, batch) /\ UNCHANGED failed
       \/ call \in MayFail /\ failed' = failed \cup {call} /\ UNCHANGED table
    /\ UNCHANGED <<nodeVars, workerVars, op, batch, now, stored, ipActive, lastOnline,
                   shown, received, workers, missed, ops>>

InsertTrafficSamples == WriteRows("samples", {"sample"}, "rollups")
UpsertRollups == WriteRows("rollups", Rollups, "ips")

\* Bytes and connection counts add up, active_connections is overwritten; an
\* error rolls the batch back and the drained deltas are gone.
UpsertIPStats ==
    /\ hpc = "ips"
    /\ \/ /\ stored' = Plus(stored, batch.acc)
          /\ ipActive' = [ip \in IPs |-> IF ip \in batch.ips THEN batch.active[ip] ELSE ipActive[ip]]
          /\ missed' = missed \ batch.ips
          /\ UNCHANGED failed
       \/ /\ "ips" \in MayFail /\ failed' = failed \cup {"ips"}
          /\ missed' = missed \cup batch.ips
          /\ UNCHANGED <<stored, ipActive>>
    /\ Flushed
    /\ UNCHANGED <<nodeVars, workerVars, now, table, lastOnline, shown, received, workers, ops>>
-----------------------------------------------------------------------------
(* How the operations end.                                                  *)

\* Worker.Start: a new context and done channel, backoff from the beginning.
StartLoop ==
    /\ wpc' = "connecting" /\ readers' = {} /\ cancelled' = FALSE
    /\ backoff' = InitialBackoff

\* Reload, interval changed: the same worker object starts again.
RestartWorker ==
    /\ hpc = "start"
    /\ hpc' = "idle"
    /\ StartLoop
    /\ UNCHANGED <<nodeVars, online, rate, accVars, sumVars, op, batch, now, storeVars, history>>

\* newWorker and Start.
NewWorker ==
    /\ FreshWorker
    /\ StartLoop
    /\ workers' = workers + 1

\* No entry in h.workers. (What a worker would hold is as in a fresh one.)
NoWorker ==
    /\ FreshWorker
    /\ wpc' = "absent" /\ readers' = {} /\ cancelled' = FALSE
    /\ backoff' = InitialBackoff
    /\ UNCHANGED workers

\* Reload's ClearActiveIPs(id). On success the old worker is dropped and, when
\* the node is still wanted, a new one starts; on error Reload returns.
ClearReplaced ==
    /\ hpc = "clear" /\ op = "replace"
    /\ hpc' = "idle"
    /\ \/ /\ ipActive' = ZeroIPs /\ missed' = {}
          /\ NewWorker \/ NoWorker
          /\ UNCHANGED failed
       \/ /\ "clear" \in MayFail /\ failed' = failed \cup {"clear"}
          /\ UNCHANGED <<workerVars, ipActive, missed, workers>>
    /\ UNCHANGED <<nodeVars, op, batch, now, table, stored, lastOnline, shown, received, ops>>

\* A later Reload wants the node again.
StartWanted ==
    /\ hpc = "idle" /\ wpc = "absent"
    /\ NewWorker
    /\ UNCHANGED <<nodeVars, hubVars, now, storeVars, shown, received, failed, missed, ops>>

\* Hub.Stop's ClearActiveIPs(""): an error is only logged; the panel exits.
ClearOnShutdown ==
    /\ hpc = "clear" /\ op = "shutdown"
    /\ hpc' = "down"
    /\ NoWorker
    /\ \/ ipActive' = ZeroIPs /\ missed' = {} /\ UNCHANGED failed
       \/ /\ "clear" \in MayFail /\ failed' = failed \cup {"clear"}
          /\ UNCHANGED <<ipActive, missed>>
    /\ UNCHANGED <<nodeVars, op, batch, now, table, stored, lastOnline, shown, received, ops>>

\* The panel dies: everything in memory is gone, the store keeps what was committed.
Crash ==
    /\ hpc \notin {"down", "crashed"} /\ ops < MaxOps
    /\ hpc' = "crashed" /\ op' = "tick" /\ batch' = NoBatch
    /\ ops' = ops + 1 /\ failed' = failed \cup {"crash"}
    /\ NoWorker
    /\ UNCHANGED <<nodeVars, now, storeVars, shown, received, missed>>

\* Hub.Start of the next process: clear what the last one left, then Reload.
Boot ==
    /\ hpc \in {"down", "crashed"}
    /\ hpc' = "idle"
    /\ NewWorker
    /\ \/ ipActive' = ZeroIPs /\ missed' = {} /\ UNCHANGED failed
       \/ /\ "clear" \in MayFail /\ failed' = failed \cup {"clear"}
          /\ missed' = {ip \in IPs : ipActive[ip] > 0} /\ UNCHANGED ipActive
    /\ UNCHANGED <<nodeVars, op, batch, now, table, stored, lastOnline, shown, received, ops>>
-----------------------------------------------------------------------------
FlushStep ==
    FlushStopped \/ SetLastOnline \/ InsertTrafficSamples \/ UpsertRollups \/ UpsertIPStats

ReloadStep == RestartWorker \/ ClearReplaced \/ ClearOnShutdown

Next ==
    \/ NodeStep
    \/ LoopStep
    \/ ReadTraffic
    \/ ReadConnections
    \/ ClockTick
    \/ FlushTick
    \/ \E o \in {"restart", "replace", "shutdown"} : StopWorker(o)
    \/ GetNodeFails
    \/ FlushStep
    \/ ReloadStep
    \/ StartWanted
    \/ Crash
    \/ Boot

Spec == Init /\ [][Next]_vars

\* Mutant of Unblocked: cancelling the context does not close the streams.
UnblockedByPeer(r) ==
    /\ readers # Readers
    /\ ReaderFails(r)
    /\ UNCHANGED <<nodeVars, hubVars, now, storeVars, history>>

\* What the runtime guarantees. Goroutines that can run do run: the loop acts
\* on a failed call, a cancelled context and a reader blocked on a stream that
\* has been closed. The flush ticker fires and its store calls return, and so
\* does a Reload or a Stop once the worker is done. Nothing obliges the node to
\* answer, to send frames, or the operator to reload or to start the panel.
Unblocked(r) ==
    /\ cancelled \/ readers # Readers
    /\ ReaderFails(r)
    /\ UNCHANGED <<nodeVars, hubVars, now, storeVars, history>>

Fairness ==
    /\ WF_vars(LoopStep /\ (Connect \/ OpenStreams \/ SessionEnds
                              \/ BackoffElapsed \/ BackoffCancelled))
    /\ \A r \in Readers : WF_vars(Unblocked(r))
    /\ WF_vars(FlushTick)
    /\ WF_vars(FlushStep)
    /\ WF_vars(ReloadStep)

FairSpec == Spec /\ Fairness
-----------------------------------------------------------------------------
(* Properties.                                                              *)

RowType == [bytes : [Dirs -> Nat], peak : [Dirs -> Nat], conns : Nat]
MeterType == [Conns -> [Meters -> Nat]]

BatchType ==
    [some : BOOLEAN, at : 0..MaxTime, row : RowType, ips : SUBSET IPs,
     acc : MeterType, active : [IPs -> Nat]]

NodeTypes ==
    /\ life \in [Conns -> {"new", "open", "closed"}]
    /\ counter \in [Conns -> [Dirs -> Nat]] /\ moved \in [Conns -> [Dirs -> Nat]]
    /\ resets \in Nat

LoopTypes ==
    /\ wpc \in {"connecting", "opening", "streaming", "backoff", "stopped", "absent"}
    /\ readers \subseteq Readers /\ cancelled \in BOOLEAN /\ backoff \in Nat

AccTypes ==
    /\ online \in BOOLEAN /\ rate \in [Dirs -> Nat]
    /\ DOMAIN lastSeen \subseteq Conns
    /\ \A c \in DOMAIN lastSeen : lastSeen[c] \in [Dirs -> Nat]
    /\ active \in [IPs -> Nat]
    /\ accKeys \subseteq IPs /\ acc \in MeterType
    /\ sum \in [Dirs -> Nat] /\ peak \in [Dirs -> Nat] /\ maxConn \in Nat

HubTypes ==
    /\ hpc \in {"idle", "stopping", "lastonline", "samples", "rollups", "ips",
                "start", "clear", "down", "crashed"}
    /\ op \in {"tick", "restart", "replace", "shutdown"}
    /\ batch \in BatchType
    /\ now \in 0..MaxTime

StoreTypes ==
    /\ table \in [Tables -> [0..MaxTime -> RowType]]
    /\ stored \in MeterType /\ ipActive \in [IPs -> Nat] /\ lastOnline \in Nat

HistoryTypes ==
    /\ shown \in MeterType /\ received \in [Dirs -> Nat]
    /\ workers \in Nat /\ failed \subseteq StoreCalls \cup {"crash"}
    /\ missed \subseteq IPs /\ ops \in Nat

\* Every variable keeps its type: the control points of the three actors, the
\* maps of the worker (no counter ever goes below zero, although applySnapshot
\* subtracts) and the rows of the store.
TypeOK == NodeTypes /\ LoopTypes /\ AccTypes /\ HubTypes /\ StoreTypes /\ HistoryTypes

\* What ip_stats.active_connections of ip is once the flush in progress ends.
Written(ip) == IF ip \in batch.ips THEN batch.active[ip] ELSE ipActive[ip]

\* An IP the store calls active although the worker no longer sees it is always
\* in ipAcc, so that the next Drain writes its zero: "Persist zero-active
\* transitions even when no more bytes were transferred". Holds across frames,
\* reconnects, restarts, replacement and shutdown, while a flush is in flight,
\* and for a node without a worker; an IP of a batch that was rolled back is exempt.
NoStaleActive ==
    hpc # "crashed" =>
        \A ip \in IPs \ missed :
            Written(ip) > 0 /\ active[ip] = 0 => ip \in accKeys

\* A worker that is not online shows no rate and no active connection: session
\* waits for both readers before the loop marks the node offline, so no late
\* frame can bring either back.
OfflineIsQuiet ==
    ~online => rate = ZeroDirs /\ \A ip \in IPs : active[ip] = 0

\* The bytes and connections of c that are stored, in flight or accumulated.
Accounted(c, m) == stored[c][m] + batch.acc[c][m] + acc[c][m]

\* While one worker object samples the node, no byte and no connection is ever
\* counted twice: not when the streams reconnect, not when an interval change
\* restarts the loop, not when a counter goes back to zero, not when a flush
\* fails halfway.
NeverCountedTwice ==
    workers = 1 => \A c \in Conns, m \in Meters : Accounted(c, m) <= shown[c][m]

\* As long as no ip_stats batch was rolled back, the panel did not crash and no
\* counter restarted, everything a frame has shown is stored, in flight or accumulated:
\* handing over from one worker to the next loses nothing.
NothingLost ==
    {"ips", "crash"} \cap failed = {} /\ resets = 0 =>
        \A c \in Conns, m \in Meters : Accounted(c, m) >= shown[c][m]

\* f[0] + ... + f[MaxTime].
Total(f) ==
    LET upTo[n \in 0..MaxTime] == (IF n = 0 THEN 0 ELSE upTo[n - 1]) + f[n]
    IN  upTo[MaxTime]

\* Bytes of direction d in the rows of table t whose bucket is in S.
BytesIn(t, S, d) == Total([u \in 0..MaxTime |-> IF u \in S THEN table[t][u].bytes[d] ELSE 0])

IsLargest(x, S) == x \in S /\ \A y \in S : y <= x

\* Every byte of the /traffic stream is accumulated, in flight or in
\* traffic_samples, exactly once, across flushes that interleave with frames,
\* restarts and replacements; a failed insert or a crash is the only way to lose one.
TrafficConserved ==
    {"samples", "crash"} \cap failed = {} =>
        \A d \in Dirs :
            received[d] = sum[d] + BytesIn("sample", 0..MaxTime, d)
                          + IF hpc \in {"lastonline", "samples"} THEN batch.row.bytes[d] ELSE 0

\* The rows of table fine that lie in bucket s of table coarse.
Parts(fine, coarse, s) == {u \in 0..MaxTime : Bucket(fine, u) = u /\ Bucket(coarse, u) = s}

\* Row s of table coarse is the sum of its parts in table fine, with the largest of their peaks.
Nested(fine, coarse, s) ==
    LET parts == Parts(fine, coarse, s)
        row == table[coarse][s]
    IN  /\ \A d \in Dirs : /\ row.bytes[d] = BytesIn(fine, parts, d)
                           /\ IsLargest(row.peak[d], {table[fine][u].peak[d] : u \in parts})
        /\ IsLargest(row.conns, {table[fine][u].conns : u \in parts})

\* Each hour bucket is the sum of its minutes and each day bucket the sum of its
\* hours, with the largest of their peaks, whatever failed: the three rollups of a
\* flush are written in one transaction from one clock reading.
RollupsNest ==
    \A fine, coarse \in Rollups : BucketLen[fine] <= BucketLen[coarse] =>
        \A u \in 0..MaxTime : Nested(fine, coarse, Bucket(coarse, u))

\* Unless one of their two transactions failed or the panel died between them,
\* traffic_samples and traffic_rollup agree on every minute.
SamplesMatchRollups ==
    {"samples", "rollups", "crash"} \cap failed = {} /\ hpc # "rollups" =>
        \A s \in 0..MaxTime : Bucket("minute", s) = s =>
            \A d \in Dirs :
                table["minute"][s].bytes[d] = BytesIn("sample", Parts("sample", "minute", s), d)

\* A stopping hub operation gets its worker back: Reload and Stop hold h.mu
\* while they wait on w.done, and every way the worker can be blocked (a call,
\* a stream, the backoff timer) ends when its context is cancelled.
StopReturns == hpc = "stopping" ~> hpc # "stopping"

\* An IP that the store calls active and the worker does not see is not left
\* so: its row is brought to zero, or the client comes back, or the panel dies
\* (and clears the row when it starts again). The exception is an IP of a batch that
\* UpsertIPStats rolled back (or that Start could not clear): the zero was drained with
\* the batch and is not tried again. It lasts until a later batch with that IP is written
\* or the rows are cleared; from then on the row has to drain again.
ActiveDrains ==
    \A ip \in IPs :
        ipActive[ip] > 0 /\ active[ip] = 0 ~>
            ipActive[ip] = 0 \/ active[ip] > 0 \/ hpc = "crashed" \/ ip \in missed
==============================================================================
