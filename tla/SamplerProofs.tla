----------------------------- MODULE SamplerProofs ----------------------------
(***************************************************************************)
(* Type correctness and the accounting of connections in Sampler, for every *)
(* set of connections and addresses, every bound and every set of failing   *)
(* store calls. (The traffic tables are in TrafficProofs.)                   *)
(*                                                                          *)
(* None of the safety properties is inductive. The inductive invariant IInv  *)
(* adds to the types                                                        *)
(*   Control  what each control point implies about the worker and about    *)
(*            the batch in flight;                                          *)
(*   Fresh    the second half of NoStaleActive: a batch in flight that       *)
(*            calls an IP active which is gone will be corrected, also when  *)
(*            an earlier batch of that IP was rolled back;                   *)
(*   Ledger   how the counters of the node, the worker's marks and the       *)
(*            history of the frames are related between two frames.          *)
(***************************************************************************)
EXTENDS Sampler, TLAPS, FiniteSetTheorems

\* The zero values have the types of what they initialise.
LEMMA ZeroTypes ==
    /\ ZeroMeters \in MeterType
    /\ ZeroDirs \in [Dirs -> Nat]
    /\ ZeroIPs \in [IPs -> Nat]
    /\ ZeroRow \in RowType
    /\ DOMAIN NoMarks = {}
BY DEF ZeroMeters, ZeroDirs, ZeroIPs, ZeroRow, MeterType, RowType, NoMarks

\* Drain's empty answer is a batch.
LEMMA NothingType ==
    /\ \A t \in 0..MaxTime : Nothing(t) \in BatchType
    /\ NoBatch \in BatchType
<1>1. \A t \in 0..MaxTime : Nothing(t) \in BatchType
    BY ZeroTypes DEF Nothing, BatchType
<1>2. 0 \in 0..MaxTime
    BY BoundsAssumption
<1> QED BY <1>1, <1>2 DEF NoBatch

\* A frame, decoded, is a pair of byte counts whatever keys it carries.
LEMMA DecodeType ==
    ASSUME NEW f \in [Dirs -> Nat]
    PROVE  Decode(f) \in [Dirs -> Nat]
<1> SUFFICES ASSUME NEW d \in Dirs, \E e \in Dirs : WireKey[e] = TagKey[d]
             PROVE  f[CHOOSE e \in Dirs : WireKey[e] = TagKey[d]] \in Nat
    BY DEF Decode
<1>1. (CHOOSE e \in Dirs : WireKey[e] = TagKey[d]) \in Dirs
    BY Zenon
<1> QED BY <1>1

\* Numbers of connections are natural numbers.
LEMMA CountTypes ==
    /\ PerIP \in [IPs -> Nat]
    /\ Cardinality(Frame) \in Nat
    /\ ActiveConnections \in Nat
<1>1. ASSUME NEW S \in SUBSET Conns
      PROVE  Cardinality(S) \in Nat
    BY ConnsAssumption, FS_Subset, FS_CardinalityType
<1>2. Cardinality(Frame) \in Nat
    BY <1>1 DEF Frame
<1>3. PerIP \in [IPs -> Nat]
    BY <1>1 DEF PerIP, Tracked, Frame
<1>4. ActiveConnections \in Nat
    <2>1. Cardinality(Conns) \in Nat
        BY <1>1
    <2>2. IsFiniteSet(1..Cardinality(Conns))
        BY <2>1, FS_Interval
    <2>3. IsFiniteSet(IPs \X (1..Cardinality(Conns)))
        BY <2>2, ConnsAssumption, FS_Product
    <2> QED BY <2>3, FS_Subset, FS_CardinalityType DEF ActiveConnections
<1> QED BY <1>2, <1>3, <1>4

\* The pointwise sum UpsertIPStats adds to ip_stats stays natural.
LEMMA PlusType ==
    ASSUME NEW f \in MeterType, NEW g \in MeterType
    PROVE  Plus(f, g) \in MeterType
BY DEF Plus, MeterType

\* The ON CONFLICT merge of two traffic rows is a traffic row.
LEMMA UpsertRowType ==
    ASSUME NEW old \in RowType, NEW new \in RowType
    PROVE  UpsertRow(old, new) \in RowType
BY DEF UpsertRow, RowType, Max

\* What a frame adds to a counter is never negative, also when the counter has
\* gone back.
LEMMA DeltaType ==
    ASSUME TypeOK, NEW c \in Conns, NEW m \in Meters
    PROVE  Delta(c, m) \in Nat
<1>1. ASSUME NEW d \in Dirs PROVE ByteDelta(c, d) \in Nat
    BY DEF ByteDelta, TypeOK, NodeTypes, AccTypes
<1> QED BY <1>1 DEF Delta
-----------------------------------------------------------------------------
(* One lemma per step, grouped as in Next.                                  *)

\* Hub.Start leaves a well-typed state.
LEMMA TypeInit == Init => TypeOK
<1> SUFFICES ASSUME Init PROVE TypeOK
    OBVIOUS
<1>1. NodeTypes
    BY ZeroTypes DEF Init, NodeTypes
<1>2. LoopTypes
    BY BoundsAssumption DEF Init, LoopTypes
<1>3. AccTypes
    <2>1. DOMAIN lastSeen = {}
        BY ZeroTypes DEF Init
    <2>2. online \in BOOLEAN /\ accKeys \subseteq IPs
        BY DEF Init
    <2>3. acc \in MeterType /\ active \in [IPs -> Nat] /\ rate \in [Dirs -> Nat]
        BY ZeroTypes DEF Init
    <2>4. sum \in [Dirs -> Nat] /\ peak \in [Dirs -> Nat] /\ maxConn \in Nat
        BY ZeroTypes DEF Init
    <2> QED BY <2>1, <2>2, <2>3, <2>4 DEF AccTypes
<1>4. HubTypes
    BY NothingType, BoundsAssumption DEF Init, HubTypes
<1>5. StoreTypes
    BY ZeroTypes DEF Init, StoreTypes
<1>6. HistoryTypes
    BY ZeroTypes DEF Init, HistoryTypes
<1> QED BY <1>1, <1>2, <1>3, <1>4, <1>5, <1>6 DEF TypeOK

\* The operators that set a new worker's, and an offline worker's, state.
LEMMA FreshType == FreshWorker => AccTypes'
<1> SUFFICES ASSUME FreshWorker PROVE AccTypes'
    OBVIOUS
<1>1. DOMAIN lastSeen' = {}
    BY ZeroTypes DEF FreshWorker
<1>2. online' \in BOOLEAN /\ accKeys' \subseteq IPs
    BY DEF FreshWorker
<1>3. acc' \in MeterType /\ active' \in [IPs -> Nat] /\ rate' \in [Dirs -> Nat]
    BY ZeroTypes DEF FreshWorker
<1>4. sum' \in [Dirs -> Nat] /\ peak' \in [Dirs -> Nat] /\ maxConn' \in Nat
    BY ZeroTypes DEF FreshWorker
<1> QED BY <1>1, <1>2, <1>3, <1>4 DEF AccTypes

\* markOffline keeps the types of the accumulators.
LEMMA MarkOfflineType == AccTypes /\ MarkOffline => AccTypes'
BY ZeroTypes DEF MarkOffline, AccTypes, sumVars

\* newWorker, and an absent worker, have well-typed accumulators.
LEMMA NewWorkerType ==
    ASSUME HistoryTypes, NewWorker \/ NoWorker
    PROVE  LoopTypes' /\ AccTypes' /\ workers' \in Nat
<1>1. AccTypes'
    BY FreshType DEF NewWorker, NoWorker
<1>2. LoopTypes'
    BY BoundsAssumption DEF NewWorker, NoWorker, StartLoop, LoopTypes
<1>3. workers' \in Nat
    BY DEF NewWorker, NoWorker, HistoryTypes
<1> QED BY <1>1, <1>2, <1>3

\* The node's own steps keep every type.
LEMMA TypeNodeStep == TypeOK /\ NodeStep => TypeOK'
<1> SUFFICES ASSUME TypeOK, NodeStep PROVE TypeOK'
    OBVIOUS
<1>1. NodeTypes'
    <2> PICK c \in Conns : OpenConn(c) \/ ResetCounters(c) \/ CloseConn(c)
                            \/ \E d \in Dirs : Transfer(c, d)
        BY DEF NodeStep
    <2>1. CASE OpenConn(c)
        BY <2>1 DEF OpenConn, TypeOK, NodeTypes
    <2>2. CASE ResetCounters(c)
        BY <2>2, ZeroTypes DEF ResetCounters, TypeOK, NodeTypes
    <2>3. CASE CloseConn(c)
        BY <2>3, ZeroTypes DEF CloseConn, TypeOK, NodeTypes
    <2>4. ASSUME NEW d \in Dirs, Transfer(c, d) PROVE NodeTypes'
        BY <2>4 DEF Transfer, TypeOK, NodeTypes
    <2> QED BY <2>1, <2>2, <2>3, <2>4
<1>2. (LoopTypes /\ AccTypes /\ HubTypes /\ StoreTypes /\ HistoryTypes)'
    BY DEF NodeStep, TypeOK, LoopTypes, AccTypes, HubTypes, StoreTypes, HistoryTypes,
           workerVars, accVars, sumVars, hubVars, storeVars, history
<1> QED BY <1>1, <1>2 DEF TypeOK

\* The steps of the supervision loop keep every type.
LEMMA TypeLoopStep == TypeOK /\ LoopStep => TypeOK'
<1> SUFFICES ASSUME TypeOK, LoopStep PROVE TypeOK'
    OBVIOUS
<1>1. (NodeTypes /\ HubTypes /\ StoreTypes /\ HistoryTypes)'
    BY DEF LoopStep, TypeOK, NodeTypes, HubTypes, StoreTypes, HistoryTypes,
           nodeVars, hubVars, storeVars, history
<1>2. LoopTypes'
    BY DEF LoopStep, Connect, OpenStreams, SessionEnds, BackoffElapsed, BackoffCancelled,
           ReaderFails, TypeOK, LoopTypes
<1>3. AccTypes'
    <2>1. CASE SessionEnds \/ BackoffCancelled
        BY <2>1, MarkOfflineType DEF SessionEnds, BackoffCancelled, TypeOK
    <2>2. CASE Connect \/ OpenStreams \/ BackoffElapsed \/ \E r \in Readers : ReaderFails(r)
        BY <2>2 DEF Connect, OpenStreams, BackoffElapsed, ReaderFails, TypeOK, AccTypes,
                    accVars, sumVars
    <2> QED BY <2>1, <2>2 DEF LoopStep
<1> QED BY <1>1, <1>2, <1>3 DEF TypeOK

\* accumulateTraffic keeps every type.
LEMMA TypeReadTraffic == TypeOK /\ ReadTraffic => TypeOK'
<1> SUFFICES ASSUME TypeOK, ReadTraffic PROVE TypeOK'
    OBVIOUS
<1>1. PICK f \in [Dirs -> 0..MaxRate] :
          /\ received' = [d \in Dirs |-> received[d] + f[d]]
          /\ AccumulateTraffic(Decode(f))
    BY DEF ReadTraffic
<1>2. f \in [Dirs -> Nat]
    BY BoundsAssumption
<1>3. Decode(f) \in [Dirs -> Nat]
    BY <1>2, DecodeType
<1>4. AccTypes'
    BY <1>1, <1>3 DEF AccumulateTraffic, TypeOK, AccTypes, accVars, Max
<1>5. HistoryTypes'
    BY <1>1, <1>2 DEF ReadTraffic, TypeOK, HistoryTypes
<1>6. (NodeTypes /\ LoopTypes /\ HubTypes /\ StoreTypes)'
    BY DEF ReadTraffic, TypeOK, NodeTypes, LoopTypes, HubTypes, StoreTypes,
           nodeVars, hubVars, storeVars
<1> QED BY <1>4, <1>5, <1>6 DEF TypeOK

\* applySnapshot keeps every type: no delta is negative.
LEMMA TypeReadConnections == TypeOK /\ ReadConnections => TypeOK'
<1> SUFFICES ASSUME TypeOK, ReadConnections PROVE TypeOK'
    OBVIOUS
<1>1. acc' \in MeterType
    BY DeltaType DEF ReadConnections, ApplySnapshot, TypeOK, AccTypes, MeterType
<1>2. accKeys' \subseteq IPs
    BY ConnsAssumption DEF ReadConnections, ApplySnapshot, Credited, Changed, Tracked, Frame,
                           TypeOK, AccTypes
<1>3. DOMAIN lastSeen' \subseteq Conns /\ \A c \in DOMAIN lastSeen' : lastSeen'[c] \in [Dirs -> Nat]
    BY DEF ReadConnections, ApplySnapshot, Tracked, Frame, TypeOK, NodeTypes
<1>4. AccTypes'
    BY <1>1, <1>2, <1>3, CountTypes
       DEF ReadConnections, ApplySnapshot, TypeOK, AccTypes, Max
<1>5. shown' \in MeterType
    BY DEF ReadConnections, TypeOK, NodeTypes, HistoryTypes, MeterType
<1>6. (NodeTypes /\ LoopTypes /\ HubTypes /\ StoreTypes /\ HistoryTypes)'
    BY <1>5 DEF ReadConnections, TypeOK, NodeTypes, LoopTypes, HubTypes, StoreTypes,
                HistoryTypes, nodeVars, hubVars, storeVars
<1> QED BY <1>4, <1>6 DEF TypeOK

\* The clock keeps every type.
LEMMA TypeClockTick == TypeOK /\ ClockTick => TypeOK'
BY BoundsAssumption
   DEF ClockTick, TypeOK, NodeTypes, LoopTypes, AccTypes, HubTypes, StoreTypes, HistoryTypes,
       nodeVars, workerVars, accVars, sumVars, hubVars, storeVars, history

\* Drain, the start of every flush.
LEMMA DrainType ==
    ASSUME TypeOK, NEW at \in 0..MaxTime, Drain(at),
           UNCHANGED <<online, rate>>
    PROVE  AccTypes' /\ batch' \in BatchType
<1>1. CASE NothingToDrain
    BY <1>1, NothingType DEF Drain, TypeOK, AccTypes, accVars, sumVars
<1>2. CASE ~NothingToDrain
    <2>1. batch' \in BatchType
        <3>1. [bytes |-> sum, peak |-> peak, conns |-> maxConn] \in RowType
            BY DEF TypeOK, AccTypes, RowType
        <3>2. acc \in MeterType /\ active \in [IPs -> Nat]
              /\ accKeys \cup {ip \in IPs : active[ip] > 0} \in SUBSET IPs
            BY DEF TypeOK, AccTypes
        <3>3. batch' = [some |-> TRUE, at |-> at,
                        row |-> [bytes |-> sum, peak |-> peak, conns |-> maxConn],
                        ips |-> accKeys \cup {ip \in IPs : active[ip] > 0},
                        acc |-> acc, active |-> active]
            BY <1>2 DEF Drain
        <3>4. ASSUME NEW r \in RowType, NEW k \in SUBSET IPs, NEW v \in [IPs -> Nat],
                     NEW a \in MeterType
              PROVE  [some |-> TRUE, at |-> at, row |-> r, ips |-> k, acc |-> a, active |-> v]
                         \in BatchType
            BY DEF BatchType
        <3> QED BY <3>1, <3>2, <3>3, <3>4
    <2>2. AccTypes'
        BY <1>2, ZeroTypes, CountTypes DEF Drain, TypeOK, AccTypes
    <2> QED BY <2>1, <2>2
<1> QED BY <1>1, <1>2

\* The flush tick's Drain keeps every type.
LEMMA TypeFlushTick == TypeOK /\ FlushTick => TypeOK'
<1> SUFFICES ASSUME TypeOK, FlushTick PROVE TypeOK'
    OBVIOUS
<1>1. PICK at \in 0..now : Drain(at)
    BY DEF FlushTick
<1>2. at \in 0..MaxTime
    BY BoundsAssumption DEF TypeOK, HubTypes
<1>3. AccTypes' /\ batch' \in BatchType
    BY <1>1, <1>2, DrainType DEF FlushTick
<1>4. (NodeTypes /\ LoopTypes /\ HubTypes /\ StoreTypes /\ HistoryTypes)'
    BY <1>3 DEF FlushTick, TypeOK, NodeTypes, LoopTypes, HubTypes, StoreTypes, HistoryTypes,
                nodeVars, storeVars, history
<1> QED BY <1>3, <1>4 DEF TypeOK

\* Cancelling a worker keeps every type.
LEMMA TypeStopWorker ==
    ASSUME TypeOK, NEW o \in {"restart", "replace", "shutdown"}, StopWorker(o)
    PROVE  TypeOK'
BY DEF StopWorker, TypeOK, NodeTypes, LoopTypes, AccTypes, HubTypes, StoreTypes, HistoryTypes,
       nodeVars, accVars, sumVars, storeVars

\* A Reload that returns on GetNode's error keeps every type.
LEMMA TypeGetNodeFails == TypeOK /\ GetNodeFails => TypeOK'
BY BoundsAssumption
   DEF GetNodeFails, TypeOK, NodeTypes, LoopTypes, AccTypes, HubTypes, StoreTypes,
       HistoryTypes, nodeVars, workerVars, accVars, sumVars, storeVars

\* The end of flushWorker keeps the types of the hub.
LEMMA FlushedType == HubTypes /\ UNCHANGED now /\ Flushed => HubTypes'
BY NothingType DEF HubTypes, Flushed, AfterFlush

\* A transaction into the traffic tables.
LEMMA TypeWriteRows ==
    ASSUME TypeOK, NEW call \in {"samples", "rollups"}, NEW ts \in SUBSET Tables,
           NEW next \in {"rollups", "ips"}, WriteRows(call, ts, next)
    PROVE  TypeOK'
<1>1. UpsertRows(ts, batch) \in [Tables -> [0..MaxTime -> RowType]]
    <2>1. ASSUME NEW t \in Tables, NEW s \in 0..MaxTime
          PROVE  UpsertRow(table[t][s], batch.row) \in RowType
        <3>1. table[t][s] \in RowType /\ batch.row \in RowType
            BY DEF TypeOK, HubTypes, StoreTypes, BatchType
        <3> QED BY <3>1, UpsertRowType
    <2> QED BY <2>1 DEF UpsertRows, TypeOK, StoreTypes
<1>2. StoreTypes'
    BY <1>1 DEF WriteRows, TypeOK, StoreTypes
<1>3. (NodeTypes /\ LoopTypes /\ AccTypes /\ HubTypes /\ HistoryTypes)'
    BY BoundsAssumption
       DEF WriteRows, TypeOK, NodeTypes, LoopTypes, AccTypes, HubTypes, HistoryTypes,
           StoreCalls, nodeVars, workerVars, accVars, sumVars
<1> QED BY <1>2, <1>3 DEF TypeOK

\* The store calls of flushWorker keep every type.
LEMMA TypeFlushStep == TypeOK /\ FlushStep => TypeOK'
<1> SUFFICES ASSUME TypeOK, FlushStep PROVE TypeOK'
    OBVIOUS
<1>1. CASE FlushStopped
    <2>1. now \in 0..MaxTime
        BY DEF TypeOK, HubTypes
    <2>2. AccTypes' /\ batch' \in BatchType
        BY <1>1, <2>1, DrainType DEF FlushStopped
    <2>3. (NodeTypes /\ LoopTypes /\ HubTypes /\ StoreTypes /\ HistoryTypes)'
        BY <1>1, <2>2 DEF FlushStopped, TypeOK, NodeTypes, LoopTypes, HubTypes, StoreTypes,
                          HistoryTypes, nodeVars, storeVars, history
    <2> QED BY <2>2, <2>3 DEF TypeOK
<1>2. CASE SetLastOnline
    <2>1. HubTypes'
        <3>1. CASE batch.some
            BY <1>2, <3>1 DEF SetLastOnline, TypeOK, HubTypes
        <3>2. CASE ~batch.some
            BY <1>2, <3>2, FlushedType DEF SetLastOnline, TypeOK
        <3> QED BY <3>1, <3>2
    <2>2. lastOnline' \in Nat
        BY <1>2 DEF SetLastOnline, TypeOK, HubTypes, StoreTypes, BatchType
    <2>3. failed' \subseteq StoreCalls \cup {"crash"}
        BY <1>2, BoundsAssumption DEF SetLastOnline, TypeOK, HistoryTypes
    <2>4. (NodeTypes /\ LoopTypes /\ AccTypes /\ StoreTypes /\ HistoryTypes)'
        BY <1>2, <2>2, <2>3
           DEF SetLastOnline, TypeOK, NodeTypes, LoopTypes, AccTypes, StoreTypes, HistoryTypes,
               nodeVars, workerVars, accVars, sumVars
    <2> QED BY <2>1, <2>4 DEF TypeOK
<1>3. CASE InsertTrafficSamples
    BY <1>3, TypeWriteRows DEF InsertTrafficSamples, Tables
<1>4. CASE UpsertRollups
    BY <1>4, TypeWriteRows DEF UpsertRollups, Tables
<1>5. CASE UpsertIPStats
    <2>1. HubTypes'
        BY <1>5, FlushedType DEF UpsertIPStats, TypeOK
    <2>2. batch.acc \in MeterType /\ batch.active \in [IPs -> Nat] /\ batch.ips \subseteq IPs
        BY DEF TypeOK, HubTypes, BatchType
    <2>3. stored' \in MeterType
        BY <1>5, <2>2, PlusType DEF UpsertIPStats, TypeOK, StoreTypes
    <2>4. ipActive' \in [IPs -> Nat]
        BY <1>5, <2>2 DEF UpsertIPStats, TypeOK, StoreTypes
    <2>5. failed' \subseteq StoreCalls \cup {"crash"} /\ missed' \subseteq IPs
        BY <1>5, <2>2, BoundsAssumption DEF UpsertIPStats, TypeOK, HistoryTypes
    <2>6. (NodeTypes /\ LoopTypes /\ AccTypes /\ StoreTypes /\ HistoryTypes)'
        BY <1>5, <2>3, <2>4, <2>5
           DEF UpsertIPStats, TypeOK, NodeTypes, LoopTypes, AccTypes, StoreTypes, HistoryTypes,
               nodeVars, workerVars, accVars, sumVars
    <2> QED BY <2>1, <2>6 DEF TypeOK
<1> QED BY <1>1, <1>2, <1>3, <1>4, <1>5 DEF FlushStep

\* The ends of Reload and Stop keep every type.
LEMMA TypeReloadStep == TypeOK /\ ReloadStep => TypeOK'
<1> SUFFICES ASSUME TypeOK, ReloadStep PROVE TypeOK'
    OBVIOUS
<1>1. CASE RestartWorker
    BY <1>1, BoundsAssumption
       DEF RestartWorker, StartLoop, TypeOK, NodeTypes, LoopTypes, AccTypes, HubTypes,
           StoreTypes, HistoryTypes, nodeVars, accVars, sumVars, storeVars, history
<1>2. CASE ClearReplaced
    <2>1. LoopTypes' /\ AccTypes' /\ workers' \in Nat
        <3>1. CASE NewWorker \/ NoWorker
            BY <3>1, NewWorkerType DEF TypeOK
        <3>2. CASE UNCHANGED <<workerVars, workers>>
            BY <3>2 DEF TypeOK, LoopTypes, AccTypes, HistoryTypes, workerVars, accVars, sumVars
        <3> QED BY <1>2, <3>1, <3>2 DEF ClearReplaced
    <2>2. ipActive' \in [IPs -> Nat] /\ missed' \subseteq IPs
          /\ failed' \subseteq StoreCalls \cup {"crash"}
        BY <1>2, ZeroTypes, BoundsAssumption DEF ClearReplaced, TypeOK, StoreTypes, HistoryTypes
    <2>3. (NodeTypes /\ HubTypes /\ StoreTypes /\ HistoryTypes)'
        BY <1>2, <2>1, <2>2 DEF ClearReplaced, TypeOK, NodeTypes, HubTypes, StoreTypes,
                                HistoryTypes, nodeVars
    <2> QED BY <2>1, <2>3 DEF TypeOK
<1>3. CASE ClearOnShutdown
    <2>1. LoopTypes' /\ AccTypes' /\ workers' \in Nat
        BY <1>3, NewWorkerType DEF ClearOnShutdown, TypeOK
    <2>2. ipActive' \in [IPs -> Nat] /\ missed' \subseteq IPs
          /\ failed' \subseteq StoreCalls \cup {"crash"}
        BY <1>3, ZeroTypes, BoundsAssumption DEF ClearOnShutdown, TypeOK, StoreTypes, HistoryTypes
    <2>3. (NodeTypes /\ HubTypes /\ StoreTypes /\ HistoryTypes)'
        BY <1>3, <2>1, <2>2 DEF ClearOnShutdown, TypeOK, NodeTypes, HubTypes, StoreTypes,
                                HistoryTypes, nodeVars
    <2> QED BY <2>1, <2>3 DEF TypeOK
<1> QED BY <1>1, <1>2, <1>3 DEF ReloadStep

\* A Reload that wants the node again keeps every type.
LEMMA TypeStartWanted == TypeOK /\ StartWanted => TypeOK'
<1> SUFFICES ASSUME TypeOK, StartWanted PROVE TypeOK'
    OBVIOUS
<1>1. LoopTypes' /\ AccTypes' /\ workers' \in Nat
    BY NewWorkerType DEF StartWanted, TypeOK
<1>2. (NodeTypes /\ HubTypes /\ StoreTypes /\ HistoryTypes)'
    BY <1>1 DEF StartWanted, TypeOK, NodeTypes, HubTypes, StoreTypes, HistoryTypes,
                nodeVars, hubVars, storeVars
<1> QED BY <1>1, <1>2 DEF TypeOK

\* A crash keeps every type.
LEMMA TypeCrash == TypeOK /\ Crash => TypeOK'
<1> SUFFICES ASSUME TypeOK, Crash PROVE TypeOK'
    OBVIOUS
<1>1. LoopTypes' /\ AccTypes' /\ workers' \in Nat
    BY NewWorkerType DEF Crash, TypeOK
<1>2. HubTypes'
    BY NothingType DEF Crash, TypeOK, HubTypes
<1>3. (NodeTypes /\ StoreTypes /\ HistoryTypes)'
    BY <1>1 DEF Crash, TypeOK, NodeTypes, StoreTypes, HistoryTypes, nodeVars, storeVars
<1> QED BY <1>1, <1>2, <1>3 DEF TypeOK

\* Hub.Start of the next process keeps every type.
LEMMA TypeBoot == TypeOK /\ Boot => TypeOK'
<1> SUFFICES ASSUME TypeOK, Boot PROVE TypeOK'
    OBVIOUS
<1>1. LoopTypes' /\ AccTypes' /\ workers' \in Nat
    BY NewWorkerType DEF Boot, TypeOK
<1>2. ipActive' \in [IPs -> Nat] /\ missed' \subseteq IPs
      /\ failed' \subseteq StoreCalls \cup {"crash"}
    BY ZeroTypes, BoundsAssumption DEF Boot, TypeOK, StoreTypes, HistoryTypes
<1>3. (NodeTypes /\ HubTypes /\ StoreTypes /\ HistoryTypes)'
    BY <1>1, <1>2 DEF Boot, TypeOK, NodeTypes, HubTypes, StoreTypes, HistoryTypes, nodeVars
<1> QED BY <1>1, <1>3 DEF TypeOK

\* Every step keeps every type.
LEMMA TypeStep == TypeOK /\ [Next]_vars => TypeOK'
<1> SUFFICES ASSUME TypeOK, [Next]_vars PROVE TypeOK'
    OBVIOUS
<1>1. CASE UNCHANGED vars
    BY <1>1 DEF vars, TypeOK, NodeTypes, LoopTypes, AccTypes, HubTypes, StoreTypes,
                HistoryTypes, nodeVars, workerVars, accVars, sumVars, hubVars, storeVars, history
<1>2. CASE Next
    BY <1>2, TypeNodeStep, TypeLoopStep, TypeReadTraffic, TypeReadConnections, TypeClockTick,
       TypeFlushTick, TypeStopWorker, TypeGetNodeFails, TypeFlushStep, TypeReloadStep,
       TypeStartWanted, TypeCrash, TypeBoot
       DEF Next
<1> QED BY <1>1, <1>2

\* Every reachable state of worker, hub and store is well typed, whatever the
\* connections, the addresses, the bounds and the failing store calls are: in
\* particular the deltas applySnapshot computes are never negative.
THEOREM TypeCorrect == Spec => []TypeOK
<1>1. Init => TypeOK
    BY TypeInit
<1>2. TypeOK /\ [Next]_vars => TypeOK'
    BY TypeStep
<1> QED BY <1>1, <1>2, PTL DEF Spec
-----------------------------------------------------------------------------
(* The inductive invariant.                                                 *)

Flushing == hpc \in {"lastonline", "samples", "rollups", "ips"}

\* The worker has been stopped and drained, and its operation goes on.
Drained == op # "tick" /\ hpc \in {"lastonline", "samples", "rollups", "ips", "start", "clear"}

Empty == accKeys = {} /\ acc = ZeroMeters /\ active = ZeroIPs

Control ==
    /\ readers # {} => wpc = "streaming"
    /\ wpc \in {"opening", "streaming"} => online
    /\ wpc \in {"stopped", "absent"} => active = ZeroIPs
    /\ wpc = "absent" => Empty
    /\ Drained => wpc = "stopped" /\ Empty
    /\ hpc \in {"start", "clear"} => op # "tick"
    /\ hpc \in {"down", "crashed"} => wpc = "absent"
    /\ ~Flushing => batch = NoBatch
    /\ ~batch.some => batch.acc = ZeroMeters /\ batch.ips = {}

Fresh ==
    hpc # "crashed" =>
        \A ip \in batch.ips : batch.active[ip] > 0 /\ active[ip] = 0 => ip \in accKeys

\* Connection c between two frames: its counter has grown by what was moved
\* since the last frame, or has restarted since.
Balance(c, d) ==
    \/ /\ lastSeen[c][d] <= counter[c][d]
       /\ counter[c][d] + shown[c][d] = moved[c][d] + lastSeen[c][d]
    \/ counter[c][d] + shown[c][d] <= moved[c][d]

\* The accumulators only hold what belongs to an IP of ipAcc.
Keyed == \A c \in Conns, m \in Meters : acc[c][m] > 0 => SourceIP[c] \in accKeys

NodeLedger ==
    \A c \in Conns, d \in Dirs :
        /\ counter[c][d] <= moved[c][d]
        /\ shown[c][d] <= moved[c][d]
        /\ resets = 0 /\ life[c] # "closed" => counter[c][d] = moved[c][d]

MarkLedger ==
    \A c \in DOMAIN lastSeen :
        /\ life[c] # "new" /\ SourceIP[c] # NoIP
        /\ shown[c]["conns"] = 1
        /\ \A d \in Dirs : life[c] = "open" => Balance(c, d)
        /\ \A d \in Dirs : resets = 0 => lastSeen[c][d] = shown[c][d]

\* The first worker has not counted anything of a connection it has no mark of,
\* unless that connection is closed.
Unmarked ==
    workers = 1 /\ wpc # "absent" =>
        \A c \in Conns : life[c] # "closed" /\ c \notin DOMAIN lastSeen =>
            \A m \in Meters : Accounted(c, m) = 0

Ledger == workers >= 1 /\ Keyed /\ NodeLedger /\ MarkLedger /\ Unmarked

Counted == Ledger /\ NeverCountedTwice /\ NothingLost

IInv ==
    /\ TypeOK
    /\ Control
    /\ OfflineIsQuiet
    /\ NoStaleActive /\ Fresh
    /\ Counted
-----------------------------------------------------------------------------
(* Control.                                                                 *)

\* A Drain that found nothing hands over no IP and no delta.
LEMMA EmptyBatch ==
    /\ NoBatch.some = FALSE /\ NoBatch.acc = ZeroMeters /\ NoBatch.ips = {}
    /\ NoBatch.active = ZeroIPs
    /\ \A at : Nothing(at).some = FALSE /\ Nothing(at).acc = ZeroMeters /\ Nothing(at).ips = {}
BY DEF NoBatch, Nothing

\* A Drain that hands nothing over leaves nothing behind either.
LEMMA DrainEmpties ==
    ASSUME TypeOK, Keyed, NEW at \in 0..MaxTime, Drain(at), active = ZeroIPs
    PROVE  Empty'
<1>1. CASE NothingToDrain
    <2>1. acc = ZeroMeters
        <3>1. ASSUME NEW c \in Conns, NEW m \in Meters
              PROVE  acc[c][m] = 0
            BY <1>1 DEF NothingToDrain, Keyed, TypeOK, AccTypes, MeterType
        <3>2. acc \in [Conns -> [Meters -> Nat]]
            BY DEF TypeOK, AccTypes, MeterType
        <3>3. ASSUME NEW c \in Conns PROVE acc[c] = [m \in Meters |-> 0]
            BY <3>1, <3>2
        <3> QED BY <3>2, <3>3 DEF ZeroMeters
    <2> QED BY <1>1, <2>1 DEF Drain, NothingToDrain, Empty, accVars
<1>2. CASE ~NothingToDrain
    BY <1>2 DEF Drain, Empty
<1> QED BY <1>1, <1>2

\* Between its steps a flush keeps what Drain said of its batch.
LEMMA DrainBatch ==
    ASSUME NEW at \in 0..MaxTime, Drain(at)
    PROVE  ~batch'.some => batch'.acc = ZeroMeters /\ batch'.ips = {}
<1>1. CASE NothingToDrain
    BY <1>1, EmptyBatch DEF Drain
<1>2. CASE ~NothingToDrain
    BY <1>2 DEF Drain
<1> QED BY <1>1, <1>2

\* The control facts hold after Hub.Start.
LEMMA ControlInit == Init => Control
BY EmptyBatch DEF Init, Control, Drained, Flushing, Empty

\* Every step keeps the control facts: a reader runs only in a session, a session only online.
LEMMA ControlStep ==
    ASSUME TypeOK, Control, Keyed, [Next]_vars
    PROVE  Control'
<1> USE EmptyBatch DEF nodeVars, workerVars, accVars, sumVars, hubVars, storeVars, history
<1>1. CASE UNCHANGED vars
    BY <1>1 DEF vars, Control, Drained, Flushing, Empty
<1>2. CASE NodeStep \/ ClockTick
    BY <1>2 DEF NodeStep, ClockTick, Control, Drained, Flushing, Empty
<1>3. CASE LoopStep
    <2> USE <1>3 DEF LoopStep, Control, Drained, Flushing, Empty
    <2>1. CASE Connect
        BY <2>1 DEF Connect
    <2>2. CASE OpenStreams
        BY <2>2 DEF OpenStreams
    <2>3. CASE SessionEnds
        BY <2>3 DEF SessionEnds, SessionOver, MarkOffline
    <2>4. CASE BackoffElapsed
        BY <2>4 DEF BackoffElapsed
    <2>5. CASE BackoffCancelled
        BY <2>5 DEF BackoffCancelled, MarkOffline
    <2>6. CASE \E r \in Readers : ReaderFails(r)
        BY <2>6 DEF ReaderFails
    <2> QED BY <2>1, <2>2, <2>3, <2>4, <2>5, <2>6
<1>4. CASE ReadTraffic
    BY <1>4 DEF ReadTraffic, AccumulateTraffic, Control, Drained, Flushing, Empty
<1>5. CASE ReadConnections
    <2>1. wpc = "streaming" /\ ~Drained
        BY <1>5 DEF ReadConnections, Control
    <2> QED BY <1>5, <2>1
            DEF ReadConnections, ApplySnapshot, Control, Drained, Flushing, Empty
<1>6. CASE FlushTick
    <2>1. PICK at \in 0..now : Drain(at)
        BY <1>6 DEF FlushTick
    <2>2. at \in 0..MaxTime
        BY BoundsAssumption DEF TypeOK, HubTypes
    <2>3. ~batch'.some => batch'.acc = ZeroMeters /\ batch'.ips = {}
        BY <2>1, <2>2, DrainBatch
    <2>4. active' = active
        BY <2>1 DEF Drain
    <2> QED BY <1>6, <2>3, <2>4 DEF FlushTick, Control, Drained, Flushing
<1>7. CASE \E o \in {"restart", "replace", "shutdown"} : StopWorker(o)
    BY <1>7 DEF StopWorker, Control, Drained, Flushing, Empty
<1>8. CASE GetNodeFails
    BY <1>8 DEF GetNodeFails, Control, Drained, Flushing, Empty
<1>9. CASE FlushStep
    <2>1. CASE FlushStopped
        <3>1. now \in 0..MaxTime /\ active = ZeroIPs /\ Drain(now)
            BY <2>1 DEF FlushStopped, TypeOK, HubTypes, Control
        <3>2. Empty'
            BY <3>1, DrainEmpties
        <3>3. ~batch'.some => batch'.acc = ZeroMeters /\ batch'.ips = {}
            BY <3>1, DrainBatch
        <3> QED BY <2>1, <3>2, <3>3 DEF FlushStopped, Control, Drained, Flushing, Empty
    <2>2. CASE SetLastOnline
        <3>1. CASE batch.some
            BY <2>2, <3>1 DEF SetLastOnline, Control, Drained, Flushing, Empty
        <3>2. CASE ~batch.some
            BY <2>2, <3>2 DEF SetLastOnline, Flushed, AfterFlush, Control, Drained, Flushing,
                              Empty, TypeOK, HubTypes
        <3> QED BY <3>1, <3>2
    <2>3. CASE InsertTrafficSamples \/ UpsertRollups
        BY <2>3 DEF InsertTrafficSamples, UpsertRollups, WriteRows, Control, Drained, Flushing,
                    Empty
    <2>4. CASE UpsertIPStats
        BY <2>4 DEF UpsertIPStats, Flushed, AfterFlush, Control, Drained, Flushing, Empty,
                    TypeOK, HubTypes
    <2> QED BY <1>9, <2>1, <2>2, <2>3, <2>4 DEF FlushStep
<1>10. CASE ReloadStep
    <2>1. CASE RestartWorker
        BY <2>1 DEF RestartWorker, StartLoop, Control, Drained, Flushing, Empty
    <2>2. CASE ClearReplaced
        BY <2>2 DEF ClearReplaced, NewWorker, NoWorker, FreshWorker, StartLoop, Control, Drained,
                    Flushing, Empty
    <2>3. CASE ClearOnShutdown
        BY <2>3 DEF ClearOnShutdown, NoWorker, FreshWorker, Control, Drained, Flushing, Empty
    <2> QED BY <1>10, <2>1, <2>2, <2>3 DEF ReloadStep
<1>11. CASE StartWanted \/ Boot
    BY <1>11 DEF StartWanted, Boot, NewWorker, FreshWorker, StartLoop, Control, Drained,
                 Flushing, Empty
<1>12. CASE Crash
    BY <1>12 DEF Crash, NoWorker, FreshWorker, Control, Drained, Flushing, Empty
<1> QED BY <1>1, <1>2, <1>3, <1>4, <1>5, <1>6, <1>7, <1>8, <1>9, <1>10, <1>11, <1>12 DEF Next
-----------------------------------------------------------------------------
(* A node that is offline is quiet.                                         *)

\* A worker that has just started is quiet.
LEMMA QuietInit == Init => OfflineIsQuiet
BY DEF Init, OfflineIsQuiet, ZeroIPs

\* Every step keeps an offline worker quiet: no reader outlives its session.
LEMMA QuietStep ==
    ASSUME TypeOK, Control, OfflineIsQuiet, [Next]_vars
    PROVE  OfflineIsQuiet'
<1> USE DEF nodeVars, workerVars, accVars, sumVars, hubVars, storeVars, history
<1>1. ASSUME UNCHANGED <<online, rate, active>>
      PROVE  OfflineIsQuiet'
    BY <1>1 DEF OfflineIsQuiet
<1>2. CASE LoopStep
    <2>1. CASE SessionEnds \/ BackoffCancelled
        BY <2>1 DEF SessionEnds, BackoffCancelled, MarkOffline, OfflineIsQuiet, ZeroIPs
    <2>2. CASE Connect
        BY <2>2 DEF Connect, OfflineIsQuiet
    <2>3. CASE OpenStreams \/ BackoffElapsed \/ \E r \in Readers : ReaderFails(r)
        BY <1>1, <2>3 DEF OpenStreams, BackoffElapsed, ReaderFails
    <2> QED BY <1>2, <2>1, <2>2, <2>3 DEF LoopStep
<1>3. CASE ReadTraffic \/ ReadConnections
    \* A reader is running: the session has not returned and the worker is online.
    <2>1. online
        BY <1>3 DEF ReadTraffic, ReadConnections, Control
    <2>2. online' = online
        BY <1>3 DEF ReadTraffic, AccumulateTraffic, ReadConnections, ApplySnapshot
    <2> QED BY <2>1, <2>2 DEF OfflineIsQuiet
<1>4. CASE FlushTick \/ FlushStopped
    BY <1>1, <1>4 DEF FlushTick, FlushStopped, Drain
<1>5. ASSUME FreshWorker PROVE OfflineIsQuiet'
    BY <1>5 DEF FreshWorker, OfflineIsQuiet, ZeroIPs
<1>6. CASE ReloadStep
    BY <1>1, <1>5, <1>6 DEF ReloadStep, RestartWorker, ClearReplaced, ClearOnShutdown,
                            NewWorker, NoWorker
<1>7. CASE StartWanted \/ Boot \/ Crash
    BY <1>5, <1>7 DEF StartWanted, Boot, Crash, NewWorker, NoWorker
<1>8. CASE UNCHANGED vars \/ NodeStep \/ ClockTick \/ GetNodeFails
           \/ \E o \in {"restart", "replace", "shutdown"} : StopWorker(o)
    BY <1>1, <1>8 DEF vars, NodeStep, ClockTick, GetNodeFails, StopWorker
<1>9. CASE SetLastOnline \/ InsertTrafficSamples \/ UpsertRollups \/ UpsertIPStats
    BY <1>1, <1>9 DEF SetLastOnline, InsertTrafficSamples, UpsertRollups, WriteRows, UpsertIPStats
<1> QED BY <1>2, <1>3, <1>4, <1>6, <1>7, <1>8, <1>9 DEF Next, FlushStep
-----------------------------------------------------------------------------
(* No IP stays active.                                                      *)

\* No row is active after Hub.Start has cleared them.
LEMMA StaleInit == Init => NoStaleActive /\ Fresh
BY EmptyBatch DEF Init, NoStaleActive, Fresh, Written, ZeroIPs

\* Every step keeps track of the IPs whose stored count is stale.
LEMMA StaleStep ==
    ASSUME TypeOK, Control, NoStaleActive, Fresh, Keyed, [Next]_vars
    PROVE  NoStaleActive' /\ Fresh'
<1> USE EmptyBatch DEF nodeVars, workerVars, accVars, sumVars, hubVars, storeVars, history
\* Steps that touch neither the batch nor the store, and add to ipAcc every IP
\* they take out of perIPActive.
<1>1. ASSUME UNCHANGED <<batch, ipActive, missed>>, hpc' # "crashed" => hpc # "crashed",
             \A ip \in IPs : active'[ip] = 0 /\ active[ip] > 0 => ip \in accKeys',
             accKeys \subseteq accKeys'
      PROVE  NoStaleActive' /\ Fresh'
    BY <1>1 DEF NoStaleActive, Fresh, Written, TypeOK, AccTypes, HubTypes, BatchType
<1>2. CASE UNCHANGED vars \/ NodeStep \/ ClockTick \/ GetNodeFails \/ ReadTraffic
           \/ \E o \in {"restart", "replace", "shutdown"} : StopWorker(o)
    BY <1>1, <1>2 DEF vars, NodeStep, ClockTick, GetNodeFails, ReadTraffic, AccumulateTraffic,
                      StopWorker
<1>3. CASE LoopStep
    <2>1. CASE SessionEnds \/ BackoffCancelled
        BY <1>1, <1>3, <2>1 DEF LoopStep, SessionEnds, BackoffCancelled, MarkOffline
    <2>2. CASE Connect \/ OpenStreams \/ BackoffElapsed \/ \E r \in Readers : ReaderFails(r)
        BY <1>1, <1>3, <2>2 DEF LoopStep, Connect, OpenStreams, BackoffElapsed, ReaderFails
    <2> QED BY <1>3, <2>1, <2>2 DEF LoopStep
<1>4. CASE ReadConnections
    <2>1. \A ip \in IPs : active'[ip] = 0 /\ active[ip] > 0 => ip \in accKeys'
        BY <1>4 DEF ReadConnections, ApplySnapshot, Changed
    <2> QED BY <1>1, <1>4, <2>1 DEF ReadConnections, ApplySnapshot
<1>5. ASSUME NEW at \in 0..MaxTime, Drain(at), batch = NoBatch,
             UNCHANGED <<ipActive, missed>>, hpc # "crashed", hpc' # "crashed"
      PROVE  NoStaleActive' /\ Fresh'
    <2>1. CASE NothingToDrain
        BY <1>5, <2>1 DEF Drain, NoStaleActive, Fresh, Written
    <2>2. CASE ~NothingToDrain
        <3>1. batch'.ips = accKeys \cup {ip \in IPs : active[ip] > 0} /\ batch'.active = active
              /\ active' = active
            BY <1>5, <2>2 DEF Drain
        <3>2. ASSUME NEW ip \in IPs \ missed, Written(ip)' > 0, active'[ip] = 0
              PROVE  FALSE
            <4>1. ip \notin batch'.ips
                BY <3>1, <3>2 DEF Written
            <4>2. ipActive[ip] > 0 /\ ip \notin accKeys
                BY <1>5, <3>1, <3>2, <4>1 DEF Written
            <4>3. Written(ip) = ipActive[ip]
                BY <1>5 DEF Written
            <4> QED BY <1>5, <3>1, <3>2, <4>2, <4>3 DEF NoStaleActive
        <3>3. Fresh'
            BY <3>1 DEF Fresh, TypeOK, AccTypes
        <3> QED BY <1>5, <3>2, <3>3 DEF NoStaleActive
    <2> QED BY <2>1, <2>2
<1>6. CASE FlushTick
    BY <1>5, <1>6, BoundsAssumption DEF FlushTick, TypeOK, HubTypes, Control, Flushing
<1>7. CASE FlushStopped
    BY <1>5, <1>7 DEF FlushStopped, TypeOK, HubTypes, Control, Flushing
<1>8. CASE SetLastOnline
    <2>1. CASE batch.some
        BY <1>1, <1>8, <2>1 DEF SetLastOnline
    <2>2. CASE ~batch.some
        BY <1>8, <2>2 DEF SetLastOnline, Flushed, Control, NoStaleActive, Fresh, Written
    <2> QED BY <2>1, <2>2
<1>9. CASE InsertTrafficSamples \/ UpsertRollups
    BY <1>1, <1>9 DEF InsertTrafficSamples, UpsertRollups, WriteRows
<1>10. CASE UpsertIPStats
    <2>1. batch' = NoBatch /\ hpc # "crashed"
        BY <1>10 DEF UpsertIPStats, Flushed
    <2>2. Fresh'
        BY <2>1 DEF Fresh
    <2>3. ASSUME NEW ip \in IPs \ missed', Written(ip)' > 0, active'[ip] = 0
          PROVE  ip \in accKeys'
        <3>1. Written(ip)' = ipActive'[ip] /\ active' = active /\ accKeys' = accKeys
            BY <1>10, <2>1 DEF UpsertIPStats, Written
        <3>2. CASE ip \in batch.ips
            BY <1>10, <2>1, <2>3, <3>1, <3>2 DEF UpsertIPStats, Fresh
        <3>3. CASE ip \notin batch.ips
            BY <1>10, <2>1, <2>3, <3>1, <3>3 DEF UpsertIPStats, NoStaleActive, Written
        <3> QED BY <3>2, <3>3
    <2> QED BY <2>2, <2>3 DEF NoStaleActive
<1>11. ASSUME ipActive' = ZeroIPs, batch' = NoBatch
       PROVE  NoStaleActive' /\ Fresh'
    BY <1>11 DEF NoStaleActive, Fresh, Written, ZeroIPs
<1>12. CASE ReloadStep
    <2>1. CASE RestartWorker
        BY <1>1, <2>1 DEF RestartWorker
    <2>2. CASE ClearReplaced
        <3>1. batch' = NoBatch
            BY <2>2 DEF ClearReplaced, Control, Flushing
        <3> QED BY <1>1, <1>11, <2>2, <3>1 DEF ClearReplaced
    <2>3. CASE ClearOnShutdown
        <3>1. batch' = NoBatch /\ batch = NoBatch /\ hpc # "crashed" /\ Empty
            BY <2>3 DEF ClearOnShutdown, Control, Flushing, Drained
        <3>2. CASE ipActive' = ZeroIPs
            BY <1>11, <3>1, <3>2
        <3>3. CASE UNCHANGED <<ipActive, missed>>
            <4>1. \A ip \in IPs \ missed : ~(ipActive[ip] > 0)
                BY <3>1 DEF NoStaleActive, Written, Empty, ZeroIPs
            <4> QED BY <3>1, <3>3, <4>1 DEF NoStaleActive, Fresh, Written
        <3> QED BY <2>3, <3>2, <3>3 DEF ClearOnShutdown
    <2> QED BY <1>12, <2>1, <2>2, <2>3 DEF ReloadStep
<1>13. CASE StartWanted
    <2>1. Empty /\ FreshWorker /\ hpc = "idle"
        BY <1>13 DEF StartWanted, NewWorker, Control
    <2> QED BY <1>1, <1>13, <2>1 DEF StartWanted, FreshWorker, Empty, ZeroIPs
<1>14. CASE Crash
    BY <1>14 DEF Crash, NoStaleActive, Fresh
<1>15. CASE Boot
    <2>1. batch' = NoBatch
        BY <1>15 DEF Boot, Control, Flushing
    <2>2. CASE ipActive' = ZeroIPs
        BY <1>11, <2>1, <2>2
    <2>3. CASE missed' = {ip \in IPs : ipActive[ip] > 0} /\ UNCHANGED ipActive
        BY <2>1, <2>3 DEF NoStaleActive, Fresh, Written
    <2> QED BY <1>15, <2>2, <2>3 DEF Boot
<1> QED BY <1>2, <1>3, <1>4, <1>6, <1>7, <1>8, <1>9, <1>10, <1>12, <1>13, <1>14, <1>15
        DEF Next, FlushStep
-----------------------------------------------------------------------------
(* The counters of the source IPs.                                          *)

\* What is accounted for is a natural number.
LEMMA AccountedType ==
    ASSUME TypeOK, NEW c \in Conns, NEW m \in Meters
    PROVE  /\ Accounted(c, m) \in Nat
           /\ stored[c][m] \in Nat /\ batch.acc[c][m] \in Nat /\ acc[c][m] \in Nat
           /\ shown[c][m] \in Nat
BY DEF Accounted, TypeOK, AccTypes, HubTypes, StoreTypes, HistoryTypes, BatchType, MeterType

\* The same in the next state.
LEMMA AccountedTypeNext ==
    ASSUME TypeOK', NEW c \in Conns, NEW m \in Meters
    PROVE  Accounted(c, m)' \in Nat
BY DEF Accounted, TypeOK, AccTypes, HubTypes, StoreTypes, HistoryTypes, BatchType, MeterType

\* Nothing is shown and nothing accounted for at the start.
LEMMA CountedInit == Init => Counted
<1> SUFFICES ASSUME Init PROVE Counted
    OBVIOUS
<1>1. \A c \in Conns, m \in Meters :
          acc[c][m] = 0 /\ Accounted(c, m) = 0 /\ shown[c][m] = 0
    BY EmptyBatch DEF Init, Accounted, ZeroMeters
<1>2. \A c \in Conns, d \in Dirs : counter[c][d] = 0 /\ moved[c][d] = 0 /\ shown[c][d] = 0
    BY <1>1 DEF Init, ZeroDirs, Meters
<1>3. DOMAIN lastSeen = {}
    BY ZeroTypes DEF Init
<1>4. Keyed /\ workers >= 1
    BY <1>1 DEF Keyed, Init
<1>5. NodeLedger
    BY <1>2 DEF NodeLedger
<1>6. MarkLedger /\ Unmarked
    BY <1>1, <1>3 DEF MarkLedger, Unmarked
<1>7. NeverCountedTwice /\ NothingLost
    BY <1>1 DEF NeverCountedTwice, NothingLost
<1> QED BY <1>4, <1>5, <1>6, <1>7 DEF Counted, Ledger

\* A step that moves counts on from acc to batch to the store, or loses them to
\* a recorded failure, and that forgets marks only with the worker.
LEMMA CountedKept ==
    ASSUME TypeOK, TypeOK', Counted, Keyed',
           UNCHANGED <<life, counter, moved, resets, shown>>,
           failed \subseteq failed',
           \/ workers' = workers + 1 /\ lastSeen' = NoMarks
           \/ workers' = workers /\ lastSeen' = NoMarks /\ wpc' = "absent"
           \/ workers' = workers /\ lastSeen' = lastSeen /\ (wpc = "absent" => wpc' = "absent"),
           \A c \in Conns, m \in Meters : Accounted(c, m)' <= Accounted(c, m),
           {"ips", "crash"} \cap failed' = {} =>
               \A c \in Conns, m \in Meters : Accounted(c, m)' >= Accounted(c, m)
    PROVE  Counted'
<1>1. workers' >= 1 /\ (workers' = 1 => workers = 1)
    BY DEF Counted, Ledger, TypeOK, HistoryTypes
<1>2. NodeLedger'
    BY DEF Counted, Ledger, NodeLedger
<1>3. MarkLedger'
    <2>1. CASE lastSeen' = NoMarks
        BY <2>1, ZeroTypes DEF MarkLedger
    <2>2. CASE lastSeen' = lastSeen
        BY <2>2 DEF Counted, Ledger, MarkLedger, Balance
    <2> QED BY <2>1, <2>2
<1>4. Unmarked'
    <2>1. CASE workers' = workers + 1
        BY <2>1 DEF Unmarked, Counted, Ledger, TypeOK, HistoryTypes
    <2>2. CASE wpc' = "absent"
        BY <2>2 DEF Unmarked
    <2>3. CASE workers' = workers /\ lastSeen' = lastSeen /\ wpc # "absent"
        <3> SUFFICES ASSUME workers = 1, NEW c \in Conns, life[c] # "closed",
                            c \notin DOMAIN lastSeen, NEW m \in Meters
                     PROVE  Accounted(c, m)' = 0
            BY <2>3 DEF Unmarked
        <3>1. Accounted(c, m) = 0
            BY <2>3 DEF Unmarked, Counted, Ledger
        <3>2. Accounted(c, m)' \in Nat
            BY AccountedType, AccountedTypeNext
        <3> QED BY <3>1, <3>2
    <2> QED BY <2>1, <2>2, <2>3
<1>5. NeverCountedTwice'
    <2> SUFFICES ASSUME workers' = 1, NEW c \in Conns, NEW m \in Meters
                 PROVE  Accounted(c, m)' <= shown[c][m]
        BY DEF NeverCountedTwice
    <2>1. Accounted(c, m) <= shown[c][m]
        BY <1>1 DEF Counted, NeverCountedTwice
    <2>2. Accounted(c, m) \in Nat /\ Accounted(c, m)' \in Nat /\ shown[c][m] \in Nat
        BY AccountedType, AccountedTypeNext
    <2> QED BY <2>1, <2>2
<1>6. NothingLost'
    <2> SUFFICES ASSUME {"ips", "crash"} \cap failed' = {}, resets = 0,
                        NEW c \in Conns, NEW m \in Meters
                 PROVE  Accounted(c, m)' >= shown[c][m]
        BY DEF NothingLost
    <2>1. Accounted(c, m) >= shown[c][m]
        BY DEF Counted, NothingLost
    <2>2. Accounted(c, m) \in Nat /\ Accounted(c, m)' \in Nat /\ shown[c][m] \in Nat
        BY AccountedType, AccountedTypeNext
    <2> QED BY <2>1, <2>2
<1> QED BY <1>1, <1>2, <1>3, <1>4, <1>5, <1>6 DEF Counted, Ledger

\* The special case in which nothing is lost.
LEMMA CountedMoved ==
    ASSUME TypeOK, TypeOK', Counted, Keyed',
           UNCHANGED <<life, counter, moved, resets, shown>>,
           failed \subseteq failed',
           \/ workers' = workers + 1 /\ lastSeen' = NoMarks
           \/ workers' = workers /\ lastSeen' = NoMarks /\ wpc' = "absent"
           \/ workers' = workers /\ lastSeen' = lastSeen /\ (wpc = "absent" => wpc' = "absent"),
           \A c \in Conns, m \in Meters : Accounted(c, m)' = Accounted(c, m)
    PROVE  Counted'
<1>1. \A c \in Conns, m \in Meters :
          Accounted(c, m)' <= Accounted(c, m) /\ Accounted(c, m)' >= Accounted(c, m)
    BY AccountedType
<1> QED BY <1>1, CountedKept

\* The node's own steps.
LEMMA CountedNodeStep ==
    ASSUME TypeOK, TypeOK', Counted, NodeStep
    PROVE  Counted'
<1> USE DEF workerVars, accVars, sumVars, hubVars, storeVars, history
<1>1. PICK c \in Conns : OpenConn(c) \/ ResetCounters(c) \/ CloseConn(c)
                         \/ \E d \in Dirs : Transfer(c, d)
    BY DEF NodeStep
<1>2. UNCHANGED <<acc, accKeys, stored, batch, lastSeen, workers, wpc, shown, failed>>
    BY DEF NodeStep
<1>3. \A x \in Conns, m \in Meters : Accounted(x, m)' = Accounted(x, m)
    BY <1>2 DEF Accounted
<1>4. (resets' = 0 => resets = 0) /\ Keyed' /\ workers' >= 1
    BY <1>1, <1>2 DEF OpenConn, ResetCounters, CloseConn, Transfer, Counted, Ledger, Keyed,
                      TypeOK, NodeTypes
<1>5. NeverCountedTwice' /\ NothingLost'
    BY <1>2, <1>3, <1>4 DEF Counted, NeverCountedTwice, NothingLost
<1>6. \A x \in Conns : /\ life[x] = "closed" => life'[x] = "closed"
                       /\ life'[x] = "new" => life[x] = "new"
                       /\ life[x] # "new" => life'[x] # "new"
                       /\ life'[x] = "open" => life[x] = "open" \/ life[x] = "new"
    BY <1>1 DEF OpenConn, ResetCounters, CloseConn, Transfer, TypeOK, NodeTypes
<1>7. Unmarked'
    BY <1>2, <1>3, <1>6 DEF Counted, Ledger, Unmarked
\* What happens to one connection in one direction.
<1>8. ASSUME NEW x \in Conns, NEW d \in Dirs
      PROVE  \/ counter'[x][d] = counter[x][d] /\ moved'[x][d] = moved[x][d] /\ life'[x] = life[x]
             \/ counter'[x][d] = counter[x][d] /\ moved'[x][d] = moved[x][d] /\ life[x] = "new"
             \/ /\ counter'[x][d] = counter[x][d] + 1 /\ moved'[x][d] = moved[x][d] + 1
                /\ life'[x] = life[x]
             \/ counter'[x][d] = 0 /\ moved'[x][d] = moved[x][d] /\ resets' # 0 /\ life'[x] = life[x]
             \/ counter'[x][d] = 0 /\ moved'[x][d] = moved[x][d] /\ life'[x] = "closed"
    <2>1. CASE OpenConn(c)
        BY <2>1 DEF OpenConn, TypeOK, NodeTypes
    <2>2. CASE ResetCounters(c)
        BY <2>2 DEF ResetCounters, TypeOK, NodeTypes, ZeroDirs
    <2>3. CASE CloseConn(c)
        BY <2>3 DEF CloseConn, TypeOK, NodeTypes, ZeroDirs
    <2>4. ASSUME NEW e \in Dirs, Transfer(c, e)
          PROVE  \/ counter'[x][d] = counter[x][d] /\ moved'[x][d] = moved[x][d] /\ life'[x] = life[x]
                 \/ /\ counter'[x][d] = counter[x][d] + 1 /\ moved'[x][d] = moved[x][d] + 1
                    /\ life'[x] = life[x]
        BY <2>4 DEF Transfer, TypeOK, NodeTypes
    <2> QED BY <1>1, <2>1, <2>2, <2>3, <2>4
<1>9. ASSUME NEW x \in Conns, NEW d \in Dirs
      PROVE  /\ counter[x][d] \in Nat /\ moved[x][d] \in Nat /\ shown[x][d] \in Nat
             /\ x \in DOMAIN lastSeen => lastSeen[x][d] \in Nat
    BY DEF TypeOK, NodeTypes, AccTypes, HistoryTypes, MeterType, Meters
<1>10. NodeLedger'
    <2> SUFFICES ASSUME NEW x \in Conns, NEW d \in Dirs
                 PROVE  /\ counter'[x][d] <= moved'[x][d]
                        /\ shown[x][d] <= moved'[x][d]
                        /\ resets' = 0 /\ life'[x] # "closed" => counter'[x][d] = moved'[x][d]
        BY <1>2 DEF NodeLedger
    <2>1. /\ counter[x][d] <= moved[x][d]
          /\ shown[x][d] <= moved[x][d]
          /\ resets = 0 /\ life[x] # "closed" => counter[x][d] = moved[x][d]
        BY DEF Counted, Ledger, NodeLedger
    <2> QED BY <1>4, <1>6, <1>8, <1>9, <2>1
<1>11. MarkLedger'
    <2> SUFFICES ASSUME NEW x \in DOMAIN lastSeen
                 PROVE  /\ life'[x] # "new" /\ SourceIP[x] # NoIP
                        /\ shown[x]["conns"] = 1
                        /\ \A d \in Dirs : life'[x] = "open" => Balance(x, d)'
                        /\ \A d \in Dirs : resets' = 0 => lastSeen[x][d] = shown[x][d]
        BY <1>2 DEF MarkLedger
    <2>1. x \in Conns
        BY DEF TypeOK, AccTypes
    <2>2. /\ life[x] # "new" /\ SourceIP[x] # NoIP
          /\ shown[x]["conns"] = 1
          /\ \A d \in Dirs : life[x] = "open" => Balance(x, d)
          /\ \A d \in Dirs : resets = 0 => lastSeen[x][d] = shown[x][d]
        BY DEF Counted, Ledger, MarkLedger
    <2>3. ASSUME NEW d \in Dirs, life'[x] = "open"
          PROVE  Balance(x, d)'
        <3>1. Balance(x, d) /\ shown[x][d] <= moved[x][d]
            BY <1>6, <2>1, <2>2, <2>3 DEF Counted, Ledger, NodeLedger
        <3> QED BY <1>2, <1>8, <1>9, <2>1, <2>2, <2>3, <3>1 DEF Balance
    <2> QED BY <1>4, <1>6, <2>1, <2>2, <2>3
<1> QED BY <1>4, <1>5, <1>7, <1>10, <1>11 DEF Counted, Ledger

\* applySnapshot, for a connection of the frame: what it adds is covered by what
\* the connection moved since the last frame, and is all of it unless a counter
\* restarted.
LEMMA FrameDelta ==
    ASSUME TypeOK, Counted, NEW c \in Tracked, NEW m \in Meters
    PROVE  LET total == IF m \in Dirs THEN moved[c][m] ELSE 1
           IN  /\ workers = 1 /\ wpc # "absent" => Accounted(c, m) + Delta(c, m) <= total
               /\ {"ips", "crash"} \cap failed = {} /\ resets = 0
                      => Accounted(c, m) + Delta(c, m) >= total
<1> DEFINE total == IF m \in Dirs THEN moved[c][m] ELSE 1
<1>1. c \in Conns /\ life[c] = "open"
    BY DEF Tracked, Frame
<1>2. Accounted(c, m) \in Nat /\ shown[c][m] \in Nat
    BY <1>1, AccountedType
<1>3. workers = 1 => Accounted(c, m) <= shown[c][m]
    BY <1>1 DEF Counted, NeverCountedTwice
<1>4. {"ips", "crash"} \cap failed = {} /\ resets = 0 => Accounted(c, m) >= shown[c][m]
    BY <1>1 DEF Counted, NothingLost
<1>5. workers = 1 /\ wpc # "absent" /\ c \notin DOMAIN lastSeen => Accounted(c, m) = 0
    BY <1>1 DEF Counted, Ledger, Unmarked
<1>6. CASE m \in Dirs
    <2>1. /\ counter[c][m] \in Nat /\ moved[c][m] \in Nat
          /\ c \in DOMAIN lastSeen => lastSeen[c][m] \in Nat
        BY <1>1, <1>6 DEF TypeOK, NodeTypes, AccTypes
    <2>2. /\ counter[c][m] <= moved[c][m]
          /\ shown[c][m] <= moved[c][m]
          /\ resets = 0 => counter[c][m] = moved[c][m]
        BY <1>1, <1>6 DEF Counted, Ledger, NodeLedger
    <2>3. c \in DOMAIN lastSeen =>
             Balance(c, m) /\ (resets = 0 => lastSeen[c][m] = shown[c][m])
        BY <1>1, <1>6 DEF Counted, Ledger, MarkLedger
    <2>4. Delta(c, m) = ByteDelta(c, m) /\ total = moved[c][m]
        BY <1>6 DEF Delta
    <2>5. CASE c \notin DOMAIN lastSeen
        <3>1. ByteDelta(c, m) = counter[c][m]
            BY <2>5 DEF ByteDelta
        <3> QED BY <1>2, <1>5, <2>1, <2>2, <2>4, <2>5, <3>1
    <2>6. CASE c \in DOMAIN lastSeen /\ lastSeen[c][m] <= counter[c][m]
        <3>1. ByteDelta(c, m) = counter[c][m] - lastSeen[c][m]
            BY <2>6 DEF ByteDelta
        <3>2. counter[c][m] - lastSeen[c][m] + shown[c][m] <= moved[c][m]
            BY <1>2, <2>1, <2>3, <2>6 DEF Balance
        <3> QED BY <1>2, <1>3, <1>4, <2>1, <2>2, <2>3, <2>4, <2>6, <3>1, <3>2
    <2>7. CASE c \in DOMAIN lastSeen /\ ~(lastSeen[c][m] <= counter[c][m])
        <3>1. ByteDelta(c, m) = counter[c][m]
            BY <2>7 DEF ByteDelta
        <3>2. counter[c][m] + shown[c][m] <= moved[c][m]
            BY <2>3, <2>7 DEF Balance
        <3> QED BY <1>2, <1>3, <1>4, <2>1, <2>2, <2>3, <2>4, <2>7, <3>1, <3>2
    <2> QED BY <2>5, <2>6, <2>7
<1>7. CASE m \notin Dirs
    <2>1. m = "conns" /\ total = 1
        BY <1>7 DEF Meters
    <2>2. CASE c \in DOMAIN lastSeen
        <3>1. Delta(c, m) = 0 /\ shown[c][m] = 1
            BY <1>7, <2>1, <2>2 DEF Delta, Counted, Ledger, MarkLedger
        <3> QED BY <1>2, <1>3, <1>4, <2>1, <3>1
    <2>3. CASE c \notin DOMAIN lastSeen
        <3>1. Delta(c, m) = 1
            BY <1>7, <2>3 DEF Delta
        <3> QED BY <1>2, <1>5, <2>1, <2>3, <3>1
    <2> QED BY <2>2, <2>3
<1> QED BY <1>6, <1>7

\* applySnapshot adds to ipAcc what the frame shows for the first time, and no more.
LEMMA CountedReadConnections ==
    ASSUME TypeOK, TypeOK', Control, Counted, ReadConnections
    PROVE  Counted'
<1> USE DEF nodeVars, hubVars, storeVars
<1>1. wpc = "streaming" /\ wpc' = wpc /\ UNCHANGED <<workers, failed, life, counter, moved, resets>>
    BY DEF ReadConnections, Control
<1>2. UNCHANGED <<stored, batch>> /\ lastSeen' = [c \in Tracked |-> counter[c]]
    BY DEF ReadConnections, ApplySnapshot
<1>3. Tracked \subseteq Conns /\ \A c \in Tracked : life[c] = "open" /\ SourceIP[c] # NoIP
    BY DEF Tracked, Frame
<1>4. ASSUME NEW c \in Conns, NEW m \in Meters
      PROVE  /\ acc'[c][m] = acc[c][m] + (IF c \in Tracked THEN Delta(c, m) ELSE 0)
             /\ shown'[c][m] = IF c \notin Tracked THEN shown[c][m]
                               ELSE IF m \in Dirs THEN moved[c][m] ELSE 1
    BY DEF ReadConnections, ApplySnapshot
<1>5. ASSUME NEW c \in Conns, NEW m \in Meters
      PROVE  Accounted(c, m)' = Accounted(c, m) + (IF c \in Tracked THEN Delta(c, m) ELSE 0)
    <2>1. Delta(c, m) \in Nat
        BY DeltaType
    <2>2. stored[c][m] \in Nat /\ batch.acc[c][m] \in Nat /\ acc[c][m] \in Nat
        BY AccountedType
    <2> QED BY <1>2, <1>4, <2>1, <2>2 DEF Accounted
<1>6. Keyed'
    <2> SUFFICES ASSUME NEW c \in Conns, NEW m \in Meters, acc'[c][m] > 0
                 PROVE  SourceIP[c] \in accKeys'
        BY DEF Keyed
    <2>1. acc[c][m] \in Nat /\ Delta(c, m) \in Nat
        BY DeltaType, AccountedType
    <2>2. CASE acc[c][m] > 0
        BY <2>2 DEF Counted, Ledger, Keyed, ReadConnections, ApplySnapshot
    <2>3. CASE c \in Tracked /\ Delta(c, m) > 0
        BY <2>3 DEF ReadConnections, ApplySnapshot, Credited
    <2> QED BY <1>4, <2>1, <2>2, <2>3
<1>7. NodeLedger'
    <2> SUFFICES ASSUME NEW c \in Conns, NEW d \in Dirs PROVE shown'[c][d] <= moved[c][d]
        BY <1>1 DEF NodeLedger, Counted, Ledger
    <2>1. shown[c][d] <= moved[c][d] /\ moved[c][d] \in Nat
        BY DEF Counted, Ledger, NodeLedger, TypeOK, NodeTypes
    <2>2. d \in Meters
        BY DEF Meters
    <2> QED BY <1>4, <2>1, <2>2
<1>8. MarkLedger'
    <2> SUFFICES ASSUME NEW c \in Tracked
                 PROVE  /\ life[c] # "new" /\ SourceIP[c] # NoIP
                        /\ shown'[c]["conns"] = 1
                        /\ \A d \in Dirs : Balance(c, d)'
                        /\ \A d \in Dirs : resets = 0 => lastSeen'[c][d] = shown'[c][d]
        BY <1>1, <1>2 DEF MarkLedger
    <2>1. life[c] # "new" /\ SourceIP[c] # NoIP /\ c \in Conns
        BY <1>3
    <2>2. shown'[c]["conns"] = 1
        BY <1>4, <2>1, MetersAssumption DEF Meters
    <2>3. ASSUME NEW d \in Dirs
          PROVE  /\ shown'[c][d] = moved[c][d] /\ lastSeen'[c][d] = counter[c][d]
                 /\ counter[c][d] \in Nat /\ moved[c][d] \in Nat
        BY <1>2, <1>4, <2>1 DEF Meters, TypeOK, NodeTypes
    <2>4. ASSUME NEW d \in Dirs PROVE Balance(c, d)'
        BY <1>1, <2>3 DEF Balance
    <2>5. ASSUME NEW d \in Dirs, resets = 0 PROVE lastSeen'[c][d] = shown'[c][d]
        BY <1>3, <2>1, <2>3, <2>5 DEF Counted, Ledger, NodeLedger
    <2> QED BY <2>1, <2>2, <2>4, <2>5
<1>9. Unmarked'
    <2> SUFFICES ASSUME workers = 1, NEW c \in Conns, life[c] # "closed", c \notin Tracked,
                        NEW m \in Meters
                 PROVE  Accounted(c, m)' = 0
        BY <1>1, <1>2 DEF Unmarked
    <2>1. c \notin DOMAIN lastSeen
        BY DEF Counted, Ledger, MarkLedger, Tracked, Frame, TypeOK, NodeTypes
    <2>2. Accounted(c, m) = 0
        BY <1>1, <2>1 DEF Counted, Ledger, Unmarked
    <2> QED BY <1>5, <2>2
<1>10. NeverCountedTwice'
    <2> SUFFICES ASSUME workers = 1, NEW c \in Conns, NEW m \in Meters
                 PROVE  Accounted(c, m)' <= shown'[c][m]
        BY <1>1 DEF NeverCountedTwice
    <2>1. CASE c \in Tracked
        BY <1>1, <1>4, <1>5, <2>1, FrameDelta
    <2>2. CASE c \notin Tracked
        BY <1>4, <1>5, <2>2, AccountedType DEF Counted, NeverCountedTwice
    <2> QED BY <2>1, <2>2
<1>11. NothingLost'
    <2> SUFFICES ASSUME {"ips", "crash"} \cap failed = {}, resets = 0,
                        NEW c \in Conns, NEW m \in Meters
                 PROVE  Accounted(c, m)' >= shown'[c][m]
        BY <1>1 DEF NothingLost
    <2>1. CASE c \in Tracked
        BY <1>4, <1>5, <2>1, FrameDelta
    <2>2. CASE c \notin Tracked
        BY <1>4, <1>5, <2>2, AccountedType DEF Counted, NothingLost
    <2> QED BY <2>1, <2>2
<1> QED BY <1>1, <1>6, <1>7, <1>8, <1>9, <1>10, <1>11 DEF Counted, Ledger

\* Drain moves the accumulators into the batch.
LEMMA DrainMoves ==
    ASSUME TypeOK, Counted, NEW at \in 0..MaxTime, Drain(at), batch = NoBatch, UNCHANGED stored
    PROVE  /\ Keyed' /\ lastSeen' = lastSeen
           /\ \A c \in Conns, m \in Meters : Accounted(c, m)' = Accounted(c, m)
<1>1. \A c \in Conns, m \in Meters : batch.acc[c][m] = 0 /\ ZeroMeters[c][m] = 0
    BY EmptyBatch DEF ZeroMeters
<1>2. CASE NothingToDrain
    <2>1. acc' = acc /\ accKeys' = accKeys /\ lastSeen' = lastSeen /\ batch'.acc = ZeroMeters
        BY <1>2, EmptyBatch DEF Drain, accVars
    <2> QED BY <1>1, <2>1, AccountedType DEF Accounted, Counted, Ledger, Keyed
<1>3. CASE ~NothingToDrain
    <2>1. acc' = ZeroMeters /\ lastSeen' = lastSeen /\ batch'.acc = acc
        BY <1>3 DEF Drain
    <2> QED BY <1>1, <2>1, AccountedType DEF Accounted, Keyed
<1> QED BY <1>2, <1>3

\* Every step keeps the ledger balanced.
LEMMA CountedStep ==
    ASSUME TypeOK, TypeOK', Control, Counted, [Next]_vars
    PROVE  Counted'
<1> USE DEF nodeVars, workerVars, accVars, sumVars, hubVars, storeVars, history
<1>1. ASSUME UNCHANGED <<life, counter, moved, resets, shown, workers, lastSeen, stored, batch, acc>>,
             failed \subseteq failed', accKeys \subseteq accKeys',
             wpc = "absent" => wpc' = "absent"
      PROVE  Counted'
    <2>1. Keyed'
        BY <1>1 DEF Counted, Ledger, Keyed
    <2>2. \A c \in Conns, m \in Meters : Accounted(c, m)' = Accounted(c, m)
        BY <1>1 DEF Accounted
    <2> QED BY <1>1, <2>1, <2>2, CountedMoved
<1>2. CASE UNCHANGED vars \/ ClockTick \/ GetNodeFails \/ ReadTraffic
           \/ \E o \in {"restart", "replace", "shutdown"} : StopWorker(o)
    BY <1>1, <1>2 DEF vars, ClockTick, GetNodeFails, ReadTraffic, AccumulateTraffic, StopWorker
<1>3. CASE LoopStep
    <2>1. CASE SessionEnds \/ BackoffCancelled
        BY <1>1, <1>3, <2>1 DEF LoopStep, SessionEnds, SessionOver, BackoffCancelled, MarkOffline
    <2>2. CASE Connect \/ OpenStreams \/ BackoffElapsed \/ \E r \in Readers : ReaderFails(r)
        BY <1>1, <1>3, <2>2 DEF LoopStep, Connect, OpenStreams, BackoffElapsed, ReaderFails
    <2> QED BY <1>3, <2>1, <2>2 DEF LoopStep
<1>4. CASE NodeStep
    BY <1>4, CountedNodeStep
<1>5. CASE ReadConnections
    BY <1>5, CountedReadConnections
<1>6. CASE FlushTick
    <2>1. PICK at \in 0..now : Drain(at)
        BY <1>6 DEF FlushTick
    <2>2. at \in 0..MaxTime
        BY BoundsAssumption DEF TypeOK, HubTypes
    <2>3. batch = NoBatch /\ UNCHANGED stored
        BY <1>6 DEF FlushTick, Control, Flushing
    <2>4. Keyed' /\ lastSeen' = lastSeen
          /\ \A c \in Conns, m \in Meters : Accounted(c, m)' = Accounted(c, m)
        BY <2>1, <2>2, <2>3, DrainMoves
    <2> QED BY <1>6, <2>4, CountedMoved DEF FlushTick
<1>7. CASE FlushStopped
    <2>1. now \in 0..MaxTime /\ Drain(now) /\ batch = NoBatch /\ UNCHANGED stored
        BY <1>7 DEF FlushStopped, Control, Flushing, TypeOK, HubTypes
    <2>2. Keyed' /\ lastSeen' = lastSeen
          /\ \A c \in Conns, m \in Meters : Accounted(c, m)' = Accounted(c, m)
        BY <2>1, DrainMoves
    <2> QED BY <1>7, <2>2, CountedMoved DEF FlushStopped
<1>8. CASE SetLastOnline
    <2>1. batch'.acc = batch.acc
        BY <1>8, EmptyBatch DEF SetLastOnline, Flushed, Control
    <2>2. \A c \in Conns, m \in Meters : Accounted(c, m)' = Accounted(c, m)
        BY <1>8, <2>1 DEF SetLastOnline, Accounted
    <2>3. Keyed'
        BY <1>8 DEF SetLastOnline, Counted, Ledger, Keyed
    <2> QED BY <1>8, <2>2, <2>3, CountedMoved DEF SetLastOnline
<1>9. CASE InsertTrafficSamples \/ UpsertRollups
    BY <1>1, <1>9 DEF InsertTrafficSamples, UpsertRollups, WriteRows
<1>10. CASE UpsertIPStats
    <2>1. batch'.acc = ZeroMeters /\ acc' = acc
        BY <1>10, EmptyBatch DEF UpsertIPStats, Flushed
    <2>2. Keyed'
        BY <1>10 DEF UpsertIPStats, Counted, Ledger, Keyed
    <2>3. \A c \in Conns, m \in Meters : batch'.acc[c][m] = 0
        BY <2>1 DEF ZeroMeters
    <2>4. CASE stored' = Plus(stored, batch.acc)
        <3>1. \A c \in Conns, m \in Meters : Accounted(c, m)' = Accounted(c, m)
            BY <2>1, <2>3, <2>4, AccountedType DEF Accounted, Plus
        <3> QED BY <1>10, <2>2, <3>1, CountedMoved DEF UpsertIPStats
    <2>5. CASE "ips" \in failed' /\ UNCHANGED stored
        <3>1. \A c \in Conns, m \in Meters : Accounted(c, m)' <= Accounted(c, m)
            BY <2>1, <2>3, <2>5, AccountedType DEF Accounted
        <3> QED BY <1>10, <2>2, <2>5, <3>1, CountedKept DEF UpsertIPStats
    <2> QED BY <1>10, <2>4, <2>5 DEF UpsertIPStats
\* A worker is replaced by a fresh one, or removed, only when it is drained.
<1>11. ASSUME NewWorker \/ NoWorker, acc = ZeroMeters,
              UNCHANGED <<life, counter, moved, resets, shown, stored, batch>>,
              failed \subseteq failed'
       PROVE  Counted'
    <2>1. acc' = acc /\ lastSeen' = NoMarks
        BY <1>11 DEF NewWorker, NoWorker, FreshWorker
    <2>2. \A c \in Conns, m \in Meters : Accounted(c, m)' = Accounted(c, m)
        BY <1>11, <2>1 DEF Accounted
    <2>3. Keyed'
        BY <1>11, <2>1 DEF Keyed, ZeroMeters
    <2> QED BY <1>11, <2>1, <2>2, <2>3, CountedMoved DEF NewWorker, NoWorker
<1>12. CASE ReloadStep
    <2>1. CASE RestartWorker
        BY <1>1, <2>1 DEF RestartWorker, StartLoop, Control, Drained
    <2>2. CASE ClearReplaced
        <3>1. acc = ZeroMeters
            BY <2>2 DEF ClearReplaced, Control, Drained, Empty
        <3> QED BY <1>1, <1>11, <2>2, <3>1 DEF ClearReplaced
    <2>3. CASE ClearOnShutdown
        <3>1. acc = ZeroMeters
            BY <2>3 DEF ClearOnShutdown, Control, Drained, Empty
        <3> QED BY <1>11, <2>3, <3>1 DEF ClearOnShutdown
    <2> QED BY <1>12, <2>1, <2>2, <2>3 DEF ReloadStep
<1>13. CASE StartWanted \/ Boot
    <2>1. acc = ZeroMeters
        BY <1>13 DEF StartWanted, Boot, Control, Empty
    <2> QED BY <1>11, <1>13, <2>1 DEF StartWanted, Boot
<1>14. CASE Crash
    <2>1. batch'.acc = ZeroMeters /\ acc' = ZeroMeters /\ stored' = stored /\ lastSeen' = NoMarks
        BY <1>14, EmptyBatch DEF Crash, NoWorker, FreshWorker
    <2>2. \A c \in Conns, m \in Meters : Accounted(c, m)' <= Accounted(c, m)
        BY <2>1, AccountedType DEF Accounted, ZeroMeters
    <2>3. Keyed'
        BY <2>1 DEF Keyed, ZeroMeters
    <2> QED BY <1>14, <2>1, <2>2, <2>3, CountedKept DEF Crash, NoWorker
<1> QED BY <1>2, <1>3, <1>4, <1>5, <1>6, <1>7, <1>8, <1>9, <1>10, <1>12, <1>13, <1>14
        DEF Next, FlushStep
-----------------------------------------------------------------------------
(* The theorems.                                                            *)

\* IInv holds at the start and is kept by every step.
LEMMA Inductive ==
    /\ Init => IInv
    /\ IInv /\ [Next]_vars => IInv'
<1>1. Init => IInv
    BY TypeInit, ControlInit, QuietInit, StaleInit, CountedInit DEF IInv
<1>2. ASSUME IInv, [Next]_vars PROVE IInv'
    <2>1. TypeOK'
        BY <1>2, TypeStep DEF IInv
    <2>2. Keyed
        BY <1>2 DEF IInv, Counted, Ledger
    <2>3. Control'
        BY <1>2, <2>2, ControlStep DEF IInv
    <2>4. OfflineIsQuiet'
        BY <1>2, QuietStep DEF IInv
    <2>5. NoStaleActive' /\ Fresh'
        BY <1>2, <2>2, StaleStep DEF IInv
    <2>6. Counted'
        BY <1>2, <2>1, CountedStep DEF IInv
    <2> QED BY <2>1, <2>3, <2>4, <2>5, <2>6 DEF IInv
<1> QED BY <1>1, <1>2

\* IInv holds in every reachable state.
LEMMA Invariance == Spec => []IInv
<1>1. Init => IInv
    BY Inductive
<1>2. IInv /\ [Next]_vars => IInv'
    BY Inductive
<1> QED BY <1>1, <1>2, PTL DEF Spec

\* A worker that is offline shows no rate and no active connection: session
\* waits for both of its readers before markOffline runs.
THEOREM OfflineQuiet == Spec => []OfflineIsQuiet
<1>1. IInv => OfflineIsQuiet
    BY DEF IInv
<1> QED BY <1>1, Invariance, PTL

\* An IP that the store calls active and the worker no longer sees is in ipAcc,
\* whatever the frames, reconnects, reloads, failing store calls and crashes were.
THEOREM StaleActiveTracked == Spec => []NoStaleActive
<1>1. IInv => NoStaleActive
    BY DEF IInv
<1> QED BY <1>1, Invariance, PTL

\* While one worker object samples the node, applySnapshot, Drain and
\* UpsertIPStats never count a byte or a connection twice.
THEOREM CountedOnce == Spec => []NeverCountedTwice
<1>1. IInv => NeverCountedTwice
    BY DEF IInv, Counted
<1> QED BY <1>1, Invariance, PTL

\* Without a failed ip_stats batch, a crash or a counter restart, everything the
\* frames have shown is stored, in flight or accumulated, across any number of
\* workers.
THEOREM CountedAll == Spec => []NothingLost
<1>1. IInv => NothingLost
    BY DEF IInv, Counted
<1> QED BY <1>1, Invariance, PTL
===============================================================================
