----------------------------- MODULE TrafficProofs ----------------------------
(***************************************************************************)
(* The traffic tables of Sampler: no byte of the /traffic stream is lost or  *)
(* counted twice, the rollups nest, and samples and rollups agree, for every *)
(* clock, all bucket lengths that divide one another and every failure.      *)
(*                                                                          *)
(* The sums are recursive functions over the clock. What they compute is     *)
(* proved by least counterexample (Least): the first prefix on which two     *)
(* sums differ by something else than what was added cannot exist.           *)
(* TrafficInv adds to IInv of SamplerProofs                                  *)
(*   Spent    a flushed or absent worker holds no bytes, nor does an empty   *)
(*            batch: replacing the worker then loses none;                   *)
(*   Matched  SamplesMatchRollups, also between the two transactions of a    *)
(*            flush, where the samples are ahead by the row in flight.       *)
(***************************************************************************)
EXTENDS SamplerProofs, WellFoundedInduction
-----------------------------------------------------------------------------
(* Sums over the rows of a table.                                           *)

\* The clock is bounded by a number.
LEMMA TimeNat == MaxTime \in Nat
BY BoundsAssumption

\* A nonempty set of numbers has a least member.
LEMMA Least ==
    ASSUME NEW T \in SUBSET Nat, T # {}
    PROVE  \E x \in T : \A y \in T : x <= y
<1> DEFINE R == {p \in Nat \X Nat : p[1] < p[2]}
<1>1. IsWellFoundedOn(R, Nat)
    BY NatLessThanWellFounded, Zenon DEF OpToRel
<1>2. \A x, y \in Nat : <<y, x>> \in R <=> y < x
    OBVIOUS
<1> HIDE DEF R
<1>3. PICK x \in T : \A y \in T : ~(<<y, x>> \in R)
    BY <1>1, WFMin
<1>4. ASSUME NEW y \in T PROVE x <= y
  <2>1. x \in Nat /\ y \in Nat /\ ~(y < x)
      BY <1>2, <1>3
  <2> QED BY <2>1
<1> QED BY <1>4

\* u[n] is f[0] + ... + f[n], for n up to k.
Runs(u, f, k) == u \in [0..k -> Nat] /\ u[0] = f[0] /\ \A n \in 1..k : u[n] = u[n - 1] + f[n]

\* There are such partial sums.
LEMMA SumsExist ==
    ASSUME NEW f \in [0..MaxTime -> Nat]
    PROVE  \A k \in 0..MaxTime : \E u : Runs(u, f, k)
<1> SUFFICES ASSUME ~ \A k \in 0..MaxTime : \E u : Runs(u, f, k) PROVE FALSE
    OBVIOUS
<1> DEFINE T == {k \in 0..MaxTime : ~ \E u : Runs(u, f, k)}
<1>1. PICK k \in T : \A y \in T : k <= y
  <2>1. T # {}
      OBVIOUS
  <2>2. T \in SUBSET Nat
      BY TimeNat
  <2> HIDE DEF T
  <2> QED BY <2>1, <2>2, Least
<1>2. CASE k = 0
  <2>1. Runs([i \in 0..0 |-> f[0]], f, 0)
      BY TimeNat DEF Runs
  <2> QED BY <1>2, <2>1
<1>3. CASE k # 0
  <2>1. k \in Nat /\ k - 1 \in 0..MaxTime /\ k - 1 \notin T
      BY <1>1, <1>3, TimeNat
  <2>2. PICK u : Runs(u, f, k - 1)
      BY <2>1
  <2> DEFINE v == [i \in 0..k |-> IF i = k THEN u[k - 1] + f[k] ELSE u[i]]
  <2>3. v \in [0..k -> Nat]
      BY <1>3, <2>1, <2>2, TimeNat DEF Runs
  <2>4. v[0] = u[0] /\ v[k] = u[k - 1] + f[k] /\ \A i \in 0..(k - 1) : v[i] = u[i]
      BY <1>3, <2>1
  <2> HIDE DEF v
  <2>5. \A i \in 1..k : v[i] = v[i - 1] + f[i]
    <3> SUFFICES ASSUME NEW i \in 1..k PROVE v[i] = v[i - 1] + f[i]
        OBVIOUS
    <3>1. i - 1 \in 0..(k - 1)
        BY <2>1
    <3>2. CASE i = k
        BY <2>4, <3>1, <3>2
    <3>3. CASE i # k
      <4>1. i \in 1..(k - 1) /\ i \in 0..(k - 1)
          BY <2>1, <3>3
      <4> QED BY <2>2, <2>4, <3>1, <4>1 DEF Runs
    <3> QED BY <3>2, <3>3
  <2>6. Runs(v, f, k)
      BY <2>2, <2>3, <2>4, <2>5 DEF Runs
  <2> QED BY <2>6
<1> QED BY <1>2, <1>3

\* The recursive function of Total is one of them.
LEMMA TotalRuns ==
    ASSUME NEW f \in [0..MaxTime -> Nat]
    PROVE  \E u : Runs(u, f, MaxTime) /\ Total(f) = u[MaxTime]
<1> DEFINE Step(u) == [n \in 0..MaxTime |-> (IF n = 0 THEN 0 ELSE u[n - 1]) + f[n]]
<1> DEFINE w == CHOOSE u : u = Step(u)
<1>1. PICK u : Runs(u, f, MaxTime)
    BY SumsExist, TimeNat
<1>2. u = Step(u)
    BY <1>1, TimeNat DEF Runs
<1>3. w = Step(w)
  <2> HIDE DEF Step
  <2> QED BY <1>2, Zenon
<1>4. Total(f) = w[MaxTime]
    BY DEF Total
<1> HIDE DEF w
<1>5. w[0] = f[0] /\ \A n \in 1..MaxTime : w[n] = w[n - 1] + f[n]
    BY <1>3, TimeNat
<1>6. \A n \in 0..MaxTime : w[n] \in Nat
  <2> SUFFICES ASSUME ~ \A n \in 0..MaxTime : w[n] \in Nat PROVE FALSE
      OBVIOUS
  <2> DEFINE T == {n \in 0..MaxTime : w[n] \notin Nat}
  <2>1. PICK k \in T : \A y \in T : k <= y
    <3>1. T \in SUBSET Nat /\ T # {}
        BY TimeNat
    <3> HIDE DEF T
    <3> QED BY <3>1, Least
  <2>2. k \in Nat /\ k # 0
      BY <1>5, <2>1, TimeNat
  <2>3. w[k - 1] \in Nat
      BY <2>1, <2>2, TimeNat
  <2> QED BY <1>5, <2>1, <2>2, <2>3, TimeNat
<1>7. w \in [0..MaxTime -> Nat]
    BY <1>3, <1>6
<1> QED BY <1>4, <1>5, <1>7 DEF Runs

\* Adding to one summand adds as much to the total.
LEMMA TotalAdds ==
    ASSUME NEW f \in [0..MaxTime -> Nat], NEW k \in 0..MaxTime, NEW v \in Nat
    PROVE  Total([f EXCEPT ![k] = @ + v]) = Total(f) + v
<1> DEFINE g == [f EXCEPT ![k] = @ + v]
<1>0. g \in [0..MaxTime -> Nat] /\ g[k] = f[k] + v /\ \A i \in 0..MaxTime \ {k} : g[i] = f[i]
    OBVIOUS
<1> HIDE DEF g
<1>1. PICK a : Runs(a, f, MaxTime) /\ Total(f) = a[MaxTime]
    BY TotalRuns
<1>2. PICK b : Runs(b, g, MaxTime) /\ Total(g) = b[MaxTime]
    BY <1>0, TotalRuns
<1>3. \A i \in 0..MaxTime : b[i] = a[i] + IF i >= k THEN v ELSE 0
  <2> DEFINE T == {i \in 0..MaxTime : b[i] # a[i] + IF i >= k THEN v ELSE 0}
  <2> SUFFICES ASSUME T # {} PROVE FALSE
      OBVIOUS
  <2>1. PICK i \in T : \A y \in T : i <= y
    <3>1. T \in SUBSET Nat
        BY TimeNat
    <3> HIDE DEF T
    <3> QED BY <3>1, Least
  <2>2. i # 0
      BY <1>0, <1>1, <1>2, <2>1, TimeNat DEF Runs
  <2>3. i \in 1..MaxTime /\ i - 1 \in 0..MaxTime /\ i - 1 \notin T
      BY <2>1, <2>2, TimeNat
  <2>4. b[i - 1] = a[i - 1] + IF i - 1 >= k THEN v ELSE 0
      BY <2>3
  <2>5. b[i] = b[i - 1] + g[i] /\ a[i] = a[i - 1] + f[i]
      BY <1>1, <1>2, <2>3 DEF Runs
  <2>6. a[i] \in Nat /\ a[i - 1] \in Nat /\ f[i] \in Nat
      BY <1>1, <2>3, TimeNat DEF Runs
  <2> QED BY <1>0, <2>1, <2>3, <2>4, <2>5, <2>6
<1> QED BY <1>1, <1>2, <1>3, TimeNat DEF g

\* The sum of no bytes is zero.
LEMMA TotalZero ==
    ASSUME NEW f \in [0..MaxTime -> Nat], \A n \in 0..MaxTime : f[n] = 0
    PROVE  Total(f) = 0
<1>1. PICK a : Runs(a, f, MaxTime) /\ Total(f) = a[MaxTime]
    BY TotalRuns
<1> DEFINE T == {i \in 0..MaxTime : a[i] # 0}
<1> SUFFICES ASSUME T # {} PROVE FALSE
    BY <1>1, TimeNat
<1>2. PICK i \in T : \A y \in T : i <= y
  <2>1. T \in SUBSET Nat
      BY TimeNat
  <2> HIDE DEF T
  <2> QED BY <2>1, Least
<1>3. i # 0
    BY <1>1, <1>2, TimeNat DEF Runs
<1>4. i \in 1..MaxTime /\ i - 1 \in 0..MaxTime /\ i - 1 \notin T
    BY <1>2, <1>3, TimeNat
<1>5. a[i] = a[i - 1] + f[i] /\ a[i - 1] = 0 /\ f[i] = 0
    BY <1>1, <1>2, <1>4 DEF Runs
<1> QED BY <1>2, <1>5

\* Bytes of direction d in the rows S of one table.
Column(rows, S, d) == [u \in 0..MaxTime |-> IF u \in S THEN rows[u].bytes[d] ELSE 0]

\* An upsert adds its bytes to the sum of any set of rows that has its bucket.
LEMMA ColumnAdds ==
    ASSUME NEW rows \in [0..MaxTime -> RowType], NEW S, NEW d \in Dirs,
           NEW k \in 0..MaxTime, NEW row \in RowType,
           NEW new, new = [rows EXCEPT ![k] = UpsertRow(@, row)]
    PROVE  Total(Column(new, S, d)) = Total(Column(rows, S, d)) + IF k \in S THEN row.bytes[d] ELSE 0
<1> DEFINE f == Column(rows, S, d)
           g == Column(new, S, d)
           v == row.bytes[d]
<1>1. f \in [0..MaxTime -> Nat] /\ v \in Nat
    BY DEF Column, RowType
<1>2. \A u \in 0..MaxTime \ {k} : new[u] = rows[u]
    OBVIOUS
<1>3. new[k].bytes[d] = rows[k].bytes[d] + v
    BY DEF UpsertRow
<1>4. CASE k \in S
  <2>1. g = [f EXCEPT ![k] = @ + v]
    <3>1. g[k] = f[k] + v
        BY <1>3, <1>4 DEF Column
    <3>2. \A u \in 0..MaxTime \ {k} : g[u] = f[u]
        BY <1>2 DEF Column
    <3>3. g = [u \in 0..MaxTime |-> g[u]]
        BY DEF Column
    <3> HIDE DEF g, f, v
    <3> QED BY <1>1, <3>1, <3>2, <3>3
  <2> HIDE DEF f, g, v
  <2>2. Total(g) = Total(f) + v
      BY <1>1, <2>1, TotalAdds
  <2> QED BY <1>4, <2>2 DEF f, g, v
<1>5. CASE k \notin S
  <2>1. g = f
    <3>1. \A u \in 0..MaxTime : g[u] = f[u]
        BY <1>2, <1>5 DEF Column
    <3> QED BY <3>1 DEF Column
  <2>2. Total(f) \in Nat
    <3> HIDE DEF f
    <3> QED BY <1>1, TotalRuns, TimeNat DEF Runs
  <2> QED BY <1>5, <2>1, <2>2
<1> QED BY <1>4, <1>5
-----------------------------------------------------------------------------
(* Buckets.                                                                 *)

\* Division with remainder.
LEMMA Division ==
    ASSUME NEW u \in Nat, NEW c \in Nat \ {0}
    PROVE  /\ u \div c \in Nat /\ u % c \in 0..(c - 1)
           /\ u = c * (u \div c) + (u % c)
           /\ u % c <= u
<1>1. u \div c \in Nat /\ u % c \in 0..(c - 1) /\ u = c * (u \div c) + (u % c)
    OBVIOUS
<1>2. c * (u \div c) \in Nat
    BY <1>1
<1> QED BY <1>1, <1>2

\* It is unique.
LEMMA Remainder ==
    ASSUME NEW c \in Nat \ {0}, NEW q \in Nat, NEW r \in 0..(c - 1)
    PROVE  (c * q + r) % c = r
OBVIOUS

\* Where c is a multiple of f, cutting to multiples of f first changes nothing.
LEMMA CutTwice ==
    ASSUME NEW u \in Nat, NEW f \in Nat \ {0}, NEW c \in Nat \ {0}, c % f = 0
    PROVE  LET w == u - (u % f) IN w \in Nat /\ w % f = 0 /\ w - (w % c) = u - (u % c)
<1> DEFINE w == u - (u % f)
<1>1. PICK k \in Nat, q \in Nat, r \in 0..(c - 1) : c = f * k /\ u = c * q + r /\ u % c = r
  <2>1. c = f * (c \div f) /\ c \div f \in Nat
      BY Division
  <2>2. u = c * (u \div c) + (u % c) /\ u \div c \in Nat /\ u % c \in 0..(c - 1)
      BY Division
  <2> QED BY <2>1, <2>2
<1>2. PICK i \in Nat, j \in 0..(f - 1) : r = f * i + j /\ j <= r
  <2>0. r \in Nat
      OBVIOUS
  <2>1. r = f * (r \div f) + (r % f) /\ r \div f \in Nat /\ r % f \in 0..(f - 1) /\ r % f <= r
      BY <2>0, Division
  <2> QED BY <2>1
<1>3. u = f * (k * q + i) + j
    BY <1>1, <1>2
<1>4. k * q + i \in Nat
    BY <1>1, <1>2
<1>5. u % f = j
    BY <1>3, <1>4, Remainder
<1>6. w = f * (k * q + i) /\ w = c * q + (r - j)
  <2>1. w = u - j
      BY <1>5
  <2>2. f * (k * q + i) \in Nat /\ c * q \in Nat /\ r \in Nat /\ j \in Nat
      BY <1>1, <1>2, <1>4
  <2>3. w = f * (k * q + i)
      BY <1>3, <2>1, <2>2
  <2>4. w = c * q + (r - j)
      BY <1>1, <2>1, <2>2
  <2> QED BY <2>3, <2>4
<1> HIDE DEF w
<1>7. w % f = 0
  <2> DEFINE m == k * q + i
  <2>1. m \in Nat /\ w = f * m /\ 0 \in 0..(f - 1)
      BY <1>4, <1>6
  <2> HIDE DEF m
  <2>2. f * m + 0 = f * m
      BY <2>1
  <2>3. (f * m + 0) % f = 0
      BY <2>1, Remainder
  <2> QED BY <2>1, <2>2, <2>3
<1>8. w % c = r - j
  <2>1. r - j \in 0..(c - 1)
      BY <1>1, <1>2
  <2> QED BY <1>1, <1>6, <2>1, Remainder
<1>9. w \in Nat /\ w - (w % c) = u - (u % c)
  <2>1. c * q \in Nat /\ r - j \in Nat
      BY <1>1, <1>2
  <2> QED BY <1>1, <1>6, <1>8, <2>1
<1> QED BY <1>7, <1>9 DEF w

\* A bucket is named by its first second.
LEMMA BucketStart ==
    ASSUME NEW t \in Tables, NEW u \in 0..MaxTime
    PROVE  Bucket(t, u) \in 0..MaxTime /\ Bucket(t, Bucket(t, u)) = Bucket(t, u)
<1>0. u \in Nat /\ BucketLen[t] \in Nat \ {0}
    BY BoundsAssumption
<1>1. BucketLen[t] % BucketLen[t] = 0
    BY <1>0, BucketsAssumption
<1>2. u % BucketLen[t] \in Nat /\ u % BucketLen[t] <= u
  <2>1. ASSUME NEW b \in Nat \ {0} PROVE u % b \in Nat /\ u % b <= u
    <3>1. u % b \in 0..(b - 1) /\ u % b <= u
        BY <1>0, Division
    <3> QED BY <3>1
  <2> QED BY <1>0, <2>1
<1>3. Bucket(t, Bucket(t, u)) = Bucket(t, u)
    BY <1>0, <1>1, CutTwice DEF Bucket
<1> QED BY <1>0, <1>2, <1>3, TimeNat DEF Bucket

\* The bucket of a second in a finer table lies in its bucket of a coarser one.
LEMMA BucketsNest ==
    ASSUME NEW fine \in Tables, NEW coarse \in Tables, BucketLen[fine] <= BucketLen[coarse],
           NEW u \in 0..MaxTime
    PROVE  Bucket(coarse, Bucket(fine, u)) = Bucket(coarse, u)
<1>1. u \in Nat /\ {BucketLen[fine], BucketLen[coarse]} \subseteq Nat \ {0}
    BY BoundsAssumption
<1>2. BucketLen[coarse] % BucketLen[fine] = 0
    BY BucketsAssumption
<1> QED BY <1>1, <1>2, CutTwice DEF Bucket
-----------------------------------------------------------------------------
(* What is left to write.                                                   *)

\* A stopped and flushed worker, and an absent one, hold no bytes; an empty batch has none.
Spent ==
    /\ Drained \/ wpc = "absent" => sum = ZeroDirs
    /\ ~batch.some => batch.row = ZeroRow

\* Nothing was accumulated before the first frame.
LEMMA SpentInit == Init => Spent
BY DEF Init, Spent, NoBatch, Nothing

\* A Drain hands over all bytes, and an empty one none.
LEMMA DrainBytes ==
    ASSUME NEW at \in 0..MaxTime, Drain(at)
    PROVE  /\ sum' = ZeroDirs /\ batch'.at = at /\ batch'.row.bytes = sum
           /\ ~batch'.some => batch'.row = ZeroRow
<1>1. CASE NothingToDrain
    BY <1>1 DEF Drain, NothingToDrain, Nothing, ZeroRow, sumVars
<1>2. CASE ~NothingToDrain
    BY <1>2 DEF Drain
<1> QED BY <1>1, <1>2

\* Every step keeps a spent worker spent: its readers are gone.
LEMMA SpentStep ==
    ASSUME TypeOK, Control, Spent, [Next]_vars
    PROVE  Spent'
<1> USE DEF nodeVars, workerVars, accVars, sumVars, hubVars, storeVars, history
<1>0. NoBatch.row = ZeroRow /\ NoBatch.some = FALSE
    BY DEF NoBatch, Nothing
<1>1. ASSUME UNCHANGED <<sum, hpc, op, batch>>, wpc' = "absent" => wpc = "absent"
      PROVE  Spent'
    BY <1>1 DEF Spent, Drained
<1>2. CASE UNCHANGED vars \/ NodeStep \/ ClockTick
    BY <1>1, <1>2 DEF vars, NodeStep, ClockTick
<1>3. CASE LoopStep
    BY <1>1, <1>3 DEF LoopStep, Connect, OpenStreams, SessionEnds, BackoffElapsed,
                      BackoffCancelled, ReaderFails, MarkOffline
<1>4. CASE ReadTraffic
    <2>1. wpc = "streaming" /\ ~Drained
        BY <1>4 DEF ReadTraffic, Control
    <2> QED BY <1>4, <2>1 DEF ReadTraffic, Spent, Drained
<1>5. CASE ReadConnections
    BY <1>1, <1>5 DEF ReadConnections, ApplySnapshot
<1>6. CASE FlushTick \/ FlushStopped
    <2>1. PICK at \in 0..MaxTime : Drain(at)
        BY <1>6, TimeNat DEF FlushTick, FlushStopped, TypeOK, HubTypes
    <2> QED BY <2>1, DrainBytes DEF Spent
<1>7. CASE GetNodeFails \/ \E o \in {"restart", "replace", "shutdown"} : StopWorker(o)
    BY <1>7 DEF GetNodeFails, StopWorker, Spent, Drained
<1>8. CASE SetLastOnline
    <2>1. CASE batch.some
        BY <1>8, <2>1 DEF SetLastOnline, Spent, Drained
    <2>2. CASE ~batch.some
        BY <1>0, <1>8, <2>2 DEF SetLastOnline, Flushed, AfterFlush, Spent, Drained
    <2> QED BY <2>1, <2>2
<1>9. CASE InsertTrafficSamples \/ UpsertRollups
    BY <1>9 DEF InsertTrafficSamples, UpsertRollups, WriteRows, Spent, Drained
<1>10. CASE UpsertIPStats
    BY <1>0, <1>10 DEF UpsertIPStats, Flushed, AfterFlush, Spent, Drained
<1>11. CASE RestartWorker
    BY <1>11 DEF RestartWorker, StartLoop, Spent, Drained
<1>12. CASE ClearReplaced \/ ClearOnShutdown
    BY <1>12 DEF ClearReplaced, ClearOnShutdown, NewWorker, NoWorker, FreshWorker, Spent, Drained
<1>13. CASE StartWanted \/ Boot \/ Crash
    BY <1>0, <1>13 DEF StartWanted, Boot, Crash, NewWorker, NoWorker, FreshWorker, Spent
<1> QED BY <1>2, <1>3, <1>4, <1>5, <1>6, <1>7, <1>8, <1>9, <1>10, <1>11, <1>12, <1>13
        DEF Next, FlushStep, ReloadStep
-----------------------------------------------------------------------------
(* The rows a flush writes.                                                 *)

\* A flush's row is a traffic row, written under a time the clock has shown.
LEMMA BatchRow == TypeOK => batch.row \in RowType /\ batch.at \in 0..MaxTime
BY DEF TypeOK, HubTypes, BatchType

\* One transaction writes all of its tables, or fails and writes none.
LEMMA Wrote ==
    ASSUME TypeOK, NEW call, NEW ts \in SUBSET Tables, NEW next, WriteRows(call, ts, next)
    PROVE  \/ /\ UNCHANGED failed
              /\ \A t \in ts : table'[t] =
                     [table[t] EXCEPT ![Bucket(t, batch.at)] = UpsertRow(@, batch.row)]
              /\ \A t \in Tables \ ts : table'[t] = table[t]
           \/ failed' = failed \cup {call} /\ UNCHANGED table
BY DEF WriteRows, UpsertRows

\* What an upsert of table t adds to the sum over rows S.
LEMMA BytesAdd ==
    ASSUME TypeOK, NEW t \in Tables, NEW S, NEW d \in Dirs,
           table'[t] = [table[t] EXCEPT ![Bucket(t, batch.at)] = UpsertRow(@, batch.row)]
    PROVE  Total([u \in 0..MaxTime |-> IF u \in S THEN table'[t][u].bytes[d] ELSE 0])
             = BytesIn(t, S, d) + IF Bucket(t, batch.at) \in S THEN batch.row.bytes[d] ELSE 0
<1>1. Bucket(t, batch.at) \in 0..MaxTime
    BY BatchRow, BucketStart
<1>2. table[t] \in [0..MaxTime -> RowType]
    BY DEF TypeOK, StoreTypes
<1>3. batch.row \in RowType
    BY BatchRow
<1> DEFINE k == Bucket(t, batch.at)
<1> HIDE DEF k
<1>4. Total(Column(table'[t], S, d))
        = Total(Column(table[t], S, d)) + IF k \in S THEN batch.row.bytes[d] ELSE 0
    BY <1>1, <1>2, <1>3, ColumnAdds DEF k
<1> QED BY <1>4 DEF Column, BytesIn, k

\* A sum over rows is a number.
LEMMA BytesNat ==
    ASSUME TypeOK, NEW t \in Tables, NEW S, NEW d \in Dirs
    PROVE  BytesIn(t, S, d) \in Nat
<1> DEFINE f == [u \in 0..MaxTime |-> IF u \in S THEN table[t][u].bytes[d] ELSE 0]
<1>1. f \in [0..MaxTime -> Nat]
  <2>1. ASSUME NEW u \in 0..MaxTime PROVE table[t][u].bytes[d] \in Nat
    <3>1. table[t] \in [0..MaxTime -> RowType]
        BY DEF TypeOK, StoreTypes
    <3>2. table[t][u] \in RowType
        BY <3>1
    <3> QED BY <3>2 DEF RowType
  <2> QED BY <2>1
<1> HIDE DEF f
<1>2. Total(f) \in Nat
    BY <1>1, TotalRuns, TimeNat DEF Runs
<1> QED BY <1>2 DEF BytesIn, f

-----------------------------------------------------------------------------
(* The /traffic stream.                                                     *)

\* The node sends each direction under the key the panel's tag for it names.
KeysMatch == \A d \in Dirs, e \in Dirs : WireKey[e] = TagKey[d] <=> e = d

\* A frame with those keys is decoded to what it carries.
LEMMA DecodeAll ==
    ASSUME KeysMatch, NEW f \in [Dirs -> Nat]
    PROVE  Decode(f) = f
<1> SUFFICES ASSUME NEW d \in Dirs PROVE Decode(f)[d] = f[d]
    BY DEF Decode
<1>1. \E e \in Dirs : WireKey[e] = TagKey[d]
    BY DEF KeysMatch
<1>2. (CHOOSE e \in Dirs : WireKey[e] = TagKey[d]) = d
    BY <1>1 DEF KeysMatch
<1> QED BY <1>1, <1>2 DEF Decode

\* Bytes a flush has taken from the worker and not yet written to traffic_samples.
Pending(d) == IF hpc \in {"lastonline", "samples"} THEN batch.row.bytes[d] ELSE 0

\* The stream is empty and so is the table.
LEMMA ConservedInit == Init => TrafficConserved
<1> SUFFICES ASSUME Init, NEW d \in Dirs
             PROVE  received[d] = sum[d] + BytesIn("sample", 0..MaxTime, d) + 0
    BY DEF Init, TrafficConserved
<1> DEFINE f == [u \in 0..MaxTime |-> IF u \in 0..MaxTime THEN table["sample"][u].bytes[d] ELSE 0]
<1>1. f \in [0..MaxTime -> Nat] /\ \A u \in 0..MaxTime : f[u] = 0
  <2>1. \A u \in 0..MaxTime : table["sample"][u].bytes[d] = 0
      BY DEF Init, Tables, ZeroRow, ZeroDirs
  <2> QED BY <2>1
<1>2. BytesIn("sample", 0..MaxTime, d) = 0
  <2> HIDE DEF f
  <2>1. Total(f) = 0
      BY <1>1, TotalZero
  <2> QED BY <2>1 DEF f, BytesIn
<1>3. received[d] = 0 /\ sum[d] = 0
    BY DEF Init, ZeroDirs
<1> QED BY <1>2, <1>3

\* Every step moves bytes from the stream to the accumulators, from there to the
\* batch in flight and from there to the table, or loses them with a failure it records.
LEMMA ConservedStep ==
    ASSUME KeysMatch, TypeOK, TypeOK', Control, Spent, TrafficConserved, [Next]_vars
    PROVE  TrafficConserved'
<1> USE DEF nodeVars, workerVars, accVars, sumVars, hubVars, storeVars, history
<1> SUFFICES ASSUME {"samples", "crash"} \cap failed' = {}, NEW d \in Dirs
             PROVE  received'[d] = sum'[d] + BytesIn("sample", 0..MaxTime, d)' + Pending(d)'
    BY DEF TrafficConserved, Pending
<1> DEFINE B == BytesIn("sample", 0..MaxTime, d)
<1>0. received[d] \in Nat /\ sum[d] \in Nat /\ B \in Nat /\ batch.row.bytes[d] \in Nat
    BY BytesNat, BatchRow DEF TypeOK, HistoryTypes, AccTypes, RowType, Tables
<1>1. ASSUME {"samples", "crash"} \cap failed = {}
      PROVE  received[d] = sum[d] + B + Pending(d)
    BY <1>1 DEF TrafficConserved, Pending
<1>2. ASSUME table'["sample"] = table["sample"] PROVE B' = B
    BY <1>2 DEF BytesIn
<1>3. failed \subseteq failed' => {"samples", "crash"} \cap failed = {}
    OBVIOUS
<1> HIDE DEF B
<1>4. ASSUME UNCHANGED <<received, sum, table>>, failed \subseteq failed',
             UNCHANGED <<hpc, batch>> \/ (Pending(d) = 0 /\ Pending(d)' = 0)
      PROVE  received'[d] = sum'[d] + B' + Pending(d)'
  <2>1. Pending(d)' = Pending(d)
      BY <1>4 DEF Pending
  <2> QED BY <1>1, <1>2, <1>3, <1>4, <2>1
<1>5. CASE UNCHANGED vars \/ NodeStep \/ ClockTick \/ ReadConnections
    BY <1>4, <1>5 DEF vars, NodeStep, ClockTick, ReadConnections, ApplySnapshot, B
<1>6. CASE LoopStep
    BY <1>4, <1>6 DEF LoopStep, Connect, OpenStreams, SessionEnds, BackoffElapsed,
                      BackoffCancelled, ReaderFails, MarkOffline, B
<1>7. CASE ReadTraffic
    <2>1. PICK f \in [Dirs -> 0..MaxRate] :
              received' = [e \in Dirs |-> received[e] + f[e]] /\ AccumulateTraffic(Decode(f))
        BY <1>7 DEF ReadTraffic
    <2>2. f \in [Dirs -> Nat] /\ f[d] \in Nat
        BY BoundsAssumption
    <2>3. Decode(f) = f
        BY <2>2, DecodeAll
    <2>4. received'[d] = received[d] + f[d] /\ sum'[d] = sum[d] + f[d]
        BY <2>1, <2>3 DEF AccumulateTraffic
    <2>5. UNCHANGED <<table, hpc, batch, failed>>
        BY <1>7 DEF ReadTraffic
    <2>6. Pending(d)' = Pending(d) /\ Pending(d) \in Nat
        BY <1>0, <2>5 DEF Pending
    <2>7. B' = B /\ received[d] = sum[d] + B + Pending(d)
        BY <1>1, <1>2, <1>3, <2>5
    <2> QED BY <1>0, <2>2, <2>4, <2>6, <2>7 DEF B
<1>8. CASE FlushTick \/ FlushStopped
    <2>1. PICK at \in 0..MaxTime : Drain(at)
        BY <1>8, TimeNat DEF FlushTick, FlushStopped, TypeOK, HubTypes
    <2>2. sum'[d] = 0 /\ batch'.row.bytes[d] = sum[d]
        BY <2>1, DrainBytes DEF ZeroDirs
    <2>3. hpc \in {"idle", "stopping"} /\ hpc' = "lastonline" /\ UNCHANGED <<received, table, failed>>
        BY <1>8 DEF FlushTick, FlushStopped
    <2>4. Pending(d) = 0 /\ Pending(d)' = sum[d]
        BY <2>2, <2>3 DEF Pending
    <2>5. B' = B /\ received[d] = sum[d] + B + Pending(d)
        BY <1>1, <1>2, <1>3, <2>3
    <2> QED BY <1>0, <2>2, <2>3, <2>4, <2>5 DEF B
<1>9. CASE SetLastOnline
    <2>1. UNCHANGED <<received, sum, table>> /\ failed \subseteq failed' /\ hpc = "lastonline"
        BY <1>9 DEF SetLastOnline
    <2>2. Pending(d)' = Pending(d)
        <3>1. CASE batch.some
            BY <1>9, <3>1 DEF SetLastOnline, Pending
        <3>2. CASE ~batch.some
            <4>1. batch.row.bytes[d] = 0
                BY <3>2 DEF Spent, ZeroRow, ZeroDirs
            <4>2. hpc' \in {"idle", "start", "clear"}
                BY <1>9, <3>2 DEF SetLastOnline, Flushed, AfterFlush
            <4> QED BY <2>1, <4>1, <4>2 DEF Pending
        <3> QED BY <3>1, <3>2
    <2>3. B' = B /\ received[d] = sum[d] + B + Pending(d)
        BY <1>1, <1>2, <1>3, <2>1
    <2> QED BY <2>1, <2>2, <2>3 DEF B
<1>10. CASE InsertTrafficSamples
    <2>1. hpc = "samples" /\ hpc' = "rollups" /\ UNCHANGED <<received, sum, batch>>
        BY <1>10 DEF InsertTrafficSamples, WriteRows
    <2>2. /\ table'["sample"] =
               [table["sample"] EXCEPT ![Bucket("sample", batch.at)] = UpsertRow(@, batch.row)]
          /\ UNCHANGED failed
        BY <1>10, Wrote DEF InsertTrafficSamples, Tables
    <2>3. Bucket("sample", batch.at) \in 0..MaxTime
        BY BatchRow, BucketStart DEF Tables
    <2>4. B' = B + batch.row.bytes[d]
        BY <2>2, <2>3, BytesAdd DEF B, BytesIn, Tables
    <2>5. Pending(d) = batch.row.bytes[d] /\ Pending(d)' = 0
        BY <2>1 DEF Pending
    <2>6. received[d] = sum[d] + B + Pending(d)
        BY <1>1, <1>3, <2>2
    <2> QED BY <1>0, <2>1, <2>4, <2>5, <2>6 DEF B
<1>11. CASE UpsertRollups
    <2>1. hpc = "rollups" /\ hpc' = "ips" /\ UNCHANGED <<received, sum>> /\ failed \subseteq failed'
        BY <1>11 DEF UpsertRollups, WriteRows
    <2>2. table'["sample"] = table["sample"]
        BY <1>11, Wrote DEF UpsertRollups, Rollups, Tables
    <2>3. B' = B /\ received[d] = sum[d] + B + Pending(d) /\ Pending(d) = 0 /\ Pending(d)' = 0
        BY <1>1, <1>2, <1>3, <2>1, <2>2 DEF Pending
    <2> QED BY <2>1, <2>3 DEF B
<1>12. CASE UpsertIPStats
    <2>1. hpc = "ips" /\ hpc' \in {"idle", "start", "clear"} /\ UNCHANGED <<received, sum, table>>
            /\ failed \subseteq failed'
        BY <1>12 DEF UpsertIPStats, Flushed, AfterFlush
    <2> QED BY <1>4, <2>1 DEF Pending, B
<1>13. CASE GetNodeFails \/ RestartWorker \/ \E o \in {"restart", "replace", "shutdown"} : StopWorker(o)
    BY <1>4, <1>13 DEF GetNodeFails, RestartWorker, StopWorker, Pending, B
<1>14. CASE ClearReplaced \/ ClearOnShutdown \/ StartWanted \/ Boot
    <2>1. UNCHANGED <<received, table>> /\ failed \subseteq failed'
        BY <1>14 DEF ClearReplaced, ClearOnShutdown, StartWanted, Boot
    <2>2. hpc \notin {"lastonline", "samples"} /\ hpc' \notin {"lastonline", "samples"}
        BY <1>14 DEF ClearReplaced, ClearOnShutdown, StartWanted, Boot
    <2>3. sum = ZeroDirs
        BY <1>14 DEF ClearReplaced, ClearOnShutdown, StartWanted, Boot, Control, Spent, Drained
    <2>4. sum' = ZeroDirs
        BY <1>14, <2>3 DEF ClearReplaced, ClearOnShutdown, StartWanted, Boot, NewWorker, NoWorker, FreshWorker
    <2> QED BY <1>4, <2>1, <2>2, <2>3, <2>4 DEF Pending, B
<1>15. CASE Crash
    BY <1>15 DEF Crash
<1> QED BY <1>5, <1>6, <1>7, <1>8, <1>9, <1>10, <1>11, <1>12, <1>13, <1>14, <1>15
        DEF Next, FlushStep, ReloadStep, B
-----------------------------------------------------------------------------
(* The rollups.                                                             *)

\* The part of a coarse bucket that holds second u is its fine bucket.
LEMMA PartOf ==
    ASSUME NEW fine \in Tables, NEW coarse \in Tables, BucketLen[fine] <= BucketLen[coarse],
           NEW u \in 0..MaxTime, NEW s
    PROVE  Bucket(fine, u) \in Parts(fine, coarse, s) <=> Bucket(coarse, u) = s
BY BucketStart, BucketsNest DEF Parts

\* Raising one member raises the largest as much as it has to.
LEMMA LargestRaised ==
    ASSUME NEW P, NEW g \in [P -> Nat], NEW x \in Nat, IsLargest(x, {g[u] : u \in P}),
           NEW w \in P, NEW v \in Nat, NEW h, h = [g EXCEPT ![w] = Max(@, v)]
    PROVE  IsLargest(Max(x, v), {h[u] : u \in P})
<1>1. h[w] = Max(g[w], v) /\ \A u \in P \ {w} : h[u] = g[u]
    OBVIOUS
<1>2. PICK m \in P : g[m] = x
    BY DEF IsLargest
<1>3. \A u \in P : g[u] \in Nat /\ g[u] <= x
    BY DEF IsLargest
<1>4. \A u \in P : h[u] <= Max(x, v)
    BY <1>1, <1>3 DEF Max
<1>5. \E u \in P : h[u] = Max(x, v)
  <2>1. CASE v > x
      BY <1>1, <1>3, <2>1 DEF Max
  <2>2. CASE ~(v > x)
      BY <1>1, <1>2, <1>3, <2>2 DEF Max
  <2> QED BY <2>1, <2>2
<1> QED BY <1>4, <1>5 DEF IsLargest

\* Empty tables nest.
LEMMA NestInit == Init => RollupsNest
<1> SUFFICES ASSUME Init, NEW fine \in Rollups, NEW coarse \in Rollups,
                    BucketLen[fine] <= BucketLen[coarse], NEW v \in 0..MaxTime
             PROVE  Nested(fine, coarse, Bucket(coarse, v))
    BY DEF RollupsNest
<1> DEFINE s == Bucket(coarse, v)
           parts == Parts(fine, coarse, s)
           row == table[coarse][s]
<1>1. fine \in Tables /\ coarse \in Tables
    BY DEF Tables
<1>2. s \in 0..MaxTime /\ parts \subseteq 0..MaxTime /\ Bucket(fine, v) \in parts
    BY <1>1, BucketStart, PartOf DEF Parts
<1>3. ASSUME NEW t \in Tables, NEW u \in 0..MaxTime
      PROVE  table[t][u].conns = 0 /\ \A d \in Dirs : table[t][u].bytes[d] = 0 /\ table[t][u].peak[d] = 0
    BY DEF Init, ZeroRow, ZeroDirs
<1> HIDE DEF s, parts
<1>4. ASSUME NEW d \in Dirs PROVE row.bytes[d] = BytesIn(fine, parts, d)
  <2> DEFINE f == [u \in 0..MaxTime |-> IF u \in parts THEN table[fine][u].bytes[d] ELSE 0]
  <2>1. f \in [0..MaxTime -> Nat] /\ \A u \in 0..MaxTime : f[u] = 0
      BY <1>1, <1>3
  <2> HIDE DEF f
  <2>2. Total(f) = 0
      BY <2>1, TotalZero
  <2> QED BY <1>1, <1>2, <1>3, <2>2 DEF BytesIn, f
<1>5. ASSUME NEW d \in Dirs PROVE IsLargest(row.peak[d], {table[fine][u].peak[d] : u \in parts})
  <2>1. row.peak[d] = 0 /\ \A u \in parts : table[fine][u].peak[d] = 0
      BY <1>1, <1>2, <1>3
  <2>2. {table[fine][u].peak[d] : u \in parts} = {0}
      BY <1>2, <2>1
  <2> QED BY <2>1, <2>2 DEF IsLargest
<1>6. IsLargest(row.conns, {table[fine][u].conns : u \in parts})
  <2>1. row.conns = 0 /\ \A u \in parts : table[fine][u].conns = 0
      BY <1>1, <1>2, <1>3
  <2>2. {table[fine][u].conns : u \in parts} = {0}
      BY <1>2, <2>1
  <2> QED BY <2>1, <2>2 DEF IsLargest
<1> QED BY <1>4, <1>5, <1>6 DEF s, parts, Nested

\* Every step keeps the rollups nested: UpsertRollups raises a bucket and the part of
\* it that holds the same second, and nothing else writes to them.
LEMMA NestStep ==
    ASSUME TypeOK, RollupsNest, [Next]_vars
    PROVE  RollupsNest'
<1> USE DEF nodeVars, workerVars, accVars, sumVars, hubVars, storeVars, history
<1>1. ASSUME \A t \in Rollups : table'[t] = table[t]
      PROVE  RollupsNest'
  <2>1. ASSUME NEW fine \in Rollups, NEW coarse \in Rollups, NEW s, Nested(fine, coarse, s)
        PROVE  Nested(fine, coarse, s)'
    <3>1. table'[fine] = table[fine] /\ table'[coarse] = table[coarse]
        BY <1>1
    <3> QED BY <2>1, <3>1 DEF Nested, Parts, Bucket, BytesIn
  <2> QED BY <2>1 DEF RollupsNest, Bucket
<1>2. CASE InsertTrafficSamples
  <2>1. \A t \in Rollups : table'[t] = table[t]
      BY <1>2, Wrote DEF InsertTrafficSamples, Tables, Rollups
  <2> QED BY <1>1, <2>1
<1>3. CASE UpsertRollups
  <2>1. CASE UNCHANGED table
      BY <1>1, <2>1
  <2>2. CASE \A t \in Rollups : table'[t] =
                 [table[t] EXCEPT ![Bucket(t, batch.at)] = UpsertRow(@, batch.row)]
    <3> SUFFICES ASSUME NEW fine \in Rollups, NEW coarse \in Rollups,
                        BucketLen[fine] <= BucketLen[coarse], NEW v \in 0..MaxTime,
                        NEW s, s = Bucket(coarse, v)
                 PROVE  Nested(fine, coarse, s)'
        BY DEF RollupsNest, Bucket
    <3> DEFINE parts == Parts(fine, coarse, s)
               k == Bucket(coarse, batch.at)
               w == Bucket(fine, batch.at)
               b == batch.row
               old == table[coarse][s]
               new == table'[coarse][s]
    <3>1. /\ fine \in Tables /\ coarse \in Tables /\ batch.at \in 0..MaxTime
          /\ b \in RowType /\ b.conns \in Nat /\ \A d \in Dirs : b.bytes[d] \in Nat /\ b.peak[d] \in Nat
        BY BatchRow DEF Tables, RowType
    <3>2. s \in 0..MaxTime /\ k \in 0..MaxTime /\ w \in 0..MaxTime /\ parts \subseteq 0..MaxTime
        BY <3>1, BucketStart DEF Parts
    <3>3. w \in parts <=> k = s
        BY <3>1, PartOf
    <3>4. \A t \in Tables : table[t] \in [0..MaxTime -> RowType]
        BY DEF TypeOK, StoreTypes
    <3>5. ASSUME NEW u \in 0..MaxTime
          PROVE  /\ table[fine][u].conns \in Nat
                 /\ \A d \in Dirs : table[fine][u].bytes[d] \in Nat /\ table[fine][u].peak[d] \in Nat
      <4>1. table[fine][u] \in RowType
          BY <3>1, <3>4
      <4> QED BY <4>1 DEF RowType
    <3>6. old.conns \in Nat /\ \A d \in Dirs : old.bytes[d] \in Nat /\ old.peak[d] \in Nat
      <4>1. old \in RowType
          BY <3>1, <3>2, <3>4
      <4> QED BY <4>1 DEF RowType
    <3>7. /\ \A d \in Dirs : /\ old.bytes[d] = BytesIn(fine, parts, d)
                             /\ IsLargest(old.peak[d], {table[fine][u].peak[d] : u \in parts})
          /\ IsLargest(old.conns, {table[fine][u].conns : u \in parts})
        BY DEF RollupsNest, Nested
    <3>8. table'[fine] = [table[fine] EXCEPT ![w] = UpsertRow(@, b)]
            /\ table'[coarse] = [table[coarse] EXCEPT ![k] = UpsertRow(@, b)]
        BY <2>2
    <3>9. /\ k = s => new = UpsertRow(old, b)
          /\ k # s => new = old
          /\ table'[fine][w] = UpsertRow(table[fine][w], b)
          /\ \A u \in 0..MaxTime \ {w} : table'[fine][u] = table[fine][u]
        BY <3>1, <3>2, <3>4, <3>8
    <3>10. ASSUME NEW d \in Dirs
           PROVE  BytesIn(fine, parts, d)' = BytesIn(fine, parts, d) + IF w \in parts THEN b.bytes[d] ELSE 0
      <4>1. parts' = parts
          BY DEF Parts, Bucket
      <4> HIDE DEF parts
      <4>2. BytesIn(fine, parts, d)' = Total([u \in 0..MaxTime |-> IF u \in parts THEN table'[fine][u].bytes[d] ELSE 0])
          BY <4>1 DEF BytesIn
      <4>3. Total([u \in 0..MaxTime |-> IF u \in parts THEN table'[fine][u].bytes[d] ELSE 0])
              = BytesIn(fine, parts, d) + IF Bucket(fine, batch.at) \in parts THEN batch.row.bytes[d] ELSE 0
          BY <3>1, <3>8, BytesAdd
      <4> QED BY <4>2, <4>3
    <3> HIDE DEF parts, k, w, b, old, new
    <3>11. CASE k = s
      <4>1. ASSUME NEW d \in Dirs PROVE new.bytes[d] = BytesIn(fine, parts, d)'
        <5>1. new.bytes[d] = old.bytes[d] + b.bytes[d]
            BY <3>9, <3>11 DEF UpsertRow
        <5> QED BY <3>3, <3>7, <3>10, <3>11, <5>1
      <4>2. ASSUME NEW d \in Dirs PROVE IsLargest(new.peak[d], {table'[fine][u].peak[d] : u \in parts})
        <5> DEFINE g == [u \in parts |-> table[fine][u].peak[d]]
                   h == [u \in parts |-> table'[fine][u].peak[d]]
        <5>1. g \in [parts -> Nat]
            BY <3>2, <3>5
        <5>2. h = [g EXCEPT ![w] = Max(@, b.peak[d])]
          <6>1. h[w] = Max(g[w], b.peak[d])
              BY <3>3, <3>9, <3>11 DEF UpsertRow
          <6>2. \A u \in parts \ {w} : h[u] = g[u]
              BY <3>2, <3>9
          <6>3. h = [u \in parts |-> h[u]]
              OBVIOUS
          <6> HIDE DEF h, g
          <6> QED BY <5>1, <6>1, <6>2, <6>3
        <5>3. {g[u] : u \in parts} = {table[fine][u].peak[d] : u \in parts}
            OBVIOUS
        <5>4. {h[u] : u \in parts} = {table'[fine][u].peak[d] : u \in parts}
            OBVIOUS
        <5>5. new.peak[d] = Max(old.peak[d], b.peak[d])
            BY <3>9, <3>11 DEF UpsertRow
        <5> HIDE DEF h, g
        <5>6. IsLargest(old.peak[d], {g[u] : u \in parts})
            BY <3>7, <5>3
        <5>7. IsLargest(Max(old.peak[d], b.peak[d]), {h[u] : u \in parts})
            BY <3>1, <3>3, <3>6, <3>11, <5>1, <5>2, <5>6, LargestRaised
        <5> QED BY <5>4, <5>5, <5>7
      <4>3. IsLargest(new.conns, {table'[fine][u].conns : u \in parts})
        <5> DEFINE g == [u \in parts |-> table[fine][u].conns]
                   h == [u \in parts |-> table'[fine][u].conns]
        <5>1. g \in [parts -> Nat]
            BY <3>2, <3>5
        <5>2. h = [g EXCEPT ![w] = Max(@, b.conns)]
          <6>1. h[w] = Max(g[w], b.conns)
              BY <3>3, <3>9, <3>11 DEF UpsertRow
          <6>2. \A u \in parts \ {w} : h[u] = g[u]
              BY <3>2, <3>9
          <6>3. h = [u \in parts |-> h[u]]
              OBVIOUS
          <6> HIDE DEF h, g
          <6> QED BY <5>1, <6>1, <6>2, <6>3
        <5>3. {g[u] : u \in parts} = {table[fine][u].conns : u \in parts}
            OBVIOUS
        <5>4. {h[u] : u \in parts} = {table'[fine][u].conns : u \in parts}
            OBVIOUS
        <5>5. new.conns = Max(old.conns, b.conns)
            BY <3>9, <3>11 DEF UpsertRow
        <5> HIDE DEF h, g
        <5>6. IsLargest(old.conns, {g[u] : u \in parts})
            BY <3>7, <5>3
        <5>7. IsLargest(Max(old.conns, b.conns), {h[u] : u \in parts})
            BY <3>1, <3>3, <3>6, <3>11, <5>1, <5>2, <5>6, LargestRaised
        <5> QED BY <5>4, <5>5, <5>7
      <4> QED BY <4>1, <4>2, <4>3 DEF new, parts, Nested, Parts, Bucket
    <3>12. CASE k # s
      <4>1. \A u \in parts : table'[fine][u] = table[fine][u]
          BY <3>2, <3>3, <3>9, <3>12
      <4>2. ASSUME NEW d \in Dirs PROVE new.bytes[d] = BytesIn(fine, parts, d)'
        <5>1. new.bytes[d] = BytesIn(fine, parts, d) /\ BytesIn(fine, parts, d) \in Nat
            BY <3>6, <3>7, <3>9, <3>12
        <5>2. BytesIn(fine, parts, d)' = BytesIn(fine, parts, d) + 0
            BY <3>3, <3>10, <3>12
        <5> QED BY <5>1, <5>2
      <4>3. ASSUME NEW d \in Dirs PROVE IsLargest(new.peak[d], {table'[fine][u].peak[d] : u \in parts})
          BY <3>7, <3>9, <3>12, <4>1
      <4>4. IsLargest(new.conns, {table'[fine][u].conns : u \in parts})
          BY <3>7, <3>9, <3>12, <4>1
      <4> QED BY <4>2, <4>3, <4>4 DEF new, parts, Nested, Parts, Bucket
    <3> QED BY <3>11, <3>12
  <2> QED BY <1>3, <2>1, <2>2, Wrote DEF UpsertRollups, Tables
<1>4. CASE ~InsertTrafficSamples /\ ~UpsertRollups
  <2>1. UNCHANGED table
      BY <1>4 DEF Next, vars, NodeStep, LoopStep, ReadTraffic, ReadConnections, ClockTick, FlushTick,
                  StopWorker, GetNodeFails, FlushStep, FlushStopped, SetLastOnline, UpsertIPStats,
                  ReloadStep, RestartWorker, ClearReplaced, ClearOnShutdown, StartWanted, Crash, Boot
  <2> QED BY <1>1, <2>1
<1> QED BY <1>2, <1>3, <1>4
-----------------------------------------------------------------------------
(* Samples and rollups.                                                     *)

\* Bytes of minute s that are in traffic_samples and not yet in the rollups.
Ahead(s, d) ==
    IF hpc = "rollups" /\ Bucket("minute", batch.at) = s THEN batch.row.bytes[d] ELSE 0

\* SamplesMatchRollups, between the two transactions of a flush as well.
Matched ==
    {"samples", "rollups", "crash"} \cap failed = {} =>
        \A s \in 0..MaxTime : Bucket("minute", s) = s =>
            \A d \in Dirs :
                table["minute"][s].bytes[d] + Ahead(s, d)
                    = BytesIn("sample", Parts("sample", "minute", s), d)

\* Empty tables agree.
LEMMA MatchedInit == Init => Matched
<1> SUFFICES ASSUME Init, NEW s \in 0..MaxTime, NEW d \in Dirs
             PROVE  table["minute"][s].bytes[d] + Ahead(s, d)
                      = BytesIn("sample", Parts("sample", "minute", s), d)
    BY DEF Matched
<1> DEFINE f == [u \in 0..MaxTime |->
                  IF u \in Parts("sample", "minute", s) THEN table["sample"][u].bytes[d] ELSE 0]
<1>1. \A t \in Tables, u \in 0..MaxTime : table[t][u].bytes[d] = 0
    BY DEF Init, ZeroRow, ZeroDirs
<1>2. f \in [0..MaxTime -> Nat] /\ \A u \in 0..MaxTime : f[u] = 0
    BY <1>1 DEF Tables
<1> HIDE DEF f
<1>3. Total(f) = 0
    BY <1>2, TotalZero
<1>4. BytesIn("sample", Parts("sample", "minute", s), d) = 0
    BY <1>3 DEF f, BytesIn
<1>5. table["minute"][s].bytes[d] = 0 /\ Ahead(s, d) = 0
    BY <1>1 DEF Tables, Rollups, Ahead, Init
<1> QED BY <1>4, <1>5

\* Every step keeps the two tables in step: the samples run ahead by the row in flight.
LEMMA MatchedStep ==
    ASSUME TypeOK, Control, Matched, [Next]_vars
    PROVE  Matched'
<1> USE DEF nodeVars, workerVars, accVars, sumVars, hubVars, storeVars, history
<1> SUFFICES ASSUME {"samples", "rollups", "crash"} \cap failed' = {},
                    NEW s \in 0..MaxTime, Bucket("minute", s) = s, NEW d \in Dirs
             PROVE  table'["minute"][s].bytes[d] + Ahead(s, d)'
                      = BytesIn("sample", Parts("sample", "minute", s), d)'
    BY DEF Matched, Bucket
<1>0. PICK P : /\ P = Parts("sample", "minute", s)
               /\ BytesIn("sample", Parts("sample", "minute", s), d)' =
                    Total([u \in 0..MaxTime |-> IF u \in P THEN table'["sample"][u].bytes[d] ELSE 0])
    BY DEF BytesIn, Parts, Bucket
<1> SUFFICES table'["minute"][s].bytes[d] + Ahead(s, d)'
               = Total([u \in 0..MaxTime |-> IF u \in P THEN table'["sample"][u].bytes[d] ELSE 0])
    BY <1>0
<1>1. "minute" \in Tables /\ "sample" \in Tables /\ "minute" \in Rollups /\ "sample" \notin Rollups
        /\ batch.at \in 0..MaxTime /\ batch.row \in RowType /\ batch.row.bytes[d] \in Nat
    BY BatchRow DEF Tables, Rollups, RowType
<1>2. table["minute"] \in [0..MaxTime -> RowType] /\ table["minute"][s].bytes[d] \in Nat
  <2>1. table["minute"] \in [0..MaxTime -> RowType]
      BY <1>1 DEF TypeOK, StoreTypes
  <2>2. table["minute"][s] \in RowType
      BY <2>1
  <2> QED BY <2>1, <2>2 DEF RowType
<1>3. ASSUME failed \subseteq failed'
      PROVE  table["minute"][s].bytes[d] + Ahead(s, d) = BytesIn("sample", P, d)
    BY <1>0, <1>3 DEF Matched
<1>4. ASSUME UNCHANGED table, failed \subseteq failed', Ahead(s, d)' = Ahead(s, d)
      PROVE  table'["minute"][s].bytes[d] + Ahead(s, d)'
               = Total([u \in 0..MaxTime |-> IF u \in P THEN table'["sample"][u].bytes[d] ELSE 0])
    BY <1>3, <1>4 DEF BytesIn
<1>5. CASE InsertTrafficSamples
  <2>1. hpc = "samples" /\ hpc' = "rollups" /\ batch' = batch
      BY <1>5 DEF InsertTrafficSamples, WriteRows
  <2>2. /\ table'["sample"] =
             [table["sample"] EXCEPT ![Bucket("sample", batch.at)] = UpsertRow(@, batch.row)]
        /\ table'["minute"] = table["minute"] /\ UNCHANGED failed
      BY <1>1, <1>5, Wrote DEF InsertTrafficSamples
  <2>3. Total([u \in 0..MaxTime |-> IF u \in P THEN table'["sample"][u].bytes[d] ELSE 0])
          = BytesIn("sample", P, d)
              + IF Bucket("sample", batch.at) \in P THEN batch.row.bytes[d] ELSE 0
      BY <2>2, BytesAdd DEF Tables
  <2>4. BucketLen["sample"] <= BucketLen["minute"]
      BY <1>1, BoundsAssumption, BucketsAssumption
  <2>5. Bucket("sample", batch.at) \in P <=> Bucket("minute", batch.at) = s
      BY <1>0, <1>1, <2>4, PartOf
  <2>6. Ahead(s, d) = 0
      BY <2>1 DEF Ahead
  <2>7. Ahead(s, d)' = IF Bucket("minute", batch.at) = s THEN batch.row.bytes[d] ELSE 0
      BY <2>1 DEF Ahead, Bucket
  <2>8. table["minute"][s].bytes[d] = BytesIn("sample", P, d)
      BY <1>2, <1>3, <2>2, <2>6
  <2> QED BY <1>1, <1>2, <2>2, <2>3, <2>5, <2>7, <2>8
<1>6. CASE UpsertRollups
  <2>1. hpc = "rollups" /\ hpc' = "ips" /\ batch' = batch
      BY <1>6 DEF UpsertRollups, WriteRows
  <2>2. /\ table'["minute"] =
             [table["minute"] EXCEPT ![Bucket("minute", batch.at)] = UpsertRow(@, batch.row)]
        /\ table'["sample"] = table["sample"] /\ UNCHANGED failed
      BY <1>1, <1>6, Wrote DEF UpsertRollups, Tables
  <2>3. Bucket("minute", batch.at) \in 0..MaxTime
      BY <1>1, BucketStart
  <2>4. table'["minute"][s].bytes[d] = table["minute"][s].bytes[d] + Ahead(s, d)
    <3>1. CASE Bucket("minute", batch.at) = s
      <4>1. table'["minute"][s] = UpsertRow(table["minute"][s], batch.row)
          BY <1>2, <2>2, <3>1
      <4> QED BY <2>1, <3>1, <4>1 DEF UpsertRow, Ahead
    <3>2. CASE Bucket("minute", batch.at) # s
      <4>1. table'["minute"][s] = table["minute"][s] /\ Ahead(s, d) = 0
          BY <1>2, <2>2, <2>3, <3>2 DEF Ahead
      <4> QED BY <1>2, <4>1
    <3> QED BY <3>1, <3>2
  <2>5. Ahead(s, d)' = 0
      BY <2>1 DEF Ahead
  <2>6. table["minute"][s].bytes[d] + Ahead(s, d) \in Nat
      BY <1>1, <1>2 DEF Ahead
  <2>7. table["minute"][s].bytes[d] + Ahead(s, d)
          = Total([u \in 0..MaxTime |-> IF u \in P THEN table'["sample"][u].bytes[d] ELSE 0])
      BY <1>3, <2>2 DEF BytesIn
  <2> QED BY <2>4, <2>5, <2>6, <2>7
<1>7. CASE Crash
    BY <1>7 DEF Crash
<1>8. CASE UNCHANGED vars \/ NodeStep \/ LoopStep \/ ReadTraffic \/ ReadConnections \/ ClockTick
           \/ StartWanted
  <2>1. UNCHANGED <<table, hpc, batch, failed>>
      BY <1>8 DEF vars, NodeStep, LoopStep, ReadTraffic, ReadConnections, ClockTick, StartWanted
  <2> QED BY <1>4, <2>1 DEF Ahead, Bucket
<1>9. CASE FlushTick \/ FlushStopped \/ GetNodeFails \/ SetLastOnline \/ UpsertIPStats \/ ReloadStep \/ Boot
           \/ \E o \in {"restart", "replace", "shutdown"} : StopWorker(o)
  <2>1. UNCHANGED table /\ failed \subseteq failed'
      BY <1>9 DEF FlushTick, FlushStopped, GetNodeFails, SetLastOnline, UpsertIPStats, ReloadStep,
                  RestartWorker, ClearReplaced, ClearOnShutdown, Boot, StopWorker
  <2>2. hpc # "rollups" /\ hpc' # "rollups"
      BY <1>9 DEF FlushTick, FlushStopped, GetNodeFails, SetLastOnline, UpsertIPStats, ReloadStep,
                  RestartWorker, ClearReplaced, ClearOnShutdown, Boot, StopWorker, Flushed, AfterFlush
  <2> QED BY <1>4, <2>1, <2>2 DEF Ahead
<1> QED BY <1>5, <1>6, <1>7, <1>8, <1>9 DEF Next, FlushStep
-----------------------------------------------------------------------------
(* The inductive invariant of the traffic tables.                           *)

TrafficInv == IInv /\ Spent /\ RollupsNest /\ Matched

\* TrafficInv holds in every reachable state.
LEMMA TrafficInvariance == Spec => []TrafficInv
<1>1. Init => TrafficInv
    BY Inductive, SpentInit, NestInit, MatchedInit DEF TrafficInv
<1>2. TrafficInv /\ [Next]_vars => TrafficInv'
  <2> SUFFICES ASSUME TrafficInv, [Next]_vars PROVE TrafficInv'
      OBVIOUS
  <2>1. IInv' /\ TypeOK /\ Control
      BY Inductive DEF TrafficInv, IInv
  <2>2. Spent' /\ RollupsNest' /\ Matched'
      BY <2>1, SpentStep, NestStep, MatchedStep DEF TrafficInv
  <2> QED BY <2>1, <2>2 DEF TrafficInv
<1> QED BY <1>1, <1>2, PTL DEF Spec

\* For any bucket lengths that nest, any clock and any failures: each hour is the sum of
\* its minutes and each day the sum of its hours, as UpsertRollups writes them.
THEOREM RollupsAlwaysNest == Spec => []RollupsNest
<1>1. TrafficInv => RollupsNest
    BY DEF TrafficInv
<1> QED BY <1>1, TrafficInvariance, PTL

\* Until a transaction fails or the panel dies, InsertTrafficSamples and UpsertRollups
\* have recorded the same bytes of every minute.
THEOREM TablesAgree == Spec => []SamplesMatchRollups
<1>1. TrafficInv => SamplesMatchRollups
  <2> SUFFICES ASSUME TrafficInv, {"samples", "rollups", "crash"} \cap failed = {}, hpc # "rollups",
                      NEW s \in 0..MaxTime, Bucket("minute", s) = s, NEW d \in Dirs
               PROVE  table["minute"][s].bytes[d] = BytesIn("sample", Parts("sample", "minute", s), d)
      BY DEF SamplesMatchRollups
  <2>1. table["minute"][s].bytes[d] + 0 = BytesIn("sample", Parts("sample", "minute", s), d)
      BY DEF TrafficInv, Matched, Ahead
  <2>2. table["minute"] \in [0..MaxTime -> RowType]
      BY DEF TrafficInv, IInv, TypeOK, StoreTypes, Tables, Rollups
  <2>3. table["minute"][s] \in RowType
      BY <2>2
  <2>4. table["minute"][s].bytes[d] \in Nat
      BY <2>3 DEF RowType
  <2> QED BY <2>1, <2>4
<1> QED BY <1>1, TrafficInvariance, PTL

\* With a node that sends the keys the panel's tags name, every byte of the /traffic stream
\* is accumulated, in flight or stored exactly once, until an insert fails or the panel dies.
THEOREM TrafficIsConserved ==
    ASSUME KeysMatch
    PROVE  Spec => []TrafficConserved
<1>1. Init => TrafficInv /\ TrafficConserved
    BY Inductive, SpentInit, NestInit, MatchedInit, ConservedInit DEF TrafficInv
<1>2. TrafficInv /\ TrafficInv' /\ TrafficConserved /\ [Next]_vars => TrafficConserved'
  <2> SUFFICES ASSUME TrafficInv, TrafficInv', TrafficConserved, [Next]_vars PROVE TrafficConserved'
      OBVIOUS
  <2>1. TypeOK /\ TypeOK' /\ Control /\ Spent
      BY DEF TrafficInv, IInv
  <2> QED BY <2>1, ConservedStep
<1> QED BY <1>1, <1>2, TrafficInvariance, PTL DEF Spec
===============================================================================
