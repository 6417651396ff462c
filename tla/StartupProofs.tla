---------------------------- MODULE StartupProofs ----------------------------
(***************************************************************************)
(* Theorems about the start of the process: the schema version and the         *)
(* secrets, over stops at any place, restarts, upgrades and wizard requests    *)
(* in flight.                                                               *)
(***************************************************************************)
EXTENDS MCServices, FiniteSetTheorems, TLAPS

-----------------------------------------------------------------------------
(* Types.                                                                   *)

Acct == [named : BOOLEAN, typed : BOOLEAN, pwd : Posts \cup Nat]
DbRow == [exists : BOOLEAN, applied : SUBSET Nat, version : Nat, accounts : SUBSET Acct]

\* Whoever is past the choice of a database has one.
Placed(job) == job.pc \notin {"off", "wizard", "drain"} => job.at \in Databases

StartTypes ==
    /\ release \in Nat \ {0} /\ config \in Databases \cup {None} /\ chosen \in Databases \cup {None}
    /\ key \in Nat \cup {None} /\ pwFile \in Nat \cup {None} /\ drawn \in Nat
    /\ db \in [Databases -> DbRow]
    /\ panel \in B!JobType /\ Placed(panel)
    /\ post \in [Posts -> B!JobType] /\ \A p \in Posts : Placed(post[p])
    /\ outcome # None => outcome \in [at : Databases, cred : Posts]

\* Requests are in flight only while the wizard runs or drains; their steps are those of the wizard.
Phases ==
    /\ panel.pc \notin {"wizard", "drain"} => \A p \in Posts : post[p].pc = "off"
    /\ panel.pc = "drain" => outcome # None
    /\ \A p \in Posts : post[p].pc \in {"off", "open", "version", "record", "migrate", "once"}
    /\ \A p \in Posts : post[p].pc # "off" => post[p].cred \in Posts

\* A job that has ended is well-typed.
LEMMA OffType == B!Off \in B!JobType /\ B!Off.pc = "off" /\ Placed(B!Off)
    BY DEF B!Off, B!JobType, Placed

\* The jobs of main and of the wizard are all the jobs.
LEMMA JobType ==
    ASSUME StartTypes, NEW o \in B!Openers
    PROVE  B!Job(o) \in B!JobType /\ Placed(B!Job(o))
    BY DEF StartTypes, B!Job, B!Openers

\* Go changes one job.
LEMMA GoJob ==
    ASSUME StartTypes, NEW o \in B!Openers, NEW job \in B!JobType, B!Go(o, job), Placed(job)
    PROVE  /\ panel' \in B!JobType /\ Placed(panel)'
           /\ post' \in [Posts -> B!JobType] /\ \A p \in Posts : Placed(post[p])'
           /\ B!Job(o)' = job /\ \A x \in B!Openers \ {o} : B!Job(x)' = B!Job(x)
<1>1. CASE o = 0
    BY <1>1 DEF StartTypes, B!Go, B!Job, B!Openers, Placed
<1>2. CASE o \in Posts /\ o # 0
  <2>1. post' = [post EXCEPT ![o] = job] /\ UNCHANGED panel
      BY <1>2 DEF B!Go
  <2>2. post' \in [Posts -> B!JobType] /\ post'[o] = job /\ \A p \in Posts \ {o} : post'[p] = post[p]
      BY <1>2, <2>1 DEF StartTypes
  <2>3. \A p \in Posts : Placed(post'[p])
      BY <1>2, <2>2 DEF StartTypes
  <2> QED BY <1>2, <2>1, <2>2, <2>3 DEF StartTypes, B!Job, B!Openers, Placed
<1> QED BY <1>1, <1>2 DEF B!Openers

\* What opening and migrating do to the row of a database.
LEMMA RowOpened ==
    ASSUME NEW r \in DbRow, NEW n \in Nat
    PROVE  /\ LET k == [r EXCEPT !.exists = TRUE]
              IN k \in DbRow /\ k.applied = r.applied /\ k.version = r.version /\ k.accounts = r.accounts
           /\ LET k == [r EXCEPT !.exists = TRUE, !.applied = IF @ = {} THEN 1..n ELSE @]
              IN /\ k \in DbRow /\ k.applied = (IF r.applied = {} THEN 1..n ELSE r.applied)
                 /\ k.version = r.version /\ k.accounts = r.accounts
<1>1. LET k == [r EXCEPT !.exists = TRUE]
      IN k \in DbRow /\ k.applied = r.applied /\ k.version = r.version /\ k.accounts = r.accounts
    BY DEF DbRow
<1> DEFINE a == IF r.applied = {} THEN 1..n ELSE r.applied
<1>2. a \in SUBSET Nat
    BY DEF DbRow
<1> HIDE DEF a
<1>3. LET k == [r EXCEPT !.exists = TRUE, !.applied = a]
      IN k \in DbRow /\ k.applied = a /\ k.version = r.version /\ k.accounts = r.accounts
    BY <1>2 DEF DbRow
<1> QED BY <1>1, <1>3 DEF a

\* Recording a version never lowers it.
LEMMA RowRecorded ==
    ASSUME NEW r \in DbRow, NEW v \in Nat
    PROVE  /\ B!Record(r, v) \in DbRow /\ B!Record(r, v).applied = r.applied
           /\ B!Record(r, v).version = (IF r.version < v THEN v ELSE r.version)
           /\ B!Record(r, v).accounts = r.accounts
    BY DEF DbRow, B!Record

\* A migration is applied and its version recorded.
LEMMA RowMigrated ==
    ASSUME NEW r \in DbRow, NEW v \in Nat
    PROVE  /\ B!Migrated(r, v) \in DbRow /\ B!Migrated(r, v).applied = r.applied \cup {v}
           /\ B!Migrated(r, v).version = (IF r.version < v THEN v ELSE r.version)
           /\ B!Migrated(r, v).accounts = r.accounts
<1> DEFINE k == [r EXCEPT !.applied = @ \cup {v}]
<1>1. k \in DbRow /\ k.applied = r.applied \cup {v} /\ k.version = r.version /\ k.accounts = r.accounts
    BY DEF DbRow
<1> HIDE DEF k
<1> QED BY <1>1, RowRecorded DEF B!Migrated, k

\* The steps of whoever opens a database, on that database and on its own job.
LEMMA SQLiteFrame ==
    ASSUME StartTypes, NEW o \in B!Openers, B!OpenSQLite(o)
    PROVE  LET j == B!Job(o) IN
           /\ j.pc = "open" /\ j.at \in Databases /\ j.at \notin Postgres
           /\ db' \in [Databases -> DbRow] /\ \A d \in Databases :
                 db'[d].applied = db[d].applied /\ db'[d].version = db[d].version /\ db'[d].accounts = db[d].accounts
           /\ \E k \in B!JobType : B!Go(o, k) /\ k.pc = "migrate" /\ k.at = j.at /\ k.cred = j.cred
                                    /\ k.cur = db[j.at].version
<1>1. PICK j \in B!JobType : j = B!Job(o) /\ Placed(j)
    BY JobType
<1>2. j.pc = "open" /\ j.at \in Databases /\ j.at \notin Postgres
    BY <1>1 DEF B!OpenSQLite, Placed
<1>3. db \in [Databases -> DbRow] /\ db[j.at] \in DbRow /\ db[j.at].version \in Nat
    BY <1>2 DEF StartTypes, DbRow
<1> DEFINE r == [db[j.at] EXCEPT !.exists = TRUE]
<1>4. r \in DbRow /\ r.applied = db[j.at].applied /\ r.version = db[j.at].version /\ r.accounts = db[j.at].accounts
    BY <1>3, RowOpened
<1>5. db' = [db EXCEPT ![j.at] = r]
    BY <1>1 DEF B!OpenSQLite
<1> DEFINE k == [j EXCEPT !.pc = "migrate", !.cur = db[j.at].version]
<1>6. k \in B!JobType /\ k.pc = "migrate" /\ k.at = j.at /\ k.cred = j.cred /\ k.cur = db[j.at].version
    BY <1>1, <1>3 DEF B!JobType
<1>7. B!Go(o, k)
    BY <1>1 DEF B!OpenSQLite
<1> HIDE DEF r, k
<1>8. db' \in [Databases -> DbRow] /\ \A d \in Databases :
          db'[d].applied = db[d].applied /\ db'[d].version = db[d].version /\ db'[d].accounts = db[d].accounts
    BY <1>2, <1>3, <1>4, <1>5
<1> QED BY <1>1, <1>2, <1>6, <1>7, <1>8

\* postgresSchema fills an empty database.
LEMMA PostgresFrame ==
    ASSUME StartTypes, NEW o \in B!Openers, B!OpenPostgres(o)
    PROVE  LET j == B!Job(o) IN
           /\ j.pc = "open" /\ j.at \in Databases
           /\ db' \in [Databases -> DbRow] /\ \A d \in Databases :
                 /\ db'[d].applied = (IF d = j.at /\ db[d].applied = {} THEN 1..release ELSE db[d].applied)
                 /\ db'[d].version = db[d].version /\ db'[d].accounts = db[d].accounts
           /\ \E k \in B!JobType : B!Go(o, k) /\ k.pc = "version" /\ k.at = j.at /\ k.cred = j.cred
<1>1. PICK j \in B!JobType : j = B!Job(o) /\ Placed(j)
    BY JobType
<1>2. j.pc = "open" /\ j.at \in Databases
    BY <1>1 DEF B!OpenPostgres, Placed
<1>3. db \in [Databases -> DbRow] /\ db[j.at] \in DbRow /\ release \in Nat
    BY <1>2 DEF StartTypes
<1> DEFINE r == [db[j.at] EXCEPT !.exists = TRUE, !.applied = IF @ = {} THEN 1..release ELSE @]
<1>4. /\ r \in DbRow /\ r.applied = (IF db[j.at].applied = {} THEN 1..release ELSE db[j.at].applied)
      /\ r.version = db[j.at].version /\ r.accounts = db[j.at].accounts
    BY <1>3, RowOpened
<1>5. db' = [db EXCEPT ![j.at] = r]
    BY <1>1 DEF B!OpenPostgres
<1> DEFINE k == [j EXCEPT !.pc = "version"]
<1>6. k \in B!JobType /\ k.pc = "version" /\ k.at = j.at /\ k.cred = j.cred
    BY <1>1, <1>3 DEF B!JobType
<1>7. B!Go(o, k)
    BY <1>1 DEF B!OpenPostgres
<1> HIDE DEF r, k
<1>8. db' \in [Databases -> DbRow] /\ \A d \in Databases :
          /\ db'[d].applied = (IF d = j.at /\ db[d].applied = {} THEN 1..release ELSE db[d].applied)
          /\ db'[d].version = db[d].version /\ db'[d].accounts = db[d].accounts
    BY <1>2, <1>3, <1>4, <1>5
<1> QED BY <1>1, <1>2, <1>6, <1>7, <1>8

\* The version is read: none, or where the migrations go on.
LEMMA VersionFrame ==
    ASSUME StartTypes, NEW o \in B!Openers, B!VersionPostgres(o)
    PROVE  LET j == B!Job(o) IN
           /\ j.pc = "version" /\ j.at \in Databases /\ UNCHANGED db
           /\ \E k \in B!JobType : /\ B!Go(o, k) /\ k.at = j.at /\ k.cred = j.cred
                                    /\ IF db[j.at].version = 0 THEN k.pc = "record"
                                       ELSE k.pc = "migrate" /\ k.cur = db[j.at].version
<1>1. PICK j \in B!JobType : j = B!Job(o) /\ Placed(j)
    BY JobType
<1>2. j.pc = "version" /\ j.at \in Databases /\ UNCHANGED db
    BY <1>1 DEF B!VersionPostgres, Placed
<1>3. db[j.at].version \in Nat
    BY <1>2 DEF StartTypes, DbRow
<1> DEFINE v == db[j.at].version
           a == [j EXCEPT !.pc = "record"]
           b == [j EXCEPT !.pc = "migrate", !.cur = v]
<1>4. /\ a \in B!JobType /\ a.pc = "record" /\ a.at = j.at /\ a.cred = j.cred
      /\ b \in B!JobType /\ b.pc = "migrate" /\ b.at = j.at /\ b.cred = j.cred /\ b.cur = v
    BY <1>1, <1>3 DEF B!JobType
<1>5. IF v = 0 THEN B!Go(o, a) ELSE B!Go(o, b)
    BY <1>1 DEF B!VersionPostgres
<1> HIDE DEF a, b
<1> QED BY <1>1, <1>2, <1>4, <1>5

\* The first version of a Postgres database is the one of the release.
LEMMA RecordFrame ==
    ASSUME StartTypes, NEW o \in B!Openers, B!RecordPostgres(o)
    PROVE  LET j == B!Job(o) IN
           /\ j.pc = "record" /\ j.at \in Databases
           /\ db' \in [Databases -> DbRow] /\ \A d \in Databases :
                 /\ db'[d].applied = db[d].applied /\ db'[d].accounts = db[d].accounts
                 /\ db'[d].version = (IF d = j.at /\ db[d].version < release THEN release ELSE db[d].version)
           /\ \E k \in B!JobType : B!Go(o, k) /\ k.pc = "migrate" /\ k.at = j.at /\ k.cred = j.cred /\ k.cur = release
<1>1. PICK j \in B!JobType : j = B!Job(o) /\ Placed(j)
    BY JobType
<1>2. j.pc = "record" /\ j.at \in Databases
    BY <1>1 DEF B!RecordPostgres, Placed
<1>3. db \in [Databases -> DbRow] /\ db[j.at] \in DbRow /\ release \in Nat
    BY <1>2 DEF StartTypes
<1> DEFINE r == B!Record(db[j.at], release)
<1>4. /\ r \in DbRow /\ r.applied = db[j.at].applied /\ r.accounts = db[j.at].accounts
      /\ r.version = (IF db[j.at].version < release THEN release ELSE db[j.at].version)
    BY <1>3, RowRecorded
<1>5. db' = [db EXCEPT ![j.at] = r]
    BY <1>1 DEF B!RecordPostgres
<1> DEFINE k == [j EXCEPT !.pc = "migrate", !.cur = release]
<1>6. k \in B!JobType /\ k.pc = "migrate" /\ k.at = j.at /\ k.cred = j.cred /\ k.cur = release
    BY <1>1, <1>3 DEF B!JobType
<1>7. B!Go(o, k)
    BY <1>1 DEF B!RecordPostgres
<1> HIDE DEF r, k
<1>8. db' \in [Databases -> DbRow] /\ \A d \in Databases :
          /\ db'[d].applied = db[d].applied /\ db'[d].accounts = db[d].accounts
          /\ db'[d].version = (IF d = j.at /\ db[d].version < release THEN release ELSE db[d].version)
    BY <1>2, <1>3, <1>4, <1>5
<1> QED BY <1>1, <1>2, <1>6, <1>7, <1>8

\* One migration that does not fail.
LEMMA MigrateFrame ==
    ASSUME StartTypes, NEW o \in B!Openers, B!Migrate(o), ~(B!Fail(o) /\ UNCHANGED db)
    PROVE  LET j == B!Job(o)   v == j.cur + 1 IN
           /\ j.pc = "migrate" /\ j.at \in Databases /\ v \in Nat
           /\ db' \in [Databases -> DbRow] /\ \A d \in Databases :
                 /\ db'[d].applied = (IF d = j.at THEN db[d].applied \cup {v} ELSE db[d].applied)
                 /\ db'[d].accounts = db[d].accounts
                 /\ db'[d].version = (IF d = j.at /\ db[d].version < v THEN v ELSE db[d].version)
           /\ \E k \in B!JobType : B!Go(o, k) /\ k.pc = "migrate" /\ k.at = j.at /\ k.cred = j.cred /\ k.cur = v
<1>1. PICK j \in B!JobType : j = B!Job(o) /\ Placed(j)
    BY JobType
<1>2. j.pc = "migrate" /\ j.at \in Databases /\ j.cur \in Nat
    BY <1>1 DEF B!Migrate, Placed, B!JobType
<1> DEFINE v == j.cur + 1
<1>3. db \in [Databases -> DbRow] /\ db[j.at] \in DbRow /\ v \in Nat
    BY <1>2 DEF StartTypes
<1>4. PICK r : r = IF Kinds[v] = "alter" /\ v \in db[j.at].applied THEN B!Record(db[j.at], v) ELSE B!Migrated(db[j.at], v)
    OBVIOUS
<1>5. /\ r \in DbRow /\ r.applied = db[j.at].applied \cup {v} /\ r.accounts = db[j.at].accounts
      /\ r.version = (IF db[j.at].version < v THEN v ELSE db[j.at].version)
    BY <1>3, <1>4, RowRecorded, RowMigrated
<1> DEFINE k == [j EXCEPT !.cur = v]
<1>6. db' = [db EXCEPT ![j.at] = r] /\ B!Go(o, k)
    BY <1>1, <1>4 DEF B!Migrate
<1>7. k \in B!JobType /\ k.pc = "migrate" /\ k.at = j.at /\ k.cred = j.cred /\ k.cur = v
    BY <1>1, <1>2, <1>3 DEF B!JobType
<1> HIDE DEF k
<1>8. db' \in [Databases -> DbRow] /\ \A d \in Databases :
          /\ db'[d].applied = (IF d = j.at THEN db[d].applied \cup {v} ELSE db[d].applied)
          /\ db'[d].accounts = db[d].accounts
          /\ db'[d].version = (IF d = j.at /\ db[d].version < v THEN v ELSE db[d].version)
    BY <1>2, <1>3, <1>5, <1>6
<1> QED BY <1>1, <1>2, <1>3, <1>6, <1>7, <1>8

\* CreateUser puts one account into the database that main has opened.
LEMMA CreateFrame ==
    ASSUME StartTypes, panel.at \in Databases, NEW pwd \in Posts \cup Nat, B!CreateUser(pwd)
    PROVE  /\ db' \in [Databases -> DbRow]
           /\ \A d \in Databases : db'[d].applied = db[d].applied /\ db'[d].version = db[d].version
           /\ \A d \in Databases \ {panel.at} : db'[d].accounts = db[d].accounts
           /\ \E a \in Acct : /\ a.typed = (panel.cred # None) /\ a.pwd = pwd
                              /\ db'[panel.at].accounts = db[panel.at].accounts \cup {a}
<1>1. PICK a \in Acct : a = [named |-> panel.cred # None, typed |-> panel.cred # None, pwd |-> pwd]
  <2>1. (panel.cred # None) \in BOOLEAN
      OBVIOUS
  <2>2. \A t \in BOOLEAN : [named |-> t, typed |-> t, pwd |-> pwd] \in Acct
      BY DEF Acct
  <2> QED BY <2>1, <2>2, Zenon
<1>2. db \in [Databases -> DbRow] /\ db[panel.at] \in DbRow
    BY DEF StartTypes
<1>3. PICK r : r = [db[panel.at] EXCEPT !.accounts = @ \cup {a}]
    OBVIOUS
<1>4. /\ r \in DbRow /\ r.applied = db[panel.at].applied /\ r.version = db[panel.at].version
      /\ r.accounts = db[panel.at].accounts \cup {a}
    BY <1>1, <1>2, <1>3 DEF DbRow
<1>5. db' = [db EXCEPT ![panel.at] = r]
    BY <1>1, <1>3 DEF B!CreateUser
<1>6. a.typed = (panel.cred # None) /\ a.pwd = pwd
    BY <1>1
<1> QED BY <1>1, <1>2, <1>4, <1>5, <1>6

\* A step of an opener that leaves its job well-typed, in the phase it was in.
LEMMA OpenerPhases ==
    ASSUME StartTypes, Phases, NEW o \in B!Openers, NEW k \in B!JobType, B!Go(o, k), Placed(k),
           UNCHANGED outcome,
           B!Job(o).pc \in {"open", "version", "record", "migrate"},
           k.pc \in {"off", "version", "record", "migrate"}, k.pc # "off" => k.cred = B!Job(o).cred
    PROVE  Phases'
<1>1. CASE o = 0
  <2>1. panel' = k /\ UNCHANGED post /\ panel.pc \notin {"wizard", "drain"}
      BY <1>1 DEF B!Go, B!Job
  <2> QED BY <2>1 DEF Phases
<1>2. CASE o \in Posts /\ o # 0
  <2>1. UNCHANGED panel /\ post' = [post EXCEPT ![o] = k] /\ B!Job(o) = post[o]
      BY <1>2 DEF B!Go, B!Job
  <2>2. post'[o] = k /\ \A p \in Posts \ {o} : post'[p] = post[p]
      BY <1>2, <2>1 DEF StartTypes
  <2>3. panel.pc \in {"wizard", "drain"} /\ post[o].cred \in Posts
      BY <1>2, <2>1 DEF Phases
  <2>4. \A p \in Posts : /\ post'[p].pc \in {"off", "open", "version", "record", "migrate", "once"}
                         /\ post'[p].pc # "off" => post'[p].cred \in Posts
      BY <1>2, <2>1, <2>2, <2>3 DEF Phases
  <2> QED BY <2>1, <2>3, <2>4 DEF Phases
<1> QED BY <1>1, <1>2 DEF B!Openers

\* The steps of an opener keep the types and the phases.
LEMMA OpenerTypes ==
    ASSUME StartTypes, Phases, NEW o \in B!Openers,
           \/ B!OpenSQLite(o) \/ B!OpenPostgres(o) \/ B!VersionPostgres(o) \/ B!RecordPostgres(o)
           \/ B!Migrate(o) \/ B!OpenFails(o)
    PROVE  StartTypes' /\ Phases'
<1> DEFINE Moved(k) ==
      /\ B!Go(o, k) /\ Placed(k) /\ B!Job(o).pc \in {"open", "version", "record", "migrate"}
      /\ k.pc \in {"off", "version", "record", "migrate"} /\ (k.pc # "off" => k.cred = B!Job(o).cred)
<1>1. /\ db' \in [Databases -> DbRow] /\ UNCHANGED <<release, config, chosen, key, pwFile, drawn, outcome>>
      /\ \E k \in B!JobType : Moved(k)
  <2>1. UNCHANGED <<release, config, chosen, key, pwFile, drawn, outcome>>
      BY DEF B!OpenSQLite, B!OpenPostgres, B!VersionPostgres, B!RecordPostgres, B!Migrate, B!OpenFails, B!storage
  <2>2. CASE B!OpenSQLite(o)
      BY <2>1, <2>2, SQLiteFrame DEF Placed
  <2>3. CASE B!OpenPostgres(o)
      BY <2>1, <2>3, PostgresFrame DEF Placed
  <2>4. CASE B!VersionPostgres(o)
    <3>1. PICK k \in B!JobType : /\ B!Go(o, k) /\ k.at = B!Job(o).at /\ k.cred = B!Job(o).cred
                                 /\ k.pc \in {"record", "migrate"}
        BY <2>4, VersionFrame
    <3>2. B!Job(o).at \in Databases /\ B!Job(o).pc = "version" /\ db' \in [Databases -> DbRow]
        BY <2>4, VersionFrame DEF StartTypes
    <3> QED BY <2>1, <3>1, <3>2 DEF Placed
  <2>5. CASE B!RecordPostgres(o)
      BY <2>1, <2>5, RecordFrame DEF Placed
  <2>6. CASE B!Migrate(o) /\ ~(B!Fail(o) /\ UNCHANGED db)
    <3>1. PICK k \in B!JobType : /\ B!Go(o, k) /\ k.at = B!Job(o).at /\ k.cred = B!Job(o).cred /\ k.pc = "migrate"
        BY <2>6, MigrateFrame
    <3>2. B!Job(o).at \in Databases /\ B!Job(o).pc = "migrate" /\ db' \in [Databases -> DbRow]
        BY <2>6, MigrateFrame
    <3> QED BY <2>1, <3>1, <3>2 DEF Placed
  <2>7. CASE (B!Migrate(o) \/ B!OpenFails(o)) /\ B!Fail(o) /\ UNCHANGED db
    <3>1. B!Job(o).pc \in {"open", "version", "record", "migrate"}
        BY <2>7 DEF B!Migrate, B!OpenFails
    <3>2. db' \in [Databases -> DbRow]
        BY <2>7 DEF StartTypes
    <3> QED BY <2>1, <2>7, <3>1, <3>2, OffType DEF B!Fail
  <2> QED BY <2>2, <2>3, <2>4, <2>5, <2>6, <2>7 DEF B!OpenFails
<1>2. PICK k \in B!JobType : Moved(k)
    BY <1>1
<1>3. Phases'
    BY <1>1, <1>2, OpenerPhases
<1> QED BY <1>1, <1>2, <1>3, GoJob DEF StartTypes

\* The steps of main that open nothing keep the types and the phases.
LEMMA MainTypes ==
    ASSUME StartTypes, Phases,
           \/ B!Boot \/ B!ShutdownWizard \/ B!WizardReturns \/ B!LoadKey \/ B!FillKey
           \/ B!InitializeAdmin \/ B!FillPassword \/ B!CreateGenerated \/ B!Stop \/ B!Upgrade
    PROVE  StartTypes' /\ Phases'
<1> USE StartupAssumption
<1>1. panel \in B!JobType /\ panel.cur \in Nat /\ panel.cred \in Posts \cup {None} /\ panel.at \in Databases \cup {None}
    BY DEF StartTypes, B!JobType
<1>2. CASE B!Boot
  <2>1. PICK d \in Databases \cup {None} :
            panel' = IF d = None THEN [B!Off EXCEPT !.pc = "wizard"] ELSE [B!Off EXCEPT !.pc = "open", !.at = d]
      BY <1>2 DEF B!Boot, StartTypes
  <2>2. panel' \in B!JobType /\ Placed(panel') /\ panel'.pc \in {"wizard", "open"}
      BY <2>1 DEF B!Off, B!JobType, Placed
  <2>3. panel.pc = "off" /\ UNCHANGED <<release, config, chosen, key, pwFile, drawn, db, post, outcome>>
      BY <1>2 DEF B!Boot, B!storage
  <2> QED BY <2>2, <2>3 DEF StartTypes, Phases, Placed
<1>3. CASE B!ShutdownWizard
  <2>1. panel' \in B!JobType /\ panel'.pc = "drain" /\ outcome # None /\ panel.pc = "wizard"
      BY <1>1, <1>3 DEF B!ShutdownWizard, B!JobType
  <2> QED BY <1>3, <2>1 DEF B!ShutdownWizard, B!storage, StartTypes, Phases, Placed
<1>4. CASE B!WizardReturns
  <2>1. outcome.at \in Databases /\ outcome.cred \in Posts
      BY <1>4 DEF B!WizardReturns, StartTypes, Phases
  <2>2. panel' \in B!JobType /\ panel'.pc = "open" /\ panel'.at \in Databases
      BY <1>4, <2>1 DEF B!WizardReturns, B!JobType, B!Off
  <2> QED BY <1>4, <2>2 DEF B!WizardReturns, B!storage, StartTypes, Phases, Placed
<1>5. CASE B!LoadKey
  <2>1. panel.pc = "migrate" /\ panel.at \in Databases
      BY <1>5 DEF B!LoadKey, B!Open, B!Job, StartTypes, Placed
  <2>2. panel' \in B!JobType /\ Placed(panel') /\ panel'.pc \in {"off", "admin", "fillKey"}
      BY <1>1, <1>5, <2>1, OffType DEF B!LoadKey, B!JobType, Placed
  <2> QED BY <1>5, <2>1, <2>2 DEF B!LoadKey, StartTypes, Phases, Placed
<1>6. CASE B!FillKey
  <2>1. panel' \in B!JobType /\ Placed(panel') /\ panel'.pc = "admin"
      BY <1>1, <1>6 DEF B!FillKey, B!JobType, StartTypes, Placed
  <2> QED BY <1>6, <2>1 DEF B!FillKey, StartTypes, Phases, Placed
<1>7. CASE B!InitializeAdmin
  <2>1. panel.pc = "admin" /\ panel.at \in Databases /\ drawn + 1 \in Nat
      BY <1>7 DEF B!InitializeAdmin, StartTypes, Placed
  <2>2. panel' \in B!JobType /\ Placed(panel') /\ panel'.pc \in {"off", "serve", "fillPassword"}
    <3>1. \/ panel' = B!Off \/ panel' = [panel EXCEPT !.pc = "serve"]
          \/ panel' = [panel EXCEPT !.pc = "fillPassword", !.cur = drawn + 1]
        BY <1>7 DEF B!InitializeAdmin
    <3> QED BY <1>1, <2>1, <3>1, OffType DEF B!JobType, Placed
  <2>3. db' \in [Databases -> DbRow]
    <3>1. CASE UNCHANGED db
        BY <3>1 DEF StartTypes
    <3>2. CASE B!CreateUser(panel.cred) /\ panel.cred # None
        BY <1>1, <2>1, <3>2, CreateFrame
    <3>3. CASE B!CreateUser(pwFile) /\ pwFile # None
        BY <2>1, <3>3, CreateFrame DEF StartTypes
    <3> QED BY <1>7, <3>1, <3>2, <3>3 DEF B!InitializeAdmin, B!Reused
  <2>4. pwFile' \in Nat \cup {None} /\ drawn' \in Nat
      BY <1>7, <2>1 DEF B!InitializeAdmin, StartTypes
  <2>5. UNCHANGED <<release, config, chosen, key, post, outcome>>
      BY <1>7 DEF B!InitializeAdmin
  <2> QED BY <2>1, <2>2, <2>3, <2>4, <2>5 DEF StartTypes, Phases, Placed
<1>8. CASE B!FillPassword
  <2>1. panel' \in B!JobType /\ Placed(panel') /\ panel'.pc = "createUser" /\ panel.pc = "fillPassword"
      BY <1>1, <1>8 DEF B!FillPassword, B!JobType, StartTypes, Placed
  <2> QED BY <1>1, <1>8, <2>1 DEF B!FillPassword, StartTypes, Phases, Placed
<1>9. CASE B!CreateGenerated
  <2>1. panel.pc = "createUser" /\ panel.at \in Databases /\ B!CreateUser(panel.cur)
      BY <1>9 DEF B!CreateGenerated, StartTypes, Placed
  <2>2. db' \in [Databases -> DbRow]
      BY <1>1, <2>1, CreateFrame
  <2>3. panel' \in B!JobType /\ Placed(panel') /\ panel'.pc = "serve"
      BY <1>1, <1>9, <2>1 DEF B!CreateGenerated, B!JobType, Placed
  <2> QED BY <1>9, <2>1, <2>2, <2>3 DEF B!CreateGenerated, B!storage, StartTypes, Phases, Placed
<1>10. CASE B!Stop
  <2>1. panel' = B!Off /\ post' = [p \in Posts |-> B!Off] /\ outcome' = None
      BY <1>10 DEF B!Stop
  <2>2. UNCHANGED <<release, config, chosen, key, pwFile, db, drawn>>
      BY <1>10 DEF B!Stop, B!storage
  <2> QED BY <2>1, <2>2, OffType DEF StartTypes, Phases, Placed
<1>11. CASE B!Upgrade
    BY <1>11 DEF B!Upgrade, StartTypes, Phases, Placed
<1> QED BY <1>2, <1>3, <1>4, <1>5, <1>6, <1>7, <1>8, <1>9, <1>10, <1>11

\* The steps of the wizard's requests that open nothing keep the types and the phases.
LEMMA WizardTypes ==
    ASSUME StartTypes, Phases, NEW p \in Posts,
           B!SaveSelection(p) \/ B!SendOutcome(p) \/ \E d \in Databases : B!PostSetup(p, d)
    PROVE  StartTypes' /\ Phases'
<1> DEFINE Moved(k) ==
      /\ post' = [post EXCEPT ![p] = k] /\ Placed(k) /\ panel.pc \in {"wizard", "drain"}
      /\ k.pc \in {"off", "open", "once"} /\ (k.pc # "off" => k.cred \in Posts)
<1>1. post[p] \in B!JobType /\ Placed(post[p]) /\ p # 0
    BY StartupAssumption DEF StartTypes
<1>2. /\ UNCHANGED <<release, config, key, pwFile, db, panel, drawn>> /\ chosen' \in Databases \cup {None}
      /\ outcome # None => outcome' = outcome
      /\ outcome' # None => outcome' \in [at : Databases, cred : Posts]
      /\ \E k \in B!JobType : Moved(k)
  <2>1. CASE B!SaveSelection(p)
    <3>1. post[p].pc = "migrate" /\ post[p].at \in Databases
        BY <1>1, <2>1 DEF B!SaveSelection, B!Open, B!Job, Placed
    <3>2. post[p].cred \in Posts /\ panel.pc \in {"wizard", "drain"}
        BY <3>1 DEF Phases
    <3>3. PICK k : k = [post[p] EXCEPT !.pc = "once"]
        OBVIOUS
    <3>4. k \in B!JobType /\ k.pc = "once" /\ k.at = post[p].at /\ k.cred = post[p].cred
        BY <1>1, <3>3 DEF B!JobType
    <3>5. Moved(k)
        BY <2>1, <3>1, <3>2, <3>3, <3>4 DEF B!SaveSelection, Placed
    <3> QED BY <2>1, <3>1, <3>4, <3>5 DEF B!SaveSelection, StartTypes
  <2>2. CASE B!SendOutcome(p)
    <3>1. post[p].pc = "once" /\ post[p].at \in Databases
        BY <1>1, <2>2 DEF B!SendOutcome, Placed
    <3>2. post[p].cred \in Posts /\ panel.pc \in {"wizard", "drain"}
        BY <3>1 DEF Phases
    <3>3. B!Off \in B!JobType /\ Moved(B!Off)
        BY <2>2, <3>2, OffType DEF B!SendOutcome
    <3> QED BY <2>2, <3>1, <3>2, <3>3 DEF B!SendOutcome, B!storage, StartTypes
  <2>3. CASE \E d \in Databases : B!PostSetup(p, d)
    <3>1. PICK d \in Databases : B!PostSetup(p, d)
        BY <2>3
    <3>2. PICK k : k = [B!Off EXCEPT !.pc = "open", !.at = d, !.cred = p]
        OBVIOUS
    <3>3. k \in B!JobType /\ k.pc = "open" /\ k.at = d /\ k.cred = p
        BY <3>2 DEF B!Off, B!JobType
    <3>4. Moved(k)
        BY <3>1, <3>2, <3>3 DEF B!PostSetup, Placed
    <3> QED BY <3>1, <3>3, <3>4 DEF B!PostSetup, B!storage, StartTypes
  <2> QED BY <2>1, <2>2, <2>3
<1>3. PICK k \in B!JobType : Moved(k)
    BY <1>2
<1>4. post' \in [Posts -> B!JobType] /\ post'[p] = k /\ \A x \in Posts \ {p} : post'[x] = post[x]
    BY <1>3 DEF StartTypes
<1>5. \A x \in Posts : Placed(post'[x])
    BY <1>3, <1>4 DEF StartTypes
<1>6. \A x \in Posts : /\ post'[x].pc \in {"off", "open", "version", "record", "migrate", "once"}
                       /\ post'[x].pc # "off" => post'[x].cred \in Posts
    BY <1>3, <1>4 DEF Phases
<1>7. Phases'
    BY <1>2, <1>3, <1>6 DEF Phases
<1> QED BY <1>2, <1>4, <1>5, <1>7 DEF StartTypes, Placed

\* Every step keeps the types and the phases.
LEMMA StartStep ==
    ASSUME StartTypes, Phases, B!Next
    PROVE  StartTypes' /\ Phases'
    BY MainTypes, WizardTypes, OpenerTypes DEF B!Next
-----------------------------------------------------------------------------
(* Migrations.                                                              *)

Unrecorded(d) == db[d].version = 0 /\ db[d].applied # {}

\* Outside the torn databases: whoever migrates has everything up to cur behind it, and whoever is
\* about to record the release has all of it. A Postgres database with tables and no version has an
\* opener that is going to record one, and its tables are those of the installed release.
Schema ==
    /\ \A o \in B!Openers : B!Job(o).pc \in {"version", "record"} =>
           B!Job(o).at \in Postgres /\ db[B!Job(o).at].applied # {}
    /\ \A o \in B!Openers : B!Job(o).pc = "migrate" /\ B!Job(o).at \notin torn =>
           1..B!Job(o).cur \subseteq db[B!Job(o).at].applied
    /\ \A o \in B!Openers : B!Job(o).pc = "record" /\ B!Job(o).at \notin torn =>
           1..release \subseteq db[B!Job(o).at].applied
    /\ \A d \in (Databases \cap Postgres) \ torn : Unrecorded(d) =>
           /\ 1..release \subseteq db[d].applied
           /\ \E o \in B!Openers : B!Job(o).pc \in {"version", "record"} /\ B!Job(o).at = d
    /\ B!RecordedMeansApplied

\* Steps that write no schema: a job that changes was not about to record, and starts over or goes on
\* with something else.
LEMMA SchemaKept ==
    ASSUME StartTypes, Schema, UNCHANGED <<release, torn>>,
           \A d \in Databases : db'[d].applied = db[d].applied /\ db'[d].version = db[d].version,
           \A o \in B!Openers : \/ B!Job(o)' = B!Job(o)
                                \/ /\ B!Job(o).pc \notin {"version", "record"}
                                   /\ B!Job(o)'.pc \notin {"version", "record", "migrate"}
    PROVE  Schema'
<1>1. \A o \in B!Openers : B!Job(o).pc \in {"version", "record", "migrate"} => B!Job(o).at \in Databases
    BY JobType DEF Placed
<1>2. \A o \in B!Openers : B!Job(o)'.pc \in {"version", "record", "migrate"} => B!Job(o)' = B!Job(o)
    OBVIOUS
<1>3. B!RecordedMeansApplied'
    BY DEF Schema, B!RecordedMeansApplied
<1>4. \A d \in (Databases \cap Postgres) \ torn : Unrecorded(d)' =>
           /\ 1..release \subseteq db'[d].applied
           /\ \E o \in B!Openers : B!Job(o)'.pc \in {"version", "record"} /\ B!Job(o)'.at = d
    BY DEF Schema, Unrecorded
<1>5. /\ \A o \in B!Openers : B!Job(o)'.pc \in {"version", "record"} =>
             B!Job(o)'.at \in Postgres /\ db'[B!Job(o)'.at].applied # {}
      /\ \A o \in B!Openers : B!Job(o)'.pc = "migrate" /\ B!Job(o)'.at \notin torn =>
             1..B!Job(o)'.cur \subseteq db'[B!Job(o)'.at].applied
      /\ \A o \in B!Openers : B!Job(o)'.pc = "record" /\ B!Job(o)'.at \notin torn =>
             1..release \subseteq db'[B!Job(o)'.at].applied
    BY <1>1, <1>2 DEF Schema
<1> QED BY <1>3, <1>4, <1>5 DEF Schema

\* An opener goes on: the database it works on only gains tables and a version.
LEMMA SchemaGoesOn ==
    ASSUME StartTypes, Schema, UNCHANGED <<release, torn>>, NEW o \in B!Openers, NEW k,
           B!Job(o)' = k, \A x \in B!Openers \ {o} : B!Job(x)' = B!Job(x),
           NEW d \in Databases, k.at = d, B!Job(o).at = d,
           \A e \in Databases \ {d} : db'[e].applied = db[e].applied /\ db'[e].version = db[e].version,
           db[d].applied \subseteq db'[d].applied,
           k.pc \in {"version", "record", "migrate"},
           k.pc \in {"version", "record"} => d \in Postgres /\ db'[d].applied # {},
           d \notin torn =>
               /\ 1..db'[d].version \subseteq db'[d].applied
               /\ k.pc = "migrate" => 1..k.cur \subseteq db'[d].applied
               /\ k.pc = "record" => 1..release \subseteq db'[d].applied
               /\ d \in Postgres /\ db'[d].version = 0 /\ db'[d].applied # {} =>
                      1..release \subseteq db'[d].applied /\ k.pc \in {"version", "record"}
    PROVE  Schema'
<1>1. \A x \in B!Openers : B!Job(x).pc \in {"version", "record", "migrate"} => B!Job(x).at \in Databases
    BY JobType DEF Placed
<1>2. \A e \in Databases : db[e].applied \subseteq db'[e].applied
    OBVIOUS
<1>3. \A e \in Databases \ torn : 1..db'[e].version \subseteq db'[e].applied
    BY DEF Schema, B!RecordedMeansApplied
<1>4. ASSUME NEW e \in (Databases \cap Postgres) \ torn, db'[e].version = 0, db'[e].applied # {}
      PROVE  /\ 1..release \subseteq db'[e].applied
             /\ \E x \in B!Openers : B!Job(x)'.pc \in {"version", "record"} /\ B!Job(x)'.at = e
  <2>1. CASE e = d
      BY <1>4, <2>1
  <2>2. CASE e # d
    <3>1. Unrecorded(e)
        BY <1>4, <2>2 DEF Unrecorded
    <3>2. PICK x \in B!Openers : B!Job(x).pc \in {"version", "record"} /\ B!Job(x).at = e
        BY <1>4, <3>1 DEF Schema
    <3>3. x # o
        BY <2>2, <3>2
    <3> QED BY <1>4, <2>2, <3>1, <3>2, <3>3 DEF Schema
  <2> QED BY <2>1, <2>2
<1>5. ASSUME NEW x \in B!Openers
      PROVE  /\ B!Job(x)'.pc \in {"version", "record"} =>
                    B!Job(x)'.at \in Postgres /\ db'[B!Job(x)'.at].applied # {}
             /\ B!Job(x)'.pc = "migrate" /\ B!Job(x)'.at \notin torn =>
                    1..B!Job(x)'.cur \subseteq db'[B!Job(x)'.at].applied
             /\ B!Job(x)'.pc = "record" /\ B!Job(x)'.at \notin torn =>
                    1..release \subseteq db'[B!Job(x)'.at].applied
  <2>1. CASE x = o
      BY <2>1
  <2>2. CASE x # o
    <3>1. B!Job(x)' = B!Job(x)
        BY <2>2
    <3>2. B!Job(x).pc \in {"version", "record", "migrate"} => db[B!Job(x).at].applied \subseteq db'[B!Job(x).at].applied
        BY <1>1, <1>2
    <3>3. B!Job(x).pc \in {"version", "record"} => B!Job(x).at \in Postgres /\ db'[B!Job(x).at].applied # {}
        BY <3>2 DEF Schema
    <3>4. B!Job(x).pc = "migrate" /\ B!Job(x).at \notin torn => 1..B!Job(x).cur \subseteq db'[B!Job(x).at].applied
        BY <3>2 DEF Schema
    <3>5. B!Job(x).pc = "record" /\ B!Job(x).at \notin torn => 1..release \subseteq db'[B!Job(x).at].applied
        BY <3>2 DEF Schema
    <3> QED BY <3>1, <3>3, <3>4, <3>5
  <2> QED BY <2>1, <2>2
<1>6. B!RecordedMeansApplied'
    BY <1>3 DEF B!RecordedMeansApplied
<1>7. \A e \in (Databases \cap Postgres) \ torn : Unrecorded(e)' =>
           /\ 1..release \subseteq db'[e].applied
           /\ \E x \in B!Openers : B!Job(x)'.pc \in {"version", "record"} /\ B!Job(x)'.at = e
    BY <1>4 DEF Unrecorded
<1> QED BY <1>5, <1>6, <1>7 DEF Schema

\* The steps of an opener that do not fail.
LEMMA SchemaOpens ==
    ASSUME StartTypes, Schema, NEW o \in B!Openers,
           \/ B!OpenSQLite(o) \/ B!OpenPostgres(o) \/ B!VersionPostgres(o) \/ B!RecordPostgres(o)
           \/ B!Migrate(o) /\ ~(B!Fail(o) /\ UNCHANGED db)
    PROVE  Schema'
<1>1. UNCHANGED <<release, torn>> /\ release \in Nat \ {0}
    BY DEF B!OpenSQLite, B!OpenPostgres, B!VersionPostgres, B!RecordPostgres, B!Migrate, B!storage, StartTypes
<1>2. \A d \in Databases : db[d].version \in Nat
    BY DEF StartTypes, DbRow
<1>3. \A d \in Databases \ torn : 1..db[d].version \subseteq db[d].applied
    BY DEF Schema, B!RecordedMeansApplied
<1>4. \A d \in (Databases \cap Postgres) \ torn :
          db[d].version = 0 /\ db[d].applied # {} => 1..release \subseteq db[d].applied
    BY DEF Schema, Unrecorded
<1>5. PICK d : d = B!Job(o).at
    OBVIOUS
<1>6. CASE B!OpenSQLite(o)
  <2>1. PICK k \in B!JobType : B!Go(o, k) /\ k.pc = "migrate" /\ k.at = d /\ k.cur = db[d].version
      BY <1>5, <1>6, SQLiteFrame
  <2>2. /\ d \in Databases /\ d \notin Postgres
        /\ \A e \in Databases : db'[e].applied = db[e].applied /\ db'[e].version = db[e].version
      BY <1>5, <1>6, SQLiteFrame
  <2>3. B!Job(o)' = k /\ \A x \in B!Openers \ {o} : B!Job(x)' = B!Job(x)
      BY <2>1, <2>2, GoJob DEF Placed
  <2> QED BY <1>1, <1>3, <1>5, <2>1, <2>2, <2>3, SchemaGoesOn
<1>7. CASE B!OpenPostgres(o)
  <2>1. PICK k \in B!JobType : B!Go(o, k) /\ k.pc = "version" /\ k.at = d
      BY <1>5, <1>7, PostgresFrame
  <2>2. /\ d \in Databases /\ d \in Postgres
        /\ \A e \in Databases :
               /\ db'[e].applied = (IF e = d /\ db[e].applied = {} THEN 1..release ELSE db[e].applied)
               /\ db'[e].version = db[e].version
    <3>1. d \in Postgres
        BY <1>5, <1>7 DEF B!OpenPostgres
    <3> HIDE DEF B!OpenPostgres
    <3> QED BY <1>5, <1>7, <3>1, PostgresFrame
  <2>3. B!Job(o)' = k /\ \A x \in B!Openers \ {o} : B!Job(x)' = B!Job(x)
      BY <2>1, <2>2, GoJob DEF Placed
  <2>4. 1 \in 1..release
      BY <1>1
  <2>5. db[d].applied \subseteq db'[d].applied /\ db'[d].applied # {} /\ db'[d].version = db[d].version
      BY <2>2, <2>4
  <2>6. d \notin torn => 1..db'[d].version \subseteq db'[d].applied
      BY <1>3, <2>2, <2>5
  <2>7. d \notin torn /\ db'[d].version = 0 => 1..release \subseteq db'[d].applied
      BY <1>4, <2>2
  <2>8. \A e \in Databases \ {d} : db'[e].applied = db[e].applied /\ db'[e].version = db[e].version
      BY <2>2
  <2>9. d \in Databases /\ d \in Postgres
      BY <2>2
  <2> QED BY <1>1, <1>5, <2>1, <2>3, <2>5, <2>6, <2>7, <2>8, <2>9, SchemaGoesOn
<1>8. CASE B!VersionPostgres(o)
  <2>1. PICK k \in B!JobType : /\ B!Go(o, k) /\ k.at = d
                               /\ IF db[d].version = 0 THEN k.pc = "record"
                                  ELSE k.pc = "migrate" /\ k.cur = db[d].version
      BY <1>5, <1>8, VersionFrame
  <2>2. d \in Databases /\ B!Job(o).pc = "version" /\ UNCHANGED db
      BY <1>5, <1>8, VersionFrame
  <2>3. d \in Postgres /\ db[d].applied # {}
      BY <1>5, <2>2 DEF Schema
  <2>4. B!Job(o)' = k /\ \A x \in B!Openers \ {o} : B!Job(x)' = B!Job(x)
      BY <2>1, <2>2, GoJob DEF Placed
  <2>5. k.pc \in {"version", "record", "migrate"}
      BY <2>1
  <2>6. d \notin torn =>
               /\ 1..db'[d].version \subseteq db'[d].applied
               /\ k.pc = "migrate" => 1..k.cur \subseteq db'[d].applied
               /\ k.pc = "record" => 1..release \subseteq db'[d].applied
               /\ d \in Postgres /\ db'[d].version = 0 /\ db'[d].applied # {} =>
                      1..release \subseteq db'[d].applied /\ k.pc \in {"version", "record"}
      BY <1>3, <1>4, <2>1, <2>2, <2>3
  <2> QED BY <1>1, <1>5, <2>1, <2>2, <2>3, <2>4, <2>5, <2>6, SchemaGoesOn
<1>9. CASE B!RecordPostgres(o)
  <2>1. PICK k \in B!JobType : B!Go(o, k) /\ k.pc = "migrate" /\ k.at = d /\ k.cur = release
      BY <1>5, <1>9, RecordFrame
  <2>2. /\ d \in Databases /\ B!Job(o).pc = "record"
        /\ \A e \in Databases :
               /\ db'[e].applied = db[e].applied
               /\ db'[e].version = (IF e = d /\ db[e].version < release THEN release ELSE db[e].version)
      BY <1>5, <1>9, RecordFrame
  <2>3. B!Job(o)' = k /\ \A x \in B!Openers \ {o} : B!Job(x)' = B!Job(x)
      BY <2>1, <2>2, GoJob DEF Placed
  <2>4. d \notin torn => 1..release \subseteq db[d].applied
      BY <1>5, <2>2 DEF Schema
  <2>5. db'[d].version # 0
      BY <1>1, <1>2, <2>2
  <2>6. d \notin torn => 1..db'[d].version \subseteq db'[d].applied
      BY <1>3, <2>2, <2>4
  <2>7. \A e \in Databases \ {d} : db'[e].applied = db[e].applied /\ db'[e].version = db[e].version
      BY <2>2
  <2> QED BY <1>1, <1>5, <2>1, <2>2, <2>3, <2>4, <2>5, <2>6, <2>7, SchemaGoesOn
<1>10. CASE B!Migrate(o) /\ ~(B!Fail(o) /\ UNCHANGED db)
  <2>1. PICK c : c = B!Job(o).cur
      OBVIOUS
  <2>2. PICK k \in B!JobType : B!Go(o, k) /\ k.pc = "migrate" /\ k.at = d /\ k.cur = c + 1
      BY <1>5, <1>10, <2>1, MigrateFrame
  <2>3. /\ d \in Databases /\ B!Job(o).pc = "migrate" /\ c \in Nat
        /\ \A e \in Databases :
               /\ db'[e].applied = (IF e = d THEN db[e].applied \cup {c + 1} ELSE db[e].applied)
               /\ db'[e].version = (IF e = d /\ db[e].version < c + 1 THEN c + 1 ELSE db[e].version)
      BY <1>5, <1>10, <2>1, MigrateFrame, JobType DEF B!JobType
  <2>4. B!Job(o)' = k /\ \A x \in B!Openers \ {o} : B!Job(x)' = B!Job(x)
      BY <2>2, <2>3, GoJob DEF Placed
  <2>5. d \notin torn => 1..c \subseteq db[d].applied
      BY <1>5, <2>1, <2>3 DEF Schema
  <2>6. d \notin torn => 1..(c + 1) \subseteq db'[d].applied
    <3>1. c \in Nat /\ db'[d].applied = db[d].applied \cup {c + 1}
        BY <2>3
    <3>2. \A i \in 1..(c + 1) : i \in 1..c \/ i = c + 1
        BY <3>1
    <3> QED BY <2>5, <3>1, <3>2
  <2>7. d \notin torn => 1..db'[d].version \subseteq db'[d].applied
    <3>1. CASE db'[d].version = db[d].version
      <4>1. db[d].applied \subseteq db'[d].applied
          BY <2>3
      <4> QED BY <1>3, <2>3, <3>1, <4>1
    <3>2. CASE db'[d].version = c + 1
        BY <2>6, <3>2
    <3> QED BY <2>3, <3>1, <3>2
  <2>8. db'[d].version # 0 /\ db[d].applied \subseteq db'[d].applied
    <3>1. d \in Databases /\ c \in Nat /\ db[d].version \in Nat /\ db'[d].applied = db[d].applied \cup {c + 1}
        BY <1>2, <2>3
    <3>2. db'[d].version = IF db[d].version < c + 1 THEN c + 1 ELSE db[d].version
        BY <2>3
    <3> QED BY <3>1, <3>2
  <2>9. \A e \in Databases \ {d} : db'[e].applied = db[e].applied /\ db'[e].version = db[e].version
      BY <2>3
  <2> QED BY <1>1, <1>5, <2>2, <2>3, <2>4, <2>6, <2>7, <2>8, <2>9, SchemaGoesOn
<1> QED BY <1>6, <1>7, <1>8, <1>9, <1>10

\* Openers end, all or one of them: databases left with tables and no version are torn.
LEMMA SchemaCut ==
    ASSUME StartTypes, Schema, UNCHANGED <<release, db>>, NEW O, O \subseteq B!Openers,
           torn' = torn \cup B!CutShort(O),
           \A o \in O : B!Job(o)'.pc = "off", \A o \in B!Openers \ O : B!Job(o)' = B!Job(o)
    PROVE  Schema'
<1>1. \A o \in B!Openers : B!Job(o)'.pc \in {"version", "record", "migrate"} => B!Job(o)' = B!Job(o)
    OBVIOUS
<1>2. B!RecordedMeansApplied'
    BY DEF Schema, B!RecordedMeansApplied
<1>3. ASSUME NEW d \in (Databases \cap Postgres) \ torn', Unrecorded(d)
      PROVE  /\ 1..release \subseteq db[d].applied
             /\ \E o \in B!Openers : B!Job(o)'.pc \in {"version", "record"} /\ B!Job(o)'.at = d
  <2>1. d \in (Databases \cap Postgres) \ torn
      OBVIOUS
  <2>2. PICK o \in B!Openers : B!Job(o).pc \in {"version", "record"} /\ B!Job(o).at = d
      BY <1>3, <2>1 DEF Schema
  <2>3. o \notin O
      BY <1>3, <2>2 DEF B!CutShort, Unrecorded
  <2> QED BY <1>3, <2>1, <2>2, <2>3 DEF Schema
<1>4. \A d \in (Databases \cap Postgres) \ torn' : Unrecorded(d)' =>
           /\ 1..release' \subseteq db'[d].applied
           /\ \E o \in B!Openers : B!Job(o)'.pc \in {"version", "record"} /\ B!Job(o)'.at = d
    BY <1>3 DEF Unrecorded
<1>5. /\ \A o \in B!Openers : B!Job(o)'.pc \in {"version", "record"} =>
             B!Job(o)'.at \in Postgres /\ db'[B!Job(o)'.at].applied # {}
      /\ \A o \in B!Openers : B!Job(o)'.pc = "migrate" /\ B!Job(o)'.at \notin torn' =>
             1..B!Job(o)'.cur \subseteq db'[B!Job(o)'.at].applied
      /\ \A o \in B!Openers : B!Job(o)'.pc = "record" /\ B!Job(o)'.at \notin torn' =>
             1..release' \subseteq db'[B!Job(o)'.at].applied
    BY <1>1 DEF Schema
<1> QED BY <1>2, <1>4, <1>5 DEF Schema

\* Every step keeps the schema in step with its version.
LEMMA SchemaStep ==
    ASSUME StartTypes, Phases, Schema, B!Next
    PROVE  Schema'
<1> USE StartupAssumption
<1>1. ASSUME NEW o \in B!Openers,
             \/ B!OpenSQLite(o) \/ B!OpenPostgres(o) \/ B!VersionPostgres(o) \/ B!RecordPostgres(o)
             \/ B!Migrate(o) \/ B!OpenFails(o)
      PROVE  Schema'
  <2>1. CASE B!Fail(o)
    <3>1. B!Job(o)' = B!Off /\ B!Off.pc = "off" /\ \A x \in B!Openers \ {o} : B!Job(x)' = B!Job(x)
        BY <2>1, OffType, GoJob DEF B!Fail
    <3>2. CASE B!OpenFails(o)
      <4>1. torn' = torn \cup B!CutShort({o}) /\ UNCHANGED <<release, db>>
          BY <3>2 DEF B!OpenFails, B!storage
      <4> QED BY <3>1, <4>1, SchemaCut
    <3>3. CASE B!Migrate(o) /\ UNCHANGED db
      <4>1. UNCHANGED <<release, torn>> /\ B!Job(o).pc = "migrate"
          BY <3>3 DEF B!Migrate, B!storage
      <4> QED BY <3>1, <3>3, <4>1, SchemaKept
    <3> QED BY <1>1, <3>2, <3>3, SchemaOpens
  <2> QED BY <1>1, <2>1, SchemaOpens DEF B!OpenFails
<1>2. ASSUME UNCHANGED <<release, torn, post>>,
             panel.pc \notin {"version", "record"}, panel'.pc \notin {"version", "record", "migrate"},
             \A d \in Databases : db'[d].applied = db[d].applied /\ db'[d].version = db[d].version
      PROVE  Schema'
    BY <1>2, SchemaKept DEF B!Job, B!Openers
<1>3. panel \in B!JobType /\ (panel.pc \notin {"off", "wizard", "drain"} => panel.at \in Databases)
    BY DEF StartTypes, Placed
<1>4. ASSUME B!Boot \/ B!ShutdownWizard \/ B!WizardReturns \/ B!LoadKey \/ B!FillKey \/ B!FillPassword
      PROVE  Schema'
  <2>1. UNCHANGED <<release, torn, post, db>> /\ panel.pc \notin {"version", "record"}
      BY <1>4 DEF B!Boot, B!ShutdownWizard, B!WizardReturns, B!LoadKey, B!FillKey, B!FillPassword, B!storage, B!Open,
                  B!Job
  <2>2. panel'.pc \notin {"version", "record", "migrate"}
    <3>1. CASE B!Boot
        BY <3>1 DEF B!Boot, B!Off
    <3>2. CASE B!WizardReturns
        BY <3>2 DEF B!WizardReturns, B!Off
    <3>3. CASE B!LoadKey
        BY <1>3, <3>3, OffType DEF B!LoadKey, B!JobType
    <3>4. CASE B!ShutdownWizard \/ B!FillKey \/ B!FillPassword
        BY <1>3, <3>4 DEF B!ShutdownWizard, B!FillKey, B!FillPassword, B!JobType
    <3> QED BY <1>4, <3>1, <3>2, <3>3, <3>4
  <2> QED BY <1>2, <2>1, <2>2
<1>5. CASE B!InitializeAdmin
  <2>1. panel.pc = "admin" /\ panel.at \in Databases /\ UNCHANGED <<release, torn, post>>
      BY <1>3, <1>5 DEF B!InitializeAdmin
  <2>2. panel'.pc \notin {"version", "record", "migrate"}
    <3>1. \/ panel' = B!Off \/ panel' = [panel EXCEPT !.pc = "serve"]
          \/ panel' = [panel EXCEPT !.pc = "fillPassword", !.cur = drawn + 1]
        BY <1>5 DEF B!InitializeAdmin
    <3> QED BY <1>3, <3>1, OffType DEF B!JobType
  <2>3. CASE UNCHANGED db
      BY <1>2, <2>1, <2>2, <2>3
  <2>4. CASE B!CreateUser(panel.cred) /\ panel.cred # None
    <3>1. panel.cred \in Posts \cup Nat
        BY <1>3, <2>4 DEF B!JobType
    <3> QED BY <1>2, <2>1, <2>2, <2>4, <3>1, CreateFrame
  <2>5. CASE B!CreateUser(pwFile) /\ pwFile # None
    <3>1. pwFile \in Posts \cup Nat
        BY <2>5 DEF StartTypes
    <3> QED BY <1>2, <2>1, <2>2, <2>5, <3>1, CreateFrame
  <2> QED BY <1>5, <2>3, <2>4, <2>5 DEF B!InitializeAdmin, B!Reused
<1>6. CASE B!CreateGenerated
  <2>1. panel.pc = "createUser" /\ panel.at \in Databases /\ UNCHANGED <<release, torn, post>>
      BY <1>3, <1>6 DEF B!CreateGenerated, B!storage
  <2>2. panel'.pc = "serve" /\ panel.cur \in Nat /\ B!CreateUser(panel.cur)
      BY <1>3, <1>6 DEF B!CreateGenerated, B!JobType
  <2> QED BY <1>2, <2>1, <2>2, CreateFrame
<1>7. CASE B!Stop
  <2>1. torn' = torn \cup B!CutShort(B!Openers) /\ UNCHANGED <<release, db>>
      BY <1>7 DEF B!Stop, B!storage
  <2>2. \A o \in B!Openers : B!Job(o)'.pc = "off"
      BY <1>7, OffType DEF B!Stop, B!Job, B!Openers
  <2> QED BY <2>1, <2>2, SchemaCut
<1>8. CASE B!Upgrade
  <2>1. \A o \in B!Openers : B!Job(o).pc = "off" /\ B!Job(o)' = B!Job(o)
      BY <1>8 DEF B!Upgrade, Phases, B!Job, B!Openers
  <2>2. UNCHANGED <<db, torn>>
      BY <1>8 DEF B!Upgrade
  <2>3. \A d \in (Databases \cap Postgres) \ torn : ~Unrecorded(d)
      BY <2>1 DEF Schema
  <2>4. B!RecordedMeansApplied' /\ \A d \in Databases : Unrecorded(d)' = Unrecorded(d)
      BY <2>2 DEF Schema, B!RecordedMeansApplied, Unrecorded
  <2> QED BY <2>1, <2>2, <2>3, <2>4 DEF Schema
<1>9. ASSUME NEW p \in Posts, B!SaveSelection(p) \/ B!SendOutcome(p) \/ \E d \in Databases : B!PostSetup(p, d)
      PROVE  Schema'
  <2>1. UNCHANGED <<release, torn, panel, db>> /\ \E k : post' = [post EXCEPT ![p] = k]
      BY <1>9 DEF B!SaveSelection, B!SendOutcome, B!PostSetup, B!storage
  <2>2. \A x \in Posts \ {p} : post'[x] = post[x]
      BY <2>1 DEF StartTypes
  <2>3. post[p].pc \notin {"version", "record"} /\ post'[p].pc \notin {"version", "record", "migrate"}
    <3>1. post[p] \in B!JobType /\ post \in [Posts -> B!JobType] /\ p # 0
        BY DEF StartTypes
    <3>2. CASE B!SaveSelection(p)
        BY <3>1, <3>2 DEF B!SaveSelection, B!Open, B!Job, B!JobType
    <3>3. CASE B!SendOutcome(p)
        BY <3>1, <3>3, OffType DEF B!SendOutcome
    <3>4. CASE \E d \in Databases : B!PostSetup(p, d)
        BY <3>1, <3>4 DEF B!PostSetup, B!Off
    <3> QED BY <1>9, <3>2, <3>3, <3>4
  <2>4. \A o \in B!Openers : \/ B!Job(o)' = B!Job(o)
                             \/ /\ B!Job(o).pc \notin {"version", "record"}
                                /\ B!Job(o)'.pc \notin {"version", "record", "migrate"}
      BY <2>1, <2>2, <2>3 DEF B!Job, B!Openers
  <2> QED BY <2>1, <2>4, SchemaKept
<1> QED BY <1>1, <1>4, <1>5, <1>6, <1>7, <1>8, <1>9 DEF B!Next

StartInv == StartTypes /\ Phases /\ Schema

\* However wizard requests, stops, restarts and upgrades interleave, a version in schema_version means
\* that its migrations were applied, except where the first opening of a Postgres database was cut short.
THEOREM VersionsAreTrue == ServicesSpec => []RecordedMeansApplied
<1>1. ServicesInit => StartInv
  <2> SUFFICES ASSUME ServicesInit PROVE StartInv
      OBVIOUS
  <2>1. B!Init
      BY DEF ServicesInit
  <2>2. release \in Nat \ {0} /\ config \in Databases \cup {None}
      BY <2>1 DEF B!Init
  <2>3. db \in [Databases -> DbRow] /\ \A d \in Databases : db[d].applied = {} /\ db[d].version = 0
      BY <2>1 DEF B!Init, DbRow
  <2>4. StartTypes /\ Phases
      BY <2>1, <2>2, <2>3, OffType DEF B!Init, StartTypes, Phases
  <2>5. \A o \in B!Openers : B!Job(o).pc = "off"
      BY <2>1, OffType DEF B!Init, B!Job, B!Openers
  <2>6. B!RecordedMeansApplied
      BY <2>3 DEF B!RecordedMeansApplied
  <2> QED BY <2>3, <2>4, <2>5, <2>6 DEF StartInv, Schema, Unrecorded
<1>2. StartInv /\ [ServicesNext]_servicesVars => StartInv'
  <2> SUFFICES ASSUME StartInv, [ServicesNext]_servicesVars PROVE StartInv'
      OBVIOUS
  <2>1. CASE B!Next
      BY <2>1, StartStep, SchemaStep DEF StartInv
  <2>2. CASE UNCHANGED startVars
    <3>1. StartTypes' /\ Phases'
        BY <2>2 DEF startVars, StartInv, StartTypes, Phases, Placed
    <3>2. Schema'
        BY <2>2 DEF startVars, StartInv, Schema, Unrecorded, B!RecordedMeansApplied, B!Job
    <3> QED BY <3>1, <3>2 DEF StartInv
  <2> QED BY <2>1, <2>2 DEF ServicesNext, servicesVars
<1>3. StartInv => RecordedMeansApplied
    BY DEF StartInv, Schema, RecordedMeansApplied
<1> QED BY <1>1, <1>2, <1>3, PTL DEF ServicesSpec
-----------------------------------------------------------------------------
(* The key and the first account.                                           *)

\* The panel is past LoadOrCreateKey.
Keyed == panel.pc \in {"admin", "fillPassword", "createUser", "serve"}

\* A key that has been served with is whole and in its file. A password that is still to be written
\* has its file to itself, and no account of its database exists before it is written.
Secrets ==
    /\ served \subseteq {key} /\ (served # {} => key \notin {None, 0})
    /\ panel.pc = "fillKey" => key = 0
    /\ Keyed => key \notin {None, 0}
    /\ \A d \in Databases : \A a, b \in db[d].accounts : a = b
    /\ \A d \in Databases : \A a \in db[d].accounts : a.typed \/ (a.pwd = pwFile /\ pwFile \notin {None, 0})
    /\ panel.pc \in {"fillPassword", "createUser"} =>
           db[panel.at].accounts = {} /\ panel.cur \in Nat \ {0}
    /\ panel.pc = "fillPassword" => pwFile = 0
    /\ panel.pc = "createUser" => pwFile = panel.cur

\* Steps that touch neither the key nor an account.
LEMMA SecretsUntouched ==
    ASSUME StartTypes, Secrets, UNCHANGED <<key, pwFile, served>>,
           \A d \in Databases : db'[d].accounts = db[d].accounts,
           panel' = panel \/ panel'.pc \notin {"fillKey", "admin", "fillPassword", "createUser", "serve"}
    PROVE  Secrets'
<1>1. \A d \in Databases : /\ \A a, b \in db'[d].accounts : a = b
                           /\ \A a \in db'[d].accounts : a.typed \/ (a.pwd = pwFile /\ pwFile \notin {None, 0})
    BY DEF Secrets
<1>2. CASE panel' = panel
  <2>1. panel.pc \in {"fillPassword", "createUser"} => panel.at \in Databases
      BY DEF StartTypes, Placed
  <2> QED BY <1>1, <1>2, <2>1 DEF Secrets, Keyed
<1>3. CASE panel'.pc \notin {"fillKey", "admin", "fillPassword", "createUser", "serve"}
    BY <1>1, <1>3 DEF Secrets, Keyed
<1> QED BY <1>2, <1>3

\* The first account of a database, with a password somebody knows; the panel serves from then on.
LEMMA SecretsCreated ==
    ASSUME StartTypes, Secrets, Keyed, UNCHANGED <<key, pwFile>>, NEW pwd \in Posts \cup Nat, B!CreateUser(pwd),
           panel.at \in Databases, db[panel.at].accounts = {}, panel'.pc = "serve", served' = served \cup {key},
           panel.cred # None \/ (pwd = pwFile /\ pwFile \notin {None, 0})
    PROVE  Secrets'
<1>1. PICK a \in Acct : /\ a.typed = (panel.cred # None) /\ a.pwd = pwd
                        /\ db'[panel.at].accounts = db[panel.at].accounts \cup {a}
    BY CreateFrame
<1>2. \A d \in Databases \ {panel.at} : db'[d].accounts = db[d].accounts
    BY CreateFrame
<1>3. db'[panel.at].accounts = {a}
    BY <1>1
<1>4. \A d \in Databases : \A x, y \in db'[d].accounts : x = y
    BY <1>2, <1>3 DEF Secrets
<1>5. a.typed \/ (a.pwd = pwFile /\ pwFile \notin {None, 0})
    BY <1>1, Zenon
<1>6. \A d \in Databases : \A x \in db'[d].accounts : x.typed \/ (x.pwd = pwFile /\ pwFile \notin {None, 0})
    BY <1>2, <1>3, <1>5 DEF Secrets
<1>7. key \notin {None, 0} /\ served' \subseteq {key}
    BY DEF Secrets
<1> QED BY <1>4, <1>6, <1>7 DEF Secrets, Keyed

\* Every step keeps the secrets.
LEMMA SecretsStep ==
    ASSUME StartTypes, Phases, Secrets, B!Next
    PROVE  Secrets'
<1> USE StartupAssumption
<1>1. panel \in B!JobType /\ (panel.pc \notin {"off", "wizard", "drain"} => panel.at \in Databases)
    BY DEF StartTypes, Placed
<1>2. ASSUME NEW o \in B!Openers,
             \/ B!OpenSQLite(o) \/ B!OpenPostgres(o) \/ B!VersionPostgres(o) \/ B!RecordPostgres(o)
             \/ B!Migrate(o) \/ B!OpenFails(o)
      PROVE  Secrets'
  <2>1. UNCHANGED <<key, pwFile, served>>
      BY <1>2 DEF B!OpenSQLite, B!OpenPostgres, B!VersionPostgres, B!RecordPostgres, B!Migrate, B!OpenFails, B!storage
  <2>2. /\ \A d \in Databases : db'[d].accounts = db[d].accounts
        /\ \E k : B!Go(o, k) /\ k.pc \in {"off", "version", "record", "migrate"}
    <3>1. CASE B!OpenSQLite(o)
        BY <3>1, SQLiteFrame
    <3>2. CASE B!OpenPostgres(o)
        BY <3>2, PostgresFrame
    <3>3. CASE B!VersionPostgres(o)
      <4>1. \E k : B!Go(o, k) /\ k.pc \in {"record", "migrate"}
          BY <3>3, VersionFrame
      <4> QED BY <3>3, <4>1, VersionFrame
    <3>4. CASE B!RecordPostgres(o)
        BY <3>4, RecordFrame
    <3>5. CASE B!Migrate(o) /\ ~(B!Fail(o) /\ UNCHANGED db)
        BY <3>5, MigrateFrame
    <3>6. CASE (B!Migrate(o) \/ B!OpenFails(o)) /\ B!Fail(o) /\ UNCHANGED db
        BY <3>6, OffType DEF B!Fail
    <3> QED BY <1>2, <3>1, <3>2, <3>3, <3>4, <3>5, <3>6 DEF B!OpenFails
  <2>3. panel' = panel \/ panel'.pc \in {"off", "version", "record", "migrate"}
      BY <2>2 DEF B!Go
  <2> QED BY <2>1, <2>2, <2>3, SecretsUntouched
<1>3. ASSUME NEW p \in Posts, B!SaveSelection(p) \/ B!SendOutcome(p) \/ \E d \in Databases : B!PostSetup(p, d)
      PROVE  Secrets'
  <2>1. UNCHANGED <<key, pwFile, served, panel, db>>
      BY <1>3 DEF B!SaveSelection, B!SendOutcome, B!PostSetup, B!storage
  <2> QED BY <2>1, SecretsUntouched
<1>4. CASE B!Boot \/ B!WizardReturns \/ B!ShutdownWizard \/ B!Stop \/ B!Upgrade
  <2>1. UNCHANGED <<key, pwFile, served, db>>
      BY <1>4 DEF B!Boot, B!WizardReturns, B!ShutdownWizard, B!Stop, B!Upgrade, B!storage
  <2>2. panel' = panel \/ panel'.pc \in {"off", "wizard", "drain", "open"}
    <3>1. CASE B!Boot
        BY <3>1 DEF B!Boot, B!Off
    <3>2. CASE B!WizardReturns
        BY <3>2 DEF B!WizardReturns, B!Off
    <3>3. CASE B!ShutdownWizard
        BY <1>1, <3>3 DEF B!ShutdownWizard, B!JobType
    <3>4. CASE B!Stop \/ B!Upgrade
        BY <3>4, OffType DEF B!Stop, B!Upgrade
    <3> QED BY <1>4, <3>1, <3>2, <3>3, <3>4
  <2> QED BY <2>1, <2>2, SecretsUntouched
<1>5. CASE B!LoadKey
  <2>1. UNCHANGED <<pwFile, served, db>> /\ panel.pc = "migrate"
      BY <1>5 DEF B!LoadKey, B!Open, B!Job
  <2>2. CASE key # None
    <3>1. key' = key /\ panel' = IF key = 0 THEN B!Off ELSE [panel EXCEPT !.pc = "admin"]
        BY <1>5, <2>2 DEF B!LoadKey, B!Usable
    <3>2. IF key = 0 THEN panel'.pc = "off" ELSE panel'.pc = "admin"
        BY <1>1, <3>1, OffType DEF B!JobType
    <3> QED BY <2>1, <2>2, <3>1, <3>2 DEF Secrets, Keyed
  <2>3. CASE key = None
    <3>1. key' = 0 /\ panel'.pc = "fillKey" /\ served = {}
        BY <1>1, <1>5, <2>3 DEF B!LoadKey, B!Usable, B!JobType, Secrets
    <3> QED BY <2>1, <3>1 DEF Secrets, Keyed
  <2> QED BY <2>2, <2>3
<1>6. CASE B!FillKey
  <2>1. UNCHANGED <<pwFile, served, db>> /\ key' \in Nat \ {0} /\ panel'.pc = "admin" /\ key = 0
      BY <1>1, <1>6 DEF B!FillKey, B!JobType, StartTypes, Secrets
  <2>2. served = {} /\ key' \notin {None, 0}
      BY <2>1 DEF Secrets
  <2> QED BY <2>1, <2>2 DEF Secrets, Keyed
<1>7. CASE B!InitializeAdmin
  <2>1. panel.pc = "admin" /\ panel.at \in Databases /\ key' = key /\ key \notin {None, 0} /\ Keyed
      BY <1>1, <1>7 DEF B!InitializeAdmin, Secrets, Keyed
  <2>2. [panel EXCEPT !.pc = "serve"].pc = "serve"
      BY <1>1 DEF B!JobType
  <2>3. CASE B!Initialized /\ panel' = [panel EXCEPT !.pc = "serve"] /\ UNCHANGED <<db, pwFile, drawn>>
    <3>1. served' = served \cup {key} /\ panel'.pc = "serve"
        BY <1>7, <2>2, <2>3 DEF B!InitializeAdmin
    <3>2. served' \subseteq {key}
        BY <3>1 DEF Secrets
    <3> QED BY <2>1, <2>3, <3>1, <3>2 DEF Secrets, Keyed
  <2>4. CASE /\ ~B!Initialized /\ panel.cred # None
             /\ B!CreateUser(panel.cred) /\ panel' = [panel EXCEPT !.pc = "serve"] /\ UNCHANGED <<pwFile, drawn>>
    <3>1. served' = served \cup {key} /\ panel'.pc = "serve"
        BY <1>7, <2>2, <2>4 DEF B!InitializeAdmin
    <3>2. panel.cred \in Posts \cup Nat /\ db[panel.at].accounts = {}
        BY <1>1, <2>4 DEF B!Initialized, B!JobType
    <3> QED BY <2>1, <2>4, <3>1, <3>2, SecretsCreated
  <2>5. CASE /\ ~B!Initialized /\ panel.cred = None /\ B!Reused /\ UNCHANGED <<pwFile, drawn>>
             /\ IF pwFile = 0 THEN panel' = B!Off /\ UNCHANGED db
                ELSE B!CreateUser(pwFile) /\ panel' = [panel EXCEPT !.pc = "serve"]
    <3>1. CASE pwFile = 0
      <4>1. panel' = B!Off /\ panel'.pc = "off" /\ UNCHANGED db
          BY <2>5, <3>1, OffType
      <4>2. UNCHANGED served
          BY <1>7, <4>1 DEF B!InitializeAdmin
      <4> QED BY <2>1, <2>5, <4>1, <4>2, SecretsUntouched
    <3>2. CASE pwFile # 0
      <4>1. panel'.pc = "serve" /\ B!CreateUser(pwFile)
          BY <2>2, <2>5, <3>2
      <4>2. served' = served \cup {key}
          BY <1>7, <4>1 DEF B!InitializeAdmin
      <4>3. pwFile \in Posts \cup Nat /\ pwFile \notin {None, 0} /\ db[panel.at].accounts = {}
          BY <2>5, <3>2 DEF StartTypes, B!Reused, B!Initialized
      <4> QED BY <2>1, <2>5, <4>1, <4>2, <4>3, SecretsCreated
    <3> QED BY <3>1, <3>2
  <2>6. CASE /\ ~B!Initialized /\ panel.cred = None /\ ~B!Reused
             /\ drawn' = drawn + 1 /\ pwFile' = IF pwFile = None THEN 0 ELSE pwFile
             /\ panel' = [panel EXCEPT !.pc = "fillPassword", !.cur = drawn + 1] /\ UNCHANGED db
    <3>1. drawn + 1 \in Nat \ {0}
        BY DEF StartTypes
    <3>2. panel'.pc = "fillPassword" /\ panel'.at = panel.at /\ panel'.cur \in Nat \ {0}
        BY <1>1, <2>6, <3>1 DEF B!JobType
    <3>3. UNCHANGED served
        BY <1>7, <3>2 DEF B!InitializeAdmin
    <3>4. pwFile = None /\ pwFile' = 0 /\ db'[panel.at].accounts = {}
        BY <2>6 DEF B!Reused, B!Initialized
    <3>5. \A d \in Databases : \A a \in db[d].accounts : a.typed
        BY <3>4 DEF Secrets
    <3> QED BY <2>1, <2>6, <3>2, <3>3, <3>4, <3>5 DEF Secrets, Keyed
  <2> QED BY <1>7, <2>3, <2>4, <2>5, <2>6 DEF B!InitializeAdmin
<1>8. CASE B!FillPassword
  <2>1. /\ panel.pc = "fillPassword" /\ pwFile = 0 /\ panel.cur \in Nat \ {0} /\ db[panel.at].accounts = {}
        /\ key \notin {None, 0}
      BY <1>8 DEF B!FillPassword, Secrets, Keyed
  <2>2. panel'.pc = "createUser" /\ panel'.at = panel.at /\ panel'.cur = panel.cur
      BY <1>1, <1>8 DEF B!FillPassword, B!JobType
  <2>3. pwFile' = panel.cur /\ UNCHANGED <<key, served, db>>
      BY <1>8, <2>1 DEF B!FillPassword
  <2>4. \A d \in Databases : \A a \in db[d].accounts : a.typed
      BY <2>1 DEF Secrets
  <2> QED BY <2>1, <2>2, <2>3, <2>4 DEF Secrets, Keyed
<1>9. CASE B!CreateGenerated
  <2>1. /\ panel.pc = "createUser" /\ panel.at \in Databases /\ Keyed /\ pwFile = panel.cur
        /\ panel.cur \in Nat \ {0} /\ db[panel.at].accounts = {}
      BY <1>1, <1>9 DEF B!CreateGenerated, Secrets, Keyed
  <2>2. UNCHANGED <<key, pwFile>> /\ B!CreateUser(panel.cur) /\ served' = served \cup {key}
      BY <1>9 DEF B!CreateGenerated, B!storage
  <2>3. panel'.pc = "serve" /\ pwFile \notin {None, 0}
      BY <1>1, <1>9, <2>1 DEF B!CreateGenerated, B!JobType
  <2> QED BY <2>1, <2>2, <2>3, SecretsCreated
<1> QED BY <1>2, <1>3, <1>4, <1>5, <1>6, <1>7, <1>8, <1>9 DEF B!Next

SecretsInv == StartTypes /\ Phases /\ Secrets

\* Over stops, restarts and upgrades the panel keeps serving with the key it first served with, and every
\* database has at most one first account, whose password was typed or is the one in its file.
THEOREM SecretsStayKept == ServicesSpec => []SecretsKept
<1>1. ServicesInit => SecretsInv
  <2> SUFFICES ASSUME ServicesInit PROVE SecretsInv
      OBVIOUS
  <2>1. B!Init
      BY DEF ServicesInit
  <2>2. release \in Nat \ {0} /\ config \in Databases \cup {None}
      BY <2>1 DEF B!Init
  <2>3. db \in [Databases -> DbRow] /\ \A d \in Databases : db[d].accounts = {}
      BY <2>1 DEF B!Init, DbRow
  <2>4. StartTypes /\ Phases
      BY <2>1, <2>2, <2>3, OffType DEF B!Init, StartTypes, Phases
  <2>5. panel.pc = "off" /\ served = {}
      BY <2>1, OffType DEF B!Init
  <2> QED BY <2>3, <2>4, <2>5 DEF SecretsInv, Secrets, Keyed
<1>2. SecretsInv /\ [ServicesNext]_servicesVars => SecretsInv'
  <2> SUFFICES ASSUME SecretsInv, [ServicesNext]_servicesVars PROVE SecretsInv'
      OBVIOUS
  <2>1. CASE B!Next
      BY <2>1, StartStep, SecretsStep DEF SecretsInv
  <2>2. CASE UNCHANGED startVars
    <3>1. StartTypes' /\ Phases'
        BY <2>2 DEF startVars, SecretsInv, StartTypes, Phases, Placed
    <3>2. Secrets'
        BY <2>2, SecretsUntouched DEF startVars, SecretsInv
    <3> QED BY <3>1, <3>2 DEF SecretsInv
  <2> QED BY <2>1, <2>2 DEF ServicesNext, servicesVars
<1>3. SecretsInv => SecretsKept
  <2> SUFFICES ASSUME SecretsInv PROVE SecretsKept
      OBVIOUS
  <2>1. \A T : B!Cardinality(T) = Cardinality(T)
      BY DEF B!Cardinality, Cardinality
  <2>2. ASSUME NEW T, \A a, b \in T : a = b
        PROVE  Cardinality(T) <= 1
    <3>1. CASE T = {}
        BY <3>1, FS_EmptySet
    <3>2. CASE T # {}
      <4>1. PICK a : T = {a}
          BY <2>2, <3>2
      <4>2. Cardinality({a}) = 1
          BY FS_Singleton, Zenon
      <4> QED BY <4>1, <4>2
    <3> QED BY <3>1, <3>2
  <2>3. B!OneKey
      BY <2>1, <2>2 DEF SecretsInv, Secrets, B!OneKey
  <2>4. B!PasswordKnown
      BY <2>1, <2>2 DEF SecretsInv, Secrets, B!PasswordKnown
  <2> QED BY <2>3, <2>4 DEF SecretsKept
<1> QED BY <1>1, <1>2, <1>3, PTL DEF ServicesSpec
-----------------------------------------------------------------------------
(* The type invariant.                                                      *)

\* Migrations and versions are those of a release, and only databases are torn.
Bounds ==
    /\ release \in 1..Len(Kinds) /\ stops \in 0..MaxStops /\ torn \subseteq Databases
    /\ \A d \in Databases : db[d].applied \subseteq 1..Len(Kinds) /\ db[d].version \in 0..Len(Kinds)

\* Nobody migrates past the installed release.
LEMMA BoundsStep ==
    ASSUME StartTypes, Bounds, B!Next
    PROVE  Bounds'
<1> USE StartupAssumption
<1>1. Len(Kinds) \in Nat
    BY StartupAssumption
<1>2. \A O \in SUBSET B!Openers : B!CutShort(O) \subseteq Databases
    BY JobType DEF B!CutShort, Placed
<1>3. ASSUME NEW o \in B!Openers,
             \/ B!OpenSQLite(o) \/ B!OpenPostgres(o) \/ B!VersionPostgres(o) \/ B!RecordPostgres(o)
             \/ B!Migrate(o) \/ B!OpenFails(o)
      PROVE  Bounds'
  <2>1. release' = release /\ stops' = stops /\ torn' \subseteq Databases
    <3>1. B!CutShort({o}) \subseteq Databases
        BY <1>2
    <3> QED BY <1>3, <3>1 DEF B!OpenSQLite, B!OpenPostgres, B!VersionPostgres, B!RecordPostgres, B!Migrate,
                              B!OpenFails, B!storage, Bounds
  <2>2. \A d \in Databases : db'[d].applied \subseteq 1..Len(Kinds) /\ db'[d].version \in 0..Len(Kinds)
    <3>1. CASE B!OpenSQLite(o)
        BY <3>1, SQLiteFrame DEF Bounds
    <3>2. CASE B!OpenPostgres(o)
        BY <1>1, <3>2, PostgresFrame DEF Bounds
    <3>3. CASE B!VersionPostgres(o) \/ B!OpenFails(o)
        BY <3>3 DEF Bounds, B!VersionPostgres, B!OpenFails
    <3>4. CASE B!RecordPostgres(o)
        BY <1>1, <3>4, RecordFrame DEF Bounds
    <3>5. CASE B!Migrate(o) /\ B!Fail(o) /\ UNCHANGED db
        BY <3>5 DEF Bounds
    <3>6. CASE B!Migrate(o) /\ ~(B!Fail(o) /\ UNCHANGED db)
      <4>1. B!Job(o) \in B!JobType /\ B!Job(o).cur < release
          BY <3>6, JobType DEF B!Migrate
      <4>2. B!Job(o).cur + 1 \in 1..Len(Kinds)
          BY <1>1, <4>1 DEF Bounds, B!JobType
      <4> DEFINE v == B!Job(o).cur + 1
      <4>3. \A d \in Databases :
               /\ db'[d].applied = (IF d = B!Job(o).at THEN db[d].applied \cup {v} ELSE db[d].applied)
               /\ db'[d].version = (IF d = B!Job(o).at /\ db[d].version < v THEN v ELSE db[d].version)
          BY <3>6, MigrateFrame
      <4> HIDE DEF v
      <4>4. v \in 1..Len(Kinds)
          BY <4>2 DEF v
      <4>5. \A d \in Databases : db'[d].applied \subseteq 1..Len(Kinds)
        <5> SUFFICES ASSUME NEW d \in Databases PROVE db'[d].applied \subseteq 1..Len(Kinds)
            OBVIOUS
        <5>1. db[d].applied \subseteq 1..Len(Kinds)
            BY DEF Bounds
        <5>2. db'[d].applied = db[d].applied \cup {v} \/ db'[d].applied = db[d].applied
            BY <4>3
        <5> QED BY <4>4, <5>1, <5>2, Zenon
      <4>6. v \in 0..Len(Kinds)
          BY <1>1, <4>4
      <4>7. \A d \in Databases : db'[d].version = v \/ db'[d].version = db[d].version
          BY <4>3
      <4> QED BY <4>5, <4>6, <4>7 DEF Bounds
    <3> QED BY <1>3, <3>1, <3>2, <3>3, <3>4, <3>5, <3>6
  <2> QED BY <2>1, <2>2 DEF Bounds
<1>4. CASE B!InitializeAdmin \/ B!CreateGenerated
  <2>1. UNCHANGED <<release, stops, torn>>
      BY <1>4 DEF B!InitializeAdmin, B!CreateGenerated, B!storage
  <2>2. panel \in B!JobType /\ panel.at \in Databases
      BY <1>4 DEF B!InitializeAdmin, B!CreateGenerated, StartTypes, Placed
  <2>3. CASE UNCHANGED db
      BY <2>1, <2>3 DEF Bounds
  <2>4. CASE ~UNCHANGED db
    <3>1. PICK pwd \in Posts \cup Nat : B!CreateUser(pwd)
      <4>1. CASE B!InitializeAdmin
        <5>1. \/ panel.cred # None /\ B!CreateUser(panel.cred)
              \/ pwFile # None /\ B!CreateUser(pwFile)
            BY <2>4, <4>1 DEF B!InitializeAdmin, B!Reused
        <5> QED BY <2>2, <5>1 DEF StartTypes, B!JobType
      <4>2. CASE B!CreateGenerated
          BY <2>2, <4>2 DEF B!CreateGenerated, B!JobType
      <4> QED BY <1>4, <4>1, <4>2
    <3> QED BY <2>1, <2>2, <3>1, CreateFrame DEF Bounds
  <2> QED BY <2>3, <2>4
<1>5. CASE B!Stop
  <2>1. B!CutShort(B!Openers) \subseteq Databases
      BY <1>2
  <2> QED BY <1>5, <2>1 DEF B!Stop, B!storage, Bounds
<1>6. CASE B!Upgrade
    BY <1>1, <1>6 DEF B!Upgrade, Bounds
<1>7. CASE B!Boot \/ B!ShutdownWizard \/ B!WizardReturns \/ B!LoadKey \/ B!FillKey \/ B!FillPassword
    BY <1>7 DEF B!Boot, B!ShutdownWizard, B!WizardReturns, B!LoadKey, B!FillKey, B!FillPassword, B!storage, Bounds
<1>8. CASE \E p \in Posts : B!SaveSelection(p) \/ B!SendOutcome(p) \/ \E d \in Databases : B!PostSetup(p, d)
    BY <1>8 DEF B!SaveSelection, B!SendOutcome, B!PostSetup, B!storage, Bounds
<1> QED BY <1>3, <1>4, <1>5, <1>6, <1>7, <1>8 DEF B!Next

\* The start of the process keeps its types; keys that were served with are whole.
LEMMA StartupTypes == ServicesSpec => []B!TypeOK
<1>1. ServicesInit => SecretsInv /\ Bounds
  <2> SUFFICES ASSUME B!Init PROVE SecretsInv /\ Bounds
      BY DEF ServicesInit
  <2>1. db \in [Databases -> DbRow]
        /\ \A d \in Databases : db[d].accounts = {} /\ db[d].applied = {} /\ db[d].version = 0
      BY DEF B!Init, DbRow
  <2>2. Len(Kinds) \in Nat
      BY StartupAssumption
  <2>3. Bounds
      BY <2>1, <2>2, StartupAssumption DEF B!Init, Bounds
  <2>4. StartTypes /\ Phases
      BY <2>1, <2>3, OffType DEF B!Init, StartTypes, Phases, Bounds
  <2>5. panel.pc = "off" /\ served = {}
      BY OffType DEF B!Init
  <2> QED BY <2>1, <2>3, <2>4, <2>5 DEF SecretsInv, Secrets, Keyed
<1>2. SecretsInv /\ Bounds /\ [ServicesNext]_servicesVars => (SecretsInv /\ Bounds)'
  <2> SUFFICES ASSUME SecretsInv, Bounds, [ServicesNext]_servicesVars PROVE SecretsInv' /\ Bounds'
      OBVIOUS
  <2>1. CASE B!Next
      BY <2>1, StartStep, SecretsStep, BoundsStep DEF SecretsInv
  <2>2. CASE UNCHANGED startVars
    <3>1. StartTypes' /\ Phases'
        BY <2>2 DEF startVars, SecretsInv, StartTypes, Phases, Placed
    <3>2. Secrets'
        BY <2>2, SecretsUntouched DEF startVars, SecretsInv
    <3>3. Bounds'
        BY <2>2 DEF startVars, Bounds
    <3> QED BY <3>1, <3>2, <3>3 DEF SecretsInv
  <2> QED BY <2>1, <2>2 DEF ServicesNext, servicesVars
<1>3. SecretsInv /\ Bounds => B!TypeOK
  <2> SUFFICES ASSUME SecretsInv, Bounds PROVE B!TypeOK
      OBVIOUS
  <2>1. served \subseteq Nat
      BY DEF SecretsInv, Secrets, StartTypes
  <2> QED BY <2>1 DEF SecretsInv, StartTypes, Bounds, B!TypeOK
<1> QED BY <1>1, <1>2, <1>3, PTL DEF ServicesSpec
===============================================================================
