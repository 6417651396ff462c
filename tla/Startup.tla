------------------------------- MODULE Startup -------------------------------
(***************************************************************************)
(* From process start to the first request served: the choice of the          *)
(* database, the first-run wizard, the migrations, the key file and the       *)
(* first account. The process may stop between any two writes and is          *)
(* started again, perhaps as a newer release with more migrations.            *)
(***************************************************************************)
EXTENDS Naturals, FiniteSets, Sequences

CONSTANTS
    Databases,      \* data source names
    Default,        \* <DataDir>/panel.db
    Postgres,       \* the ones the postgres driver opens
    Posts,          \* POST /setup requests that may be in flight together
    Kinds,          \* the migrations: "create" (IF NOT EXISTS), "alter" (ADD COLUMN), "move" (drops a table)
    None,
    MaxStops        \* bound: crashes

VARIABLES
    release,    \* migrations of the installed release
    config,     \* db_driver and db_dsn of the configuration, or None
    chosen,     \* database.json: the choice, or None
    db,         \* the databases
    key,        \* secret.key (jwt.key goes by the same code): None, 0 (torn) or a key
    pwFile,     \* initial-admin-password.txt: None, 0 (empty) or a password
    panel, post,
    outcome,    \* what once.Do sent: None, or the database and the credentials
    drawn,      \* random values drawn so far
    stops,
    \* --- history, read by properties only ---
    served,     \* keys the panel has served with
    torn        \* Postgres databases whose first opening was cut short before the version

vars == <<release, config, chosen, db, key, pwFile, panel, post, outcome, drawn, stops, served, torn>>
storage == <<release, config, chosen, key, pwFile>>

Openers == Posts \cup {0}   \* 0: main
Off == [pc |-> "off", at |-> None, cred |-> None, cur |-> 0]

Init ==
    /\ release \in 1..Len(Kinds) /\ config \in Databases \cup {None}
    /\ chosen = None /\ key = None /\ pwFile = None /\ outcome = None
    /\ db = [d \in Databases |-> [exists |-> FALSE, applied |-> {}, version |-> 0, accounts |-> {}]]
    /\ panel = Off /\ post = [p \in Posts |-> Off]
    /\ drawn = 0 /\ stops = 0 /\ served = {} /\ torn = {}

\* Whoever opens a database: main, or the handler of a POST /setup.
Job(o) == IF o = 0 THEN panel ELSE post[o]

Go(o, job) ==
    IF o = 0 THEN panel' = job /\ UNCHANGED post ELSE post' = [post EXCEPT ![o] = job] /\ UNCHANGED panel

\* os.Exit in main; an error page in the wizard.
Fail(o) == Go(o, Off)

\* Postgres databases that have tables and no version yet, when their openers O are cut short.
CutShort(O) ==
    {Job(o).at : o \in {x \in O : Job(x).pc \in {"version", "record"} /\ db[Job(x).at].version = 0}}
-----------------------------------------------------------------------------
(* openStore.                                                               *)

\* The configuration, then database.json, then an existing panel.db; else the wizard.
Boot ==
    /\ panel.pc = "off"
    /\ LET d == IF config # None THEN config ELSE IF chosen # None THEN chosen
                ELSE IF db[Default].exists THEN Default ELSE None
       IN panel' = IF d = None THEN [Off EXCEPT !.pc = "wizard"] ELSE [Off EXCEPT !.pc = "open", !.at = d]
    /\ UNCHANGED <<storage, db, post, outcome, drawn, stops, served, torn>>

\* POST /setup with valid credentials, which are a name and a fresh password.
PostSetup(p, d) ==
    /\ panel.pc = "wizard" /\ post[p].pc = "off"
    /\ post' = [post EXCEPT ![p] = [Off EXCEPT !.pc = "open", !.at = d, !.cred = p]]
    /\ UNCHANGED <<storage, db, panel, outcome, drawn, stops, served, torn>>

\* Ping, which creates the file of a SQLite database, and the version it has.
OpenSQLite(o) ==
    /\ Job(o).pc = "open" /\ Job(o).at \notin Postgres
    /\ LET d == Job(o).at IN
         /\ db' = [db EXCEPT ![d].exists = TRUE]
         /\ Go(o, [Job(o) EXCEPT !.pc = "migrate", !.cur = db[d].version])
    /\ UNCHANGED <<storage, outcome, drawn, stops, served, torn>>

\* postgresSchema: tables that exist are left as they are.
OpenPostgres(o) ==
    /\ Job(o).pc = "open" /\ Job(o).at \in Postgres
    /\ db' = [db EXCEPT ![Job(o).at].exists = TRUE,
                        ![Job(o).at].applied = IF @ = {} THEN 1..release ELSE @]
    /\ Go(o, [Job(o) EXCEPT !.pc = "version"])
    /\ UNCHANGED <<storage, outcome, drawn, stops, served, torn>>

\* A database without a version gets the version of the release, the others are migrated.
VersionPostgres(o) ==
    /\ Job(o).pc = "version"
    /\ LET v == db[Job(o).at].version IN
         Go(o, IF v = 0 THEN [Job(o) EXCEPT !.pc = "record"] ELSE [Job(o) EXCEPT !.pc = "migrate", !.cur = v])
    /\ UNCHANGED <<storage, db, outcome, drawn, stops, served, torn>>

\* Ping, the schema or schema_version cannot be read or written.
OpenFails(o) ==
    /\ Job(o).pc \in {"open", "version", "record"}
    /\ torn' = torn \cup CutShort({o})
    /\ Fail(o)
    /\ UNCHANGED <<storage, db, outcome, drawn, stops, served>>

Record(row, v) == [row EXCEPT !.version = IF @ < v THEN v ELSE @]

RecordPostgres(o) ==
    /\ Job(o).pc = "record"
    /\ db' = [db EXCEPT ![Job(o).at] = Record(@, release)]
    /\ Go(o, [Job(o) EXCEPT !.pc = "migrate", !.cur = release])
    /\ UNCHANGED <<storage, outcome, drawn, stops, served, torn>>

\* Mutant of Migrated: the version is recorded although the transaction was rolled back.
MigratedRolledBack(row, v) == Record(row, v)

\* The migration and its version, in one transaction.
Migrated(row, v) == Record([row EXCEPT !.applied = @ \cup {v}], v)

\* Migration v runs, has been run by somebody else (a duplicate column: its version is recorded),
\* or fails: another statement error, a locked database, or dialect.
Migrate(o) ==
    /\ Job(o).pc = "migrate" /\ Job(o).cur < release
    /\ LET d == Job(o).at   v == Job(o).cur + 1 IN
         \/ /\ Kinds[v] = "move" => v \notin db[d].applied /\ d \notin Postgres
            /\ db' = [db EXCEPT ![d] = IF Kinds[v] = "alter" /\ v \in @.applied THEN Record(@, v)
                                       ELSE Migrated(@, v)]
            /\ Go(o, [Job(o) EXCEPT !.cur = v])
         \/ Fail(o) /\ UNCHANGED db
    /\ UNCHANGED <<storage, outcome, drawn, stops, served, torn>>

Open(o) == Job(o).pc = "migrate" /\ Job(o).cur >= release
-----------------------------------------------------------------------------
(* The end of the wizard.                                                   *)

\* SaveDatabaseSelection renames a temporary file: no torn choice.
SaveSelection(p) ==
    /\ Open(p)
    /\ chosen' = post[p].at
    /\ post' = [post EXCEPT ![p].pc = "once"]
    /\ UNCHANGED <<release, config, key, pwFile, db, panel, outcome, drawn, stops, served, torn>>

\* once.Do: the first handler's choice and credentials are the ones main gets.
SendOutcome(p) ==
    /\ post[p].pc = "once"
    /\ outcome' = IF outcome = None THEN [at |-> post[p].at, cred |-> post[p].cred] ELSE outcome
    /\ post' = [post EXCEPT ![p] = Off]
    /\ UNCHANGED <<storage, db, panel, drawn, stops, served, torn>>

\* Shutdown takes no new request and waits for those in flight; then main opens the database again.
ShutdownWizard ==
    /\ panel.pc = "wizard" /\ outcome # None
    /\ panel' = [panel EXCEPT !.pc = "drain"]
    /\ UNCHANGED <<storage, db, post, outcome, drawn, stops, served, torn>>

WizardReturns ==
    /\ panel.pc = "drain" /\ \A p \in Posts : post[p].pc = "off"
    /\ panel' = [Off EXCEPT !.pc = "open", !.at = outcome.at, !.cred = outcome.cred]
    /\ UNCHANGED <<storage, db, post, outcome, drawn, stops, served, torn>>
-----------------------------------------------------------------------------
(* The key.                                                                 *)

\* The file exists: its 32 bytes are the key, any other length ends the start.
Usable == key # None

\* LoadOrCreateKey. os.WriteFile creates the file and fills it afterwards.
LoadKey ==
    /\ Open(0)
    /\ IF Usable
       THEN panel' = IF key = 0 THEN Off ELSE [panel EXCEPT !.pc = "admin"]
       ELSE panel' = [panel EXCEPT !.pc = "fillKey"]
    /\ key' = IF Usable THEN key ELSE 0
    /\ UNCHANGED <<release, config, chosen, pwFile, db, post, outcome, drawn, stops, served, torn>>

FillKey ==
    /\ panel.pc = "fillKey"
    /\ drawn' = drawn + 1 /\ key' = drawn + 1 /\ panel' = [panel EXCEPT !.pc = "admin"]
    /\ UNCHANGED <<release, config, chosen, pwFile, db, post, outcome, stops, served, torn>>
-----------------------------------------------------------------------------
(* initializeAdmin.                                                         *)

\* main passes the credentials of the wizard also when there was none: the name is empty then.
CreateUser(pwd) ==
    db' = [db EXCEPT ![panel.at].accounts = @ \cup
              {[named |-> panel.cred # None, typed |-> panel.cred # None, pwd |-> pwd]}]

\* CountUsers
Initialized == db[panel.at].accounts # {}

\* Mutant of Reused: the password file is not read.
ReusedNever == FALSE

\* initialPassword finds the file of an earlier start.
Reused == pwFile # None

\* An account exists, the wizard's credentials make one, or the password of an earlier start
\* does, unless it was never written to its file: too short.
InitializeAdmin ==
    /\ panel.pc = "admin"
    /\ \/ Initialized /\ panel' = [panel EXCEPT !.pc = "serve"] /\ UNCHANGED <<db, pwFile, drawn>>
       \/ /\ ~Initialized /\ panel.cred # None
          /\ CreateUser(panel.cred) /\ panel' = [panel EXCEPT !.pc = "serve"] /\ UNCHANGED <<pwFile, drawn>>
       \/ /\ ~Initialized /\ panel.cred = None /\ Reused
          /\ IF pwFile = 0 THEN panel' = Off /\ UNCHANGED db
                           ELSE CreateUser(pwFile) /\ panel' = [panel EXCEPT !.pc = "serve"]
          /\ UNCHANGED <<pwFile, drawn>>
       \/ /\ ~Initialized /\ panel.cred = None /\ ~Reused
          /\ drawn' = drawn + 1 /\ pwFile' = IF pwFile = None THEN 0 ELSE pwFile
          /\ panel' = [panel EXCEPT !.pc = "fillPassword", !.cur = drawn + 1] /\ UNCHANGED db
    /\ served' = IF panel'.pc = "serve" THEN served \cup {key} ELSE served
    /\ UNCHANGED <<release, config, chosen, key, post, outcome, stops, torn>>

\* The new password is written, and then the account with it (a separate step).
FillPassword ==
    /\ panel.pc = "fillPassword"
    /\ pwFile' = IF pwFile = 0 THEN panel.cur ELSE pwFile
    /\ panel' = [panel EXCEPT !.pc = "createUser"]
    /\ UNCHANGED <<release, config, chosen, key, db, post, outcome, drawn, stops, served, torn>>

CreateGenerated ==
    /\ panel.pc = "createUser"
    /\ CreateUser(panel.cur) /\ panel' = [panel EXCEPT !.pc = "serve"]
    /\ served' = served \cup {key}
    /\ UNCHANGED <<storage, post, outcome, drawn, stops, torn>>
-----------------------------------------------------------------------------
\* The process ends, at any moment.
Stop ==
    /\ panel.pc # "off" /\ stops < MaxStops /\ stops' = stops + 1
    /\ torn' = torn \cup CutShort(Openers)
    /\ panel' = Off /\ post' = [p \in Posts |-> Off] /\ outcome' = None
    /\ UNCHANGED <<storage, db, drawn, served>>

\* A newer release is installed.
Upgrade ==
    /\ panel.pc = "off" /\ release < Len(Kinds) /\ release' = release + 1
    /\ UNCHANGED <<config, chosen, key, pwFile, db, panel, post, outcome, drawn, stops, served, torn>>

Next ==
    \/ Boot \/ ShutdownWizard \/ WizardReturns \/ LoadKey \/ FillKey
    \/ InitializeAdmin \/ FillPassword \/ CreateGenerated \/ Stop \/ Upgrade
    \/ \E o \in Openers : OpenSQLite(o) \/ OpenPostgres(o) \/ VersionPostgres(o) \/ RecordPostgres(o)
                             \/ Migrate(o) \/ OpenFails(o)
    \/ \E p \in Posts : SaveSelection(p) \/ SendOutcome(p) \/ \E d \in Databases : PostSetup(p, d)

Spec == Init /\ [][Next]_vars
-----------------------------------------------------------------------------
(* Properties.                                                              *)

JobType ==
    [pc : {"off", "wizard", "drain", "open", "version", "record", "migrate", "once", "fillKey", "admin",
           "fillPassword", "createUser", "serve"},
     at : Databases \cup {None}, cred : Posts \cup {None}, cur : Nat]

\* Every variable keeps its type.
TypeOK ==
    /\ release \in 1..Len(Kinds) /\ {config, chosen} \subseteq Databases \cup {None}
    /\ key \in Nat \cup {None} /\ pwFile \in Nat \cup {None} /\ drawn \in Nat /\ stops \in 0..MaxStops
    /\ panel \in JobType /\ \A p \in Posts : post[p] \in JobType
    /\ \A d \in Databases : db[d].applied \subseteq 1..Len(Kinds) /\ db[d].version \in 0..Len(Kinds)
    /\ served \subseteq Nat /\ torn \subseteq Databases

\* A version in schema_version means its migrations have been applied, however wizard requests,
\* stops and upgrades interleave. The exception is a Postgres database whose first opening was
\* cut short between schema and version: a newer release then records its own version there.
RecordedMeansApplied ==
    \A d \in Databases \ torn : 1..db[d].version \subseteq db[d].applied

\* The panel serves with one key for good: what it has encrypted stays readable, and a key file
\* that a stop left incomplete is never replaced once the panel has served.
OneKey == Cardinality(served) <= 1

\* A restart adds no account, and the password of every account is one an administrator can
\* know: it was typed into the wizard, or it is the one in initial-admin-password.txt.
PasswordKnown ==
    \A d \in Databases :
        /\ Cardinality(db[d].accounts) <= 1
        /\ \A a \in db[d].accounts : a.typed \/ a.pwd = pwFile

\* When the panel serves, somebody can log in: handleCreateSession and the login form accept no empty
\* user name.
SomebodyCanLogIn == panel.pc = "serve" => \E a \in db[panel.at].accounts : a.named
==============================================================================
