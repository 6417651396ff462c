---------------------------- MODULE ServicesProofs ----------------------------
(***************************************************************************)
(* Theorems about the services beside the sampler: subscription links,        *)
(* geolocation, probes, rate limiters and lists. A step of the services is a  *)
(* step of one of them or leaves its variables alone, so each has an           *)
(* invariant of its own.                                                    *)
(***************************************************************************)
EXTENDS StartupProofs, SettingsProofs

-----------------------------------------------------------------------------
(* Subscription links. A dead link is dead for good: a token that was         *)
(* replaced is in no row (DeadGone), because no two accounts share one         *)
(* (OwnTokens) and none is drawn twice. A tab may reset only when the row's     *)
(* last reset, which is never behind the latest stamp (Stamped), is a cooldown *)
(* old (Waited).                                                            *)

SubRow == [tok : Tokens \cup {None}, last : 0..MaxClock]
TabType == [pc : {"away", "page", "stamp", "post"}, user : Accounts \cup {None}, seen : 0..MaxClock]
FetchType == [pc : {"none", "find", "check", "export", "served"},
              tok : Tokens \cup {None}, user : Accounts \cup {None},
              late : BOOLEAN, could : SUBSET Hosts, doc : SUBSET Hosts]

\* Types, with the domain of the table.
SubTypes ==
    /\ alive \subseteq Accounts /\ dead \subseteq Tokens /\ clock \in 1..MaxClock
    /\ sub \in [Accounts -> SubRow \cup {None}]
    /\ host \in [Hosts -> S!HostStates] /\ stamped \in [Accounts -> 0..MaxClock]
    /\ tab \in [Tabs -> TabType] /\ fetch \in [Fetches -> FetchType]

HasRow(u) == sub[u] # None

\* Only accounts that exist have rows.
RowsOwned == \A u \in Accounts : HasRow(u) => u \in alive

\* No two accounts share a token.
OwnTokens == \A u, v \in Accounts : HasRow(u) /\ HasRow(v) /\ sub[u].tok = sub[v].tok /\ sub[u].tok # None => u = v

\* A token that was replaced, revoked or deleted is in no row.
DeadGone == \A u \in Accounts : HasRow(u) => sub[u].tok \notin dead

\* A tab shows an account, which has a row since GET /subscription unless it was deleted.
TabRows == \A t \in Tabs : tab[t].pc # "away" =>
               tab[t].user \in Accounts /\ (tab[t].user \in alive => HasRow(tab[t].user))

\* The row remembers every stamp, unless a later one.
Stamped == \A u \in alive : stamped[u] > 0 => HasRow(u) /\ sub[u].last >= stamped[u]

\* Stamps lie in the past.
Past == \A u \in Accounts : stamped[u] <= clock

\* A tab that passed the check has waited.
Waited == \A t \in Tabs :
    tab[t].pc \in {"stamp", "post"} /\ tab[t].seen > 0 => clock - tab[t].seen >= Cooldown

\* A request for a link that was dead when it began gets no further than the comparison of tokens.
FetchLate == \A f \in Fetches :
    /\ fetch[f].pc \in {"find", "check", "export"} => fetch[f].tok \in Tokens
    /\ fetch[f].pc \in {"check", "export"} => fetch[f].user \in Accounts
    /\ fetch[f].pc \in {"find", "check"} /\ fetch[f].late => fetch[f].tok \in dead
    /\ fetch[f].pc \in {"export", "served"} => ~fetch[f].late

\* What can be exported now could be exported during the request.
FetchCould == \A f \in Fetches :
    /\ fetch[f].pc \in {"find", "check", "export"} => S!exportableNodes \subseteq fetch[f].could
    /\ fetch[f].pc = "served" => fetch[f].doc \subseteq fetch[f].could

\* The table of tokens, whatever is in flight.
Table == RowsOwned /\ OwnTokens /\ DeadGone /\ Stamped /\ Past

SubInv == SubTypes /\ Table /\ TabRows /\ Waited /\ FetchLate /\ FetchCould
-----------------------------------------------------------------------------
(* Subscription links: operators.                                                               *)

\* Nothing has happened yet.
LEMMA SubInit == S!Init => SubInv
<1> SUFFICES ASSUME S!Init PROVE SubInv
    OBVIOUS
<1>1. S!Away \in TabType /\ S!Away.pc = "away"
    BY SubscriptionAssumption DEF S!Away, TabType
<1>2. S!NoFetch \in FetchType /\ S!NoFetch.pc = "none"
    BY DEF S!NoFetch, FetchType
<1>3. /\ \A u \in Accounts : ~HasRow(u)
      /\ \A t \in Tabs : tab[t] = S!Away
      /\ \A f \in Fetches : fetch[f] = S!NoFetch
      /\ \A u \in Accounts : stamped[u] = 0
    BY DEF S!Init, HasRow
<1>4. SubTypes
    BY <1>1, <1>2, SubscriptionAssumption DEF S!Init, SubTypes, S!HostStates
<1>5. RowsOwned /\ OwnTokens /\ DeadGone
    BY <1>3 DEF RowsOwned, OwnTokens, DeadGone
<1>6. TabRows
    BY <1>1, <1>3 DEF TabRows
<1>7. Stamped /\ Past
    BY <1>3, <1>4, SubscriptionAssumption DEF Stamped, Past, SubTypes
<1>8. Waited
    BY <1>1, <1>3, <1>4 DEF Waited, SubTypes
<1>9. FetchLate /\ FetchCould
    BY <1>2, <1>3 DEF FetchLate, FetchCould
<1> QED BY <1>4, <1>5, <1>6, <1>7, <1>8, <1>9 DEF SubInv, Table

\* What a statement that sets a token leaves behind.
LEMMA SetToken ==
    ASSUME SubTypes, NEW u \in Accounts, NEW k \in Tokens \cup {None}, S!SetSubscriptionToken(u, k)
    PROVE  /\ sub' \in [Accounts -> SubRow \cup {None}]
           /\ HasRow(u)' /\ sub'[u].tok = k /\ sub'[u].last = IF HasRow(u) THEN sub[u].last ELSE 0
           /\ \A v \in Accounts \ {u} : sub'[v] = sub[v]
<1> DEFINE r == [tok |-> k, last |-> IF sub[u] = None THEN 0 ELSE sub[u].last]
<1>1. sub[u] # None => sub[u].last \in 0..MaxClock
    BY DEF SubTypes, SubRow
<1>2. r \in SubRow
    BY <1>1, SubscriptionAssumption DEF SubRow
<1>3. sub' = [sub EXCEPT ![u] = r]
    BY DEF S!SetSubscriptionToken
<1>4. sub'[u] = r /\ (\A v \in Accounts \ {u} : sub'[v] = sub[v]) /\ sub' \in [Accounts -> SubRow \cup {None}]
    BY <1>2, <1>3 DEF SubTypes
<1>5. r # None
    BY <1>2, SubscriptionAssumption DEF SubRow
<1>6. r.tok = k /\ r.last = IF sub[u] = None THEN 0 ELSE sub[u].last
    OBVIOUS
<1> HIDE DEF r
<1> QED BY <1>4, <1>5, <1>6 DEF HasRow

\* GetSubscription inserts an empty row where there is none.
LEMMA Inserted ==
    ASSUME SubTypes, NEW u \in Accounts, sub' = S!InsertEmpty(u)
    PROVE  /\ sub' \in [Accounts -> SubRow \cup {None}]
           /\ HasRow(u)' /\ (HasRow(u) => sub'[u] = sub[u])
           /\ ~HasRow(u) => sub'[u].tok = None /\ sub'[u].last = 0
           /\ \A v \in Accounts \ {u} : sub'[v] = sub[v]
<1> DEFINE r == [tok |-> None, last |-> 0]
<1>1. r \in SubRow /\ r # None /\ r.tok = None /\ r.last = 0
  <2>1. r \in SubRow
      BY SubscriptionAssumption DEF SubRow
  <2> QED BY <2>1, SubscriptionAssumption DEF SubRow
<1> HIDE DEF r
<1>2. sub' = IF HasRow(u) THEN sub ELSE [sub EXCEPT ![u] = r]
    BY DEF S!InsertEmpty, HasRow, r
<1> QED BY <1>1, <1>2 DEF HasRow, SubTypes

\* SetResetNow stamps a row that exists.
LEMMA StampedRow ==
    ASSUME SubTypes, NEW u \in Accounts, S!SetResetNow(u)
    PROVE  /\ sub' \in [Accounts -> SubRow \cup {None}]
           /\ HasRow(u)' = HasRow(u) /\ (HasRow(u) => sub'[u].tok = sub[u].tok /\ sub'[u].last = clock)
           /\ \A v \in Accounts \ {u} : sub'[v] = sub[v]
<1> DEFINE r == [sub[u] EXCEPT !.last = clock]
<1>1. HasRow(u) => r \in SubRow /\ r.tok = sub[u].tok /\ r.last = clock
  <2>1. HasRow(u) => sub[u] \in SubRow /\ clock \in 0..MaxClock
      BY SubscriptionAssumption DEF SubTypes, HasRow
  <2> QED BY <2>1 DEF SubRow
<1>2. sub' = [sub EXCEPT ![u] = IF sub[u] = None THEN sub[u] ELSE r]
    BY DEF S!SetResetNow
<1>3. SubRow \cap {None} = {}
    BY SubscriptionAssumption DEF SubRow
<1> HIDE DEF r
<1>4. sub'[u] = IF HasRow(u) THEN r ELSE None
    BY <1>2 DEF HasRow, SubTypes
<1>5. HasRow(u)' = HasRow(u)
    BY <1>1, <1>3, <1>4 DEF HasRow
<1>6. (\A v \in Accounts \ {u} : sub'[v] = sub[v]) /\ sub' \in [Accounts -> SubRow \cup {None}]
    BY <1>1, <1>2 DEF HasRow, SubTypes
<1> QED BY <1>1, <1>4, <1>5, <1>6
-----------------------------------------------------------------------------
(* The table.                                                               *)

\* A new token, or none, takes the place of the old one, which is dead from now on.
LEMMA TableToken ==
    ASSUME SubTypes, Table, NEW u \in alive, NEW k \in Tokens \cup {None}, k = None \/ k \notin S!Drawn,
           S!SetSubscriptionToken(u, k), dead' = dead \cup S!OldToken(u), UNCHANGED <<alive, stamped, clock>>
    PROVE  Table' /\ dead' \subseteq Tokens
<1> USE DEF Table
<1>0. u \in Accounts
    BY DEF SubTypes
<1>1. /\ HasRow(u)' /\ sub'[u].tok = k /\ sub'[u].last = IF HasRow(u) THEN sub[u].last ELSE 0
      /\ \A v \in Accounts \ {u} : sub'[v] = sub[v]
    BY <1>0, SetToken
<1>2. \A v \in Accounts \ {u} : HasRow(v)' = HasRow(v)
    BY <1>1 DEF HasRow
<1>3. S!OldToken(u) = IF HasRow(u) THEN {sub[u].tok} \ {None} ELSE {}
    BY DEF S!OldToken, HasRow
<1>4. HasRow(u) => sub[u].tok \in Tokens \cup {None}
    BY <1>0 DEF SubTypes, SubRow, HasRow
<1>5. k # None => k \notin dead /\ \A v \in Accounts : HasRow(v) => sub[v].tok # k
    BY DEF S!Drawn, HasRow
<1>6. dead' \subseteq Tokens
    BY <1>3, <1>4 DEF SubTypes
<1>7. RowsOwned'
    BY <1>1, <1>2 DEF RowsOwned
<1>8. OwnTokens'
    BY <1>1, <1>2, <1>5 DEF OwnTokens
<1>9. DeadGone'
  <2>1. ASSUME NEW v \in Accounts, HasRow(v)' PROVE sub'[v].tok \notin dead'
    <3>1. CASE v = u
      <4>1. None \notin Tokens
          BY SubscriptionAssumption
      <4> QED BY <1>0, <1>1, <1>3, <1>5, <1>6, <3>1, <4>1
    <3>2. CASE v # u
        BY <1>0, <1>1, <1>2, <1>3, <2>1, <3>2 DEF DeadGone, OwnTokens
    <3> QED BY <3>1, <3>2
  <2> QED BY <2>1 DEF DeadGone
<1>10. Stamped'
  <2>1. ASSUME NEW v \in alive, stamped[v] > 0 PROVE HasRow(v)' /\ sub'[v].last >= stamped[v]
      BY <1>1, <1>2, <2>1 DEF Stamped, SubTypes
  <2> QED BY <2>1 DEF Stamped
<1>11. Past'
    BY DEF Past
<1> QED BY <1>6, <1>7, <1>8, <1>9, <1>10, <1>11

\* An empty row changes nothing.
LEMMA TableInsert ==
    ASSUME SubTypes, Table, NEW u \in alive, sub' = S!InsertEmpty(u), UNCHANGED <<alive, dead, stamped, clock>>
    PROVE  Table'
<1> USE DEF Table
<1>0. u \in Accounts /\ None \notin Tokens
    BY SubscriptionAssumption DEF SubTypes
<1>1. /\ HasRow(u)' /\ (HasRow(u) => sub'[u] = sub[u])
      /\ ~HasRow(u) => sub'[u].tok = None /\ sub'[u].last = 0
      /\ \A v \in Accounts \ {u} : sub'[v] = sub[v]
    BY <1>0, Inserted
<1>2. \A v \in Accounts \ {u} : HasRow(v)' = HasRow(v)
    BY <1>1 DEF HasRow
<1>3. RowsOwned' /\ OwnTokens'
    BY <1>1, <1>2 DEF RowsOwned, OwnTokens
<1>4. DeadGone'
    BY <1>0, <1>1, <1>2 DEF DeadGone, SubTypes
<1>5. Stamped' /\ Past'
    BY <1>0, <1>1, <1>2 DEF Stamped, Past, SubTypes
<1> QED BY <1>3, <1>4, <1>5

\* A stamp that is written is the latest in the row; one that is not changes nothing.
LEMMA TableStamp ==
    ASSUME SubTypes, Table, TabRows, NEW t \in Tabs, S!StampReset(t)
    PROVE  /\ Table' /\ sub' \in [Accounts -> SubRow \cup {None}]
           /\ \A u \in Accounts : HasRow(u)' = HasRow(u)
           /\ stamped' \in [Accounts -> 0..MaxClock]
<1> USE DEF Table
<1>a. CASE UNCHANGED <<sub, stamped>>
  <2>1. UNCHANGED <<alive, dead, clock>>
      BY DEF S!StampReset
  <2> QED BY <1>a, <2>1 DEF SubTypes, RowsOwned, OwnTokens, DeadGone, Stamped, Past, HasRow
<1>b. CASE S!SetResetNow(tab[t].user) /\ stamped' = [stamped EXCEPT ![tab[t].user] = clock]
  <2>w. PICK w \in Accounts : w = tab[t].user
      BY DEF TabRows, S!StampReset
  <2>0. (w \in alive => HasRow(w)) /\ UNCHANGED <<alive, dead, clock>>
        /\ clock \in 1..MaxClock /\ MaxClock \in Nat
      BY <2>w, SubscriptionAssumption DEF TabRows, S!StampReset, SubTypes
  <2>1. /\ sub' \in [Accounts -> SubRow \cup {None}]
        /\ HasRow(w)' = HasRow(w) /\ (HasRow(w) => sub'[w].tok = sub[w].tok /\ sub'[w].last = clock)
        /\ \A v \in Accounts \ {w} : sub'[v] = sub[v]
      BY <1>b, <2>w, StampedRow
  <2>2. \A v \in Accounts : HasRow(v)' = HasRow(v)
      BY <2>1 DEF HasRow
  <2>3. /\ stamped' \in [Accounts -> 0..MaxClock] /\ stamped'[w] = clock
        /\ \A u \in Accounts \ {w} : stamped'[u] = stamped[u]
    <3>1. clock \in 0..MaxClock /\ stamped' = [stamped EXCEPT ![w] = clock]
        BY <1>b, <2>w, <2>0
    <3> QED BY <3>1 DEF SubTypes
  <2>4. \A v \in Accounts : HasRow(v) => sub'[v].tok = sub[v].tok
      BY <2>1
  <2>5. RowsOwned' /\ OwnTokens' /\ DeadGone'
      BY <2>0, <2>2, <2>4 DEF RowsOwned, OwnTokens, DeadGone
  <2>6. Stamped'
    <3>1. ASSUME NEW u \in alive, stamped'[u] > 0
          PROVE  HasRow(u)' /\ sub'[u].last >= stamped'[u]
      <4>1. u \in Accounts
          BY DEF SubTypes
      <4>2. CASE u # w
          BY <2>1, <2>2, <2>3, <3>1, <4>1, <4>2 DEF Stamped
      <4>3. CASE u = w
        <5>1. HasRow(u)' /\ sub'[u].last = clock /\ stamped'[u] = clock
            BY <2>0, <2>1, <2>3, <4>3
        <5> QED BY <2>0, <5>1
      <4> QED BY <4>2, <4>3
    <3> QED BY <2>0, <3>1 DEF Stamped
  <2>7. Past'
      BY <2>0, <2>3 DEF Past
  <2> QED BY <2>1, <2>2, <2>3, <2>5, <2>6, <2>7
<1> QED BY <1>a, <1>b DEF S!StampReset

\* The types of the table and of the times, and how they may change.
TableTypes ==
    /\ alive \subseteq Accounts /\ dead \subseteq Tokens /\ clock \in 1..MaxClock
    /\ sub \in [Accounts -> SubRow \cup {None}] /\ stamped \in [Accounts -> 0..MaxClock]

Grows ==
    /\ alive' \subseteq alive /\ dead \subseteq dead' /\ clock <= clock'
    /\ \A u \in alive' : HasRow(u) => HasRow(u)'

\* Every step keeps the table: dead tokens stay dead, rows go only with their accounts.
LEMMA TableStep ==
    ASSUME SubInv, [S!Next]_subVars
    PROVE  TableTypes' /\ Table' /\ Grows
<1> USE DEF SubInv
<1>0. TableTypes /\ MaxClock \in Nat
    BY SubscriptionAssumption DEF SubTypes, TableTypes
<1>a. ASSUME UNCHANGED <<alive, sub, clock, dead, stamped>> PROVE TableTypes' /\ Table' /\ Grows
    BY <1>0, <1>a DEF TableTypes, Table, RowsOwned, OwnTokens, DeadGone, Stamped, Past, HasRow, Grows
<1>b. ASSUME NEW u \in alive, NEW k \in Tokens \cup {None}, k = None \/ k \notin S!Drawn,
             S!SetSubscriptionToken(u, k), dead' = dead \cup S!OldToken(u), UNCHANGED <<alive, stamped, clock>>
      PROVE  TableTypes' /\ Table' /\ Grows
  <2>1. Table' /\ dead' \subseteq Tokens
      BY <1>b, TableToken
  <2>2. u \in Accounts
      BY DEF SubTypes
  <2>3. sub' \in [Accounts -> SubRow \cup {None}] /\ HasRow(u)' /\ \A v \in Accounts \ {u} : sub'[v] = sub[v]
      BY <1>b, <2>2, SetToken
  <2>4. TableTypes'
      BY <1>0, <1>b, <2>1, <2>3 DEF TableTypes
  <2>5. \A v \in alive : HasRow(v) => HasRow(v)'
      BY <1>0, <2>2, <2>3 DEF HasRow, TableTypes
  <2> QED BY <1>0, <1>b, <2>1, <2>4, <2>5 DEF Grows, TableTypes
<1>c. ASSUME NEW u \in alive, sub' = S!InsertEmpty(u), UNCHANGED <<alive, dead, stamped, clock>>
      PROVE  TableTypes' /\ Table' /\ Grows
  <2>1. Table'
      BY <1>c, TableInsert
  <2>2. u \in Accounts
      BY DEF SubTypes
  <2>3. sub' \in [Accounts -> SubRow \cup {None}] /\ HasRow(u)' /\ \A v \in Accounts \ {u} : sub'[v] = sub[v]
      BY <1>c, <2>2, Inserted
  <2>4. TableTypes'
      BY <1>0, <1>c, <2>3 DEF TableTypes
  <2>5. \A v \in alive : HasRow(v) => HasRow(v)'
      BY <1>0, <2>2, <2>3 DEF HasRow, TableTypes
  <2> QED BY <1>0, <1>c, <2>1, <2>4, <2>5 DEF Grows, TableTypes
<1>1. CASE S!Tick
  <2>1. UNCHANGED <<alive, sub, dead, stamped>> /\ clock' = clock + 1 /\ clock' \in 1..MaxClock
      BY <1>0, <1>1 DEF S!Tick, TableTypes
  <2>2. Past'
      BY <1>0, <2>1 DEF Past, Table, TableTypes
  <2> QED BY <1>0, <2>1, <2>2 DEF TableTypes, Table, RowsOwned, OwnTokens, DeadGone, Stamped, HasRow, Grows
<1>2. ASSUME NEW h \in Hosts, S!PatchHost(h) PROVE TableTypes' /\ Table' /\ Grows
    BY <1>2, <1>a DEF S!PatchHost
<1>3. ASSUME NEW u \in Accounts, S!handleDeleteSubscription(u) PROVE TableTypes' /\ Table' /\ Grows
    BY <1>3, <1>b DEF S!handleDeleteSubscription
<1>4. ASSUME NEW u \in Accounts, NEW k \in Tokens, S!handleResetSubscriptionToken(u, k)
      PROVE  TableTypes' /\ Table' /\ Grows
    BY <1>4, <1>b DEF S!handleResetSubscriptionToken
<1>5. ASSUME NEW u \in Accounts, S!DeleteUser(u) PROVE TableTypes' /\ Table' /\ Grows
  <2>1. /\ alive' = alive \ {u} /\ ~HasRow(u)' /\ sub' \in [Accounts -> SubRow \cup {None}]
        /\ \A v \in Accounts \ {u} : sub'[v] = sub[v]
        /\ dead' = dead \cup S!OldToken(u) /\ UNCHANGED <<clock, stamped>>
      BY <1>0, <1>5 DEF S!DeleteUser, HasRow, TableTypes
  <2>2. \A v \in Accounts \ {u} : HasRow(v)' = HasRow(v)
      BY <2>1 DEF HasRow
  <2>3. S!OldToken(u) = IF HasRow(u) THEN {sub[u].tok} \ {None} ELSE {}
      BY DEF S!OldToken, HasRow
  <2>4. dead' \subseteq Tokens
      BY <1>0, <2>1, <2>3 DEF TableTypes, SubRow, HasRow
  <2>5. RowsOwned' /\ OwnTokens'
      BY <2>1, <2>2 DEF Table, RowsOwned, OwnTokens
  <2>6. DeadGone'
      BY <2>1, <2>2, <2>3 DEF Table, DeadGone, OwnTokens
  <2>7. Stamped' /\ Past'
      BY <1>0, <2>1, <2>2 DEF Table, Stamped, Past, TableTypes
  <2>8. Grows
      BY <1>0, <2>1, <2>2 DEF Grows, TableTypes
  <2> QED BY <1>0, <2>1, <2>4, <2>5, <2>6, <2>7, <2>8 DEF Table, TableTypes
<1>6. ASSUME NEW t \in Tabs, S!CheckCooldown(t) PROVE TableTypes' /\ Table' /\ Grows
    BY <1>6, <1>a DEF S!CheckCooldown
<1>7. ASSUME NEW t \in Tabs, S!StampReset(t) PROVE TableTypes' /\ Table' /\ Grows
  <2>1. UNCHANGED <<alive, dead, clock>>
      BY <1>7 DEF S!StampReset
  <2>2. /\ Table' /\ sub' \in [Accounts -> SubRow \cup {None}]
        /\ \A u \in Accounts : HasRow(u)' = HasRow(u)
        /\ stamped' \in [Accounts -> 0..MaxClock]
      BY <1>7, TableStamp
  <2> QED BY <1>0, <2>1, <2>2 DEF Grows, TableTypes
<1>8. ASSUME NEW t \in Tabs, S!EnsureFirst(t) PROVE TableTypes' /\ Table' /\ Grows
  <2>1. PICK u \in alive : u = tab[t].user
      BY <1>8 DEF S!EnsureFirst
  <2> QED BY <1>8, <1>c, <2>1 DEF S!EnsureFirst
<1>9. ASSUME NEW t \in Tabs, NEW u \in Accounts, S!fragUserProfile(t, u) PROVE TableTypes' /\ Table' /\ Grows
    BY <1>9, <1>c DEF S!fragUserProfile
<1>10. ASSUME NEW t \in Tabs, NEW k \in Tokens, S!PostToken(t, k) PROVE TableTypes' /\ Table' /\ Grows
  <2>1. CASE tab[t].user \in alive
    <3>1. PICK u \in alive : u = tab[t].user
        BY <2>1
    <3> QED BY <1>10, <1>b, <3>1 DEF S!PostToken
  <2>2. CASE tab[t].user \notin alive
      BY <1>10, <1>a, <2>2 DEF S!PostToken
  <2> QED BY <2>1, <2>2
<1>11. ASSUME NEW f \in Fetches, S!FindSubscriptionUser(f) \/ S!Export(f) \/ \E k \in Tokens : S!StartFetch(f, k)
       PROVE  TableTypes' /\ Table' /\ Grows
    BY <1>11, <1>a DEF S!FindSubscriptionUser, S!Export, S!StartFetch
<1>12. ASSUME NEW f \in Fetches, S!CheckToken(f) PROVE TableTypes' /\ Table' /\ Grows
  <2>1. CASE fetch[f].user \in alive
    <3>1. PICK u \in alive : u = fetch[f].user
        BY <2>1
    <3> QED BY <1>12, <1>c, <3>1 DEF S!CheckToken
  <2>2. CASE fetch[f].user \notin alive
      BY <1>12, <1>a, <2>2 DEF S!CheckToken
  <2> QED BY <2>1, <2>2
<1>13. CASE UNCHANGED subVars
    BY <1>13, <1>a DEF subVars
<1> QED BY <1>1, <1>2, <1>3, <1>4, <1>5, <1>6, <1>7, <1>8, <1>9, <1>10, <1>11, <1>12, <1>13 DEF S!Next
-----------------------------------------------------------------------------
(* Tabs and requests.                                                       *)

\* A tab that moves on shows an account with a row, and has waited when it may stamp.
LEMMA TabStep ==
    ASSUME SubInv, [S!Next]_subVars
    PROVE  tab' \in [Tabs -> TabType] /\ TabRows' /\ Waited'
<1> USE DEF SubInv
<1>0. tab \in [Tabs -> TabType] /\ TableTypes /\ TableTypes' /\ Grows /\ TabRows /\ Waited
      /\ MaxClock \in Nat /\ Cooldown \in Nat
    BY TableStep, SubscriptionAssumption DEF SubTypes, TableTypes
<1>a. ASSUME NEW t \in Tabs, NEW r \in TabType, tab' = [tab EXCEPT ![t] = r],
             r.pc # "away" => r.user \in Accounts /\ (r.user \in alive' => HasRow(r.user)'),
             r.pc \in {"stamp", "post"} /\ r.seen > 0 => clock - r.seen >= Cooldown
      PROVE  tab' \in [Tabs -> TabType] /\ TabRows' /\ Waited'
  <2>1. tab' \in [Tabs -> TabType] /\ tab'[t] = r /\ \A x \in Tabs \ {t} : tab'[x] = tab[x]
      BY <1>0, <1>a
  <2>2. TabRows'
    <3>1. ASSUME NEW x \in Tabs, tab'[x].pc # "away"
          PROVE  tab'[x].user \in Accounts /\ (tab'[x].user \in alive' => sub'[tab'[x].user] # None)
      <4>1. CASE x = t
          BY <1>a, <2>1, <3>1, <4>1 DEF HasRow
      <4>2. CASE x # t
          BY <1>0, <2>1, <3>1, <4>2 DEF TabRows, Grows, HasRow
      <4> QED BY <4>1, <4>2
    <3> QED BY <3>1 DEF TabRows, HasRow
  <2>3. Waited'
    <3>1. ASSUME NEW x \in Tabs, tab'[x].pc \in {"stamp", "post"}, tab'[x].seen > 0
          PROVE  clock' - tab'[x].seen >= Cooldown
      <4>1. clock \in Nat /\ clock' \in Nat /\ clock <= clock' /\ tab'[x].seen \in Nat
          BY <1>0, <2>1 DEF TableTypes, Grows, TabType
      <4>2. clock - tab'[x].seen >= Cooldown
          BY <1>0, <1>a, <2>1, <3>1 DEF Waited
      <4> QED BY <1>0, <4>1, <4>2
    <3> QED BY <3>1 DEF Waited
  <2> QED BY <2>1, <2>2, <2>3
<1>b. ASSUME UNCHANGED tab PROVE tab' \in [Tabs -> TabType] /\ TabRows' /\ Waited'
  <2>1. TabRows'
      BY <1>0, <1>b DEF TabRows, Grows
  <2>2. Waited'
    <3>1. ASSUME NEW x \in Tabs, tab[x].pc \in {"stamp", "post"}, tab[x].seen > 0
          PROVE  clock' - tab[x].seen >= Cooldown
      <4>1. clock \in Nat /\ clock' \in Nat /\ clock <= clock' /\ tab[x].seen \in Nat
          BY <1>0 DEF TableTypes, Grows, TabType
      <4>2. clock - tab[x].seen >= Cooldown
          BY <1>0, <3>1 DEF Waited
      <4> QED BY <1>0, <4>1, <4>2
    <3> QED BY <1>b, <3>1 DEF Waited
  <2> QED BY <1>0, <1>b, <2>1, <2>2
<1>1. CASE S!Tick \/ (\E h \in Hosts : S!PatchHost(h)) \/ UNCHANGED subVars
    BY <1>1, <1>b DEF S!Tick, S!PatchHost, subVars
<1>2. ASSUME NEW u \in Accounts, S!handleDeleteSubscription(u) \/ S!DeleteUser(u)
                                 \/ \E k \in Tokens : S!handleResetSubscriptionToken(u, k)
      PROVE  tab' \in [Tabs -> TabType] /\ TabRows' /\ Waited'
    BY <1>2, <1>b DEF S!handleDeleteSubscription, S!DeleteUser, S!handleResetSubscriptionToken
<1>3. ASSUME NEW f \in Fetches, S!FindSubscriptionUser(f) \/ S!CheckToken(f) \/ S!Export(f)
                                \/ \E k \in Tokens : S!StartFetch(f, k)
      PROVE  tab' \in [Tabs -> TabType] /\ TabRows' /\ Waited'
    BY <1>3, <1>b DEF S!FindSubscriptionUser, S!CheckToken, S!Export, S!StartFetch
<1>4. ASSUME NEW t \in Tabs, S!CheckCooldown(t) PROVE tab' \in [Tabs -> TabType] /\ TabRows' /\ Waited'
  <2>1. PICK u \in alive : u = tab[t].user
      BY <1>4 DEF S!CheckCooldown
  <2>2. HasRow(u) /\ u \in Accounts /\ UNCHANGED <<alive, sub>> /\ ~S!CoolingDown(u)
      BY <1>0, <1>4, <2>1 DEF S!CheckCooldown, TabRows
  <2> DEFINE r == [pc |-> "stamp", user |-> u, seen |-> stamped[u]]
  <2>3. r \in TabType /\ r.pc = "stamp" /\ r.user = u /\ r.seen = stamped[u]
      BY <1>0, <2>2 DEF TabType, TableTypes
  <2>4. tab' = [tab EXCEPT ![t] = r]
      BY <1>4, <2>1 DEF S!CheckCooldown
  <2>5. ASSUME stamped[u] > 0 PROVE clock - stamped[u] >= Cooldown
    <3>1. /\ sub[u].last >= stamped[u] /\ stamped[u] <= clock
          /\ sub[u].last \in Nat /\ clock \in Nat /\ stamped[u] \in Nat
        BY <1>0, <2>2, <2>5 DEF Table, Stamped, Past, TableTypes, SubRow, HasRow
    <3>2. ~(Cooldown > 0 /\ Cooldown - (clock - sub[u].last) > 0)
        BY <2>2, <2>5, <3>1 DEF S!CoolingDown, HasRow
    <3> QED BY <1>0, <3>1, <3>2
  <2>6. HasRow(u)' = HasRow(u)
      BY <2>2 DEF HasRow
  <2> HIDE DEF r
  <2> QED BY <1>a, <2>2, <2>3, <2>4, <2>5, <2>6
<1>5. ASSUME NEW t \in Tabs, S!StampReset(t) PROVE tab' \in [Tabs -> TabType] /\ TabRows' /\ Waited'
  <2> DEFINE r == [tab[t] EXCEPT !.pc = "post"]
  <2>1. r \in TabType /\ r.pc = "post" /\ r.user = tab[t].user /\ r.seen = tab[t].seen
      BY <1>0 DEF TabType
  <2>2. tab' = [tab EXCEPT ![t] = r] /\ tab[t].pc = "stamp" /\ UNCHANGED alive
      BY <1>5 DEF S!StampReset
  <2>3. PICK w \in Accounts : w = tab[t].user /\ (w \in alive => HasRow(w))
      BY <1>0, <2>2 DEF TabRows
  <2>5. HasRow(w)' = HasRow(w)
      BY <1>5, TableStamp
  <2>4. r.seen > 0 => clock - r.seen >= Cooldown
      BY <1>0, <2>1, <2>2 DEF Waited
  <2> HIDE DEF r
  <2> QED BY <1>a, <2>1, <2>2, <2>3, <2>4, <2>5
<1>6. ASSUME NEW t \in Tabs, S!EnsureFirst(t) PROVE tab' \in [Tabs -> TabType] /\ TabRows' /\ Waited'
  <2>1. PICK u \in alive : u = tab[t].user
      BY <1>6 DEF S!EnsureFirst
  <2> DEFINE r == [pc |-> "post", user |-> u, seen |-> 0]
  <2>2. r \in TabType /\ r.pc = "post" /\ r.user = u /\ r.seen = 0
      BY <1>0, <2>1 DEF TabType, TableTypes
  <2>3. tab' = [tab EXCEPT ![t] = r] /\ sub' = S!InsertEmpty(u) /\ u \in Accounts
      BY <1>0, <1>6, <2>1 DEF S!EnsureFirst, TableTypes
  <2>4. HasRow(u)'
      BY <2>3, Inserted
  <2>5. ~(r.seen > 0)
      BY <2>2
  <2> HIDE DEF r
  <2> QED BY <1>a, <2>2, <2>3, <2>4, <2>5
<1>7. ASSUME NEW t \in Tabs, NEW u \in Accounts, S!fragUserProfile(t, u)
      PROVE  tab' \in [Tabs -> TabType] /\ TabRows' /\ Waited'
  <2> DEFINE r == [pc |-> "page", user |-> u, seen |-> 0]
  <2>1. r \in TabType /\ r.pc = "page" /\ r.user = u
      BY <1>0 DEF TabType
  <2>2. tab' = [tab EXCEPT ![t] = r] /\ sub' = S!InsertEmpty(u)
      BY <1>7 DEF S!fragUserProfile
  <2>3. HasRow(u)'
      BY <2>2, Inserted
  <2> HIDE DEF r
  <2> QED BY <1>a, <2>1, <2>2, <2>3
<1>8. ASSUME NEW t \in Tabs, NEW k \in Tokens, S!PostToken(t, k)
      PROVE  tab' \in [Tabs -> TabType] /\ TabRows' /\ Waited'
  <2>1. S!Away \in TabType /\ S!Away.pc = "away"
      BY <1>0 DEF S!Away, TabType
  <2>2. tab' = [tab EXCEPT ![t] = S!Away]
      BY <1>8 DEF S!PostToken
  <2> QED BY <1>a, <2>1, <2>2
<1> QED BY <1>1, <1>2, <1>3, <1>4, <1>5, <1>6, <1>7, <1>8 DEF S!Next

\* What FetchLate and FetchCould say of one request.
FetchOK(r) ==
    /\ r.pc \in {"find", "check", "export"} => r.tok \in Tokens /\ S!exportableNodes \subseteq r.could
    /\ r.pc \in {"check", "export"} => r.user \in Accounts
    /\ r.pc \in {"find", "check"} /\ r.late => r.tok \in dead
    /\ r.pc \in {"export", "served"} => ~r.late
    /\ r.pc = "served" => r.doc \subseteq r.could

\* They say it of every request.
LEMMA FetchesOK == FetchLate /\ FetchCould <=> \A f \in Fetches : FetchOK(fetch[f])
    BY DEF FetchLate, FetchCould, FetchOK

\* A request that moves on is served only what a link alive at its start may serve.
LEMMA FetchStep ==
    ASSUME SubInv, [S!Next]_subVars
    PROVE  fetch' \in [Fetches -> FetchType] /\ host' \in [Hosts -> S!HostStates] /\ FetchLate' /\ FetchCould'
<1> USE DEF SubInv
<1>0. /\ fetch \in [Fetches -> FetchType] /\ host \in [Hosts -> S!HostStates] /\ dead \subseteq dead'
      /\ \A f \in Fetches : FetchOK(fetch[f])
    BY TableStep, FetchesOK DEF SubTypes, Grows
<1> DEFINE Fine == /\ fetch' \in [Fetches -> FetchType] /\ host' \in [Hosts -> S!HostStates]
                   /\ FetchLate' /\ FetchCould'
<1>a. ASSUME UNCHANGED host, NEW f \in Fetches, NEW r \in FetchType, fetch' = [fetch EXCEPT ![f] = r],
             r.pc \in {"find", "check", "export"} => r.tok \in Tokens /\ S!exportableNodes \subseteq r.could,
             r.pc \in {"check", "export"} => r.user \in Accounts,
             r.pc \in {"find", "check"} /\ r.late => r.tok \in dead,
             r.pc \in {"export", "served"} => ~r.late,
             r.pc = "served" => r.doc \subseteq r.could
      PROVE  Fine
  <2>1. fetch' \in [Fetches -> FetchType] /\ fetch'[f] = r /\ \A g \in Fetches \ {f} : fetch'[g] = fetch[g]
      BY <1>0, <1>a
  <2>2. S!exportableNodes' = S!exportableNodes
      BY <1>a DEF S!exportableNodes
  <2>3. FetchLate'
    <3>1. ASSUME NEW g \in Fetches
          PROVE  /\ fetch'[g].pc \in {"find", "check", "export"} => fetch'[g].tok \in Tokens
                 /\ fetch'[g].pc \in {"check", "export"} => fetch'[g].user \in Accounts
                 /\ fetch'[g].pc \in {"find", "check"} /\ fetch'[g].late => fetch'[g].tok \in dead'
                 /\ fetch'[g].pc \in {"export", "served"} => ~fetch'[g].late
      <4>1. CASE g = f
          BY <1>0, <1>a, <2>1, <4>1
      <4>2. CASE g # f
          BY <1>0, <2>1, <4>2 DEF FetchOK
      <4> QED BY <4>1, <4>2
    <3> QED BY <3>1 DEF FetchLate
  <2>4. FetchCould'
    <3>1. ASSUME NEW g \in Fetches
          PROVE  /\ fetch'[g].pc \in {"find", "check", "export"} => S!exportableNodes \subseteq fetch'[g].could
                 /\ fetch'[g].pc = "served" => fetch'[g].doc \subseteq fetch'[g].could
      <4>1. CASE g = f
          BY <1>a, <2>1, <4>1
      <4>2. CASE g # f
          BY <1>0, <2>1, <4>2 DEF FetchOK
      <4> QED BY <4>1, <4>2
    <3> QED BY <2>2, <3>1 DEF FetchCould
  <2> QED BY <1>0, <1>a, <2>1, <2>3, <2>4
<1>b. ASSUME UNCHANGED <<host, fetch>> PROVE Fine
    BY <1>0, <1>b DEF FetchLate, FetchCould, S!exportableNodes
<1>n. S!NoFetch \in FetchType /\ S!NoFetch.pc = "none"
    BY DEF S!NoFetch, FetchType
<1>c. ASSUME UNCHANGED host, NEW f \in Fetches, S!NotFound(f) PROVE Fine
    BY <1>a, <1>c, <1>n DEF S!NotFound
<1>1. ASSUME S!Tick \/ UNCHANGED subVars PROVE Fine
    BY <1>1, <1>b DEF S!Tick, subVars
<1>2. ASSUME NEW u \in Accounts, S!handleDeleteSubscription(u) \/ S!DeleteUser(u)
                                 \/ \E k \in Tokens : S!handleResetSubscriptionToken(u, k)
      PROVE  Fine
    BY <1>2, <1>b DEF S!handleDeleteSubscription, S!DeleteUser, S!handleResetSubscriptionToken
<1>3. ASSUME NEW t \in Tabs, S!CheckCooldown(t) \/ S!StampReset(t) \/ S!EnsureFirst(t)
                             \/ (\E u \in Accounts : S!fragUserProfile(t, u)) \/ \E k \in Tokens : S!PostToken(t, k)
      PROVE  Fine
    BY <1>3, <1>b DEF S!CheckCooldown, S!StampReset, S!EnsureFirst, S!fragUserProfile, S!PostToken
<1>4. ASSUME NEW h \in Hosts, S!PatchHost(h) PROVE Fine
  <2>1. host' \in [Hosts -> S!HostStates] /\ (\A x \in Hosts \ {h} : host'[x] = host[x]) /\ UNCHANGED dead
      BY <1>0, <1>4 DEF S!PatchHost
  <2>2. S!exportableNodes' \subseteq S!exportableNodes \cup (IF host'[h] = "ok" THEN {h} ELSE {})
      BY <2>1 DEF S!exportableNodes
  <2> DEFINE Could(f) == IF fetch[f].pc \in {"find", "check", "export"} /\ host'[h] = "ok"
                         THEN fetch[f].could \cup {h} ELSE fetch[f].could
             New(f) == [fetch[f] EXCEPT !.could = Could(f)]
  <2>3. fetch' = [f \in Fetches |-> New(f)]
      BY <1>4 DEF S!PatchHost
  <2>4. ASSUME NEW f \in Fetches
        PROVE  /\ New(f) \in FetchType /\ New(f).pc = fetch[f].pc /\ New(f).tok = fetch[f].tok
               /\ New(f).user = fetch[f].user /\ New(f).late = fetch[f].late /\ New(f).doc = fetch[f].doc
               /\ New(f).could = Could(f)
    <3>1. fetch[f] \in FetchType
        BY <1>0
    <3>2. Could(f) \in SUBSET Hosts
        BY <3>1 DEF FetchType
    <3> HIDE DEF Could
    <3> QED BY <3>1, <3>2 DEF FetchType
  <2> HIDE DEF New
  <2>5. FetchLate'
      BY <1>0, <2>1, <2>3, <2>4 DEF FetchLate
  <2>6. FetchCould'
    <3>1. ASSUME NEW f \in Fetches
          PROVE  /\ fetch'[f].pc \in {"find", "check", "export"} => S!exportableNodes' \subseteq fetch'[f].could
                 /\ fetch'[f].pc = "served" => fetch'[f].doc \subseteq fetch'[f].could
        BY <1>0, <2>2, <2>3, <2>4 DEF FetchOK
    <3> QED BY <3>1 DEF FetchCould
  <2> QED BY <2>1, <2>3, <2>4, <2>5, <2>6
<1>5. ASSUME NEW f \in Fetches, NEW k \in Tokens, S!StartFetch(f, k) PROVE Fine
  <2> DEFINE r == [S!NoFetch EXCEPT !.pc = "find", !.tok = k, !.late = (k \in dead), !.could = S!exportableNodes]
  <2>1. S!exportableNodes \in SUBSET Hosts /\ (k \in dead) \in BOOLEAN
      BY DEF S!exportableNodes
  <2>2. r \in FetchType /\ r.pc = "find" /\ r.tok = k /\ r.could = S!exportableNodes
      BY <2>1 DEF S!NoFetch, FetchType
  <2>3. r.late => k \in dead
      BY DEF S!NoFetch
  <2>4. fetch' = [fetch EXCEPT ![f] = r] /\ UNCHANGED host
      BY <1>5 DEF S!StartFetch
  <2> HIDE DEF r
  <2> QED BY <1>a, <2>2, <2>3, <2>4
<1>6. ASSUME NEW f \in Fetches, S!FindSubscriptionUser(f) PROVE Fine
  <2>1. fetch[f] \in FetchType /\ fetch[f].pc = "find" /\ UNCHANGED host /\ FetchOK(fetch[f])
      BY <1>0, <1>6 DEF S!FindSubscriptionUser
  <2>2. ASSUME NEW u \in S!Owners(fetch[f].tok), fetch' = [fetch EXCEPT ![f].pc = "check", ![f].user = u] PROVE Fine
    <3> DEFINE r == [fetch[f] EXCEPT !.pc = "check", !.user = u]
    <3>1. u \in Accounts
        BY DEF S!Owners
    <3>2. /\ r \in FetchType /\ r.pc = "check" /\ r.user = u /\ r.tok = fetch[f].tok /\ r.late = fetch[f].late
          /\ r.could = fetch[f].could
        BY <2>1, <3>1 DEF FetchType
    <3>3. fetch' = [fetch EXCEPT ![f] = r]
        BY <1>0, <2>2
    <3> HIDE DEF r
    <3> QED BY <1>a, <2>1, <3>1, <3>2, <3>3 DEF FetchOK
  <2> QED BY <1>6, <1>c, <2>1, <2>2 DEF S!FindSubscriptionUser
<1>7. ASSUME NEW f \in Fetches, S!CheckToken(f) PROVE Fine
  <2>1. fetch[f] \in FetchType /\ fetch[f].pc = "check" /\ UNCHANGED host /\ FetchOK(fetch[f])
      BY <1>0, <1>7 DEF S!CheckToken
  <2>2. CASE S!NotFound(f)
      BY <1>c, <2>1, <2>2
  <2>3. CASE ~S!NotFound(f)
    <3>1. PICK u \in alive : u = fetch[f].user
        BY <1>7, <2>3 DEF S!CheckToken
    <3>2. sub' = S!InsertEmpty(u) /\ sub'[u].tok = fetch[f].tok /\ fetch' = [fetch EXCEPT ![f].pc = "export"]
        BY <1>7, <2>3, <3>1 DEF S!CheckToken
    <3>3. u \in Accounts /\ fetch[f].tok \in Tokens /\ None \notin Tokens
        BY <2>1, SubscriptionAssumption DEF SubTypes, FetchOK
    <3>4. HasRow(u) /\ sub[u].tok = fetch[f].tok
        BY <3>2, <3>3, Inserted
    <3>5. ~fetch[f].late
        BY <2>1, <3>3, <3>4 DEF Table, DeadGone, FetchOK
    <3> DEFINE r == [fetch[f] EXCEPT !.pc = "export"]
    <3>6. /\ r \in FetchType /\ r.pc = "export" /\ r.user = fetch[f].user /\ r.tok = fetch[f].tok
          /\ r.late = fetch[f].late /\ r.could = fetch[f].could
        BY <2>1 DEF FetchType
    <3>7. fetch' = [fetch EXCEPT ![f] = r]
        BY <3>2
    <3> HIDE DEF r
    <3> QED BY <1>a, <2>1, <3>1, <3>3, <3>5, <3>6, <3>7 DEF FetchOK
  <2> QED BY <2>2, <2>3
<1>8. ASSUME NEW f \in Fetches, S!Export(f) PROVE Fine
  <2>1. fetch[f] \in FetchType /\ fetch[f].pc = "export" /\ UNCHANGED host /\ FetchOK(fetch[f])
      BY <1>0, <1>8 DEF S!Export
  <2>2. CASE S!NotFound(f)
      BY <1>c, <2>1, <2>2
  <2>3. CASE fetch' = [fetch EXCEPT ![f].pc = "served", ![f].doc = S!exportableNodes]
    <3> DEFINE r == [fetch[f] EXCEPT !.pc = "served", !.doc = S!exportableNodes]
    <3>1. S!exportableNodes \in SUBSET Hosts
        BY DEF S!exportableNodes
    <3>2. /\ r \in FetchType /\ r.pc = "served" /\ r.late = fetch[f].late /\ r.could = fetch[f].could
          /\ r.doc = S!exportableNodes
        BY <2>1, <3>1 DEF FetchType
    <3>3. fetch' = [fetch EXCEPT ![f] = r]
        BY <1>0, <2>3
    <3> HIDE DEF r
    <3> QED BY <1>a, <2>1, <3>2, <3>3 DEF FetchOK
  <2> QED BY <1>8, <2>2, <2>3 DEF S!Export
<1> HIDE DEF Fine
<1>9. Fine
    BY <1>1, <1>2, <1>3, <1>4, <1>5, <1>6, <1>7, <1>8 DEF S!Next
<1> QED BY <1>9 DEF Fine
-----------------------------------------------------------------------------
(* Subscription links: the theorems.                                                            *)

\* The inductive invariant of the subscription links.
LEMMA SubInvariance == ServicesSpec => []SubInv
<1>1. ServicesInit => SubInv
    BY SubInit DEF ServicesInit
<1>2. SubInv /\ [ServicesNext]_servicesVars => SubInv'
  <2>1. [ServicesNext]_servicesVars => [S!Next]_subVars
      BY DEF ServicesNext, servicesVars, subVars
  <2>2. SubInv /\ [S!Next]_subVars => SubTypes'
      BY TableStep, TabStep, FetchStep DEF SubTypes, TableTypes
  <2> QED BY <2>1, <2>2, TableStep, TabStep, FetchStep DEF SubInv
<1> QED BY <1>1, <1>2, PTL DEF ServicesSpec

\* GET /sub/{token} serves nothing for a link that was replaced, revoked or deleted before the
\* request began, and only nodes that could be exported during it, for any number of accounts.
THEOREM DeadLinksStayDead == ServicesSpec => []DeadLinksServeNothing
<1>1. SubInv => DeadLinksServeNothing
    BY DEF SubInv, FetchLate, FetchCould, DeadLinksServeNothing, S!DeadLinksServeNothing
<1> QED BY <1>1, SubInvariance, PTL

\* A reset through the profile page is carried out a full cooldown after every reset that was
\* stamped before it asked, although check, stamp and reset are three statements, others rewrite
\* the row in between, and the error of the stamp is ignored.
THEOREM CooldownKept == ServicesSpec => ResetsSpaced
<1> DEFINE Spaced == \A t \in Tabs : S!Carried(t) /\ tab[t].seen > 0 => clock - tab[t].seen >= Cooldown
<1>1. SubInv => [Spaced]_S!vars
    BY DEF SubInv, Waited, S!Carried
<1> QED BY <1>1, SubInvariance, PTL DEF ResetsSpaced, S!ResetsSpaced
-----------------------------------------------------------------------------
(* Geolocation.                                                             *)

LookType == [pc : {"idle", "allow", "join", "wait", "fetch", "remove"},
             ip : Addresses \cup {None}, on : Lookups \cup {None}]

\* A goroutine past the cache has an address, and the entry of a call is its own.
GeoInv ==
    /\ G!TypeOK
    /\ \A l \in Lookups : look[l].pc # "idle" => look[l].ip \in Addresses
    /\ \A l \in Lookups : look[l].pc \in {"fetch", "remove"} => inflight[look[l].ip] = l

\* Nobody has called Lookup yet.
LEMMA GeoInit == G!Init => GeoInv
<1> SUFFICES ASSUME G!Init PROVE GeoInv
    OBVIOUS
<1>1. G!Idle \in LookType /\ G!Idle.pc = "idle"
    BY DEF G!Idle, LookType
<1>2. look \in [Lookups -> LookType] /\ \A l \in Lookups : look[l].pc = "idle"
    BY <1>1 DEF G!Init
<1> QED BY <1>2, GeoAssumption DEF G!Init, G!TypeOK, GeoInv, LookType

\* A goroutine that goes on keeps the entries of the others.
LEMMA GeoStep == GeoInv /\ [G!Next]_geoVars => GeoInv'
<1> SUFFICES ASSUME GeoInv, [G!Next]_geoVars PROVE GeoInv'
    OBVIOUS
<1> USE DEF GeoInv
<1>0. /\ cached \subseteq Addresses /\ inflight \in [Addresses -> Lookups \cup {None}]
      /\ count \in 0..MaxPerMinute /\ spent \in 0..Budget /\ closed \subseteq Lookups
      /\ look \in [Lookups -> LookType]
    BY DEF G!TypeOK, LookType
<1>i. G!Idle \in LookType /\ G!Idle.pc = "idle"
    BY DEF G!Idle, LookType
<1>a. ASSUME NEW l \in Lookups, NEW r \in LookType, look' = [look EXCEPT ![l] = r]
      PROVE  look' \in [Lookups -> LookType] /\ look'[l] = r /\ \A m \in Lookups \ {l} : look'[m] = look[m]
    BY <1>0, <1>a
<1>b. ASSUME NEW l \in Lookups, look' = [look EXCEPT ![l] = G!Idle],
             UNCHANGED <<cached, inflight, count, closed, spent>>
      PROVE  GeoInv'
    BY <1>0, <1>i, <1>a, <1>b DEF G!TypeOK, LookType
<1>1. CASE G!NewWindow \/ \E a \in Addresses : G!Expire(a)
    BY <1>0, <1>1, GeoAssumption DEF G!NewWindow, G!Expire, G!Spend, G!TypeOK, LookType
<1>2. ASSUME NEW l \in Lookups, NEW a \in Addresses, G!GetGeo(l, a) PROVE GeoInv'
  <2> DEFINE r == [G!Idle EXCEPT !.pc = "allow", !.ip = a]
  <2>1. r \in LookType /\ r.pc = "allow" /\ r.ip = a
      BY DEF G!Idle, LookType
  <2>2. UNCHANGED <<cached, inflight, count, closed>> /\ spent' \in 0..Budget
      BY <1>0, <1>2, GeoAssumption DEF G!GetGeo, G!Spend
  <2>3. CASE look' = look
      BY <1>0, <2>2, <2>3 DEF G!TypeOK, LookType
  <2>4. CASE look' = [look EXCEPT ![l] = r]
      BY <1>0, <1>a, <2>1, <2>2, <2>4 DEF G!TypeOK, LookType
  <2> QED BY <1>2, <2>3, <2>4 DEF G!GetGeo
<1>3. ASSUME NEW l \in Lookups, G!Allow(l) PROVE GeoInv'
  <2>1. CASE G!Within
    <3> DEFINE r == [look[l] EXCEPT !.pc = "join"]
    <3>1. r \in LookType /\ r.pc = "join" /\ r.ip = look[l].ip /\ look[l].pc = "allow"
        BY <1>0, <1>3 DEF LookType, G!Allow
    <3>2. look' = [look EXCEPT ![l] = r] /\ count' = count + 1
          /\ UNCHANGED <<cached, inflight, closed, spent>>
        BY <1>0, <1>3, <2>1 DEF G!Allow
    <3>3. count' \in 0..MaxPerMinute
        BY <1>0, <2>1, <3>2, GeoAssumption DEF G!Within
    <3> QED BY <1>0, <1>a, <3>1, <3>2, <3>3 DEF G!TypeOK, LookType
  <2>2. CASE ~G!Within
      BY <1>3, <1>b, <2>2 DEF G!Allow
  <2> QED BY <2>1, <2>2
<1>4. ASSUME NEW l \in Lookups, G!Join(l) PROVE GeoInv'
  <2>0. look[l].pc = "join" /\ look[l].ip \in Addresses /\ UNCHANGED <<cached, count, spent>>
      BY <1>4 DEF G!Join
  <2>1. CASE G!Joins(look[l].ip)
    <3> DEFINE r == [look[l] EXCEPT !.pc = "wait", !.on = inflight[look[l].ip]]
    <3>1. r \in LookType /\ r.pc = "wait" /\ r.ip = look[l].ip
      <4>1. look[l] \in LookType /\ inflight[look[l].ip] \in Lookups \cup {None}
          BY <1>0, <2>0
      <4> QED BY <4>1 DEF LookType
    <3>2. look' = [look EXCEPT ![l] = r] /\ UNCHANGED <<inflight, closed>>
        BY <1>0, <1>4, <2>1 DEF G!Join
    <3> QED BY <1>0, <1>a, <2>0, <3>1, <3>2 DEF G!TypeOK, LookType
  <2>2. CASE ~G!Joins(look[l].ip)
    <3> DEFINE r == [look[l] EXCEPT !.pc = "fetch"]
    <3>1. r \in LookType /\ r.pc = "fetch" /\ r.ip = look[l].ip
        BY <1>0 DEF LookType
    <3>2. /\ look' = [look EXCEPT ![l] = r] /\ inflight' = [inflight EXCEPT ![look[l].ip] = l]
          /\ closed' = closed \ {l} /\ inflight[look[l].ip] = None
        BY <1>0, <1>4, <2>2 DEF G!Join, G!Joins
    <3>3. ASSUME NEW m \in Lookups, look'[m].pc \in {"fetch", "remove"} PROVE inflight'[look'[m].ip] = m
      <4>1. CASE m = l
          BY <1>0, <1>a, <2>0, <3>1, <3>2, <4>1
      <4>2. CASE m # l
        <5>1. look'[m] = look[m] /\ look[m].ip \in Addresses /\ inflight[look[m].ip] = m
            BY <1>a, <3>1, <3>2, <3>3, <4>2
        <5>2. look[m].ip # look[l].ip
            BY <3>2, <5>1, GeoAssumption
        <5> QED BY <1>0, <3>2, <5>1, <5>2
      <4> QED BY <4>1, <4>2
    <3> QED BY <1>0, <1>a, <2>0, <3>1, <3>2, <3>3 DEF G!TypeOK, LookType
  <2> QED BY <2>1, <2>2
<1>5. ASSUME NEW l \in Lookups, G!FetchEnds(l) PROVE GeoInv'
  <2> DEFINE r == [look[l] EXCEPT !.pc = "remove"]
  <2>1. r \in LookType /\ r.pc = "remove" /\ r.ip = look[l].ip /\ look[l].pc = "fetch"
      BY <1>0, <1>5 DEF LookType, G!FetchEnds
  <2>2. look' = [look EXCEPT ![l] = r] /\ cached' \subseteq Addresses /\ closed' \subseteq Lookups
        /\ UNCHANGED <<inflight, count, spent>>
      BY <1>0, <1>5 DEF G!FetchEnds, G!Done
  <2> QED BY <1>0, <1>a, <2>1, <2>2 DEF G!TypeOK, LookType
<1>6. ASSUME NEW l \in Lookups, G!Remove(l) PROVE GeoInv'
  <2>1. /\ look' = [look EXCEPT ![l] = G!Idle] /\ inflight' = [inflight EXCEPT ![look[l].ip] = None]
        /\ inflight[look[l].ip] = l /\ UNCHANGED <<cached, count, closed, spent>>
      BY <1>6 DEF G!Remove
  <2>2. ASSUME NEW m \in Lookups, look'[m].pc \in {"fetch", "remove"} PROVE inflight'[look'[m].ip] = m
    <3>1. m # l /\ look'[m] = look[m] /\ look[m].ip \in Addresses /\ inflight[look[m].ip] = m
        BY <1>a, <1>i, <2>1, <2>2
    <3> QED BY <1>0, <2>1, <3>1
  <2> QED BY <1>0, <1>i, <1>a, <2>1, <2>2 DEF G!TypeOK, LookType
<1>7. ASSUME NEW l \in Lookups, G!Released(l) \/ G!HangUp(l) PROVE GeoInv'
    BY <1>7, <1>b DEF G!Released, G!HangUp
<1>8. CASE UNCHANGED geoVars
    BY <1>8 DEF geoVars, G!TypeOK
<1> QED BY <1>1, <1>2, <1>3, <1>4, <1>5, <1>6, <1>7, <1>8 DEF G!Next, G!Step

\* A step of the services is a step of Lookup or leaves its variables alone.
LEMMA GeoFrame == [ServicesNext]_servicesVars => [G!Next]_geoVars
    BY DEF ServicesNext, servicesVars, geoVars

\* The inductive invariant of Lookup.
LEMMA GeoInvariance == ServicesSpec => []GeoInv
<1>1. ServicesInit => GeoInv
    BY GeoInit DEF ServicesInit
<1>2. GeoInv /\ [ServicesNext]_servicesVars => GeoInv'
    BY GeoStep, GeoFrame
<1> QED BY <1>1, <1>2, PTL DEF ServicesSpec

\* The provider is never asked twice at a time for an address, and the entry of the table of
\* calls in flight stays with the Lookup that made it, for any number of goroutines.
THEOREM OneCall == ServicesSpec => []OneCallPerAddress
<1>1. GeoInv => OneCallPerAddress
    BY DEF GeoInv, OneCallPerAddress, G!OneCallPerAddress
<1> QED BY <1>1, GeoInvariance, PTL
-----------------------------------------------------------------------------
(* Probes.                                                                  *)

\* Steps of a goroutine that holds a slot, and all of them.
Holding == P!Running \cup {"reapFail"}
Steps == {"none", "acquire", "busy"} \cup Holding
Holders == {o \in Operations : go[o] \in Holding}

\* Where the sing-box of a probe that nothing has cut off may be running.
BoxTended == \A o \in Operations : box[o] = "running" /\ o \notin lost => go[o] \in {"wait", "fetch"}

\* An operation without a row has no goroutine.
RowFirst == \A o \in Operations : op[o] = "none" => go[o] = "none"

ProbeInv ==
    /\ P!TypeOK /\ RowFirst /\ BoxTended
    /\ slots = Cardinality(Holders) /\ slots <= MaxProbes

\* No operation exists yet.
LEMMA ProbeInit == P!Init => ProbeInv
<1> SUFFICES ASSUME P!Init PROVE ProbeInv
    OBVIOUS
<1>1. Holders = {} /\ P!TypeOK /\ RowFirst /\ BoxTended
    BY ProbeAssumption DEF RowFirst, P!Init, Holders, Holding, P!Running, P!TypeOK, P!Terminal, BoxTended
<1>2. Cardinality(Holders) = 0
    BY <1>1, FS_EmptySet
<1> QED BY <1>1, <1>2, ProbeAssumption DEF ProbeInv, P!Init

\* The types of the goroutines and of what they write.
LEMMA ProbeTypes == P!TypeOK /\ [P!Next]_probeVars /\ slots' \in Nat => P!TypeOK'
<1> SUFFICES ASSUME P!TypeOK, [P!Next]_probeVars, slots' \in Nat PROVE P!TypeOK'
    OBVIOUS
<1> DEFINE Status == {"none", "PENDING", "RUNNING", "gone"} \cup P!Terminal
<1>0. /\ op \in [Operations -> Status] /\ node \in BOOLEAN /\ go \in [Operations -> Steps]
      /\ box \in [Operations -> {"none", "running", "killed", "exited"}]
      /\ exitIP \in Operations \cup {0} /\ losses \in 0..MaxLosses /\ lost \subseteq Operations
    BY DEF P!TypeOK, Steps, Holding
<1>u. ASSUME NEW o \in Operations, NEW s \in Status, P!UpdateOperation(o, s)
      PROVE  op' \in [Operations -> Status] /\ losses' \in 0..MaxLosses /\ lost' \subseteq Operations
    BY <1>0, <1>u, ProbeAssumption DEF P!UpdateOperation, P!CanLose
<1>g. go' \in [Operations -> Steps]
  <2>1. CASE P!Crash \/ P!DeleteNode \/ UNCHANGED probeVars
      BY <1>0, <2>1 DEF P!Crash, P!DeleteNode, probeVars, Steps
  <2>2. ASSUME NEW o \in Operations,
               P!CreateOperation(o) \/ P!SettingsPanic(o) \/ P!Step(o) \/ P!BoxExits(o)
        PROVE  go' \in [Operations -> Steps]
    <3>1. UNCHANGED go \/ \E s \in Steps : go' = [go EXCEPT ![o] = s]
        BY <1>0, <2>2 DEF P!CreateOperation, P!SettingsPanic, P!Step, P!BoxExits, P!SelectSlot, P!Acquire,
           P!TooManyProbes, P!RunProbe, P!Launch, P!WaitReachable, P!Fetch, P!Reap, P!UpsertExitIP,
           P!Finish, P!Release, Steps, Holding, P!Running
    <3> QED BY <1>0, <3>1
  <2> QED BY <2>1, <2>2 DEF P!Next
<1>b. box' \in [Operations -> {"none", "running", "killed", "exited"}]
    BY <1>0 DEF P!Next, P!Crash, P!DeleteNode, P!CreateOperation, P!SettingsPanic, P!Step, P!BoxExits, P!SelectSlot,
       P!TooManyProbes, P!RunProbe, P!Launch, P!WaitReachable, P!Fetch, P!Reap, P!UpsertExitIP,
       P!Finish, P!Release, P!Kill, probeVars
<1>n. node' \in BOOLEAN /\ exitIP' \in Operations \cup {0}
    BY <1>0 DEF P!Next, P!Crash, P!DeleteNode, P!CreateOperation, P!SettingsPanic, P!Step, P!BoxExits, P!SelectSlot,
       P!TooManyProbes, P!RunProbe, P!Launch, P!WaitReachable, P!Fetch, P!Reap, P!UpsertExitIP,
       P!Finish, P!Release, probeVars
<1>o. op' \in [Operations -> Status] /\ losses' \in 0..MaxLosses /\ lost' \subseteq Operations
  <2>1. CASE P!Crash \/ P!DeleteNode \/ UNCHANGED probeVars
      BY <1>0, <2>1, ProbeAssumption DEF P!Crash, P!DeleteNode, P!CanLose, probeVars
  <2>2. ASSUME NEW o \in Operations, P!CreateOperation(o) \/ P!SettingsPanic(o) \/ P!BoxExits(o)
        PROVE  op' \in [Operations -> Status] /\ losses' \in 0..MaxLosses /\ lost' \subseteq Operations
      BY <1>0, <2>2, ProbeAssumption DEF P!CreateOperation, P!SettingsPanic, P!BoxExits, P!CanLose
  <2>3. ASSUME NEW o \in Operations, P!Step(o)
        PROVE  op' \in [Operations -> Status] /\ losses' \in 0..MaxLosses /\ lost' \subseteq Operations
    <3>1. UNCHANGED <<op, losses, lost>> \/ \E s \in Status : P!UpdateOperation(o, s)
        BY <2>3 DEF P!Step, P!SelectSlot, P!TooManyProbes, P!RunProbe, P!Launch, P!WaitReachable, P!Fetch, P!Reap,
           P!UpsertExitIP, P!Finish, P!Release, P!Terminal
    <3> QED BY <1>0, <1>u, <3>1
  <2> QED BY <2>1, <2>2, <2>3 DEF P!Next
<1> QED BY <1>g, <1>b, <1>n, <1>o DEF P!TypeOK, Steps, Holding

\* Only SelectSlot and Release change the set of holders, by one; a crash empties it.
LEMMA ProbeSlots == ProbeInv /\ [P!Next]_probeVars =>
                        slots' \in Nat /\ slots' = Cardinality(Holders') /\ slots' <= MaxProbes
<1> SUFFICES ASSUME ProbeInv, [P!Next]_probeVars
             PROVE  slots' \in Nat /\ slots' = Cardinality(Holders') /\ slots' <= MaxProbes
    OBVIOUS
<1> USE DEF Holding, P!Running
<1>0. /\ go \in [Operations -> Steps] /\ slots \in Nat /\ slots = Cardinality(Holders) /\ slots <= MaxProbes
      /\ MaxProbes \in Nat
    BY ProbeAssumption DEF ProbeInv, P!TypeOK, Steps
<1>f. IsFiniteSet(Holders)
    BY ProbeAssumption, FS_Subset DEF Holders
<1>a. ASSUME UNCHANGED slots, NEW o \in Operations, NEW s, go' = [go EXCEPT ![o] = s], s \in Holding <=> go[o] \in Holding
      PROVE  slots' \in Nat /\ slots' = Cardinality(Holders') /\ slots' <= MaxProbes
  <2>1. Holders' = Holders
      BY <1>0, <1>a DEF Holders
  <2> QED BY <1>0, <1>a, <2>1
<1>1. CASE P!Crash
  <2>1. Holders' = {} /\ slots' = 0
      BY <1>1 DEF P!Crash, Holders
  <2> QED BY <1>0, <2>1, FS_EmptySet
<1>2. CASE UNCHANGED <<go, slots>>
    BY <1>0, <1>2 DEF Holders
<1>3. ASSUME NEW o \in Operations, P!SelectSlot(o), slots < MaxProbes
      PROVE  slots' \in Nat /\ slots' = Cardinality(Holders') /\ slots' <= MaxProbes
  <2>1. Holders' = Holders \cup {o} /\ o \notin Holders /\ slots' = slots + 1
      BY <1>0, <1>3 DEF P!SelectSlot, P!Acquire, Holders
  <2>2. Cardinality(Holders') = Cardinality(Holders) + 1
      BY <1>f, <2>1, FS_AddElement
  <2> QED BY <1>0, <1>3, <2>1, <2>2
<1>4. ASSUME NEW o \in Operations, P!Release(o)
      PROVE  slots' \in Nat /\ slots' = Cardinality(Holders') /\ slots' <= MaxProbes
  <2>1. Holders' = Holders \ {o} /\ o \in Holders /\ slots' = slots - 1
      BY <1>0, <1>4 DEF P!Release, P!Released, Holders
  <2>2. Cardinality(Holders') = Cardinality(Holders) - 1
      BY <1>f, <2>1, FS_RemoveElement
  <2>3. Cardinality(Holders') \in Nat
      BY <1>f, <2>1, FS_RemoveElement, FS_CardinalityType
  <2> QED BY <1>0, <2>1, <2>2, <2>3
<1>5. ASSUME NEW o \in Operations,
             P!CreateOperation(o) \/ P!SettingsPanic(o) \/ P!TooManyProbes(o)
             \/ (P!SelectSlot(o) /\ ~(slots < MaxProbes))
      PROVE  slots' \in Nat /\ slots' = Cardinality(Holders') /\ slots' <= MaxProbes
  <2>1. UNCHANGED slots /\ \E s \in {"acquire", "none", "busy"} : go' = [go EXCEPT ![o] = s]
      BY <1>5 DEF P!CreateOperation, P!SettingsPanic, P!TooManyProbes, P!SelectSlot, P!Acquire
  <2>2. go[o] \notin Holding
      BY <1>5 DEF ProbeInv, RowFirst, P!CreateOperation, P!SettingsPanic, P!TooManyProbes, P!SelectSlot
  <2> QED BY <1>a, <2>1, <2>2
<1>6. ASSUME NEW o \in Operations,
             P!RunProbe(o) \/ P!Launch(o) \/ P!WaitReachable(o) \/ P!Fetch(o) \/ P!Reap(o) \/ P!UpsertExitIP(o)
             \/ P!Finish(o)
      PROVE  slots' \in Nat /\ slots' = Cardinality(Holders') /\ slots' <= MaxProbes
  <2>1. go[o] \in Holding /\ UNCHANGED slots /\ \E s \in Holding : go' = [go EXCEPT ![o] = s]
      BY <1>0, <1>6 DEF P!RunProbe, P!Launch, P!WaitReachable, P!Fetch, P!Reap, P!UpsertExitIP, P!Finish
  <2> QED BY <1>a, <2>1
<1> QED BY <1>1, <1>2, <1>3, <1>4, <1>5, <1>6 DEF P!Next, P!Step, P!DeleteNode, P!BoxExits, probeVars

\* A goroutine follows its row, and a sing-box is running only while its probe looks after it.
LEMMA ProbeBoxes == ProbeInv /\ [P!Next]_probeVars => RowFirst' /\ BoxTended'
<1> SUFFICES ASSUME ProbeInv, [P!Next]_probeVars PROVE RowFirst' /\ BoxTended'
    OBVIOUS
<1>0. /\ go \in [Operations -> Steps] /\ RowFirst /\ BoxTended /\ DOMAIN op = Operations
      /\ box \in [Operations -> {"none", "running", "killed", "exited"}]
    BY DEF ProbeInv, P!TypeOK, Steps, Holding
<1>u. ASSUME NEW o \in Operations, NEW s, s # "none", P!UpdateOperation(o, s)
      PROVE  (\A x \in Operations : op'[x] = "none" => op[x] = "none") /\ lost \subseteq lost'
    BY <1>0, <1>u DEF P!UpdateOperation
<1>1. CASE P!Crash
    BY <1>0, <1>1 DEF P!Crash, RowFirst, BoxTended
<1>2. CASE P!DeleteNode \/ UNCHANGED probeVars
    BY <1>0, <1>2 DEF P!DeleteNode, probeVars, RowFirst, BoxTended
<1>3. ASSUME NEW o \in Operations,
             P!CreateOperation(o) \/ P!SettingsPanic(o) \/ P!SelectSlot(o) \/ P!BoxExits(o)
      PROVE  RowFirst' /\ BoxTended'
    BY <1>0, <1>3 DEF P!CreateOperation, P!SettingsPanic, P!SelectSlot, P!Acquire, P!BoxExits, RowFirst, BoxTended
<1>4. ASSUME NEW o \in Operations, P!TooManyProbes(o) \/ P!RunProbe(o) \/ P!Finish(o)
      PROVE  RowFirst' /\ BoxTended'
  <2>1. (\A x \in Operations : op'[x] = "none" => op[x] = "none") /\ lost \subseteq lost'
      BY <1>u, <1>4 DEF P!TooManyProbes, P!RunProbe, P!Finish
  <2>2. /\ go[o] \notin {"none", "wait", "fetch"} /\ UNCHANGED box
        /\ \A x \in Operations \ {o} : go'[x] = go[x]
      BY <1>0, <1>4 DEF P!TooManyProbes, P!RunProbe, P!Finish
  <2> QED BY <1>0, <2>1, <2>2 DEF RowFirst, BoxTended
<1>5. ASSUME NEW o \in Operations,
             P!Launch(o) \/ P!WaitReachable(o) \/ P!Fetch(o) \/ P!Reap(o) \/ P!UpsertExitIP(o) \/ P!Release(o)
      PROVE  RowFirst' /\ BoxTended'
  <2>1. /\ go[o] # "none" /\ UNCHANGED <<op, lost>>
        /\ \A x \in Operations \ {o} : go'[x] = go[x] /\ box'[x] = box[x]
      BY <1>0, <1>5 DEF P!Launch, P!WaitReachable, P!Fetch, P!Reap, P!UpsertExitIP, P!Release
  <2>2. box'[o] = "running" /\ o \notin lost => go'[o] \in {"wait", "fetch"}
      BY <1>0, <1>5 DEF P!Launch, P!WaitReachable, P!Fetch, P!Reap, P!UpsertExitIP, P!Release, P!Kill, BoxTended
  <2> QED BY <1>0, <2>1, <2>2 DEF RowFirst, BoxTended
<1> QED BY <1>1, <1>2, <1>3, <1>4, <1>5 DEF P!Next, P!Step

\* A step of the services is a step of a probe or leaves its variables alone.
LEMMA ProbeFrame == [ServicesNext]_servicesVars => [P!Next]_probeVars
    BY DEF ServicesNext, servicesVars, probeVars

\* The inductive invariant of the probes.
LEMMA ProbeInvariance == ServicesSpec => []ProbeInv
<1>1. ServicesInit => ProbeInv
    BY ProbeInit DEF ServicesInit
<1>2. ProbeInv /\ [ServicesNext]_servicesVars => ProbeInv'
    BY ProbeFrame, ProbeSlots, ProbeBoxes, ProbeTypes DEF ProbeInv
<1> QED BY <1>1, <1>2, PTL DEF ServicesSpec

\* However runProbe ends, cut off by a panic, a failed write, the deletion of its node or a crash of
\* the panel: probeSem holds one value for each goroutine and never more than MaxProbes, and no
\* sing-box runs without its probe, for any number of operations.
THEOREM ProbesAlwaysCleanUp == ServicesSpec => []ProbesCleanUp
<1>1. ProbeInv => ProbesCleanUp
  <2> SUFFICES ASSUME ProbeInv PROVE ProbesCleanUp
      OBVIOUS
  <2>1. P!SlotsMatchProbes
    <3>1. Holders = {o \in Operations : go[o] \in P!Running \cup {"reapFail"}}
        BY DEF Holders, Holding
    <3>2. P!Cardinality(Holders) = Cardinality(Holders)
        BY DEF P!Cardinality, Cardinality
    <3> QED BY <3>1, <3>2, Zenon DEF ProbeInv, P!SlotsMatchProbes
  <2>2. P!NoBoxLeft
      BY DEF ProbeInv, P!NoBoxLeft, BoxTended
  <2> QED BY <2>1, <2>2 DEF ProbesCleanUp
<1> QED BY <1>1, ProbeInvariance, PTL
-----------------------------------------------------------------------------
(* Rate limiters.                                                           *)

\* The whole seconds of a duration fall short of it by less than a second.
LEMMA WholeSeconds ==
    ASSUME NEW r \in Nat, NEW s \in Nat \ {0}
    PROVE  (r \div s) \in Nat /\ (r \div s) * s + s > r
    OBVIOUS

\* The header announces a number of seconds; at /session no second less than the rest of the window.
LEMMA AnnouncedLasts ==
    ASSUME tick \in Nat, win # None => win \in [count : Nat, start : Nat] /\ win.start <= tick
    PROVE  /\ L!Announced \in Nat /\ L!Announced * Second \in Nat
           /\ route = "session" /\ win # None =>
                  tick + L!Announced * Second + Second >= win.start + Per
<1> USE LimiterAssumption
<1> DEFINE left == L!RetryAfter
           n == L!Announced
<1>1. left \in Nat /\ (win # None => tick + left >= win.start + Per)
    BY DEF L!RetryAfter, L!Opens
<1>2. (left \div Second) \in Nat /\ (left \div Second) * Second + Second > left
  <2> HIDE DEF left
  <2> QED BY <1>1, WholeSeconds
<1>3. n \in Nat /\ (route = "session" => n * Second + Second > left)
  <2>1. CASE route = "sub"
      BY <2>1 DEF L!Announced
  <2>2. CASE route # "sub" /\ left \div Second < 1
    <3>1. n = 1
        BY <2>2 DEF L!Announced
    <3> HIDE DEF left, n
    <3> QED BY <1>1, <1>2, <2>2, <3>1
  <2>3. CASE route # "sub" /\ ~(left \div Second < 1)
    <3>1. n = left \div Second
        BY <2>3 DEF L!Announced
    <3> HIDE DEF left, n
    <3> QED BY <1>2, <3>1
  <2> QED BY <2>1, <2>2, <2>3
<1>4. n * Second \in Nat
  <2> HIDE DEF n
  <2> QED BY <1>3
<1>5. route = "session" /\ win # None => tick + n * Second + Second >= win.start + Per
  <2> HIDE DEF left, n
  <2> QED BY <1>1, <1>3, <1>4
<1> QED BY <1>3, <1>4, <1>5

\* The window opened at start is the one in the map, or was over before that one was opened, or now.
Follows(start) ==
    IF win = None THEN start + Per <= tick ELSE start = win.start \/ start + Per <= win.start

\* What refused clients wait for: windows that are not prolonged, and at /session are over a second
\* after the announced time.
RetryInv ==
    /\ route \in L!Routes /\ tick \in Nat
    /\ win # None => win \in [count : Nat, start : Nat] /\ win.start <= tick
    /\ refused \subseteq Nat /\ \A start \in refused : start <= tick /\ Follows(start)
    /\ retry # None => /\ retry \in [at : Nat, window : Nat] /\ retry.window <= tick
                       /\ Follows(retry.window)
                       /\ route = "session" => retry.at + Second >= retry.window + Per

\* Every step of the limiter keeps it so.
LEMMA RetryStep == RetryInv /\ [L!Next]_limiterVars => RetryInv'
<1> SUFFICES ASSUME RetryInv, [L!Next]_limiterVars PROVE RetryInv'
    OBVIOUS
<1> USE LimiterAssumption DEF RetryInv
<1>1. CASE L!Advance \/ L!SlidingAllow \/ UNCHANGED limiterVars
  <2>1. UNCHANGED <<route, win, refused, retry>> /\ tick' \in {tick, tick + 1}
      BY <1>1 DEF L!Advance, L!SlidingAllow, limiterVars
  <2>2. \A start \in Nat : Follows(start) => Follows(start)'
      BY <2>1 DEF Follows
  <2> QED BY <2>1, <2>2
<1>2. CASE L!GC
  <2>1. UNCHANGED <<route, tick, refused, retry>> /\ win' = None /\ win # None /\ tick - win.start >= Per
      BY <1>2 DEF L!GC, L!Stale
  <2>2. \A start \in Nat : Follows(start) => Follows(start)'
      BY <2>1 DEF Follows
  <2> QED BY <2>1, <2>2
<1>3. CASE L!Allow
  <2>0. UNCHANGED <<route, tick, retry>>
      BY <1>3 DEF L!Allow
  <2>1. CASE L!Opens
    <3>1. win' = [count |-> 1, start |-> tick] /\ refused' = refused
        BY <1>3, <2>1 DEF L!Allow, L!Allowed
    <3>2. win' \in [count : Nat, start : Nat] /\ win'.start = tick
        BY <3>1
    <3>3. \A start \in Nat : Follows(start) => start + Per <= tick
        BY <2>1 DEF L!Opens, Follows
    <3>4. \A start \in Nat : Follows(start) => Follows(start)'
        BY <2>0, <3>2, <3>3 DEF Follows
    <3> QED BY <2>0, <3>1, <3>2, <3>4
  <2>2. CASE ~L!Opens
    <3>1. win \in [count : Nat, start : Nat] /\ win # None
        BY <2>2 DEF L!Opens
    <3>2. win' = [win EXCEPT !.count = @ + 1] /\ refused' \subseteq refused \cup {win.start}
        BY <1>3, <2>2 DEF L!Allow
    <3>3. win' \in [count : Nat, start : Nat] /\ win'.start = win.start
        BY <3>1, <3>2
    <3>4. win' # None
        BY <3>3
    <3>5. Follows(win.start)' /\ \A start \in Nat : Follows(start) => Follows(start)'
        BY <2>0, <3>1, <3>3, <3>4 DEF Follows
    <3> QED BY <2>0, <3>1, <3>2, <3>3, <3>4, <3>5
  <2> QED BY <2>1, <2>2
<1>4. CASE \E start \in refused : L!AnswerRefused(start)
  <2>1. PICK start \in refused : L!AnswerRefused(start)
      BY <1>4
  <2>2. UNCHANGED <<route, tick, win>> /\ refused' \subseteq refused
      BY <2>1 DEF L!AnswerRefused
  <2>3. \A x : Follows(x) => Follows(x)'
      BY <2>2 DEF Follows
  <2>4. PICK wait \in Nat : /\ wait = L!Announced * Second
                            /\ route = "session" /\ win # None => tick + wait + Second >= win.start + Per
      BY AnnouncedLasts
  <2>5. PICK window \in Nat : window = IF win = None THEN start ELSE win.start
      OBVIOUS
  <2>6. retry' = [at |-> tick + wait, window |-> window]
      BY <2>1, <2>4, <2>5 DEF L!AnswerRefused
  <2>7. retry' \in [at : Nat, window : Nat] /\ retry'.at = tick + wait /\ retry'.window = window
      BY <2>6
  <2>8. window <= tick /\ Follows(window) /\ (route = "session" => tick + wait + Second >= window + Per)
      BY <2>4, <2>5 DEF Follows
  <2> QED BY <2>2, <2>3, <2>7, <2>8
<1> QED BY <1>1, <1>2, <1>3, <1>4 DEF L!Next

Events == [at : Nat, opened : Nat, no : Nat]

\* An event of the log was let pass by a window that was open, within its limit.
InWindow(e) ==
    /\ e.opened <= e.at /\ e.at < e.opened + Per /\ e.at <= tick /\ tick - e.at < Per
    /\ e.no \in 1..Limit /\ (e.no = 1 => e.at = e.opened)

\* The window in the map is the latest, and one whose entry was collected is over.
Latest(e) ==
    IF win = None THEN e.opened + Per <= tick
    ELSE (e.opened = win.start /\ e.no <= win.count) \/ e.opened + Per <= win.start

\* Windows do not overlap, and number their events.
FixedInv ==
    /\ win # None => win.count >= 1 /\ win.start <= tick
    /\ fixedLog \subseteq Events
    /\ \A e \in fixedLog : InWindow(e) /\ Latest(e)
    /\ \A e, f \in fixedLog : e.opened = f.opened /\ e.no = f.no => e = f
    /\ \A e, f \in fixedLog : e.opened < f.opened => e.opened + Per <= f.opened

\* Windows follow each other at a distance, whenever GC runs.
LEMMA FixedStep == RetryInv /\ FixedInv /\ [L!Next]_limiterVars => FixedInv'
<1> SUFFICES ASSUME RetryInv, FixedInv, [L!Next]_limiterVars PROVE FixedInv'
    OBVIOUS
<1> USE LimiterAssumption DEF RetryInv
<1>1. CASE L!SlidingAllow \/ (\E start \in refused : L!AnswerRefused(start)) \/ UNCHANGED limiterVars
    BY <1>1 DEF L!SlidingAllow, L!AnswerRefused, limiterVars, FixedInv, InWindow, Latest
<1>2. CASE L!Advance
    BY <1>2 DEF L!Advance, FixedInv, InWindow, Latest, Events
<1>3. CASE L!GC
    BY <1>3 DEF L!GC, L!Stale, FixedInv, InWindow, Latest, Events
<1>4. CASE L!Allow
  <2> DEFINE e0 == [at |-> tick, opened |-> win'.start, no |-> win'.count]
  <2>1. CASE L!Opens
    <3>1. win' = [count |-> 1, start |-> tick] /\ tick' = tick /\ fixedLog' = fixedLog \cup {e0}
        BY <1>4, <2>1 DEF L!Allow, L!Allowed
    <3>2. win' \in [count : Nat, start : Nat] /\ win'.count = 1 /\ win'.start = tick /\ win' # None
      <4>1. [count |-> 1, start |-> tick] # None
          BY LimiterAssumption
      <4> QED BY <3>1, <4>1
    <3>3. e0 \in Events /\ e0.at = tick /\ e0.opened = tick /\ e0.no = 1
        BY <3>2 DEF Events
    <3>4. \A e \in fixedLog : e \in Events /\ e.opened + Per <= tick
        BY <2>1 DEF L!Opens, FixedInv, Latest, Events
    <3> HIDE DEF e0
    <3> QED BY <3>1, <3>2, <3>3, <3>4 DEF FixedInv, InWindow, Latest, Events
  <2>2. CASE ~L!Opens
    <3>1. win # None /\ win \in [count : Nat, start : Nat] /\ tick - win.start < Per
        BY <2>2 DEF L!Opens
    <3>2. win' = [win EXCEPT !.count = @ + 1] /\ tick' = tick
        BY <1>4, <2>2 DEF L!Allow
    <3>3. win' \in [count : Nat, start : Nat] /\ win'.start = win.start /\ win'.count = win.count + 1
        BY <3>1, <3>2
    <3>4. win' # None
        BY <3>3, LimiterAssumption
    <3>5. CASE ~L!Allowed
        BY <1>4, <3>1, <3>2, <3>3, <3>4, <3>5 DEF L!Allow, FixedInv, InWindow, Latest, Events
    <3>6. CASE L!Allowed
      <4>1. fixedLog' = fixedLog \cup {e0} /\ win.count + 1 <= Limit
          BY <1>4, <2>2, <3>6 DEF L!Allow, L!Allowed
      <4>2. e0 \in Events /\ e0.at = tick /\ e0.opened = win.start /\ e0.no = win.count + 1
          BY <3>1, <3>3 DEF Events
      <4> HIDE DEF e0
      <4> QED BY <3>1, <3>2, <3>3, <3>4, <4>1, <4>2 DEF FixedInv, InWindow, Latest, Events
    <3> QED BY <3>5, <3>6
  <2> QED BY <2>1, <2>2
<1> QED BY <1>1, <1>2, <1>3, <1>4 DEF L!Next

\* There are n numbers up to n.
LEMMA UpTo ==
    ASSUME NEW n \in Nat
    PROVE  IsFiniteSet(1..n) /\ Cardinality(1..n) = n
<1>1. 1 \in Int /\ n \in Int /\ (1 > n => n = 0) /\ n - 1 + 1 = n
    OBVIOUS
<1>2. IsFiniteSet(1..n) /\ Cardinality(1..n) = IF 1 > n THEN 0 ELSE n - 1 + 1
    BY <1>1, FS_Interval, Zenon
<1> QED BY <1>1, <1>2

\* At most two windows meet in a span of Per, and the first event of the earlier one is outside.
LEMMA FixedBound ==
    ASSUME RetryInv, FixedInv
    PROVE  IsFiniteSet(fixedLog) /\ Cardinality(fixedLog) <= 2 * Limit - 1
<1> USE LimiterAssumption DEF RetryInv
<1> DEFINE n == 2 * Limit - 1
<1>1. IsFiniteSet(1..n) /\ Cardinality(1..n) = n /\ n \in Nat
  <2>1. n \in Nat
      OBVIOUS
  <2> HIDE DEF n
  <2> QED BY <2>1, UpTo, Zenon
<1>2. ASSUME NEW f \in Injection(fixedLog, 1..n)
      PROVE  IsFiniteSet(fixedLog) /\ Cardinality(fixedLog) <= n
    BY <1>1, <1>2, FS_Injection
<1>3. CASE \A e, f \in fixedLog : e.opened = f.opened
  <2> DEFINE num == [e \in fixedLog |-> e.no]
  <2>1. num \in [fixedLog -> 1..n]
      BY DEF FixedInv, InWindow, Events
  <2>2. \A e, f \in fixedLog : num[e] = num[f] => e = f
      BY <1>3 DEF FixedInv
  <2>3. num \in Injection(fixedLog, 1..n)
      BY <2>1, <2>2 DEF Injection, IsInjective
  <2> QED BY <1>2, <2>3
<1>4. CASE ~ \A e, f \in fixedLog : e.opened = f.opened
  <2>1. PICK lo \in fixedLog, hi \in fixedLog : lo.opened < hi.opened
      BY <1>4 DEF FixedInv, Events
  <2>2. \A e \in fixedLog : e \in Events /\ InWindow(e)
      BY DEF FixedInv
  <2>3. \A e \in fixedLog : e.opened # hi.opened => e.opened = lo.opened /\ e.no >= 2
    <3> SUFFICES ASSUME NEW e \in fixedLog, e.opened # hi.opened
                 PROVE  e.opened = lo.opened /\ e.no >= 2
        OBVIOUS
    <3>1. ~(hi.opened < e.opened)
        BY <2>1, <2>2 DEF FixedInv, InWindow, Events
    <3>2. e.opened + Per <= hi.opened /\ lo.opened + Per <= hi.opened
        BY <2>1, <2>2, <3>1 DEF FixedInv, Events
    <3>3. ~(e.opened < lo.opened)
        BY <2>1, <2>2, <3>2 DEF FixedInv, InWindow, Events
    <3>4. ~(lo.opened < e.opened)
        BY <2>1, <2>2, <3>2 DEF FixedInv, InWindow, Events
    <3>5. e.opened = lo.opened
        BY <2>2, <3>3, <3>4 DEF Events
    <3>6. e.no # 1
        BY <2>2, <3>2 DEF InWindow, Events
    <3> QED BY <2>2, <3>5, <3>6 DEF InWindow, Events
  <2> DEFINE num == [e \in fixedLog |-> IF e.opened = hi.opened THEN e.no ELSE Limit + e.no - 1]
  <2>4. num \in [fixedLog -> 1..n]
      BY <2>2, <2>3 DEF InWindow, Events
  <2>5. \A e, f \in fixedLog : num[e] = num[f] => e = f
    <3> SUFFICES ASSUME NEW e \in fixedLog, NEW f \in fixedLog, num[e] = num[f] PROVE e = f
        OBVIOUS
    <3>1. e.opened = f.opened /\ e.no = f.no
        BY <2>2, <2>3 DEF InWindow, Events
    <3> QED BY <3>1 DEF FixedInv
  <2>6. num \in Injection(fixedLog, 1..n)
      BY <2>4, <2>5 DEF Injection, IsInjective
  <2> QED BY <1>2, <2>6
<1> QED BY <1>3, <1>4

\* The sliding limiter remembers every event of the last Per ticks, under numbers of their own.
SlidingInv ==
    /\ IsFiniteSet(hits) /\ hits \subseteq [at : Nat, no : Nat] /\ Cardinality(hits) <= Limit
    /\ slidingLog = L!Recent
    /\ \A h \in hits : h.at <= tick /\ (h.at = tick => h.no <= Cardinality(L!Recent))

\* windowLimiter.allow forgets only what has left the window; no two attempts share a stamp.
LEMMA SlidingStep ==
    RetryInv /\ SlidingInv /\ [L!Next]_limiterVars =>
        SlidingInv' /\ (slidingLog' # slidingLog /\ tick' = tick => L!Now(slidingLog) \notin slidingLog)
<1> SUFFICES ASSUME RetryInv, SlidingInv, [L!Next]_limiterVars
             PROVE  SlidingInv' /\ (slidingLog' # slidingLog /\ tick' = tick => L!Now(slidingLog) \notin slidingLog)
    OBVIOUS
<1> USE LimiterAssumption DEF RetryInv
<1>c. \A T : L!Cardinality(T) = Cardinality(T)
    BY DEF L!Cardinality, Cardinality
<1>r. /\ L!Recent \subseteq hits /\ IsFiniteSet(L!Recent) /\ Cardinality(L!Recent) \in Nat
      /\ Cardinality(L!Recent) <= Cardinality(hits) /\ Cardinality(hits) \in Nat
  <2>1. L!Recent \in SUBSET hits
      BY DEF L!Recent
  <2> QED BY <2>1, FS_Subset, FS_CardinalityType DEF SlidingInv
<1>1. CASE L!Allow \/ (\E start \in refused : L!AnswerRefused(start)) \/ L!GC \/ UNCHANGED limiterVars
    BY <1>1 DEF L!Allow, L!AnswerRefused, L!GC, limiterVars, SlidingInv, L!Recent
<1>2. CASE L!Advance
  <2>1. hits' = hits /\ tick' = tick + 1
      BY <1>2 DEF L!Advance
  <2>2. slidingLog' = L!Recent'
      BY <1>2, <2>1 DEF L!Advance, L!Recent, SlidingInv
  <2> QED BY <2>1, <2>2 DEF SlidingInv
<1>3. CASE L!SlidingAllow
  <2>0. tick' = tick
      BY <1>3 DEF L!SlidingAllow
  <2>1. CASE Cardinality(L!Recent) >= Limit
    <3>1. hits' = L!Recent /\ slidingLog' = slidingLog
        BY <1>3, <1>c, <2>1 DEF L!SlidingAllow
    <3>2. L!Recent' = L!Recent
        BY <2>0, <3>1 DEF L!Recent
    <3> QED BY <1>r, <2>0, <3>1, <3>2 DEF SlidingInv
  <2>2. CASE ~(Cardinality(L!Recent) >= Limit)
    <3> DEFINE h0 == L!Now(L!Recent)
    <3>1. hits' = L!Recent \cup {h0} /\ slidingLog' = slidingLog \cup {h0} /\ slidingLog = L!Recent
        BY <1>3, <1>c, <2>2 DEF L!SlidingAllow, SlidingInv
    <3>2. h0 \in [at : Nat, no : Nat] /\ h0.at = tick /\ h0.no = Cardinality(L!Recent) + 1
        BY <1>c, <1>r DEF L!Now
    <3>3. h0 \notin L!Recent
        BY <1>r, <3>2 DEF SlidingInv
    <3> HIDE DEF h0
    <3>4. IsFiniteSet(L!Recent \cup {h0}) /\ Cardinality(L!Recent \cup {h0}) = Cardinality(L!Recent) + 1
        BY <1>r, <3>3, FS_AddElement
    <3>5. L!Recent' = L!Recent \cup {h0}
        BY <2>0, <3>1, <3>2 DEF L!Recent
    <3>6. \A h \in hits' : h.at <= tick' /\ (h.at = tick' => h.no <= Cardinality(L!Recent'))
        BY <1>r, <2>0, <3>1, <3>2, <3>4, <3>5 DEF SlidingInv
    <3>7. hits' \subseteq [at : Nat, no : Nat]
        BY <1>r, <3>1, <3>2 DEF SlidingInv
    <3>8. Cardinality(L!Recent) + 1 <= Limit
        BY <1>r, <2>2
    <3>9. SlidingInv'
        BY <3>1, <3>4, <3>5, <3>6, <3>7, <3>8 DEF SlidingInv
    <3>10. L!Now(slidingLog) \notin slidingLog
        BY <3>1, <3>3 DEF h0
    <3> QED BY <3>9, <3>10
  <2> QED BY <2>1, <2>2
<1> QED BY <1>1, <1>2, <1>3 DEF L!Next

LimiterInv == tick \in L!Times /\ RetryInv /\ FixedInv /\ SlidingInv

\* The inductive invariant of the limiters.
LEMMA LimiterInvariance == ServicesSpec => []LimiterInv
<1>1. ServicesInit => LimiterInv
  <2> SUFFICES ASSUME L!Init PROVE LimiterInv
      BY DEF ServicesInit
  <2>1. IsFiniteSet({}) /\ Cardinality({}) = 0
      BY FS_EmptySet
  <2>2. RetryInv /\ FixedInv /\ tick \in L!Times
      BY LimiterAssumption DEF L!Init, L!Routes, RetryInv, FixedInv, L!Times
  <2>3. SlidingInv
      BY <2>1, LimiterAssumption DEF L!Init, SlidingInv, L!Recent
  <2> QED BY <2>2, <2>3 DEF LimiterInv
<1>2. LimiterInv /\ [ServicesNext]_servicesVars => LimiterInv'
  <2>1. [ServicesNext]_servicesVars => [L!Next]_limiterVars
      BY DEF ServicesNext, servicesVars, limiterVars
  <2>2. tick \in L!Times /\ [L!Next]_limiterVars => tick' \in L!Times
      BY LimiterAssumption DEF L!Next, L!Advance, L!Allow, L!AnswerRefused, L!GC, L!SlidingAllow, limiterVars, L!Times
  <2> QED BY <2>1, <2>2, RetryStep, FixedStep, SlidingStep DEF LimiterInv
<1> QED BY <1>1, <1>2, PTL DEF ServicesSpec

\* Limiter.Allow lets fewer than two windows' worth pass in the span of one, whenever GC collects;
\* windowLimiter.allow lets one pass. A client refused with 429 at /session that comes back a second
\* after its Retry-After, which was cut down to whole seconds, finds the window over that it was told
\* of, and one refused at /sub/{token} when Per has passed since the window was opened, whatever that
\* route announces; only a window that another request has opened since can still refuse it. For any
\* limit, window, length of a second and constant of /sub/{token}.
THEOREM LimitsAlwaysHold == ServicesSpec => []LimitsHold
<1>1. LimiterInv => LimitsHold
  <2> SUFFICES ASSUME LimiterInv PROVE LimitsHold
      OBVIOUS
  <2>c. \A T : L!Cardinality(T) = Cardinality(T)
      BY DEF L!Cardinality, Cardinality
  <2>1. L!FixedWindowBound
      BY <2>c, FixedBound DEF LimiterInv, L!FixedWindowBound
  <2>2. L!SlidingWindowBound
    <3>1. L!Recent \in SUBSET hits
        BY DEF L!Recent
    <3>2. Cardinality(L!Recent) <= Cardinality(hits) /\ Cardinality(L!Recent) \in Nat /\ Cardinality(hits) \in Nat
        BY <3>1, FS_Subset, FS_CardinalityType DEF LimiterInv, SlidingInv
    <3> QED BY <2>c, <3>2, LimiterAssumption DEF LimiterInv, SlidingInv, L!SlidingWindowBound
  <2>3. L!RetryAfterSuffices
      BY LimiterAssumption DEF LimiterInv, RetryInv, Follows, L!Routes, L!RetryAfterSuffices, L!WorthAsking, L!Opens
  <2> QED BY <2>1, <2>2, <2>3 DEF LimitsHold
<1> QED BY <1>1, LimiterInvariance, PTL
-----------------------------------------------------------------------------
(* Lists.                                                                   *)

Leading == Sorts \cup {0}

ListTypes ==
    /\ list \in K!Lists /\ rowKey \in [DOMAIN rowKey -> Leading] /\ DOMAIN rowKey \subseteq Rows
    /\ cursor # <<>> => cursor \in Leading \X Rows
    /\ from \in Int /\ to \in Int /\ given \subseteq {"from", "to"}
    /\ matches \subseteq Rows /\ writes \in 0..MaxWrites
    /\ shown \in [Rows -> Nat] /\ still \subseteq DOMAIN rowKey /\ done \in BOOLEAN
    /\ steady \subseteq Rows /\ \A r \in steady : K!Passes(r)

\* Of the rows that stayed in their place, none behind the cursor was shown, and those up to it that
\* passed the filter all along were shown once.
ShownToCursor ==
    \A r \in still :
        /\ shown[r] <= 1
        /\ ~done /\ K!After(r) => shown[r] = 0
        /\ r \in steady /\ (done \/ ~K!After(r)) => shown[r] = 1

\* The order of a list is strict, in both directions.
LEMMA StrictOrder ==
    ASSUME NEW k \in Int \X Int, NEW l \in Int \X Int, NEW m \in Int \X Int
    PROVE  /\ ~K!Before(k, k)
           /\ K!Before(k, l) => ~K!Before(l, k)
           /\ K!Before(k, l) /\ K!Before(l, m) => K!Before(k, m)
    BY DEF K!Before

\* One page, whichever list it is of.
LEMMA PageStep ==
    ASSUME ListTypes, ShownToCursor, K!Page
    PROVE  ListTypes' /\ ShownToCursor'
<1> USE ListingAssumption
<1>c. \A T : K!Cardinality(T) = Cardinality(T)
    BY DEF K!Cardinality, Cardinality
<1>1. ~done /\ UNCHANGED <<list, rowKey, matches, from, to, given, writes, still, steady>>
    BY DEF K!Page
<1>2. PICK page \in SUBSET K!Rest :
        /\ K!IsPage(page, K!Rest)
        /\ shown' = [r \in Rows |-> IF r \in page THEN shown[r] + 1 ELSE shown[r]]
        /\ IF K!More(K!Rest) THEN (\E r \in page : K!IsLast(r, page) /\ cursor' = K!Key(r)) /\ UNCHANGED done
                             ELSE done' = TRUE /\ UNCHANGED cursor
    BY DEF K!Page
<1>3. \A r \in DOMAIN rowKey : K!Key(r) \in Leading \X Rows /\ K!Key(r) \in Int \X Int /\ K!Key(r) # <<>>
    BY DEF K!Key, ListTypes, Leading
<1>4. K!Rest \subseteq DOMAIN rowKey /\ page \subseteq K!Rest
    BY DEF K!Rest
<1>5. \A r \in Rows : shown'[r] = IF r \in page THEN shown[r] + 1 ELSE shown[r]
    BY <1>2
<1>6. \A r \in still : /\ r \in DOMAIN rowKey /\ r \in Rows /\ shown[r] \in Nat
                       /\ r \in K!Rest => K!After(r)
                       /\ r \in steady /\ K!After(r) => r \in K!Rest
    BY DEF ListTypes, K!Rest
<1>d. \A r \in still : shown[r] <= 1 /\ (K!After(r) => shown[r] = 0) /\ (r \in steady /\ ~K!After(r) => shown[r] = 1)
  <2> HIDE DEF K!After
  <2> QED BY <1>1 DEF ShownToCursor
<1>t. shown' \in [Rows -> Nat] /\ \A r \in steady' : K!Passes(r)'
  <2>1. shown' \in [Rows -> Nat]
      BY <1>2 DEF ListTypes
  <2>2. \A r \in steady : K!Passes(r)'
      BY <1>1 DEF ListTypes, K!Passes, K!InRange
  <2> QED BY <1>1, <2>1, <2>2
<1>7. CASE ~K!More(K!Rest)
  <2>1. done' = TRUE /\ cursor' = cursor
      BY <1>2, <1>7
  <2>2. IsFiniteSet(K!Rest) /\ Cardinality(K!Rest) \in Nat
    <3>1. K!Rest \in SUBSET Rows
        BY <1>4 DEF ListTypes
    <3> QED BY <3>1, FS_Subset, FS_CardinalityType
  <2>3. Cardinality(page) <= Cardinality(K!Rest) /\ (Cardinality(page) = Cardinality(K!Rest) => page = K!Rest)
      BY <2>2, FS_Subset
  <2>4. page = K!Rest
      BY <1>2, <1>7, <1>c, <2>2, <2>3 DEF K!IsPage, K!More
  <2>5. ListTypes'
    <3> HIDE DEF K!Passes
    <3> QED BY <1>1, <1>t, <2>1 DEF ListTypes
  <2>6. ShownToCursor'
    <3> SUFFICES ASSUME NEW r \in still PROVE shown'[r] <= 1 /\ (r \in steady => shown'[r] = 1)
        BY <1>1, <2>1 DEF ShownToCursor
    <3> HIDE DEF K!After, K!Rest
    <3>1. shown'[r] = IF r \in page THEN shown[r] + 1 ELSE shown[r]
        BY <1>5, <1>6
    <3> QED BY <1>6, <1>d, <2>4, <3>1
  <2> QED BY <2>5, <2>6
<1>8. CASE K!More(K!Rest)
  <2>1. PICK last \in page : K!IsLast(last, page) /\ cursor' = K!Key(last) /\ done' = done
      BY <1>2, <1>8
  <2>2. ListTypes'
    <3>1. cursor' \in Leading \X Rows
        BY <1>3, <1>4, <2>1
    <3> HIDE DEF K!IsLast, K!Passes
    <3> QED BY <1>1, <1>t, <2>1, <3>1 DEF ListTypes
  <2>3. \A r \in still : K!After(r)' <=> K!Before(K!Key(last), K!Key(r))
      BY <1>1, <1>3, <1>4, <1>6, <2>1 DEF K!After, K!Before, K!Key, K!Descending
  <2>4. \A r \in still : r \in page => ~K!After(r)'
    <3> SUFFICES ASSUME NEW r \in still, r \in page
                 PROVE  ~K!Before(K!Key(last), K!Key(r))
        BY <2>3
    <3> QED BY <1>3, <1>4, <2>1, StrictOrder DEF K!IsLast
  <2>5. \A r \in still : r \in K!Rest \ page => K!After(r)'
      BY <1>2, <2>1, <2>3 DEF K!IsPage
  <2>6. \A r \in still : ~K!After(r) => ~K!After(r)'
    <3> SUFFICES ASSUME NEW r \in still, ~K!After(r)
                 PROVE  ~K!Before(K!Key(last), K!Key(r))
        BY <2>3
    <3>1. cursor # <<>> /\ ~K!Before(cursor, K!Key(r))
        BY DEF K!After
    <3>2. K!Before(cursor, K!Key(last))
        BY <1>4, <2>1, <3>1 DEF K!Rest, K!After
    <3>3. cursor \in Int \X Int
        BY <3>1 DEF ListTypes, Leading
    <3>4. K!Key(last) \in Int \X Int /\ K!Key(r) \in Int \X Int
        BY <1>3, <1>4, <1>6, <2>1
    <3> QED BY <3>1, <3>2, <3>3, <3>4, StrictOrder
  <2>7. ShownToCursor'
    <3> SUFFICES ASSUME NEW r \in still
                 PROVE  /\ shown'[r] <= 1
                        /\ K!After(r)' => shown'[r] = 0
                        /\ r \in steady /\ ~K!After(r)' => shown'[r] = 1
        BY <1>1, <2>1 DEF ShownToCursor
    <3>1. shown'[r] = IF r \in page THEN shown[r] + 1 ELSE shown[r]
        BY <1>5, <1>6
    <3>2. CASE r \in page
      <4>1. K!After(r) /\ ~K!After(r)'
          BY <1>4, <1>6, <2>4, <3>2
      <4>2. shown'[r] = 1
          BY <1>d, <3>1, <3>2, <4>1
      <4> QED BY <4>1, <4>2
    <3>3. CASE r \notin page /\ K!After(r)
      <4>1. r \in steady => K!After(r)'
          BY <1>6, <2>5, <3>3
      <4>2. shown'[r] = 0
          BY <1>d, <3>1, <3>3
      <4> QED BY <4>1, <4>2
    <3>4. CASE r \notin page /\ ~K!After(r)
      <4>1. ~K!After(r)'
          BY <2>6, <3>4
      <4>2. shown'[r] = shown[r]
          BY <3>1, <3>4
      <4> QED BY <1>d, <3>4, <4>1, <4>2
    <3> QED BY <3>2, <3>3, <3>4
  <2> QED BY <2>2, <2>7
<1> QED BY <1>7, <1>8

\* Any other step takes the rows it moves out of still and those it hides out of steady, and leaves the
\* keys of the rest.
LEMMA OthersStand ==
    ASSUME ListTypes, ShownToCursor, UNCHANGED <<list, cursor, shown, done>>,
           still' \subseteq still, steady' \subseteq steady,
           \A r \in still' : rowKey'[r] = rowKey[r]
    PROVE  ShownToCursor'
<1>1. \A r \in still' : K!After(r)' = K!After(r)
    BY DEF K!After, K!Before, K!Key, K!Descending
<1> HIDE DEF K!After
<1> QED BY <1>1 DEF ShownToCursor

\* A row that is put or deleted is no longer still; a row that enters or leaves the filter, or the
\* range, no longer steady.
LEMMA WriteStep ==
    ASSUME ListTypes, ShownToCursor,
           \/ K!SlideRange
           \/ \E r \in Rows : K!EditRow(r) \/ K!DeleteRow(r) \/ \E lead \in Leading : K!PutRow(r, lead)
    PROVE  ListTypes' /\ ShownToCursor'
<1> USE ListingAssumption
<1>1. UNCHANGED <<list, given, cursor, shown, done>> /\ writes' \in 0..MaxWrites
  <2>1. K!Write
      BY DEF K!SlideRange, K!EditRow, K!DeleteRow, K!PutRow
  <2> QED BY <2>1 DEF K!Write, ListTypes
<1>2. CASE K!SlideRange
  <2>1. UNCHANGED <<rowKey, matches, still>> /\ from' \in Int /\ to' \in Int
      BY <1>2 DEF K!SlideRange, ListTypes
  <2>2. steady' \subseteq steady /\ \A r \in steady' : K!Passes(r)'
      BY <1>2 DEF K!SlideRange
  <2>3. ListTypes'
    <3> HIDE DEF K!Passes
    <3> QED BY <1>1, <2>1, <2>2 DEF ListTypes
  <2> QED BY <1>1, <2>1, <2>2, <2>3, OthersStand
<1>3. ASSUME NEW r \in Rows, K!EditRow(r) PROVE ListTypes' /\ ShownToCursor'
  <2>1. UNCHANGED <<rowKey, from, to, still>> /\ steady' = steady \ {r} /\ matches' \subseteq Rows
      BY <1>3 DEF K!EditRow, ListTypes
  <2>2. \A x \in Rows \ {r} : x \in matches' <=> x \in matches
      BY <1>3 DEF K!EditRow
  <2>3. \A x \in steady' : K!Passes(x)'
      BY <1>1, <2>1, <2>2 DEF ListTypes, K!Passes, K!InRange
  <2>4. ListTypes'
    <3> HIDE DEF K!Passes
    <3> QED BY <1>1, <2>1, <2>3 DEF ListTypes
  <2> QED BY <1>1, <2>1, <2>4, OthersStand
<1>4. ASSUME NEW r \in Rows, K!DeleteRow(r) \/ \E lead \in Leading : K!PutRow(r, lead)
      PROVE  ListTypes' /\ ShownToCursor'
  <2>1. UNCHANGED <<matches, from, to, steady>> /\ still' = still \ {r}
      BY <1>4 DEF K!DeleteRow, K!PutRow
  <2>2. /\ rowKey' \in [DOMAIN rowKey' -> Leading] /\ DOMAIN rowKey' \subseteq Rows
        /\ still' \subseteq DOMAIN rowKey'
        /\ \A x \in DOMAIN rowKey \ {r} : rowKey'[x] = rowKey[x]
      BY <1>4, <2>1 DEF K!DeleteRow, K!PutRow, ListTypes
  <2>3. \A x \in steady' : K!Passes(x)'
      BY <1>1, <2>1 DEF ListTypes, K!Passes, K!InRange
  <2>4. ListTypes'
    <3> HIDE DEF K!Passes
    <3> QED BY <1>1, <2>1, <2>2, <2>3 DEF ListTypes
  <2>5. \A x \in still' : rowKey'[x] = rowKey[x]
      BY <2>1, <2>2 DEF ListTypes
  <2> QED BY <1>1, <2>1, <2>4, <2>5, OthersStand
<1> QED BY <1>2, <1>3, <1>4

\* The inductive invariant of a walk.
LEMMA ListInvariance == ServicesSpec => [](ListTypes /\ ShownToCursor)
<1>1. ServicesInit => ListTypes /\ ShownToCursor
  <2> SUFFICES ASSUME K!Init PROVE ListTypes /\ ShownToCursor
      BY DEF ServicesInit
  <2>1. PICK T \in SUBSET Rows : rowKey \in [T -> K!Leads]
      BY DEF K!Init
  <2>2. rowKey \in [DOMAIN rowKey -> Leading] /\ DOMAIN rowKey \subseteq Rows
      BY <2>1 DEF K!Leads, Leading
  <2>3. matches \subseteq Rows
      BY DEF K!Init, K!Filters
  <2>4. ListTypes
    <3>1. list \in K!Lists /\ cursor = <<>> /\ still = DOMAIN rowKey /\ done = FALSE /\ writes = 0
        BY DEF K!Init
    <3>2. shown \in [Rows -> Nat]
        BY DEF K!Init
    <3>3. 0 \in 0..MaxWrites
        BY ListingAssumption
    <3>4. from \in Int /\ to \in Int /\ given \subseteq {"from", "to"}
        BY ListingAssumption DEF K!Init, K!Ends
    <3>5. steady \subseteq Rows /\ \A r \in steady : K!Passes(r)
        BY DEF K!Init
    <3> QED BY <2>2, <2>3, <3>1, <3>2, <3>3, <3>4, <3>5, Zenon DEF ListTypes
  <2>5. ShownToCursor
      BY <2>4 DEF K!Init, ListTypes, ShownToCursor, K!After
  <2> QED BY <2>4, <2>5
<1>2. ListTypes /\ ShownToCursor /\ [ServicesNext]_servicesVars => (ListTypes /\ ShownToCursor)'
  <2>1. [ServicesNext]_servicesVars => [K!Next]_listVars
      BY DEF ServicesNext, servicesVars, listVars
  <2> SUFFICES ASSUME ListTypes, ShownToCursor, [K!Next]_listVars PROVE ListTypes' /\ ShownToCursor'
      BY <2>1
  <2>2. CASE K!Page
      BY <2>2, PageStep
  <2>3. CASE \/ K!SlideRange
             \/ \E r \in Rows : K!EditRow(r) \/ K!DeleteRow(r) \/ \E lead \in Leading : K!PutRow(r, lead)
      BY <2>3, WriteStep
  <2>4. CASE UNCHANGED listVars
    <3>1. ListTypes'
        BY <2>4 DEF listVars, ListTypes, K!Passes, K!InRange
    <3> QED BY <2>4, <3>1, OthersStand DEF listVars
  <2> QED BY <2>2, <2>3, <2>4
      DEF K!Next, K!handleListNodes, K!handleListUsers, K!handleNodeIps, K!handleNodeTraffic, Leading
<1> QED BY <1>1, <1>2, PTL DEF ServicesSpec

\* A walk over the pages shows no row that stayed in its place twice, and at the end has shown all of
\* them that passed the filter of every page, whatever is inserted, deleted, moved or edited between the
\* pages and however the default range of /traffic slides: for any table, range and size of a page.
THEOREM WalkIsComplete == ServicesSpec => []UnmovedShownOnce
<1>1. ListTypes /\ ShownToCursor => UnmovedShownOnce
    BY DEF ListTypes, ShownToCursor, UnmovedShownOnce, K!UnmovedShownOnce
<1> QED BY <1>1, ListInvariance, PTL
-----------------------------------------------------------------------------
(* The type invariant.                                                      *)

\* Every variable of every service keeps its type, for every instance of the services.
THEOREM ServicesTypes == ServicesSpec => []ServicesTypeOK
<1>1. ServicesSpec => []IInv
  <2>1. ServicesInit => IInv
      BY InitIInv DEF ServicesInit
  <2>2. IInv /\ [ServicesNext]_servicesVars => IInv'
    <3>1. [ServicesNext]_servicesVars => [Next]_vars
        BY DEF ServicesNext, servicesVars, vars
    <3> QED BY <3>1, StepIInv
  <2> QED BY <2>1, <2>2, PTL DEF ServicesSpec
<1>2. SubInv => S!TypeOK
  <2> SUFFICES ASSUME SubInv PROVE S!TypeOK
      OBVIOUS
  <2>1. \A u \in Accounts : sub[u] # None =>
           u \in alive /\ sub[u].tok \in Tokens \cup {None} /\ sub[u].last \in 0..MaxClock
      BY DEF SubInv, SubTypes, SubRow, Table, RowsOwned, HasRow
  <2> QED BY <2>1 DEF SubInv, SubTypes, TabType, FetchType, S!TypeOK
<1>3. LimiterInv => L!TypeOK
  <2> SUFFICES ASSUME LimiterInv PROVE L!TypeOK
      OBVIOUS
  <2> USE LimiterAssumption DEF LimiterInv, RetryInv, L!Times
  <2>1. hits \subseteq [at : L!Times, no : Nat] /\ slidingLog \subseteq [at : L!Times, no : Nat]
    <3>1. \A h \in hits : h \in [at : Nat, no : Nat] /\ h.at \in L!Times
        BY DEF SlidingInv
    <3>2. \A h \in hits : h \in [at : L!Times, no : Nat]
        BY <3>1
    <3> QED BY <3>2 DEF SlidingInv, L!Recent
  <2>2. fixedLog \subseteq [at : L!Times, opened : L!Times, no : Nat]
      BY DEF FixedInv, InWindow, Events
  <2>3. win # None => win.count \in Nat /\ win.start \in L!Times
      BY DEF FixedInv
  <2>4. refused \subseteq L!Times /\ (retry # None => retry.at \in Nat /\ retry.window \in L!Times)
      OBVIOUS
  <2> QED BY <2>1, <2>2, <2>3, <2>4 DEF L!TypeOK
<1>4. ListTypes => K!TypeOK
    BY DEF ListTypes, Leading, K!TypeOK
<1>5. /\ IInv /\ SubInv /\ ProbeInv /\ GeoInv /\ LimiterInv /\ ListTypes /\ B!TypeOK
      => ServicesTypeOK
    BY <1>2, <1>3, <1>4 DEF IInv, ProbeInv, GeoInv, ServicesTypeOK
<1> QED BY <1>1, <1>5, SubInvariance, ProbeInvariance, GeoInvariance, LimiterInvariance, ListInvariance, StartupTypes, PTL
===============================================================================
