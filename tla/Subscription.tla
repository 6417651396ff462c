---------------------------- MODULE Subscription -----------------------------
(***************************************************************************)
(* Subscription tokens: GET /sub/{token}, the /subscription endpoints, the     *)
(* buttons of the subscription and profile pages, and the first token a new   *)
(* host gets. One statement of the store is one step; the handlers make       *)
(* several, and those of concurrent requests interleave.                     *)
(***************************************************************************)
EXTENDS Naturals

CONSTANTS
    Accounts,   \* values of users.id
    Tokens,     \* values of randomToken: never drawn twice
    Fetches,    \* GET /sub/{token} requests in flight
    Tabs,       \* browser tabs
    Hosts,      \* rows of the nodes table
    None,       \* no row, no token (the empty string)
    Cooldown,   \* settings.reset_cooldown_minutes
    MaxClock    \* bound: clock

VARIABLES
    alive,      \* accounts in the users table
    sub,        \* user_subscriptions: None, or the token and the time of the last reset
    host,       \* nodes: enabled with an outbound config, disabled, or without config
    fetch, tab, \* requests in flight
    clock,
    \* --- history, read by properties only ---
    dead,       \* tokens that were replaced, revoked or deleted with their account
    stamped     \* when SetResetNow last succeeded for an account; 0: never

vars == <<alive, sub, host, fetch, tab, clock, dead, stamped>>

HostStates == {"ok", "disabled", "bare"}

\* A tab: its step, its account, and (history) the stamp of that account when it was let pass.
Away == [pc |-> "away", user |-> None, seen |-> 0]

NoFetch == [pc |-> "none", tok |-> None, user |-> None, late |-> FALSE, could |-> {}, doc |-> {}]

Drawn == (dead \cup {sub[u].tok : u \in {x \in Accounts : sub[x] # None}}) \ {None}

\* exportableNodes: enabled, with an outbound config that decrypts.
exportableNodes == {h \in Hosts : host[h] = "ok"}

Init ==
    /\ alive = Accounts
    /\ sub = [u \in Accounts |-> None]
    /\ host = [h \in Hosts |-> "ok"]
    /\ fetch = [f \in Fetches |-> NoFetch]
    /\ tab = [t \in Tabs |-> Away]
    /\ clock = 1 /\ dead = {} /\ stamped = [u \in Accounts |-> 0]
-----------------------------------------------------------------------------
\* GetSubscription inserts an empty row at first use; the foreign key refuses it for
\* an account that is gone.
InsertEmpty(u) ==
    IF sub[u] = None THEN [sub EXCEPT ![u] = [tok |-> None, last |-> 0]] ELSE sub

OldToken(u) == IF sub[u] = None THEN {} ELSE {sub[u].tok} \ {None}

\* Mutant of SetSubscriptionToken: ON CONFLICT DO NOTHING.
SetSubscriptionTokenOnce(u, k) ==
    sub' = [sub EXCEPT ![u] = IF @ = None THEN [tok |-> k, last |-> 0] ELSE @]

\* Mutant of SetSubscriptionToken: INSERT OR REPLACE starts a new row.
SetSubscriptionTokenReplace(u, k) == sub' = [sub EXCEPT ![u] = [tok |-> k, last |-> 0]]

\* INSERT ... ON CONFLICT(user_id) DO UPDATE SET token
SetSubscriptionToken(u, k) ==
    sub' = [sub EXCEPT ![u] = [tok |-> k, last |-> IF @ = None THEN 0 ELSE @.last]]

\* UPDATE user_subscriptions SET last_reset_at
SetResetNow(u) ==
    sub' = [sub EXCEPT ![u] = IF @ = None THEN @ ELSE [@ EXCEPT !.last = clock]]

\* POST /subscription/token by an API client or the button of the subscription page.
handleResetSubscriptionToken(u, k) ==
    /\ u \in alive /\ k \notin Drawn
    /\ SetSubscriptionToken(u, k)
    /\ dead' = dead \cup OldToken(u)
    /\ UNCHANGED <<alive, host, fetch, tab, clock, stamped>>

\* DELETE /subscription, from the API and from both pages.
handleDeleteSubscription(u) ==
    /\ u \in alive
    /\ SetSubscriptionToken(u, None)
    /\ dead' = dead \cup OldToken(u)
    /\ UNCHANGED <<alive, host, fetch, tab, clock, stamped>>

\* Deleting an account deletes its row.
DeleteUser(u) ==
    /\ u \in alive
    /\ alive' = alive \ {u} /\ sub' = [sub EXCEPT ![u] = None]
    /\ dead' = dead \cup OldToken(u)
    /\ UNCHANGED <<host, fetch, tab, clock, stamped>>

\* A node row is edited, enabled or disabled.
PatchHost(h) ==
    /\ host' \in {[host EXCEPT ![h] = s] : s \in HostStates \ {host[h]}}
    /\ fetch' = [f \in Fetches |-> [fetch[f] EXCEPT !.could =
                    IF fetch[f].pc \in {"find", "check", "export"} /\ host'[h] = "ok" THEN @ \cup {h} ELSE @]]
    /\ UNCHANGED <<alive, sub, tab, clock, dead, stamped>>

Tick == clock < MaxClock /\ clock' = clock + 1 /\ UNCHANGED <<alive, sub, host, fetch, tab, dead, stamped>>
-----------------------------------------------------------------------------
(* The browser.                                                             *)

\* GET /subscription behind the profile dialog; its buttons are shown with it.
fragUserProfile(t, u) ==
    /\ tab[t].pc \in {"away", "page"} /\ u \in alive
    /\ sub' = InsertEmpty(u)
    /\ tab' = [tab EXCEPT ![t] = [pc |-> "page", user |-> u, seen |-> 0]]
    /\ UNCHANGED <<alive, host, fetch, clock, dead, stamped>>

CoolingDown(u) ==
    sub[u] # None /\ Cooldown > 0 /\ sub[u].last > 0 /\ Cooldown - (clock - sub[u].last) > 0

\* handleUserProfileSubscriptionToken asks GetResetCooldownInfo first; a refusal or an error of
\* the query is a toast.
CheckCooldown(t) ==
    /\ tab[t].pc = "page" /\ tab[t].user \in alive /\ ~CoolingDown(tab[t].user)
    /\ tab' = [tab EXCEPT ![t] = [pc |-> "stamp", user |-> @.user, seen |-> stamped[@.user]]]
    /\ UNCHANGED <<alive, sub, host, fetch, clock, dead, stamped>>

\* The stamp is the clock of this moment. Its error is ignored: the reset follows all the same.
StampReset(t) ==
    /\ tab[t].pc = "stamp"
    /\ \/ /\ SetResetNow(tab[t].user)
          /\ stamped' = [stamped EXCEPT ![tab[t].user] = clock]
       \/ UNCHANGED <<sub, stamped>>
    /\ tab' = [tab EXCEPT ![t].pc = "post"]
    /\ UNCHANGED <<alive, host, fetch, clock, dead>>

\* ensureSubscriptionToken: POST /nodes succeeded and GET /subscription shows no token.
EnsureFirst(t) ==
    /\ tab[t].pc = "page" /\ tab[t].user \in alive
    /\ OldToken(tab[t].user) = {}
    /\ sub' = InsertEmpty(tab[t].user)
    /\ tab' = [tab EXCEPT ![t] = [pc |-> "post", user |-> @.user, seen |-> 0]]
    /\ UNCHANGED <<alive, host, fetch, clock, dead, stamped>>

\* The POST /subscription/token of the tab: the reset itself. It is refused once the account is gone.
PostToken(t, k) ==
    /\ tab[t].pc = "post" /\ k \notin Drawn
    /\ IF tab[t].user \in alive
       THEN SetSubscriptionToken(tab[t].user, k) /\ dead' = dead \cup OldToken(tab[t].user)
       ELSE UNCHANGED <<sub, dead>>
    /\ tab' = [tab EXCEPT ![t] = Away]
    /\ UNCHANGED <<alive, host, fetch, clock, stamped>>
-----------------------------------------------------------------------------
(* GET /sub/{token}.                                                        *)

\* A client holds a link; the limiter lets the request pass (otherwise 429).
StartFetch(f, k) ==
    /\ fetch[f].pc \in {"none", "served"} /\ k \in Drawn
    /\ fetch' = [fetch EXCEPT ![f] = [NoFetch EXCEPT !.pc = "find", !.tok = k, !.late = k \in dead,
                                                     !.could = exportableNodes]]
    /\ UNCHANGED <<alive, sub, host, tab, clock, dead, stamped>>

Owners(k) == {u \in Accounts : sub[u] # None /\ sub[u].tok = k}

NotFound(f) == fetch' = [fetch EXCEPT ![f] = NoFetch]

FindSubscriptionUser(f) ==
    /\ fetch[f].pc = "find"
    /\ \/ \E u \in Owners(fetch[f].tok) : fetch' = [fetch EXCEPT ![f].pc = "check", ![f].user = u]
       \/ Owners(fetch[f].tok) = {} /\ NotFound(f)
    /\ UNCHANGED <<alive, sub, host, tab, clock, dead, stamped>>

\* GetSubscription of that account, and the comparison with its token.
CheckToken(f) ==
    /\ fetch[f].pc = "check"
    /\ LET u == fetch[f].user IN
       IF u \in alive
       THEN /\ sub' = InsertEmpty(u)
            /\ IF sub'[u].tok = fetch[f].tok THEN fetch' = [fetch EXCEPT ![f].pc = "export"]
                                             ELSE NotFound(f)
       ELSE NotFound(f) /\ UNCHANGED sub
    /\ UNCHANGED <<alive, host, tab, clock, dead, stamped>>

\* The document, in one of three formats; 503 when nothing can be exported, 422 for another format.
Export(f) ==
    /\ fetch[f].pc = "export"
    /\ \/ exportableNodes # {} /\ fetch' = [fetch EXCEPT ![f].pc = "served", ![f].doc = exportableNodes]
       \/ NotFound(f)
    /\ UNCHANGED <<alive, sub, host, tab, clock, dead, stamped>>

Next ==
    \/ Tick
    \/ \E h \in Hosts : PatchHost(h)
    \/ \E u \in Accounts : handleDeleteSubscription(u) \/ DeleteUser(u)
    \/ \E u \in Accounts, k \in Tokens : handleResetSubscriptionToken(u, k)
    \/ \E t \in Tabs : CheckCooldown(t) \/ StampReset(t) \/ EnsureFirst(t)
    \/ \E t \in Tabs, u \in Accounts : fragUserProfile(t, u)
    \/ \E t \in Tabs, k \in Tokens : PostToken(t, k)
    \/ \E f \in Fetches, k \in Tokens : StartFetch(f, k)
    \/ \E f \in Fetches : FindSubscriptionUser(f) \/ CheckToken(f) \/ Export(f)

Spec == Init /\ [][Next]_vars
-----------------------------------------------------------------------------
(* Properties.                                                              *)

\* Every variable keeps its type.
TypeOK ==
    /\ alive \subseteq Accounts /\ dead \subseteq Tokens /\ clock \in 1..MaxClock
    /\ \A u \in Accounts : sub[u] # None =>
          u \in alive /\ sub[u].tok \in Tokens \cup {None} /\ sub[u].last \in 0..MaxClock
    /\ host \in [Hosts -> HostStates] /\ stamped \in [Accounts -> 0..MaxClock]
    /\ tab \in [Tabs -> [pc : {"away", "page", "stamp", "post"},
                      user : Accounts \cup {None}, seen : 0..MaxClock]]
    /\ fetch \in [Fetches -> [pc : {"none", "find", "check", "export", "served"},
                              tok : Tokens \cup {None}, user : Accounts \cup {None},
                              late : BOOLEAN, could : SUBSET Hosts, doc : SUBSET Hosts]]

\* Once a reset, a revocation or the deletion of the account has been answered, a request that
\* starts later is served nothing for the old link; what a live link serves are nodes that
\* could be exported at some moment of the request.
DeadLinksServeNothing ==
    \A f \in Fetches : fetch[f].pc = "served" => ~fetch[f].late /\ fetch[f].doc \subseteq fetch[f].could

\* The tab's POST is carried out in this step.
Carried(t) == tab[t].pc = "post" /\ tab'[t].pc # "post" /\ tab[t].user \in alive

\* A reset through the profile page is carried out a full cooldown after every reset of the
\* account that was stamped before this one asked, in this tab or another, whatever API clients,
\* revocations and first tokens have done to the row in between. So two resets in a row are a
\* cooldown apart, less the time the first took from its stamp to its POST. Not bound by it are
\* requests that overlap (both may pass the check), what follows a stamp whose error was ignored,
\* and resets that ask nobody: the API's and EnsureFirst's (seen is 0).
ResetsSpaced ==
    [][\A t \in Tabs : Carried(t) /\ tab[t].seen > 0 => clock - tab[t].seen >= Cooldown]_vars
==============================================================================
