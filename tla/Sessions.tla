------------------------------ MODULE Sessions -------------------------------
(***************************************************************************)
(* Panel sessions: the users and refresh_tokens tables, auth.Manager, the   *)
(* session handlers of the API and the browser's silent rotation.           *)
(*                                                                          *)
(* A session is one jti. Its access and refresh JWT carry the jti and the    *)
(* claims of the login and stay with the client; the row of the jti in       *)
(* refresh_tokens is what makes them valid. Every store call is one          *)
(* transaction; a handler makes several, and those of concurrent requests    *)
(* interleave.                                                               *)
(***************************************************************************)
EXTENDS Naturals, FiniteSets

CONSTANTS
    UserIDs,     \* values of users.id in use
    RootID,      \* the account DELETE /users refuses to delete
    Tokens,      \* jtis: random, never drawn twice
    Requests,    \* requests that may be in flight together
    None,        \* no user, no token
    AccessTTL, RefreshTTL, CacheTTL,  \* lifetimes, in clock units
    MaxTime,     \* bound: clock
    MaxEdits,    \* bound: account changes and logouts
    MaxAccounts, \* bound: accounts ever created
    MaxChanges   \* bound: both together

ASSUME SessionsAssumption ==
    /\ UserIDs \subseteq Nat \ {0} /\ RootID \in UserIDs
    /\ None \notin UserIDs /\ None \notin Tokens
    /\ {AccessTTL, RefreshTTL, CacheTTL, MaxTime, MaxEdits, MaxAccounts} \subseteq Nat

UserType == [acct : Nat, pwd : Nat, era : Nat]
RowType == [user : UserIDs, revoked : BOOLEAN, exp : Nat]
ClaimType == [user : UserIDs, acct : Nat, pwd : Nat, era : Nat, access : Nat, refresh : Nat]
EntryType == [pair : Tokens, at : Nat]
RequestType ==
    [pc : {"idle", "issue", "rotate", "remember", "recent", "verify", "served", "bounced", "revoke",
           "profile"},
     user : UserIDs \cup {None}, acct : Nat, pwd : Nat,
     jti : Tokens \cup {None}, pair : Tokens \cup {None}]

\* SQL's NULL is no row, and no client holds it.
ASSUME NoneAssumption == None \notin UserType \cup RowType \cup ClaimType \cup EntryType

VARIABLES
    users,   \* users table: None, or the account (acct), its password (pwd) and its era
    rows,    \* refresh_tokens: None, or user, revoked and expiry
    jwt,     \* claims of the issued pair of a jti; None before the draw
    cache,   \* UI.rotated: the pair that replaced a jti and when; None: no entry
    req,     \* requests in flight
    now,
    \* --- history, read by properties only ---
    succ,    \* jtis that have replaced a jti
    edits, accounts

vars == <<users, rows, jwt, cache, req, now, succ, edits, accounts>>

\* A logout or a profile edit that is under way counts as a change.
CanChange ==
    edits + accounts + Cardinality({r \in Requests : req[r].pc \in {"revoke", "profile"}}) < MaxChanges

Idle == [pc |-> "idle", user |-> None, acct |-> 0, pwd |-> 0, jti |-> None, pair |-> None]
-----------------------------------------------------------------------------
\* A row that ReplaceRefreshToken would consume and VerifyAccess accept.
Live(t) == rows[t] # None /\ ~rows[t].revoked /\ rows[t].exp > now

\* VerifyAccess: the JWT's own expiry, then the session's row.
VerifyAccess(t) == now < jwt[t].access /\ Live(t)

\* verify of a refresh JWT.
VerifyRefresh(t) == now < jwt[t].refresh

Unused == {t \in Tokens : jwt[t] = None}

\* newPair: claims for a session of user u that starts now. acct, pwd and era
\* record which account logged in, with which password, and when it was inserted.
Claims(u, acct, pwd, era) ==
    [user |-> u, acct |-> acct, pwd |-> pwd, era |-> era,
     access |-> now + AccessTTL, refresh |-> now + RefreshTTL]

\* Mutant of NewRow: the expiry lies in the past.
NewRowBackdated(u) == [user |-> u, revoked |-> FALSE, exp |-> now - RefreshTTL]

NewRow(u) == [user |-> u, revoked |-> FALSE, exp |-> now + RefreshTTL]

\* Mutant of RevokeUser: the WHERE clause is missing.
RevokeEveryone(u) ==
    [t \in Tokens |-> IF rows[t] # None THEN [rows[t] EXCEPT !.revoked = TRUE] ELSE rows[t]]

\* UPDATE refresh_tokens SET revoked = 1 WHERE user_id = u
RevokeUser(u) ==
    [t \in Tokens |-> IF rows[t] # None /\ rows[t].user = u
                      THEN [rows[t] EXCEPT !.revoked = TRUE] ELSE rows[t]]

\* The panel's first start: the root account, nobody logged in.
Init ==
    /\ users = [u \in UserIDs |-> IF u = RootID THEN [acct |-> 1, pwd |-> 0, era |-> 0] ELSE None]
    /\ rows = [t \in Tokens |-> None]
    /\ jwt = [t \in Tokens |-> None]
    /\ cache = [t \in Tokens |-> None]
    /\ req = [r \in Requests |-> Idle]
    /\ now = 0
    /\ succ = [t \in Tokens |-> {}]
    /\ edits = 0 /\ accounts = 1
-----------------------------------------------------------------------------
(* Login: POST /session.                                                    *)

\* The account is found and bcrypt accepts its password. (A wrong name or
\* password changes nothing.)
LoginLookup(r, u) ==
    /\ req[r].pc = "idle" /\ users[u] # None
    /\ req' = [req EXCEPT ![r] = [Idle EXCEPT !.pc = "issue", !.user = u,
                                              !.acct = users[u].acct, !.pwd = users[u].pwd]]
    /\ UNCHANGED <<users, rows, jwt, cache, now, succ, edits, accounts>>

\* Issue, for a login or after a profile edit: a new jti is registered for the id
\* read above; the foreign key
\* refuses it when no account has that id any more.
LoginIssue(r, t) ==
    /\ req[r].pc = "issue" /\ t \in Unused
    /\ LET u == req[r].user IN
         IF users[u] # None
         THEN /\ rows' = [rows EXCEPT ![t] = NewRow(u)]
              /\ jwt' = [jwt EXCEPT ![t] = Claims(u, req[r].acct, req[r].pwd, users[u].era)]
         ELSE UNCHANGED <<rows, jwt>>
    /\ req' = [req EXCEPT ![r] = Idle]
    /\ UNCHANGED <<users, cache, now, succ, edits, accounts>>
-----------------------------------------------------------------------------
(* Rotation.                                                                *)

\* Mutant of Replaceable: a consumed row can be consumed again.
ReplaceableAgain(old) == rows[old] # None /\ rows[old].exp > now /\ rows[old].user = jwt[old].user

\* ReplaceRefreshToken consumes this row.
Replaceable(old) == Live(old) /\ rows[old].user = jwt[old].user

\* ReplaceRefreshToken: consume the live session old, register new, in one
\* transaction; the new pair carries the claims of the old one.
ReplaceRefreshToken(old, new) ==
    LET c == jwt[old] IN
    /\ rows' = [rows EXCEPT ![old].revoked = TRUE, ![new] = NewRow(c.user)]
    /\ jwt' = [jwt EXCEPT ![new] = Claims(c.user, c.acct, c.pwd, c.era)]
    /\ succ' = [succ EXCEPT ![old] = @ \cup {new}]

\* POST /session/refresh by an API client.
RefreshSession(t, new) ==
    /\ jwt[t] # None /\ VerifyRefresh(t) /\ new \in Unused
    /\ Replaceable(t) /\ ReplaceRefreshToken(t, new)
    /\ UNCHANGED <<users, cache, req, now, edits, accounts>>

\* A browser request whose access token is no longer accepted rotates its
\* refresh cookie; one whose access token is accepted does nothing here.
PageRequest(r, t) ==
    /\ req[r].pc = "idle" /\ jwt[t] # None
    /\ ~VerifyAccess(t) /\ VerifyRefresh(t)
    /\ req' = [req EXCEPT ![r] = [Idle EXCEPT !.pc = "rotate", !.jti = t]]
    /\ UNCHANGED <<users, rows, jwt, cache, now, succ, edits, accounts>>

\* auth.Manager.Rotate: a new pair, ErrRevoked, or a refresh JWT that expired meanwhile.
PageRotate(r) ==
    /\ req[r].pc = "rotate"
    /\ LET t == req[r].jti IN
         \/ /\ VerifyRefresh(t) /\ Replaceable(t)
            /\ \E new \in Unused :
                 /\ ReplaceRefreshToken(t, new)
                 /\ req' = [req EXCEPT ![r].pc = "remember", ![r].pair = new]
         \/ /\ VerifyRefresh(t) /\ ~Replaceable(t)
            /\ req' = [req EXCEPT ![r].pc = "recent"]
            /\ UNCHANGED <<rows, jwt, succ>>
         \/ /\ ~VerifyRefresh(t)
            /\ req' = [req EXCEPT ![r].pc = "bounced"]
            /\ UNCHANGED <<rows, jwt, succ>>
    /\ UNCHANGED <<users, cache, now, edits, accounts>>

\* Mutant of RememberPair: the entry is filed under the new jti.
RememberPairByNew(r) ==
    /\ req[r].pc = "remember"
    /\ cache' = [cache EXCEPT ![req[r].pair] = [pair |-> req[r].pair, at |-> now]]
    /\ req' = [req EXCEPT ![r].pc = "served"]
    /\ UNCHANGED <<users, rows, jwt, now, succ, edits, accounts>>

\* rememberPair: drop the old entries, keep the new one.
RememberPair(r) ==
    /\ req[r].pc = "remember"
    /\ cache' = [t \in Tokens |->
          IF t = req[r].jti THEN [pair |-> req[r].pair, at |-> now]
          ELSE IF cache[t] # None /\ now - cache[t].at > CacheTTL THEN None
          ELSE cache[t]]
    /\ req' = [req EXCEPT ![r].pc = "served"]
    /\ UNCHANGED <<users, rows, jwt, now, succ, edits, accounts>>

\* recentPair: the loser of a race finds the winner's pair, if it is there.
RecentPair(r) ==
    /\ req[r].pc = "recent"
    /\ LET e == cache[req[r].jti] IN
         req' = IF e # None /\ now - e.at <= CacheTTL
                THEN [req EXCEPT ![r].pc = "verify", ![r].pair = e.pair]
                ELSE [req EXCEPT ![r].pc = "bounced"]
    /\ UNCHANGED <<users, rows, jwt, cache, now, succ, edits, accounts>>

\* VerifyAccess of the cached pair.
VerifyCached(r) ==
    /\ req[r].pc = "verify"
    /\ req' = [req EXCEPT ![r].pc = IF VerifyAccess(req[r].pair) THEN "served" ELSE "bounced"]
    /\ UNCHANGED <<users, rows, jwt, cache, now, succ, edits, accounts>>

\* The response is out: served with its pair, or bounced to /login.
Respond(r) ==
    /\ req[r].pc \in {"served", "bounced"}
    /\ req' = [req EXCEPT ![r] = Idle]
    /\ UNCHANGED <<users, rows, jwt, cache, now, succ, edits, accounts>>
-----------------------------------------------------------------------------
(* Logout and account changes.                                              *)

\* DELETE /session: the access token is accepted ...
LogoutVerify(r, t) ==
    /\ req[r].pc = "idle" /\ jwt[t] # None /\ VerifyAccess(t) /\ edits < MaxEdits /\ CanChange
    /\ req' = [req EXCEPT ![r] = [Idle EXCEPT !.pc = "revoke", !.user = jwt[t].user]]
    /\ UNCHANGED <<users, rows, jwt, cache, now, succ, edits, accounts>>

\* ... and RevokeAllRefreshTokens revokes every session of its user.
LogoutRevoke(r) ==
    /\ req[r].pc = "revoke"
    /\ rows' = RevokeUser(req[r].user)
    /\ users' = [users EXCEPT ![req[r].user] = IF @ = None THEN @ ELSE [@ EXCEPT !.era = edits + 1]]
    /\ req' = [req EXCEPT ![r] = Idle]
    /\ edits' = edits + 1
    /\ UNCHANGED <<jwt, cache, now, succ, accounts>>

\* Mutant of UpdateUser: the sessions are left alone.
UpdateUserOnly(u) ==
    /\ users[u] # None /\ edits < MaxEdits /\ CanChange
    /\ users' = [users EXCEPT ![u].pwd = edits + 1, ![u].era = edits + 1]
    /\ edits' = edits + 1
    /\ UNCHANGED <<rows, jwt, cache, req, now, succ, accounts>>

\* PATCH /users: new name or password, and every session revoked, in one transaction.
UpdateUser(u) ==
    /\ users[u] # None /\ edits < MaxEdits /\ CanChange
    /\ users' = [users EXCEPT ![u].pwd = edits + 1, ![u].era = edits + 1]
    /\ rows' = RevokeUser(u)
    /\ edits' = edits + 1
    /\ UNCHANGED <<jwt, cache, req, now, succ, accounts>>

\* The profile form of the web UI: the browser's access token is accepted ...
ProfileVerify(r, t) ==
    /\ req[r].pc = "idle" /\ jwt[t] # None /\ VerifyAccess(t) /\ edits < MaxEdits /\ CanChange
    /\ req' = [req EXCEPT ![r] = [Idle EXCEPT !.pc = "profile", !.user = jwt[t].user,
                                              !.acct = jwt[t].acct]]
    /\ UNCHANGED <<users, rows, jwt, cache, now, succ, edits, accounts>>

\* ... its own account is changed through PATCH /users, which revokes its sessions,
\* and the request goes on to Issue a new one; or the change is refused (a taken
\* name, an account that is gone).
ProfileUpdate(r) ==
    /\ req[r].pc = "profile"
    /\ LET u == req[r].user IN
         \/ /\ users[u] # None
            /\ users' = [users EXCEPT ![u].pwd = edits + 1, ![u].era = edits + 1]
            /\ rows' = RevokeUser(u)
            /\ edits' = edits + 1
            /\ req' = [req EXCEPT ![r].pc = "issue", ![r].pwd = edits + 1]
         \/ /\ req' = [req EXCEPT ![r] = Idle]
            /\ UNCHANGED <<users, rows, edits>>
    /\ UNCHANGED <<jwt, cache, now, succ, accounts>>

\* POST /users: SQLite hands out the largest id in use plus one.
CreateUser(u) ==
    /\ accounts < MaxAccounts /\ CanChange
    /\ u - 1 \in {v \in UserIDs : users[v] # None}
    /\ \A v \in UserIDs : users[v] # None => v < u
    /\ users' = [users EXCEPT ![u] = [acct |-> accounts + 1, pwd |-> edits, era |-> edits]]
    /\ accounts' = accounts + 1
    /\ UNCHANGED <<rows, jwt, cache, req, now, succ, edits>>

\* DELETE /users: the sessions go with the account (ON DELETE CASCADE).
DeleteUser(u) ==
    /\ users[u] # None /\ u # RootID
    /\ users' = [users EXCEPT ![u] = None]
    /\ rows' = [t \in Tokens |-> IF rows[t] # None /\ rows[t].user = u THEN None ELSE rows[t]]
    /\ UNCHANGED <<jwt, cache, req, now, succ, edits, accounts>>

\* DeleteExpiredTokens, run by the hub's maintenance.
Prunable(t) == rows[t] # None /\ rows[t].exp < now

DeleteExpiredTokens ==
    /\ \E t \in Tokens : Prunable(t)
    /\ rows' = [t \in Tokens |-> IF Prunable(t) THEN None ELSE rows[t]]
    /\ UNCHANGED <<users, jwt, cache, req, now, succ, edits, accounts>>

Tick ==
    /\ now < MaxTime
    /\ now' = now + 1
    /\ UNCHANGED <<users, rows, jwt, cache, req, succ, edits, accounts>>

RequestStep(r) ==
    \/ \E u \in UserIDs : LoginLookup(r, u)
    \/ \E t \in Tokens : LoginIssue(r, t) \/ PageRequest(r, t) \/ LogoutVerify(r, t) \/ ProfileVerify(r, t)
    \/ PageRotate(r) \/ RememberPair(r) \/ RecentPair(r) \/ VerifyCached(r)
    \/ Respond(r) \/ LogoutRevoke(r) \/ ProfileUpdate(r)

Next ==
    \/ \E r \in Requests : RequestStep(r)
    \/ \E t, new \in Tokens : RefreshSession(t, new)
    \/ \E u \in UserIDs : UpdateUser(u) \/ CreateUser(u) \/ DeleteUser(u)
    \/ DeleteExpiredTokens
    \/ Tick

Spec == Init /\ [][Next]_vars
-----------------------------------------------------------------------------
(* Properties.                                                              *)

\* Every variable keeps its type.
TypeOK ==
    /\ users \in [UserIDs -> UserType \cup {None}]
    /\ rows \in [Tokens -> RowType \cup {None}]
    /\ jwt \in [Tokens -> ClaimType \cup {None}]
    /\ cache \in [Tokens -> EntryType \cup {None}]
    /\ req \in [Requests -> RequestType]
    /\ succ \in [Tokens -> SUBSET Tokens]
    /\ now \in Nat /\ edits \in Nat /\ accounts \in Nat

\* A refresh token is redeemed at most once, by an API client or a browser tab,
\* however many race for it: ReplaceRefreshToken consumes and registers at once.
OneSuccessor == \A t \in Tokens : Cardinality(succ[t]) <= 1

\* A session that can still be used or rotated was started by a login that was
\* registered after the last logout, rename or password change of its user: no
\* chain of rotations carries a session across a revocation.
NoSurvivors ==
    \A t \in Tokens :
        rows[t] # None /\ ~rows[t].revoked =>
            users[rows[t].user] # None /\ jwt[t].era = users[rows[t].user].era

\* A tab answered out of the rotation cache gets the pair that replaced its own
\* refresh token, whoever rotated it.
ServedWithSuccessor ==
    \A r \in Requests : req[r].pc \in {"verify", "served"} => req[r].pair \in succ[req[r].jti]

\* A session that is still accepted loses its row, or has it changed, only by its
\* own rotation, by a logout or an edit of its own user, or with its account:
\* neither the maintenance that prunes the table nor a change of another user
\* ever ends it.
EndsForCause ==
    [][\A t \in Tokens :
          Live(t) /\ rows'[t] # rows[t] =>
              \/ succ'[t] # succ[t]
              \/ users'[rows[t].user] # users[rows[t].user]]_vars

\* "Changing the user name or the password revokes all sessions of the user; the
\* tokens of a deleted user are invalid at once": a live session was obtained by
\* the account that now has its user id, with the account's present password.
SessionsMatchLogin ==
    \A t \in Tokens : Live(t) =>
        LET u == users[rows[t].user] IN jwt[t].acct = u.acct /\ jwt[t].pwd = u.pwd
==============================================================================
