--------------------------- MODULE SessionsProofs ----------------------------
(***************************************************************************)
(* Theorems about Sessions, for any number of accounts, tokens and requests. *)
(*                                                                         *)
(* A refresh token is redeemed at most once because ReplaceRefreshToken     *)
(* consumes the old row in the transaction that registers the new one: a    *)
(* token with a successor has no live row (Consumed), and only a live row    *)
(* is replaced. No session survives a revocation because a revocation        *)
(* touches every row of its user at once, and a rotation copies the era of   *)
(* a row that is still live (NoSurvivors is inductive with the types).       *)
(***************************************************************************)
EXTENDS Sessions, TLAPS, FiniteSetTheorems

\* A request knows its user or its token, and whatever pair it is about to hand
\* out replaced that token.
InFlight(r) ==
    /\ req[r].pc \in {"issue", "revoke", "profile"} => req[r].user \in UserIDs
    /\ req[r].pc \in {"rotate", "recent", "remember", "verify", "served"} => req[r].jti \in Tokens
    /\ req[r].pc \in {"remember", "verify", "served"} => req[r].pair \in succ[req[r].jti]

\* A jti that has not been drawn is in no table.
Undrawn(t) == jwt[t] = None => rows[t] = None /\ succ[t] = {}

\* A token that was redeemed cannot be redeemed again, and was redeemed for one pair.
Consumed(t) ==
    /\ succ[t] # {} => rows[t] = None \/ rows[t].revoked
    /\ \A a, b \in succ[t] : a = b

\* The rotation cache holds successors only.
Cached(t) == cache[t] # None => cache[t].pair \in succ[t]

Chains ==
    /\ \A r \in Requests : InFlight(r)
    /\ \A t \in Tokens : Undrawn(t) /\ Consumed(t) /\ Cached(t)

\* No account was edited later than the last edit: the next edit changes its era.
ErasPast == \A u \in UserIDs : users[u] # None => users[u].era <= edits

IInv == TypeOK /\ Chains /\ NoSurvivors /\ ErasPast
-----------------------------------------------------------------------------
(* Types.                                                                   *)

\* A request that does nothing is well-typed.
LEMMA IdleType == Idle \in RequestType
    BY DEF Idle, RequestType

\* A new row and new claims are well-typed.
LEMMA IssueType ==
    ASSUME TypeOK, NEW u \in UserIDs, NEW a \in Nat, NEW p \in Nat, NEW e \in Nat
    PROVE  NewRow(u) \in RowType /\ Claims(u, a, p, e) \in ClaimType
    BY SessionsAssumption DEF NewRow, Claims, RowType, ClaimType, TypeOK

\* Revoking the sessions of a user leaves well-typed rows.
LEMMA RevokeType ==
    ASSUME TypeOK, NEW u \in UserIDs
    PROVE  RevokeUser(u) \in [Tokens -> RowType \cup {None}]
    BY DEF TypeOK, RevokeUser, RowType

\* Rotation of a well-typed session.
LEMMA ReplaceType ==
    ASSUME TypeOK, NEW old \in Tokens, NEW new \in Tokens, jwt[old] # None, rows[old] # None,
           ReplaceRefreshToken(old, new)
    PROVE  /\ rows' \in [Tokens -> RowType \cup {None}]
           /\ jwt' \in [Tokens -> ClaimType \cup {None}]
           /\ succ' \in [Tokens -> SUBSET Tokens]
<1>1. jwt[old] \in ClaimType /\ rows[old] \in RowType
    BY DEF TypeOK
<1> DEFINE c == jwt[old]
<1>2. c.user \in UserIDs /\ c.acct \in Nat /\ c.pwd \in Nat /\ c.era \in Nat
    BY <1>1 DEF ClaimType
<1>3. NewRow(c.user) \in RowType /\ Claims(c.user, c.acct, c.pwd, c.era) \in ClaimType
    BY <1>2, IssueType
<1>4. [rows[old] EXCEPT !.revoked = TRUE] \in RowType
    BY <1>1 DEF RowType
<1>5. rows' \in [Tokens -> RowType \cup {None}]
    BY <1>3, <1>4 DEF ReplaceRefreshToken, TypeOK
<1>6. jwt' \in [Tokens -> ClaimType \cup {None}]
    BY <1>3 DEF ReplaceRefreshToken, TypeOK
<1>7. succ' \in [Tokens -> SUBSET Tokens]
    BY DEF ReplaceRefreshToken, TypeOK
<1> QED BY <1>5, <1>6, <1>7

\* The panel starts with well-typed tables.
LEMMA TypeInit == Init => TypeOK
<1> SUFFICES ASSUME Init PROVE TypeOK
    OBVIOUS
<1>1. \A u \in UserIDs : users[u] \in UserType \cup {None}
    BY SessionsAssumption DEF Init, UserType
<1>2. users \in [UserIDs -> UserType \cup {None}]
    BY <1>1 DEF Init
<1> QED BY <1>2, IdleType DEF Init, TypeOK

\* A rotated token has been drawn.
LEMMA ReplaceableDrawn ==
    ASSUME Chains, NEW t \in Tokens, Replaceable(t)
    PROVE  rows[t] # None /\ ~rows[t].revoked /\ jwt[t] # None /\ rows[t].user = jwt[t].user
    BY DEF Chains, Undrawn, Replaceable, Live

\* The steps of a request keep every type.
LEMMA TypeRequest ==
    ASSUME TypeOK, Chains, NEW r \in Requests, RequestStep(r)
    PROVE  TypeOK'
<1>0. req[r] \in RequestType
    BY DEF TypeOK
<1>1. ASSUME NEW u \in UserIDs, LoginLookup(r, u) PROVE TypeOK'
  <2>1. users[u] \in UserType
      BY <1>1 DEF LoginLookup, TypeOK
  <2>2. [Idle EXCEPT !.pc = "issue", !.user = u, !.acct = users[u].acct, !.pwd = users[u].pwd]
            \in RequestType
      BY <2>1 DEF Idle, RequestType, UserType
  <2> QED BY <1>1, <2>2 DEF LoginLookup, TypeOK
<1>2. ASSUME NEW t \in Tokens, LoginIssue(r, t) PROVE TypeOK'
  <2>1. req[r].user \in UserIDs
      BY <1>2 DEF LoginIssue, Chains, InFlight
  <2>2. req' \in [Requests -> RequestType]
      BY <1>2, IdleType DEF LoginIssue, TypeOK
  <2>3. CASE users[req[r].user] # None
    <3>1. users[req[r].user] \in UserType
        BY <2>1, <2>3 DEF TypeOK
    <3>2. NewRow(req[r].user) \in RowType
          /\ Claims(req[r].user, req[r].acct, req[r].pwd, users[req[r].user].era) \in ClaimType
        BY <1>0, <2>1, <3>1, IssueType DEF UserType, RequestType
    <3> QED BY <1>2, <2>2, <2>3, <3>2 DEF LoginIssue, TypeOK
  <2>4. CASE users[req[r].user] = None
      BY <1>2, <2>2, <2>4 DEF LoginIssue, TypeOK
  <2> QED BY <2>3, <2>4
<1>3. ASSUME NEW t \in Tokens, PageRequest(r, t) PROVE TypeOK'
  <2>1. [Idle EXCEPT !.pc = "rotate", !.jti = t] \in RequestType
      BY DEF Idle, RequestType
  <2> QED BY <1>3, <2>1 DEF PageRequest, TypeOK
<1>4. ASSUME NEW t \in Tokens, LogoutVerify(r, t) PROVE TypeOK'
  <2>1. jwt[t] \in ClaimType
      BY <1>4 DEF LogoutVerify, TypeOK
  <2>2. [Idle EXCEPT !.pc = "revoke", !.user = jwt[t].user] \in RequestType
      BY <2>1 DEF Idle, RequestType, ClaimType
  <2> QED BY <1>4, <2>2 DEF LogoutVerify, TypeOK
<1>5. CASE PageRotate(r)
  <2>1. req[r].jti \in Tokens
      BY <1>5 DEF PageRotate, Chains, InFlight
  <2>2. \A pc \in {"recent", "bounced"} : [req[r] EXCEPT !.pc = pc] \in RequestType
      BY <1>0 DEF RequestType
  <2>3. ASSUME NEW new \in Unused, Replaceable(req[r].jti), ReplaceRefreshToken(req[r].jti, new),
               req' = [req EXCEPT ![r].pc = "remember", ![r].pair = new]
        PROVE  TypeOK'
    <3>1. new \in Tokens
        BY DEF Unused
    <3>2. rows' \in [Tokens -> RowType \cup {None}] /\ jwt' \in [Tokens -> ClaimType \cup {None}]
          /\ succ' \in [Tokens -> SUBSET Tokens]
        BY <2>1, <2>3, <3>1, ReplaceableDrawn, ReplaceType
    <3>3. [req[r] EXCEPT !.pc = "remember", !.pair = new] \in RequestType
        BY <1>0, <3>1 DEF RequestType
    <3>4. req' \in [Requests -> RequestType]
        BY <2>3, <3>3 DEF TypeOK
    <3> QED BY <1>5, <3>2, <3>4 DEF PageRotate, TypeOK
  <2>4. CASE req' = [req EXCEPT ![r].pc = "recent"] /\ UNCHANGED <<rows, jwt, succ>>
    <3>1. req' \in [Requests -> RequestType]
        BY <2>2, <2>4 DEF TypeOK
    <3> QED BY <1>5, <2>4, <3>1 DEF PageRotate, TypeOK
  <2>5. CASE req' = [req EXCEPT ![r].pc = "bounced"] /\ UNCHANGED <<rows, jwt, succ>>
    <3>1. req' \in [Requests -> RequestType]
        BY <2>2, <2>5 DEF TypeOK
    <3> QED BY <1>5, <2>5, <3>1 DEF PageRotate, TypeOK
  <2> QED BY <1>5, <2>3, <2>4, <2>5 DEF PageRotate
<1>6. CASE RememberPair(r)
  <2>1. req[r].jti \in Tokens /\ req[r].pair \in Tokens
      BY <1>6 DEF RememberPair, Chains, InFlight, TypeOK
  <2>2. [pair |-> req[r].pair, at |-> now] \in EntryType
      BY <2>1 DEF EntryType, TypeOK
  <2>3. cache' \in [Tokens -> EntryType \cup {None}]
      BY <1>6, <2>2 DEF RememberPair, TypeOK
  <2>4. [req[r] EXCEPT !.pc = "served"] \in RequestType
      BY <1>0 DEF RequestType
  <2> QED BY <1>6, <2>3, <2>4 DEF RememberPair, TypeOK
<1>7. CASE RecentPair(r)
  <2>1. req[r].jti \in Tokens
      BY <1>7 DEF RecentPair, Chains, InFlight
  <2>2. [req[r] EXCEPT !.pc = "bounced"] \in RequestType
      BY <1>0 DEF RequestType
  <2>3. ASSUME cache[req[r].jti] # None
        PROVE  [req[r] EXCEPT !.pc = "verify", !.pair = cache[req[r].jti].pair] \in RequestType
    <3>1. cache[req[r].jti] \in EntryType
        BY <2>1, <2>3 DEF TypeOK
    <3> QED BY <1>0, <3>1 DEF RequestType, EntryType
  <2>4. req' \in [Requests -> RequestType]
      BY <1>7, <2>2, <2>3 DEF RecentPair, TypeOK
  <2> QED BY <1>7, <2>4 DEF RecentPair, TypeOK
<1>8. CASE VerifyCached(r)
  <2>1. \A pc \in {"served", "bounced"} : [req[r] EXCEPT !.pc = pc] \in RequestType
      BY <1>0 DEF RequestType
  <2>2. req' \in [Requests -> RequestType]
      BY <1>8, <2>1 DEF VerifyCached, TypeOK
  <2> QED BY <1>8, <2>2 DEF VerifyCached, TypeOK
<1>9. CASE Respond(r)
    BY <1>9, IdleType DEF Respond, TypeOK
<1>10. CASE LogoutRevoke(r)
  <2>1. req[r].user \in UserIDs
      BY <1>10 DEF LogoutRevoke, Chains, InFlight
  <2>2. rows' \in [Tokens -> RowType \cup {None}]
      BY <1>10, <2>1, RevokeType DEF LogoutRevoke
  <2>3. users[req[r].user] # None => [users[req[r].user] EXCEPT !.era = edits + 1] \in UserType
      BY <2>1 DEF TypeOK, UserType
  <2>4. users' \in [UserIDs -> UserType \cup {None}]
      BY <1>10, <2>1, <2>3 DEF LogoutRevoke, TypeOK
  <2> QED BY <1>10, <2>2, <2>4, IdleType DEF LogoutRevoke, TypeOK
<1>11. ASSUME NEW t \in Tokens, ProfileVerify(r, t) PROVE TypeOK'
  <2>1. jwt[t] \in ClaimType
      BY <1>11 DEF ProfileVerify, TypeOK
  <2>2. [Idle EXCEPT !.pc = "profile", !.user = jwt[t].user, !.acct = jwt[t].acct] \in RequestType
      BY <2>1 DEF Idle, RequestType, ClaimType
  <2> QED BY <1>11, <2>2 DEF ProfileVerify, TypeOK
<1>12. CASE ProfileUpdate(r)
  <2>1. req[r].user \in UserIDs
      BY <1>12 DEF ProfileUpdate, Chains, InFlight
  <2> DEFINE u == req[r].user
  <2>2. CASE /\ users[u] # None
             /\ users' = [users EXCEPT ![u].pwd = edits + 1, ![u].era = edits + 1]
             /\ rows' = RevokeUser(u)
             /\ edits' = edits + 1
             /\ req' = [req EXCEPT ![r].pc = "issue", ![r].pwd = edits + 1]
    <3>1. users[u] \in UserType /\ edits + 1 \in Nat
        BY <2>1, <2>2 DEF TypeOK
    <3>2. \A e \in Nat : [users[u] EXCEPT !.pwd = e, !.era = e] \in UserType
        BY <3>1 DEF UserType
    <3>3. users' \in [UserIDs -> UserType \cup {None}]
        BY <2>1, <2>2, <3>1, <3>2 DEF TypeOK
    <3>4. rows' \in [Tokens -> RowType \cup {None}]
        BY <2>1, <2>2, RevokeType
    <3>5. \A e \in Nat : [req[r] EXCEPT !.pc = "issue", !.pwd = e] \in RequestType
        BY <1>0 DEF RequestType
    <3>6. req' \in [Requests -> RequestType]
        BY <2>2, <3>1, <3>5 DEF TypeOK
    <3> QED BY <1>12, <2>2, <3>1, <3>3, <3>4, <3>6 DEF ProfileUpdate, TypeOK
  <2>3. CASE req' = [req EXCEPT ![r] = Idle] /\ UNCHANGED <<users, rows, edits>>
      BY <1>12, <2>3, IdleType DEF ProfileUpdate, TypeOK
  <2> QED BY <1>12, <2>2, <2>3 DEF ProfileUpdate
<1> QED BY <1>1, <1>2, <1>3, <1>4, <1>5, <1>6, <1>7, <1>8, <1>9, <1>10, <1>11, <1>12
    DEF RequestStep

\* Every step keeps every type.
LEMMA TypeStep ==
    ASSUME TypeOK, Chains, [Next]_vars
    PROVE  TypeOK'
<1>1. CASE \E r \in Requests : RequestStep(r)
    BY <1>1, TypeRequest
<1>2. ASSUME NEW t \in Tokens, NEW new \in Tokens, RefreshSession(t, new) PROVE TypeOK'
  <2>1. rows' \in [Tokens -> RowType \cup {None}] /\ jwt' \in [Tokens -> ClaimType \cup {None}]
        /\ succ' \in [Tokens -> SUBSET Tokens]
      BY <1>2, ReplaceableDrawn, ReplaceType DEF RefreshSession
  <2> QED BY <1>2, <2>1 DEF RefreshSession, TypeOK
<1>3. ASSUME NEW u \in UserIDs, UpdateUser(u) PROVE TypeOK'
  <2>0. users[u] \in UserType /\ edits + 1 \in Nat
      BY <1>3 DEF UpdateUser, TypeOK
  <2>1. \A e \in Nat : [users[u] EXCEPT !.pwd = e, !.era = e] \in UserType
      BY <2>0 DEF UserType
  <2>2. users' \in [UserIDs -> UserType \cup {None}]
      BY <1>3, <2>0, <2>1 DEF UpdateUser, TypeOK
  <2>3. rows' \in [Tokens -> RowType \cup {None}]
      BY <1>3, RevokeType DEF UpdateUser
  <2> QED BY <1>3, <2>2, <2>3 DEF UpdateUser, TypeOK
<1>4. ASSUME NEW u \in UserIDs, CreateUser(u) PROVE TypeOK'
  <2>1. [acct |-> accounts + 1, pwd |-> edits, era |-> edits] \in UserType
      BY DEF TypeOK, UserType
  <2> QED BY <1>4, <2>1 DEF CreateUser, TypeOK
<1>5. ASSUME NEW u \in UserIDs, DeleteUser(u) PROVE TypeOK'
    BY <1>5 DEF DeleteUser, TypeOK
<1>6. CASE DeleteExpiredTokens
    BY <1>6 DEF DeleteExpiredTokens, TypeOK
<1>7. CASE Tick
    BY <1>7 DEF Tick, TypeOK
<1>8. CASE UNCHANGED vars
    BY <1>8 DEF vars, TypeOK
<1> QED BY <1>1, <1>2, <1>3, <1>4, <1>5, <1>6, <1>7, <1>8 DEF Next
-----------------------------------------------------------------------------
(* Chains of rotations.                                                     *)

\* Nothing has been drawn, redeemed or cached at the start.
LEMMA ChainsInit == Init => Chains
    BY DEF Init, Chains, InFlight, Undrawn, Consumed, Cached, Idle

\* A rotation consumes a token that had no successor and gives it one.
LEMMA ReplaceChains ==
    ASSUME TypeOK, Chains, NEW old \in Tokens, NEW new \in Unused,
           Replaceable(old), ReplaceRefreshToken(old, new)
    PROVE  /\ new \in succ'[old]
           /\ \A t \in Tokens : succ[t] \subseteq succ'[t]
           /\ \A t \in Tokens : Undrawn(t)' /\ Consumed(t)'
<1>1. new \in Tokens /\ jwt[new] = None /\ rows[new] = None /\ succ[new] = {}
    BY DEF Unused, Chains, Undrawn
<1>2. rows[old] # None /\ ~rows[old].revoked /\ jwt[old] # None
    BY ReplaceableDrawn
<1>3. rows[old] \in RowType /\ jwt[old] \in ClaimType /\ old # new
    BY <1>1, <1>2 DEF TypeOK
<1>4. succ[old] = {}
    BY <1>2 DEF Chains, Consumed
<1>5. succ' = [succ EXCEPT ![old] = {new}]
    BY <1>4 DEF ReplaceRefreshToken
<1>6. new \in succ'[old] /\ \A t \in Tokens : succ[t] \subseteq succ'[t]
    BY <1>4, <1>5 DEF TypeOK
<1>7. rows'[old].revoked
    BY <1>3 DEF ReplaceRefreshToken, TypeOK, RowType
<1>8. \A t \in Tokens : t # old /\ t # new => rows'[t] = rows[t] /\ jwt'[t] = jwt[t]
    BY DEF ReplaceRefreshToken, TypeOK
<1>9. jwt'[old] = jwt[old] /\ jwt'[new] # None
  <2>1. jwt[old].user \in UserIDs /\ jwt[old].acct \in Nat /\ jwt[old].pwd \in Nat /\ jwt[old].era \in Nat
      BY <1>3 DEF ClaimType
  <2>2. Claims(jwt[old].user, jwt[old].acct, jwt[old].pwd, jwt[old].era) \in ClaimType
      BY <2>1, IssueType
  <2> QED BY <1>1, <1>3, <2>2, NoneAssumption DEF ReplaceRefreshToken, TypeOK
<1>10. \A t \in Tokens : Undrawn(t)'
    BY <1>1, <1>2, <1>5, <1>8, <1>9 DEF Chains, Undrawn, TypeOK
<1>11. \A t \in Tokens : Consumed(t)'
    BY <1>1, <1>3, <1>5, <1>7, <1>8 DEF Chains, Consumed, TypeOK
<1> QED BY <1>6, <1>10, <1>11

\* Rows that disappear or are revoked, and sessions of other accounts, leave the
\* chains as they are.
LEMMA QuietChains ==
    ASSUME TypeOK, Chains, UNCHANGED <<jwt, succ, cache>>,
           \A t \in Tokens : \/ rows'[t] = None
                             \/ rows[t] # None /\ (rows[t].revoked => rows'[t].revoked)
    PROVE  \A t \in Tokens : Undrawn(t)' /\ Consumed(t)' /\ Cached(t)'
    BY DEF Chains, Undrawn, Consumed, Cached

\* The steps of a request keep the chains.
LEMMA ChainsRequest ==
    ASSUME TypeOK, Chains, NEW r \in Requests, RequestStep(r)
    PROVE  Chains'
<1>0. req[r] \in RequestType /\ InFlight(r)
    BY DEF TypeOK, Chains
<1>a. ASSUME req' = [req EXCEPT ![r] = req'[r]], \A t \in Tokens : succ[t] \subseteq succ'[t]
      PROVE  \A q \in Requests \ {r} : InFlight(q)'
    BY <1>a DEF Chains, InFlight, TypeOK
<1>b. ASSUME UNCHANGED <<rows, jwt, succ, cache>>
      PROVE  \A t \in Tokens : Undrawn(t)' /\ Consumed(t)' /\ Cached(t)'
    BY <1>b DEF Chains, Undrawn, Consumed, Cached
<1>c. ASSUME req' = [req EXCEPT ![r] = Idle] PROVE InFlight(r)'
    BY <1>c DEF InFlight, Idle, TypeOK
<1>1. ASSUME NEW u \in UserIDs, LoginLookup(r, u) PROVE Chains'
  <2>1. InFlight(r)'
      BY <1>1 DEF LoginLookup, InFlight, Idle, TypeOK
  <2> QED BY <1>1, <1>a, <1>b, <2>1 DEF LoginLookup, Chains, TypeOK
<1>2. ASSUME NEW t \in Tokens, LoginIssue(r, t) PROVE Chains'
  <2>1. req' = [req EXCEPT ![r] = req'[r]] /\ InFlight(r)'
      BY <1>2, <1>c DEF LoginIssue, TypeOK
  <2>2. \A q \in Requests : InFlight(q)'
      BY <1>2, <1>a, <2>1 DEF LoginIssue
  <2>3. jwt[t] = None /\ rows[t] = None /\ succ[t] = {}
      BY <1>2 DEF LoginIssue, Unused, Chains, Undrawn
  <2>4. \A s \in Tokens : Undrawn(s)' /\ Consumed(s)' /\ Cached(s)'
    <3>1. CASE users[req[r].user] = None
        BY <1>2, <1>b, <3>1 DEF LoginIssue
    <3>2. CASE users[req[r].user] # None
      <4>1. req[r].user \in UserIDs
          BY <1>0, <1>2 DEF LoginIssue, InFlight
      <4>2. users[req[r].user].era \in Nat
          BY <3>2, <4>1 DEF TypeOK, UserType
      <4>3. Claims(req[r].user, req[r].acct, req[r].pwd, users[req[r].user].era) # None
          BY <1>0, <4>1, <4>2, IssueType, NoneAssumption DEF RequestType
      <4>4. jwt'[t] # None /\ \A s \in Tokens \ {t} : jwt'[s] = jwt[s] /\ rows'[s] = rows[s]
          BY <1>2, <3>2, <4>3 DEF LoginIssue, TypeOK
      <4> QED BY <1>2, <2>3, <4>4 DEF LoginIssue, Chains, Undrawn, Consumed, Cached
    <3> QED BY <3>1, <3>2
  <2> QED BY <2>2, <2>4 DEF Chains
<1>3. ASSUME NEW t \in Tokens, PageRequest(r, t) PROVE Chains'
  <2>1. InFlight(r)'
      BY <1>3 DEF PageRequest, InFlight, Idle, TypeOK
  <2> QED BY <1>3, <1>a, <1>b, <2>1 DEF PageRequest, Chains, TypeOK
<1>4. ASSUME NEW t \in Tokens, LogoutVerify(r, t) PROVE Chains'
  <2>1. jwt[t] \in ClaimType
      BY <1>4 DEF LogoutVerify, TypeOK
  <2>2. InFlight(r)'
      BY <1>4, <2>1 DEF LogoutVerify, InFlight, Idle, TypeOK, ClaimType
  <2> QED BY <1>4, <1>a, <1>b, <2>2 DEF LogoutVerify, Chains, TypeOK
<1>5. CASE PageRotate(r)
  <2>1. req[r].jti \in Tokens
      BY <1>0, <1>5 DEF PageRotate, InFlight
  <2>2. ASSUME NEW new \in Unused, Replaceable(req[r].jti), ReplaceRefreshToken(req[r].jti, new),
               req' = [req EXCEPT ![r].pc = "remember", ![r].pair = new]
        PROVE  Chains'
    <3>1. /\ new \in succ'[req[r].jti]
          /\ \A t \in Tokens : succ[t] \subseteq succ'[t]
          /\ \A t \in Tokens : Undrawn(t)' /\ Consumed(t)'
        BY <2>1, <2>2, ReplaceChains
    <3>2. \A t \in Tokens : Cached(t)'
        BY <1>5, <3>1 DEF PageRotate, Chains, Cached
    <3>3. InFlight(r)'
        BY <1>0, <2>1, <2>2, <3>1 DEF InFlight, TypeOK, RequestType
    <3>4. \A q \in Requests \ {r} : InFlight(q)'
        BY <1>a, <2>2, <3>1 DEF TypeOK
    <3> QED BY <3>1, <3>2, <3>3, <3>4 DEF Chains
  <2>3. ASSUME NEW pc \in {"recent", "bounced"}, req' = [req EXCEPT ![r].pc = pc],
               UNCHANGED <<rows, jwt, succ>>
        PROVE  Chains'
    <3>1. InFlight(r)'
        BY <1>0, <2>1, <2>3 DEF InFlight, TypeOK, RequestType
    <3> QED BY <1>5, <1>a, <1>b, <2>3, <3>1 DEF PageRotate, Chains, TypeOK
  <2> QED BY <1>5, <2>2, <2>3 DEF PageRotate
<1>6. CASE RememberPair(r)
  <2>1. req[r].jti \in Tokens /\ req[r].pair \in succ[req[r].jti]
      BY <1>0, <1>6 DEF RememberPair, InFlight
  <2>2. InFlight(r)'
      BY <1>0, <1>6, <2>1 DEF RememberPair, InFlight, TypeOK, RequestType
  <2>3. \A t \in Tokens : cache'[t] # None => cache'[t].pair \in succ[t]
      BY <1>6, <2>1 DEF RememberPair, Chains, Cached
  <2>4. \A t \in Tokens : Undrawn(t)' /\ Consumed(t)' /\ Cached(t)'
      BY <1>6, <2>3 DEF RememberPair, Chains, Undrawn, Consumed, Cached
  <2> QED BY <1>6, <1>a, <2>2, <2>4 DEF RememberPair, Chains, TypeOK
<1>7. CASE RecentPair(r)
  <2>1. req[r].jti \in Tokens
      BY <1>0, <1>7 DEF RecentPair, InFlight
  <2>2. cache[req[r].jti] # None => cache[req[r].jti].pair \in succ[req[r].jti]
      BY <2>1 DEF Chains, Cached
  <2>3. InFlight(r)'
      BY <1>0, <1>7, <2>1, <2>2 DEF RecentPair, InFlight, TypeOK, RequestType
  <2> QED BY <1>7, <1>a, <1>b, <2>3 DEF RecentPair, Chains, TypeOK
<1>8. CASE VerifyCached(r)
  <2>1. InFlight(r)'
      BY <1>0, <1>8 DEF VerifyCached, InFlight, TypeOK, RequestType
  <2> QED BY <1>8, <1>a, <1>b, <2>1 DEF VerifyCached, Chains, TypeOK
<1>9. CASE Respond(r)
    BY <1>9, <1>a, <1>b, <1>c DEF Respond, Chains, TypeOK
<1>10. CASE LogoutRevoke(r)
  <2>1. \A t \in Tokens : Undrawn(t)' /\ Consumed(t)' /\ Cached(t)'
    <3>1. \A t \in Tokens : \/ rows'[t] = None
                            \/ rows[t] # None /\ (rows[t].revoked => rows'[t].revoked)
        BY <1>10 DEF LogoutRevoke, RevokeUser, TypeOK, RowType
    <3> QED BY <1>10, <3>1, QuietChains DEF LogoutRevoke
  <2> QED BY <1>10, <1>a, <1>c, <2>1 DEF LogoutRevoke, Chains, TypeOK
<1>11. ASSUME NEW t \in Tokens, ProfileVerify(r, t) PROVE Chains'
  <2>1. jwt[t] \in ClaimType
      BY <1>11 DEF ProfileVerify, TypeOK
  <2>2. InFlight(r)'
      BY <1>11, <2>1 DEF ProfileVerify, InFlight, Idle, TypeOK, ClaimType
  <2> QED BY <1>11, <1>a, <1>b, <2>2 DEF ProfileVerify, Chains, TypeOK
<1>12. CASE ProfileUpdate(r)
  <2>1. \A t \in Tokens : \/ rows'[t] = None
                          \/ rows[t] # None /\ (rows[t].revoked => rows'[t].revoked)
      BY <1>12 DEF ProfileUpdate, RevokeUser, TypeOK, RowType
  <2>2. \A t \in Tokens : Undrawn(t)' /\ Consumed(t)' /\ Cached(t)'
      BY <1>12, <2>1, QuietChains DEF ProfileUpdate
  <2>3. InFlight(r)'
      BY <1>0, <1>12, <1>c DEF ProfileUpdate, InFlight, TypeOK, RequestType
  <2>4. req' = [req EXCEPT ![r] = req'[r]]
      BY <1>12 DEF ProfileUpdate, TypeOK
  <2> QED BY <1>12, <1>a, <2>2, <2>3, <2>4 DEF ProfileUpdate, Chains
<1> QED BY <1>1, <1>2, <1>3, <1>4, <1>5, <1>6, <1>7, <1>8, <1>9, <1>10, <1>11, <1>12
    DEF RequestStep

\* Every step keeps the chains.
LEMMA ChainsStep ==
    ASSUME TypeOK, Chains, [Next]_vars
    PROVE  Chains'
<1>a. ASSUME UNCHANGED req, \A t \in Tokens : succ[t] \subseteq succ'[t]
      PROVE  \A q \in Requests : InFlight(q)'
    BY <1>a DEF Chains, InFlight
<1>b. ASSUME UNCHANGED <<req, jwt, succ, cache>>,
             \A t \in Tokens : \/ rows'[t] = None
                               \/ rows[t] # None /\ (rows[t].revoked => rows'[t].revoked)
      PROVE  Chains'
  <2>1. \A t \in Tokens : Undrawn(t)' /\ Consumed(t)' /\ Cached(t)'
      BY <1>b, QuietChains
  <2> QED BY <1>a, <1>b, <2>1 DEF Chains
<1>1. CASE \E r \in Requests : RequestStep(r)
    BY <1>1, ChainsRequest
<1>2. ASSUME NEW t \in Tokens, NEW new \in Tokens, RefreshSession(t, new) PROVE Chains'
  <2>1. /\ \A s \in Tokens : succ[s] \subseteq succ'[s]
        /\ \A s \in Tokens : Undrawn(s)' /\ Consumed(s)'
      BY <1>2, ReplaceChains DEF RefreshSession
  <2>2. \A s \in Tokens : Cached(s)'
      BY <1>2, <2>1 DEF RefreshSession, Chains, Cached
  <2> QED BY <1>2, <1>a, <2>1, <2>2 DEF RefreshSession, Chains
<1>3. ASSUME NEW u \in UserIDs, UpdateUser(u) PROVE Chains'
  <2>1. \A t \in Tokens : \/ rows'[t] = None
                          \/ rows[t] # None /\ (rows[t].revoked => rows'[t].revoked)
      BY <1>3 DEF UpdateUser, RevokeUser, TypeOK, RowType
  <2> QED BY <1>3, <1>b, <2>1 DEF UpdateUser
<1>4. ASSUME NEW u \in UserIDs, CreateUser(u) PROVE Chains'
    BY <1>4, <1>b DEF CreateUser
<1>5. ASSUME NEW u \in UserIDs, DeleteUser(u) PROVE Chains'
    BY <1>5, <1>b DEF DeleteUser
<1>6. CASE DeleteExpiredTokens
    BY <1>6, <1>b DEF DeleteExpiredTokens
<1>7. CASE Tick
    BY <1>7, <1>b DEF Tick
<1>8. CASE UNCHANGED vars
    BY <1>8, <1>b DEF vars
<1> QED BY <1>1, <1>2, <1>3, <1>4, <1>5, <1>6, <1>7, <1>8 DEF Next
-----------------------------------------------------------------------------
(* No session survives a revocation.                                        *)

\* Nobody is logged in at the start.
LEMMA SurvivorsInit == Init => NoSurvivors
    BY DEF Init, NoSurvivors

\* Revoking every session of a user lets its era change.
LEMMA RevokeSurvivors ==
    ASSUME TypeOK, NoSurvivors, NEW u \in UserIDs, rows' = RevokeUser(u), UNCHANGED jwt,
           \A v \in UserIDs \ {u} : users'[v] = users[v]
    PROVE  NoSurvivors'
<1> SUFFICES ASSUME NEW t \in Tokens, rows'[t] # None, ~rows'[t].revoked
             PROVE  users'[rows'[t].user] # None /\ jwt'[t].era = users'[rows'[t].user].era
    BY DEF NoSurvivors
<1>1. rows[t] # None
    BY DEF RevokeUser
<1>2. rows[t].user # u
    BY <1>1 DEF RevokeUser, TypeOK, RowType
<1>3. rows'[t] = rows[t] /\ rows[t].user \in UserIDs \ {u}
    BY <1>1, <1>2 DEF RevokeUser, TypeOK, RowType
<1> QED BY <1>1, <1>3 DEF NoSurvivors

\* A rotation hands on the era of a session that is still live.
LEMMA ReplaceSurvivors ==
    ASSUME TypeOK, Chains, NoSurvivors, NEW old \in Tokens, NEW new \in Unused,
           Replaceable(old), ReplaceRefreshToken(old, new), UNCHANGED users
    PROVE  NoSurvivors'
<1>1. rows[old] # None /\ ~rows[old].revoked /\ jwt[old] # None /\ rows[old].user = jwt[old].user
    BY ReplaceableDrawn
<1>2. new \in Tokens /\ new # old
    BY <1>1 DEF Unused
<1>3. rows[old] \in RowType
    BY <1>1 DEF TypeOK
<1>4. rows'[old].revoked
    BY <1>2, <1>3 DEF ReplaceRefreshToken, TypeOK, RowType
<1>5. rows'[new].user = rows[old].user /\ jwt'[new].era = jwt[old].era
    BY <1>1, <1>2 DEF ReplaceRefreshToken, TypeOK, NewRow, Claims
<1>6. \A t \in Tokens \ {old, new} : rows'[t] = rows[t] /\ jwt'[t] = jwt[t]
    BY DEF ReplaceRefreshToken, TypeOK
<1>7. users[rows[old].user] # None /\ jwt[old].era = users[rows[old].user].era
    BY <1>1 DEF NoSurvivors
<1> QED BY <1>2, <1>4, <1>5, <1>6, <1>7 DEF NoSurvivors

\* Every step keeps the revocations.
LEMMA SurvivorsStep ==
    ASSUME TypeOK, Chains, NoSurvivors, [Next]_vars
    PROVE  NoSurvivors'
<1>a. ASSUME UNCHANGED <<users, rows, jwt>> PROVE NoSurvivors'
    BY <1>a DEF NoSurvivors
<1>1. ASSUME NEW r \in Requests, NEW t \in Tokens, LoginIssue(r, t) PROVE NoSurvivors'
  <2>1. CASE users[req[r].user] = None
      BY <1>1, <1>a, <2>1 DEF LoginIssue
  <2>2. CASE users[req[r].user] # None
    <3>1. rows'[t].user = req[r].user /\ jwt'[t].era = users[req[r].user].era
        BY <1>1, <2>2 DEF LoginIssue, TypeOK, NewRow, Claims
    <3>2. UNCHANGED users /\ \A s \in Tokens \ {t} : rows'[s] = rows[s] /\ jwt'[s] = jwt[s]
        BY <1>1, <2>2 DEF LoginIssue, TypeOK
    <3> QED BY <2>2, <3>1, <3>2 DEF NoSurvivors
  <2> QED BY <2>1, <2>2
<1>2. ASSUME NEW r \in Requests, PageRotate(r) PROVE NoSurvivors'
  <2>1. req[r].jti \in Tokens
      BY <1>2 DEF PageRotate, Chains, InFlight
  <2> QED BY <1>2, <1>a, <2>1, ReplaceSurvivors DEF PageRotate
<1>3. ASSUME NEW r \in Requests, LogoutRevoke(r) PROVE NoSurvivors'
  <2>1. req[r].user \in UserIDs
      BY <1>3 DEF LogoutRevoke, Chains, InFlight
  <2>2. \A v \in UserIDs \ {req[r].user} : users'[v] = users[v]
      BY <1>3 DEF LogoutRevoke, TypeOK
  <2> QED BY <1>3, <2>1, <2>2, RevokeSurvivors DEF LogoutRevoke
<1>4. ASSUME NEW t \in Tokens, NEW new \in Tokens, RefreshSession(t, new) PROVE NoSurvivors'
    BY <1>4, ReplaceSurvivors DEF RefreshSession
<1>5. ASSUME NEW u \in UserIDs, UpdateUser(u) PROVE NoSurvivors'
  <2>1. \A v \in UserIDs \ {u} : users'[v] = users[v]
      BY <1>5 DEF UpdateUser, TypeOK
  <2> QED BY <1>5, <2>1, RevokeSurvivors DEF UpdateUser
<1>6. ASSUME NEW u \in UserIDs, CreateUser(u) PROVE NoSurvivors'
  <2>1. users[u] = None
      BY <1>6, SessionsAssumption DEF CreateUser
  <2>2. \A v \in UserIDs : users[v] # None => users'[v] = users[v]
      BY <1>6, <2>1 DEF CreateUser, TypeOK
  <2>3. \A t \in Tokens : rows[t] # None => rows[t].user \in UserIDs
      BY DEF TypeOK, RowType
  <2> QED BY <1>6, <2>2, <2>3 DEF CreateUser, NoSurvivors
<1>7. ASSUME NEW u \in UserIDs, DeleteUser(u) PROVE NoSurvivors'
  <2>1. \A v \in UserIDs \ {u} : users'[v] = users[v]
      BY <1>7 DEF DeleteUser, TypeOK
  <2>2. \A t \in Tokens : rows[t] # None => rows[t].user \in UserIDs
      BY DEF TypeOK, RowType
  <2>3. \A t \in Tokens : rows'[t] # None => rows[t] # None /\ rows'[t] = rows[t] /\ rows[t].user # u
      BY <1>7 DEF DeleteUser
  <2> QED BY <1>7, <2>1, <2>2, <2>3 DEF DeleteUser, NoSurvivors
<1>8. CASE DeleteExpiredTokens
  <2>1. \A t \in Tokens : rows'[t] # None => rows'[t] = rows[t]
      BY <1>8 DEF DeleteExpiredTokens
  <2> QED BY <1>8, <2>1 DEF DeleteExpiredTokens, NoSurvivors
<1>9. ASSUME NEW r \in Requests,
             \/ \E u \in UserIDs : LoginLookup(r, u)
             \/ \E t \in Tokens : PageRequest(r, t) \/ LogoutVerify(r, t) \/ ProfileVerify(r, t)
             \/ RememberPair(r) \/ RecentPair(r) \/ VerifyCached(r) \/ Respond(r)
      PROVE  NoSurvivors'
    BY <1>9, <1>a
    DEF LoginLookup, PageRequest, LogoutVerify, ProfileVerify, RememberPair, RecentPair, VerifyCached,
        Respond
<1>10. CASE Tick \/ UNCHANGED vars
    BY <1>10, <1>a DEF Tick, vars
<1>11. ASSUME NEW r \in Requests, ProfileUpdate(r) PROVE NoSurvivors'
  <2>1. req[r].user \in UserIDs
      BY <1>11 DEF ProfileUpdate, Chains, InFlight
  <2>2. CASE UNCHANGED <<users, rows>>
      BY <1>11, <1>a, <2>2 DEF ProfileUpdate
  <2>3. CASE /\ users' = [users EXCEPT ![req[r].user].pwd = edits + 1, ![req[r].user].era = edits + 1]
             /\ rows' = RevokeUser(req[r].user)
    <3>1. \A v \in UserIDs \ {req[r].user} : users'[v] = users[v]
        BY <2>3 DEF TypeOK
    <3> QED BY <1>11, <2>1, <2>3, <3>1, RevokeSurvivors DEF ProfileUpdate
  <2> QED BY <1>11, <2>2, <2>3 DEF ProfileUpdate
<1> QED BY <1>1, <1>2, <1>3, <1>4, <1>5, <1>6, <1>7, <1>8, <1>9, <1>10, <1>11
    DEF Next, RequestStep
-----------------------------------------------------------------------------
(* Sessions end for cause.                                                  *)

\* The root account has never been edited.
LEMMA ErasInit == Init => ErasPast
    BY DEF Init, ErasPast

\* Every step keeps the eras in the past.
LEMMA ErasStep ==
    ASSUME TypeOK, Chains, ErasPast, [Next]_vars
    PROVE  ErasPast'
<1>a. ASSUME UNCHANGED <<users, edits>> PROVE ErasPast'
    BY <1>a DEF ErasPast
<1>b. ASSUME NEW v \in UserIDs, edits' = edits + 1,
             \A u \in UserIDs \ {v} : users'[u] = users[u],
             users'[v] # None => users'[v].era = edits + 1
      PROVE  ErasPast'
  <2>1. \A u \in UserIDs : users[u] # None => users[u].era \in Nat
      BY DEF TypeOK, UserType
  <2> QED BY <1>b, <2>1 DEF ErasPast, TypeOK
<1>1. ASSUME NEW r \in Requests, LogoutRevoke(r) PROVE ErasPast'
  <2>1. req[r].user \in UserIDs
      BY <1>1 DEF LogoutRevoke, Chains, InFlight
  <2>2. \A u \in UserIDs \ {req[r].user} : users'[u] = users[u]
      BY <1>1 DEF LogoutRevoke, TypeOK
  <2>3. users'[req[r].user] # None => users'[req[r].user].era = edits + 1
      BY <1>1, <2>1 DEF LogoutRevoke, TypeOK, UserType
  <2> QED BY <1>1, <1>b, <2>1, <2>2, <2>3 DEF LogoutRevoke
<1>2. ASSUME NEW u \in UserIDs, UpdateUser(u) PROVE ErasPast'
  <2>1. \A v \in UserIDs \ {u} : users'[v] = users[v]
      BY <1>2 DEF UpdateUser, TypeOK
  <2>2. users'[u].era = edits + 1
      BY <1>2 DEF UpdateUser, TypeOK, UserType
  <2> QED BY <1>2, <1>b, <2>1, <2>2 DEF UpdateUser
<1>3. ASSUME NEW u \in UserIDs, CreateUser(u) PROVE ErasPast'
    BY <1>3 DEF CreateUser, ErasPast, TypeOK
<1>4. ASSUME NEW u \in UserIDs, DeleteUser(u) PROVE ErasPast'
    BY <1>4 DEF DeleteUser, ErasPast, TypeOK
<1>5. ASSUME NEW r \in Requests,
             \/ \E u \in UserIDs : LoginLookup(r, u)
             \/ \E t \in Tokens : LoginIssue(r, t) \/ PageRequest(r, t) \/ LogoutVerify(r, t) \/ ProfileVerify(r, t)
             \/ PageRotate(r) \/ RememberPair(r) \/ RecentPair(r) \/ VerifyCached(r) \/ Respond(r)
      PROVE  ErasPast'
    BY <1>5, <1>a
    DEF LoginLookup, LoginIssue, PageRequest, LogoutVerify, PageRotate, RememberPair, RecentPair,
        VerifyCached, Respond, ProfileVerify
<1>6. ASSUME NEW t \in Tokens, NEW new \in Tokens, RefreshSession(t, new) PROVE ErasPast'
    BY <1>6, <1>a DEF RefreshSession
<1>7. CASE DeleteExpiredTokens \/ Tick \/ UNCHANGED vars
    BY <1>7, <1>a DEF DeleteExpiredTokens, Tick, vars
<1>8. ASSUME NEW r \in Requests, ProfileUpdate(r) PROVE ErasPast'
  <2>1. req[r].user \in UserIDs
      BY <1>8 DEF ProfileUpdate, Chains, InFlight
  <2>2. CASE UNCHANGED <<users, edits>>
      BY <1>a, <2>2
  <2>3. CASE /\ users[req[r].user] # None /\ edits' = edits + 1
             /\ users' = [users EXCEPT ![req[r].user].pwd = edits + 1, ![req[r].user].era = edits + 1]
    <3>1. \A v \in UserIDs \ {req[r].user} : users'[v] = users[v]
        BY <2>3 DEF TypeOK
    <3>2. users'[req[r].user].era = edits + 1
        BY <2>1, <2>3 DEF TypeOK, UserType
    <3> QED BY <1>b, <2>1, <2>3, <3>1, <3>2
  <2> QED BY <1>8, <2>2, <2>3 DEF ProfileUpdate
<1> QED BY <1>1, <1>2, <1>3, <1>4, <1>5, <1>6, <1>7, <1>8 DEF Next, RequestStep

\* A step that changes the row of a live session rotates that session or changes
\* its account.
LEMMA CauseStep ==
    ASSUME IInv, [Next]_vars, NEW t \in Tokens, Live(t), rows'[t] # rows[t]
    PROVE  succ'[t] # succ[t] \/ users'[rows[t].user] # users[rows[t].user]
<1> USE DEF IInv
<1> DEFINE u == rows[t].user
<1>0. /\ rows[t] # None /\ ~rows[t].revoked /\ jwt[t] # None
      /\ u \in UserIDs /\ users[u] \in UserType /\ users[u].era <= edits /\ succ[t] = {}
  <2>1. rows[t] # None /\ ~rows[t].revoked
      BY DEF Live
  <2>2. u \in UserIDs /\ jwt[t] # None /\ succ[t] = {}
      BY <2>1 DEF TypeOK, RowType, Chains, Undrawn, Consumed
  <2>3. users[u] # None
      BY <2>1 DEF NoSurvivors
  <2> QED BY <2>1, <2>2, <2>3 DEF TypeOK, ErasPast
<1>a. ASSUME NEW v \in UserIDs, rows' = RevokeUser(v) PROVE u = v
    BY <1>a, <1>0 DEF RevokeUser
<1>b. ASSUME users'[u].era = edits + 1 PROVE users'[u] # users[u]
    BY <1>b, <1>0 DEF TypeOK, UserType
<1>c. ASSUME NEW old \in Tokens, NEW new \in Unused, ReplaceRefreshToken(old, new)
      PROVE  succ'[t] # succ[t]
  <2>1. new # t
      BY <1>0 DEF Unused
  <2>2. old = t
      BY <1>c, <2>1 DEF ReplaceRefreshToken, TypeOK
  <2> QED BY <1>c, <1>0, <2>2 DEF ReplaceRefreshToken, TypeOK
<1>1. ASSUME NEW r \in Requests, NEW s \in Tokens, LoginIssue(r, s) PROVE FALSE
  <2>1. s # t
      BY <1>0, <1>1 DEF LoginIssue, Unused
  <2> QED BY <1>1, <2>1 DEF LoginIssue, TypeOK
<1>2. ASSUME NEW r \in Requests, PageRotate(r) PROVE succ'[t] # succ[t]
  <2>1. req[r].jti \in Tokens
      BY <1>2 DEF PageRotate, Chains, InFlight
  <2> QED BY <1>2, <1>c, <2>1 DEF PageRotate
<1>3. ASSUME NEW r \in Requests, LogoutRevoke(r) PROVE users'[u] # users[u]
  <2>1. req[r].user \in UserIDs
      BY <1>3 DEF LogoutRevoke, Chains, InFlight
  <2>2. req[r].user = u
      BY <1>3, <1>a, <2>1 DEF LogoutRevoke
  <2>3. users[u] # None
      BY <1>0, NoneAssumption
  <2>4. users'[u].era = edits + 1
      BY <1>0, <1>3, <2>2, <2>3 DEF LogoutRevoke, TypeOK, UserType
  <2> QED BY <1>b, <2>4
<1>4. ASSUME NEW s \in Tokens, NEW new \in Tokens, RefreshSession(s, new) PROVE succ'[t] # succ[t]
    BY <1>4, <1>c DEF RefreshSession
<1>5. ASSUME NEW v \in UserIDs, UpdateUser(v) PROVE users'[u] # users[u]
  <2>1. v = u
      BY <1>5, <1>a DEF UpdateUser
  <2>2. users'[u].era = edits + 1
      BY <1>0, <1>5, <2>1 DEF UpdateUser, TypeOK, UserType
  <2> QED BY <1>b, <2>2
<1>6. ASSUME NEW v \in UserIDs, DeleteUser(v) PROVE users'[u] # users[u]
  <2>1. v = u
      BY <1>6 DEF DeleteUser
  <2> QED BY <1>0, <1>6, <2>1, NoneAssumption DEF DeleteUser, TypeOK
<1>7. ASSUME DeleteExpiredTokens PROVE FALSE
  <2>1. ~Prunable(t)
      BY <1>0 DEF Live, Prunable, TypeOK, RowType
  <2> QED BY <1>7, <2>1 DEF DeleteExpiredTokens
<1>8. ASSUME NEW r \in Requests,
             \/ \E v \in UserIDs : LoginLookup(r, v)
             \/ \E s \in Tokens : PageRequest(r, s) \/ LogoutVerify(r, s) \/ ProfileVerify(r, s)
             \/ RememberPair(r) \/ RecentPair(r) \/ VerifyCached(r) \/ Respond(r)
      PROVE  FALSE
    BY <1>8
    DEF LoginLookup, PageRequest, LogoutVerify, ProfileVerify, RememberPair, RecentPair, VerifyCached,
        Respond
<1>9. ASSUME NEW v \in UserIDs, CreateUser(v) PROVE FALSE
    BY <1>9 DEF CreateUser
<1>10. ASSUME Tick \/ UNCHANGED vars PROVE FALSE
    BY <1>10 DEF Tick, vars
<1>11. ASSUME NEW r \in Requests, ProfileUpdate(r) PROVE users'[u] # users[u]
  <2>1. req[r].user \in UserIDs
      BY <1>11 DEF ProfileUpdate, Chains, InFlight
  <2>2. /\ users' = [users EXCEPT ![req[r].user].pwd = edits + 1, ![req[r].user].era = edits + 1]
        /\ rows' = RevokeUser(req[r].user)
      BY <1>11 DEF ProfileUpdate
  <2>3. req[r].user = u
      BY <1>a, <2>1, <2>2
  <2>4. users'[u].era = edits + 1
      BY <1>0, <2>2, <2>3 DEF TypeOK, UserType
  <2> QED BY <1>b, <2>4
<1> QED BY <1>1, <1>2, <1>3, <1>4, <1>5, <1>6, <1>7, <1>8, <1>9, <1>10, <1>11
    DEF Next, RequestStep
-----------------------------------------------------------------------------
\* The inductive invariant holds throughout.
LEMMA Invariance == Spec => []IInv
<1>1. Init => IInv
    BY TypeInit, ChainsInit, SurvivorsInit, ErasInit DEF IInv
<1>2. IInv /\ [Next]_vars => IInv'
    BY TypeStep, ChainsStep, SurvivorsStep, ErasStep DEF IInv
<1> QED BY <1>1, <1>2, PTL DEF Spec

\* The tables, the cookies and the requests in flight keep their types, and token
\* identifiers are handed out in order (CreateRefreshToken, ReplaceRefreshToken).
THEOREM SessionTypes == Spec => []TypeOK
<1>1. IInv => TypeOK
    BY DEF IInv
<1> QED BY <1>1, Invariance, PTL

\* A refresh token is redeemed at most once, whatever the interleaving of the
\* clients and tabs that hold it (ReplaceRefreshToken).
THEOREM RedeemedOnce == Spec => []OneSuccessor
<1>1. ASSUME Chains, NEW t \in Tokens PROVE Cardinality(succ[t]) <= 1
  <2>1. CASE succ[t] = {}
      BY <2>1, FS_EmptySet
  <2>2. CASE succ[t] # {}
    <3>1. PICK a \in succ[t] : succ[t] = {a}
        BY <1>1, <2>2 DEF Chains, Consumed
    <3> QED BY <3>1, FS_Singleton
  <2> QED BY <2>1, <2>2
<1>2. IInv => OneSuccessor
    BY <1>1 DEF IInv, OneSuccessor
<1> QED BY <1>2, Invariance, PTL

\* No session outlives a logout, a rename or a password change of its user, or its
\* account, through any chain of rotations (RevokeAllRefreshTokens, UpdateUser).
THEOREM NoSessionSurvives == Spec => []NoSurvivors
<1>1. IInv => NoSurvivors
    BY DEF IInv
<1> QED BY <1>1, Invariance, PTL

\* A tab is only ever served with the pair that replaced its own refresh token
\* (rememberPair, recentPair).
THEOREM ServedOwnSuccessor == Spec => []ServedWithSuccessor
<1>1. IInv => ServedWithSuccessor
    BY DEF IInv, Chains, InFlight, ServedWithSuccessor
<1> QED BY <1>1, Invariance, PTL

\* A session that is still accepted ends only by its own rotation or with a change
\* of its own account, whatever else runs (UpdateUser, DeleteExpiredTokens).
THEOREM SessionsEndForCause == Spec => EndsForCause
<1> DEFINE Cause == \A t \in Tokens :
              Live(t) /\ rows'[t] # rows[t] =>
                  \/ succ'[t] # succ[t]
                  \/ users'[rows[t].user] # users[rows[t].user]
<1>1. IInv /\ [Next]_vars => [Cause]_vars
    BY CauseStep
<1> QED BY <1>1, Invariance, PTL DEF Spec, EndsForCause
==============================================================================
