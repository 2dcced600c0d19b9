--------------------------- MODULE IdentityTokens --------------------------
(***************************************************************************)
(* identity-service and the gateway's token check: registration, login,    *)
(* refresh-token rotation with reuse detection, logout, the Redis cutoff   *)
(* that revokes access tokens, and the two verifiers that read it.         *)
(* Requests of several replicas run interleaved, any of them may crash,    *)
(* and any call to Redis may fail.  A user row never changes after it was    *)
(* created (changeUserRole has no caller), so the cached copies of it are  *)
(* not state of the model.                                                 *)
(***************************************************************************)
EXTENDS Naturals

CONSTANTS
    Users,
    RoleOf,         \* USER for everybody who registered, ADMIN for seeded accounts
    Tokens,         \* token pairs that can be drawn (bounds the model)
    NoToken,
    Requests,       \* requests in flight
    AccessLife,     \* 15 minutes
    RefreshLife,    \* 7 days
    MaxTime         \* bounds the clock

ASSUME UsersAssumption == Users # {} /\ RoleOf \in [Users -> {"USER", "ADMIN"}]
ASSUME TokensAssumption == NoToken \notin Tokens
ASSUME LifeAssumption == AccessLife \in Nat /\ RefreshLife \in Nat /\ MaxTime \in Nat

VARIABLES
    registered,     \* the users with a row
    refresh,        \* refreshToken.revoked, or "unused" while there is no row
    pair,           \* who a pair belongs to, which login began its session, what it replaced
    lock,           \* holders of pg_advisory_xact_lock(user, 2)
    cutoff,         \* auth:revoked-before:<user> and when Redis drops it
    now,
    req,            \* where each request is
    endedAt         \* history: when a session was revoked, 0 if it was not

identityVars == <<registered, refresh, pair, lock, cutoff, now, req, endedAt>>
tables == <<registered, refresh, pair, lock, endedAt>>

AUser == CHOOSE u \in Users : TRUE
NoRequest == [pc |-> "idle", user |-> AUser, token |-> NoToken, at |-> 0]

IdentityTypeOK ==
    /\ registered \subseteq Users
    /\ refresh \in [Tokens -> {"unused", "live", "revoked"}]
    /\ pair \in [Tokens -> [user : Users, session : Tokens, parent : Tokens, issuedAt : Nat]]
    /\ lock \subseteq Users \X Requests
    /\ cutoff \in [Users -> [at : Nat, until : Nat]]
    /\ now \in Nat
    /\ req \in [Requests -> [pc : {"idle", "register", "insert", "lock", "rotate",
                                   "logout", "cutoff"},
                             user : Users, token : Tokens \cup {NoToken}, at : Nat]]
    /\ endedAt \in [Tokens -> Nat]

IdentityInit ==
    /\ registered = {u \in Users : RoleOf[u] = "ADMIN"}
    /\ refresh = [t \in Tokens |-> "unused"]
    /\ pair = [t \in Tokens |-> [user |-> AUser, session |-> t, parent |-> t, issuedAt |-> 0]]
    /\ lock = {}
    /\ cutoff = [u \in Users |-> [at |-> 0, until |-> 0]]
    /\ now = 1
    /\ req = [r \in Requests |-> NoRequest]
    /\ endedAt = [t \in Tokens |-> 0]

---------------------------------------------------------------------------
(* Operators named Mutant... are wrong on purpose: see StockReservation.               *)

Issued(t) == refresh[t] # "unused"
Session(t) == pair[t].session

\* jwt.verify: the signature is ours, the token has not expired.
MutantUnexpired(t) == Issued(t)
Unexpired(t) == Issued(t) /\ now < pair[t].issuedAt + AccessLife

\* The cutoff a reader of Redis gets; the key is gone once its 900 s are over.
Covered(t) ==
    LET c == cutoff[pair[t].user] IN now < c.until /\ pair[t].issuedAt <= c.at

\* localTokenVerifier at the gateway.  When Redis does not answer, an
\* administrator gets a 503 and a customer passes.
GatewayAccepts(t, redisAnswers) ==
    /\ Unexpired(t)
    /\ IF redisAnswers THEN ~Covered(t) ELSE RoleOf[pair[t].user] = "USER"

\* The ValidateToken RPC passes everybody while Redis does not answer.
ValidateToken(t, redisAnswers) == Unexpired(t) /\ (redisAnswers => ~Covered(t))

Goto(r, pc) ==
    req' = [req EXCEPT ![r] = [pc |-> pc, user |-> req[r].user, token |-> req[r].token, at |-> now]]
Begin(r, pc, u, t) ==
    /\ req[r].pc = "idle"
    /\ req' = [req EXCEPT ![r] = [pc |-> pc, user |-> u, token |-> t, at |-> 0]]
    /\ UNCHANGED <<registered, refresh, pair, lock, cutoff, now, endedAt>>
Finish(r) == req' = [req EXCEPT ![r] = NoRequest]

\* generateTokens: the new row, with an access token signed at some moment
\* after the request read the user.
GenerateTokens(r, n, session, parent) ==
    \E signed \in req[r].at..now :
        pair' = [pair EXCEPT ![n] = [user |-> req[r].user, session |-> session,
                                     parent |-> parent, issuedAt |-> signed]]

MutantRevokeAll(u) ==
    /\ refresh' = [t \in Tokens |->
                      IF Issued(t) /\ pair[t].user = u THEN "deleted" ELSE refresh[t]]
    /\ endedAt' = [t \in Tokens |->
                      IF Issued(t) /\ pair[t].user = u /\ endedAt[t] = 0 THEN now ELSE endedAt[t]]

\* updateMany({userId}, {revoked: true}): every session of the user ends.
RevokeAll(u) ==
    /\ refresh' = [t \in Tokens |->
                      IF Issued(t) /\ pair[t].user = u THEN "revoked" ELSE refresh[t]]
    /\ endedAt' = [t \in Tokens |->
                      IF Issued(t) /\ pair[t].user = u /\ endedAt[t] = 0 THEN now ELSE endedAt[t]]

LockFree(u) == \A q \in Requests : <<u, q>> \notin lock

---------------------------------------------------------------------------
\* registerUser: the lookup, then (after hashing) the insert, which the unique
\* index on the email refuses when another registration was faster.
RegisterCheck(r, u) ==
    /\ u \notin registered
    /\ Begin(r, "register", u, NoToken)

RegisterCreate(r) ==
    /\ req[r].pc = "register"
    /\ IF req[r].user \in registered THEN Finish(r) ELSE Goto(r, "insert")
    /\ registered' = registered \cup {req[r].user}
    /\ UNCHANGED <<refresh, pair, lock, cutoff, now, endedAt>>

\* loginUser up to the verified password.
LoginRead(r, u) ==
    /\ u \in registered
    /\ req[r].pc = "idle"
    /\ req' = [req EXCEPT ![r] = [pc |-> "insert", user |-> u, token |-> NoToken, at |-> now]]
    /\ UNCHANGED <<registered, refresh, pair, lock, cutoff, now, endedAt>>

\* generateTokens for a registration or a login: no lock is taken.
OpenSession(r) ==
    /\ req[r].pc = "insert"
    /\ \E n \in Tokens :
        /\ ~Issued(n)
        /\ GenerateTokens(r, n, n, n)
        /\ refresh' = [refresh EXCEPT ![n] = "live"]
    /\ Finish(r)
    /\ UNCHANGED <<registered, lock, cutoff, now, endedAt>>

\* refreshTokens finds the row before it takes the lock.
RefreshFind(r, t) ==
    /\ Issued(t)
    /\ Begin(r, "lock", pair[t].user, t)

\* With the lock the row is read again.  A revoked one ends every session of
\* the user; an expired one is refused; a live one is claimed.
MutantRefreshLock(r) ==
    /\ req[r].pc = "lock"
    /\ Goto(r, "rotate")
    /\ refresh[req[r].token] = "live"
    /\ UNCHANGED <<registered, refresh, pair, lock, cutoff, now, endedAt>>

RefreshLock(r) ==
    LET t == req[r].token
        u == req[r].user
    IN  /\ req[r].pc = "lock"
        /\ LockFree(u)
        /\ \/ /\ refresh[t] = "revoked"
              /\ RevokeAll(u)
              /\ Goto(r, "cutoff")
              /\ UNCHANGED lock
           \/ /\ refresh[t] = "live"
              /\ pair[t].issuedAt + RefreshLife <= now
              /\ Finish(r)
              /\ UNCHANGED <<refresh, endedAt, lock>>
           \/ /\ refresh[t] = "live"
              /\ now < pair[t].issuedAt + RefreshLife
              /\ Goto(r, "rotate")
              /\ lock' = lock \cup {<<u, r>>}
              /\ UNCHANGED <<refresh, endedAt>>
        /\ UNCHANGED <<registered, pair, cutoff, now>>

\* The claim, the successor's row and the release of the lock become visible
\* together, when the transaction commits.
MutantRefreshCommit(r) ==
    /\ req[r].pc = "rotate"
    /\ \E n \in Tokens :
        /\ ~Issued(n)
        /\ GenerateTokens(r, n, Session(req[r].token), req[r].token)
        /\ refresh' = [refresh EXCEPT ![n] = "live"]
    /\ lock' = lock \ {<<req[r].user, r>>}
    /\ Finish(r)
    /\ UNCHANGED <<registered, cutoff, now, endedAt>>

RefreshCommit(r) ==
    /\ req[r].pc = "rotate"
    /\ \E n \in Tokens :
        /\ ~Issued(n)
        /\ GenerateTokens(r, n, Session(req[r].token), req[r].token)
        /\ refresh' = [refresh EXCEPT ![n] = "live", ![req[r].token] = "revoked"]
    /\ lock' = lock \ {<<req[r].user, r>>}
    /\ Finish(r)
    /\ UNCHANGED <<registered, cutoff, now, endedAt>>

\* The gateway's protect middleware lets the caller through to logout.
LogoutStart(r, t) ==
    /\ \E redisAnswers \in BOOLEAN : GatewayAccepts(t, redisAnswers)
    /\ Begin(r, "logout", pair[t].user, t)

\* logoutUser's transaction: the lock, every row of the user, commit.
LogoutRevoke(r) ==
    /\ req[r].pc = "logout"
    /\ LockFree(req[r].user)
    /\ RevokeAll(req[r].user)
    /\ Goto(r, "cutoff")
    /\ UNCHANGED <<registered, pair, lock, cutoff, now>>

\* How long Redis keeps the cutoff: 900 s, as long as an access token lives.
MutantCutoffLife == AccessLife - 1
CutoffLife == AccessLife

\* revokeUserAccess: the moment is read here or earlier, SETEX takes effect at
\* Redis or fails, and the caller is answered either way.
RevokeUserAccess(r) ==
    LET u == req[r].user IN
    /\ req[r].pc = "cutoff"
    /\ \/ \E at \in req[r].at..now :
             cutoff' = [cutoff EXCEPT ![u] = [at |-> at, until |-> now + CutoffLife]]
       \/ UNCHANGED cutoff
    /\ Finish(r)
    /\ UNCHANGED <<registered, refresh, pair, lock, now, endedAt>>

---------------------------------------------------------------------------
\* A replica dies: its open transactions roll back and release their locks.
Crash(r) ==
    /\ req[r].pc # "idle"
    /\ Finish(r)
    /\ lock' = {l \in lock : l[2] # r}
    /\ UNCHANGED <<registered, refresh, pair, cutoff, now, endedAt>>

Tick ==
    /\ now < MaxTime
    /\ now' = now + 1
    /\ UNCHANGED <<tables, cutoff, req>>

IdentityNext ==
    \/ \E r \in Requests :
        \/ \E u \in Users : RegisterCheck(r, u) \/ LoginRead(r, u)
        \/ \E t \in Tokens : RefreshFind(r, t) \/ LogoutStart(r, t)
        \/ RegisterCreate(r)
        \/ OpenSession(r)
        \/ RefreshLock(r)
        \/ RefreshCommit(r)
        \/ LogoutRevoke(r)
        \/ RevokeUserAccess(r)
        \/ Crash(r)
    \/ Tick

IdentitySpec == IdentityInit /\ [][IdentityNext]_identityVars

---------------------------------------------------------------------------
(* Properties                                                              *)

\* A refresh token is exchanged at most once, however many requests present it
\* at the same time (refreshTokens: the row is read again under the lock).
SingleUse ==
    \A s, t \in Tokens :
        /\ Issued(s) /\ pair[s].parent # s
        /\ Issued(t) /\ pair[t].parent = pair[s].parent
        /\ pair[t].parent # t
        => s = t

\* A session that a logout or a reuse ended has no live refresh token ever
\* again: no rotation that was under way brings it back (logoutUser and
\* refreshTokens take the same advisory lock).
EndedSessionsStayEnded ==
    \A t \in Tokens : endedAt[Session(t)] # 0 => refresh[t] # "live"

\* With Redis failing, replicas crashing and cutoffs overwriting each other, a
\* session is over for both verifiers once 15 minutes have passed since its
\* refresh tokens were revoked ("Bounded fail-open degradation").
RevocationBounded ==
    \A t \in Tokens :
        /\ endedAt[Session(t)] # 0
        /\ \E up \in BOOLEAN : GatewayAccepts(t, up) \/ ValidateToken(t, up)
        => now < endedAt[Session(t)] + AccessLife

\* When Redis drops a cutoff, every access token it covered has expired.
CutoffOutlivesTokens ==
    \A t \in Tokens :
        LET c == cutoff[pair[t].user] IN
        c.at # 0 /\ c.until <= now /\ pair[t].issuedAt <= c.at => ~Unexpired(t)
===========================================================================
