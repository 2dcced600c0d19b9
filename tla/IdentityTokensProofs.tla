----------------------- MODULE IdentityTokensProofs -----------------------
(***************************************************************************)
(* Sessions and their revocation for any number of users, token pairs and  *)
(* requests, with crashes and a Redis that may fail at every call.         *)
(***************************************************************************)
EXTENDS IdentityTokens, TLAPS

\* What the clock has passed: signatures, ends of sessions, moments requests remember.
TimesInThePast ==
    /\ \A t \in Tokens : pair[t].issuedAt <= now /\ endedAt[t] <= now
    /\ \A r \in Requests : req[r].at <= now
    /\ now # 0

\* Only a request that rotates holds its user's lock, and it holds it alone.
LockProtocol ==
    /\ \A r \in Requests : req[r].pc = "rotate" <=> <<req[r].user, r>> \in lock
    /\ \A l \in lock : l[1] = req[l[2]].user
    /\ \A k, l \in lock : k[1] = l[1] => k = l

\* A refresh works on a row of its user; a rotation has claimed a live one.
RefreshTarget ==
    \A r \in Requests : req[r].pc \in {"lock", "rotate"} =>
        /\ req[r].token \in Tokens /\ Issued(req[r].token)
        /\ pair[req[r].token].user = req[r].user
        /\ req[r].pc = "rotate" => refresh[req[r].token] = "live"

\* A session belongs to one user and hangs together by its rotations.
Lineage ==
    \A t \in Tokens :
        /\ ~Issued(t) => Session(t) = t /\ pair[t].parent = t /\ endedAt[t] = 0
        /\ Issued(t) => /\ Issued(Session(t)) /\ pair[Session(t)].user = pair[t].user
                        /\ Issued(pair[t].parent)
        /\ pair[t].parent # t => refresh[pair[t].parent] = "revoked"

\* Nothing was signed for a session after its end.
SignedBeforeTheEnd ==
    \A t \in Tokens : endedAt[Session(t)] # 0 => pair[t].issuedAt <= endedAt[Session(t)]

\* Redis keeps a cutoff for the life of the tokens it covers.
CutoffKept ==
    \A u \in Users : cutoff[u].at # 0 => cutoff[u].at + AccessLife <= cutoff[u].until

IdentityInv ==
    /\ IdentityTypeOK
    /\ TimesInThePast
    /\ LockProtocol
    /\ RefreshTarget
    /\ Lineage
    /\ SingleUse
    /\ EndedSessionsStayEnded
    /\ SignedBeforeTheEnd
    /\ CutoffKept

---------------------------------------------------------------------------
LEMMA AUserIsUser == AUser \in Users
BY UsersAssumption DEF AUser

LEMMA IdentityInitInv == IdentityInit => IdentityInv
<1> SUFFICES ASSUME IdentityInit PROVE IdentityInv
  OBVIOUS
<1>1. IdentityTypeOK
  BY AUserIsUser DEF IdentityInit, IdentityTypeOK, NoRequest
<1>2. TimesInThePast /\ LockProtocol /\ RefreshTarget
  BY DEF IdentityInit, TimesInThePast, LockProtocol, RefreshTarget, NoRequest
<1>3. Lineage /\ SingleUse /\ EndedSessionsStayEnded /\ SignedBeforeTheEnd /\ CutoffKept
  BY DEF IdentityInit, Lineage, SingleUse, EndedSessionsStayEnded, SignedBeforeTheEnd,
         CutoffKept, Issued, Session
<1>4. QED
  BY <1>1, <1>2, <1>3 DEF IdentityInv

\* What depends only on the rows keeps when no row changes.
LEMMA RowsUnchanged ==
    ASSUME IdentityInv, UNCHANGED <<refresh, pair, endedAt>>
    PROVE  Lineage' /\ SingleUse' /\ EndedSessionsStayEnded' /\ SignedBeforeTheEnd'
BY DEF IdentityInv, Lineage, SingleUse, EndedSessionsStayEnded, SignedBeforeTheEnd,
       Issued, Session

\* A request that takes or changes no lock moves along.
LEMMA RequestMoves ==
    ASSUME IdentityInv, NEW r \in Requests, NEW q,
           q \in [pc : {"idle", "register", "insert", "lock", "logout", "cutoff"},
                  user : Users, token : Tokens \cup {NoToken}, at : Nat],
           req' = [req EXCEPT ![r] = q],
           req[r].pc # "rotate",
           q.at <= now,
           q.pc = "lock" => /\ q.token \in Tokens /\ Issued(q.token)
                            /\ pair[q.token].user = q.user,
           \A t \in Tokens : Issued(t) => Issued(t)' /\ pair'[t] = pair[t],
           \A x \in Requests :
               req[x].pc = "rotate" => refresh'[req[x].token] = refresh[req[x].token],
           UNCHANGED <<lock, now>>
    PROVE  /\ req' \in [Requests -> [pc : {"idle", "register", "insert", "lock", "rotate",
                                           "logout", "cutoff"},
                                     user : Users, token : Tokens \cup {NoToken}, at : Nat]]
           /\ \A x \in Requests : req'[x].at <= now'
           /\ LockProtocol' /\ RefreshTarget'
<1> USE DEF IdentityInv, IdentityTypeOK
<1>1. req' \in [Requests -> [pc : {"idle", "register", "insert", "lock", "rotate",
                                   "logout", "cutoff"},
                             user : Users, token : Tokens \cup {NoToken}, at : Nat]]
  OBVIOUS
<1>2. \A x \in Requests : req'[x].at <= now'
  BY DEF TimesInThePast
<1>3. \A l \in lock : l[2] # r /\ l[2] \in Requests
  BY DEF LockProtocol
<1>4. LockProtocol'
  BY <1>3 DEF LockProtocol
<1>5. RefreshTarget'
  BY DEF RefreshTarget, Issued
<1>6. QED
  BY <1>1, <1>2, <1>4, <1>5

---------------------------------------------------------------------------
\* Revoking all rows of a user no rotation of whom is under way.
LEMMA RevokeAllKeepsRows ==
    ASSUME IdentityInv, NEW u \in Users, LockFree(u), RevokeAll(u), UNCHANGED <<pair, now>>
    PROVE  /\ refresh' \in [Tokens -> {"unused", "live", "revoked"}]
           /\ endedAt' \in [Tokens -> Nat]
           /\ \A t \in Tokens : endedAt'[t] <= now
           /\ \A t \in Tokens : Issued(t)' <=> Issued(t)
           /\ \A r \in Requests : req[r].pc = "rotate" =>
                  refresh'[req[r].token] = refresh[req[r].token]
           /\ Lineage' /\ SingleUse' /\ EndedSessionsStayEnded' /\ SignedBeforeTheEnd'
<1> USE DEF IdentityInv, IdentityTypeOK
<1>1. /\ refresh' \in [Tokens -> {"unused", "live", "revoked"}]
      /\ endedAt' \in [Tokens -> Nat]
      /\ \A t \in Tokens : endedAt'[t] <= now
      /\ \A t \in Tokens : Issued(t)' <=> Issued(t)
  BY DEF RevokeAll, Issued, TimesInThePast
<1>2. \A r \in Requests : req[r].pc = "rotate" =>
          refresh'[req[r].token] = refresh[req[r].token]
  BY DEF RevokeAll, LockFree, LockProtocol, RefreshTarget
<1>3. Lineage'
  BY <1>1 DEF Lineage, RevokeAll, Issued, Session
<1>4. SingleUse'
  BY <1>1 DEF SingleUse, Session
<1>5. EndedSessionsStayEnded'
  BY DEF EndedSessionsStayEnded, RevokeAll, Lineage, Issued, Session
<1>6. SignedBeforeTheEnd'
  BY DEF SignedBeforeTheEnd, RevokeAll, TimesInThePast, Lineage, Issued, Session
<1>7. QED
  BY <1>1, <1>2, <1>3, <1>4, <1>5, <1>6

\* A new row, the first of its session or the successor of a row that is revoked with it.
LEMMA NewRow ==
    ASSUME IdentityInv, NEW r \in Requests, NEW n \in Tokens, ~Issued(n),
           NEW parent \in Tokens,
           NEW session \in Tokens,
           \/ parent = n /\ session = n
           \/ /\ refresh[parent] = "live" /\ session = Session(parent)
              /\ pair[parent].user = req[r].user,
           GenerateTokens(r, n, session, parent),
           refresh' = [refresh EXCEPT ![n] = "live",
                                      ![parent] = IF parent = n THEN "live" ELSE "revoked"],
           UNCHANGED <<endedAt, now>>
    PROVE  /\ refresh' \in [Tokens -> {"unused", "live", "revoked"}]
           /\ pair' \in [Tokens -> [user : Users, session : Tokens, parent : Tokens,
                                    issuedAt : Nat]]
           /\ \A t \in Tokens : pair'[t].issuedAt <= now
           /\ \A t \in Tokens : t # n => pair'[t] = pair[t]
           /\ \A t \in Tokens : t # n /\ t # parent => refresh'[t] = refresh[t]
           /\ Lineage' /\ SingleUse' /\ EndedSessionsStayEnded' /\ SignedBeforeTheEnd'
<1>0. /\ IdentityTypeOK /\ TimesInThePast /\ Lineage
      /\ SingleUse /\ EndedSessionsStayEnded /\ SignedBeforeTheEnd
  BY DEF IdentityInv
<1>1. PICK signed \in req[r].at..now :
          pair' = [pair EXCEPT ![n] = [user |-> req[r].user, session |-> session,
                                       parent |-> parent, issuedAt |-> signed]]
  BY DEF GenerateTokens
<1>2. signed \in Nat /\ signed <= now
  BY <1>0 DEF IdentityTypeOK
<1>3. /\ refresh' \in [Tokens -> {"unused", "live", "revoked"}]
      /\ pair' \in [Tokens -> [user : Users, session : Tokens, parent : Tokens, issuedAt : Nat]]
      /\ \A t \in Tokens : pair'[t].issuedAt <= now
      /\ \A t \in Tokens : t # n => pair'[t] = pair[t]
      /\ \A t \in Tokens : t # n /\ t # parent => refresh'[t] = refresh[t]
      /\ pair'[n] = [user |-> req[r].user, session |-> session, parent |-> parent,
                     issuedAt |-> signed]
      /\ refresh'[n] = "live"
      /\ parent # n => refresh'[parent] = "revoked"
  BY <1>0, <1>1, <1>2 DEF TimesInThePast, Issued, IdentityTypeOK
<1>4. \A t \in Tokens : Issued(t)' <=> Issued(t) \/ t = n
  BY <1>3 DEF Issued
<1>5. \A t \in Tokens : Issued(t) => Session(t) # n /\ pair[t].parent # n
  BY <1>0 DEF Lineage
<1>6. endedAt[session] = 0
  BY <1>0 DEF Lineage, EndedSessionsStayEnded, Session
<1>7. \A t \in Tokens : Session(t) \in Tokens /\ pair[t].parent \in Tokens
  BY <1>0 DEF Session, IdentityTypeOK
<1>8. /\ \A t \in Tokens : /\ Session(t)' = IF t = n THEN session ELSE Session(t)
                           /\ pair'[t].parent = IF t = n THEN parent ELSE pair[t].parent
                           /\ refresh'[t] = "live" => t = n \/ refresh[t] = "live"
      /\ endedAt' = endedAt
  BY <1>3 DEF Session
<1>9. Lineage'
  <2> SUFFICES ASSUME NEW t \in Tokens
      PROVE  /\ ~Issued(t)' => Session(t)' = t /\ pair'[t].parent = t /\ endedAt'[t] = 0
             /\ Issued(t)' => /\ Issued(Session(t))' /\ pair'[Session(t)'].user = pair'[t].user
                              /\ Issued(pair[t].parent)'
             /\ pair'[t].parent # t => refresh'[pair'[t].parent] = "revoked"
    BY DEF Lineage
  <2>1. CASE t = n
    <3>1. ~Issued(t)' => FALSE
      BY <1>4, <2>1
    <3>2. CASE parent = n
      <4>1. session = n
        BY <3>2 DEF Issued
      <4>2. QED
        BY <1>3, <1>4, <1>8, <2>1, <3>1, <3>2, <4>1
    <3>3. CASE parent # n
      <4>1. /\ Issued(parent) /\ Issued(session) /\ session = pair[parent].session
            /\ pair[session].user = req[r].user /\ session # n
        BY <1>0, <1>7, <3>3 DEF Lineage, Issued, Session
      <4>2. QED
        BY <1>3, <1>4, <1>8, <2>1, <3>1, <3>3, <4>1
    <3>4. QED
      BY <3>2, <3>3
  <2>2. CASE t # n
    <3>1. CASE Issued(t)
      <4>1. /\ Issued(Session(t)) /\ Session(t) \in Tokens /\ Session(t) # n
            /\ pair[Session(t)].user = pair[t].user
            /\ Issued(pair[t].parent) /\ pair[t].parent \in Tokens /\ pair[t].parent # n
            /\ pair[t].parent # t => refresh[pair[t].parent] = "revoked"
        BY <1>0, <1>5, <1>7, <3>1 DEF Lineage
      <4>2. refresh[pair[t].parent] = "revoked" => refresh'[pair[t].parent] = "revoked"
        BY <1>3, <4>1
      <4>3. QED
        BY <1>3, <1>4, <1>8, <2>2, <3>1, <4>1, <4>2
    <3>2. CASE ~Issued(t)
      BY <1>0, <1>3, <1>4, <1>8, <2>2, <3>2 DEF Lineage
    <3>3. QED
      BY <3>1, <3>2
  <2>3. QED
    BY <2>1, <2>2
<1>10. SingleUse'
  <2>1. \A t \in Tokens : t # n /\ Issued(t) /\ pair[t].parent # t => pair[t].parent # parent
    BY <1>0, <1>5 DEF Lineage, Issued
  <2>2. SUFFICES ASSUME NEW s \in Tokens, NEW t \in Tokens,
                        Issued(s)', Issued(t)', pair'[s].parent # s, pair'[t].parent # t,
                        pair'[t].parent = pair'[s].parent
                 PROVE  s = t
    BY DEF SingleUse
  <2>3. CASE s # n /\ t # n
    BY <1>0, <1>4, <1>8, <2>2, <2>3 DEF SingleUse
  <2>4. CASE s = n \/ t = n
    BY <1>4, <1>8, <2>1, <2>2, <2>4
  <2>5. QED
    BY <2>3, <2>4
<1>11. EndedSessionsStayEnded' /\ SignedBeforeTheEnd'
  <2>1. ASSUME NEW t \in Tokens, endedAt'[Session(t)'] # 0
        PROVE  t # n /\ endedAt[Session(t)] # 0 /\ endedAt'[Session(t)'] = endedAt[Session(t)]
    BY <1>6, <1>8, <2>1
  <2>2. EndedSessionsStayEnded'
    BY <1>0, <1>8, <2>1 DEF EndedSessionsStayEnded
  <2>3. SignedBeforeTheEnd'
    BY <1>0, <1>3, <2>1 DEF SignedBeforeTheEnd
  <2>4. QED
    BY <2>2, <2>3
<1>12. QED
  BY <1>3, <1>9, <1>10, <1>11

---------------------------------------------------------------------------
\* The records that the steps store for a request.
RestingRequest == [pc : {"idle", "register", "insert", "lock", "logout", "cutoff"},
                   user : Users, token : Tokens \cup {NoToken}, at : Nat]

LEMMA NoRequestFits ==
    ASSUME IdentityInv
    PROVE  NoRequest \in RestingRequest /\ NoRequest.at <= now /\ NoRequest.pc = "idle"
BY AUserIsUser DEF NoRequest, RestingRequest, IdentityInv, IdentityTypeOK

LEMMA GotoFits ==
    ASSUME IdentityInv, NEW r \in Requests, NEW to \in {"insert", "cutoff", "rotate"}, Goto(r, to)
    PROVE  LET q == [pc |-> to, user |-> req[r].user, token |-> req[r].token, at |-> now]
           IN  /\ req' = [req EXCEPT ![r] = q]
               /\ q.pc = to /\ q.at <= now /\ q.at \in Nat
               /\ q.user \in Users /\ q.token \in Tokens \cup {NoToken}
               /\ to # "rotate" => q \in RestingRequest
<1> DEFINE q == [pc |-> to, user |-> req[r].user, token |-> req[r].token, at |-> now]
<1>1. /\ req[r] \in [pc : {"idle", "register", "insert", "lock", "rotate", "logout", "cutoff"},
                     user : Users, token : Tokens \cup {NoToken}, at : Nat]
      /\ now \in Nat
  BY DEF IdentityInv, IdentityTypeOK
<1>2. req' = [req EXCEPT ![r] = q]
  BY DEF Goto
<1>3. QED
  BY <1>1, <1>2 DEF RestingRequest

\* RequestMoves for one of those records.
LEMMA RequestRests ==
    ASSUME IdentityInv, NEW r \in Requests, NEW q \in RestingRequest,
           req' = [req EXCEPT ![r] = q],
           req[r].pc # "rotate",
           q.at <= now,
           q.pc = "lock" => /\ q.token \in Tokens /\ Issued(q.token)
                            /\ pair[q.token].user = q.user,
           \A t \in Tokens : Issued(t) => Issued(t)' /\ pair'[t] = pair[t],
           \A x \in Requests :
               req[x].pc = "rotate" => refresh'[req[x].token] = refresh[req[x].token],
           UNCHANGED <<lock, now, cutoff, registered>>,
           refresh' \in [Tokens -> {"unused", "live", "revoked"}],
           pair' \in [Tokens -> [user : Users, session : Tokens, parent : Tokens,
                                 issuedAt : Nat]],
           endedAt' \in [Tokens -> Nat],
           \A t \in Tokens : pair'[t].issuedAt <= now /\ endedAt'[t] <= now,
           Lineage', SingleUse', EndedSessionsStayEnded', SignedBeforeTheEnd'
    PROVE  IdentityInv'
<1>1. /\ req' \in [Requests -> [pc : {"idle", "register", "insert", "lock", "rotate",
                                      "logout", "cutoff"},
                                user : Users, token : Tokens \cup {NoToken}, at : Nat]]
      /\ \A x \in Requests : req'[x].at <= now'
      /\ LockProtocol' /\ RefreshTarget'
  BY RequestMoves DEF RestingRequest
<1>2. IdentityTypeOK' /\ TimesInThePast' /\ CutoffKept'
  BY <1>1 DEF IdentityInv, IdentityTypeOK, TimesInThePast, CutoffKept
<1>3. QED
  BY <1>1, <1>2 DEF IdentityInv

---------------------------------------------------------------------------
(* One lemma per group of actions *)

LEMMA BeginStep ==
    ASSUME IdentityInv, NEW r \in Requests, NEW u \in Users, NEW t,
           \/ RegisterCheck(r, u) \/ LoginRead(r, u)
           \/ t \in Tokens /\ (RefreshFind(r, t) \/ LogoutStart(r, t))
    PROVE  IdentityInv'
<1>1. /\ UNCHANGED <<registered, refresh, pair, lock, cutoff, now, endedAt>>
      /\ req[r].pc = "idle"
  BY DEF RegisterCheck, LoginRead, RefreshFind, LogoutStart, Begin
<1>2. Lineage' /\ SingleUse' /\ EndedSessionsStayEnded' /\ SignedBeforeTheEnd'
  BY <1>1, RowsUnchanged
<1>3. ASSUME NEW q \in RestingRequest, req' = [req EXCEPT ![r] = q], q.at <= now,
             q.pc = "lock" => q.token \in Tokens /\ Issued(q.token) /\ pair[q.token].user = q.user
      PROVE  IdentityInv'
  BY <1>1, <1>2, <1>3, RequestRests
     DEF IdentityInv, IdentityTypeOK, TimesInThePast, Issued
<1>4. ASSUME NEW to \in {"register", "lock", "logout"}, NEW v \in Users,
             NEW k \in Tokens \cup {NoToken}, Begin(r, to, v, k),
             to = "lock" => k \in Tokens /\ Issued(k) /\ pair[k].user = v
      PROVE  IdentityInv'
  <2> DEFINE q == [pc |-> to, user |-> v, token |-> k, at |-> 0]
  <2>1. q \in RestingRequest /\ q.at <= now /\ req' = [req EXCEPT ![r] = q]
    BY <1>4 DEF Begin, RestingRequest, IdentityInv, IdentityTypeOK
  <2>2. q.pc = "lock" => q.token \in Tokens /\ Issued(q.token) /\ pair[q.token].user = q.user
    BY <1>4
  <2>3. QED
    BY <2>1, <2>2, <1>3
<1>5. t \in Tokens => pair[t].user \in Users
  BY DEF IdentityInv, IdentityTypeOK
<1>6. CASE RegisterCheck(r, u)
  BY <1>4, <1>6 DEF RegisterCheck
<1>7. CASE t \in Tokens /\ RefreshFind(r, t)
  BY <1>4, <1>5, <1>7 DEF RefreshFind
<1>8. CASE t \in Tokens /\ LogoutStart(r, t)
  BY <1>4, <1>5, <1>8 DEF LogoutStart
<1>9. CASE LoginRead(r, u)
  <2> DEFINE q == [pc |-> "insert", user |-> u, token |-> NoToken, at |-> now]
  <2>1. req' = [req EXCEPT ![r] = q]
    BY <1>9 DEF LoginRead
  <2>2. q \in RestingRequest /\ q.at <= now /\ q.pc # "lock"
    BY DEF RestingRequest, IdentityInv, IdentityTypeOK
  <2>3. QED
    BY <1>3, <2>1, <2>2
<1>10. QED
  BY <1>6, <1>7, <1>8, <1>9

LEMMA RegisterCreateStep ==
    ASSUME IdentityInv, NEW r \in Requests, RegisterCreate(r) PROVE IdentityInv'
<1>1. PICK q \in RestingRequest :
          req' = [req EXCEPT ![r] = q] /\ q.pc # "lock" /\ q.at <= now
  <2>1. CASE Finish(r)
    BY <2>1, NoRequestFits DEF Finish
  <2>2. CASE Goto(r, "insert")
    BY <2>2, GotoFits
  <2>3. QED
    BY <2>1, <2>2 DEF RegisterCreate
<1>2. /\ UNCHANGED <<refresh, pair, lock, cutoff, now, endedAt>>
      /\ registered' \subseteq Users /\ req[r].pc = "register"
  BY DEF RegisterCreate, IdentityInv, IdentityTypeOK
<1>3. /\ req' \in [Requests -> [pc : {"idle", "register", "insert", "lock", "rotate",
                                      "logout", "cutoff"},
                                user : Users, token : Tokens \cup {NoToken}, at : Nat]]
      /\ \A x \in Requests : req'[x].at <= now'
      /\ LockProtocol' /\ RefreshTarget'
  BY <1>1, <1>2, RequestMoves DEF Issued, RestingRequest
<1>4. IdentityTypeOK' /\ TimesInThePast' /\ CutoffKept'
  BY <1>2, <1>3 DEF IdentityInv, IdentityTypeOK, TimesInThePast, CutoffKept
<1>5. Lineage' /\ SingleUse' /\ EndedSessionsStayEnded' /\ SignedBeforeTheEnd'
  BY <1>2, RowsUnchanged
<1>6. QED
  BY <1>3, <1>4, <1>5 DEF IdentityInv

LEMMA OpenSessionStep ==
    ASSUME IdentityInv, NEW r \in Requests, OpenSession(r) PROVE IdentityInv'
<1>1. PICK n \in Tokens : /\ ~Issued(n)
                          /\ GenerateTokens(r, n, n, n)
                          /\ refresh' = [refresh EXCEPT ![n] = "live"]
  BY DEF OpenSession
<1>2. /\ UNCHANGED <<registered, lock, cutoff, now, endedAt>>
      /\ req' = [req EXCEPT ![r] = NoRequest] /\ req[r].pc = "insert"
  BY DEF OpenSession, Finish
<1>3. refresh' = [refresh EXCEPT ![n] = "live", ![n] = IF n = n THEN "live" ELSE "revoked"]
  BY <1>1 DEF IdentityInv, IdentityTypeOK
<1>4. /\ refresh' \in [Tokens -> {"unused", "live", "revoked"}]
      /\ pair' \in [Tokens -> [user : Users, session : Tokens, parent : Tokens, issuedAt : Nat]]
      /\ \A t \in Tokens : pair'[t].issuedAt <= now
      /\ \A t \in Tokens : t # n => pair'[t] = pair[t] /\ refresh'[t] = refresh[t]
      /\ Lineage' /\ SingleUse' /\ EndedSessionsStayEnded' /\ SignedBeforeTheEnd'
  BY <1>1, <1>2, <1>3, NewRow
<1>5. /\ \A t \in Tokens : Issued(t) => Issued(t)' /\ pair'[t] = pair[t]
      /\ \A x \in Requests : req[x].pc = "rotate" => refresh'[req[x].token] = refresh[req[x].token]
  BY <1>1, <1>4 DEF Issued, IdentityInv, RefreshTarget
<1>6. QED
  BY <1>2, <1>4, <1>5, NoRequestFits, RequestRests
     DEF IdentityInv, IdentityTypeOK, TimesInThePast

\* A transaction that revoked every session of the user goes on to the cutoff.
LEMMA RevokeStep ==
    ASSUME IdentityInv, NEW r \in Requests, req[r].pc \in {"lock", "logout"},
           LockFree(req[r].user), RevokeAll(req[r].user), Goto(r, "cutoff"),
           UNCHANGED <<registered, pair, lock, cutoff, now>>
    PROVE  IdentityInv'
<1>1. req[r].user \in Users
  BY DEF IdentityInv, IdentityTypeOK
<1>2. /\ refresh' \in [Tokens -> {"unused", "live", "revoked"}]
      /\ endedAt' \in [Tokens -> Nat]
      /\ \A t \in Tokens : endedAt'[t] <= now
      /\ \A t \in Tokens : Issued(t)' <=> Issued(t)
      /\ \A x \in Requests : req[x].pc = "rotate" =>
             refresh'[req[x].token] = refresh[req[x].token]
      /\ Lineage' /\ SingleUse' /\ EndedSessionsStayEnded' /\ SignedBeforeTheEnd'
  BY <1>1, RevokeAllKeepsRows
<1>3. PICK q \in RestingRequest : req' = [req EXCEPT ![r] = q] /\ q.pc # "lock" /\ q.at <= now
  BY GotoFits
<1>4. QED
  BY <1>2, <1>3, RequestRests DEF IdentityInv, IdentityTypeOK, TimesInThePast

LEMMA RefreshLockStep ==
    ASSUME IdentityInv, NEW r \in Requests, RefreshLock(r) PROVE IdentityInv'
<1> DEFINE t == req[r].token
           u == req[r].user
<1>1. /\ req[r].pc = "lock" /\ LockFree(u)
      /\ UNCHANGED <<registered, pair, cutoff, now>>
      /\ t \in Tokens /\ u \in Users /\ Issued(t) /\ pair[t].user = u
  BY DEF RefreshLock, IdentityInv, IdentityTypeOK, RefreshTarget
<1>2. CASE RevokeAll(u) /\ Goto(r, "cutoff") /\ UNCHANGED lock
  BY <1>1, <1>2, RevokeStep
<1>3. CASE Finish(r) /\ UNCHANGED <<refresh, endedAt, lock>>
  <2>1. Lineage' /\ SingleUse' /\ EndedSessionsStayEnded' /\ SignedBeforeTheEnd'
    BY <1>1, <1>3, RowsUnchanged
  <2>2. req' = [req EXCEPT ![r] = NoRequest]
    BY <1>3 DEF Finish
  <2>3. QED
    BY <1>1, <1>3, <2>1, <2>2, NoRequestFits, RequestRests
       DEF IdentityInv, IdentityTypeOK, TimesInThePast, Issued
<1>4. CASE /\ refresh[t] = "live" /\ Goto(r, "rotate")
           /\ lock' = lock \cup {<<u, r>>} /\ UNCHANGED <<refresh, endedAt>>
  <2> DEFINE q == [pc |-> "rotate", user |-> u, token |-> t, at |-> now]
  <2>1. Lineage' /\ SingleUse' /\ EndedSessionsStayEnded' /\ SignedBeforeTheEnd'
    BY <1>1, <1>4, RowsUnchanged
  <2>2. req' = [req EXCEPT ![r] = q] /\ now \in Nat
    BY <1>4 DEF Goto, IdentityInv, IdentityTypeOK
  <2>3. IdentityTypeOK' /\ TimesInThePast' /\ CutoffKept'
    BY <1>1, <1>4, <2>2 DEF IdentityInv, IdentityTypeOK, TimesInThePast, CutoffKept
  <2>4. \A l \in lock : l[2] \in Requests /\ l[2] # r /\ l[1] # u
    BY <1>1 DEF LockFree, LockProtocol, IdentityInv, IdentityTypeOK
  <2>5. \A x \in Requests : req'[x] = IF x = r THEN q ELSE req[x]
    BY <2>2 DEF IdentityInv, IdentityTypeOK
  <2>6. LockProtocol'
    <3>1. \A x \in Requests : req'[x].pc = "rotate" <=> <<req'[x].user, x>> \in lock'
      BY <1>4, <2>4, <2>5 DEF IdentityInv, LockProtocol
    <3>2. \A l \in lock' : l[1] = req'[l[2]].user
      BY <1>4, <2>4, <2>5 DEF IdentityInv, LockProtocol
    <3>3. \A k, l \in lock' : k[1] = l[1] => k = l
      BY <1>4, <2>4 DEF IdentityInv, LockProtocol
    <3>4. QED
      BY <3>1, <3>2, <3>3 DEF LockProtocol
  <2>7. RefreshTarget'
    BY <1>1, <1>4, <2>5 DEF IdentityInv, RefreshTarget, Issued
  <2>8. QED
    BY <2>1, <2>3, <2>6, <2>7 DEF IdentityInv
<1>5. QED
  BY <1>2, <1>3, <1>4 DEF RefreshLock

\* A request that gives up its lock, with or without a commit.
LEMMA LockReleased ==
    ASSUME IdentityInv, NEW r \in Requests, Finish(r),
           lock' = {l \in lock : l[2] # r},
           \A t \in Tokens : Issued(t) => Issued(t)' /\ pair'[t] = pair[t],
           \A x \in Requests : x # r /\ req[x].pc = "rotate" =>
               refresh'[req[x].token] = refresh[req[x].token],
           UNCHANGED now
    PROVE  /\ req' \in [Requests -> [pc : {"idle", "register", "insert", "lock", "rotate",
                                           "logout", "cutoff"},
                                     user : Users, token : Tokens \cup {NoToken}, at : Nat]]
           /\ \A x \in Requests : req'[x].at <= now'
           /\ LockProtocol' /\ RefreshTarget'
<1>1. \A x \in Requests : req'[x] = IF x = r THEN NoRequest ELSE req[x]
  BY DEF Finish, IdentityInv, IdentityTypeOK
<1>2. /\ req' \in [Requests -> [pc : {"idle", "register", "insert", "lock", "rotate",
                                      "logout", "cutoff"},
                                user : Users, token : Tokens \cup {NoToken}, at : Nat]]
      /\ \A x \in Requests : req'[x].at <= now'
  BY AUserIsUser, <1>1 DEF Finish, NoRequest, IdentityInv, IdentityTypeOK, TimesInThePast
<1>3. \A l \in lock : l[2] \in Requests
  BY DEF IdentityInv, IdentityTypeOK
<1>4. LockProtocol'
  <2>1. \A x \in Requests : req'[x].pc = "rotate" <=> <<req'[x].user, x>> \in lock'
    BY <1>1 DEF NoRequest, IdentityInv, LockProtocol
  <2>2. \A l \in lock' : l[1] = req'[l[2]].user
    BY <1>1, <1>3 DEF IdentityInv, LockProtocol
  <2>3. \A k, l \in lock' : k[1] = l[1] => k = l
    BY DEF IdentityInv, LockProtocol
  <2>4. QED
    BY <2>1, <2>2, <2>3 DEF LockProtocol
<1>5. RefreshTarget'
  BY <1>1 DEF RefreshTarget, NoRequest, IdentityInv
<1>6. QED
  BY <1>2, <1>4, <1>5

LEMMA RefreshCommitStep ==
    ASSUME IdentityInv, NEW r \in Requests, RefreshCommit(r) PROVE IdentityInv'
<1> DEFINE t == req[r].token
<1>1. PICK n \in Tokens :
          /\ ~Issued(n)
          /\ GenerateTokens(r, n, Session(t), t)
          /\ refresh' = [refresh EXCEPT ![n] = "live", ![t] = "revoked"]
  BY DEF RefreshCommit
<1>2. /\ req[r].pc = "rotate" /\ lock' = lock \ {<<req[r].user, r>>} /\ Finish(r)
      /\ UNCHANGED <<registered, cutoff, now, endedAt>>
  BY DEF RefreshCommit
<1>3. t \in Tokens /\ refresh[t] = "live" /\ pair[t].user = req[r].user /\ Session(t) \in Tokens
  BY <1>2 DEF IdentityInv, IdentityTypeOK, RefreshTarget, Session
<1>4. t # n
  BY <1>1, <1>3 DEF Issued
<1>5. refresh' = [refresh EXCEPT ![n] = "live", ![t] = IF t = n THEN "live" ELSE "revoked"]
  BY <1>1, <1>4
<1>6. /\ refresh' \in [Tokens -> {"unused", "live", "revoked"}]
      /\ pair' \in [Tokens -> [user : Users, session : Tokens, parent : Tokens, issuedAt : Nat]]
      /\ \A k \in Tokens : pair'[k].issuedAt <= now
      /\ \A k \in Tokens : k # n => pair'[k] = pair[k]
      /\ \A k \in Tokens : k # n /\ k # t => refresh'[k] = refresh[k]
      /\ Lineage' /\ SingleUse' /\ EndedSessionsStayEnded' /\ SignedBeforeTheEnd'
  BY <1>1, <1>2, <1>3, <1>5, NewRow
<1>7. \A k \in Tokens : Issued(k) => Issued(k)' /\ pair'[k] = pair[k]
  BY <1>1, <1>3, <1>6 DEF Issued, IdentityInv, IdentityTypeOK
<1>8. lock' = {l \in lock : l[2] # r}
  BY <1>2 DEF IdentityInv, IdentityTypeOK, LockProtocol
<1>9. ASSUME NEW x \in Requests, x # r, req[x].pc = "rotate"
      PROVE  refresh'[req[x].token] = refresh[req[x].token]
  <2>1. req[x].user # req[r].user
    BY <1>2, <1>9 DEF IdentityInv, LockProtocol
  <2>2. /\ req[x].token \in Tokens /\ Issued(req[x].token)
        /\ pair[req[x].token].user = req[x].user
    BY <1>9 DEF IdentityInv, RefreshTarget
  <2>3. req[x].token # t /\ req[x].token # n
    BY <1>1, <1>3, <2>1, <2>2
  <2>4. QED
    BY <1>6, <2>2, <2>3
<1>10. /\ req' \in [Requests -> [pc : {"idle", "register", "insert", "lock", "rotate",
                                       "logout", "cutoff"},
                                 user : Users, token : Tokens \cup {NoToken}, at : Nat]]
       /\ \A x \in Requests : req'[x].at <= now'
       /\ LockProtocol' /\ RefreshTarget'
  BY <1>2, <1>7, <1>8, <1>9, LockReleased
<1>11. IdentityTypeOK' /\ TimesInThePast' /\ CutoffKept'
  BY <1>2, <1>6, <1>10 DEF IdentityInv, IdentityTypeOK, TimesInThePast, CutoffKept
<1>12. QED
  BY <1>6, <1>10, <1>11 DEF IdentityInv

LEMMA CrashStep ==
    ASSUME IdentityInv, NEW r \in Requests, Crash(r) PROVE IdentityInv'
<1>1. /\ lock' = {l \in lock : l[2] # r} /\ Finish(r)
      /\ UNCHANGED <<registered, refresh, pair, cutoff, now, endedAt>>
  BY DEF Crash
<1>2. /\ req' \in [Requests -> [pc : {"idle", "register", "insert", "lock", "rotate",
                                      "logout", "cutoff"},
                                user : Users, token : Tokens \cup {NoToken}, at : Nat]]
      /\ \A x \in Requests : req'[x].at <= now'
      /\ LockProtocol' /\ RefreshTarget'
  BY <1>1, LockReleased DEF Issued
<1>3. IdentityTypeOK' /\ TimesInThePast' /\ CutoffKept'
  BY <1>1, <1>2 DEF IdentityInv, IdentityTypeOK, TimesInThePast, CutoffKept
<1>4. Lineage' /\ SingleUse' /\ EndedSessionsStayEnded' /\ SignedBeforeTheEnd'
  BY <1>1, RowsUnchanged
<1>5. QED
  BY <1>2, <1>3, <1>4 DEF IdentityInv

LEMMA RevokeUserAccessStep ==
    ASSUME IdentityInv, NEW r \in Requests, RevokeUserAccess(r) PROVE IdentityInv'
<1>1. /\ UNCHANGED <<registered, refresh, pair, lock, now, endedAt>>
      /\ req' = [req EXCEPT ![r] = NoRequest] /\ req[r].pc = "cutoff"
  BY DEF RevokeUserAccess, Finish
<1>2. cutoff' \in [Users -> [at : Nat, until : Nat]] /\ CutoffKept'
  <2>1. CASE UNCHANGED cutoff
    BY <2>1 DEF IdentityInv, IdentityTypeOK, CutoffKept
  <2>2. ASSUME NEW at \in req[r].at..now,
               cutoff' = [cutoff EXCEPT ![req[r].user] = [at |-> at, until |-> now + CutoffLife]]
        PROVE  cutoff' \in [Users -> [at : Nat, until : Nat]] /\ CutoffKept'
    <3>1. req[r].user \in Users /\ req[r].at \in Nat /\ now \in Nat /\ AccessLife \in Nat
      BY LifeAssumption DEF IdentityInv, IdentityTypeOK
    <3>2. at \in Nat /\ at + AccessLife <= now + CutoffLife /\ now + CutoffLife \in Nat
      BY <3>1 DEF CutoffLife
    <3>3. QED
      BY <2>2, <3>1, <3>2 DEF IdentityInv, IdentityTypeOK, CutoffKept
  <2>3. QED
    BY <2>1, <2>2 DEF RevokeUserAccess
<1>3. /\ req' \in [Requests -> [pc : {"idle", "register", "insert", "lock", "rotate",
                                      "logout", "cutoff"},
                                user : Users, token : Tokens \cup {NoToken}, at : Nat]]
      /\ \A x \in Requests : req'[x].at <= now'
      /\ LockProtocol' /\ RefreshTarget'
  BY <1>1, NoRequestFits, RequestMoves DEF RestingRequest, Issued
<1>4. IdentityTypeOK' /\ TimesInThePast'
  BY <1>1, <1>2, <1>3 DEF IdentityInv, IdentityTypeOK, TimesInThePast
<1>5. Lineage' /\ SingleUse' /\ EndedSessionsStayEnded' /\ SignedBeforeTheEnd'
  BY <1>1, RowsUnchanged
<1>6. QED
  BY <1>2, <1>3, <1>4, <1>5 DEF IdentityInv

LEMMA ClockStep == IdentityInv /\ (Tick \/ UNCHANGED identityVars) => IdentityInv'
<1> SUFFICES ASSUME IdentityInv, Tick \/ UNCHANGED identityVars PROVE IdentityInv'
  OBVIOUS
<1>1. /\ UNCHANGED <<registered, refresh, pair, lock, endedAt, cutoff, req>>
      /\ now' \in Nat /\ now <= now' /\ now' # 0
  BY DEF Tick, tables, identityVars, IdentityInv, IdentityTypeOK, TimesInThePast
<1>2. IdentityTypeOK' /\ CutoffKept' /\ LockProtocol' /\ RefreshTarget'
  BY <1>1 DEF IdentityInv, IdentityTypeOK, CutoffKept, LockProtocol, RefreshTarget, Issued
<1>3. TimesInThePast'
  BY <1>1 DEF IdentityInv, IdentityTypeOK, TimesInThePast
<1>4. Lineage' /\ SingleUse' /\ EndedSessionsStayEnded' /\ SignedBeforeTheEnd'
  BY <1>1, RowsUnchanged
<1>5. QED
  BY <1>2, <1>3, <1>4 DEF IdentityInv

LEMMA IdentityStep == IdentityInv /\ [IdentityNext]_identityVars => IdentityInv'
<1> SUFFICES ASSUME IdentityInv, [IdentityNext]_identityVars PROVE IdentityInv'
  OBVIOUS
<1>1. CASE Tick \/ UNCHANGED identityVars
  BY <1>1, ClockStep
<1>2. ASSUME NEW r \in Requests, LogoutRevoke(r) PROVE IdentityInv'
  BY <1>2, RevokeStep DEF LogoutRevoke
<1>3. ASSUME NEW r \in Requests, NEW t \in Tokens, RefreshFind(r, t) \/ LogoutStart(r, t)
      PROVE  IdentityInv'
  BY <1>3, AUserIsUser, BeginStep
<1>4. ASSUME NEW r \in Requests, NEW u \in Users, RegisterCheck(r, u) \/ LoginRead(r, u)
      PROVE  IdentityInv'
  BY <1>4, BeginStep
<1>5. QED
  BY <1>1, <1>2, <1>3, <1>4, RegisterCreateStep, OpenSessionStep, RefreshLockStep,
     RefreshCommitStep, CrashStep, RevokeUserAccessStep
  DEF IdentityNext

---------------------------------------------------------------------------
(* Theorems *)

THEOREM IdentityInvariant == IdentitySpec => []IdentityInv
<1>1. QED
  BY IdentityInitInv, IdentityStep, PTL DEF IdentitySpec

\* Every variable keeps its type.
THEOREM IdentityTypes == IdentitySpec => []IdentityTypeOK
<1>1. IdentityInv => IdentityTypeOK
  BY DEF IdentityInv
<1>2. QED
  BY <1>1, IdentityInvariant, PTL

\* However many requests present one refresh token, at most one exchanges it.
THEOREM RefreshTokensAreSingleUse == IdentitySpec => []SingleUse
<1>1. IdentityInv => SingleUse
  BY DEF IdentityInv
<1>2. QED
  BY <1>1, IdentityInvariant, PTL

\* No rotation that races a logout or a reuse brings an ended session back.
THEOREM RevocationIsFinal == IdentitySpec => []EndedSessionsStayEnded
<1>1. IdentityInv => EndedSessionsStayEnded
  BY DEF IdentityInv
<1>2. QED
  BY <1>1, IdentityInvariant, PTL

\* With Redis failing at any call, an ended session is over within the life of
\* an access token for both verifiers.
THEOREM FailOpenIsBounded == IdentitySpec => []RevocationBounded
<1>1. IdentityInv => RevocationBounded
  <2> SUFFICES ASSUME IdentityInv, NEW t \in Tokens, endedAt[Session(t)] # 0, Unexpired(t)
      PROVE  now < endedAt[Session(t)] + AccessLife
    BY DEF RevocationBounded, GatewayAccepts, ValidateToken
  <2>1. pair[t].issuedAt <= endedAt[Session(t)]
    BY DEF IdentityInv, SignedBeforeTheEnd
  <2>2. now < pair[t].issuedAt + AccessLife
    BY DEF Unexpired
  <2>3. /\ Session(t) \in Tokens
        /\ pair[t].issuedAt \in Nat /\ now \in Nat
    BY DEF IdentityInv, IdentityTypeOK, Session
  <2>4. endedAt[Session(t)] \in Nat
    BY <2>3 DEF IdentityInv, IdentityTypeOK
  <2>5. QED
    BY <2>1, <2>2, <2>3, <2>4, LifeAssumption
<1>2. QED
  BY <1>1, IdentityInvariant, PTL

\* Redis forgets a cutoff only after the tokens it covers have expired.
THEOREM CutoffLastsLongEnough == IdentitySpec => []CutoffOutlivesTokens
<1>1. IdentityInv => CutoffOutlivesTokens
  <2> SUFFICES ASSUME IdentityInv, NEW t \in Tokens,
                      cutoff[pair[t].user].at # 0, cutoff[pair[t].user].until <= now,
                      pair[t].issuedAt <= cutoff[pair[t].user].at
               PROVE  ~(now < pair[t].issuedAt + AccessLife)
    BY DEF CutoffOutlivesTokens, Unexpired
  <2>1. pair[t].user \in Users /\ pair[t].issuedAt \in Nat /\ now \in Nat
    BY DEF IdentityInv, IdentityTypeOK
  <2>2. /\ cutoff[pair[t].user].at \in Nat /\ cutoff[pair[t].user].until \in Nat
        /\ cutoff[pair[t].user].at + AccessLife <= cutoff[pair[t].user].until
    BY <2>1 DEF IdentityInv, IdentityTypeOK, CutoffKept
  <2>3. QED
    BY <2>1, <2>2, LifeAssumption
<1>2. QED
  BY <1>1, IdentityInvariant, PTL
===========================================================================
