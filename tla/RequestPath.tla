---------------------------- MODULE RequestPath ----------------------------
(***************************************************************************)
(* A request from the gateway to the service that handles it and, for an   *)
(* order, on to the catalog through the resilient client: a retry loop     *)
(* inside a circuit breaker that all requests of a method share.           *)
(*                                                                         *)
(* Three timers of different lengths watch one order: the gateway gives a  *)
(* call 3 s, an attempt at the catalog has 5 s (10 s for stock), and the   *)
(* breaker gives up on all attempts together one second later.  A timer    *)
(* stops whoever waits; it does not stop what runs.                        *)
(***************************************************************************)
EXTENDS ErrorModel, FiniteSets

CONSTANTS
    Calls,          \* requests of clients, each made once
    RoutesOf,       \* the routes each request may be for
    RoleOf,         \* NONE without a valid token
    LineItems,      \* products in the basket of each request
    MaxAttempts,    \* maxRetries + 1
    CatalogThrows,  \* what the catalog's handler of each method may throw
    OrderThrows,    \* what the order service's own steps may throw
    OtherThrows     \* what the handlers of the other routes may throw

Methods == {"GetProduct", "ReserveStock", "ReleaseStock"}

AuthRoutes == {"register", "login", "refresh"}
OpenRoutes == AuthRoutes \cup {"products", "product"}
AdminRoutes == {"createProduct", "updateProduct", "deleteProduct"}
ProtectedRoutes ==
    AdminRoutes \cup {"me", "logout", "createOrder", "updateOrder", "orders", "order"}
Routes == OpenRoutes \cup ProtectedRoutes

ASSUME CallsAssumption ==
    /\ RoutesOf \in [Calls -> SUBSET Routes]
    /\ RoleOf \in [Calls -> {"NONE", "USER", "ADMIN"}]
    /\ LineItems \in [Calls -> Nat \ {0}]
    /\ MaxAttempts \in Nat \ {0}
    /\ DOMAIN CatalogThrows = Methods

\* Services throw domain errors, Prisma's, or errors without a meaning.
ASSUME ThrowsAssumption ==
    /\ \A m \in Methods : \A e \in CatalogThrows[m] : IsServiceError(e)
    /\ \A e \in OrderThrows \cup OtherThrows : IsServiceError(e)

VARIABLES
    route,      \* what each request asks for
    answer,     \* the gateway's response, and what it came from
    handler,    \* where the service's handler is
    priced,     \* products priced so far
    thrown,     \* what the handler ended with
    loop,       \* the retry loop of the handler's call to the catalog
    breaker,    \* opossum: one circuit breaker for each method
    ordered,    \* requests whose order exists
    cause       \* history: the error that decided the outcome, and where it arose

pathVars == <<route, answer, handler, priced, thrown, loop, breaker, ordered, cause>>

NoAnswer == [by |-> "nobody", http |-> 0, code |-> "NONE"]
NoLoop == [pc |-> "idle", method |-> "none", tries |-> 0, awaited |-> FALSE]
NoCause == [at |-> "none", error |-> NoFailure]

\* The stages of createOrder that call the catalog.
CatalogMethod ==
    [price |-> "GetProduct", reserve |-> "ReserveStock", release |-> "ReleaseStock"]
Remote == DOMAIN CatalogMethod
MethodOf(stage) == CatalogMethod[stage]

RequestTypeOK ==
    /\ route \in [Calls -> Routes \cup {"none"}]
    /\ \A c \in Calls :
          /\ answer[c].by \in {"nobody", "gateway", "service", "deadline", "connection"}
          /\ answer[c].http \in {0, 200, 201} \cup 400..599
          /\ priced[c] \in 0..LineItems[c]
          /\ loop[c].pc = "idle" => ~loop[c].awaited
          /\ loop[c].awaited => handler[c] \in Remote /\ loop[c].method = MethodOf(handler[c])
    /\ handler \in [Calls -> Remote \cup {"none", "begin", "commit", "recover", "ended"}]
    /\ loop \in [Calls -> [pc : {"idle", "attempt", "backoff"}, method : Methods \cup {"none"},
                           tries : 0..MaxAttempts, awaited : BOOLEAN]]
    /\ breaker \in [Methods -> [state : {"closed", "open", "half"}, trial : BOOLEAN,
                                fires : Nat, failures : Nat]]
    /\ ordered \subseteq Calls

PathInit ==
    /\ route = [c \in Calls |-> "none"]
    /\ answer = [c \in Calls |-> NoAnswer]
    /\ handler = [c \in Calls |-> "none"]
    /\ priced = [c \in Calls |-> 0]
    /\ thrown = [c \in Calls |-> NoFailure]
    /\ loop = [c \in Calls |-> NoLoop]
    /\ breaker = [m \in Methods |->
                     [state |-> "closed", trial |-> FALSE, fires |-> 0, failures |-> 0]]
    /\ ordered = {}
    /\ cause = [c \in Calls |-> NoCause]

(* Operators named Mutant... are wrong on purpose: see StockReservation.               *)
---------------------------------------------------------------------------
(* The gateway *)

Answered(c) == answer[c].by # "nobody"
Answer(c, by, response) ==
    answer' = [answer EXCEPT ![c] = [by |-> by, http |-> response.http, code |-> response.code]]

GatewayErrors ==
    {ApiError(429, "HTTP_429"), Failure("zod", "NONE", 0, "NONE"),
     Failure("json", "NONE", 0, "NONE"), Failure("size", "NONE", 0, "NONE"),
     Domain("UNAUTHENTICATED"), Domain("FORBIDDEN"), Domain("DEPENDENCY_UNAVAILABLE")}

\* Limiters, body parser, token check, schemas and role check stand before the routes.
\* A limiter whose store fails lets requests pass; the token check refuses
\* administrators, and only them, while Redis does not answer.
RefusedWith(c, r, e) ==
    /\ e = Domain("UNAUTHENTICATED") => r \in ProtectedRoutes
    /\ e = Domain("DEPENDENCY_UNAVAILABLE") => r \in ProtectedRoutes /\ RoleOf[c] = "ADMIN"
    /\ e = Domain("FORBIDDEN") => r \in AdminRoutes /\ RoleOf[c] = "USER"

Admitted(c, r) ==
    /\ r \in ProtectedRoutes => RoleOf[c] # "NONE"
    /\ r \in AdminRoutes => RoleOf[c] = "ADMIN"

Arrives(c, r) ==
    /\ route[c] = "none" /\ r \in RoutesOf[c]
    /\ route' = [route EXCEPT ![c] = r]
    /\ UNCHANGED <<priced, thrown, loop, breaker, ordered, cause>>

Refuse(c) ==
    \E r \in Routes, e \in GatewayErrors :
        /\ Arrives(c, r)
        /\ RefusedWith(c, r, e)
        /\ Answer(c, "gateway", Respond(e))
        /\ UNCHANGED handler

\* The call reaches the service, or the channel has no connection.
Forward(c) ==
    \E r \in Routes :
        /\ Arrives(c, r)
        /\ Admitted(c, r)
        /\ \/ handler' = [handler EXCEPT ![c] = "begin"] /\ UNCHANGED answer
           \/ Answer(c, "connection", Respond(Transport("UNAVAILABLE"))) /\ UNCHANGED handler

Success(r) == IF r \in {"register", "createOrder", "createProduct"} THEN 201 ELSE 200

\* unary(): the handler's result, or its error as a gRPC status.
Reply(c) ==
    /\ handler[c] = "ended" /\ ~Answered(c)
    /\ Answer(c, "service",
              IF thrown[c] = NoFailure
              THEN [http |-> Success(route[c]), code |-> "NONE"]
              ELSE Respond(ToGrpcError(thrown[c])))
    /\ UNCHANGED <<route, handler, priced, thrown, loop, breaker, ordered, cause>>

\* The deadline of 3 s passes, or the connection breaks; the handler runs on.
GatewayDeadline(c) ==
    /\ handler[c] # "none" /\ ~Answered(c)
    /\ Answer(c, "deadline", Respond(Transport("DEADLINE_EXCEEDED")))
    /\ UNCHANGED <<route, handler, priced, thrown, loop, breaker, ordered, cause>>

ConnectionLost(c) ==
    /\ handler[c] # "none" /\ ~Answered(c)
    /\ Answer(c, "connection", Respond(Transport("UNAVAILABLE")))
    /\ UNCHANGED <<route, handler, priced, thrown, loop, breaker, ordered, cause>>

---------------------------------------------------------------------------
(* The handlers *)

Goto(c, stage) == handler' = [handler EXCEPT ![c] = stage]
\* A failed release changes nothing for the client.
Blame(c, e) ==
    cause' = IF handler[c] = "release" THEN cause
             ELSE [cause EXCEPT ![c] = [at |-> handler[c], error |-> e]]
End(c, e) == Goto(c, "ended") /\ thrown' = [thrown EXCEPT ![c] = e]

\* getOrderById: an order is shown to its customer and to administrators.
GetOrderById(c) ==
    /\ handler[c] = "begin" /\ route[c] = "order"
    /\ \/ End(c, NoFailure) /\ UNCHANGED cause
       \/ \E e \in OrderThrows \cup {Domain("NOT_FOUND"), Domain("FORBIDDEN")} :
             /\ e = Domain("FORBIDDEN") => RoleOf[c] # "ADMIN"
             /\ End(c, e) /\ Blame(c, e)
    /\ UNCHANGED <<route, answer, priced, loop, breaker, ordered>>

\* Every other route but createOrder: one handler, no calls to other services.
HandleOther(c) ==
    /\ handler[c] = "begin" /\ route[c] \notin {"createOrder", "order"}
    /\ \/ End(c, NoFailure) /\ UNCHANGED cause
       \/ \E e \in OtherThrows : End(c, e) /\ Blame(c, e)
    /\ UNCHANGED <<route, answer, priced, loop, breaker, ordered>>

\* createOrder: validation and the idempotency lookup, which may find the order.
BeginOrder(c) ==
    /\ handler[c] = "begin" /\ route[c] = "createOrder"
    /\ \/ Goto(c, "price") /\ UNCHANGED <<thrown, ordered, cause>>
       \/ End(c, NoFailure) /\ ordered' = ordered \cup {c} /\ UNCHANGED cause
       \/ \E e \in OrderThrows \cup {Domain("VALIDATION_ERROR")} :
             End(c, e) /\ Blame(c, e) /\ UNCHANGED ordered
    /\ UNCHANGED <<route, answer, priced, loop, breaker>>

\* What the handler does with the outcome e of its call to the catalog, NoFailure if it
\* succeeded.
Settle(c, e) ==
    \/ /\ handler[c] = "price" /\ e = NoFailure
       /\ priced' = [priced EXCEPT ![c] = priced[c] + 1]
       /\ Goto(c, IF priced[c] + 1 = LineItems[c] THEN "reserve" ELSE "price")
       /\ UNCHANGED thrown
    \/ /\ handler[c] = "price" /\ e # NoFailure
       /\ End(c, Domain(IF e.grpc = "NOT_FOUND"
                        THEN "VALIDATION_ERROR" ELSE "DEPENDENCY_UNAVAILABLE"))
       /\ UNCHANGED priced
    \/ /\ handler[c] = "reserve" /\ e = NoFailure
       /\ Goto(c, "commit") /\ UNCHANGED <<priced, thrown>>
    \/ /\ handler[c] = "reserve" /\ e # NoFailure
       /\ End(c, IF e.kind = "grpc" THEN FromGrpcError(e) ELSE e)
       /\ UNCHANGED priced
    \/ /\ handler[c] = "release"         \* a failed release is logged
       /\ Goto(c, "ended") /\ UNCHANGED <<priced, thrown>>

\* The order transaction.  When the connection is lost it may have committed.
Commit(c) ==
    /\ handler[c] = "commit"
    /\ \/ End(c, NoFailure) /\ ordered' = ordered \cup {c} /\ UNCHANGED cause
       \/ \E e \in OrderThrows :
             /\ Goto(c, "recover") /\ Blame(c, e)
             /\ thrown' = [thrown EXCEPT ![c] = e]
             /\ \/ UNCHANGED ordered
                \/ e = Prisma("P1017") /\ ordered' = ordered \cup {c}
    /\ UNCHANGED <<route, answer, priced, loop, breaker>>

\* Looking for the order may fail too; when there is none its stock goes back.
Recover(c) ==
    /\ handler[c] = "recover"
    /\ \/ End(c, Prisma("P1001")) /\ Blame(c, Prisma("P1001"))
       \/ Goto(c, "ended") /\ UNCHANGED <<thrown, cause>>
       \/ c \notin ordered /\ Goto(c, "release") /\ UNCHANGED <<thrown, cause>>
    /\ UNCHANGED <<route, answer, priced, loop, breaker, ordered>>

---------------------------------------------------------------------------
(* The resilient client: breaker.fire around a loop of attempts *)

Retryable(e) ==
    e.kind = "grpc"
    /\ e.grpc \in {"UNAVAILABLE", "DEADLINE_EXCEEDED", "RESOURCE_EXHAUSTED", "ABORTED"}

\* Closed, or half open and nobody has been let through yet.
LetsThrough(b) == b.state = "closed" \/ (b.state = "half" /\ ~b.trial)

Fired(b) == [b EXCEPT !.fires = b.fires + 1, !.trial = (b.state = "half")]
Rejected(b) == [b EXCEPT !.fires = b.fires + 1]
Succeeded(b) == IF b.state = "half" THEN [b EXCEPT !.state = "closed", !.trial = FALSE] ELSE b

\* No volumeThreshold is set: the first failure of a quiet window is 100 % of it.
Failed(b) ==
    LET n == b.failures + 1 IN
    IF b.state = "half" \/ (b.state = "closed" /\ 2 * n > b.fires)
    THEN [b EXCEPT !.state = "open", !.trial = FALSE, !.failures = n]
    ELSE [b EXCEPT !.failures = n]

SetBreaker(m, b) == breaker' = [breaker EXCEPT ![m] = b]

Fire(c) ==
    LET m == MethodOf(handler[c]) IN
    /\ handler[c] \in Remote /\ loop[c].pc = "idle"
    /\ IF LetsThrough(breaker[m])
       THEN /\ loop' = [loop EXCEPT ![c] =
                           [pc |-> "attempt", method |-> m, tries |-> 1, awaited |-> TRUE]]
            /\ SetBreaker(m, Fired(breaker[m]))
            /\ UNCHANGED <<handler, priced, thrown, cause>>
       ELSE /\ Settle(c, Plain("EOPENBREAKER"))
            /\ SetBreaker(m, Rejected(breaker[m]))
            /\ Blame(c, Plain("EOPENBREAKER"))
            /\ UNCHANGED loop
    /\ UNCHANGED <<route, answer, ordered>>

\* The loop is over.  The handler hears of it unless the breaker gave up before.
LoopEnds(c, e) ==
    /\ loop' = [loop EXCEPT ![c] = NoLoop]
    /\ IF loop[c].awaited
       THEN /\ Settle(c, e)
            /\ LET m == loop[c].method IN
               SetBreaker(m, IF e = NoFailure THEN Succeeded(breaker[m]) ELSE Failed(breaker[m]))
       ELSE UNCHANGED <<handler, priced, thrown, breaker>>

AttemptOk(c) ==
    /\ loop[c].pc = "attempt"
    /\ LoopEnds(c, NoFailure)
    /\ UNCHANGED <<route, answer, ordered, cause>>

\* An attempt failed with e: another one after a backoff, or the end.
AttemptFailed(c, e, origin) ==
    /\ IF Retryable(e) /\ loop[c].tries < MaxAttempts
       THEN /\ loop' = [loop EXCEPT ![c].pc = "backoff"]
            /\ UNCHANGED <<handler, priced, thrown, breaker, cause>>
       ELSE /\ LoopEnds(c, e)
            /\ IF loop[c].awaited THEN Blame(c, origin) ELSE UNCHANGED cause
    /\ UNCHANGED <<route, answer, ordered>>

\* The catalog's handler threw, or the catalog is not reached.
AttemptFails(c) ==
    /\ loop[c].pc = "attempt"
    /\ \E e \in CatalogThrows[loop[c].method] : AttemptFailed(c, ToGrpcError(e), e)
AttemptUnreachable(c) ==
    /\ loop[c].pc = "attempt"
    /\ AttemptFailed(c, Transport("UNAVAILABLE"), Transport("UNAVAILABLE"))

\* 5 s or 10 s: the gateway, which gave the whole call 3 s, has answered.
AttemptDeadline(c) ==
    /\ loop[c].pc = "attempt" /\ Answered(c)
    /\ AttemptFailed(c, Transport("DEADLINE_EXCEEDED"), Transport("DEADLINE_EXCEEDED"))

MutantRetry(c) ==
    /\ loop[c].pc = "backoff"
    /\ loop' = [loop EXCEPT ![c].pc = "attempt"]
    /\ UNCHANGED <<route, answer, handler, priced, thrown, breaker, ordered, cause>>

Retry(c) ==
    /\ loop[c].pc = "backoff"
    /\ loop' = [loop EXCEPT ![c].pc = "attempt", ![c].tries = loop[c].tries + 1]
    /\ UNCHANGED <<route, answer, handler, priced, thrown, breaker, ordered, cause>>

\* The breaker does not count a call it gave up on.
MutantBreakerTimeout(c) ==
    /\ loop[c].awaited /\ loop[c].tries > 1 /\ Answered(c)
    /\ loop' = [loop EXCEPT ![c].awaited = FALSE]
    /\ Settle(c, Plain("ETIMEDOUT")) /\ Blame(c, Plain("ETIMEDOUT"))
    /\ UNCHANGED <<route, answer, breaker, ordered>>

\* The loop's own result still reaches the handler.
MutantAwaitedTwice(c) ==
    /\ loop[c].awaited /\ loop[c].tries > 1 /\ Answered(c)
    /\ SetBreaker(loop[c].method, Failed(breaker[loop[c].method]))
    /\ Settle(c, Plain("ETIMEDOUT")) /\ Blame(c, Plain("ETIMEDOUT"))
    /\ UNCHANGED <<route, answer, loop, ordered>>

\* One second after the deadline of a first attempt; the loop goes on, awaited by nobody.
BreakerTimeout(c) ==
    /\ loop[c].awaited /\ loop[c].tries > 1 /\ Answered(c)
    /\ loop' = [loop EXCEPT ![c].awaited = FALSE]
    /\ SetBreaker(loop[c].method, Failed(breaker[loop[c].method]))
    /\ Settle(c, Plain("ETIMEDOUT"))
    /\ Blame(c, Plain("ETIMEDOUT"))
    /\ UNCHANGED <<route, answer, ordered>>

\* resetTimeout, 10 s after the breaker opened.
ResetTimeout(m) ==
    /\ breaker[m].state = "open"
    /\ breaker' = [breaker EXCEPT ![m].state = "half"]
    /\ UNCHANGED <<route, answer, handler, priced, thrown, loop, ordered, cause>>

\* Ten seconds without a call: the rolling window is empty again.
WindowPasses(m) ==
    /\ breaker[m].fires > 0
    /\ breaker' = [breaker EXCEPT ![m].fires = 0, ![m].failures = 0]
    /\ UNCHANGED <<route, answer, handler, priced, thrown, loop, ordered, cause>>

---------------------------------------------------------------------------

LoopStep(c) ==
    AttemptOk(c) \/ AttemptFails(c) \/ AttemptUnreachable(c) \/ AttemptDeadline(c) \/ Retry(c)
    \/ BreakerTimeout(c)

HandlerStep(c) ==
    GetOrderById(c) \/ HandleOther(c) \/ BeginOrder(c) \/ Fire(c) \/ Commit(c) \/ Recover(c)
    \/ LoopStep(c)

PathNext ==
    \/ \E c \in Calls :
          Refuse(c) \/ Forward(c) \/ Reply(c) \/ GatewayDeadline(c) \/ ConnectionLost(c)
          \/ HandlerStep(c)
    \/ \E m \in Methods : ResetTimeout(m) \/ WindowPasses(m)

\* Handlers run on, attempts end at their deadline, backoffs and deadlines pass: while any
\* of that is due, some of it happens.  No attempt need succeed, no service need reply, no
\* breaker need close, and no request is favoured.
PathFairness == WF_pathVars(\E c \in Calls : HandlerStep(c) \/ GatewayDeadline(c))

PathSpec == PathInit /\ [][PathNext]_pathVars
FairPathSpec == PathSpec /\ PathFairness

---------------------------------------------------------------------------
(* Properties *)

\* What a client should see of an error: the status and code its class was built with.
Meaning(e) ==
    IF e.kind = "domain" THEN [http |-> e.http, code |-> e.code]
    ELSE IF HasMeaning(e) THEN [http |-> DomainStatus[PrismaMeanings[e.code]][1],
                                code |-> PrismaMeanings[e.code]]
    ELSE IF e.kind = "grpc" THEN [http |-> 503, code |-> "UPSTREAM_ERROR"]
    ELSE [http |-> 500, code |-> "INTERNAL"]

\* The answer for an error of the pricing step: a missing product is the client's mistake.
Expected(c) ==
    LET e == cause[c].error IN
    IF cause[c].at # "price" THEN Meaning(e)
    ELSE Meaning(Domain(IF Meaning(e).code = "NOT_FOUND"
                             THEN "VALIDATION_ERROR" ELSE "DEPENDENCY_UNAVAILABLE"))

\* Through two services, retries and a breaker, the answer says what happened: a service's
\* answer carries status and code of the error that stopped the request, wherever that
\* arose; success means that the order exists; and after a 4xx it does not, then or later.
FaithfulAnswers ==
    \A c \in Calls :
        /\ answer[c].by = "service" =>
              IF cause[c] = NoCause
              THEN answer[c].http \in {200, 201} /\ (route[c] = "createOrder" => c \in ordered)
              ELSE answer[c].http = Expected(c).http /\ answer[c].code = Expected(c).code
        /\ answer[c].http \in 400..499 => c \notin ordered

\* A breaker is never stuck half open: while it refuses everybody because a trial call is
\* out, somebody still awaits a call of that method, which opens or closes it.
NoLostTrial ==
    \A m \in Methods : breaker[m].state = "half" /\ breaker[m].trial =>
        \E c \in Calls : loop[c].awaited /\ loop[c].method = m

\* Whatever fails, a request is answered, its handler ends and no attempt is left running.
CallsEnd ==
    \A c \in Calls :
        handler[c] # "none" ~> Answered(c) /\ handler[c] = "ended" /\ loop[c].pc = "idle"

\* docs/API.md: "Deadlines map to 504 and unavailable services to 503."  An order that an
\* open breaker kept from the catalog is answered that the service is unavailable.
UnavailableIs503 ==
    \A c \in Calls :
        answer[c].by = "service" /\ cause[c].error = Plain("EOPENBREAKER") => answer[c].http = 503
=============================================================================
