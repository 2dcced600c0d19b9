------------------------- MODULE RequestPathProofs -------------------------
(***************************************************************************)
(* Proofs about RequestPath, for any number of requests, baskets, attempts *)
(* and any errors a service can throw.  First what the wire format keeps   *)
(* of an error, then the inductive invariant PathInv, then one lemma per   *)
(* action.                                                                 *)
(***************************************************************************)
EXTENDS RequestPath, TLAPS

---------------------------------------------------------------------------
(* Errors on the wire *)

\* Every domain error has an error status; only NOT_FOUND has the gRPC status of that name.
LEMMA DomainStatuses ==
    ASSUME NEW code \in DomainCodes
    PROVE  /\ code # "NONE" /\ code # "INTERNAL"
           /\ DomainStatus[code][1] \in 400..599
           /\ DomainStatus[code][2] = "NOT_FOUND" <=> code = "NOT_FOUND"
  BY DEF DomainCodes, DomainStatus

\* What Prisma's errors are translated to are codes of domain errors.
LEMMA MeaningsAreCodes ==
    ASSUME NEW code \in DOMAIN PrismaMeanings PROVE PrismaMeanings[code] \in DomainCodes
  BY DEF DomainCodes, DomainStatus, PrismaMeanings

\* The three forms of what a service throws.
LEMMA OnTheWire ==
    ASSUME NEW e, IsServiceError(e)
    PROVE  LET m == Meaning(e) IN
           /\ m.http \in 400..599 /\ m.code # "NONE"
           /\ m = [http |-> m.http, code |-> m.code]
           /\ \E grpc : /\ ToGrpcError(e) = Failure("grpc", m.code, m.http, grpc)
                        /\ grpc = "NOT_FOUND" <=> m.code = "NOT_FOUND"
<1>1. CASE \E code \in DomainCodes : e = Domain(code)
  <2>1. PICK code \in DomainCodes : e = Domain(code) BY <1>1
  <2>2. NormalizeError(e) = e BY <2>1 DEF NormalizeError, Domain, Failure
  <2>3. Meaning(e) = [http |-> DomainStatus[code][1], code |-> code]
    BY <2>1 DEF Meaning, Domain, Failure
  <2>4. ToGrpcError(e) = Failure("grpc", code, DomainStatus[code][1], DomainStatus[code][2])
    BY <2>1, <2>2 DEF ToGrpcError, Domain, Failure
  <2>. QED BY <2>3, <2>4, DomainStatuses
<1>2. CASE e = Prisma(e.code) /\ HasMeaning(e)
  <2>. DEFINE code == PrismaMeanings[e.code]
  <2>1. code \in DomainCodes BY <1>2, MeaningsAreCodes DEF HasMeaning
  <2>2. NormalizeError(e) = Domain(code) BY <1>2 DEF NormalizeError, Prisma, Failure
  <2>3. Meaning(e) = [http |-> DomainStatus[code][1], code |-> code]
    BY <1>2 DEF Meaning, Prisma, Failure
  <2>4. ToGrpcError(e) = Failure("grpc", code, DomainStatus[code][1], DomainStatus[code][2])
    BY <2>2 DEF ToGrpcError, Domain, Failure
  <2>. QED BY <2>1, <2>3, <2>4, DomainStatuses
<1>3. CASE (e = Prisma(e.code) /\ ~HasMeaning(e)) \/ e = Plain(e.code)
  <2>1. e.kind \in {"prisma", "plain"} /\ ~HasMeaning(e)
    BY <1>3 DEF Prisma, Plain, Failure, HasMeaning
  <2>2. NormalizeError(e) = NoFailure BY <2>1 DEF NormalizeError
  <2>3. Meaning(e) = [http |-> 500, code |-> "INTERNAL"] BY <2>1 DEF Meaning
  <2>4. ToGrpcError(e) = Failure("grpc", "INTERNAL", 500, "INTERNAL")
    BY <2>2 DEF ToGrpcError, NoFailure, Failure
  <2>. QED BY <2>3, <2>4
<1>. QED BY <1>1, <1>2, <1>3 DEF IsServiceError

\* A caller reads a status with metadata as the error it was made from; throwing that on
\* puts the same status on the wire, and the gateway answers with its HTTP status and code.
LEMMA FromTheWire ==
    ASSUME NEW code, NEW http \in 400..599, NEW grpc, code # "NONE"
    PROVE  LET w == Failure("grpc", code, http, grpc) IN
           /\ FromGrpcError(w) = Failure("domain", code, http, grpc)
           /\ ToGrpcError(FromGrpcError(w)) = w
           /\ Respond(w) = [http |-> http, code |-> code]
<1>. DEFINE w == Failure("grpc", code, http, grpc)
<1>1. FromGrpcError(w) = Failure("domain", code, http, grpc) BY DEF FromGrpcError, Failure
<1>2. ToGrpcError(FromGrpcError(w)) = w BY <1>1 DEF ToGrpcError, NormalizeError, Failure
<1>3. Respond(w) = [http |-> http, code |-> code] BY <1>1 DEF Respond, Failure
<1>. QED BY <1>1, <1>2, <1>3

---------------------------------------------------------------------------
(* The inductive invariant *)

Shapes ==
    /\ route \in [Calls -> Routes \cup {"none"}]
    /\ handler \in [Calls -> Remote \cup {"none", "begin", "commit", "recover", "ended"}]
    /\ loop \in [Calls -> [pc : {"idle", "attempt", "backoff"}, method : Methods \cup {"none"},
                           tries : 0..MaxAttempts, awaited : BOOLEAN]]
    /\ breaker \in [Methods -> [state : {"closed", "open", "half"}, trial : BOOLEAN,
                                fires : Nat, failures : Nat]]
    /\ priced \in [Calls -> Nat]
    /\ DOMAIN answer = Calls /\ DOMAIN thrown = Calls /\ DOMAIN cause = Calls
    /\ ordered \subseteq Calls

\* A retry loop, and who awaits it.
LoopInv(c) ==
    /\ loop[c].pc = "idle" => ~loop[c].awaited
    /\ loop[c].awaited => handler[c] \in Remote /\ loop[c].method = MethodOf(handler[c])
    /\ loop[c].pc # "idle" => loop[c].method \in Methods
    /\ loop[c].pc = "backoff" => loop[c].tries < MaxAttempts

\* Who may have answered, and with what.
AnswerInv(c) ==
    /\ answer[c].by \in {"nobody", "gateway", "service", "deadline", "connection"}
    /\ answer[c].http \in {0, 200, 201} \cup 400..599
    /\ answer[c].by = "nobody" => answer[c].http = 0
    /\ answer[c].by = "gateway" => handler[c] = "none"
    /\ answer[c].by = "service" => handler[c] = "ended"
    /\ answer[c].by = "deadline" => answer[c].http = 504
    /\ answer[c].by = "connection" => answer[c].http = 503
    /\ Answered(c) => route[c] # "none"

\* The error the client has to hear of.
Told(c) == Respond(ToGrpcError(thrown[c]))

\* An order exists only behind a transaction that committed, whatever was thrown.
Harmless(e) == e \in {NoFailure, Prisma("P1017"), Prisma("P1001")}

StageInv(c) ==
    /\ route[c] = "none" => handler[c] = "none"
    /\ handler[c] \in {"none", "begin"} => priced[c] = 0
    /\ handler[c] = "price" => priced[c] < LineItems[c]
    /\ priced[c] <= LineItems[c]
    /\ handler[c] \in {"none", "begin", "price", "reserve", "commit"} =>
          cause[c] = NoCause /\ c \notin ordered
    /\ handler[c] \in {"price", "reserve", "commit", "recover", "release"} =>
          route[c] = "createOrder"
    /\ handler[c] \in {"recover", "release"} =>
          /\ IsServiceError(thrown[c])
          /\ cause[c] = [at |-> "commit", error |-> thrown[c]]
    /\ handler[c] = "release" => c \notin ordered
    /\ c \in ordered => Harmless(thrown[c])

\* What an ended handler holds for the client.
EndInv(c) == handler[c] = "ended" =>
    /\ cause[c] = NoCause =>
          thrown[c] = NoFailure /\ (route[c] = "createOrder" => c \in ordered)
    /\ cause[c] # NoCause /\ ~Answered(c) =>
          /\ thrown[c] # NoFailure
          /\ Told(c) = Expected(c)
          /\ Told(c).http \in 400..599

Faithful(c) ==
    /\ answer[c].by = "service" =>
          IF cause[c] = NoCause
          THEN answer[c].http \in {200, 201} /\ (route[c] = "createOrder" => c \in ordered)
          ELSE answer[c].http = Expected(c).http /\ answer[c].code = Expected(c).code
    /\ answer[c].http \in 400..499 => c \notin ordered

CallInv(c) == LoopInv(c) /\ AnswerInv(c) /\ StageInv(c) /\ EndInv(c) /\ Faithful(c)

\* Whoever was let through a half-open breaker is still awaited.
BreakerInv == \A m \in Methods :
    breaker[m].trial =>
        /\ breaker[m].state = "half"
        /\ \E c \in Calls : loop[c].awaited /\ loop[c].method = m

PathInv == Shapes /\ (\A c \in Calls : CallInv(c)) /\ BreakerInv

\* A step of one call leaves what the invariant says of the others.
OthersKept(c) == \A d \in Calls \ {c} :
    /\ route'[d] = route[d] /\ answer'[d] = answer[d] /\ handler'[d] = handler[d]
    /\ priced'[d] = priced[d] /\ thrown'[d] = thrown[d] /\ loop'[d] = loop[d]
    /\ cause'[d] = cause[d] /\ (d \in ordered' <=> d \in ordered)

\* What no step of c touches keeps what the invariant says of it.
LEMMA Frame ==
    ASSUME NEW c \in Calls, NEW d \in Calls \ {c}, OthersKept(c), CallInv(d)
    PROVE  CallInv(d)'
<1>1. /\ route'[d] = route[d] /\ answer'[d] = answer[d] /\ handler'[d] = handler[d]
      /\ priced'[d] = priced[d] /\ thrown'[d] = thrown[d] /\ loop'[d] = loop[d]
      /\ cause'[d] = cause[d] /\ (d \in ordered' <=> d \in ordered)
  BY DEF OthersKept
<1>2. Expected(d)' = Expected(d) /\ Told(d)' = Told(d) BY <1>1 DEF Expected, Told
<1>3. LoopInv(d)' BY <1>1 DEF CallInv, LoopInv
<1>4. AnswerInv(d)' BY <1>1 DEF CallInv, AnswerInv, Answered
<1>5. StageInv(d)' BY <1>1 DEF CallInv, StageInv
<1>6. EndInv(d)' BY <1>1, <1>2 DEF CallInv, EndInv, Answered
<1>7. Faithful(d)' BY <1>1, <1>2 DEF CallInv, Faithful
<1>. QED BY <1>3, <1>4, <1>5, <1>6, <1>7 DEF CallInv

---------------------------------------------------------------------------

\* The invariant holds at the start.
LEMMA PathInitially == ASSUME PathInit PROVE PathInv
<1>1. Shapes
  BY CallsAssumption DEF PathInit, Shapes, Routes, NoLoop, NoFailure, NoCause, NoAnswer
<1>2. ASSUME NEW c \in Calls PROVE CallInv(c)
  <2>1. /\ route[c] = "none" /\ answer[c] = NoAnswer /\ handler[c] = "none" /\ priced[c] = 0
        /\ loop[c] = NoLoop /\ cause[c] = NoCause /\ c \notin ordered
    BY DEF PathInit
  <2>2. LoopInv(c) BY <2>1 DEF LoopInv, NoLoop
  <2>3. AnswerInv(c) BY <2>1 DEF AnswerInv, NoAnswer, Answered
  <2>4. StageInv(c) BY <2>1, CallsAssumption DEF StageInv
  <2>5. EndInv(c) /\ Faithful(c) BY <2>1 DEF EndInv, Faithful, NoAnswer
  <2>. QED BY <2>2, <2>3, <2>4, <2>5 DEF CallInv
<1>3. BreakerInv BY DEF PathInit, BreakerInv
<1>. QED BY <1>1, <1>2, <1>3 DEF PathInv

---------------------------------------------------------------------------
(* What the outcome e of a call to the catalog tells of the error o behind it *)

Passed(e) == IF e.kind = "grpc" THEN FromGrpcError(e) ELSE e

Carries(e, o) ==
    /\ e # NoFailure
    /\ e.grpc = "NOT_FOUND" <=> Meaning(o).code = "NOT_FOUND"
    /\ Passed(e) # NoFailure
    /\ Respond(ToGrpcError(Passed(e))) = Meaning(o)
    /\ Meaning(o).http \in 400..599

\* A service that throws what services throw is quoted correctly by its own reply.
LEMMA ServiceErrorsTold ==
    ASSUME NEW e, IsServiceError(e)
    PROVE  /\ e # NoFailure
           /\ Respond(ToGrpcError(e)) = Meaning(e)
           /\ Meaning(e).http \in 400..599
<1>. DEFINE m == Meaning(e)
<1>1. m.http \in 400..599 /\ m.code # "NONE" /\ m = [http |-> m.http, code |-> m.code]
  BY OnTheWire
<1>2. PICK grpc : ToGrpcError(e) = Failure("grpc", m.code, m.http, grpc) BY OnTheWire
<1>3. Respond(Failure("grpc", m.code, m.http, grpc)) = [http |-> m.http, code |-> m.code]
  BY <1>1, FromTheWire
<1>4. e # NoFailure BY DEF IsServiceError, Domain, Prisma, Plain, NoFailure, Failure
<1>. QED BY <1>1, <1>2, <1>3, <1>4

\* A status the catalog put on the wire carries the catalog's error.
LEMMA WireCarries ==
    ASSUME NEW e, IsServiceError(e) PROVE Carries(ToGrpcError(e), e)
<1>. DEFINE m == Meaning(e)
<1>1. m.http \in 400..599 /\ m.code # "NONE" /\ m = [http |-> m.http, code |-> m.code]
  BY OnTheWire
<1>2. PICK grpc : /\ ToGrpcError(e) = Failure("grpc", m.code, m.http, grpc)
                  /\ grpc = "NOT_FOUND" <=> m.code = "NOT_FOUND"
  BY OnTheWire
<1>. DEFINE w == Failure("grpc", m.code, m.http, grpc)
<1>3. /\ FromGrpcError(w) = Failure("domain", m.code, m.http, grpc)
      /\ ToGrpcError(FromGrpcError(w)) = w
      /\ Respond(w) = [http |-> m.http, code |-> m.code]
  BY <1>1, FromTheWire
<1>. HIDE DEF m
<1>4. w.kind = "grpc" /\ w.grpc = grpc /\ w # NoFailure BY DEF Failure, NoFailure
<1>5. Passed(w) = FromGrpcError(w) BY <1>4 DEF Passed
<1>6. Passed(w) # NoFailure BY <1>3, <1>5 DEF Failure, NoFailure
<1>. HIDE DEF w
<1>7. Respond(ToGrpcError(Passed(w))) = m BY <1>1, <1>3, <1>5
<1>8. Carries(w, e) BY <1>1, <1>2, <1>4, <1>6, <1>7 DEF Carries, m
<1>. QED BY <1>2, <1>8 DEF w

\* So does the status the gRPC library makes without a connection.
LEMMA UnavailableCarries == Carries(Transport("UNAVAILABLE"), Transport("UNAVAILABLE"))
<1>. DEFINE t == Transport("UNAVAILABLE")
            p == Failure("domain", "UPSTREAM_ERROR", 503, "UNAVAILABLE")
            w == Failure("grpc", "UPSTREAM_ERROR", 503, "UNAVAILABLE")
<1>1. FromGrpcError(t) = p
  BY DEF FromGrpcError, Transport, Failure, GrpcToHttp, GrpcStatuses
<1>2. Passed(t) = p BY <1>1 DEF Passed, Transport, Failure
<1>3. ToGrpcError(p) = w BY DEF ToGrpcError, NormalizeError, Failure
<1>4. Respond(w) = [http |-> 503, code |-> "UPSTREAM_ERROR"]
  BY DEF Respond, FromGrpcError, Failure
<1>5. Meaning(t) = [http |-> 503, code |-> "UPSTREAM_ERROR"]
  BY DEF Meaning, Transport, Failure, HasMeaning
<1>6. t # NoFailure /\ p # NoFailure /\ t.grpc # "NOT_FOUND"
  BY DEF Transport, Failure, NoFailure
<1>7. Respond(ToGrpcError(Passed(t))) = Meaning(t) BY <1>2, <1>3, <1>4, <1>5
<1>8. Meaning(t).http \in 400..599 /\ Meaning(t).code # "NOT_FOUND" BY <1>5
<1>. QED BY <1>2, <1>6, <1>7, <1>8 DEF Carries

\* An open breaker's refusal is told as the unknown error it is (UnavailableIs503 fails).
LEMMA PlainCarries == Carries(Plain("EOPENBREAKER"), Plain("EOPENBREAKER"))
<1>. DEFINE p == Plain("EOPENBREAKER")
<1>1. IsServiceError(p) BY DEF IsServiceError, Plain, Failure
<1>2. Passed(p) = p BY DEF Passed, Plain, Failure
<1>3. p.grpc # "NOT_FOUND" BY DEF Plain, Failure
<1>4. Meaning(p).code # "NOT_FOUND" BY DEF Meaning, HasMeaning, Plain, Failure
<1>. QED BY <1>1, <1>2, <1>3, <1>4, ServiceErrorsTold DEF Carries

---------------------------------------------------------------------------
(* The handler hears of a call's outcome *)

\* The parts of CallInv that are not about the retry loop.
AnswerSide(c) == AnswerInv(c) /\ StageInv(c) /\ EndInv(c) /\ Faithful(c)

\* What a step of c's handler leaves typed and untouched.
HandlerKept(c) ==
    /\ handler' \in [Calls -> Remote \cup {"none", "begin", "commit", "recover", "ended"}]
    /\ priced' \in [Calls -> Nat]
    /\ DOMAIN thrown' = Calls /\ DOMAIN cause' = Calls
    /\ \A d \in Calls \ {c} :
          /\ handler'[d] = handler[d] /\ priced'[d] = priced[d]
          /\ thrown'[d] = thrown[d] /\ cause'[d] = cause[d]

\* A failed call ends the handler, which holds the right error for whoever still waits.
LEMMA SettleFails ==
    ASSUME NEW c \in Calls, NEW e, NEW o,
           Shapes, AnswerSide(c), handler[c] \in Remote,
           e # NoFailure, Carries(e, o) \/ Answered(c),
           Settle(c, e), Blame(c, o), UNCHANGED <<route, answer, ordered>>
    PROVE  AnswerSide(c)' /\ HandlerKept(c)
<1>. USE DEF Shapes
<1>1. c \notin ordered /\ route[c] = "createOrder" /\ priced[c] <= LineItems[c]
  BY DEF AnswerSide, StageInv, Remote, CatalogMethod
<1>2. answer[c].by \notin {"gateway", "service"}
  BY DEF AnswerSide, AnswerInv, Remote, CatalogMethod
<1>3. handler'[c] = "ended" /\ priced' = priced
      /\ handler' = [handler EXCEPT ![c] = "ended"]
  BY DEF Settle, Goto, End, Remote, CatalogMethod
<1>4. HandlerKept(c) BY <1>3 DEF HandlerKept, Settle, Goto, End, Blame
<1>5. AnswerInv(c)' BY <1>2, <1>3 DEF AnswerSide, AnswerInv, Answered
<1>6. StageInv(c)' BY <1>1, <1>3 DEF StageInv
<1>7. Faithful(c)' BY <1>1, <1>2 DEF Faithful
<1>8. CASE handler[c] = "price"
  <2>. DEFINE x == IF e.grpc = "NOT_FOUND" THEN "VALIDATION_ERROR" ELSE "DEPENDENCY_UNAVAILABLE"
  <2>1. thrown'[c] = Domain(x) BY <1>8 DEF Settle, End
  <2>2. cause'[c] = [at |-> "price", error |-> o] BY <1>8 DEF Blame
  <2>3. cause'[c] # NoCause BY <2>2 DEF NoCause
  <2>4. ASSUME Carries(e, o) PROVE Expected(c)' = Meaning(Domain(x))
    BY <2>2, <2>4 DEF Expected, Carries
  <2>5. IsServiceError(Domain(x)) BY DEF IsServiceError, DomainCodes, DomainStatus
  <2>. HIDE DEF x
  <2>6. ASSUME Carries(e, o) PROVE /\ thrown'[c] # NoFailure
                                   /\ Told(c)' = Expected(c)'
                                   /\ Told(c)'.http \in 400..599
    BY <2>1, <2>4, <2>5, <2>6, ServiceErrorsTold DEF Told
  <2>7. EndInv(c)' BY <2>3, <2>6 DEF EndInv, Answered
  <2>. QED BY <1>4, <1>5, <1>6, <1>7, <2>7 DEF AnswerSide
<1>9. CASE handler[c] = "reserve"
  <2>1. thrown'[c] = Passed(e) BY <1>9 DEF Settle, End, Passed
  <2>2. cause'[c] = [at |-> "reserve", error |-> o] BY <1>9 DEF Blame
  <2>3. cause'[c] # NoCause BY <2>2 DEF NoCause
  <2>4. Expected(c)' = Meaning(o) BY <2>2 DEF Expected
  <2>5. ASSUME Carries(e, o) PROVE /\ thrown'[c] # NoFailure
                                   /\ Told(c)' = Expected(c)'
                                   /\ Told(c)'.http \in 400..599
    BY <2>1, <2>4, <2>5 DEF Told, Carries
  <2>6. EndInv(c)' BY <2>3, <2>5 DEF EndInv, Answered
  <2>. QED BY <1>4, <1>5, <1>6, <1>7, <2>6 DEF AnswerSide
<1>10. CASE handler[c] = "release"
  <2>1. thrown'[c] = thrown[c] /\ cause'[c] = cause[c] BY <1>10 DEF Settle, Blame
  <2>2. IsServiceError(thrown[c]) /\ cause[c] = [at |-> "commit", error |-> thrown[c]]
    BY <1>10 DEF AnswerSide, StageInv
  <2>3. cause'[c] # NoCause BY <2>1, <2>2 DEF NoCause
  <2>4. Expected(c)' = Meaning(thrown[c]) BY <2>1, <2>2 DEF Expected
  <2>5. /\ thrown'[c] # NoFailure
        /\ Told(c)' = Expected(c)'
        /\ Told(c)'.http \in 400..599
    BY <2>1, <2>2, <2>4, ServiceErrorsTold DEF Told
  <2>6. EndInv(c)' BY <2>3, <2>5 DEF EndInv
  <2>. QED BY <1>4, <1>5, <1>6, <1>7, <2>6 DEF AnswerSide
<1>. QED BY <1>8, <1>9, <1>10 DEF Remote, CatalogMethod

\* A call that succeeded takes the handler to its next stage.
LEMMA SettleSucceeds ==
    ASSUME NEW c \in Calls, Shapes, AnswerSide(c), handler[c] \in Remote,
           Settle(c, NoFailure), UNCHANGED <<route, answer, ordered, cause>>
    PROVE  AnswerSide(c)' /\ HandlerKept(c)
<1>. USE DEF Shapes
<1>1. /\ c \notin ordered /\ route[c] = "createOrder" /\ priced[c] <= LineItems[c]
      /\ LineItems[c] \in Nat /\ priced[c] \in Nat
  BY CallsAssumption DEF AnswerSide, StageInv, Remote, CatalogMethod
<1>2. answer[c].by \notin {"gateway", "service"}
  BY DEF AnswerSide, AnswerInv, Remote, CatalogMethod
<1>3. Faithful(c)' BY <1>1, <1>2 DEF Faithful
<1>4. CASE handler[c] = "price"
  <2>1. thrown' = thrown /\ priced' = [priced EXCEPT ![c] = priced[c] + 1]
        /\ handler' = [handler EXCEPT ![c] =
                          IF priced[c] + 1 = LineItems[c] THEN "reserve" ELSE "price"]
    BY <1>4 DEF Settle, Goto
  <2>2. priced'[c] = priced[c] + 1 /\ priced[c] < LineItems[c]
    BY <1>4, <2>1 DEF AnswerSide, StageInv
  <2>3. handler'[c] \in {"price", "reserve"} BY <2>1
  <2>4. HandlerKept(c) BY <2>1 DEF HandlerKept, Remote, CatalogMethod
  <2>5. AnswerInv(c)' BY <1>2, <2>3 DEF AnswerSide, AnswerInv, Answered
  <2>6. handler'[c] = "price" => priced'[c] < LineItems[c]
    <3>1. CASE priced[c] + 1 = LineItems[c]
      <4>1. handler'[c] = "reserve" BY <2>1, <3>1
      <4>. QED BY <4>1
    <3>2. CASE priced[c] + 1 # LineItems[c]
      <4>1. \A i, n \in Nat : i < n /\ i + 1 # n => i + 1 < n OBVIOUS
      <4>2. priced[c] + 1 < LineItems[c] BY <1>1, <2>2, <3>2, <4>1
      <4>. QED BY <2>2, <4>2
    <3>. QED BY <3>1, <3>2
  <2>7. cause[c] = NoCause BY <1>4 DEF AnswerSide, StageInv
  <2>8. StageInv(c)' BY <1>1, <2>2, <2>3, <2>6, <2>7 DEF StageInv
  <2>9. EndInv(c)' BY <2>3 DEF EndInv
  <2>. QED BY <1>3, <2>4, <2>5, <2>8, <2>9 DEF AnswerSide
<1>5. CASE handler[c] = "reserve"
  <2>1. thrown' = thrown /\ priced' = priced /\ handler' = [handler EXCEPT ![c] = "commit"]
    BY <1>5 DEF Settle, Goto
  <2>2. handler'[c] = "commit" BY <2>1
  <2>3. HandlerKept(c) BY <2>1 DEF HandlerKept
  <2>4. AnswerInv(c)' BY <1>2, <2>2 DEF AnswerSide, AnswerInv, Answered
  <2>5. cause[c] = NoCause BY <1>5 DEF AnswerSide, StageInv
  <2>6. StageInv(c)' BY <1>1, <2>1, <2>2, <2>5 DEF StageInv
  <2>7. EndInv(c)' BY <2>2 DEF EndInv
  <2>. QED BY <1>3, <2>3, <2>4, <2>6, <2>7 DEF AnswerSide
<1>6. CASE handler[c] = "release"
  <2>1. thrown' = thrown /\ priced' = priced /\ handler' = [handler EXCEPT ![c] = "ended"]
    BY <1>6 DEF Settle, Goto
  <2>2. handler'[c] = "ended" BY <2>1
  <2>3. HandlerKept(c) BY <2>1 DEF HandlerKept
  <2>4. AnswerInv(c)' BY <1>2, <2>2 DEF AnswerSide, AnswerInv, Answered
  <2>5. IsServiceError(thrown[c]) /\ cause[c] = [at |-> "commit", error |-> thrown[c]]
    BY <1>6 DEF AnswerSide, StageInv
  <2>6. StageInv(c)' BY <1>1, <2>1, <2>2 DEF StageInv
  <2>7. cause'[c] # NoCause BY <2>5 DEF NoCause
  <2>8. Expected(c)' = Meaning(thrown[c]) BY <2>5 DEF Expected
  <2>9. EndInv(c)' BY <2>1, <2>5, <2>7, <2>8, ServiceErrorsTold DEF EndInv, Told
  <2>. QED BY <1>3, <2>3, <2>4, <2>6, <2>9 DEF AnswerSide
<1>. QED BY <1>4, <1>5, <1>6 DEF Remote, CatalogMethod

---------------------------------------------------------------------------
(* Steps that leave the loops and the breakers alone *)

\* It is enough to look at the request that moves, and at the breakers.
LEMMA StepOfOne ==
    ASSUME PathInv, NEW c \in Calls, Shapes', OthersKept(c), CallInv(c)', BreakerInv'
    PROVE  PathInv'
<1>1. ASSUME NEW d \in Calls PROVE CallInv(d)'
  <2>1. CASE d = c BY <2>1
  <2>2. CASE d # c BY <2>2, Frame DEF PathInv
  <2>. QED BY <2>1, <2>2
<1>. QED BY <1>1 DEF PathInv

\* The gateway routes or answers a request.
LEMMA Answering ==
    ASSUME PathInv, NEW c \in Calls,
           UNCHANGED <<priced, thrown, loop, breaker, ordered, cause>>,
           route' \in [Calls -> Routes \cup {"none"}],
           handler' \in [Calls -> Remote \cup {"none", "begin", "commit", "recover", "ended"}],
           DOMAIN answer' = Calls,
           \A d \in Calls \ {c} :
              route'[d] = route[d] /\ answer'[d] = answer[d] /\ handler'[d] = handler[d],
           LoopInv(c)', AnswerSide(c)'
    PROVE  PathInv'
<1>1. Shapes' BY DEF PathInv, Shapes
<1>2. OthersKept(c) BY DEF OthersKept
<1>3. BreakerInv' BY DEF PathInv, BreakerInv
<1>4. CallInv(c)' BY DEF CallInv, AnswerSide
<1>. QED BY <1>1, <1>2, <1>3, <1>4, StepOfOne

\* The gateway's own refusals are errors to the client.
LEMMA GatewayAnswers ==
    ASSUME NEW e \in GatewayErrors PROVE Respond(e).http \in 400..599
<1>1. CASE \E code \in DomainCodes : e = Domain(code)
  <2>1. PICK code \in DomainCodes : e = Domain(code) BY <1>1
  <2>2. Respond(e).http = DomainStatus[code][1]
    BY <2>1 DEF Respond, NormalizeError, Domain, Failure
  <2>. QED BY <2>2, DomainStatuses
<1>2. CASE e = ApiError(429, "HTTP_429")
  BY <1>2 DEF Respond, NormalizeError, ApiError, Failure
<1>3. CASE \E k \in {"zod", "json", "size"} : e = Failure(k, "NONE", 0, "NONE")
  <2>1. PICK k \in {"zod", "json", "size"} : e = Failure(k, "NONE", 0, "NONE") BY <1>3
  <2>2. NormalizeError(e) = NoFailure /\ e.kind = k
    BY <2>1 DEF NormalizeError, Failure, HasMeaning
  <2>3. Respond(e) = RequestErrors[k]
    BY <2>2 DEF Respond, NoFailure, Failure, RequestErrors
  <2>. QED BY <2>3 DEF RequestErrors
<1>4. {"UNAUTHENTICATED", "FORBIDDEN", "DEPENDENCY_UNAVAILABLE"} \subseteq DomainCodes
  BY DEF DomainCodes, DomainStatus
<1>. QED BY <1>1, <1>2, <1>3, <1>4 DEF GatewayErrors

\* docs/API.md: "Deadlines map to 504 and unavailable services to 503."
LEMMA TransportAnswers ==
    /\ Respond(Transport("UNAVAILABLE")).http = 503
    /\ Respond(Transport("DEADLINE_EXCEEDED")).http = 504
  BY DEF Respond, FromGrpcError, Transport, Failure, GrpcToHttp, GrpcStatuses

\* What the order service may throw although the order exists is answered 503, never 4xx.
LEMMA HarmlessTold ==
    ASSUME NEW e \in {Prisma("P1017"), Prisma("P1001")}
    PROVE  IsServiceError(e) /\ Meaning(e).http = 503
<1>1. e.kind = "prisma" /\ e.code \in {"P1017", "P1001"} BY DEF Prisma, Failure
<1>2. HasMeaning(e) BY <1>1 DEF HasMeaning, PrismaMeanings
<1>3. PrismaMeanings[e.code] = "DEPENDENCY_UNAVAILABLE" BY <1>1 DEF PrismaMeanings
<1>4. DomainStatus["DEPENDENCY_UNAVAILABLE"][1] = 503 BY DEF DomainStatus
<1>5. Meaning(e) = [http |-> 503, code |-> "DEPENDENCY_UNAVAILABLE"]
  BY <1>1, <1>2, <1>3, <1>4 DEF Meaning
<1>6. IsServiceError(e) BY DEF IsServiceError, Prisma, Failure
<1>. QED BY <1>5, <1>6

\* A refusal of the gateway.
LEMMA RefuseKeeps == ASSUME PathInv, NEW c \in Calls, Refuse(c) PROVE PathInv'
<1>. USE DEF PathInv, CallInv
<1>1. PICK r \in Routes, e \in GatewayErrors :
          Arrives(c, r) /\ Answer(c, "gateway", Respond(e)) /\ UNCHANGED handler
  BY DEF Refuse
<1>2. /\ handler[c] = "none" /\ c \notin ordered /\ cause[c] = NoCause /\ priced[c] = 0
      /\ priced[c] <= LineItems[c]
  BY <1>1 DEF Arrives, StageInv
<1>3. /\ answer' = [answer EXCEPT ![c] =
                       [by |-> "gateway", http |-> Respond(e).http, code |-> Respond(e).code]]
      /\ DOMAIN answer = Calls
  BY <1>1 DEF Answer, Shapes
<1>4. answer'[c].by = "gateway" /\ answer'[c].http = Respond(e).http BY <1>3
<1>5. Respond(e).http \in 400..599 BY GatewayAnswers
<1>6. route' = [route EXCEPT ![c] = r] /\ route'[c] = r /\ r # "none"
  BY <1>1 DEF Arrives, Shapes, Routes, OpenRoutes, AuthRoutes, ProtectedRoutes, AdminRoutes
<1>7. UNCHANGED <<priced, thrown, loop, breaker, ordered, cause, handler>> BY <1>1 DEF Arrives
<1>8. LoopInv(c)' BY <1>7 DEF LoopInv
<1>9. AnswerInv(c)' BY <1>2, <1>4, <1>5, <1>6, <1>7 DEF AnswerInv, Answered
<1>10. StageInv(c)' BY <1>2, <1>7 DEF StageInv
<1>11. EndInv(c)' BY <1>2, <1>7 DEF EndInv
<1>12. Faithful(c)' BY <1>2, <1>4, <1>7 DEF Faithful
<1>13. route' \in [Calls -> Routes \cup {"none"}] BY <1>6 DEF Shapes
<1>14. AnswerSide(c)' BY <1>9, <1>10, <1>11, <1>12 DEF AnswerSide
<1>15. DOMAIN answer' = Calls /\ \A d \in Calls \ {c} :
          route'[d] = route[d] /\ answer'[d] = answer[d] /\ handler'[d] = handler[d]
  BY <1>3, <1>6, <1>7 DEF Shapes
<1>16. handler' \in [Calls -> Remote \cup {"none", "begin", "commit", "recover", "ended"}]
  BY <1>7 DEF Shapes
<1>. QED BY <1>7, <1>8, <1>13, <1>14, <1>15, <1>16, Answering

\* A request enters its service, or finds no connection.
LEMMA ForwardKeeps == ASSUME PathInv, NEW c \in Calls, Forward(c) PROVE PathInv'
<1>. USE DEF PathInv, CallInv
<1>1. PICK r \in Routes :
          /\ Arrives(c, r)
          /\ \/ handler' = [handler EXCEPT ![c] = "begin"] /\ UNCHANGED answer
             \/ /\ Answer(c, "connection", Respond(Transport("UNAVAILABLE")))
                /\ UNCHANGED handler
  BY DEF Forward
<1>2. /\ handler[c] = "none" /\ c \notin ordered /\ cause[c] = NoCause /\ priced[c] = 0
      /\ priced[c] <= LineItems[c]
  BY <1>1 DEF Arrives, StageInv
<1>15. answer[c].by = "nobody" BY <1>1 DEF Arrives, AnswerInv, Answered
<1>3. route' = [route EXCEPT ![c] = r] /\ route'[c] = r /\ r # "none"
  BY <1>1 DEF Arrives, Shapes, Routes, OpenRoutes, AuthRoutes, ProtectedRoutes, AdminRoutes
<1>4. UNCHANGED <<priced, thrown, loop, breaker, ordered, cause>> BY <1>1 DEF Arrives
<1>5. route' \in [Calls -> Routes \cup {"none"}] BY <1>3 DEF Shapes
<1>6. ~loop[c].awaited BY <1>2 DEF LoopInv, Remote, CatalogMethod
<1>7. LoopInv(c)' BY <1>4, <1>6 DEF LoopInv
<1>8. CASE handler' = [handler EXCEPT ![c] = "begin"] /\ UNCHANGED answer
  <2>1. handler'[c] = "begin" /\ answer'[c] = answer[c] BY <1>8 DEF Shapes
  <2>2. AnswerInv(c)' BY <1>15, <2>1 DEF AnswerInv, Answered
  <2>3. StageInv(c)' BY <1>2, <1>3, <1>4, <2>1 DEF StageInv
  <2>4. EndInv(c)' BY <2>1 DEF EndInv
  <2>5. Faithful(c)' BY <1>2, <1>15, <1>4, <2>1 DEF Faithful
  <2>6. AnswerSide(c)' BY <2>2, <2>3, <2>4, <2>5 DEF AnswerSide
  <2>7. DOMAIN answer' = Calls /\ \A d \in Calls \ {c} :
          route'[d] = route[d] /\ answer'[d] = answer[d] /\ handler'[d] = handler[d]
    BY <1>3, <1>8 DEF Shapes
  <2>8. handler' \in [Calls -> Remote \cup {"none", "begin", "commit", "recover", "ended"}]
    BY <1>8 DEF Shapes
  <2>. QED BY <1>4, <1>5, <1>7, <2>6, <2>7, <2>8, Answering
<1>9. CASE Answer(c, "connection", Respond(Transport("UNAVAILABLE"))) /\ UNCHANGED handler
  <2>. DEFINE a == Respond(Transport("UNAVAILABLE"))
  <2>1. answer' = [answer EXCEPT ![c] = [by |-> "connection", http |-> a.http, code |-> a.code]]
    BY <1>9 DEF Answer
  <2>2. answer'[c].by = "connection" /\ answer'[c].http = 503
    BY <2>1, TransportAnswers DEF Shapes
  <2>3. AnswerInv(c)' BY <1>3, <2>2 DEF AnswerInv, Answered
  <2>4. StageInv(c)' BY <1>2, <1>3, <1>4, <1>9 DEF StageInv
  <2>5. EndInv(c)' BY <1>2, <1>9 DEF EndInv
  <2>6. Faithful(c)' BY <1>2, <1>4, <2>2 DEF Faithful
  <2>7. AnswerSide(c)' BY <2>3, <2>4, <2>5, <2>6 DEF AnswerSide
  <2>8. DOMAIN answer' = Calls /\ \A d \in Calls \ {c} :
          route'[d] = route[d] /\ answer'[d] = answer[d] /\ handler'[d] = handler[d]
    BY <1>3, <1>9, <2>1 DEF Shapes
  <2>9. handler' \in [Calls -> Remote \cup {"none", "begin", "commit", "recover", "ended"}]
    BY <1>9 DEF Shapes
  <2>. QED BY <1>4, <1>5, <1>7, <2>7, <2>8, <2>9, Answering
<1>. QED BY <1>1, <1>8, <1>9

\* Somebody answers a request whose handler is at work or has ended.
LEMMA AnswerKeeps ==
    ASSUME PathInv, NEW c \in Calls, NEW by, NEW a,
           handler[c] # "none", Answer(c, by, a),
           UNCHANGED <<route, handler, priced, thrown, loop, breaker, ordered, cause>>,
           AnswerInv(c)', EndInv(c)', Faithful(c)'
    PROVE  PathInv'
<1>. USE DEF PathInv, CallInv
<1>1. LoopInv(c)' BY DEF LoopInv
<1>2. StageInv(c)' BY DEF StageInv
<1>3. AnswerSide(c)' BY <1>2 DEF AnswerSide
<1>4. DOMAIN answer' = Calls /\ \A d \in Calls \ {c} :
        route'[d] = route[d] /\ answer'[d] = answer[d] /\ handler'[d] = handler[d]
  BY DEF Answer, Shapes
<1>5. /\ route' \in [Calls -> Routes \cup {"none"}]
      /\ handler' \in [Calls -> Remote \cup {"none", "begin", "commit", "recover", "ended"}]
  BY DEF Shapes
<1>. QED BY <1>1, <1>3, <1>4, <1>5, Answering

\* The service replies.
LEMMA ReplyKeeps == ASSUME PathInv, NEW c \in Calls, Reply(c) PROVE PathInv'
<1>. DEFINE a == IF thrown[c] = NoFailure THEN [http |-> Success(route[c]), code |-> "NONE"]
                 ELSE Told(c)
<1>1. /\ handler[c] = "ended" /\ ~Answered(c) /\ Answer(c, "service", a)
      /\ UNCHANGED <<route, handler, priced, thrown, loop, breaker, ordered, cause>>
  BY DEF Reply, Told
<1>2. answer'[c] = [by |-> "service", http |-> a.http, code |-> a.code]
  BY <1>1 DEF Answer, PathInv, Shapes
<1>. HIDE DEF a
<1>3. route[c] # "none" BY <1>1 DEF PathInv, CallInv, StageInv
<1>4. cause[c] = NoCause => thrown[c] = NoFailure /\ (route[c] = "createOrder" => c \in ordered)
  BY <1>1 DEF PathInv, CallInv, EndInv
<1>5. cause[c] # NoCause => /\ thrown[c] # NoFailure /\ Told(c) = Expected(c)
                            /\ Told(c).http \in 400..599
  BY <1>1 DEF PathInv, CallInv, EndInv
<1>6. CASE thrown[c] = NoFailure
  <2>1. a.http \in {200, 201} BY <1>6 DEF a, Success
  <2>2. cause[c] = NoCause BY <1>5, <1>6
  <2>3. Faithful(c)' BY <1>1, <1>2, <1>4, <2>1, <2>2 DEF Faithful
  <2>4. AnswerInv(c)' BY <1>1, <1>2, <1>3, <2>1 DEF AnswerInv, Answered
  <2>5. EndInv(c)' BY <1>1, <1>4, <2>2 DEF EndInv
  <2>. QED BY <1>1, <2>3, <2>4, <2>5, AnswerKeeps
<1>7. CASE thrown[c] # NoFailure
  <2>1. a = Told(c) BY <1>7 DEF a
  <2>2. cause[c] # NoCause BY <1>4, <1>7
  <2>3. Expected(c)' = Expected(c) BY <1>1 DEF Expected
  <2>4. c \in ordered => Told(c).http = 503
    <3>1. ASSUME c \in ordered PROVE thrown[c] \in {Prisma("P1017"), Prisma("P1001")}
      BY <1>7, <3>1 DEF PathInv, CallInv, StageInv, Harmless
    <3>. QED BY <3>1, HarmlessTold, ServiceErrorsTold DEF Told
  <2>5. answer'[c].by = "service" /\ answer'[c].http = Told(c).http
        /\ answer'[c].code = Told(c).code
    BY <1>2, <2>1
  <2>6. Faithful(c)' BY <1>1, <1>5, <2>2, <2>3, <2>4, <2>5 DEF Faithful
  <2>7. AnswerInv(c)' BY <1>1, <1>3, <1>5, <2>2, <2>5 DEF AnswerInv, Answered
  <2>8. Answered(c)' BY <2>5 DEF Answered
  <2>9. EndInv(c)' BY <1>1, <2>2, <2>8 DEF EndInv
  <2>. QED BY <1>1, <2>6, <2>7, <2>9, AnswerKeeps
<1>. QED BY <1>6, <1>7

\* The gateway stops waiting.
LEMMA BrokenOffKeeps ==
    ASSUME PathInv, NEW c \in Calls, GatewayDeadline(c) \/ ConnectionLost(c) PROVE PathInv'
<1>0. PICK by \in {"deadline", "connection"} : \E a :
        /\ handler[c] # "none" /\ ~Answered(c) /\ Answer(c, by, a)
        /\ a.http = IF by = "deadline" THEN 504 ELSE 503
        /\ UNCHANGED <<route, handler, priced, thrown, loop, breaker, ordered, cause>>
  BY TransportAnswers DEF GatewayDeadline, ConnectionLost
<1>1. PICK a :
        /\ handler[c] # "none" /\ ~Answered(c) /\ Answer(c, by, a)
        /\ a.http = IF by = "deadline" THEN 504 ELSE 503
        /\ UNCHANGED <<route, handler, priced, thrown, loop, breaker, ordered, cause>>
  BY <1>0
<1>2. answer'[c].by = by /\ answer'[c].http = a.http
  BY <1>1 DEF Answer, PathInv, Shapes
<1>3. AnswerInv(c)'
  <2>1. route'[c] # "none" BY <1>1 DEF PathInv, CallInv, StageInv
  <2>2. \/ answer'[c].by = "deadline" /\ answer'[c].http = 504
        \/ answer'[c].by = "connection" /\ answer'[c].http = 503
    BY <1>1, <1>2
  <2>. QED BY <2>1, <2>2 DEF AnswerInv, Answered
<1>4. EndInv(c)'
  <2>1. Answered(c)' BY <1>2 DEF Answered
  <2>. QED BY <1>1, <2>1 DEF PathInv, CallInv, EndInv
<1>5. Faithful(c)' BY <1>1, <1>2 DEF Faithful
<1>. QED BY <1>1, <1>3, <1>4, <1>5, AnswerKeeps

---------------------------------------------------------------------------
(* The handlers' own steps *)

\* A step of a handler that calls nobody.
LEMMA OwnStep ==
    ASSUME PathInv, NEW c \in Calls, handler[c] \notin Remote,
           UNCHANGED <<route, answer, loop, breaker>>, HandlerKept(c), AnswerSide(c)',
           ordered' \in {ordered, ordered \cup {c}}
    PROVE  PathInv'
<1>1. Shapes' BY DEF PathInv, Shapes, HandlerKept
<1>2. OthersKept(c) BY DEF OthersKept, HandlerKept
<1>3. BreakerInv' BY DEF PathInv, BreakerInv
<1>4. LoopInv(c)' BY DEF PathInv, CallInv, LoopInv
<1>5. CallInv(c)' BY <1>4 DEF CallInv, AnswerSide
<1>. QED BY <1>1, <1>2, <1>3, <1>5, StepOfOne

\* A handler that is at work has been answered by nobody, or by a broken connection.
LEMMA AtWork ==
    ASSUME PathInv, NEW c \in Calls, handler[c] \notin {"none", "ended"}
    PROVE  /\ answer[c].by \notin {"gateway", "service"}
           /\ answer[c].http \notin 400..499
           /\ route[c] # "none"
           /\ priced[c] <= LineItems[c]
<1>1. answer[c].by \notin {"gateway", "service"} BY DEF PathInv, CallInv, AnswerInv
<1>2. answer[c].by \in {"nobody", "deadline", "connection"}
  BY <1>1 DEF PathInv, CallInv, AnswerInv
<1>3. answer[c].http \in {0, 503, 504} BY <1>2 DEF PathInv, CallInv, AnswerInv
<1>4. answer[c].http \notin 400..499 BY <1>3
<1>. QED BY <1>1, <1>4 DEF PathInv, CallInv, StageInv

\* A handler ends with its result.
LEMMA EndsWell ==
    ASSUME PathInv, NEW c \in Calls, handler[c] \in {"begin", "commit"}, End(c, NoFailure),
           UNCHANGED <<route, answer, priced, loop, breaker, cause>>,
           ordered' \in {ordered, ordered \cup {c}},
           route[c] = "createOrder" => c \in ordered'
    PROVE  PathInv'
<1>1. /\ handler' = [handler EXCEPT ![c] = "ended"] /\ thrown' = [thrown EXCEPT ![c] = NoFailure]
      /\ handler'[c] = "ended" /\ thrown'[c] = NoFailure
  BY DEF End, Goto, PathInv, Shapes
<1>2. HandlerKept(c) BY <1>1 DEF HandlerKept, PathInv, Shapes
<1>3. cause[c] = NoCause BY DEF PathInv, CallInv, StageInv
<1>4. AnswerInv(c)' BY <1>1, AtWork DEF PathInv, CallInv, AnswerInv, Answered
<1>5. StageInv(c)' BY <1>1, AtWork DEF StageInv, Harmless
<1>6. EndInv(c)' BY <1>1, <1>3 DEF EndInv
<1>7. Faithful(c)' BY AtWork DEF Faithful
<1>8. AnswerSide(c)' BY <1>4, <1>5, <1>6, <1>7 DEF AnswerSide
<1>9. handler[c] \notin Remote BY DEF Remote, CatalogMethod
<1>. QED BY <1>2, <1>8, <1>9, OwnStep

\* A handler ends with an error of its own.
LEMMA EndsBadly ==
    ASSUME PathInv, NEW c \in Calls, NEW e, handler[c] \in {"begin", "recover"},
           End(c, e), Blame(c, e), IsServiceError(e), c \in ordered => Harmless(e),
           UNCHANGED <<route, answer, priced, loop, breaker, ordered>>
    PROVE  PathInv'
<1>1. /\ handler' = [handler EXCEPT ![c] = "ended"] /\ thrown' = [thrown EXCEPT ![c] = e]
      /\ handler'[c] = "ended" /\ thrown'[c] = e
  BY DEF End, Goto, PathInv, Shapes
<1>2. /\ cause' = [cause EXCEPT ![c] = [at |-> handler[c], error |-> e]]
      /\ cause'[c] = [at |-> handler[c], error |-> thrown'[c]]
  BY <1>1 DEF Blame, PathInv, Shapes
<1>3. HandlerKept(c) BY <1>1, <1>2 DEF HandlerKept, PathInv, Shapes
<1>4. AnswerInv(c)' BY <1>1, AtWork DEF PathInv, CallInv, AnswerInv, Answered
<1>5. StageInv(c)' BY <1>1, AtWork DEF StageInv
<1>6. IsServiceError(thrown'[c]) BY <1>1
<1>7. EndInv(c)'
  <2>1. cause'[c] # NoCause BY <1>2 DEF NoCause
  <2>2. Expected(c)' = Meaning(e) BY <1>1, <1>2 DEF Expected
  <2>. QED BY <1>1, <2>1, <2>2, ServiceErrorsTold DEF EndInv, Told
<1>8. Faithful(c)' BY AtWork DEF Faithful, PathInv, CallInv
<1>9. AnswerSide(c)' BY <1>4, <1>5, <1>7, <1>8 DEF AnswerSide
<1>10. handler[c] \notin Remote BY DEF Remote, CatalogMethod
<1>. QED BY <1>3, <1>9, <1>10, OwnStep

\* A look at an order.
LEMMA GetOrderByIdKeeps == ASSUME PathInv, NEW c \in Calls, GetOrderById(c) PROVE PathInv'
<1>1. c \notin ordered BY DEF GetOrderById, PathInv, CallInv, StageInv
<1>2. CASE End(c, NoFailure) /\ UNCHANGED cause BY <1>2, EndsWell DEF GetOrderById
<1>3. CASE \E e \in OrderThrows \cup {Domain("NOT_FOUND"), Domain("FORBIDDEN")} :
              End(c, e) /\ Blame(c, e)
  <2>1. PICK e \in OrderThrows \cup {Domain("NOT_FOUND"), Domain("FORBIDDEN")} :
           End(c, e) /\ Blame(c, e)
    BY <1>3
  <2>2. {"NOT_FOUND", "FORBIDDEN"} \subseteq DomainCodes BY DEF DomainCodes, DomainStatus
  <2>3. IsServiceError(e)
    <3>1. CASE e \in OrderThrows BY <3>1, ThrowsAssumption
    <3>2. CASE e \notin OrderThrows BY <2>2, <3>2 DEF IsServiceError
    <3>. QED BY <3>1, <3>2
  <2>. QED BY <1>1, <2>1, <2>3, EndsBadly DEF GetOrderById
<1>. QED BY <1>2, <1>3 DEF GetOrderById

\* A handler of another route.
LEMMA HandleOtherKeeps == ASSUME PathInv, NEW c \in Calls, HandleOther(c) PROVE PathInv'
<1>1. c \notin ordered BY DEF HandleOther, PathInv, CallInv, StageInv
<1>2. CASE End(c, NoFailure) /\ UNCHANGED cause BY <1>2, EndsWell DEF HandleOther
<1>3. CASE \E e \in OtherThrows : End(c, e) /\ Blame(c, e)
  <2>1. PICK e \in OtherThrows : End(c, e) /\ Blame(c, e) BY <1>3
  <2>2. IsServiceError(e) BY ThrowsAssumption
  <2>. QED BY <1>1, <2>1, <2>2, EndsBadly DEF HandleOther
<1>. QED BY <1>2, <1>3 DEF HandleOther

\* An order's first stage.
LEMMA BeginOrderKeeps == ASSUME PathInv, NEW c \in Calls, BeginOrder(c) PROVE PathInv'
<1>1. /\ handler[c] = "begin" /\ route[c] = "createOrder"
      /\ UNCHANGED <<route, answer, priced, loop, breaker>>
  BY DEF BeginOrder
<1>2. c \notin ordered /\ cause[c] = NoCause /\ priced[c] = 0
  BY <1>1 DEF PathInv, CallInv, StageInv
<1>3. CASE Goto(c, "price") /\ UNCHANGED <<thrown, ordered, cause>>
  <2>1. handler' = [handler EXCEPT ![c] = "price"] /\ handler'[c] = "price"
    BY <1>3 DEF Goto, PathInv, Shapes
  <2>2. HandlerKept(c)
    BY <1>1, <1>3, <2>1 DEF HandlerKept, PathInv, Shapes, Remote, CatalogMethod
  <2>3. AnswerInv(c)' BY <1>1, <2>1, AtWork DEF PathInv, CallInv, AnswerInv, Answered
  <2>4. LineItems[c] \in Nat \ {0} BY CallsAssumption
  <2>5. StageInv(c)' BY <1>1, <1>2, <1>3, <2>1, <2>4 DEF StageInv
  <2>6. EndInv(c)' BY <2>1 DEF EndInv
  <2>7. Faithful(c)' BY <1>1, AtWork DEF Faithful
  <2>8. AnswerSide(c)' BY <2>3, <2>5, <2>6, <2>7 DEF AnswerSide
  <2>9. handler[c] \notin Remote BY <1>1 DEF Remote, CatalogMethod
  <2>. QED BY <1>1, <1>3, <2>2, <2>8, <2>9, OwnStep
<1>4. CASE End(c, NoFailure) /\ ordered' = ordered \cup {c} /\ UNCHANGED cause
  BY <1>1, <1>4, EndsWell
<1>5. CASE \E e \in OrderThrows \cup {Domain("VALIDATION_ERROR")} :
             End(c, e) /\ Blame(c, e) /\ UNCHANGED ordered
  <2>1. PICK e \in OrderThrows \cup {Domain("VALIDATION_ERROR")} :
             End(c, e) /\ Blame(c, e) /\ UNCHANGED ordered
    BY <1>5
  <2>2. "VALIDATION_ERROR" \in DomainCodes BY DEF DomainCodes, DomainStatus
  <2>3. IsServiceError(e) BY <2>1, <2>2, ThrowsAssumption DEF IsServiceError
  <2>. QED BY <1>1, <1>2, <2>1, <2>3, EndsBadly
<1>. QED BY <1>3, <1>4, <1>5 DEF BeginOrder

\* The order transaction.
LEMMA CommitKeeps == ASSUME PathInv, NEW c \in Calls, Commit(c) PROVE PathInv'
<1>1. handler[c] = "commit" /\ UNCHANGED <<route, answer, priced, loop, breaker>>
  BY DEF Commit
<1>2. c \notin ordered /\ cause[c] = NoCause /\ route[c] = "createOrder"
  BY <1>1 DEF PathInv, CallInv, StageInv
<1>3. CASE End(c, NoFailure) /\ ordered' = ordered \cup {c} /\ UNCHANGED cause
  BY <1>1, <1>3, EndsWell
<1>4. CASE \E e \in OrderThrows :
             /\ Goto(c, "recover") /\ Blame(c, e)
             /\ thrown' = [thrown EXCEPT ![c] = e]
             /\ \/ UNCHANGED ordered
                \/ e = Prisma("P1017") /\ ordered' = ordered \cup {c}
  <2>1. PICK e \in OrderThrows :
             /\ Goto(c, "recover") /\ Blame(c, e)
             /\ thrown' = [thrown EXCEPT ![c] = e]
             /\ \/ UNCHANGED ordered
                \/ e = Prisma("P1017") /\ ordered' = ordered \cup {c}
    BY <1>4
  <2>2. /\ handler' = [handler EXCEPT ![c] = "recover"] /\ handler'[c] = "recover"
        /\ thrown'[c] = e
    BY <2>1 DEF Goto, PathInv, Shapes
  <2>3. /\ cause' = [cause EXCEPT ![c] = [at |-> "commit", error |-> e]]
        /\ cause'[c] = [at |-> "commit", error |-> thrown'[c]]
    BY <1>1, <2>1, <2>2 DEF Blame, PathInv, Shapes
  <2>4. HandlerKept(c) BY <1>1, <2>1, <2>2, <2>3 DEF HandlerKept, PathInv, Shapes
  <2>5. IsServiceError(thrown'[c]) BY <2>2, ThrowsAssumption
  <2>6. AnswerInv(c)' BY <1>1, <2>2, AtWork DEF PathInv, CallInv, AnswerInv, Answered
  <2>7. c \in ordered' => Harmless(thrown'[c]) BY <1>2, <2>1, <2>2 DEF Harmless
  <2>8. priced'[c] <= LineItems[c] /\ route'[c] = "createOrder" BY <1>1, <1>2, AtWork
  <2>9. StageInv(c)' BY <2>2, <2>3, <2>5, <2>7, <2>8 DEF StageInv
  <2>10. EndInv(c)' BY <2>2 DEF EndInv
  <2>11. Faithful(c)' BY <1>1, AtWork DEF Faithful
  <2>12. AnswerSide(c)' BY <2>6, <2>9, <2>10, <2>11 DEF AnswerSide
  <2>13. handler[c] \notin Remote BY <1>1 DEF Remote, CatalogMethod
  <2>14. ordered' \in {ordered, ordered \cup {c}} BY <2>1
  <2>. QED BY <1>1, <2>4, <2>12, <2>13, <2>14, OwnStep
<1>. QED BY <1>3, <1>4 DEF Commit

\* The recovery from a failed transaction.
LEMMA RecoverKeeps == ASSUME PathInv, NEW c \in Calls, Recover(c) PROVE PathInv'
<1>1. handler[c] = "recover" /\ UNCHANGED <<route, answer, priced, loop, breaker, ordered>>
  BY DEF Recover
<1>2. /\ IsServiceError(thrown[c]) /\ cause[c] = [at |-> "commit", error |-> thrown[c]]
      /\ route[c] = "createOrder" /\ (c \in ordered => Harmless(thrown[c]))
  BY <1>1 DEF PathInv, CallInv, StageInv
<1>3. CASE End(c, Prisma("P1001")) /\ Blame(c, Prisma("P1001"))
  <2>1. IsServiceError(Prisma("P1001")) BY HarmlessTold
  <2>2. Harmless(Prisma("P1001")) BY DEF Harmless
  <2>. QED BY <1>1, <1>3, <2>1, <2>2, EndsBadly
<1>4. ASSUME NEW stage \in {"ended", "release"}, Goto(c, stage), UNCHANGED <<thrown, cause>>,
             stage = "release" => c \notin ordered
      PROVE  PathInv'
  <2>1. handler' = [handler EXCEPT ![c] = stage] /\ handler'[c] = stage
    BY <1>4 DEF Goto, PathInv, Shapes
  <2>2. HandlerKept(c)
    BY <1>1, <1>4, <2>1 DEF HandlerKept, PathInv, Shapes, Remote, CatalogMethod
  <2>3. AnswerInv(c)' BY <1>1, <2>1, AtWork DEF PathInv, CallInv, AnswerInv, Answered
  <2>4. priced'[c] <= LineItems[c] BY <1>1, AtWork
  <2>5. StageInv(c)' BY <1>1, <1>2, <1>4, <2>1, <2>4 DEF StageInv
  <2>7. cause'[c] # NoCause BY <1>2, <1>4 DEF NoCause
  <2>8. Expected(c)' = Meaning(thrown[c]) BY <1>2, <1>4 DEF Expected
  <2>9. EndInv(c)' BY <1>2, <1>4, <2>7, <2>8, ServiceErrorsTold DEF EndInv, Told
  <2>10. Faithful(c)' BY <1>1, AtWork DEF Faithful
  <2>11. AnswerSide(c)' BY <2>3, <2>5, <2>9, <2>10 DEF AnswerSide
  <2>12. handler[c] \notin Remote BY <1>1 DEF Remote, CatalogMethod
  <2>. QED BY <1>1, <2>2, <2>11, <2>12, OwnStep
<1>. QED BY <1>3, <1>4 DEF Recover

---------------------------------------------------------------------------
(* The retry loops and the breakers *)

Loops == [pc : {"idle", "attempt", "backoff"}, method : Methods \cup {"none"},
          tries : 0..MaxAttempts, awaited : BOOLEAN]
Breakers == [state : {"closed", "open", "half"}, trial : BOOLEAN, fires : Nat, failures : Nat]

\* A step of one request's loop.
LEMMA StepOfLoop ==
    ASSUME PathInv, NEW c \in Calls, NEW l \in Loops,
           UNCHANGED <<route, answer, ordered>>, HandlerKept(c), AnswerSide(c)',
           loop' = [loop EXCEPT ![c] = l], LoopInv(c)',
           breaker' \in [Methods -> Breakers], BreakerInv'
    PROVE  PathInv'
<1>1. Shapes' BY DEF PathInv, Shapes, HandlerKept, Loops, Breakers
<1>2. OthersKept(c) BY DEF OthersKept, HandlerKept, PathInv, Shapes
<1>3. CallInv(c)' BY DEF CallInv, AnswerSide
<1>. QED BY <1>1, <1>2, <1>3, StepOfOne

\* What each outcome makes of a breaker.  After the end of an awaited call there is no trial.
LEMMA BreakerSteps ==
    ASSUME NEW b \in Breakers
    PROVE  /\ Fired(b) \in Breakers /\ Fired(b).state = b.state
           /\ Fired(b).trial => b.state = "half"
           /\ Rejected(b) \in Breakers
           /\ Rejected(b).state = b.state /\ Rejected(b).trial = b.trial
           /\ Succeeded(b) \in Breakers /\ Failed(b) \in Breakers
           /\ (b.trial => b.state = "half") => ~Succeeded(b).trial /\ ~Failed(b).trial
<1>1. /\ Fired(b) \in Breakers /\ Fired(b).state = b.state
      /\ Fired(b).trial => b.state = "half"
  <2>. DEFINE t == b.state = "half"
  <2>1. t \in BOOLEAN OBVIOUS
  <2>. HIDE DEF t
  <2>2. Fired(b) = [b EXCEPT !.fires = b.fires + 1, !.trial = t] BY DEF Fired, t
  <2>3. b.fires + 1 \in Nat BY DEF Breakers
  <2>4. CASE t = TRUE
    <3>1. Fired(b) = [b EXCEPT !.fires = b.fires + 1, !.trial = TRUE] BY <2>2, <2>4
    <3>2. Fired(b) \in Breakers /\ Fired(b).state = b.state BY <2>3, <3>1 DEF Breakers
    <3>. QED BY <2>4, <3>2 DEF t
  <2>5. CASE t = FALSE
    <3>1. Fired(b) = [b EXCEPT !.fires = b.fires + 1, !.trial = FALSE] BY <2>2, <2>5
    <3>2. Fired(b) \in Breakers /\ Fired(b).state = b.state /\ ~Fired(b).trial
      BY <2>3, <3>1 DEF Breakers
    <3>. QED BY <3>2
  <2>. QED BY <2>1, <2>4, <2>5
<1>2. Rejected(b) \in Breakers /\ Rejected(b).state = b.state /\ Rejected(b).trial = b.trial
  BY DEF Rejected, Breakers
<1>3. Succeeded(b) \in Breakers BY DEF Succeeded, Breakers
<1>4. (b.trial => b.state = "half") => ~Succeeded(b).trial BY DEF Succeeded, Breakers
<1>5. Failed(b) \in Breakers
  <2>1. b.failures + 1 \in Nat BY DEF Breakers
  <2>2. [b EXCEPT !.state = "open", !.trial = FALSE, !.failures = b.failures + 1] \in Breakers
    BY <2>1 DEF Breakers
  <2>3. [b EXCEPT !.failures = b.failures + 1] \in Breakers BY <2>1 DEF Breakers
  <2>. QED BY <2>2, <2>3 DEF Failed
<1>6. (b.trial => b.state = "half") => ~Failed(b).trial
  <2>1. CASE b.state = "half" BY <2>1 DEF Failed, Breakers
  <2>2. CASE b.state # "half" /\ ~b.trial BY <2>2 DEF Failed, Breakers
  <2>. QED BY <2>1, <2>2
<1>. QED BY <1>1, <1>2, <1>3, <1>4, <1>5, <1>6

\* An awaited call ends: its breaker has no trial, and no other breaker's trial was this call.
LEMMA TrialOver ==
    ASSUME PathInv, NEW c \in Calls, NEW l, ~l.awaited, NEW m \in Methods, NEW b \in Breakers,
           loop[c].awaited => loop[c].method = m, ~b.trial,
           loop' = [loop EXCEPT ![c] = l], SetBreaker(m, b)
    PROVE  breaker' \in [Methods -> Breakers] /\ BreakerInv'
<1>1. breaker \in [Methods -> Breakers] /\ loop \in [Calls -> Loops]
  BY DEF PathInv, Shapes, Breakers, Loops
<1>2. breaker' \in [Methods -> Breakers] BY <1>1 DEF SetBreaker
<1>3. ASSUME NEW n \in Methods, breaker'[n].trial
      PROVE  /\ breaker'[n].state = "half"
             /\ \E d \in Calls : loop'[d].awaited /\ loop'[d].method = n
  <2>1. n # m /\ breaker'[n] = breaker[n] BY <1>1, <1>3 DEF SetBreaker
  <2>2. breaker[n].state = "half" BY <1>3, <2>1 DEF PathInv, BreakerInv
  <2>3. PICK d \in Calls : loop[d].awaited /\ loop[d].method = n
    BY <1>3, <2>1 DEF PathInv, BreakerInv
  <2>4. d # c BY <2>1, <2>3
  <2>5. loop'[d] = loop[d] BY <1>1, <2>4
  <2>. QED BY <2>1, <2>2, <2>3, <2>5
<1>. QED BY <1>2, <1>3 DEF BreakerInv

\* A loop goes on under the same method, awaited as before; the breakers stay.
LEMMA LoopGoesOn ==
    ASSUME PathInv, NEW c \in Calls, NEW l \in Loops,
           l.awaited = loop[c].awaited, l.method = loop[c].method,
           loop[c].pc # "idle", l.pc # "idle", l.pc = "backoff" => l.tries < MaxAttempts,
           loop' = [loop EXCEPT ![c] = l],
           UNCHANGED <<route, answer, handler, priced, thrown, breaker, ordered, cause>>
    PROVE  PathInv'
<1>1. loop \in [Calls -> Loops] /\ loop'[c] = l BY DEF PathInv, Shapes, Loops
<1>2. HandlerKept(c) BY DEF HandlerKept, PathInv, Shapes
<1>3. AnswerInv(c)' BY DEF PathInv, CallInv, AnswerInv, Answered
<1>4. StageInv(c)' BY DEF PathInv, CallInv, StageInv
<1>5. Expected(c)' = Expected(c) /\ Told(c)' = Told(c) BY DEF Expected, Told
<1>6. EndInv(c)' BY <1>5 DEF PathInv, CallInv, EndInv, Answered
<1>7. Faithful(c)' BY <1>5 DEF PathInv, CallInv, Faithful
<1>8. AnswerSide(c)' BY <1>3, <1>4, <1>6, <1>7 DEF AnswerSide
<1>9. LoopInv(c)' BY <1>1 DEF PathInv, CallInv, LoopInv
<1>10. breaker' \in [Methods -> Breakers] BY DEF PathInv, Shapes, Breakers
<1>11. ASSUME NEW n \in Methods, breaker'[n].trial
       PROVE  /\ breaker'[n].state = "half"
              /\ \E d \in Calls : loop'[d].awaited /\ loop'[d].method = n
  <2>1. breaker[n].state = "half" BY <1>11 DEF PathInv, BreakerInv
  <2>2. PICK d \in Calls : loop[d].awaited /\ loop[d].method = n
    BY <1>11 DEF PathInv, BreakerInv
  <2>3. loop'[d].awaited /\ loop'[d].method = n BY <1>1, <2>2
  <2>. QED BY <2>1, <2>3
<1>12. BreakerInv' BY <1>11 DEF BreakerInv
<1>. QED BY <1>2, <1>8, <1>9, <1>10, <1>12, StepOfLoop

\* Another attempt.
LEMMA RetryKeeps == ASSUME PathInv, NEW c \in Calls, Retry(c) PROVE PathInv'
<1>. DEFINE l == [loop[c] EXCEPT !.pc = "attempt", !.tries = loop[c].tries + 1]
<1>1. loop[c] \in Loops /\ loop[c].pc = "backoff" /\ loop[c].tries < MaxAttempts
  BY DEF Retry, PathInv, Shapes, Loops, CallInv, LoopInv
<1>2. loop[c].tries + 1 \in 0..MaxAttempts BY <1>1, CallsAssumption DEF Loops
<1>3. l \in Loops BY <1>1, <1>2 DEF Loops
<1>4. /\ l.awaited = loop[c].awaited /\ l.method = loop[c].method /\ l.pc = "attempt"
  BY <1>1 DEF Loops
<1>5. loop' = [loop EXCEPT ![c] = l] BY DEF Retry
<1>. HIDE DEF l
<1>. QED BY <1>1, <1>3, <1>4, <1>5, LoopGoesOn DEF Retry

\* The handler, if it still waits, hears of the end of its loop.
LEMMA EndOfLoop ==
    ASSUME PathInv, NEW c \in Calls, NEW e, loop[c].pc = "attempt", LoopEnds(c, e),
           UNCHANGED <<route, answer, ordered>>,
           loop[c].awaited => AnswerSide(c)' /\ HandlerKept(c),
           ~loop[c].awaited => UNCHANGED cause
    PROVE  PathInv'
<1>1. loop' = [loop EXCEPT ![c] = NoLoop] BY DEF LoopEnds
<1>2. NoLoop \in Loops /\ ~NoLoop.awaited /\ NoLoop.pc = "idle"
  BY CallsAssumption DEF NoLoop, Loops
<1>3. loop'[c] = NoLoop BY <1>1 DEF PathInv, Shapes
<1>4. LoopInv(c)' BY <1>2, <1>3 DEF LoopInv
<1>5. loop[c].method \in Methods BY DEF PathInv, CallInv, LoopInv
<1>6. CASE loop[c].awaited
  <2>. DEFINE m == loop[c].method
              b == IF e = NoFailure THEN Succeeded(breaker[m]) ELSE Failed(breaker[m])
  <2>1. SetBreaker(m, b) BY <1>6 DEF LoopEnds
  <2>2. breaker[m] \in Breakers /\ (breaker[m].trial => breaker[m].state = "half")
    BY <1>5 DEF PathInv, Shapes, Breakers, BreakerInv
  <2>3. b \in Breakers /\ ~b.trial BY <2>2, BreakerSteps
  <2>. HIDE DEF b
  <2>4. breaker' \in [Methods -> Breakers] /\ BreakerInv'
    BY <1>1, <1>2, <1>5, <2>1, <2>3, TrialOver
  <2>. QED BY <1>1, <1>2, <1>4, <1>6, <2>4, StepOfLoop
<1>7. CASE ~loop[c].awaited
  <2>1. UNCHANGED <<handler, priced, thrown, breaker, cause>> BY <1>7 DEF LoopEnds
  <2>2. HandlerKept(c) BY <2>1 DEF HandlerKept, PathInv, Shapes
  <2>3. AnswerInv(c)' BY <2>1 DEF PathInv, CallInv, AnswerInv, Answered
  <2>4. StageInv(c)' BY <2>1 DEF PathInv, CallInv, StageInv
  <2>5. Expected(c)' = Expected(c) /\ Told(c)' = Told(c) BY <2>1 DEF Expected, Told
  <2>6. EndInv(c)' BY <2>1, <2>5 DEF PathInv, CallInv, EndInv, Answered
  <2>7. Faithful(c)' BY <2>1, <2>5 DEF PathInv, CallInv, Faithful
  <2>8. AnswerSide(c)' BY <2>3, <2>4, <2>6, <2>7 DEF AnswerSide
  <2>9. breaker' \in [Methods -> Breakers] BY <2>1 DEF PathInv, Shapes, Breakers
  <2>10. ASSUME NEW n \in Methods, breaker'[n].trial
         PROVE  /\ breaker'[n].state = "half"
                /\ \E d \in Calls : loop'[d].awaited /\ loop'[d].method = n
    <3>1. breaker[n].state = "half" BY <2>1, <2>10 DEF PathInv, BreakerInv
    <3>2. PICK d \in Calls : loop[d].awaited /\ loop[d].method = n
      BY <2>1, <2>10 DEF PathInv, BreakerInv
    <3>3. loop'[d] = loop[d] BY <1>1, <1>7, <3>2 DEF PathInv, Shapes
    <3>. QED BY <2>1, <3>1, <3>2, <3>3
  <2>11. BreakerInv' BY <2>10 DEF BreakerInv
  <2>. QED BY <1>1, <1>2, <1>4, <2>2, <2>8, <2>9, <2>11, StepOfLoop
<1>. QED BY <1>6, <1>7

\* An attempt succeeds.
LEMMA AttemptOkKeeps == ASSUME PathInv, NEW c \in Calls, AttemptOk(c) PROVE PathInv'
<1>1. /\ loop[c].pc = "attempt" /\ LoopEnds(c, NoFailure)
      /\ UNCHANGED <<route, answer, ordered, cause>>
  BY DEF AttemptOk
<1>2. ASSUME loop[c].awaited PROVE AnswerSide(c)' /\ HandlerKept(c)
  <2>1. handler[c] \in Remote BY <1>2 DEF PathInv, CallInv, LoopInv
  <2>2. Settle(c, NoFailure) BY <1>1, <1>2 DEF LoopEnds
  <2>. QED BY <1>1, <2>1, <2>2, SettleSucceeds DEF PathInv, CallInv, AnswerSide
<1>. QED BY <1>1, <1>2, EndOfLoop

\* An attempt fails, and is retried or not.
LEMMA AttemptFailedKeeps ==
    ASSUME PathInv, NEW c \in Calls, NEW e, NEW o, loop[c].pc = "attempt", e # NoFailure,
           Carries(e, o) \/ Answered(c), AttemptFailed(c, e, o)
    PROVE  PathInv'
<1>1. UNCHANGED <<route, answer, ordered>> BY DEF AttemptFailed
<1>2. CASE Retryable(e) /\ loop[c].tries < MaxAttempts
  <2>. DEFINE l == [loop[c] EXCEPT !.pc = "backoff"]
  <2>1. loop[c] \in Loops BY DEF PathInv, Shapes, Loops
  <2>2. /\ l \in Loops /\ l.pc = "backoff" /\ l.awaited = loop[c].awaited
        /\ l.method = loop[c].method /\ l.tries = loop[c].tries
    BY <2>1 DEF Loops
  <2>3. /\ loop' = [loop EXCEPT ![c] = l]
        /\ UNCHANGED <<handler, priced, thrown, breaker, cause>>
    BY <1>2 DEF AttemptFailed
  <2>. HIDE DEF l
  <2>. QED BY <1>1, <1>2, <2>2, <2>3, LoopGoesOn
<1>3. CASE ~(Retryable(e) /\ loop[c].tries < MaxAttempts)
  <2>1. /\ LoopEnds(c, e)
        /\ IF loop[c].awaited THEN Blame(c, o) ELSE UNCHANGED cause
    BY <1>3 DEF AttemptFailed
  <2>2. ASSUME loop[c].awaited PROVE AnswerSide(c)' /\ HandlerKept(c)
    <3>1. handler[c] \in Remote BY <2>2 DEF PathInv, CallInv, LoopInv
    <3>2. Settle(c, e) /\ Blame(c, o) BY <2>1, <2>2 DEF LoopEnds
    <3>. QED BY <1>1, <3>1, <3>2, SettleFails DEF PathInv, CallInv, AnswerSide
  <2>. QED BY <1>1, <2>1, <2>2, EndOfLoop
<1>. QED BY <1>2, <1>3

\* The ways an attempt fails.
LEMMA AttemptsKeep ==
    ASSUME PathInv, NEW c \in Calls,
           AttemptFails(c) \/ AttemptUnreachable(c) \/ AttemptDeadline(c)
    PROVE  PathInv'
<1>1. CASE AttemptFails(c)
  <2>1. loop[c].method \in Methods BY <1>1 DEF AttemptFails, PathInv, CallInv, LoopInv
  <2>2. PICK e \in CatalogThrows[loop[c].method] : AttemptFailed(c, ToGrpcError(e), e)
    BY <1>1 DEF AttemptFails
  <2>3. IsServiceError(e) BY <2>1, ThrowsAssumption
  <2>4. Carries(ToGrpcError(e), e) BY <2>3, WireCarries
  <2>5. ToGrpcError(e) # NoFailure BY <2>4 DEF Carries
  <2>. QED BY <1>1, <2>2, <2>4, <2>5, AttemptFailedKeeps DEF AttemptFails
<1>2. CASE AttemptUnreachable(c)
  <2>1. Transport("UNAVAILABLE") # NoFailure BY DEF Transport, Failure, NoFailure
  <2>. QED BY <1>2, <2>1, UnavailableCarries, AttemptFailedKeeps DEF AttemptUnreachable
<1>3. CASE AttemptDeadline(c)
  <2>1. Transport("DEADLINE_EXCEEDED") # NoFailure BY DEF Transport, Failure, NoFailure
  <2>. QED BY <1>3, <2>1, AttemptFailedKeeps DEF AttemptDeadline
<1>. QED BY <1>1, <1>2, <1>3

\* The breaker gives up; the loop runs on.
LEMMA BreakerTimeoutKeeps ==
    ASSUME PathInv, NEW c \in Calls, BreakerTimeout(c) PROVE PathInv'
<1>. DEFINE l == [loop[c] EXCEPT !.awaited = FALSE]
            m == loop[c].method
            p == Plain("ETIMEDOUT")
<1>1. /\ loop[c].awaited /\ Answered(c) /\ Settle(c, p) /\ Blame(c, p)
      /\ SetBreaker(m, Failed(breaker[m])) /\ loop' = [loop EXCEPT ![c] = l]
      /\ UNCHANGED <<route, answer, ordered>>
  BY DEF BreakerTimeout
<1>2. loop[c] \in Loops BY DEF PathInv, Shapes, Loops
<1>3. l \in Loops /\ ~l.awaited /\ l.pc = loop[c].pc /\ l.method = m /\ l.tries = loop[c].tries
  BY <1>2 DEF Loops
<1>4. handler[c] \in Remote /\ loop[c].pc # "idle" /\ m \in Methods
  BY <1>1 DEF PathInv, CallInv, LoopInv
<1>5. AnswerSide(c)' /\ HandlerKept(c)
  <2>1. p # NoFailure BY DEF Plain, NoFailure, Failure
  <2>. HIDE DEF p
  <2>. QED BY <1>1, <1>4, <2>1, SettleFails DEF PathInv, CallInv, AnswerSide
<1>6. loop'[c] = l BY <1>1 DEF PathInv, Shapes
<1>. HIDE DEF l
<1>7. LoopInv(c)' BY <1>3, <1>4, <1>6 DEF PathInv, CallInv, LoopInv
<1>8. breaker[m] \in Breakers /\ (breaker[m].trial => breaker[m].state = "half")
  BY <1>4 DEF PathInv, Shapes, Breakers, BreakerInv
<1>9. Failed(breaker[m]) \in Breakers /\ ~Failed(breaker[m]).trial BY <1>8, BreakerSteps
<1>. HIDE DEF m
<1>10. loop[c].method = m BY DEF m
<1>11. breaker' \in [Methods -> Breakers] /\ BreakerInv'
  BY <1>1, <1>3, <1>4, <1>9, <1>10, TrialOver
<1>. QED BY <1>1, <1>3, <1>5, <1>7, <1>11, StepOfLoop

\* A call enters the breaker, or is refused.
LEMMA FireKeeps == ASSUME PathInv, NEW c \in Calls, Fire(c) PROVE PathInv'
<1>. DEFINE m == MethodOf(handler[c])
            b == breaker[m]
<1>1. /\ handler[c] \in Remote /\ loop[c].pc = "idle"
      /\ UNCHANGED <<route, answer, ordered>>
  BY DEF Fire
<1>2. m \in Methods BY <1>1 DEF MethodOf, Remote, CatalogMethod, Methods
<1>3. /\ loop \in [Calls -> Loops] /\ breaker \in [Methods -> Breakers] /\ b \in Breakers
      /\ ~loop[c].awaited
  BY <1>1, <1>2 DEF PathInv, Shapes, Loops, Breakers, CallInv, LoopInv
<1>4. CASE LetsThrough(b)
  <2>. DEFINE l == [pc |-> "attempt", method |-> m, tries |-> 1, awaited |-> TRUE]
  <2>1. /\ loop' = [loop EXCEPT ![c] = l] /\ SetBreaker(m, Fired(b))
        /\ UNCHANGED <<handler, priced, thrown, cause>>
    BY <1>4 DEF Fire
  <2>2. l \in Loops BY <1>2, CallsAssumption DEF Loops
  <2>3. loop'[c] = l BY <1>3, <2>1
  <2>4. LoopInv(c)' BY <1>1, <1>2, <2>1, <2>3 DEF LoopInv
  <2>5. HandlerKept(c) BY <2>1 DEF HandlerKept, PathInv, Shapes
  <2>6. AnswerSide(c)'
    <3>1. AnswerInv(c)' BY <1>1, <2>1 DEF PathInv, CallInv, AnswerInv, Answered
    <3>2. StageInv(c)' BY <1>1, <2>1 DEF PathInv, CallInv, StageInv
    <3>3. Expected(c)' = Expected(c) /\ Told(c)' = Told(c) BY <2>1 DEF Expected, Told
    <3>4. EndInv(c)' BY <1>1, <2>1, <3>3 DEF PathInv, CallInv, EndInv, Answered
    <3>5. Faithful(c)' BY <1>1, <2>1, <3>3 DEF PathInv, CallInv, Faithful
    <3>. QED BY <3>1, <3>2, <3>4, <3>5 DEF AnswerSide
  <2>7. Fired(b) \in Breakers /\ Fired(b).state = b.state /\ (Fired(b).trial => b.state = "half")
    BY <1>3, BreakerSteps
  <2>8. loop'[c].awaited /\ loop'[c].method = m BY <2>3
  <2>. HIDE DEF l, m
  <2>9. breaker' \in [Methods -> Breakers] /\ breaker'[m] = Fired(b)
    BY <1>2, <1>3, <2>1, <2>7 DEF SetBreaker
  <2>10. ASSUME NEW n \in Methods, breaker'[n].trial
         PROVE  /\ breaker'[n].state = "half"
                /\ \E d \in Calls : loop'[d].awaited /\ loop'[d].method = n
    <3>1. CASE n = m BY <2>7, <2>8, <2>9, <2>10, <3>1
    <3>2. CASE n # m
      <4>1. breaker'[n] = breaker[n] BY <1>3, <2>1, <3>2 DEF SetBreaker
      <4>2. breaker[n].state = "half" BY <2>10, <4>1 DEF PathInv, BreakerInv
      <4>3. PICK d \in Calls : loop[d].awaited /\ loop[d].method = n
        BY <2>10, <4>1 DEF PathInv, BreakerInv
      <4>4. loop'[d] = loop[d] BY <1>3, <2>1, <4>3
      <4>. QED BY <4>1, <4>2, <4>3, <4>4
    <3>. QED BY <3>1, <3>2
  <2>11. BreakerInv' BY <2>10 DEF BreakerInv
  <2>. QED BY <1>1, <2>1, <2>2, <2>4, <2>5, <2>6, <2>9, <2>11, StepOfLoop
<1>5. CASE ~LetsThrough(b)
  <2>. DEFINE p == Plain("EOPENBREAKER")
  <2>1. /\ Settle(c, p) /\ SetBreaker(m, Rejected(b)) /\ Blame(c, p) /\ UNCHANGED loop
    BY <1>5 DEF Fire
  <2>2. p # NoFailure BY DEF Plain, NoFailure, Failure
  <2>3. Carries(p, p) BY PlainCarries
  <2>. HIDE DEF p
  <2>4. AnswerSide(c)' /\ HandlerKept(c)
    BY <1>1, <2>1, <2>2, <2>3, SettleFails DEF PathInv, CallInv, AnswerSide
  <2>5. LoopInv(c)' BY <1>1, <1>3, <2>1 DEF LoopInv
  <2>6. loop[c] \in Loops /\ loop' = [loop EXCEPT ![c] = loop[c]] BY <1>3, <2>1
  <2>7. Rejected(b) \in Breakers /\ Rejected(b).state = b.state /\ Rejected(b).trial = b.trial
    BY <1>3, BreakerSteps
  <2>. HIDE DEF m
  <2>8. breaker' \in [Methods -> Breakers] BY <1>2, <1>3, <2>1, <2>7 DEF SetBreaker
  <2>9. \A n \in Methods : breaker'[n].state = breaker[n].state
                            /\ breaker'[n].trial = breaker[n].trial
    BY <1>2, <1>3, <2>1, <2>7 DEF SetBreaker
  <2>10. BreakerInv' BY <2>1, <2>9 DEF PathInv, BreakerInv
  <2>. QED BY <1>1, <2>4, <2>5, <2>6, <2>8, <2>10, StepOfLoop
<1>. QED BY <1>4, <1>5

\* The breakers' own timers.
LEMMA TimersKeep ==
    ASSUME PathInv, NEW m \in Methods, ResetTimeout(m) \/ WindowPasses(m) PROVE PathInv'
<1>1. UNCHANGED <<route, answer, handler, priced, thrown, loop, ordered, cause>>
  BY DEF ResetTimeout, WindowPasses
<1>2. breaker \in [Methods -> Breakers] /\ breaker[m] \in Breakers
  BY DEF PathInv, Shapes, Breakers
<1>3. PICK b \in Breakers :
        /\ breaker' = [breaker EXCEPT ![m] = b]
        /\ b.trial = breaker[m].trial
        /\ b.state = breaker[m].state \/ breaker[m].state = "open"
  <2>1. CASE ResetTimeout(m)
    <3>. DEFINE b == [breaker[m] EXCEPT !.state = "half"]
    <3>1. b \in Breakers /\ b.trial = breaker[m].trial BY <1>2 DEF Breakers
    <3>. QED BY <2>1, <3>1 DEF ResetTimeout
  <2>2. CASE WindowPasses(m)
    <3>. DEFINE b == [breaker[m] EXCEPT !.fires = 0, !.failures = 0]
    <3>1. b \in Breakers /\ b.trial = breaker[m].trial /\ b.state = breaker[m].state
      BY <1>2 DEF Breakers
    <3>. QED BY <2>2, <3>1 DEF WindowPasses
  <2>. QED BY <2>1, <2>2
<1>4. Shapes' BY <1>1, <1>2, <1>3 DEF PathInv, Shapes, Breakers
<1>5. ASSUME NEW c \in Calls PROVE CallInv(c)'
  <2>1. LoopInv(c)' BY <1>1 DEF PathInv, CallInv, LoopInv
  <2>2. AnswerInv(c)' BY <1>1 DEF PathInv, CallInv, AnswerInv, Answered
  <2>3. StageInv(c)' BY <1>1 DEF PathInv, CallInv, StageInv
  <2>4. Expected(c)' = Expected(c) /\ Told(c)' = Told(c) BY <1>1 DEF Expected, Told
  <2>5. EndInv(c)' BY <1>1, <2>4 DEF PathInv, CallInv, EndInv, Answered
  <2>6. Faithful(c)' BY <1>1, <2>4 DEF PathInv, CallInv, Faithful
  <2>. QED BY <2>1, <2>2, <2>3, <2>5, <2>6 DEF CallInv
<1>6. ASSUME NEW n \in Methods, breaker'[n].trial
      PROVE  /\ breaker'[n].state = "half"
             /\ \E d \in Calls : loop'[d].awaited /\ loop'[d].method = n
  <2>1. breaker[n].trial BY <1>2, <1>3, <1>6
  <2>2. breaker[n].state = "half" BY <2>1 DEF PathInv, BreakerInv
  <2>3. breaker'[n].state = "half" BY <1>2, <1>3, <2>2
  <2>. QED BY <1>1, <2>1, <2>3 DEF PathInv, BreakerInv
<1>7. BreakerInv' BY <1>6 DEF BreakerInv
<1>. QED BY <1>4, <1>5, <1>7 DEF PathInv

---------------------------------------------------------------------------

\* Every step keeps the invariant.
LEMMA PathStep == ASSUME PathInv, [PathNext]_pathVars PROVE PathInv'
<1>1. ASSUME NEW c \in Calls, Refuse(c) PROVE PathInv' BY <1>1, RefuseKeeps
<1>2. ASSUME NEW c \in Calls, Forward(c) PROVE PathInv' BY <1>2, ForwardKeeps
<1>3. ASSUME NEW c \in Calls, Reply(c) PROVE PathInv' BY <1>3, ReplyKeeps
<1>4. ASSUME NEW c \in Calls, GatewayDeadline(c) \/ ConnectionLost(c) PROVE PathInv'
  BY <1>4, BrokenOffKeeps
<1>5. ASSUME NEW c \in Calls, GetOrderById(c) \/ HandleOther(c) PROVE PathInv'
  BY <1>5, GetOrderByIdKeeps, HandleOtherKeeps
<1>6. ASSUME NEW c \in Calls, BeginOrder(c) PROVE PathInv' BY <1>6, BeginOrderKeeps
<1>7. ASSUME NEW c \in Calls, Fire(c) PROVE PathInv' BY <1>7, FireKeeps
<1>8. ASSUME NEW c \in Calls, Commit(c) PROVE PathInv' BY <1>8, CommitKeeps
<1>9. ASSUME NEW c \in Calls, Recover(c) PROVE PathInv' BY <1>9, RecoverKeeps
<1>10. ASSUME NEW c \in Calls, AttemptOk(c) PROVE PathInv' BY <1>10, AttemptOkKeeps
<1>11. ASSUME NEW c \in Calls,
              AttemptFails(c) \/ AttemptUnreachable(c) \/ AttemptDeadline(c)
       PROVE  PathInv'
  BY <1>11, AttemptsKeep
<1>12. ASSUME NEW c \in Calls, Retry(c) PROVE PathInv' BY <1>12, RetryKeeps
<1>13. ASSUME NEW c \in Calls, BreakerTimeout(c) PROVE PathInv' BY <1>13, BreakerTimeoutKeeps
<1>14. ASSUME NEW m \in Methods, ResetTimeout(m) \/ WindowPasses(m) PROVE PathInv'
  BY <1>14, TimersKeep
<1>15. CASE UNCHANGED pathVars
  <2>1. UNCHANGED <<route, answer, handler, priced, thrown, loop, breaker, ordered, cause>>
    BY <1>15 DEF pathVars
  <2>2. Shapes' BY <2>1 DEF PathInv, Shapes
  <2>3. ASSUME NEW c \in Calls PROVE CallInv(c)'
    <3>1. LoopInv(c)' BY <2>1 DEF PathInv, CallInv, LoopInv
    <3>2. AnswerInv(c)' BY <2>1 DEF PathInv, CallInv, AnswerInv, Answered
    <3>3. StageInv(c)' BY <2>1 DEF PathInv, CallInv, StageInv
    <3>4. Expected(c)' = Expected(c) /\ Told(c)' = Told(c) BY <2>1 DEF Expected, Told
    <3>5. EndInv(c)' BY <2>1, <3>4 DEF PathInv, CallInv, EndInv, Answered
    <3>6. Faithful(c)' BY <2>1, <3>4 DEF PathInv, CallInv, Faithful
    <3>. QED BY <3>1, <3>2, <3>3, <3>5, <3>6 DEF CallInv
  <2>4. BreakerInv' BY <2>1 DEF PathInv, BreakerInv
  <2>. QED BY <2>2, <2>3, <2>4 DEF PathInv
<1>. QED
  BY <1>1, <1>2, <1>3, <1>4, <1>5, <1>6, <1>7, <1>8, <1>9, <1>10, <1>11, <1>12, <1>13, <1>14,
     <1>15
  DEF PathNext, HandlerStep, LoopStep

\* The inductive invariant of requests, loops and breakers.
THEOREM RequestInvariant == PathSpec => []PathInv
<1>1. PathInit => PathInv BY PathInitially
<1>2. PathInv /\ [PathNext]_pathVars => PathInv' BY PathStep
<1>. QED BY <1>1, <1>2, PTL DEF PathSpec

\* Any number of requests of any routes and baskets keep the types of RequestTypeOK; a loop
\* somebody awaits belongs to the handler's present stage.
THEOREM RequestTypes == PathSpec => []RequestTypeOK
<1>1. ASSUME PathInv PROVE RequestTypeOK
  <2>1. ASSUME NEW c \in Calls
        PROVE  /\ answer[c].by \in {"nobody", "gateway", "service", "deadline", "connection"}
               /\ answer[c].http \in {0, 200, 201} \cup 400..599
               /\ priced[c] \in 0..LineItems[c]
               /\ loop[c].pc = "idle" => ~loop[c].awaited
               /\ loop[c].awaited =>
                     handler[c] \in Remote /\ loop[c].method = MethodOf(handler[c])
    <3>1. CallInv(c) BY <1>1 DEF PathInv
    <3>2. priced[c] \in Nat /\ LineItems[c] \in Nat /\ priced[c] <= LineItems[c]
      BY <1>1, <3>1, CallsAssumption DEF PathInv, Shapes, CallInv, StageInv
    <3>3. priced[c] \in 0..LineItems[c] BY <3>2
    <3>. QED BY <3>1, <3>3 DEF CallInv, AnswerInv, LoopInv
  <2>. QED BY <1>1, <2>1 DEF PathInv, Shapes, RequestTypeOK
<1>. QED BY <1>1, RequestInvariant, PTL

\* For any number of concurrent requests, attempts and errors: what a service's answer says
\* is the error that stopped the request, wherever it arose and however often it was retried
\* (orderService.ts, resilientClient.ts, middleware/errorHandler.ts).
THEOREM AnswersAreFaithful == PathSpec => []FaithfulAnswers
<1>1. PathInv => FaithfulAnswers
  BY DEF PathInv, CallInv, Faithful, FaithfulAnswers
<1>. QED BY <1>1, RequestInvariant, PTL

\* A half-open breaker that refuses everybody is waiting for a call that is still out, for any
\* number of handlers that share it (resilientClient.ts).
THEOREM TrialsAreNotLost == PathSpec => []NoLostTrial
<1>1. PathInv => NoLostTrial BY DEF PathInv, BreakerInv, NoLostTrial
<1>. QED BY <1>1, RequestInvariant, PTL
===========================================================================
