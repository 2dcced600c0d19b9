---------------------------- MODULE ErrorModel -----------------------------
(***************************************************************************)
(* How an error travels: a service throws it, the gRPC server puts it on   *)
(* the wire, the caller reads it back, perhaps throws it on to its own     *)
(* caller, and the gateway answers with an HTTP status and a code.         *)
(***************************************************************************)
EXTENDS Integers

\* The HTTP and gRPC status each DomainError class is built with.
DomainStatus ==
    [VALIDATION_ERROR        |-> <<400, "INVALID_ARGUMENT">>,
     UNAUTHENTICATED         |-> <<401, "UNAUTHENTICATED">>,
     FORBIDDEN               |-> <<403, "PERMISSION_DENIED">>,
     NOT_FOUND               |-> <<404, "NOT_FOUND">>,
     ALREADY_EXISTS          |-> <<409, "ALREADY_EXISTS">>,
     INSUFFICIENT_STOCK      |-> <<409, "FAILED_PRECONDITION">>,
     CONCURRENT_MODIFICATION |-> <<409, "ABORTED">>,
     IDEMPOTENCY_KEY_REUSED  |-> <<422, "FAILED_PRECONDITION">>,
     DEPENDENCY_UNAVAILABLE  |-> <<503, "UNAVAILABLE">>]

DomainCodes == DOMAIN DomainStatus

(* An error is a record: its kind, its code, and its HTTP and gRPC status where it     *)
(* carries them (0 and NONE where not).                                                *)
Failure(kind, code, http, grpc) == [kind |-> kind, code |-> code, http |-> http, grpc |-> grpc]

Domain(code) == Failure("domain", code, DomainStatus[code][1], DomainStatus[code][2])
ApiError(http, code) == Failure("api", code, http, "NONE")  \* code: HTTP_ and its status
Prisma(code) == Failure("prisma", code, 0, "NONE")
Plain(code) == Failure("plain", code, 0, "NONE")        \* any other Error
Transport(grpc) == Failure("grpc", "NONE", 0, grpc)     \* made by the gRPC library
IsServiceError(e) ==
    \/ \E code \in DomainCodes : e = Domain(code)
    \/ e = Prisma(e.code) \/ e = Plain(e.code)
NoFailure == Failure("none", "NONE", 0, "NONE")

\* Database errors with a meaning of their own; anything else stays unknown.
PrismaMeanings ==
    [P2002 |-> "ALREADY_EXISTS",
     P2025 |-> "NOT_FOUND",
     P2003 |-> "VALIDATION_ERROR",
     P2034 |-> "CONCURRENT_MODIFICATION",
     P2024 |-> "DEPENDENCY_UNAVAILABLE",
     P1001 |-> "DEPENDENCY_UNAVAILABLE",
     P1002 |-> "DEPENDENCY_UNAVAILABLE",
     P1008 |-> "DEPENDENCY_UNAVAILABLE",
     P1017 |-> "DEPENDENCY_UNAVAILABLE"]

HasMeaning(e) == e.kind = "prisma" /\ e.code \in DOMAIN PrismaMeanings

NormalizeError(e) ==
    IF e.kind \in {"domain", "api"} THEN e
    ELSE IF HasMeaning(e) THEN Domain(PrismaMeanings[e.code])
    ELSE NoFailure

HttpToGrpc(http) ==
    CASE http = 400 -> "INVALID_ARGUMENT"
      [] http = 401 -> "UNAUTHENTICATED"
      [] http = 403 -> "PERMISSION_DENIED"
      [] http = 404 -> "NOT_FOUND"
      [] http = 409 -> "ALREADY_EXISTS"
      [] http = 422 -> "FAILED_PRECONDITION"
      [] http = 429 -> "RESOURCE_EXHAUSTED"
      [] http = 499 -> "CANCELLED"
      [] http = 501 -> "UNIMPLEMENTED"
      [] http = 503 -> "UNAVAILABLE"
      [] http = 504 -> "DEADLINE_EXCEEDED"
      [] OTHER -> "INTERNAL"

\* What the server puts on the wire: a gRPC status, the domain error's own where it has
\* one, with the HTTP status and the code as metadata.
ToGrpcError(e) ==
    LET known == NormalizeError(e) IN
    CASE known.kind = "domain" -> Failure("grpc", known.code, known.http, known.grpc)
      [] known.kind = "api" -> Failure("grpc", known.code, known.http, HttpToGrpc(known.http))
      [] OTHER -> Failure("grpc", "INTERNAL", 500, "INTERNAL")

GrpcStatuses ==
    [INVALID_ARGUMENT    |-> 400,
     OUT_OF_RANGE        |-> 400,
     UNAUTHENTICATED     |-> 401,
     PERMISSION_DENIED   |-> 403,
     NOT_FOUND           |-> 404,
     ALREADY_EXISTS      |-> 409,
     ABORTED             |-> 409,
     FAILED_PRECONDITION |-> 422,
     RESOURCE_EXHAUSTED  |-> 429,
     CANCELLED           |-> 499,
     UNIMPLEMENTED       |-> 501,
     UNAVAILABLE         |-> 503,
     DEADLINE_EXCEEDED   |-> 504]

GrpcToHttp(grpc) == IF grpc \in DOMAIN GrpcStatuses THEN GrpcStatuses[grpc] ELSE 500

(* Operators named Mutant... are wrong on purpose: see StockReservation.               *)

\* The HTTP status is derived from the gRPC status, whatever the metadata says.
MutantFromGrpcError(e) ==
    Failure("domain", IF e.code = "NONE" THEN "UPSTREAM_ERROR" ELSE e.code,
            GrpcToHttp(e.grpc), e.grpc)

\* What the caller reads: the metadata where there is any, else the gRPC status.
FromGrpcError(e) ==
    Failure("domain",
            IF e.code = "NONE" THEN "UPSTREAM_ERROR" ELSE e.code,
            IF e.http >= 400 /\ e.http < 600 THEN e.http ELSE GrpcToHttp(e.grpc),
            e.grpc)

\* Errors of the gateway itself: of zod, and of the body parser.
RequestErrors ==
    [zod  |-> [http |-> 400, code |-> "VALIDATION_ERROR"],
     json |-> [http |-> 400, code |-> "INVALID_JSON"],
     size |-> [http |-> 413, code |-> "PAYLOAD_TOO_LARGE"]]

\* The gateway's errorHandler: status and code of the response.
Respond(e) ==
    LET known == IF e.kind = "grpc" THEN FromGrpcError(e) ELSE NormalizeError(e) IN
    IF known.kind \in {"domain", "api"} THEN [http |-> known.http, code |-> known.code]
    ELSE IF e.kind \in DOMAIN RequestErrors THEN RequestErrors[e.kind]
    ELSE [http |-> 500, code |-> "INTERNAL"]
=============================================================================
