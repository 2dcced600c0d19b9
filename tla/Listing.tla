------------------------------ MODULE Listing ------------------------------
(***************************************************************************)
(* A client that pages through the orders of a customer (all orders, for   *)
(* an administrator) while new ones are inserted.  Pages are taken by key: *)
(* one resumes after the (createdAt, id) of the last order of the page     *)
(* before.                                                                 *)
(***************************************************************************)
EXTENDS Integers, Sequences, FiniteSets

CONSTANTS
    Ids,            \* ids of rows, in the order of the database
    Times,          \* values of createdAt
    Limits,         \* limits clients ask for, 0 when they give none
    DefaultLimit, MaxLimit

ASSUME ListingAssumption ==
    /\ Ids \subseteq Int /\ Times \subseteq Int /\ Limits \subseteq Int
    /\ DefaultLimit \in Nat \ {0} /\ MaxLimit \in Nat \ {0}

VARIABLES
    rows,           \* the table, without the columns nobody sorts by
    client,         \* idle, listing, done
    pages,          \* the pages it got
    cursor,         \* nextCursor of the last page, {} when there was none
    there           \* history: the rows that existed when it asked for the first page

listingVars == <<rows, client, pages, cursor, there>>

Rows == [id : Ids, createdAt : Times]

ListingTypeOK ==
    /\ rows \in SUBSET Rows
    /\ \A r, q \in rows : r.id = q.id => r = q
    /\ client \in {"idle", "listing", "done"}
    /\ pages \in Seq(SUBSET rows)
    /\ cursor \in SUBSET rows /\ \A r, q \in cursor : r = q
    /\ there \in SUBSET rows

ListingInit ==
    /\ rows = {}
    /\ client = "idle"
    /\ pages = <<>>
    /\ cursor = {} /\ there = {}

---------------------------------------------------------------------------
(* Rows and their order *)

(* Operators named Mutant... are wrong on purpose: see StockReservation.               *)

\* Ids that are not unique.
MutantInsertRow(i, t) ==
    /\ [id |-> i, createdAt |-> t] \notin rows
    /\ rows' = rows \cup {[id |-> i, createdAt |-> t]}
    /\ UNCHANGED <<client, pages, cursor, there>>

\* createdAt is the start of the inserting transaction: an order may appear after one
\* that is younger, and several may carry one time.
InsertRow(i, t) ==
    /\ \A r \in rows : r.id # i
    /\ rows' = rows \cup {[id |-> i, createdAt |-> t]}
    /\ UNCHANGED <<client, pages, cursor, there>>

\* orderBy [{ createdAt: 'desc' }, { id: 'desc' }]
Precedes(q, r) ==
    \/ q.createdAt > r.createdAt
    \/ q.createdAt = r.createdAt /\ q.id > r.id

Ahead(S, r) == {q \in S : Precedes(q, r)}

\* take n
FirstRows(S, n) == {r \in S : Cardinality(Ahead(S, r)) < n}

LastRow(S) == {r \in S : Ahead(S, r) = S \ {r}}

---------------------------------------------------------------------------
(* getOrders *)

MutantPageLimit(l) == IF l = 0 THEN DefaultLimit ELSE IF l > MaxLimit THEN MaxLimit ELSE l

\* The handler's default, then Math.min(Math.max(limit, 1), 100)
PageLimit(l) == IF l = 0 THEN DefaultLimit
                ELSE IF l < 1 THEN 1
                ELSE IF l > MaxLimit THEN MaxLimit ELSE l

\* The second branch of the OR forgotten: createdAt alone.
MutantResumes(c, r) == r.createdAt < c.createdAt

\* lte: the page starts with the last row of the page before.
MutantResumesAt(c, r) ==
    \/ r.createdAt < c.createdAt
    \/ r.createdAt = c.createdAt /\ r.id <= c.id

\* where: what encodeCursor took from the last row, and decodeCursor gives back.
Resumes(c, r) ==
    \/ r.createdAt < c.createdAt
    \/ r.createdAt = c.createdAt /\ r.id < c.id

Matching == {r \in rows : \A c \in cursor : Resumes(c, r)}

\* limit + 1 rows were asked for.
HasMore(n) == Cardinality(Matching) > n

Receive(page, next) ==
    /\ client # "done"
    /\ pages' = Append(pages, page)
    /\ cursor' = next
    /\ client' = IF next = {} THEN "done" ELSE "listing"
    /\ there' = IF client = "idle" THEN rows ELSE there
    /\ UNCHANGED rows

GetOrders(l) ==
    LET n == PageLimit(l)
        page == FirstRows(Matching, n)
    IN Receive(page, IF HasMore(n) THEN LastRow(page) ELSE {})

---------------------------------------------------------------------------

Insert == \E i \in Ids, t \in Times : InsertRow(i, t)

OrderPages == \E l \in Limits : GetOrders(l)

OrderListingSpec == ListingInit /\ [][Insert \/ OrderPages]_listingVars

---------------------------------------------------------------------------
(* Properties *)

\* No row is on two pages, although rows are inserted above and below the cursor between
\* the pages and the client may change the limit.
ListedOnce ==
    \A p, q \in DOMAIN pages : p # q => pages[p] \cap pages[q] = {}

Listed == UNION {pages[p] : p \in DOMAIN pages}

\* A client that follows nextCursor to the end has seen every order that existed when it
\* began, also those that share a timestamp with the last row of a page.
NothingMissed == client = "done" => there \subseteq Listed
=============================================================================
