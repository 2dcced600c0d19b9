--------------------------- MODULE ListingProofs ---------------------------
(***************************************************************************)
(* Paging through orders by key lists every row once and misses none, for  *)
(* any table, limits and interleaving with inserts.                        *)
(***************************************************************************)
EXTENDS Listing, TLAPS, FiniteSetTheorems, WellFoundedInduction

\* A non-empty set of naturals has a least element.
LEMMA LeastNatural ==
    ASSUME NEW S \in SUBSET Nat, S # {} PROVE \E x \in S : \A y \in S : x <= y
<1>. DEFINE R == OpToRel(<, Nat)
<1>1. IsWellFoundedOn(R, Nat) BY NatLessThanWellFounded
<1>. HIDE DEF R
<1>2. PICK x \in S : \A y \in S : ~(<<y, x>> \in R) BY <1>1, WFMin
<1>3. \A y \in S : y < x => <<y, x>> \in R BY DEF R, OpToRel
<1>4. \A y \in S : x <= y
  <2>1. \A y \in S : ~(y < x) BY <1>2, <1>3
  <2>2. \A a, b \in Nat : ~(a < b) => b <= a OBVIOUS
  <2>. QED BY <2>1, <2>2
<1>. QED BY <1>4

\* A part that lacks an element is smaller.
LEMMA SmallerPart ==
    ASSUME NEW T, IsFiniteSet(T), NEW R \in SUBSET T, NEW x \in T, x \notin R
    PROVE  Cardinality(R) < Cardinality(T)
<1>1. Cardinality(R) <= Cardinality(T) /\ (Cardinality(R) = Cardinality(T) => R = T)
  BY FS_Subset
<1>2. R # T OBVIOUS
<1>3. Cardinality(R) \in Nat /\ Cardinality(T) \in Nat BY FS_Subset, FS_CardinalityType
<1>. QED BY <1>1, <1>2, <1>3

---------------------------------------------------------------------------
(* The order of the rows *)

\* A set of rows that can be a table, or a part of one.
Table(S) ==
    /\ S \subseteq Rows
    /\ IsFiniteSet(S)
    /\ \A q, r \in S : q.id = r.id => q = r

\* (createdAt, id) orders the rows of a table strictly and totally.
LEMMA RowOrder ==
    ASSUME NEW S, Table(S)
    PROVE  /\ \A r \in S : ~Precedes(r, r)
           /\ \A p, q, r \in S : Precedes(p, q) /\ Precedes(q, r) => Precedes(p, r)
           /\ \A q, r \in S : q = r \/ Precedes(q, r) \/ Precedes(r, q)
           /\ \A q, r \in S : Precedes(q, r) => ~Precedes(r, q)
<1>1. \A r \in S : r.id \in Int /\ r.createdAt \in Int
  BY ListingAssumption DEF Table, Rows
<1>2. \A q, r \in S : q.id = r.id => q = r BY DEF Table
<1>. QED BY <1>1, <1>2 DEF Precedes

Behind(S, r) == {q \in S : Precedes(r, q)}

\* A table with a row has a first one.
LEMMA FirstRowExists ==
    ASSUME NEW S, Table(S), S # {} PROVE \E r \in S : Ahead(S, r) = {}
<1>. DEFINE Sizes == {Cardinality(Ahead(S, r)) : r \in S}
<1>1. ASSUME NEW r \in S
      PROVE  IsFiniteSet(Ahead(S, r)) /\ Cardinality(Ahead(S, r)) \in Nat
  <2>1. Ahead(S, r) \subseteq S BY DEF Ahead
  <2>2. IsFiniteSet(Ahead(S, r)) BY <2>1, FS_Subset DEF Table
  <2>. QED BY <2>2, FS_CardinalityType
<1>2. Sizes \in SUBSET Nat /\ Sizes # {} BY <1>1
<1>3. PICK r \in S : \A q \in S : Cardinality(Ahead(S, r)) <= Cardinality(Ahead(S, q))
  <2>1. PICK k \in Sizes : \A j \in Sizes : k <= j BY <1>2, LeastNatural
  <2>. QED BY <2>1
<1>4. ASSUME NEW q \in Ahead(S, r) PROVE FALSE
  <2>1. q \in S /\ Precedes(q, r) BY <1>4 DEF Ahead
  <2>2. Ahead(S, q) \subseteq Ahead(S, r) BY <2>1, RowOrder DEF Ahead
  <2>3. q \notin Ahead(S, q) BY <2>1, RowOrder DEF Ahead
  <2>4. Cardinality(Ahead(S, q)) < Cardinality(Ahead(S, r))
    BY <1>1, <1>4, <2>1, <2>2, <2>3, SmallerPart
  <2>5. Cardinality(Ahead(S, r)) <= Cardinality(Ahead(S, q)) BY <1>3, <2>1
  <2>. QED BY <1>1, <2>1, <2>4, <2>5
<1>. QED BY <1>4

\* ... and a last one.
LEMMA LastRowExists ==
    ASSUME NEW S, Table(S), S # {} PROVE LastRow(S) # {}
<1>. DEFINE Sizes == {Cardinality(Behind(S, r)) : r \in S}
<1>1. ASSUME NEW r \in S
      PROVE  IsFiniteSet(Behind(S, r)) /\ Cardinality(Behind(S, r)) \in Nat
  <2>1. Behind(S, r) \subseteq S BY DEF Behind
  <2>2. IsFiniteSet(Behind(S, r)) BY <2>1, FS_Subset DEF Table
  <2>. QED BY <2>2, FS_CardinalityType
<1>2. Sizes \in SUBSET Nat /\ Sizes # {} BY <1>1
<1>3. PICK r \in S : \A q \in S : Cardinality(Behind(S, r)) <= Cardinality(Behind(S, q))
  <2>1. PICK k \in Sizes : \A j \in Sizes : k <= j BY <1>2, LeastNatural
  <2>. QED BY <2>1
<1>4. ASSUME NEW q \in S, Precedes(r, q) PROVE FALSE
  <2>1. Behind(S, q) \subseteq Behind(S, r) BY <1>4, RowOrder DEF Behind
  <2>2. q \in Behind(S, r) BY <1>4 DEF Behind
  <2>3. q \notin Behind(S, q) BY RowOrder DEF Behind
  <2>4. Cardinality(Behind(S, q)) < Cardinality(Behind(S, r))
    BY <1>1, <2>1, <2>2, <2>3, SmallerPart
  <2>5. Cardinality(Behind(S, r)) <= Cardinality(Behind(S, q)) BY <1>3
  <2>. QED BY <1>1, <2>4, <2>5
<1>5. Ahead(S, r) = S \ {r} BY <1>4, RowOrder DEF Ahead
<1>. QED BY <1>5 DEF LastRow

\* Nothing follows the last row, and it is the only one.
LEMMA LastRowIsLast ==
    ASSUME NEW S, Table(S), NEW c \in LastRow(S)
    PROVE  /\ c \in S
           /\ \A r \in S : ~Precedes(c, r)
           /\ \A d \in LastRow(S) : d = c
<1>1. c \in S /\ \A r \in S \ {c} : Precedes(r, c) BY DEF LastRow, Ahead
<1>2. \A r \in S : ~Precedes(c, r) BY <1>1, RowOrder
<1>3. \A d \in LastRow(S) : d \in S /\ \A r \in S \ {d} : Precedes(r, d) BY DEF LastRow, Ahead
<1>. QED BY <1>1, <1>2, <1>3

---------------------------------------------------------------------------
(* What take: n returns *)

\* What precedes a row of the page is on the page.
LEMMA PageIsClosed ==
    ASSUME NEW S, Table(S), NEW n \in Nat,
           NEW r \in FirstRows(S, n), NEW q \in S, Precedes(q, r)
    PROVE  q \in FirstRows(S, n)
<1>1. r \in S /\ Cardinality(Ahead(S, r)) < n BY DEF FirstRows
<1>2. Ahead(S, q) \subseteq Ahead(S, r) BY <1>1, RowOrder DEF Ahead
<1>3. IsFiniteSet(Ahead(S, r))
  <2>1. Ahead(S, r) \subseteq S BY DEF Ahead
  <2>. QED BY <2>1, FS_Subset DEF Table
<1>4. Cardinality(Ahead(S, q)) <= Cardinality(Ahead(S, r)) BY <1>2, <1>3, FS_Subset
<1>5. Cardinality(Ahead(S, r)) \in Nat /\ Cardinality(Ahead(S, q)) \in Nat
  BY <1>2, <1>3, FS_Subset, FS_CardinalityType
<1>. QED BY <1>1, <1>4, <1>5 DEF FirstRows

\* Rows that fit on a page are all on it.
LEMMA AllFit ==
    ASSUME NEW S, Table(S), NEW n \in Nat, ~(Cardinality(S) > n)
    PROVE  FirstRows(S, n) = S
<1>1. Cardinality(S) \in Nat BY FS_CardinalityType DEF Table
<1>2. ASSUME NEW r \in S PROVE Cardinality(Ahead(S, r)) < n
  <2>1. Ahead(S, r) \subseteq S /\ r \notin Ahead(S, r) BY RowOrder DEF Ahead
  <2>2. Cardinality(Ahead(S, r)) < Cardinality(S) BY <2>1, SmallerPart DEF Table
  <2>3. Cardinality(Ahead(S, r)) \in Nat BY <2>1, FS_Subset, FS_CardinalityType DEF Table
  <2>. QED BY <1>1, <2>2, <2>3
<1>. QED BY <1>2 DEF FirstRows

\* A page that is not the last has rows, the last of which separates it from the rest.
LEMMA PageSplits ==
    ASSUME NEW S, Table(S), NEW n \in Nat \ {0}, Cardinality(S) > n
    PROVE  /\ LastRow(FirstRows(S, n)) # {}
           /\ \A c \in LastRow(FirstRows(S, n)) :
                 /\ c \in FirstRows(S, n)
                 /\ \A r \in FirstRows(S, n) : ~Precedes(c, r)
                 /\ \A r \in S \ FirstRows(S, n) : Precedes(c, r)
<1>. DEFINE P == FirstRows(S, n)
<1>1. P \subseteq S BY DEF FirstRows
<1>2. Table(P) BY <1>1, FS_Subset DEF Table
<1>3. S # {} BY FS_EmptySet
<1>4. PICK f \in S : Ahead(S, f) = {} BY <1>3, FirstRowExists
<1>5. f \in P BY <1>4, FS_EmptySet DEF FirstRows
<1>6. LastRow(P) # {} BY <1>2, <1>5, LastRowExists
<1>. HIDE DEF P
<1>7. ASSUME NEW c \in LastRow(P)
      PROVE  /\ c \in P
             /\ \A r \in P : ~Precedes(c, r)
             /\ \A r \in S \ P : Precedes(c, r)
  <2>1. c \in P /\ \A r \in P : ~Precedes(c, r) BY <1>2, LastRowIsLast
  <2>2. ASSUME NEW r \in S \ P PROVE Precedes(c, r)
    <3>1. c \in S BY <1>1, <2>1
    <3>2. c = r \/ Precedes(c, r) \/ Precedes(r, c) BY <3>1, RowOrder
    <3>3. ~Precedes(r, c) BY <2>1, PageIsClosed DEF P
    <3>. QED BY <2>1, <3>2, <3>3
  <2>. QED BY <2>1, <2>2
<1>. QED BY <1>6, <1>7 DEF P

\* The WHERE of the cursor is the ORDER BY.
LEMMA ResumesAfter ==
    ASSUME NEW c \in Rows, NEW r \in Rows PROVE Resumes(c, r) <=> Precedes(c, r)
<1>1. /\ c.id \in Int /\ c.createdAt \in Int /\ r.id \in Int /\ r.createdAt \in Int
  BY ListingAssumption DEF Rows
<1>. QED BY <1>1 DEF Resumes, Precedes

LEMMA PageLimitType == ASSUME NEW l \in Limits PROVE PageLimit(l) \in Nat \ {0}
<1>1. l \in Int BY ListingAssumption
<1>. QED BY <1>1, ListingAssumption DEF PageLimit

---------------------------------------------------------------------------
(* The inductive invariant *)

\* What was listed lies up to the cursor, what is still owed lies after it.
CursorInv ==
    /\ client = "idle" => pages = <<>> /\ cursor = {}
    /\ client = "listing" => cursor # {}
    /\ \A c \in cursor : \A r \in Listed : ~Resumes(c, r)
    /\ client # "idle" => \A r \in there \ Listed :
          client = "listing" /\ \A c \in cursor : Resumes(c, r)

ListingInv == ListingTypeOK /\ IsFiniteSet(rows) /\ CursorInv /\ ListedOnce

\* A page adds its rows to what was listed.
LEMMA ListedGrows ==
    ASSUME NEW T, pages \in Seq(SUBSET T), NEW page \in SUBSET T,
           pages' = Append(pages, page)
    PROVE  /\ pages' \in Seq(SUBSET T)
           /\ Listed' = Listed \cup page
           /\ ListedOnce /\ page \cap Listed = {} => ListedOnce'
<1>1. /\ pages' \in Seq(SUBSET T)
      /\ Len(pages') = Len(pages) + 1
      /\ \A p \in 1 .. Len(pages) : pages'[p] = pages[p]
      /\ pages'[Len(pages) + 1] = page
  OBVIOUS
<1>2. Len(pages) \in Nat OBVIOUS
<1>3. DOMAIN pages = 1 .. Len(pages) /\ DOMAIN pages' = 1 .. (Len(pages) + 1)
  BY <1>1
<1>4. DOMAIN pages' = DOMAIN pages \cup {Len(pages) + 1} /\ Len(pages) + 1 \notin DOMAIN pages
  BY <1>2, <1>3
<1>5. Listed' = Listed \cup page
  <2>1. \A p \in DOMAIN pages : pages'[p] = pages[p] BY <1>1, <1>3
  <2>. QED BY <1>1, <1>4, <2>1 DEF Listed
<1>6. ASSUME ListedOnce, page \cap Listed = {} PROVE ListedOnce'
  <2>1. \A p \in DOMAIN pages : pages'[p] = pages[p] /\ pages[p] \cap page = {}
    BY <1>1, <1>3, <1>6 DEF Listed
  <2>. QED BY <1>1, <1>4, <1>6, <2>1 DEF ListedOnce
<1>. QED BY <1>1, <1>5, <1>6

LEMMA InsertKeepsInv == ListingInv /\ Insert => ListingInv'
<1>. SUFFICES ASSUME ListingInv, NEW i \in Ids, NEW t \in Times, InsertRow(i, t)
              PROVE  ListingInv'
  BY DEF Insert
<1>. DEFINE new == [id |-> i, createdAt |-> t]
<1>1. new \in Rows /\ rows' = rows \cup {new} /\ new.id = i
  BY DEF InsertRow, Rows
<1>2. UNCHANGED <<client, pages, cursor, there>> BY DEF InsertRow
<1>3. \A r \in rows : r.id # new.id BY <1>1 DEF InsertRow
<1>4. ListingTypeOK'
  <2>1. rows' \in SUBSET Rows BY <1>1 DEF ListingInv, ListingTypeOK
  <2>2. \A r, q \in rows' : r.id = q.id => r = q
    BY <1>1, <1>3 DEF ListingInv, ListingTypeOK
  <2>3. pages' \in Seq(SUBSET rows')
    <3>1. SUBSET rows \subseteq SUBSET rows' BY <1>1
    <3>2. pages \in Seq(SUBSET rows) BY DEF ListingInv, ListingTypeOK
    <3>. QED BY <1>2, <3>1, <3>2
  <2>. QED BY <1>1, <1>2, <2>1, <2>2, <2>3 DEF ListingInv, ListingTypeOK
<1>5. IsFiniteSet(rows') BY <1>1, FS_AddElement DEF ListingInv
<1>6. Listed' = Listed BY <1>2 DEF Listed
<1>7. CursorInv' BY <1>2, <1>6 DEF ListingInv, CursorInv, Resumes
<1>8. ListedOnce' BY <1>2 DEF ListingInv, ListedOnce
<1>. QED BY <1>4, <1>5, <1>7, <1>8 DEF ListingInv

LEMMA PageKeepsInv == ListingInv /\ OrderPages => ListingInv'
<1>. SUFFICES ASSUME ListingInv, NEW l \in Limits, GetOrders(l) PROVE ListingInv'
  BY DEF OrderPages
<1>. DEFINE n == PageLimit(l)
            page == FirstRows(Matching, n)
            next == IF HasMore(n) THEN LastRow(page) ELSE {}
<1>1. n \in Nat \ {0} BY PageLimitType
<1>2. /\ client # "done"
      /\ pages' = Append(pages, page)
      /\ cursor' = next
      /\ client' = IF next = {} THEN "done" ELSE "listing"
      /\ there' = IF client = "idle" THEN rows ELSE there
      /\ rows' = rows
  BY DEF GetOrders, Receive
<1>3. Table(rows) BY DEF ListingInv, ListingTypeOK, Table
<1>4. Matching \subseteq rows /\ page \subseteq Matching BY DEF Matching, FirstRows
<1>5. Table(Matching) BY <1>3, <1>4, FS_Subset DEF Table
<1>6. \A c, r \in rows : Resumes(c, r) <=> Precedes(c, r)
  BY <1>3, ResumesAfter DEF Table
<1>7. Listed \subseteq rows /\ cursor \subseteq rows /\ there \subseteq rows
  <2>1. pages \in Seq(SUBSET rows) BY DEF ListingInv, ListingTypeOK
  <2>2. \A p \in DOMAIN pages : pages[p] \subseteq rows BY <2>1
  <2>. QED BY <2>2 DEF Listed, ListingInv, ListingTypeOK
<1>8. client = "idle" => Listed = {} /\ Matching = rows
  BY DEF ListingInv, CursorInv, Listed, Matching
<1>9. page \cap Listed = {}
  <2>1. CASE client = "idle" BY <1>8, <2>1
  <2>2. CASE client = "listing"
    <3>1. PICK c \in cursor : TRUE BY <2>2 DEF ListingInv, CursorInv
    <3>2. \A r \in Listed : ~Resumes(c, r) BY <3>1 DEF ListingInv, CursorInv
    <3>3. \A r \in page : Resumes(c, r) BY <1>4, <3>1 DEF Matching
    <3>. QED BY <3>2, <3>3
  <2>. QED BY <1>2, <2>1, <2>2 DEF ListingInv, ListingTypeOK
<1>10. /\ pages' \in Seq(SUBSET rows)
       /\ Listed' = Listed \cup page
       /\ ListedOnce'
  BY <1>2, <1>4, <1>9, ListedGrows DEF ListingInv, ListingTypeOK
<1>11. \A r \in there' \ Listed : r \in Matching
  <2>1. CASE client = "idle" BY <1>2, <1>8, <2>1
  <2>2. CASE client = "listing"
    BY <1>2, <1>7, <2>2 DEF ListingInv, CursorInv, Matching
  <2>. QED BY <1>2, <2>1, <2>2 DEF ListingInv, ListingTypeOK
<1>12. CASE HasMore(n)
  <2>1. Cardinality(Matching) > n BY <1>12 DEF HasMore
  <2>. HIDE DEF n
  <2>2. /\ next = LastRow(page) /\ next # {}
        /\ \A c \in next : /\ c \in page
                           /\ \A r \in page : ~Precedes(c, r)
                           /\ \A r \in Matching \ page : Precedes(c, r)
    BY <1>1, <1>5, <1>12, <2>1, PageSplits
  <2>. HIDE DEF page, next
  <2>3. client' = "listing" /\ cursor' = next BY <1>2, <2>2
  <2>4. next \subseteq rows BY <1>4, <2>2
  <2>5. \A c, d \in next : c = d
    <3>1. Table(page) BY <1>4, <1>5, FS_Subset DEF Table
    <3>. QED BY <2>2, <3>1, LastRowIsLast
  <2>6. ASSUME NEW c \in next, NEW r \in Listed' PROVE ~Resumes(c, r)
    <3>1. c \in rows /\ r \in rows BY <1>4, <1>7, <1>10, <2>4
    <3>2. CASE r \in page BY <1>6, <2>2, <3>1, <3>2
    <3>3. CASE r \in Listed
      <4>1. client = "listing" BY <1>2, <1>8, <3>3 DEF ListingInv, ListingTypeOK
      <4>2. PICK b \in cursor : TRUE BY <4>1 DEF ListingInv, CursorInv
      <4>3. ~Resumes(b, r) BY <3>3, <4>2 DEF ListingInv, CursorInv
      <4>4. Resumes(b, c) BY <1>4, <2>2, <4>2 DEF Matching
      <4>5. b \in rows BY <1>7, <4>2
      <4>. QED BY <1>3, <1>6, <3>1, <4>3, <4>4, <4>5, RowOrder
    <3>. QED BY <1>10, <3>2, <3>3
  <2>7. ASSUME NEW r \in there' \ Listed', NEW c \in next PROVE Resumes(c, r)
    <3>1. r \in Matching \ page BY <1>10, <1>11
    <3>2. r \in rows /\ c \in rows BY <1>4, <2>4, <3>1
    <3>. QED BY <1>6, <2>2, <3>1, <3>2
  <2>8. CursorInv' BY <2>2, <2>3, <2>6, <2>7 DEF CursorInv, Resumes
  <2>9. ListingTypeOK'
    BY <1>2, <1>10, <2>3, <2>4, <2>5 DEF ListingInv, ListingTypeOK
  <2>. QED BY <1>2, <1>10, <2>8, <2>9 DEF ListingInv
<1>13. CASE ~HasMore(n)
  <2>1. page = Matching BY <1>1, <1>5, <1>13, AllFit DEF HasMore
  <2>2. client' = "done" /\ cursor' = {} BY <1>2, <1>13
  <2>3. there' \subseteq Listed' BY <1>10, <1>11, <2>1
  <2>4. CursorInv' BY <2>2, <2>3 DEF CursorInv
  <2>5. ListingTypeOK' BY <1>2, <1>10, <2>2 DEF ListingInv, ListingTypeOK
  <2>. QED BY <1>2, <1>10, <2>4, <2>5 DEF ListingInv
<1>. QED BY <1>12, <1>13

---------------------------------------------------------------------------
(* Theorems *)

\* In every reachable state the cursor separates what was listed from what is owed.
THEOREM ListingInvariant == OrderListingSpec => []ListingInv
<1>1. ListingInit => ListingInv
  <2>. SUFFICES ASSUME ListingInit PROVE ListingInv OBVIOUS
  <2>1. ListingTypeOK BY DEF ListingInit, ListingTypeOK
  <2>2. IsFiniteSet(rows) BY FS_EmptySet DEF ListingInit
  <2>. QED BY <2>1, <2>2 DEF ListingInit, ListingInv, CursorInv, ListedOnce
<1>2. ListingInv /\ [Insert \/ OrderPages]_listingVars => ListingInv'
  <2>1. ListingInv /\ UNCHANGED listingVars => ListingInv'
    BY DEF listingVars, ListingInv, ListingTypeOK, CursorInv, ListedOnce, Listed, Resumes
  <2>. QED BY <2>1, InsertKeepsInv, PageKeepsInv
<1>. QED BY <1>1, <1>2, PTL DEF OrderListingSpec

\* The variables of the table and the client have their types.
THEOREM ListingTypes == OrderListingSpec => []ListingTypeOK
<1>1. ListingInv => ListingTypeOK BY DEF ListingInv
<1>. QED BY <1>1, ListingInvariant, PTL

\* getOrders never returns a row twice to a client that follows nextCursor.
THEOREM RowsAreListedOnce == OrderListingSpec => []ListedOnce
<1>1. ListingInv => ListedOnce BY DEF ListingInv
<1>. QED BY <1>1, ListingInvariant, PTL

\* A client that followed nextCursor to the end has seen what existed when it began.
THEOREM NoRowIsMissed == OrderListingSpec => []NothingMissed
<1>1. ListingInv => NothingMissed BY DEF ListingInv, CursorInv, NothingMissed
<1>. QED BY <1>1, ListingInvariant, PTL
=============================================================================
