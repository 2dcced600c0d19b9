--------------------------- MODULE StockTxProofs ---------------------------
(***************************************************************************)
(* Proofs about StockTx, for any number of sessions, orders and products:  *)
(* the types, the absence of lock cycles, and that the statements of the   *)
(* stock transactions implement the one-step transactions of               *)
(* StockReservation, and with them keep the units of every product.        *)
(***************************************************************************)
EXTENDS StockTx, FiniteSetTheorems, WellFoundedInduction, TLAPS

---------------------------------------------------------------------------
(* Least and greatest elements *)

\* Every non-empty set of naturals has a least element.
LEMMA LeastNatural ==
    ASSUME NEW S \in SUBSET Nat, S # {} PROVE \E x \in S : \A y \in S : x <= y
<1>. DEFINE R == OpToRel(<, Nat)
<1>1. IsWellFoundedOn(R, Nat) BY NatLessThanWellFounded
<1>. HIDE DEF R
<1>2. PICK x \in S : \A y \in S : ~(<<y, x>> \in R) BY <1>1, WFMin
<1>3. \A y \in S : y < x => <<y, x>> \in R BY DEF R, OpToRel
<1>4. \A y \in S : x <= y
  <2>1. \A y \in S : ~(y < x) BY <1>2, <1>3
  <2>2. \A a, b \in Nat : ~(a < b) => b <= a OBVIOUS
  <2>3. S \subseteq Nat OBVIOUS
  <2>. QED BY <2>1, <2>2, <2>3
<1>. QED BY <1>4

\* What NextProducts relies on.
LEMMA MinOf ==
    ASSUME NEW S \in SUBSET Nat, S # {} PROVE Min(S) \in S /\ \A y \in S : Min(S) <= y
  BY LeastNatural DEF Min

\* A finite set of naturals has an upper bound: the smallest set without one, less an
\* element, would have one.
LEMMA FiniteNaturalsBounded ==
    ASSUME NEW S \in SUBSET Nat, IsFiniteSet(S) PROVE \E n \in Nat : \A x \in S : x <= n
<1>. DEFINE Bounded(T) == \E n \in Nat : \A x \in T : x <= n
            Sizes == {k \in Nat : \E T \in SUBSET Nat :
                         IsFiniteSet(T) /\ Cardinality(T) = k /\ ~Bounded(T)}
<1>1. ASSUME Sizes # {} PROVE FALSE
  <2>1. PICK k \in Sizes : \A j \in Sizes : k <= j BY <1>1, LeastNatural
  <2>2. PICK T \in SUBSET Nat : IsFiniteSet(T) /\ Cardinality(T) = k /\ ~Bounded(T) BY <2>1
  <2>3. T # {}
    <3>1. 0 \in Nat OBVIOUS
    <3>. QED BY <2>2, <3>1
  <2>4. PICK x \in T : TRUE BY <2>3
  <2>5. /\ IsFiniteSet(T \ {x}) /\ Cardinality(T \ {x}) = k - 1
    BY <2>2, <2>4, FS_RemoveElement
  <2>6. k - 1 \in Nat /\ k \in Nat BY <2>5, FS_CardinalityType
  <2>7. Bounded(T \ {x})
    <3>1. k - 1 \notin Sizes BY <2>1, <2>6
    <3>. QED BY <2>5, <2>6, <3>1
  <2>8. PICK n \in Nat : \A y \in T \ {x} : y <= n BY <2>7
  <2>9. \A y \in T : y <= n + x
    <3>1. x \in Nat BY <2>4
    <3>2. ASSUME NEW y \in T PROVE y <= n + x
      <4>1. CASE y = x BY <3>1, <4>1
      <4>2. CASE y # x
        <5>1. y <= n /\ y \in Nat BY <2>8, <4>2
        <5>. QED BY <3>1, <5>1
      <4>. QED BY <4>1, <4>2
    <3>. QED BY <3>2
  <2>10. n + x \in Nat BY <2>4
  <2>. QED BY <2>2, <2>9, <2>10
<1>2. CASE Sizes = {}
  <2>1. Cardinality(S) \in Nat BY FS_CardinalityType
  <2>. QED BY <1>2, <2>1
<1>. QED BY <1>1, <1>2

\* A non-empty finite set of naturals has a greatest element.
LEMMA GreatestNatural ==
    ASSUME NEW S \in SUBSET Nat, IsFiniteSet(S), S # {} PROVE \E x \in S : \A y \in S : y <= x
<1>1. PICK n \in Nat : \A x \in S : x <= n BY FiniteNaturalsBounded
<1>. DEFINE D == {n - x : x \in S}
<1>2. D \in SUBSET Nat /\ D # {}
  <2>1. ASSUME NEW x \in S PROVE n - x \in Nat
    <3>1. x <= n /\ x \in Nat BY <1>1
    <3>. QED BY <3>1
  <2>2. PICK x \in S : TRUE OBVIOUS
  <2>3. n - x \in D BY <2>2
  <2>. QED BY <2>1, <2>3
<1>3. PICK d \in D : \A e \in D : d <= e BY <1>2, LeastNatural
<1>4. PICK x \in S : d = n - x BY <1>3
<1>5. ASSUME NEW y \in S PROVE y <= x
  <2>1. n - x <= n - y BY <1>3, <1>4
  <2>. QED BY <2>1
<1>. QED BY <1>5
---------------------------------------------------------------------------
(* The inductive invariant *)

Transactions == [pc : {"idle", "lock", "read", "mark", "update"}, kind : Kinds,
                 order : Orders, basket : [Products -> Nat], updated : SUBSET Products]

HasOrderLock(t) == tx[t].pc \in {"read", "mark", "update"}

\* What a transaction has read and updated is still so: its locks keep it.
SessionInv(t) ==
    /\ tx[t].pc # "update" => tx[t].updated = {}
    /\ \A p \in tx[t].updated : tx[t].basket[p] > 0
    /\ \A p \in tx[t].updated : \A q \in Remaining(t) : p < q
    /\ \A p \in tx[t].updated :
          product[p] = "live" /\ (tx[t].kind = "reserve" => stock[p] >= tx[t].basket[p])
    /\ tx[t].pc = "mark" => tx[t].kind = "release"
    /\ tx[t].kind = "release" /\ tx[t].pc \in {"mark", "update"} =>
          /\ reservation[tx[t].order] \in {"RESERVED", "COMMITTED"}
          /\ tx[t].basket = items[tx[t].order]
    /\ tx[t].kind = "reserve" /\ tx[t].pc = "update" => reservation[tx[t].order] = "NONE"
    /\ tx[t].kind = "reserve" /\ tx[t].pc # "idle" => tx[t].basket \in Baskets

\* No two transactions hold the same lock.
Exclusive(t, u) ==
    /\ HasOrderLock(t) /\ HasOrderLock(u) => tx[t].order # tx[u].order
    /\ \A p \in Products : ~(HoldsProduct(t, p) /\ HoldsProduct(u, p))

UnbornInv == \A p \in Products : product[p] = "unborn" => stock[p] = 0 /\ supplied[p] = 0

TxInv ==
    /\ StockTxTypeOK
    /\ \A t \in Txs : SessionInv(t)
    /\ \A t, u \in Txs : t # u => Exclusive(t, u)
    /\ UnbornInv

\* A session between transactions.
LEMMA NoTxIsOne ==
    /\ NoTx \in Transactions
    /\ NoTx.pc = "idle" /\ NoTx.updated = {}
<1>1. (CHOOSE o \in Orders : TRUE) \in Orders BY SessionsAssumption
<1>2. NoItems \in [Products -> Nat] BY DEF NoItems
<1>. QED BY <1>1, <1>2 DEF NoTx, Transactions, Kinds

\* The invariant holds at the start.
LEMMA TxInitially == ASSUME TxInit PROVE TxInv
<1>1. \A t \in Txs : tx[t] = NoTx BY DEF TxInit
<1>2. StockTxTypeOK
  <2>1. NoItems \in [Products -> Nat] BY DEF NoItems
  <2>2. tx \in [Txs -> Transactions] BY NoTxIsOne DEF TxInit
  <2>3. stock \in [Products -> Nat] BY SessionsAssumption DEF TxInit
  <2>. QED BY <2>1, <2>2, <2>3 DEF TxInit, StockTxTypeOK, Transactions
<1>3. ASSUME NEW t \in Txs PROVE SessionInv(t) BY <1>1, NoTxIsOne DEF SessionInv
<1>4. ASSUME NEW t \in Txs, NEW u \in Txs PROVE Exclusive(t, u)
  BY <1>1, NoTxIsOne DEF Exclusive, HasOrderLock, HoldsProduct
<1>5. UnbornInv BY DEF TxInit, UnbornInv
<1>. QED BY <1>2, <1>3, <1>4, <1>5 DEF TxInv

\* A statement that changes no committed row concerns one session and the locks it takes.
LEMMA SessionStep ==
    ASSUME TxInv, NEW t \in Txs, NEW r \in Transactions,
           tx' = [tx EXCEPT ![t] = r], UNCHANGED tables, SessionInv(t)',
           \A u \in Txs \ {t} : Exclusive(t, u)'
    PROVE  TxInv'
<1>1. UNCHANGED <<product, stock, reservation, items, stockReleased, supplied>> BY DEF tables
<1>2. tx \in [Txs -> Transactions] BY DEF TxInv, StockTxTypeOK, Transactions
<1>3. StockTxTypeOK' BY <1>1, <1>2 DEF TxInv, StockTxTypeOK, Transactions
<1>4. \A u \in Txs \ {t} : tx'[u] = tx[u] BY <1>2
<1>5. ASSUME NEW u \in Txs PROVE SessionInv(u)'
  <2>1. CASE u = t BY <2>1
  <2>2. CASE u # t
    <3>1. Remaining(u)' = Remaining(u) BY <1>4, <2>2 DEF Remaining
    <3>. QED BY <1>1, <1>4, <2>2, <3>1 DEF TxInv, SessionInv
  <2>. QED BY <2>1, <2>2
<1>6. ASSUME NEW u \in Txs, NEW v \in Txs, u # v PROVE Exclusive(u, v)'
  <2>1. CASE u = t BY <1>6, <2>1
  <2>2. CASE v = t
    <3>1. Exclusive(t, u)' BY <1>6, <2>2
    <3>. QED BY <2>2, <3>1 DEF Exclusive
  <2>3. CASE u # t /\ v # t
    <3>1. tx'[u] = tx[u] /\ tx'[v] = tx[v] BY <1>4, <2>3
    <3>2. Exclusive(u, v) BY <1>6 DEF TxInv
    <3>. QED BY <3>1, <3>2 DEF Exclusive, HasOrderLock, HoldsProduct
  <2>. QED BY <2>1, <2>2, <2>3
<1>7. UnbornInv' BY <1>1 DEF TxInv, UnbornInv
<1>. QED BY <1>3, <1>5, <1>6, <1>7 DEF TxInv

\* A transaction that has updated nothing, and takes no order lock it did not have.
LEMMA PlainStep ==
    ASSUME TxInv, NEW t \in Txs, NEW r \in Transactions,
           tx' = [tx EXCEPT ![t] = r], UNCHANGED tables, r.updated = {},
           r.pc \in {"read", "mark", "update"} =>
              \A u \in Txs \ {t} : HasOrderLock(u) => tx[u].order # r.order,
           r.pc = "mark" => r.kind = "release",
           r.kind = "release" /\ r.pc \in {"mark", "update"} =>
              reservation[r.order] \in {"RESERVED", "COMMITTED"} /\ r.basket = items[r.order],
           r.kind = "reserve" /\ r.pc = "update" => reservation[r.order] = "NONE",
           r.kind = "reserve" /\ r.pc # "idle" => r.basket \in Baskets
    PROVE  TxInv'
<1>1. tx \in [Txs -> Transactions] BY DEF TxInv, StockTxTypeOK, Transactions
<1>2. tx'[t] = r BY <1>1
<1>3. SessionInv(t)' BY <1>2 DEF SessionInv, tables
<1>4. ASSUME NEW u \in Txs \ {t} PROVE Exclusive(t, u)'
  <2>1. tx'[u] = tx[u] BY <1>1
  <2>2. HasOrderLock(t)' /\ HasOrderLock(u)' => tx'[t].order # tx'[u].order
    BY <1>2, <2>1 DEF HasOrderLock
  <2>3. \A p \in Products : ~HoldsProduct(t, p)' BY <1>2 DEF HoldsProduct
  <2>. QED BY <2>2, <2>3 DEF Exclusive
<1>. QED BY <1>3, <1>4, SessionStep

\* The end of a transaction without its writes.
LEMMA EndKeeps == ASSUME TxInv, NEW t \in Txs, End(t), UNCHANGED tables PROVE TxInv'
  BY NoTxIsOne, PlainStep DEF End

\* A request begins its transaction.
LEMMA BeginKeeps ==
    ASSUME TxInv, NEW t \in Txs, NEW kind \in Kinds, NEW o \in Orders,
           NEW b \in [Products -> Nat], kind = "reserve" => b \in Baskets,
           Begin(t, kind, o, b)
    PROVE  TxInv'
<1>. DEFINE r == [pc |-> "lock", kind |-> kind, order |-> o, basket |-> b, updated |-> {}]
<1>1. r \in Transactions BY DEF Transactions
<1>2. tx' = [tx EXCEPT ![t] = r] /\ UNCHANGED tables BY DEF Begin
<1>3. r.pc = "lock" /\ r.kind = kind /\ r.basket = b /\ r.updated = {} OBVIOUS
<1>. HIDE DEF r
<1>. QED BY <1>1, <1>2, <1>3, PlainStep

\* The advisory lock, once nobody else has it.
LEMMA TakeLockKeeps == ASSUME TxInv, NEW t \in Txs, TakeLock(t) PROVE TxInv'
<1>. DEFINE r == [tx[t] EXCEPT !.pc = "read"]
<1>1. tx[t] \in Transactions /\ tx[t].pc = "lock" /\ tx[t].updated = {}
  BY DEF TxInv, StockTxTypeOK, Transactions, SessionInv, TakeLock
<1>2. /\ r \in Transactions /\ r.pc = "read" /\ r.updated = {} /\ r.order = tx[t].order
      /\ r.kind = tx[t].kind /\ r.basket = tx[t].basket
  BY <1>1 DEF Transactions
<1>3. tx' = [tx EXCEPT ![t] = r] /\ UNCHANGED tables BY DEF TakeLock, Goto
<1>4. \A u \in Txs \ {t} : HasOrderLock(u) => tx[u].order # r.order
  BY <1>1, <1>2 DEF TakeLock, Blocked, WaitsFor, HoldsOrder, HasOrderLock
<1>5. r.kind = "reserve" => r.basket \in Baskets BY <1>1, <1>2 DEF TxInv, SessionInv
<1>. HIDE DEF r
<1>. QED BY <1>2, <1>3, <1>4, <1>5, PlainStep

\* What is read under the order's lock stays so.
LEMMA ReadReservationKeeps == ASSUME TxInv, NEW t \in Txs, ReadReservation(t) PROVE TxInv'
<1>. DEFINE o == tx[t].order
<1>1. /\ tx[t] \in Transactions /\ tx[t].pc = "read" /\ tx[t].updated = {}
      /\ tx[t].kind = "reserve" => tx[t].basket \in Baskets
  BY DEF TxInv, StockTxTypeOK, Transactions, SessionInv, ReadReservation
<1>2. UNCHANGED tables BY DEF ReadReservation
<1>3. \A u \in Txs \ {t} : HasOrderLock(u) => tx[u].order # o
  BY <1>1 DEF TxInv, Exclusive, HasOrderLock
<1>4. CASE tx[t].kind = "reserve" /\ reservation[o] = "NONE" /\ Goto(t, "update")
  <2>. DEFINE r == [tx[t] EXCEPT !.pc = "update"]
  <2>1. /\ r \in Transactions /\ r.pc = "update" /\ r.updated = {} /\ r.order = o
        /\ r.kind = "reserve" /\ r.basket = tx[t].basket
    BY <1>1, <1>4 DEF Transactions
  <2>2. tx' = [tx EXCEPT ![t] = r] BY <1>4 DEF Goto
  <2>. HIDE DEF r
  <2>. QED BY <1>1, <1>2, <1>3, <1>4, <2>1, <2>2, PlainStep
<1>5. CASE /\ tx[t].kind = "release" /\ reservation[o] = "RESERVED"
           /\ tx' = [tx EXCEPT ![t].pc = "mark", ![t].basket = items[o]]
  <2>. DEFINE r == [tx[t] EXCEPT !.pc = "mark", !.basket = items[o]]
  <2>1. items[o] \in [Products -> Nat]
    BY <1>1 DEF TxInv, StockTxTypeOK, Transactions
  <2>2. /\ r \in Transactions /\ r.pc = "mark" /\ r.updated = {} /\ r.order = o
        /\ r.kind = "release" /\ r.basket = items[o]
    BY <1>1, <1>5, <2>1 DEF Transactions
  <2>3. tx' = [tx EXCEPT ![t] = r] BY <1>5
  <2>. HIDE DEF r
  <2>4. reservation[r.order] \in {"RESERVED", "COMMITTED"} /\ r.basket = items[r.order]
    BY <1>5, <2>2
  <2>5. \A u \in Txs \ {t} : HasOrderLock(u) => tx[u].order # r.order BY <1>3, <2>2
  <2>. QED BY <1>2, <2>2, <2>3, <2>4, <2>5, PlainStep
<1>6. CASE End(t) BY <1>2, <1>6, EndKeeps
<1>. QED BY <1>4, <1>5, <1>6 DEF ReadReservation

\* The release's UPDATE of the reservation.
LEMMA MarkReleasedKeeps == ASSUME TxInv, NEW t \in Txs, MarkReleased(t) PROVE TxInv'
<1>. DEFINE r == [tx[t] EXCEPT !.pc = "update"]
<1>1. /\ tx[t] \in Transactions /\ tx[t].pc = "mark" /\ tx[t].updated = {}
      /\ tx[t].kind = "release" /\ tx[t].basket = items[tx[t].order]
      /\ reservation[tx[t].order] \in {"RESERVED", "COMMITTED"}
  BY DEF TxInv, StockTxTypeOK, Transactions, SessionInv, MarkReleased
<1>2. /\ r \in Transactions /\ r.pc = "update" /\ r.updated = {} /\ r.order = tx[t].order
      /\ r.kind = "release" /\ r.basket = tx[t].basket
  BY <1>1 DEF Transactions
<1>3. tx' = [tx EXCEPT ![t] = r] /\ UNCHANGED tables BY DEF MarkReleased, Goto
<1>4. \A u \in Txs \ {t} : HasOrderLock(u) => tx[u].order # r.order
  BY <1>1, <1>2 DEF TxInv, Exclusive, HasOrderLock
<1>. HIDE DEF r
<1>. QED BY <1>1, <1>2, <1>3, <1>4, PlainStep

\* The next product to update: one of those that remain, and the first of them.
LEMMA NextProduct ==
    ASSUME NEW t, NEW p \in NextProducts(t)
    PROVE  p \in Remaining(t) /\ p \in Products /\ p \in Nat /\ \A q \in Remaining(t) : p <= q
<1>1. Remaining(t) # {} /\ p = Min(Remaining(t)) BY DEF NextProducts
<1>2. Remaining(t) \in SUBSET Nat /\ Remaining(t) \subseteq Products
  BY SortedProducts DEF Remaining
<1>. QED BY <1>1, <1>2, MinOf

\* One more product, after all those updated and before all that remain.
LEMMA UpdateProductRowKeeps == ASSUME TxInv, NEW t \in Txs, UpdateProductRow(t) PROVE TxInv'
<1>1. PICK p \in NextProducts(t) :
        /\ tx[t].pc = "update" /\ ~ Blocked(t)
        /\ IF product[p] = "live" /\ (tx[t].kind = "reserve" => stock[p] >= tx[t].basket[p])
           THEN tx' = [tx EXCEPT ![t].updated = @ \cup {p}]
           ELSE End(t)
        /\ UNCHANGED tables
  BY DEF UpdateProductRow
<1>2. CASE End(t) BY <1>1, <1>2, EndKeeps
<1>3. CASE /\ product[p] = "live" /\ (tx[t].kind = "reserve" => stock[p] >= tx[t].basket[p])
           /\ tx' = [tx EXCEPT ![t].updated = @ \cup {p}]
  <2>. DEFINE r == [tx[t] EXCEPT !.updated = tx[t].updated \cup {p}]
  <2>1. tx[t] \in Transactions /\ tx \in [Txs -> Transactions]
    BY DEF TxInv, StockTxTypeOK, Transactions
  <2>2. p \in Remaining(t) /\ p \in Products /\ p \in Nat /\ \A q \in Remaining(t) : p <= q
    BY <1>1, NextProduct
  <2>3. /\ r \in Transactions /\ r.pc = "update" /\ r.updated = tx[t].updated \cup {p}
        /\ r.order = tx[t].order /\ r.kind = tx[t].kind /\ r.basket = tx[t].basket
    BY <1>1, <2>1, <2>2 DEF Transactions
  <2>4. tx' = [tx EXCEPT ![t] = r] BY <1>3
  <2>. HIDE DEF r
  <2>5. tx'[t] = r BY <2>1, <2>4
  <2>6. Remaining(t)' = Remaining(t) \ {p} BY <2>3, <2>5 DEF Remaining
  <2>7. \A q \in Remaining(t) \ {p} : p < q
    <3>1. \A q \in Remaining(t) : q \in Nat BY SortedProducts DEF Remaining
    <3>. QED BY <2>2, <3>1
  <2>8. tx[t].basket[p] > 0 BY <2>2 DEF Remaining
  <2>9. SessionInv(t) BY DEF TxInv
  <2>10. SessionInv(t)'
    <3>1. UNCHANGED <<product, stock, reservation, items>> BY <1>1 DEF tables
    <3>2. \A q \in r.updated : r.basket[q] > 0 BY <2>3, <2>8, <2>9 DEF SessionInv
    <3>3. \A q \in r.updated : \A x \in Remaining(t)' : q < x
      BY <2>3, <2>6, <2>7, <2>9 DEF SessionInv
    <3>4. \A q \in r.updated :
            product[q] = "live" /\ (r.kind = "reserve" => stock[q] >= r.basket[q])
      BY <1>3, <2>3, <2>9 DEF SessionInv
    <3>. QED BY <1>1, <2>3, <2>5, <2>9, <3>1, <3>2, <3>3, <3>4 DEF SessionInv
  <2>11. ASSUME NEW u \in Txs \ {t} PROVE Exclusive(t, u)'
    <3>1. tx'[u] = tx[u] BY <2>1, <2>4
    <3>2. Exclusive(t, u) BY DEF TxInv
    <3>3. ~HoldsProduct(u, p) BY <1>1 DEF Blocked, WaitsFor
    <3>4. \A q \in Products : ~(HoldsProduct(t, q)' /\ HoldsProduct(u, q)')
      BY <1>1, <2>3, <2>5, <3>1, <3>2, <3>3 DEF Exclusive, HoldsProduct
    <3>5. HasOrderLock(t)' /\ HasOrderLock(u)' => tx'[t].order # tx'[u].order
      BY <1>1, <2>3, <2>5, <3>1, <3>2 DEF Exclusive, HasOrderLock
    <3>. QED BY <3>4, <3>5 DEF Exclusive
  <2>. QED BY <1>1, <2>3, <2>4, <2>10, <2>11, SessionStep
<1>. QED BY <1>1, <1>2, <1>3

\* All products of t's basket are updated: they exist, they suffice, and nobody else has one.
LEMMA ReadyToCommit ==
    ASSUME TxInv, NEW t \in Txs, tx[t].pc = "update", Remaining(t) = {}
    PROVE  /\ \A p \in Products : tx[t].basket[p] > 0 =>
                 product[p] = "live" /\ (tx[t].kind = "reserve" => stock[p] >= tx[t].basket[p])
           /\ \A u \in Txs \ {t} : \A p \in Products : HoldsProduct(u, p) => tx[t].basket[p] = 0
<1>1. tx[t].basket \in [Products -> Nat] BY DEF TxInv, StockTxTypeOK
<1>2. \A p \in Products : tx[t].basket[p] > 0 => p \in tx[t].updated BY DEF Remaining
<1>3. \A p \in tx[t].updated :
        product[p] = "live" /\ (tx[t].kind = "reserve" => stock[p] >= tx[t].basket[p])
  BY DEF TxInv, SessionInv
<1>4. ASSUME NEW u \in Txs \ {t}, NEW p \in Products, HoldsProduct(u, p)
      PROVE  tx[t].basket[p] = 0
  <2>1. ~HoldsProduct(t, p) BY <1>4 DEF TxInv, Exclusive
  <2>2. p \notin tx[t].updated BY <2>1 DEF HoldsProduct
  <2>3. tx[t].basket[p] \in Nat BY <1>1
  <2>. QED BY <1>2, <2>2, <2>3
<1>. QED BY <1>2, <1>3, <1>4

\* The committing transaction's writes are to rows only it has locked.
LEMMA CommitKeeps == ASSUME TxInv, NEW t \in Txs, Commit(t) PROVE TxInv'
<1>. DEFINE o == tx[t].order
            b == tx[t].basket
<1>1. /\ tx[t].pc = "update" /\ Remaining(t) = {} /\ UNCHANGED <<product, supplied>>
      /\ tx' = [tx EXCEPT ![t] = NoTx]
  BY DEF Commit, End
<1>2. /\ tx[t] \in Transactions /\ o \in Orders /\ b \in [Products -> Nat]
      /\ tx \in [Txs -> Transactions]
  BY DEF TxInv, StockTxTypeOK, Transactions
<1>3. /\ product \in [Products -> {"unborn", "live", "deleted"}]
      /\ stock \in [Products -> Nat]
      /\ reservation \in [Orders -> {"NONE", "RESERVED", "RELEASED", "COMMITTED"}]
      /\ items \in [Orders -> [Products -> Nat]]
      /\ stockReleased \subseteq Orders /\ supplied \in [Products -> Int]
  BY DEF TxInv, StockTxTypeOK
<1>4. /\ \A p \in Products : b[p] > 0 =>
            product[p] = "live" /\ (tx[t].kind = "reserve" => stock[p] >= b[p])
      /\ \A u \in Txs \ {t} : \A p \in Products : HoldsProduct(u, p) => b[p] = 0
  BY <1>1, ReadyToCommit
<1>5. /\ stock' \in [Products -> Nat]
      /\ \A p \in Products : b[p] = 0 => stock'[p] = stock[p]
      /\ reservation' \in [Orders -> {"NONE", "RESERVED", "RELEASED", "COMMITTED"}]
      /\ items' \in [Orders -> [Products -> Nat]]
      /\ \A x \in Orders \ {o} : reservation'[x] = reservation[x] /\ items'[x] = items[x]
      /\ stockReleased' \subseteq Orders
  <2>1. CASE tx[t].kind = "release"
    <3>1. /\ stock' = [p \in Products |-> stock[p] + b[p]]
          /\ reservation' = [reservation EXCEPT ![o] = "RELEASED"]
          /\ stockReleased' = stockReleased \cup {o} /\ UNCHANGED items
      BY <2>1 DEF Commit
    <3>2. \A p \in Products : stock[p] + b[p] \in Nat /\ stock[p] \in Nat BY <1>2, <1>3
    <3>. QED BY <1>2, <1>3, <3>1, <3>2
  <2>2. CASE tx[t].kind = "reserve"
    <3>1. reservation[o] = "NONE" BY <1>1, <2>2 DEF TxInv, SessionInv
    <3>2. /\ stock' = [p \in Products |-> stock[p] - b[p]]
          /\ reservation' = [reservation EXCEPT ![o] = "RESERVED"]
          /\ items' = [items EXCEPT ![o] = b] /\ UNCHANGED stockReleased
      BY <2>2, <3>1 DEF Commit
    <3>3. ASSUME NEW p \in Products PROVE stock[p] - b[p] \in Nat
      <4>1. stock[p] \in Nat /\ b[p] \in Nat BY <1>2, <1>3
      <4>2. b[p] > 0 => stock[p] >= b[p] BY <1>4, <2>2
      <4>. QED BY <4>1, <4>2
    <3>4. stock' \in [Products -> Nat] BY <3>2, <3>3
    <3>5. \A p \in Products : b[p] = 0 => stock'[p] = stock[p]
      <4>1. \A p \in Products : stock[p] \in Nat BY <1>3
      <4>. QED BY <3>2, <4>1
    <3>. QED BY <1>2, <1>3, <3>2, <3>4, <3>5
  <2>. QED BY <1>2, <2>1, <2>2 DEF Transactions, Kinds
<1>6. StockTxTypeOK'
  <2>1. tx' \in [Txs -> Transactions] BY <1>1, <1>2, NoTxIsOne
  <2>. QED BY <1>1, <1>3, <1>5, <2>1 DEF StockTxTypeOK, Transactions
<1>7. tx'[t] = NoTx /\ \A u \in Txs \ {t} : tx'[u] = tx[u] BY <1>1, <1>2
<1>8. ASSUME NEW u \in Txs PROVE SessionInv(u)'
  <2>1. CASE u = t BY <1>7, <2>1, NoTxIsOne DEF SessionInv
  <2>2. CASE u # t
    <3>1. SessionInv(u) /\ Exclusive(t, u) /\ tx'[u] = tx[u] BY <1>7, <2>2 DEF TxInv
    <3>2. Remaining(u)' = Remaining(u) BY <3>1 DEF Remaining
    <3>3. \A p \in tx[u].updated : p \in Products BY DEF TxInv, StockTxTypeOK
    <3>4. \A p \in tx[u].updated : HoldsProduct(u, p)
      BY <3>1 DEF SessionInv, HoldsProduct
    <3>5. \A p \in tx[u].updated : stock'[p] = stock[p] /\ product'[p] = product[p]
      BY <1>1, <1>4, <1>5, <2>2, <3>3, <3>4
    <3>6. tx[u].pc \in {"mark", "update"} =>
            /\ reservation'[tx[u].order] = reservation[tx[u].order]
            /\ items'[tx[u].order] = items[tx[u].order]
      <4>1. tx[u].order \in Orders BY DEF TxInv, StockTxTypeOK
      <4>2. tx[u].pc \in {"mark", "update"} => tx[u].order # o
        BY <1>1, <3>1 DEF Exclusive, HasOrderLock
      <4>. QED BY <1>5, <4>1, <4>2
    <3>. QED BY <3>1, <3>2, <3>5, <3>6 DEF SessionInv
  <2>. QED BY <2>1, <2>2
<1>9. ASSUME NEW u \in Txs, NEW v \in Txs, u # v PROVE Exclusive(u, v)'
  <2>1. CASE u = t \/ v = t
    BY <1>7, <2>1, NoTxIsOne DEF Exclusive, HasOrderLock, HoldsProduct
  <2>2. CASE u # t /\ v # t
    <3>1. tx'[u] = tx[u] /\ tx'[v] = tx[v] /\ Exclusive(u, v) BY <1>7, <1>9, <2>2 DEF TxInv
    <3>. QED BY <3>1 DEF Exclusive, HasOrderLock, HoldsProduct
  <2>. QED BY <2>1, <2>2
<1>10. UnbornInv'
  <2>1. ASSUME NEW p \in Products, product'[p] = "unborn"
        PROVE  stock'[p] = 0 /\ supplied'[p] = 0
    <3>1. product[p] = "unborn" /\ b[p] \in Nat BY <1>1, <1>2, <2>1
    <3>2. ~(b[p] > 0) BY <1>4, <3>1
    <3>3. b[p] = 0 BY <3>1, <3>2
    <3>. QED BY <1>1, <1>5, <3>1, <3>3 DEF TxInv, UnbornInv
  <2>. QED BY <2>1 DEF UnbornInv
<1>. QED BY <1>6, <1>8, <1>9, <1>10 DEF TxInv

\* The worker's update takes no lock, and disturbs no transaction's reading.
LEMMA CommitRowKeeps == ASSUME TxInv, NEW o \in Orders, CommitRow(o) PROVE TxInv'
<1>1. /\ reservation[o] = "RESERVED"
      /\ reservation' = [reservation EXCEPT ![o] = "COMMITTED"]
      /\ UNCHANGED <<product, stock, items, stockReleased, supplied, tx>>
  BY DEF CommitRow
<1>2. reservation \in [Orders -> {"NONE", "RESERVED", "RELEASED", "COMMITTED"}]
  BY DEF TxInv, StockTxTypeOK
<1>3. StockTxTypeOK' BY <1>1, <1>2 DEF TxInv, StockTxTypeOK
<1>4. ASSUME NEW t \in Txs PROVE SessionInv(t)'
  <2>1. SessionInv(t) BY DEF TxInv
  <2>2. Remaining(t)' = Remaining(t) BY <1>1 DEF Remaining
  <2>3. tx[t].order \in Orders BY DEF TxInv, StockTxTypeOK
  <2>4. reservation'[tx[t].order] = IF tx[t].order = o THEN "COMMITTED"
                                    ELSE reservation[tx[t].order]
    BY <1>1, <1>2, <2>3
  <2>5. reservation[tx[t].order] \in {"RESERVED", "COMMITTED"} =>
           reservation'[tx[t].order] \in {"RESERVED", "COMMITTED"}
    BY <2>4
  <2>6. reservation[tx[t].order] = "NONE" => reservation'[tx[t].order] = "NONE" BY <1>1, <2>4
  <2>. QED BY <1>1, <2>1, <2>2, <2>5, <2>6 DEF SessionInv
<1>5. ASSUME NEW t \in Txs, NEW u \in Txs, t # u PROVE Exclusive(t, u)'
  BY <1>1, <1>5 DEF TxInv, Exclusive, HasOrderLock, HoldsProduct
<1>6. UnbornInv' BY <1>1 DEF TxInv, UnbornInv
<1>. QED BY <1>3, <1>4, <1>5, <1>6 DEF TxInv

\* An administrator's write waits for the row's lock.
LEMMA WriteProductKeeps == ASSUME TxInv, NEW p \in Products, WriteProduct(p) PROVE TxInv'
<1>1. /\ \A t \in Txs : ~ HoldsProduct(t, p)
      /\ UNCHANGED <<reservation, items, stockReleased, tx>>
  BY DEF WriteProduct
<1>2. /\ product \in [Products -> {"unborn", "live", "deleted"}]
      /\ stock \in [Products -> Nat] /\ supplied \in [Products -> Int]
  BY DEF TxInv, StockTxTypeOK
<1>. DEFINE Written ==
              /\ product' \in [Products -> {"unborn", "live", "deleted"}]
              /\ stock' \in [Products -> Nat] /\ supplied' \in [Products -> Int]
              /\ product'[p] # "unborn"
              /\ \A q \in Products \ {p} : /\ product'[q] = product[q] /\ stock'[q] = stock[q]
                                          /\ supplied'[q] = supplied[q]
<1>3. Written
  <2>1. CASE /\ product' = [product EXCEPT ![p] = "deleted"] /\ UNCHANGED <<stock, supplied>>
    BY <1>2, <2>1
  <2>2. ASSUME NEW n \in StockLevels,
               /\ product' = [product EXCEPT ![p] = "live"]
               /\ stock' = [stock EXCEPT ![p] = n]
               /\ supplied' = [supplied EXCEPT ![p] = @ + (n - stock[p])]
        PROVE  Written
    <3>1. n \in Nat BY SessionsAssumption
    <3>2. supplied[p] + (n - stock[p]) \in Int BY <1>2, <3>1
    <3>. QED BY <1>2, <2>2, <3>1, <3>2
  <2>. QED BY <2>1, <2>2 DEF WriteProduct
<1>4. StockTxTypeOK' BY <1>1, <1>3 DEF TxInv, StockTxTypeOK
<1>5. ASSUME NEW t \in Txs PROVE SessionInv(t)'
  <2>1. SessionInv(t) BY DEF TxInv
  <2>2. Remaining(t)' = Remaining(t) BY <1>1 DEF Remaining
  <2>3. \A q \in tx[t].updated : HoldsProduct(t, q) BY <2>1 DEF SessionInv, HoldsProduct
  <2>4. \A q \in tx[t].updated : q \in Products \ {p}
    BY <1>1, <2>3 DEF TxInv, StockTxTypeOK
  <2>. QED BY <1>1, <1>3, <2>1, <2>2, <2>4 DEF SessionInv
<1>6. ASSUME NEW t \in Txs, NEW u \in Txs, t # u PROVE Exclusive(t, u)'
  BY <1>1, <1>6 DEF TxInv, Exclusive, HasOrderLock, HoldsProduct
<1>7. UnbornInv' BY <1>3 DEF TxInv, UnbornInv
<1>. QED BY <1>4, <1>5, <1>6, <1>7 DEF TxInv

\* Every step keeps the invariant.
LEMMA TxStep == ASSUME TxInv, [TxNext]_txVars PROVE TxInv'
<1>1. ASSUME NEW t \in Txs, NEW o \in Orders, NEW b \in Baskets, Begin(t, "reserve", o, b)
      PROVE  TxInv'
  <2>1. b \in [Products -> Nat] /\ "reserve" \in Kinds BY BasketsAssumption DEF Kinds
  <2>. QED BY <1>1, <2>1, BeginKeeps
<1>2. ASSUME NEW t \in Txs, NEW o \in Orders, Begin(t, "release", o, NoItems) PROVE TxInv'
  <2>1. NoItems \in [Products -> Nat] /\ "release" \in Kinds BY DEF NoItems, Kinds
  <2>. QED BY <1>2, <2>1, BeginKeeps
<1>3. ASSUME NEW t \in Txs, TakeLock(t) PROVE TxInv' BY <1>3, TakeLockKeeps
<1>4. ASSUME NEW t \in Txs, ReadReservation(t) PROVE TxInv' BY <1>4, ReadReservationKeeps
<1>5. ASSUME NEW t \in Txs, MarkReleased(t) PROVE TxInv' BY <1>5, MarkReleasedKeeps
<1>6. ASSUME NEW t \in Txs, UpdateProductRow(t) PROVE TxInv' BY <1>6, UpdateProductRowKeeps
<1>7. ASSUME NEW t \in Txs, Commit(t) PROVE TxInv' BY <1>7, CommitKeeps
<1>8. ASSUME NEW t \in Txs, Abort(t) PROVE TxInv' BY <1>8, EndKeeps DEF Abort
<1>9. ASSUME NEW o \in Orders, CommitRow(o) PROVE TxInv' BY <1>9, CommitRowKeeps
<1>10. ASSUME NEW p \in Products, WriteProduct(p) PROVE TxInv' BY <1>10, WriteProductKeeps
<1>11. CASE UNCHANGED txVars
  <2>1. UNCHANGED <<product, stock, reservation, items, stockReleased, supplied, tx>>
    BY <1>11 DEF txVars, tables
  <2>2. StockTxTypeOK' BY <2>1 DEF TxInv, StockTxTypeOK
  <2>3. ASSUME NEW t \in Txs PROVE SessionInv(t)'
    <3>1. Remaining(t)' = Remaining(t) BY <2>1 DEF Remaining
    <3>. QED BY <2>1, <3>1 DEF TxInv, SessionInv
  <2>4. ASSUME NEW t \in Txs, NEW u \in Txs, t # u PROVE Exclusive(t, u)'
    BY <2>1, <2>4 DEF TxInv, Exclusive, HasOrderLock, HoldsProduct
  <2>5. UnbornInv' BY <2>1 DEF TxInv, UnbornInv
  <2>. QED BY <2>2, <2>3, <2>4, <2>5 DEF TxInv
<1>. QED
  BY <1>1, <1>2, <1>3, <1>4, <1>5, <1>6, <1>7, <1>8, <1>9, <1>10, <1>11 DEF TxNext

\* The inductive invariant of the stock transactions.
THEOREM TransactionInvariant == TxSpec => []TxInv
<1>1. TxInit => TxInv BY TxInitially
<1>2. TxInv /\ [TxNext]_txVars => TxInv' BY TxStep
<1>. QED BY <1>1, <1>2, PTL DEF TxSpec

\* Stock stays a natural number in the committed rows, whatever statements interleave.
THEOREM StockTxTypes == TxSpec => []StockTxTypeOK
<1>1. TxInv => StockTxTypeOK BY DEF TxInv
<1>. QED BY <1>1, TransactionInvariant, PTL

---------------------------------------------------------------------------
(* Lock cycles *)

\* Who waits waits for an order lock, or for the first of the products that remain.
LEMMA Waiting ==
    ASSUME TxInv, NEW t \in Txs, NEW u \in Txs, WaitsFor(t, u)
    PROVE  /\ tx[t].pc = "lock" => HasOrderLock(u)
           /\ tx[t].pc # "lock" =>
                 /\ tx[t].pc = "update" /\ tx[u].pc = "update"
                 /\ Remaining(t) # {} /\ Min(Remaining(t)) \in tx[u].updated
<1>1. CASE tx[t].pc = "lock" BY <1>1 DEF WaitsFor, HoldsOrder, HasOrderLock
<1>2. CASE tx[t].pc = "mark"
  <2>1. HoldsReservation(u, tx[t].order) BY <1>2 DEF WaitsFor
  <2>2. t # u /\ HasOrderLock(t) /\ HasOrderLock(u) /\ tx[t].order = tx[u].order
    BY <1>2, <2>1 DEF HoldsReservation, HasOrderLock
  <2>. QED BY <2>2 DEF TxInv, Exclusive
<1>3. CASE tx[t].pc \notin {"lock", "mark"}
  BY <1>3 DEF WaitsFor, NextProducts, HoldsProduct
<1>. QED BY <1>1, <1>2, <1>3

\* Among transactions that all wait for one of them, those that wait for a product wait for
\* ever later ones; who waits for the last of these products waits for nobody.
LEMMA SomebodyRuns == ASSUME TxInv PROVE NoLockCycle
<1>1. SUFFICES ASSUME NEW T \in SUBSET Txs, T # {},
                      \A t \in T : \E u \in T : WaitsFor(t, u)
               PROVE  FALSE
  BY DEF NoLockCycle
<1>2. T \subseteq Txs OBVIOUS
<1>. DEFINE U == {t \in T : tx[t].pc = "update" /\ Remaining(t) # {}}
            S == {Min(Remaining(t)) : t \in U}
<1>3. \A t \in T : tx[t].pc # "lock" => t \in U
  <2>1. ASSUME NEW t \in T, tx[t].pc # "lock" PROVE t \in U
    <3>1. PICK u \in T : WaitsFor(t, u) BY <1>1
    <3>. QED BY <1>2, <2>1, <3>1, Waiting
  <2>. QED BY <2>1
<1>4. S # {}
  <2>1. PICK t \in T : TRUE BY <1>1
  <2>2. PICK u \in T : WaitsFor(t, u) BY <1>1, <2>1
  <2>3. CASE tx[t].pc = "lock"
    <3>1. HasOrderLock(u) BY <1>2, <2>2, <2>3, Waiting
    <3>2. tx[u].pc # "lock" BY <3>1 DEF HasOrderLock
    <3>. QED BY <1>3, <3>2
  <2>4. CASE tx[t].pc # "lock" BY <1>3, <2>4
  <2>. QED BY <2>3, <2>4
<1>5. ASSUME NEW t \in U PROVE Min(Remaining(t)) \in Remaining(t) /\ Remaining(t) \subseteq Products
  <2>1. Remaining(t) \in SUBSET Nat /\ Remaining(t) \subseteq Products
    BY SortedProducts DEF Remaining
  <2>. QED BY <2>1, MinOf
<1>6. S \subseteq Products BY <1>5
<1>7. S \in SUBSET Nat /\ IsFiniteSet(S) BY <1>6, SortedProducts, FS_Subset
<1>. HIDE DEF S
<1>8. PICK x \in S : \A y \in S : y <= x BY <1>4, <1>7, GreatestNatural
<1>9. PICK t \in U : x = Min(Remaining(t)) BY <1>8 DEF S
<1>10. PICK u \in T : WaitsFor(t, u) BY <1>1
<1>11. tx[u].pc = "update" /\ x \in tx[u].updated BY <1>2, <1>9, <1>10, Waiting
<1>12. u \in U BY <1>3, <1>11
<1>13. Min(Remaining(u)) \in S /\ Min(Remaining(u)) \in Remaining(u) BY <1>5, <1>12 DEF S
<1>14. x < Min(Remaining(u)) BY <1>2, <1>11, <1>13 DEF TxInv, SessionInv
<1>15. Min(Remaining(u)) <= x /\ x \in Nat /\ Min(Remaining(u)) \in Nat BY <1>7, <1>8, <1>13
<1>. QED BY <1>14, <1>15

\* However many reservations and releases of overlapping items run at a time, none of them
\* wait for each other in a circle (stockService.ts:23 sorts the items).
THEOREM NoDeadlocks == TxSpec => []NoLockCycle
<1>1. TxInv => NoLockCycle BY SomebodyRuns
<1>. QED BY <1>1, TransactionInvariant, PTL

---------------------------------------------------------------------------
(* The refinement *)

Releasing(o) ==
    \E t \in Txs : tx[t].kind = "release" /\ tx[t].order = o /\ tx[t].pc \in {"mark", "update"}

\* The ledger's view of one reservation, before and after a step.
LEMMA SettledAt ==
    ASSUME NEW o \in Orders
    PROVE  SettledReservation[o] = IF Releasing(o) THEN "RESERVED" ELSE reservation[o]
  BY DEF SettledReservation, Releasing

LEMMA SettledAtNext ==
    ASSUME NEW o \in Orders
    PROVE  SettledReservation'[o] = IF Releasing(o)' THEN "RESERVED" ELSE reservation'[o]
  BY DEF SettledReservation, Releasing

\* The ledger's reservations differ at most at o.
LEMMA SettledExcept ==
    ASSUME NEW o \in Orders, NEW v,
           SettledReservation'[o] = v,
           \A x \in Orders \ {o} : SettledReservation'[x] = SettledReservation[x]
    PROVE  SettledReservation' = [SettledReservation EXCEPT ![o] = v]
<1>1. /\ SettledReservation' = [x \in Orders |-> SettledReservation'[x]]
      /\ SettledReservation = [x \in Orders |-> SettledReservation[x]]
  BY DEF SettledReservation
<1>. HIDE DEF SettledReservation
<1>. QED BY <1>1

\* The ledger's reservations are the same.
LEMMA SettledSame ==
    ASSUME \A x \in Orders : SettledReservation'[x] = SettledReservation[x]
    PROVE  SettledReservation' = SettledReservation
<1>1. /\ SettledReservation' = [x \in Orders |-> SettledReservation'[x]]
      /\ SettledReservation = [x \in Orders |-> SettledReservation[x]]
  BY DEF SettledReservation
<1>. QED BY <1>1

\* A step of one session, with the tables as they were, that does not end a release.
LEMMA SessionStutters ==
    ASSUME TxInv, NEW t \in Txs, NEW r \in Transactions, tx' = [tx EXCEPT ![t] = r],
           UNCHANGED tables,
           tx[t].kind = "release" /\ tx[t].pc \in {"mark", "update"} =>
              r.kind = "release" /\ r.pc \in {"mark", "update"} /\ r.order = tx[t].order,
           r.kind = "release" /\ r.pc \in {"mark", "update"} =>
              \/ tx[t].kind = "release" /\ tx[t].pc \in {"mark", "update"} /\ r.order = tx[t].order
              \/ reservation[r.order] = "RESERVED"
    PROVE  UNCHANGED Ledger!stockVars
<1>1. tx'[t] = r /\ \A u \in Txs \ {t} : tx'[u] = tx[u]
  BY DEF TxInv, StockTxTypeOK
<1>2. UNCHANGED <<product, stock, reservation, items, stockReleased, supplied>> BY DEF tables
<1>3. ASSUME NEW o \in Orders PROVE SettledReservation'[o] = SettledReservation[o]
  <2>1. Releasing(o) => Releasing(o)' BY <1>1 DEF Releasing
  <2>2. Releasing(o)' => Releasing(o) \/ reservation[o] = "RESERVED" BY <1>1 DEF Releasing
  <2>. QED BY <1>2, <2>1, <2>2, SettledAt, SettledAtNext
<1>4. SettledReservation' = SettledReservation BY <1>3, SettledSame
<1>. QED BY <1>2, <1>4 DEF Ledger!stockVars

\* The end of a release without its writes: if the worker committed the reservation
\* meanwhile, this is when the ledger hears of it.
LEMMA EndRefines ==
    ASSUME TxInv, NEW t \in Txs, End(t), UNCHANGED tables
    PROVE  Ledger!StockNext \/ UNCHANGED Ledger!stockVars
<1>0. PICK o \in Orders : o = tx[t].order BY DEF TxInv, StockTxTypeOK
<1>1. /\ tx'[t] = NoTx /\ \A u \in Txs \ {t} : tx'[u] = tx[u]
      /\ tx' = [tx EXCEPT ![t] = NoTx]
  BY DEF End, TxInv, StockTxTypeOK
<1>2. UNCHANGED <<product, stock, reservation, items, stockReleased, supplied>> BY DEF tables
<1>3. CASE ~(tx[t].kind = "release" /\ tx[t].pc \in {"mark", "update"})
  BY <1>1, <1>3, NoTxIsOne, SessionStutters
<1>4. CASE tx[t].kind = "release" /\ tx[t].pc \in {"mark", "update"}
  <2>1. SettledReservation[o] = "RESERVED" BY <1>0, <1>4, SettledAt DEF Releasing
  <2>2. ~Releasing(o)'
    <3>1. ASSUME NEW u \in Txs, tx'[u].kind = "release", tx'[u].order = o,
                 tx'[u].pc \in {"mark", "update"}
          PROVE  FALSE
      <4>1. u # t /\ tx'[u] = tx[u] BY <1>1, <3>1, NoTxIsOne
      <4>2. Exclusive(t, u) BY <4>1 DEF TxInv
      <4>. QED BY <1>0, <1>4, <3>1, <4>1, <4>2 DEF Exclusive, HasOrderLock
    <3>. QED BY <3>1 DEF Releasing
  <2>3. SettledReservation'[o] = reservation[o] BY <1>2, <2>2, SettledAtNext
  <2>4. ASSUME NEW x \in Orders \ {o} PROVE SettledReservation'[x] = SettledReservation[x]
    <3>1. Releasing(x)' <=> Releasing(x) BY <1>0, <1>1, NoTxIsOne DEF Releasing
    <3>. QED BY <1>2, <3>1, SettledAt, SettledAtNext
  <2>5. reservation[o] \in {"RESERVED", "COMMITTED"} BY <1>0, <1>4 DEF TxInv, SessionInv
  <2>6. CASE reservation[o] = "RESERVED"
    <3>1. SettledReservation' = SettledReservation
      BY <2>1, <2>3, <2>4, <2>6, SettledSame
    <3>. QED BY <1>2, <3>1 DEF Ledger!stockVars
  <2>7. CASE reservation[o] = "COMMITTED"
    <3>1. SettledReservation' = [SettledReservation EXCEPT ![o] = "COMMITTED"]
      BY <2>3, <2>4, <2>7, SettledExcept
    <3>2. Ledger!CommitReservation(o) BY <1>2, <2>1, <3>1 DEF Ledger!CommitReservation
    <3>. QED BY <3>2 DEF Ledger!StockNext
  <2>. QED BY <2>5, <2>6, <2>7
<1>. QED BY <1>3, <1>4

\* Statements before the last one do nothing the ledger sees, or end the transaction.
LEMMA StatementsRefine ==
    ASSUME TxInv, NEW t \in Txs,
           \/ \E o \in Orders, b \in Baskets : Begin(t, "reserve", o, b)
           \/ \E o \in Orders : Begin(t, "release", o, NoItems)
           \/ TakeLock(t) \/ ReadReservation(t) \/ MarkReleased(t) \/ UpdateProductRow(t)
           \/ Abort(t)
    PROVE  Ledger!StockNext \/ UNCHANGED Ledger!stockVars
<1>1. tx[t] \in Transactions /\ items \in [Orders -> [Products -> Nat]]
  BY DEF TxInv, StockTxTypeOK, Transactions
<1>2. ASSUME NEW kind \in Kinds, NEW o \in Orders, NEW b \in [Products -> Nat],
             Begin(t, kind, o, b)
      PROVE  UNCHANGED Ledger!stockVars
  <2>. DEFINE r == [pc |-> "lock", kind |-> kind, order |-> o, basket |-> b, updated |-> {}]
  <2>1. r \in Transactions /\ r.pc = "lock" BY DEF Transactions
  <2>2. tx' = [tx EXCEPT ![t] = r] /\ UNCHANGED tables /\ tx[t].pc = "idle" BY <1>2 DEF Begin
  <2>. HIDE DEF r
  <2>. QED BY <2>1, <2>2, SessionStutters
<1>3. CASE \E o \in Orders, b \in Baskets : Begin(t, "reserve", o, b)
  BY <1>2, <1>3, BasketsAssumption DEF Kinds
<1>4. CASE \E o \in Orders : Begin(t, "release", o, NoItems)
  <2>1. NoItems \in [Products -> Nat] /\ "release" \in Kinds BY DEF NoItems, Kinds
  <2>. QED BY <1>2, <1>4, <2>1
<1>5. CASE TakeLock(t)
  <2>. DEFINE r == [tx[t] EXCEPT !.pc = "read"]
  <2>1. r \in Transactions /\ r.pc = "read" BY <1>1 DEF Transactions
  <2>2. tx' = [tx EXCEPT ![t] = r] /\ UNCHANGED tables /\ tx[t].pc = "lock"
    BY <1>5 DEF TakeLock, Goto
  <2>. HIDE DEF r
  <2>. QED BY <2>1, <2>2, SessionStutters
<1>6. CASE ReadReservation(t)
  <2>1. UNCHANGED tables /\ tx[t].pc = "read" BY <1>6 DEF ReadReservation
  <2>2. CASE tx[t].kind = "reserve" /\ Goto(t, "update")
    <3>. DEFINE r == [tx[t] EXCEPT !.pc = "update"]
    <3>1. r \in Transactions /\ r.kind = "reserve" BY <1>1, <2>2 DEF Transactions
    <3>2. tx' = [tx EXCEPT ![t] = r] BY <2>2 DEF Goto
    <3>. HIDE DEF r
    <3>. QED BY <2>1, <2>2, <3>1, <3>2, SessionStutters
  <2>3. CASE /\ tx[t].kind = "release" /\ reservation[tx[t].order] = "RESERVED"
             /\ tx' = [tx EXCEPT ![t].pc = "mark", ![t].basket = items[tx[t].order]]
    <3>. DEFINE r == [tx[t] EXCEPT !.pc = "mark", !.basket = items[tx[t].order]]
    <3>1. items[tx[t].order] \in [Products -> Nat] BY <1>1 DEF Transactions
    <3>2. r \in Transactions /\ r.order = tx[t].order BY <1>1, <3>1 DEF Transactions
    <3>3. tx' = [tx EXCEPT ![t] = r] BY <2>3
    <3>. HIDE DEF r
    <3>. QED BY <2>1, <2>3, <3>2, <3>3, SessionStutters
  <2>4. CASE End(t) BY <2>1, <2>4, EndRefines
  <2>. QED BY <1>6, <2>2, <2>3, <2>4 DEF ReadReservation
<1>7. CASE MarkReleased(t)
  <2>. DEFINE r == [tx[t] EXCEPT !.pc = "update"]
  <2>1. tx[t].pc = "mark" /\ tx[t].kind = "release" BY <1>7 DEF MarkReleased, TxInv, SessionInv
  <2>2. r \in Transactions /\ r.pc = "update" /\ r.kind = "release" /\ r.order = tx[t].order
    BY <1>1, <2>1 DEF Transactions
  <2>3. tx' = [tx EXCEPT ![t] = r] /\ UNCHANGED tables BY <1>7 DEF MarkReleased, Goto
  <2>. HIDE DEF r
  <2>. QED BY <2>1, <2>2, <2>3, SessionStutters
<1>8. CASE UpdateProductRow(t)
  <2>1. PICK p \in NextProducts(t) :
          /\ tx[t].pc = "update" /\ UNCHANGED tables
          /\ (tx' = [tx EXCEPT ![t].updated = @ \cup {p}]) \/ End(t)
    BY <1>8 DEF UpdateProductRow
  <2>2. CASE tx' = [tx EXCEPT ![t].updated = @ \cup {p}]
    <3>. DEFINE r == [tx[t] EXCEPT !.updated = tx[t].updated \cup {p}]
    <3>1. p \in Products BY NextProduct
    <3>2. /\ r \in Transactions /\ r.pc = tx[t].pc /\ r.kind = tx[t].kind
          /\ r.order = tx[t].order
      BY <1>1, <3>1 DEF Transactions
    <3>3. tx' = [tx EXCEPT ![t] = r] BY <2>2
    <3>. HIDE DEF r
    <3>. QED BY <2>1, <3>2, <3>3, SessionStutters
  <2>3. CASE End(t) BY <2>1, <2>3, EndRefines
  <2>. QED BY <2>1, <2>2, <2>3
<1>9. CASE Abort(t) BY <1>9, EndRefines DEF Abort
<1>. QED BY <1>3, <1>4, <1>5, <1>6, <1>7, <1>8, <1>9

\* The commit is the ledger's step.
LEMMA CommitRefines == ASSUME TxInv, NEW t \in Txs, Commit(t) PROVE Ledger!StockNext
<1>0. PICK o \in Orders, b \in [Products -> Nat] : o = tx[t].order /\ b = tx[t].basket
  BY DEF TxInv, StockTxTypeOK
<1>1. /\ tx[t].pc = "update" /\ Remaining(t) = {} /\ UNCHANGED <<product, supplied>>
      /\ tx' = [tx EXCEPT ![t] = NoTx]
  BY DEF Commit, End
<1>2. /\ tx'[t] = NoTx /\ \A u \in Txs \ {t} : tx'[u] = tx[u]
      /\ tx[t].kind \in {"reserve", "release"}
  BY <1>1 DEF TxInv, StockTxTypeOK, Kinds
<1>3. \A p \in Products : b[p] > 0 =>
        product[p] = "live" /\ (tx[t].kind = "reserve" => stock[p] >= b[p])
  BY <1>0, <1>1, ReadyToCommit
<1>4. \A u \in Txs \ {t} : tx[u].pc \in {"mark", "update"} => tx[u].order # o
  BY <1>0, <1>1 DEF TxInv, Exclusive, HasOrderLock
<1>5. ~Releasing(o)' BY <1>2, <1>4, NoTxIsOne DEF Releasing
<1>6. SettledReservation'[o] = reservation'[o] BY <1>5, SettledAtNext
<1>7. reservation \in [Orders -> {"NONE", "RESERVED", "RELEASED", "COMMITTED"}]
  BY DEF TxInv, StockTxTypeOK
<1>8. ASSUME NEW x \in Orders \ {o}, reservation'[x] = reservation[x]
      PROVE  SettledReservation'[x] = SettledReservation[x]
  <2>1. Releasing(x)' <=> Releasing(x) BY <1>0, <1>2, NoTxIsOne DEF Releasing
  <2>. QED BY <1>8, <2>1, SettledAt, SettledAtNext
<1>9. CASE tx[t].kind = "release"
  <2>1. /\ stock' = [p \in Products |-> stock[p] + b[p]]
        /\ reservation' = [reservation EXCEPT ![o] = "RELEASED"]
        /\ stockReleased' = stockReleased \cup {o}
        /\ UNCHANGED <<product, items, supplied>>
    BY <1>0, <1>1, <1>9 DEF Commit
  <2>2. b = items[o] BY <1>0, <1>1, <1>9 DEF TxInv, SessionInv
  <2>3. SettledReservation[o] = "RESERVED" BY <1>0, <1>1, <1>9, SettledAt DEF Releasing
  <2>4. SettledReservation'[o] = "RELEASED" BY <1>6, <1>7, <2>1
  <2>5. SettledReservation' = [SettledReservation EXCEPT ![o] = "RELEASED"]
    BY <1>7, <1>8, <2>1, <2>4, SettledExcept
  <2>6. Ledger!Releasable(o) BY <1>3, <2>2, <2>3 DEF Ledger!Releasable
  <2>7. Ledger!ReleaseStock(o) BY <2>1, <2>2, <2>5, <2>6 DEF Ledger!ReleaseStock
  <2>. QED BY <2>7 DEF Ledger!StockNext
<1>10. CASE tx[t].kind = "reserve"
  <2>1. reservation[o] = "NONE" /\ b \in Baskets BY <1>0, <1>1, <1>10 DEF TxInv, SessionInv
  <2>2. /\ stock' = [p \in Products |-> stock[p] - b[p]]
        /\ reservation' = [reservation EXCEPT ![o] = "RESERVED"]
        /\ items' = [items EXCEPT ![o] = b]
        /\ UNCHANGED <<product, stockReleased, supplied>>
    BY <1>0, <1>1, <1>10, <2>1 DEF Commit
  <2>3. ~Releasing(o) BY <1>4, <1>10 DEF Releasing
  <2>4. SettledReservation[o] = "NONE" BY <2>1, <2>3, SettledAt
  <2>5. SettledReservation'[o] = "RESERVED" BY <1>6, <1>7, <2>2
  <2>6. SettledReservation' = [SettledReservation EXCEPT ![o] = "RESERVED"]
    BY <1>7, <1>8, <2>2, <2>5, SettledExcept
  <2>7. Ledger!ReserveOutcome(o, b) = "reserved"
    BY <1>3, <1>10, <2>4 DEF Ledger!ReserveOutcome, Ledger!CanDecrement
  <2>8. Ledger!ReserveStock(o, b) BY <2>2, <2>6, <2>7 DEF Ledger!ReserveStock
  <2>. QED BY <2>1, <2>8 DEF Ledger!StockNext
<1>. QED BY <1>2, <1>9, <1>10

\* The worker's update during a release is not seen until that release ends.
LEMMA CommitRowRefines ==
    ASSUME TxInv, NEW o \in Orders, CommitRow(o)
    PROVE  Ledger!StockNext \/ UNCHANGED Ledger!stockVars
<1>1. /\ reservation[o] = "RESERVED"
      /\ reservation' = [reservation EXCEPT ![o] = "COMMITTED"]
      /\ UNCHANGED <<product, stock, items, stockReleased, supplied, tx>>
      /\ reservation \in [Orders -> {"NONE", "RESERVED", "RELEASED", "COMMITTED"}]
  BY DEF CommitRow, TxInv, StockTxTypeOK
<1>2. \A x \in Orders : Releasing(x)' <=> Releasing(x) BY <1>1 DEF Releasing
<1>3. ASSUME NEW x \in Orders \ {o} PROVE SettledReservation'[x] = SettledReservation[x]
  <2>1. reservation'[x] = reservation[x] BY <1>1
  <2>. QED BY <1>2, <2>1, SettledAt, SettledAtNext
<1>4. SettledReservation[o] = "RESERVED" BY <1>1, SettledAt
<1>5. CASE Releasing(o)
  <2>1. SettledReservation'[o] = SettledReservation[o] BY <1>2, <1>4, <1>5, SettledAtNext
  <2>2. SettledReservation' = SettledReservation BY <1>3, <2>1, SettledSame
  <2>. QED BY <1>1, <2>2 DEF Ledger!stockVars
<1>6. CASE ~Releasing(o)
  <2>1. reservation'[o] = "COMMITTED" BY <1>1
  <2>2. SettledReservation'[o] = "COMMITTED" BY <1>2, <1>6, <2>1, SettledAtNext
  <2>3. SettledReservation' = [SettledReservation EXCEPT ![o] = "COMMITTED"]
    BY <1>3, <2>2, SettledExcept
  <2>4. Ledger!CommitReservation(o) BY <1>1, <1>4, <2>3 DEF Ledger!CommitReservation
  <2>. QED BY <2>4 DEF Ledger!StockNext
<1>. QED BY <1>5, <1>6

\* An administrator's write is the ledger's.
LEMMA WriteProductRefines ==
    ASSUME TxInv, NEW p \in Products, WriteProduct(p) PROVE Ledger!StockNext
<1>1. UNCHANGED <<reservation, items, stockReleased, tx>> BY DEF WriteProduct
<1>2. ASSUME NEW x \in Orders PROVE SettledReservation'[x] = SettledReservation[x]
  <2>1. Releasing(x)' <=> Releasing(x) BY <1>1 DEF Releasing
  <2>. QED BY <1>1, <2>1, SettledAt, SettledAtNext
<1>3. SettledReservation' = SettledReservation BY <1>2, SettledSame
<1>4. /\ product \in [Products -> {"unborn", "live", "deleted"}]
      /\ stock \in [Products -> Nat] /\ supplied \in [Products -> Int]
  BY DEF TxInv, StockTxTypeOK
<1>5. CASE /\ product[p] = "live" /\ product' = [product EXCEPT ![p] = "deleted"]
           /\ UNCHANGED <<stock, supplied>>
  <2>1. Ledger!DeleteProduct(p) BY <1>1, <1>3, <1>5 DEF Ledger!DeleteProduct
  <2>. QED BY <2>1 DEF Ledger!StockNext, Ledger!AdminStep
<1>6. ASSUME NEW n \in StockLevels, product[p] \in {"unborn", "live"},
             product' = [product EXCEPT ![p] = "live"],
             stock' = [stock EXCEPT ![p] = n],
             supplied' = [supplied EXCEPT ![p] = @ + (n - stock[p])]
      PROVE  Ledger!StockNext
  <2>1. n \in Nat BY SessionsAssumption
  <2>2. CASE product[p] = "unborn"
    <3>1. stock[p] = 0 /\ supplied[p] = 0 BY <2>2 DEF TxInv, UnbornInv
    <3>2. supplied[p] + (n - stock[p]) = n BY <2>1, <3>1
    <3>3. Ledger!CreateProduct(p, n)
      BY <1>1, <1>3, <1>6, <2>2, <3>2 DEF Ledger!CreateProduct
    <3>. QED BY <3>3 DEF Ledger!StockNext, Ledger!AdminStep
  <2>3. CASE product[p] = "live"
    <3>1. product' = product BY <1>4, <1>6, <2>3
    <3>2. Ledger!UpdateProduct(p, n) BY <1>1, <1>3, <1>6, <2>3, <3>1 DEF Ledger!UpdateProduct
    <3>. QED BY <3>2 DEF Ledger!StockNext, Ledger!AdminStep
  <2>. QED BY <1>6, <2>2, <2>3
<1>. QED BY <1>5, <1>6 DEF WriteProduct

\* Interleaved statements, waiting, rollbacks and the worker's update without a lock amount
\* to the one-step transactions of StockReservation, for any number of sessions
\* (stockService.ts, reservationWorker.ts); its theorems hold of the settled ledger.
THEOREM StatementsImplementLedger == TxSpec => ImplementsLedger
<1>1. TxInit => Ledger!StockInit
  <2>1. SUFFICES ASSUME TxInit PROVE Ledger!StockInit OBVIOUS
  <2>2. \A t \in Txs : tx[t].pc = "idle"
    <3>1. \A t \in Txs : tx[t] = NoTx BY <2>1 DEF TxInit
    <3>. QED BY <3>1, NoTxIsOne
  <2>3. SettledReservation = [o \in Orders |-> "NONE"]
    <3>1. ASSUME NEW o \in Orders PROVE SettledReservation[o] = "NONE"
      <4>1. ~Releasing(o) BY <2>2 DEF Releasing
      <4>2. reservation[o] = "NONE" BY <2>1 DEF TxInit
      <4>. QED BY <4>1, <4>2, SettledAt
    <3>2. SettledReservation = [o \in Orders |-> SettledReservation[o]] BY DEF SettledReservation
    <3>. HIDE DEF SettledReservation
    <3>. QED BY <3>1, <3>2
  <2>. QED BY <2>1, <2>3 DEF TxInit, Ledger!StockInit, NoItems, Ledger!NoItems
<1>2. TxInv /\ [TxNext]_txVars => [Ledger!StockNext]_(Ledger!stockVars)
  <2>1. SUFFICES ASSUME TxInv, [TxNext]_txVars
                 PROVE  Ledger!StockNext \/ UNCHANGED Ledger!stockVars
    OBVIOUS
  <2>2. CASE UNCHANGED txVars
    <3>1. UNCHANGED <<product, stock, reservation, items, stockReleased, supplied, tx>>
      BY <2>2 DEF txVars, tables
    <3>2. ASSUME NEW x \in Orders PROVE SettledReservation'[x] = SettledReservation[x]
      <4>1. Releasing(x)' <=> Releasing(x) BY <3>1 DEF Releasing
      <4>. QED BY <3>1, <4>1, SettledAt, SettledAtNext
    <3>3. SettledReservation' = SettledReservation BY <3>2, SettledSame
    <3>. QED BY <3>1, <3>3 DEF Ledger!stockVars
  <2>3. CASE TxNext
    BY <2>1, <2>3, StatementsRefine, CommitRefines, CommitRowRefines, WriteProductRefines
    DEF TxNext
  <2>. QED BY <2>1, <2>2, <2>3
<1>. QED BY <1>1, <1>2, TransactionInvariant, PTL DEF TxSpec, ImplementsLedger, Ledger!StockSpec
---------------------------------------------------------------------------
(* Conservation, through the ledger *)

\* The theorems of StockReservation, for the ledger that StockTx implements.
LedgerProofs == INSTANCE StockReservationProofs WITH reservation <- SettledReservation

\* That ledger is the one of ImplementsLedger: the same operators, instantiated twice.
LEMMA SameLedger == Ledger!StockSpec => LedgerProofs!StockSpec
<1>1. Ledger!StockInit => LedgerProofs!StockInit
  BY DEF Ledger!StockInit, LedgerProofs!StockInit, Ledger!NoItems, LedgerProofs!NoItems
<1>2. Ledger!stockVars = LedgerProofs!stockVars
  BY DEF Ledger!stockVars, LedgerProofs!stockVars
<1>3. Ledger!stockVars' = LedgerProofs!stockVars'
  BY DEF Ledger!stockVars, LedgerProofs!stockVars
<1>4. ASSUME NEW o \in Orders, NEW b \in Baskets, Ledger!ReserveStock(o, b)
      PROVE  LedgerProofs!ReserveStock(o, b)
  BY <1>4 DEF Ledger!ReserveStock, LedgerProofs!ReserveStock,
         Ledger!ReserveOutcome, LedgerProofs!ReserveOutcome,
         Ledger!CanDecrement, LedgerProofs!CanDecrement, Ledger!stockVars, LedgerProofs!stockVars
<1>5. ASSUME NEW o \in Orders, Ledger!ReleaseStock(o) \/ Ledger!CommitReservation(o)
      PROVE  LedgerProofs!ReleaseStock(o) \/ LedgerProofs!CommitReservation(o)
  BY <1>5 DEF Ledger!ReleaseStock, LedgerProofs!ReleaseStock, Ledger!Releasable,
         LedgerProofs!Releasable, Ledger!CommitReservation, LedgerProofs!CommitReservation,
         Ledger!stockVars, LedgerProofs!stockVars
<1>6. Ledger!AdminStep => LedgerProofs!AdminStep
  BY DEF Ledger!AdminStep, LedgerProofs!AdminStep, Ledger!CreateProduct,
         LedgerProofs!CreateProduct, Ledger!UpdateProduct, LedgerProofs!UpdateProduct,
         Ledger!DeleteProduct, LedgerProofs!DeleteProduct
<1>7. [Ledger!StockNext]_(Ledger!stockVars) => [LedgerProofs!StockNext]_(LedgerProofs!stockVars)
  BY <1>2, <1>3, <1>4, <1>5, <1>6 DEF Ledger!StockNext, LedgerProofs!StockNext
<1>8. QED
  BY <1>1, <1>7, PTL DEF Ledger!StockSpec, LedgerProofs!StockSpec

\* What StockReservation assumes of the constants holds here.
LEMMA LedgerAssumptions ==
    LedgerProofs!OrdersAssumption /\ LedgerProofs!StockLevelsAssumption
  BY SessionsAssumption DEF LedgerProofs!OrdersAssumption, LedgerProofs!StockLevelsAssumption,
     IsFiniteSet, LedgerProofs!IsFiniteSet

\* A release in progress has read a row that holds its units and still does, committed
\* or not: what the ledger counts as held is what the committed rows keep.
LEMMA RowsHold ==
    ASSUME TxInv, LedgerProofs!UnitsConserved PROVE CommittedUnitsConserved
<1>1. ASSUME NEW p \in Products PROVE LedgerProofs!HeldBy(p) = CommittedRows(p)
  <2>1. ASSUME NEW o \in Orders
        PROVE  LedgerProofs!Held(o, p) = CommittedRows(p)[o]
    <3>1. CASE Releasing(o)
      <4>1. reservation[o] \in {"RESERVED", "COMMITTED"}
        BY <3>1 DEF Releasing, TxInv, SessionInv
      <4>2. QED
        BY <3>1, <4>1, SettledAt DEF CommittedRows, LedgerProofs!Held
    <3>2. CASE ~ Releasing(o)
      BY <3>2, SettledAt DEF CommittedRows, LedgerProofs!Held
    <3>3. QED
      BY <3>1, <3>2
  <2>2. QED
    BY <2>1 DEF CommittedRows, LedgerProofs!HeldBy
<1>2. ASSUME NEW f PROVE LedgerProofs!SumFunction(f) = SumFunction(f)
  BY DEF SumFunction, SumFunctionOnSet, FoldFunctionOnSet, MapThenFoldSet,
     LedgerProofs!SumFunction, LedgerProofs!SumFunctionOnSet, LedgerProofs!FoldFunctionOnSet,
     LedgerProofs!MapThenFoldSet
<1>3. QED
  BY <1>1, <1>2 DEF CommittedUnitsConserved, LedgerProofs!UnitsConserved

\* No unit is lost or sold twice in the committed tables, between any two statements of
\* any number of concurrent transactions (stockService.ts, reservationWorker.ts).
THEOREM CommittedUnitsAreConserved == TxSpec => []CommittedUnitsConserved
<1>1. LedgerProofs!StockSpec => []LedgerProofs!UnitsConserved
  BY LedgerAssumptions, BasketsAssumption, LedgerProofs!UnitsAreConserved
<1>2. TxInv /\ LedgerProofs!UnitsConserved => CommittedUnitsConserved
  BY RowsHold
<1>3. QED
  BY <1>1, <1>2, SameLedger, StatementsImplementLedger, TransactionInvariant, PTL
  DEF ImplementsLedger
===========================================================================
