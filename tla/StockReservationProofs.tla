---------------------- MODULE StockReservationProofs ----------------------
(***************************************************************************)
(* Safety of the stock ledger for any set of orders, products and baskets. *)
(***************************************************************************)
EXTENDS StockReservation, FiniteSetTheorems, WellFoundedInduction, TLAPS

---------------------------------------------------------------------------
(* Sums over finite sets *)

\* The recursion that SumFunction stands for: the sums of all parts of f.
Pick(s) == CHOOSE x \in s : TRUE

SumsOf(f, sums) ==
    sums = [s \in SUBSET DOMAIN f |->
               IF s = {} THEN 0 ELSE f[Pick(s)] + sums[s \ {Pick(s)}]]

PartialSums(f) == CHOOSE sums : SumsOf(f, sums)

LEMMA SumIsPartial == ASSUME NEW f PROVE SumFunction(f) = PartialSums(f)[DOMAIN f]
BY DEF SumFunction, SumFunctionOnSet, FoldFunctionOnSet, MapThenFoldSet, PartialSums,
       SumsOf, Pick

\* What holds of 0 and of the successors of what it holds of holds of every natural.
LEMMA NaturalSet ==
    ASSUME NEW T \in SUBSET Nat, 0 \in T, \A n \in T : n + 1 \in T PROVE T = Nat
<1>. DEFINE R == OpToRel(<, Nat)
<1>1. IsWellFoundedOn(R, Nat) BY NatLessThanWellFounded
<1>. HIDE DEF R
<1>2. SUFFICES ASSUME Nat \ T # {} PROVE FALSE OBVIOUS
<1>3. PICK x \in Nat \ T : \A y \in Nat \ T : ~(<<y, x>> \in R) BY <1>1, <1>2, WFMin
<1>4. \A y \in Nat \ T : ~(y < x)
  <2>1. \A y \in Nat : y < x => <<y, x>> \in R BY DEF R, OpToRel
  <2>. QED BY <1>3, <2>1
<1>5. x # 0 /\ x - 1 \in Nat /\ x - 1 < x OBVIOUS
<1>6. x - 1 \in T BY <1>4, <1>5
<1>7. (x - 1) + 1 = x OBVIOUS
<1>. QED BY <1>6, <1>7

LEMMA Picked ==
    ASSUME NEW s, IsFiniteSet(s), s # {}
    PROVE  /\ Pick(s) \in s
           /\ \A x \in s : /\ IsFiniteSet(s \ {x})
                           /\ Cardinality(s \ {x}) + 1 = Cardinality(s)
                           /\ Cardinality(s \ {x}) \in Nat
<1>1. \E x : x \in s OBVIOUS
<1>2. Pick(s) \in s BY <1>1 DEF Pick
<1>3. ASSUME NEW x \in s
      PROVE  IsFiniteSet(s \ {x}) /\ Cardinality(s \ {x}) = Cardinality(s) - 1
  BY FS_RemoveElement
<1>4. Cardinality(s) \in Nat BY FS_CardinalityType
<1>5. ASSUME NEW x \in s
      PROVE  Cardinality(s \ {x}) \in Nat /\ Cardinality(s \ {x}) + 1 = Cardinality(s)
  <2>1. Cardinality(s \ {x}) \in Nat BY <1>3, FS_CardinalityType
  <2>. QED BY <1>3, <1>4, <2>1
<1>. QED BY <1>2, <1>3, <1>5

\* The recursion has a solution.
LEMMA PartialSumsExist ==
    ASSUME NEW S, IsFiniteSet(S), NEW f \in [S -> Int]
    PROVE  /\ PartialSums(f) \in [SUBSET S -> Int]
           /\ PartialSums(f)[{}] = 0
           /\ \A s \in (SUBSET S) \ {{}} :
                 PartialSums(f)[s] = f[Pick(s)] + PartialSums(f)[s \ {Pick(s)}]
<1>. DEFINE Small(n) == {s \in SUBSET S : Cardinality(s) <= n}
            Step(g, s) == IF s = {} THEN 0 ELSE f[Pick(s)] + g[s \ {Pick(s)}]
            Good(n) == \E g \in [Small(n) -> Int] : \A s \in Small(n) : g[s] = Step(g, s)
            T == {n \in Nat : Good(n)}
<1>1. \A s \in SUBSET S : /\ IsFiniteSet(s) /\ Cardinality(s) \in Nat
                          /\ Cardinality(s) = 0 <=> s = {}
  BY FS_Subset, FS_CardinalityType, FS_EmptySet
<1>2. ASSUME NEW s \in (SUBSET S) \ {{}}
      PROVE  /\ Pick(s) \in S /\ s \ {Pick(s)} \in SUBSET S
             /\ Cardinality(s \ {Pick(s)}) + 1 = Cardinality(s)
             /\ Cardinality(s \ {Pick(s)}) \in Nat
  BY <1>1, Picked
<1>3. 0 \in T
  <2>1. Small(0) = {{}} BY <1>1
  <2>2. [s \in Small(0) |-> 0] \in [Small(0) -> Int] OBVIOUS
  <2>3. Good(0) BY <2>1, <2>2
  <2>. QED BY <2>3
<1>4. ASSUME NEW n \in T PROVE n + 1 \in T
  <2>1. PICK g \in [Small(n) -> Int] : \A s \in Small(n) : g[s] = Step(g, s) BY <1>4
  <2>. DEFINE h == [s \in Small(n + 1) |-> Step(g, s)]
  <2>2. n \in Nat OBVIOUS
  <2>3. ASSUME NEW s \in Small(n + 1), s # {} PROVE s \ {Pick(s)} \in Small(n)
    BY <1>1, <1>2, <2>2, <2>3
  <2>4. h \in [Small(n + 1) -> Int]
    <3>1. ASSUME NEW s \in Small(n + 1) PROVE Step(g, s) \in Int
      <4>1. CASE s = {} BY <4>1
      <4>2. CASE s # {} BY <1>2, <2>3, <4>2
      <4>. QED BY <4>1, <4>2
    <3>. QED BY <3>1
  <2>5. \A s \in Small(n) : s \in Small(n + 1) /\ h[s] = g[s]
    <3>1. \A s \in Small(n) : s \in Small(n + 1) BY <1>1, <2>2
    <3>. QED BY <2>1, <3>1
  <2>6. ASSUME NEW s \in Small(n + 1) PROVE h[s] = Step(h, s)
    <3>1. h[s] = Step(g, s) OBVIOUS
    <3>2. s # {} => h[s \ {Pick(s)}] = g[s \ {Pick(s)}] BY <2>3, <2>5
    <3>. QED BY <3>1, <3>2
  <2>. HIDE DEF h
  <2>7. Good(n + 1) BY <2>4, <2>6
  <2>8. n + 1 \in Nat BY <2>2
  <2>. HIDE DEF Good
  <2>. QED BY <2>7, <2>8
<1>5. T = Nat BY <1>3, <1>4, NaturalSet
<1>6. PICK g \in [SUBSET S -> Int] : \A s \in SUBSET S : g[s] = Step(g, s)
  <2>1. Cardinality(S) \in Nat BY FS_CardinalityType
  <2>2. Small(Cardinality(S)) = SUBSET S BY FS_Subset
  <2>3. Good(Cardinality(S)) BY <1>5, <2>1
  <2>. HIDE DEF Small, Step
  <2>. QED BY <2>2, <2>3
<1>7. SumsOf(f, g)
  <2>1. g = [s \in SUBSET S |-> Step(g, s)] BY <1>6
  <2>2. DOMAIN f = S OBVIOUS
  <2>. QED BY <2>1, <2>2 DEF SumsOf
<1>8. SumsOf(f, PartialSums(f)) BY <1>7 DEF PartialSums
<1>. DEFINE p == PartialSums(f)
<1>. HIDE DEF p
<1>9. p = [s \in SUBSET S |-> Step(p, s)]
  <2>1. DOMAIN f = S OBVIOUS
  <2>. QED BY <1>8, <2>1 DEF SumsOf, p
<1>10. ASSUME NEW s \in SUBSET S PROVE p[s] \in Int
  <2>. DEFINE U == {n \in Nat : \A t \in SUBSET S : Cardinality(t) <= n => p[t] \in Int}
  <2>1. 0 \in U
    <3>1. \A t \in SUBSET S : Cardinality(t) <= 0 => t = {} BY <1>1
    <3>2. p[{}] = 0 BY <1>9
    <3>. QED BY <3>1, <3>2
  <2>2. ASSUME NEW n \in U PROVE n + 1 \in U
    <3>1. ASSUME NEW t \in SUBSET S, Cardinality(t) <= n + 1 PROVE p[t] \in Int
      <4>1. CASE t = {} BY <1>9, <4>1
      <4>2. CASE t # {}
        <5>1. Cardinality(t \ {Pick(t)}) <= n BY <1>1, <1>2, <3>1, <4>2
        <5>2. p[t \ {Pick(t)}] \in Int BY <1>2, <4>2, <5>1
        <5>3. p[t] = f[Pick(t)] + p[t \ {Pick(t)}] BY <1>9, <4>2
        <5>. QED BY <1>2, <4>2, <5>2, <5>3
      <4>. QED BY <4>1, <4>2
    <3>2. n + 1 \in Nat OBVIOUS
    <3>. QED BY <3>1, <3>2
  <2>3. U = Nat BY <2>1, <2>2, NaturalSet
  <2>4. Cardinality(s) \in Nat BY <1>1
  <2>5. Cardinality(s) \in U BY <2>3, <2>4
  <2>. QED BY <2>4, <2>5
<1>11. p \in [SUBSET S -> Int]
  <2>1. DOMAIN p = SUBSET S BY <1>9
  <2>2. p = [s \in SUBSET S |-> p[s]] BY <1>9
  <2>. QED BY <1>10, <2>2
<1>12. p[{}] = 0 /\ \A s \in (SUBSET S) \ {{}} : p[s] = f[Pick(s)] + p[s \ {Pick(s)}]
  BY <1>9
<1>. QED BY <1>11, <1>12 DEF p

\* The order in which the elements are picked does not matter.
LEMMA TakeAny ==
    ASSUME NEW S, IsFiniteSet(S), NEW f \in [S -> Int]
    PROVE  \A s \in SUBSET S : \A x \in s :
               PartialSums(f)[s] = f[x] + PartialSums(f)[s \ {x}]
<1>. DEFINE p == PartialSums(f)
            Any(s) == \A x \in s : p[s] = f[x] + p[s \ {x}]
            T == {n \in Nat : \A s \in SUBSET S : Cardinality(s) <= n => Any(s)}
<1>1. /\ p \in [SUBSET S -> Int] /\ p[{}] = 0
      /\ \A s \in (SUBSET S) \ {{}} : p[s] = f[Pick(s)] + p[s \ {Pick(s)}]
  BY PartialSumsExist
<1>. HIDE DEF p
<1>2. \A s \in SUBSET S : IsFiniteSet(s) /\ Cardinality(s) \in Nat
  BY FS_Subset, FS_CardinalityType
<1>3. 0 \in T
  <2>1. \A s \in SUBSET S : Cardinality(s) <= 0 => s = {} BY <1>2, FS_EmptySet
  <2>. QED BY <2>1
<1>4. ASSUME NEW n \in T PROVE n + 1 \in T
  <2>1. n \in Nat /\ \A s \in SUBSET S : Cardinality(s) <= n => Any(s) OBVIOUS
  <2>2. ASSUME NEW s \in SUBSET S, Cardinality(s) <= n + 1, NEW x \in s
        PROVE  p[s] = f[x] + p[s \ {x}]
    <3>. DEFINE c == Pick(s)
                rest == s \ {c, x}
    <3>1. c \in s /\ \A y \in s : Cardinality(s \ {y}) <= n
      BY <1>2, <2>1, <2>2, Picked
    <3>2. p[s] = f[c] + p[s \ {c}] BY <1>1, <2>2
    <3>. HIDE DEF c
    <3>3. CASE x = c BY <3>2, <3>3
    <3>4. CASE x # c
      <4>1. p[s \ {c}] = f[x] + p[(s \ {c}) \ {x}]
        BY <2>1, <3>1, <3>4
      <4>2. p[s \ {x}] = f[c] + p[(s \ {x}) \ {c}]
        BY <2>1, <3>1, <3>4
      <4>3. (s \ {c}) \ {x} = rest /\ (s \ {x}) \ {c} = rest OBVIOUS
      <4>4. f[c] \in Int /\ f[x] \in Int /\ p[rest] \in Int
        <5>1. rest \in SUBSET S OBVIOUS
        <5>. QED BY <1>1, <3>1, <5>1
      <4>5. p[s \ {c}] = f[x] + p[rest] BY <4>1, <4>3
      <4>6. p[s \ {x}] = f[c] + p[rest] BY <4>2, <4>3
      <4>. QED BY <3>2, <4>4, <4>5, <4>6
    <3>. QED BY <3>3, <3>4
  <2>3. n + 1 \in Nat BY <2>1
  <2>. QED BY <2>2, <2>3
<1>5. T = Nat BY <1>3, <1>4, NaturalSet
<1>6. ASSUME NEW s \in SUBSET S PROVE Any(s)
  <2>1. Cardinality(s) \in Nat BY <1>2
  <2>2. Cardinality(s) \in T BY <1>5, <2>1
  <2>. QED BY <2>1, <2>2
<1>. QED BY <1>6 DEF p

\* A function that nowhere exceeds another on a set has no greater sum there.
LEMMA SumsGrow ==
    ASSUME NEW S, IsFiniteSet(S), NEW f \in [S -> Int], NEW g \in [S -> Int]
    PROVE  \A s \in SUBSET S :
               (\A x \in s : f[x] <= g[x]) => PartialSums(f)[s] <= PartialSums(g)[s]
<1>. DEFINE p == PartialSums(f)
            q == PartialSums(g)
            Grows(s) == (\A x \in s : f[x] <= g[x]) => p[s] <= q[s]
            T == {n \in Nat : \A s \in SUBSET S : Cardinality(s) <= n => Grows(s)}
<1>0. /\ p \in [SUBSET S -> Int] /\ p[{}] = 0
      /\ \A s \in (SUBSET S) \ {{}} : p[s] = f[Pick(s)] + p[s \ {Pick(s)}]
  BY PartialSumsExist
<1>1. /\ q \in [SUBSET S -> Int] /\ q[{}] = 0
      /\ \A s \in (SUBSET S) \ {{}} : q[s] = g[Pick(s)] + q[s \ {Pick(s)}]
  BY PartialSumsExist
<1>. HIDE DEF p, q
<1>2. \A s \in SUBSET S : IsFiniteSet(s) /\ Cardinality(s) \in Nat
  BY FS_Subset, FS_CardinalityType
<1>3. 0 \in T
  <2>1. \A s \in SUBSET S : Cardinality(s) <= 0 => s = {} BY <1>2, FS_EmptySet
  <2>2. p[{}] <= q[{}] BY <1>0, <1>1
  <2>3. \A s \in SUBSET S : Cardinality(s) <= 0 => Grows(s) BY <2>1, <2>2
  <2>. QED BY <2>3
<1>4. ASSUME NEW n \in T PROVE n + 1 \in T
  <2>1. n \in Nat /\ \A s \in SUBSET S : Cardinality(s) <= n => Grows(s) OBVIOUS
  <2>2. ASSUME NEW s \in SUBSET S, Cardinality(s) <= n + 1, \A x \in s : f[x] <= g[x]
        PROVE  p[s] <= q[s]
    <3>1. CASE s = {} BY <1>0, <1>1, <3>1
    <3>2. CASE s # {}
      <4>1. Pick(s) \in s /\ Cardinality(s \ {Pick(s)}) <= n
        BY <1>2, <2>1, <2>2, <3>2, Picked
      <4>2. s \ {Pick(s)} \in SUBSET S OBVIOUS
      <4>3. p[s \ {Pick(s)}] <= q[s \ {Pick(s)}] BY <2>1, <2>2, <4>1, <4>2
      <4>4. /\ f[Pick(s)] \in Int /\ g[Pick(s)] \in Int /\ f[Pick(s)] <= g[Pick(s)]
            /\ p[s \ {Pick(s)}] \in Int /\ q[s \ {Pick(s)}] \in Int
        BY <1>0, <1>1, <2>2, <4>1, <4>2
      <4>5. /\ p[s] = f[Pick(s)] + p[s \ {Pick(s)}]
            /\ q[s] = g[Pick(s)] + q[s \ {Pick(s)}]
        BY <1>0, <1>1, <3>2
      <4>. QED BY <4>3, <4>4, <4>5
    <3>. QED BY <3>1, <3>2
  <2>3. n + 1 \in Nat BY <2>1
  <2>. QED BY <2>2, <2>3
<1>5. T = Nat BY <1>3, <1>4, NaturalSet
<1>6. ASSUME NEW s \in SUBSET S PROVE Grows(s)
  <2>1. Cardinality(s) \in Nat BY <1>2
  <2>2. Cardinality(s) \in T BY <1>5, <2>1
  <2>. QED BY <2>1, <2>2
<1>. QED BY <1>6 DEF p, q

\* Functions that agree on a set have the same sum there.
LEMMA SameSums ==
    ASSUME NEW S, IsFiniteSet(S), NEW f \in [S -> Int], NEW g \in [S -> Int]
    PROVE  \A s \in SUBSET S :
               (\A x \in s : f[x] = g[x]) => PartialSums(f)[s] = PartialSums(g)[s]
<1>. SUFFICES ASSUME NEW s \in SUBSET S, \A x \in s : f[x] = g[x]
              PROVE  PartialSums(f)[s] = PartialSums(g)[s]
  OBVIOUS
<1>1. \A x \in s : f[x] <= g[x] /\ g[x] <= f[x]
  <2>1. \A x \in s : f[x] \in Int /\ g[x] \in Int OBVIOUS
  <2>. QED BY <2>1
<1>2. PartialSums(f)[s] <= PartialSums(g)[s] BY <1>1, SumsGrow
<1>3. PartialSums(g)[s] <= PartialSums(f)[s] BY <1>1, SumsGrow
<1>4. PartialSums(f)[s] \in Int /\ PartialSums(g)[s] \in Int
  <2>1. PartialSums(f) \in [SUBSET S -> Int] /\ PartialSums(g) \in [SUBSET S -> Int]
    BY PartialSumsExist
  <2>. QED BY <2>1
<1>. QED BY <1>2, <1>3, <1>4

\* Changing one value of a function changes its sum by as much.
LEMMA SumChanges ==
    ASSUME NEW S, IsFiniteSet(S), NEW f \in [S -> Int], NEW g \in [S -> Int],
           NEW x \in S, \A y \in S \ {x} : f[y] = g[y]
    PROVE  /\ SumFunction(f) \in Int
           /\ SumFunction(g) - g[x] = SumFunction(f) - f[x]
<1>1. DOMAIN f = S /\ DOMAIN g = S OBVIOUS
<1>2. S \in SUBSET S /\ S \ {x} \in SUBSET S OBVIOUS
<1>3. SumFunction(f) = f[x] + PartialSums(f)[S \ {x}]
  <2>1. PartialSums(f)[S] = f[x] + PartialSums(f)[S \ {x}] BY <1>2, TakeAny
  <2>. QED BY <1>1, <2>1, SumIsPartial
<1>4. SumFunction(g) = g[x] + PartialSums(g)[S \ {x}]
  <2>1. PartialSums(g)[S] = g[x] + PartialSums(g)[S \ {x}] BY <1>2, TakeAny
  <2>. QED BY <1>1, <2>1, SumIsPartial
<1>5. PartialSums(f)[S \ {x}] = PartialSums(g)[S \ {x}] BY <1>2, SameSums
<1>6. PartialSums(f)[S \ {x}] \in Int
  <2>1. PartialSums(f) \in [SUBSET S -> Int] BY PartialSumsExist
  <2>. QED BY <1>2, <2>1
<1>. QED BY <1>3, <1>4, <1>5, <1>6

LEMMA SumIsInteger ==
    ASSUME NEW S, IsFiniteSet(S), NEW f \in [S -> Int] PROVE SumFunction(f) \in Int
<1>1. DOMAIN f = S /\ S \in SUBSET S OBVIOUS
<1>2. PartialSums(f) \in [SUBSET S -> Int] BY PartialSumsExist
<1>. QED BY <1>1, <1>2, SumIsPartial

LEMMA SumGrows ==
    ASSUME NEW S, IsFiniteSet(S), NEW f \in [S -> Int], NEW g \in [S -> Int],
           \A x \in S : f[x] <= g[x]
    PROVE  SumFunction(f) <= SumFunction(g)
<1>1. DOMAIN f = S /\ DOMAIN g = S /\ S \in SUBSET S OBVIOUS
<1>2. PartialSums(f)[S] <= PartialSums(g)[S] BY <1>1, SumsGrow
<1>. QED BY <1>1, <1>2, SumIsPartial

LEMMA SumOfZeros ==
    ASSUME NEW S, IsFiniteSet(S), NEW f \in [S -> Int], \A x \in S : f[x] = 0
    PROVE  SumFunction(f) = 0
<1>. DEFINE p == PartialSums(f)
            T == {n \in Nat : \A s \in SUBSET S : Cardinality(s) <= n => p[s] = 0}
<1>1. /\ p[{}] = 0
      /\ \A s \in (SUBSET S) \ {{}} : p[s] = f[Pick(s)] + p[s \ {Pick(s)}]
  BY PartialSumsExist
<1>. HIDE DEF p
<1>2. \A s \in SUBSET S : IsFiniteSet(s) /\ Cardinality(s) \in Nat
  BY FS_Subset, FS_CardinalityType
<1>3. 0 \in T
  <2>1. \A s \in SUBSET S : Cardinality(s) <= 0 => s = {} BY <1>2, FS_EmptySet
  <2>. QED BY <1>1, <2>1
<1>4. ASSUME NEW n \in T PROVE n + 1 \in T
  <2>1. n \in Nat /\ \A s \in SUBSET S : Cardinality(s) <= n => p[s] = 0 OBVIOUS
  <2>2. ASSUME NEW s \in SUBSET S, Cardinality(s) <= n + 1 PROVE p[s] = 0
    <3>1. CASE s # {}
      <4>1. Pick(s) \in s /\ Cardinality(s \ {Pick(s)}) <= n
        BY <1>2, <2>1, <2>2, <3>1, Picked
      <4>2. s \ {Pick(s)} \in SUBSET S OBVIOUS
      <4>3. p[s \ {Pick(s)}] = 0 BY <2>1, <4>1, <4>2
      <4>4. f[Pick(s)] = 0 BY <4>1
      <4>. QED BY <1>1, <3>1, <4>3, <4>4
    <3>. QED BY <1>1, <3>1
  <2>3. n + 1 \in Nat BY <2>1
  <2>. QED BY <2>2, <2>3
<1>5. Cardinality(S) \in T
  <2>1. T = Nat BY <1>3, <1>4, NaturalSet
  <2>. QED BY <1>2, <2>1
<1>6. p[S] = 0 BY <1>2, <1>5
<1>7. DOMAIN f = S OBVIOUS
<1>. QED BY <1>6, <1>7, SumIsPartial DEF p
---------------------------------------------------------------------------
(* The ledger *)

\* What a successful reserve or release does to the stock counters: they stay
\* natural numbers, because every decrement was checked and every increment adds.
LEMMA StockStaysNat ==
    ASSUME StockTypeOK,
           NEW o \in Orders
    PROVE  /\ \A b \in Baskets :
                 ReserveOutcome(o, b) = "reserved" =>
                    [p \in Products |-> stock[p] - b[p]] \in [Products -> Nat]
           /\ [p \in Products |-> stock[p] + items[o][p]] \in [Products -> Nat]
<1>1. ASSUME NEW b \in Baskets, ReserveOutcome(o, b) = "reserved", NEW p \in Products
      PROVE  stock[p] - b[p] \in Nat
  <2>1. b[p] \in Nat /\ stock[p] \in Nat
    BY BasketsAssumption DEF StockTypeOK
  <2>2. b[p] > 0 => stock[p] >= b[p]
    BY <1>1 DEF ReserveOutcome, CanDecrement
  <2>3. QED
    BY <2>1, <2>2
<1>2. ASSUME NEW p \in Products
      PROVE  stock[p] + items[o][p] \in Nat
  BY DEF StockTypeOK
<1>3. QED
  BY <1>1, <1>2

LEMMA StockInitTyped == ASSUME StockInit PROVE StockTypeOK
<1>1. stock \in [Products -> Nat] /\ supplied \in [Products -> Int]
  <2>1. \A n \in StockLevels : n \in Nat /\ n \in Int
    BY StockLevelsAssumption
  <2>2. QED
    BY <2>1 DEF StockInit
<1>2. product \in [Products -> ProductRow]
  BY DEF StockInit, ProductRow
<1>3. QED
  BY <1>1, <1>2 DEF StockInit, StockTypeOK, ReservationStatus, NoItems

\* The type invariant, with the one type that matters: stock is never negative.
THEOREM StockTypeCorrect == StockSpec => []StockTypeOK
<1>1. StockInit => StockTypeOK
  BY StockInitTyped
<1>2. StockTypeOK /\ [StockNext]_stockVars => StockTypeOK'
  <2> SUFFICES ASSUME StockTypeOK, [StockNext]_stockVars
               PROVE  StockTypeOK'
    OBVIOUS
  <2> USE DEF StockTypeOK, ProductRow, ReservationStatus, stockVars
  <2>1. ASSUME NEW o \in Orders, NEW b \in Baskets, ReserveStock(o, b)
        PROVE  StockTypeOK'
    BY <2>1, StockStaysNat, BasketsAssumption DEF ReserveStock
  <2>2. ASSUME NEW o \in Orders, ReleaseStock(o)
        PROVE  StockTypeOK'
    BY <2>2, StockStaysNat DEF ReleaseStock
  <2>3. ASSUME NEW o \in Orders, CommitReservation(o)
        PROVE  StockTypeOK'
    BY <2>3 DEF CommitReservation
  <2>4. ASSUME NEW p \in Products, DeleteProduct(p)
        PROVE  StockTypeOK'
    BY <2>4 DEF DeleteProduct
  <2>5. ASSUME NEW p \in Products, NEW n \in StockLevels,
               CreateProduct(p, n) \/ UpdateProduct(p, n)
        PROVE  StockTypeOK'
    BY <2>5, StockLevelsAssumption DEF CreateProduct, UpdateProduct
  <2>6. CASE UNCHANGED stockVars
    BY <2>6
  <2>7. QED
    BY <2>1, <2>2, <2>3, <2>4, <2>5, <2>6 DEF StockNext, AdminStep
<1>3. QED
  BY <1>1, <1>2, PTL DEF StockSpec

\* A released or committed reservation is final and no reservation changes its items.
THEOREM ReservationsSettleOnce == StockSpec => SettledIsFinal
<1> DEFINE Final ==
      \A o \in Orders :
          /\ reservation[o] # "NONE" => items'[o] = items[o]
          /\ reservation[o] \in {"RELEASED", "COMMITTED"} =>
                reservation'[o] = reservation[o]
<1>1. StockTypeOK /\ [StockNext]_stockVars => [Final]_stockVars
  <2> SUFFICES ASSUME StockTypeOK, StockNext
               PROVE  Final
    BY DEF Final, stockVars
  <2>1. ASSUME NEW o \in Orders, NEW b \in Baskets, ReserveStock(o, b)
        PROVE  Final
    BY <2>1 DEF ReserveStock, ReserveOutcome, StockTypeOK, stockVars, Final
  <2>2. ASSUME NEW o \in Orders, ReleaseStock(o) \/ CommitReservation(o)
        PROVE  Final
    BY <2>2 DEF ReleaseStock, CommitReservation, Releasable, StockTypeOK, stockVars, Final
  <2>3. CASE AdminStep
    BY <2>3 DEF AdminStep, CreateProduct, UpdateProduct, DeleteProduct, Final
  <2>4. QED
    BY <2>1, <2>2, <2>3 DEF StockNext
<1>2. QED
  BY <1>1, StockTypeCorrect, PTL DEF StockSpec, SettledIsFinal, Final

\* Row o alone changes, and the shelf by what its reservation gains or gives up.
MovesWith(o) ==
    /\ \A other \in Orders \ {o} :
          reservation'[other] = reservation[other] /\ items'[other] = items[other]
    /\ \A p \in Products : stock'[p] + Held(o, p)' = stock[p] + Held(o, p)

\* What is not an administrator's step moves units with one reservation, and leaves
\* products and what was supplied of them alone.
LEMMA StepMoves ==
    ASSUME StockTypeOK, StockNext
    PROVE  AdminStep \/ (\E o \in Orders : MovesWith(o) /\ UNCHANGED <<product, supplied>>)
                     \/ UNCHANGED stockVars
<1>1. ASSUME NEW o \in Orders, NEW b \in Baskets, ReserveStock(o, b),
             ~ UNCHANGED stockVars
      PROVE  MovesWith(o) /\ UNCHANGED <<product, supplied>>
  <2>1. ReserveOutcome(o, b) = "reserved"
    BY <1>1 DEF ReserveStock
  <2>2. reservation[o] = "NONE"
    BY <2>1 DEF ReserveOutcome
  <2>3. \A p \in Products : Held(o, p) = 0 /\ Held(o, p)' = b[p]
    BY <1>1, <2>1, <2>2, BasketsAssumption DEF ReserveStock, Held, StockTypeOK
  <2>4. QED
    BY <1>1, <2>1, <2>3, BasketsAssumption DEF ReserveStock, StockTypeOK, MovesWith
<1>2. ASSUME NEW o \in Orders, ReleaseStock(o), ~ UNCHANGED stockVars
      PROVE  MovesWith(o) /\ UNCHANGED <<product, supplied>>
  <2>1. Releasable(o)
    BY <1>2 DEF ReleaseStock
  <2>2. \A p \in Products : Held(o, p) = items[o][p] /\ Held(o, p)' = 0
    BY <1>2, <2>1 DEF ReleaseStock, Releasable, Held, StockTypeOK
  <2>3. QED
    BY <1>2, <2>1, <2>2 DEF ReleaseStock, StockTypeOK, MovesWith
<1>3. ASSUME NEW o \in Orders, CommitReservation(o), ~ UNCHANGED stockVars
      PROVE  MovesWith(o) /\ UNCHANGED <<product, supplied>>
  BY <1>3 DEF CommitReservation, Held, StockTypeOK, MovesWith
<1>4. QED
  BY <1>1, <1>2, <1>3 DEF StockNext

\* Apart from administrator writes, the shelf changes by exactly what a single order's
\* reservation gains or gives up.
THEOREM UnitsMoveWithReservations == StockSpec => UnitsMoveWithOneReservation
<1>1. StockTypeOK /\ [StockNext]_stockVars =>
          [AdminStep \/ \E o \in Orders : MovesWith(o)]_stockVars
  BY StepMoves
<1>2. QED
  BY <1>1, StockTypeCorrect, PTL DEF StockSpec, UnitsMoveWithOneReservation, MovesWith

\* A product that was never put on sale is in nobody's reservation.
UnbornUnsold ==
    \A p \in Products : product[p] = "unborn" => \A o \in Orders : items[o][p] = 0

LEMMA UnbornStaysUnsold ==
    ASSUME StockTypeOK, UnbornUnsold, [StockNext]_stockVars PROVE UnbornUnsold'
<1> USE DEF StockTypeOK, UnbornUnsold, stockVars
<1>1. ASSUME NEW o \in Orders, NEW b \in Baskets, ReserveStock(o, b)
      PROVE  UnbornUnsold'
  <2>1. CASE ReserveOutcome(o, b) = "reserved"
    <3>1. \A p \in Products : b[p] \in Nat /\ (b[p] > 0 => product[p] = "live")
      BY <2>1, BasketsAssumption DEF ReserveOutcome, CanDecrement
    <3>2. items' = [items EXCEPT ![o] = b] /\ product' = product
      BY <1>1, <2>1 DEF ReserveStock
    <3>3. QED
      BY <3>1, <3>2
  <2>2. CASE ReserveOutcome(o, b) # "reserved"
    BY <1>1, <2>2 DEF ReserveStock
  <2>3. QED
    BY <2>1, <2>2
<1>2. ASSUME NEW o \in Orders, ReleaseStock(o) \/ CommitReservation(o)
      PROVE  UnbornUnsold'
  BY <1>2 DEF ReleaseStock, CommitReservation
<1>3. CASE AdminStep
  BY <1>3 DEF AdminStep, CreateProduct, UpdateProduct, DeleteProduct
<1>4. CASE UNCHANGED stockVars
  BY <1>4
<1>5. QED
  BY <1>1, <1>2, <1>3, <1>4 DEF StockNext

\* What the orders hold of a product is a sum of naturals, of zeros if they hold none.
LEMMA HeldUnits ==
    ASSUME StockTypeOK, NEW p \in Products
    PROVE  /\ HeldBy(p) \in [Orders -> Int]
           /\ (\A o \in Orders : items[o][p] = 0) => SumFunction(HeldBy(p)) = 0
<1>1. \A o \in Orders : Held(o, p) \in Int
  BY DEF Held, StockTypeOK
<1>2. HeldBy(p) \in [Orders -> Int]
  BY <1>1 DEF HeldBy
<1>3. ASSUME \A o \in Orders : items[o][p] = 0 PROVE \A o \in Orders : HeldBy(p)[o] = 0
  BY <1>3 DEF HeldBy, Held
<1>4. QED
  BY <1>2, <1>3, OrdersAssumption, SumOfZeros

\* A step that moves units with one reservation keeps the total.
LEMMA MoveConserves ==
    ASSUME StockTypeOK, StockTypeOK', NEW o \in Orders, MovesWith(o), NEW p \in Products
    PROVE  stock'[p] + SumFunction(HeldBy(p)') = stock[p] + SumFunction(HeldBy(p))
<1>1. HeldBy(p) \in [Orders -> Int] /\ HeldBy(p)' \in [Orders -> Int]
  BY HeldUnits DEF HeldBy, Held, StockTypeOK
<1>2. \A y \in Orders \ {o} : HeldBy(p)[y] = HeldBy(p)'[y]
  BY DEF MovesWith, HeldBy, Held
<1>3. HeldBy(p)[o] = Held(o, p) /\ HeldBy(p)'[o] = Held(o, p)'
  BY DEF HeldBy
<1>4. /\ SumFunction(HeldBy(p)) \in Int /\ SumFunction(HeldBy(p)') \in Int
      /\ SumFunction(HeldBy(p)') - Held(o, p)' = SumFunction(HeldBy(p)) - Held(o, p)
  <2>1. \A y \in Orders \ {o} : HeldBy(p)'[y] = HeldBy(p)[y]
    BY <1>2
  <2>2. SumFunction(HeldBy(p)) \in Int /\ SumFunction(HeldBy(p)') \in Int
    BY <1>1, <1>2, <2>1, OrdersAssumption, SumChanges
  <2>3. QED
    BY <1>1, <1>2, <1>3, <2>2, OrdersAssumption, SumChanges
<1>5. stock'[p] + Held(o, p)' = stock[p] + Held(o, p)
  BY DEF MovesWith
<1>6. stock[p] \in Int /\ stock'[p] \in Int /\ Held(o, p) \in Int /\ Held(o, p)' \in Int
  BY <1>1, <1>3 DEF StockTypeOK
<1>7. QED
  <2> DEFINE held == Held(o, p)'
             total == SumFunction(HeldBy(p)')
  <2>1. total \in Int /\ held \in Int /\ total - held = SumFunction(HeldBy(p)) - Held(o, p)
    BY <1>4, <1>6
  <2>2. stock'[p] + held = stock[p] + Held(o, p)
    BY <1>5
  <2>3. SumFunction(HeldBy(p)) \in Int
    BY <1>4
  <2> HIDE DEF held, total
  <2>4. stock'[p] + total = stock[p] + SumFunction(HeldBy(p))
    BY <2>1, <2>2, <2>3, <1>6
  <2>5. QED
    BY <2>4 DEF total

\* No unit is lost or sold twice, for any number of orders and products.
THEOREM UnitsAreConserved == StockSpec => []UnitsConserved
<1>1. StockInit => UnbornUnsold /\ UnitsConserved
  <2> SUFFICES ASSUME StockInit PROVE UnbornUnsold /\ UnitsConserved
    OBVIOUS
  <2>1. \A o \in Orders, p \in Products : items[o][p] = 0
    BY DEF StockInit, NoItems
  <2>2. StockTypeOK
    BY StockInitTyped
  <2>3. \A p \in Products : SumFunction(HeldBy(p)) = 0 /\ stock[p] \in Nat
    BY <2>1, <2>2, HeldUnits DEF StockTypeOK
  <2>4. supplied = stock
    BY DEF StockInit
  <2>5. QED
    BY <2>1, <2>3, <2>4 DEF UnbornUnsold, UnitsConserved
<1>2. StockTypeOK /\ StockTypeOK' /\ UnbornUnsold /\ UnitsConserved /\ [StockNext]_stockVars
          => UnitsConserved'
  <2> SUFFICES ASSUME StockTypeOK, StockTypeOK', UnbornUnsold, UnitsConserved,
                      [StockNext]_stockVars, NEW p \in Products, product'[p] = "live"
               PROVE  stock'[p] + SumFunction(HeldBy(p)') = supplied'[p]
    BY DEF UnitsConserved, HeldBy, Held
  <2>1. CASE UNCHANGED stockVars
    <3>1. HeldBy(p)' = HeldBy(p) /\ UNCHANGED <<product, stock, supplied>>
      BY <2>1 DEF stockVars, HeldBy, Held
    <3>2. QED
      BY <3>1 DEF UnitsConserved
  <2>2. ASSUME NEW o \in Orders, MovesWith(o), UNCHANGED <<product, supplied>>
        PROVE  stock'[p] + SumFunction(HeldBy(p)') = supplied'[p]
    <3>1. stock[p] + SumFunction(HeldBy(p)) = supplied[p]
      BY <2>2 DEF UnitsConserved
    <3>2. QED
      BY <2>2, <3>1, MoveConserves
  <2>3. CASE AdminStep
    <3>1. UNCHANGED <<reservation, items>>
      BY <2>3 DEF AdminStep, CreateProduct, UpdateProduct, DeleteProduct
    <3>2. HeldBy(p)' = HeldBy(p)
      BY <3>1 DEF HeldBy, Held
    <3>3. SumFunction(HeldBy(p)) \in Int
      BY HeldUnits, OrdersAssumption, SumIsInteger
    <3>4. CASE product[p] = "unborn"
      <4>1. SumFunction(HeldBy(p)) = 0
        BY <3>4, HeldUnits DEF UnbornUnsold
      <4>2. stock'[p] = supplied'[p] /\ stock'[p] \in Nat
        BY <2>3, <3>4 DEF AdminStep, CreateProduct, UpdateProduct, DeleteProduct, StockTypeOK
      <4>3. QED
        BY <3>2, <4>1, <4>2
    <3>5. CASE product[p] # "unborn"
      <4>1. product[p] = "live"
        BY <2>3, <3>5 DEF AdminStep, CreateProduct, UpdateProduct, DeleteProduct, StockTypeOK
      <4>2. stock[p] + SumFunction(HeldBy(p)) = supplied[p]
        BY <4>1 DEF UnitsConserved
      <4>3. supplied'[p] - stock'[p] = supplied[p] - stock[p]
        BY <2>3, <4>1, StockLevelsAssumption
           DEF AdminStep, CreateProduct, UpdateProduct, DeleteProduct, StockTypeOK
      <4>4. /\ stock[p] \in Int /\ stock'[p] \in Int
            /\ supplied[p] \in Int /\ supplied'[p] \in Int
        BY DEF StockTypeOK
      <4>5. QED
        BY <3>2, <3>3, <4>2, <4>3, <4>4
    <3>6. QED
      BY <3>4, <3>5
  <2>4. QED
    BY <2>1, <2>2, <2>3, StepMoves
<1>3. QED
  BY <1>1, <1>2, UnbornStaysUnsold, StockTypeCorrect, PTL DEF StockSpec

\* StockReleased is announced for exactly the orders whose units went back.
THEOREM ReleasesAnnounced == StockSpec => []ReleaseAnnouncedExactly
<1>1. StockInit => ReleaseAnnouncedExactly
  BY DEF StockInit, ReleaseAnnouncedExactly
<1>2. StockTypeOK /\ ReleaseAnnouncedExactly /\ [StockNext]_stockVars
          => ReleaseAnnouncedExactly'
  <2> SUFFICES ASSUME StockTypeOK, ReleaseAnnouncedExactly, [StockNext]_stockVars
               PROVE  ReleaseAnnouncedExactly'
    OBVIOUS
  <2> USE DEF StockTypeOK, ReleaseAnnouncedExactly, stockVars
  <2>1. ASSUME NEW o \in Orders, NEW b \in Baskets, ReserveStock(o, b)
        PROVE  ReleaseAnnouncedExactly'
    BY <2>1 DEF ReserveStock, ReserveOutcome
  <2>2. ASSUME NEW o \in Orders, ReleaseStock(o) \/ CommitReservation(o)
        PROVE  ReleaseAnnouncedExactly'
    BY <2>2 DEF ReleaseStock, Releasable, CommitReservation
  <2>3. CASE AdminStep
    BY <2>3 DEF AdminStep, CreateProduct, UpdateProduct, DeleteProduct
  <2>4. CASE UNCHANGED stockVars
    BY <2>4
  <2>5. QED
    BY <2>1, <2>2, <2>3, <2>4 DEF StockNext
<1>3. QED
  BY <1>1, <1>2, StockTypeCorrect, PTL DEF StockSpec
===========================================================================
