--------------------------- MODULE StockTheorems ---------------------------
(***************************************************************************)
(* Facts that the proofs about several components share: what a sum over a *)
(* set of documents is worth when a summand is added, removed or changed,  *)
(* and what a movement of Inventory does to the counters of a book.        *)
(***************************************************************************)
EXTENDS Inventory, Tally, FunctionTheorems, FiniteSetTheorems, TLAPS

-----------------------------------------------------------------------------
(* Sums.                                                                   *)

(* The units of one summand.                                               *)
LEMMA OneSummand ==
    ASSUME NEW x, NEW n \in Nat
    PROVE  /\ IsFiniteSet({x} \X (1..n))
           /\ Cardinality({x} \X (1..n)) = n
<1>1. IsFiniteSet({x}) /\ Cardinality({x}) = 1
  BY FS_Singleton
<1>2. IsFiniteSet(1..n) /\ Cardinality(1..n) = n
  BY FS_Interval, 1 \in Int, n \in Int
<1>3. /\ IsFiniteSet({x} \X (1..n))
      /\ Cardinality({x} \X (1..n)) = Cardinality({x}) * Cardinality(1..n)
  BY <1>1, <1>2, FS_Product
<1>4. 1 * n = n
  OBVIOUS
<1> QED
  BY <1>1, <1>2, <1>3, <1>4

(* Finitely many summands have finitely many units.                        *)
LEMMA UnitsFinite ==
    ASSUME NEW S, IsFiniteSet(S), NEW f, \A x \in S : f[x] \in Nat
    PROVE  IsFiniteSet(Units(S, f))
<1> DEFINE part == [x \in S |-> {x} \X (1..f[x])]
           Parts == {part[x] : x \in S}
<1>1. part \in Surjection(S, Parts)
  BY DEF Surjection
<1>2. IsFiniteSet(Parts)
  BY <1>1, FS_Surjection
<1>3. \A x \in S : IsFiniteSet(part[x])
  BY OneSummand
<1>4. Units(S, f) = UNION Parts
  BY DEF Units
<1>5. \A T \in Parts : IsFiniteSet(T)
  BY <1>3
<1> HIDE DEF Parts, part
<1> QED
  BY <1>2, <1>4, <1>5, FS_UNION

(* A sum is a natural number.                                              *)
LEMMA TotalIsNat ==
    ASSUME NEW S, IsFiniteSet(S), NEW f, \A x \in S : f[x] \in Nat
    PROVE  Total(S, f) \in Nat
  BY UnitsFinite, FS_CardinalityType DEF Total

(* The empty sum is zero: no order holds anything at the start.            *)
LEMMA TotalEmpty == \A f : Total({}, f) = 0
  BY FS_EmptySet DEF Total, Units

(* One more summand adds its value.                                        *)
LEMMA TotalAdd ==
    ASSUME NEW S, IsFiniteSet(S), NEW f, NEW x, x \notin S,
           \A y \in S \cup {x} : f[y] \in Nat
    PROVE  Total(S \cup {x}, f) = Total(S, f) + f[x]
<1> DEFINE one == {x} \X (1..f[x])
<1>1. Units(S \cup {x}, f) = Units(S, f) \cup one
  BY DEF Units
<1>2. Units(S, f) \cap one = {}
  BY DEF Units
<1>3. IsFiniteSet(Units(S, f)) /\ Cardinality(Units(S, f)) \in Nat
  BY UnitsFinite, FS_CardinalityType
<1>4. IsFiniteSet(one) /\ Cardinality(one) = f[x]
  BY OneSummand
<1>5. Cardinality(Units(S, f) \cap one) = 0
  BY <1>2, FS_EmptySet
<1>6. Cardinality(Units(S, f) \cup one)
        = Cardinality(Units(S, f)) + Cardinality(one) - Cardinality(Units(S, f) \cap one)
  BY <1>3, <1>4, FS_Union
<1>7. f[x] \in Nat
  OBVIOUS
<1> HIDE DEF one
<1>8. Cardinality(Units(S, f) \cup one) = Cardinality(Units(S, f)) + f[x]
  BY <1>3, <1>4, <1>5, <1>6, <1>7
<1> QED
  BY <1>1, <1>8 DEF Total

(* One summand fewer takes its value away.                                 *)
LEMMA TotalRemove ==
    ASSUME NEW S, IsFiniteSet(S), NEW f, NEW x \in S, \A y \in S : f[y] \in Nat
    PROVE  /\ Total(S \ {x}, f) = Total(S, f) - f[x]
           /\ f[x] <= Total(S, f)
<1> DEFINE R == S \ {x}
<1>1. IsFiniteSet(R) /\ x \notin R /\ R \cup {x} = S
  BY FS_RemoveElement
<1>2. Total(R \cup {x}, f) = Total(R, f) + f[x]
  <2>1. \A y \in R \cup {x} : f[y] \in Nat
    OBVIOUS
  <2> HIDE DEF R
  <2> QED
    BY <1>1, <2>1, TotalAdd
<1>3. Total(R, f) \in Nat
  BY <1>1, TotalIsNat
<1>4. f[x] \in Nat
  OBVIOUS
<1> HIDE DEF R
<1>5. Total(S, f) = Total(R, f) + f[x]
  BY <1>1, <1>2
<1>6. Total(R, f) = Total(S, f) - f[x] /\ f[x] <= Total(S, f)
  BY <1>3, <1>4, <1>5
<1> QED
  BY <1>6 DEF R

(* A sum over a set depends on the summands of the set only.               *)
LEMMA TotalSame ==
    ASSUME NEW S, NEW f, NEW g, \A x \in S : f[x] = g[x]
    PROVE  Total(S, f) = Total(S, g)
<1>1. Units(S, f) = Units(S, g)
  BY DEF Units
<1> QED
  BY <1>1 DEF Total

(* The sum over two disjoint sets.                                         *)
LEMMA TotalDisjoint ==
    ASSUME NEW S, IsFiniteSet(S), NEW T, IsFiniteSet(T), S \cap T = {}, NEW f,
           \A x \in S \cup T : f[x] \in Nat
    PROVE  /\ Total(S \cup T, f) = Total(S, f) + Total(T, f)
           /\ Total(S, f) \in Nat /\ Total(T, f) \in Nat
<1>1. /\ IsFiniteSet(Units(S, f)) /\ Cardinality(Units(S, f)) \in Nat
      /\ IsFiniteSet(Units(T, f)) /\ Cardinality(Units(T, f)) \in Nat
  BY UnitsFinite, FS_CardinalityType
<1>2. Units(S \cup T, f) = Units(S, f) \cup Units(T, f)
  BY DEF Units
<1>3. Units(S, f) \cap Units(T, f) = {}
  BY DEF Units
<1>4. Cardinality(Units(S, f) \cap Units(T, f)) = 0
  BY <1>3, FS_EmptySet
<1>5. Cardinality(Units(S, f) \cup Units(T, f))
        = Cardinality(Units(S, f)) + Cardinality(Units(T, f))
            - Cardinality(Units(S, f) \cap Units(T, f))
  BY <1>1, FS_Union
<1>6. Cardinality(Units(S, f) \cup Units(T, f))
        = Cardinality(Units(S, f)) + Cardinality(Units(T, f))
  BY <1>1, <1>4, <1>5
<1> QED
  BY <1>1, <1>2, <1>6 DEF Total

(* Fewer summands make no larger sum.                                      *)
LEMMA TotalMonotone ==
    ASSUME NEW T, IsFiniteSet(T), NEW S \in SUBSET T, NEW f, \A x \in T : f[x] \in Nat
    PROVE  Total(S, f) \in Nat /\ Total(T, f) \in Nat /\ Total(S, f) <= Total(T, f)
<1> DEFINE R == T \ S
<1>1. IsFiniteSet(S) /\ IsFiniteSet(R)
  BY FS_Subset, FS_Difference
<1>2. S \cup R = T /\ S \cap R = {}
  OBVIOUS
<1> HIDE DEF R
<1>3. Total(S \cup R, f) = Total(S, f) + Total(R, f) /\ Total(S, f) \in Nat /\ Total(R, f) \in Nat
  BY <1>1, <1>2, TotalDisjoint
<1>4. Total(T, f) = Total(S, f) + Total(R, f)
  BY <1>2, <1>3
<1> QED
  BY <1>3, <1>4

(* A sum over a part is a sum over the whole with zeros elsewhere.         *)
LEMMA TotalOfPart ==
    ASSUME NEW T, NEW S \in SUBSET T, NEW f, NEW g,
           \A x \in T : g[x] = IF x \in S THEN f[x] ELSE 0
    PROVE  Total(S, f) = Total(T, g)
<1>1. 1..0 = {}
  OBVIOUS
<1>2. \A x \in T \ S : {x} \X (1..g[x]) = {}
  BY <1>1
<1>3. Units(S, f) = Units(T, g)
  BY <1>2 DEF Units
<1> QED
  BY <1>3 DEF Total

(* Induction on the part of a finite set: a collection of its parts that   *)
(* has the empty one, and with a part the part with one member more, has   *)
(* the whole set.  Of the parts outside, a smallest one would have a       *)
(* smaller one outside.                                                    *)
LEMMA GrowsToAll ==
    ASSUME NEW S, IsFiniteSet(S), NEW Good, {} \in Good,
           \A T \in SUBSET S : \A x \in S \ T : T \in Good => T \cup {x} \in Good
    PROVE  S \in Good
<1> DEFINE R == StrictSubsetOrdering(S)
           Bad == {T \in SUBSET S : T \notin Good}
<1> SUFFICES ASSUME S \notin Good PROVE FALSE
  OBVIOUS
<1>1. IsWellFoundedOn(R, SUBSET S)
  BY FS_FiniteSubsetsOfFinite, FS_StrictSubsetOrderingWellFounded
<1>2. Bad \subseteq SUBSET S /\ Bad # {}
  OBVIOUS
<1>3. \A T, U \in SUBSET S : T \subseteq U /\ T # U => <<T, U>> \in R
  BY DEF StrictSubsetOrdering
<1>4. \E U \in Bad : \A T \in Bad : ~(<<T, U>> \in R)
  <2> HIDE DEF R, Bad
  <2> QED  BY <1>1, <1>2, WFMin
<1>5. PICK U \in Bad : \A T \in Bad : ~(<<T, U>> \in R)
  BY <1>4
<1> HIDE DEF R
<1>6. U \in SUBSET S /\ U \notin Good /\ U # {}
  OBVIOUS
<1>7. PICK x \in U : TRUE
  BY <1>6
<1>8. U \ {x} \in SUBSET S /\ U \ {x} # U /\ x \in S \ (U \ {x})
  BY <1>6
<1>9. U \ {x} \in Good
  BY <1>3, <1>5, <1>6, <1>8
<1>10. (U \ {x}) \cup {x} = U
  OBVIOUS
<1> QED  BY <1>6, <1>8, <1>9, <1>10

(* TotalAdd, for every function at once.                                   *)
LEMMA OneMore ==
    ASSUME NEW T, IsFiniteSet(T), NEW x, x \notin T
    PROVE  \A f : (\A y \in T \cup {x} : f[y] \in Nat)
                     => Total(T \cup {x}, f) = Total(T, f) + f[x]
  BY TotalAdd

(* The sum of sums.                                                        *)
LEMMA TotalPlus ==
    ASSUME NEW S, IsFiniteSet(S), NEW f, NEW g, NEW h,
           \A x \in S : f[x] \in Nat /\ g[x] \in Nat /\ h[x] = f[x] + g[x]
    PROVE  Total(S, h) = Total(S, f) + Total(S, g)
<1> DEFINE Good == {T \in SUBSET S : Total(T, h) = Total(T, f) + Total(T, g)}
<1>1. {} \in Good
  BY TotalEmpty
<1>2. ASSUME NEW T \in SUBSET S, NEW x \in S \ T, T \in Good
      PROVE  T \cup {x} \in Good
  <2>1. IsFiniteSet(T) /\ \A y \in T \cup {x} : f[y] \in Nat /\ g[y] \in Nat /\ h[y] \in Nat
    BY FS_Subset
  <2>2. /\ Total(T \cup {x}, f) = Total(T, f) + f[x]
        /\ Total(T \cup {x}, g) = Total(T, g) + g[x]
        /\ Total(T \cup {x}, h) = Total(T, h) + h[x]
    BY <2>1, OneMore
  <2>3. Total(T, f) \in Nat /\ Total(T, g) \in Nat /\ Total(T, h) \in Nat
    BY <2>1, TotalIsNat
  <2>4. f[x] \in Nat /\ g[x] \in Nat /\ h[x] = f[x] + g[x]
    OBVIOUS
  <2>5. Total(T, h) = Total(T, f) + Total(T, g)
    BY <1>2
  <2> QED  BY <2>2, <2>3, <2>4, <2>5
<1> HIDE DEF Good
<1>3. S \in Good
  BY <1>1, <1>2, GrowsToAll
<1> QED  BY <1>3 DEF Good

(* A sum of multiples is the multiple of the sum.                          *)
LEMMA TotalTimes ==
    ASSUME NEW S, IsFiniteSet(S), NEW f, NEW g, NEW n \in Nat,
           \A x \in S : f[x] \in Nat /\ g[x] = n * f[x]
    PROVE  Total(S, g) = n * Total(S, f)
<1> DEFINE Good == {T \in SUBSET S : Total(T, g) = n * Total(T, f)}
<1>1. {} \in Good
  BY TotalEmpty
<1>2. ASSUME NEW T \in SUBSET S, NEW x \in S \ T, T \in Good
      PROVE  T \cup {x} \in Good
  <2>1. IsFiniteSet(T) /\ \A y \in T \cup {x} : f[y] \in Nat /\ g[y] \in Nat
    BY FS_Subset
  <2>2. /\ Total(T \cup {x}, f) = Total(T, f) + f[x]
        /\ Total(T \cup {x}, g) = Total(T, g) + g[x]
    BY <2>1, TotalAdd
  <2>3. Total(T, f) \in Nat /\ f[x] \in Nat /\ g[x] = n * f[x]
    BY <2>1, TotalIsNat
  <2>4. Total(T, g) = n * Total(T, f)
    BY <1>2
  <2>5. \A k, m \in Nat : n * (k + m) = n * k + n * m
    OBVIOUS
  <2> QED  BY <2>2, <2>3, <2>4, <2>5
<1> HIDE DEF Good
<1>3. S \in Good
  BY <1>1, <1>2, GrowsToAll
<1> QED  BY <1>3 DEF Good

(* Smaller summands make no larger sum.                                    *)
LEMMA TotalLess ==
    ASSUME NEW S, IsFiniteSet(S), NEW f, NEW g,
           \A x \in S : f[x] \in Nat /\ g[x] \in Nat /\ f[x] <= g[x]
    PROVE  Total(S, f) <= Total(S, g)
<1>1. IsFiniteSet(Units(S, f)) /\ IsFiniteSet(Units(S, g))
  BY UnitsFinite
<1>2. \A x \in S : 1..f[x] \subseteq 1..g[x]
  OBVIOUS
<1>3. Units(S, f) \in SUBSET Units(S, g)
  BY <1>2 DEF Units
<1> QED  BY <1>1, <1>3, FS_Subset DEF Total

(* A sum of equal numbers.                                                 *)
LEMMA TotalConstant ==
    ASSUME NEW S, IsFiniteSet(S), NEW f, NEW n \in Nat, \A x \in S : f[x] = n
    PROVE  Total(S, f) = n * Cardinality(S)
<1>1. Units(S, f) = S \X (1..n)
  BY DEF Units
<1>2. IsFiniteSet(1..n) /\ Cardinality(1..n) = n
  BY FS_Interval, 1 \in Int, n \in Int
<1>3. Cardinality(S \X (1..n)) = Cardinality(S) * Cardinality(1..n)
  BY <1>2, FS_Product
<1>4. Cardinality(S) \in Nat /\ \A k \in Nat : k * n = n * k
  BY FS_CardinalityType
<1> QED  BY <1>1, <1>2, <1>3, <1>4 DEF Total

(* When one summand changes, the sum moves with it.                        *)
LEMMA TotalStep ==
    ASSUME NEW S, IsFiniteSet(S), NEW x \in S, NEW f, NEW g,
           \A y \in S : f[y] \in Nat /\ g[y] \in Nat,
           \A y \in S \ {x} : f[y] = g[y]
    PROVE  /\ Total(S, g) = Total(S, f) - f[x] + g[x]
           /\ Total(S, f) \in Nat /\ Total(S, g) \in Nat /\ f[x] <= Total(S, f)
<1>1. Total(S \ {x}, f) = Total(S, f) - f[x] /\ f[x] <= Total(S, f)
  BY TotalRemove
<1>2. Total(S \ {x}, g) = Total(S, g) - g[x]
  BY TotalRemove
<1>3. Total(S \ {x}, f) = Total(S \ {x}, g)
  BY TotalSame
<1>4. Total(S, f) \in Nat /\ Total(S, g) \in Nat /\ f[x] \in Nat /\ g[x] \in Nat
  BY TotalIsNat
<1> QED
  BY <1>1, <1>2, <1>3, <1>4

-----------------------------------------------------------------------------
(* Movements of the stock counters.                                        *)

(* The signs of a movement are -1, 0 or 1.                                 *)
LEMMA MovementSigns ==
    ASSUME NEW type \in MovementTypes
    PROVE  /\ StockSign(type) \in {-1, 0, 1}
           /\ ReservedSign(type) \in {-1, 0, 1}
           /\ SellableSign(type) \in {-1, 0, 1}
           /\ PhysicalSign(type) \in {-1, 0, 1}
  BY DEF MovementTypes, INBOUND_TYPES, StockSign, ReservedSign, SellableSign, PhysicalSign,
         LedgerSign

(* Multiplying by a sign, for a prover without multiplication.             *)
LEMMA SignTimes ==
    ASSUME NEW sign \in {-1, 0, 1}, NEW n \in Nat
    PROVE  /\ sign = 1 => sign * n = n
           /\ sign = 0 => sign * n = 0
           /\ sign = -1 => sign * n = -n
           /\ sign * n \in Int
  OBVIOUS

(* A movement whose filter accepts it keeps both counters natural.         *)
LEMMA MovementType ==
    ASSUME StockTypeOK, NEW type \in MovementTypes, NEW copies \in [Books -> Nat],
           applyMovement(type, copies)
    PROVE  StockTypeOK'
<1>1. \A b \in Books : /\ stock[b] + StockSign(type) * copies[b] \in Nat
                       /\ reserved[b] + ReservedSign(type) * copies[b] \in Nat
  <2> SUFFICES ASSUME NEW b \in Books
               PROVE  /\ stock[b] + StockSign(type) * copies[b] \in Nat
                      /\ reserved[b] + ReservedSign(type) * copies[b] \in Nat
    OBVIOUS
  <2>1. stock[b] \in Nat /\ reserved[b] \in Nat /\ copies[b] \in Nat
    BY DEF StockTypeOK
  <2>2. /\ StockSign(type) = -1 => stock[b] >= copies[b]
        /\ ReservedSign(type) = -1 => reserved[b] >= copies[b]
    BY DEF applyMovement, MovementFits
  <2>3. stock[b] + StockSign(type) * copies[b] \in Nat
    BY <2>1, <2>2, MovementSigns, SignTimes
  <2>4. reserved[b] + ReservedSign(type) * copies[b] \in Nat
    BY <2>1, <2>2, MovementSigns, SignTimes
  <2> QED
    BY <2>3, <2>4
<1>2. \A b \in Books : /\ ledger[b].sellable + SellableSign(type) * copies[b] \in Int
                       /\ ledger[b].physical + PhysicalSign(type) * copies[b] \in Int
  <2> SUFFICES ASSUME NEW b \in Books
               PROVE  /\ ledger[b].sellable + SellableSign(type) * copies[b] \in Int
                      /\ ledger[b].physical + PhysicalSign(type) * copies[b] \in Int
    OBVIOUS
  <2>1. ledger[b].sellable \in Int /\ ledger[b].physical \in Int /\ copies[b] \in Nat
    BY DEF StockTypeOK
  <2>2. SellableSign(type) * copies[b] \in Int /\ PhysicalSign(type) * copies[b] \in Int
    BY <2>1, MovementSigns, SignTimes
  <2> QED
    BY <2>1, <2>2
<1> QED
  BY <1>1, <1>2 DEF applyMovement, StockTypeOK

(* A stocktake never counts away what is reserved.                         *)
LEMMA CountType ==
    ASSUME StockTypeOK, NEW b \in Books, NEW counted \in Nat, NEW expected,
           setStockTo(b, counted, expected)
    PROVE  StockTypeOK'
<1> DEFINE difference == counted - reserved[b] - stock[b]
<1>1. stock[b] \in Nat /\ reserved[b] \in Nat /\ counted >= reserved[b]
  BY DEF StockTypeOK, setStockTo
<1>2. stock[b] + difference \in Nat /\ difference \in Int
  BY <1>1
<1>3. ledger[b].sellable + difference \in Int /\ ledger[b].physical + difference \in Int
  BY <1>2 DEF StockTypeOK
<1>4. /\ stock' = [stock EXCEPT ![b] = @ + difference]
      /\ ledger' = [ledger EXCEPT ![b] = [sellable |-> @.sellable + difference,
                                          physical |-> @.physical + difference]]
      /\ reserved' = reserved
  BY DEF setStockTo
<1> HIDE DEF difference
<1> QED
  BY <1>2, <1>3, <1>4 DEF StockTypeOK

(* A movement on the reserved counter.                                     *)
LEMMA ReservedMoves ==
    ASSUME StockTypeOK, NEW type \in MovementTypes, NEW copies \in [Books -> Nat],
           applyMovement(type, copies), NEW b \in Books
    PROVE  reserved'[b] = IF type = "SALE_OUT" THEN reserved[b] + copies[b]
                          ELSE IF type \in {"RESERVE_IN", "SHIP_OUT"}
                               THEN reserved[b] - copies[b] ELSE reserved[b]
<1>1. reserved'[b] = reserved[b] + ReservedSign(type) * copies[b]
  BY DEF applyMovement
<1>2. reserved[b] \in Nat /\ copies[b] \in Nat
  BY DEF StockTypeOK
<1>3. ReservedSign(type) = IF type = "SALE_OUT" THEN 1
                           ELSE IF type \in {"RESERVE_IN", "SHIP_OUT"} THEN -1 ELSE 0
  BY DEF ReservedSign
<1> QED
  BY <1>1, <1>2, <1>3, SignTimes

(* A movement changes the two sums by what it does to the two counters.    *)
LEMMA MovementLedger ==
    ASSUME StockTypeOK, LedgerExplainsStock, NEW type \in MovementTypes,
           NEW copies \in [Books -> Nat], applyMovement(type, copies)
    PROVE  LedgerExplainsStock'
<1> SUFFICES ASSUME NEW b \in Books
             PROVE  /\ ledger'[b].sellable = stock'[b]
                    /\ ledger'[b].physical = stock'[b] + reserved'[b]
  BY DEF LedgerExplainsStock
<1>1. /\ SellableSign(type) = StockSign(type)
      /\ PhysicalSign(type) = StockSign(type) + ReservedSign(type)
  BY DEF MovementTypes, INBOUND_TYPES, StockSign, ReservedSign, SellableSign, PhysicalSign,
         LedgerSign
<1>2. /\ ledger'[b].sellable = ledger[b].sellable + SellableSign(type) * copies[b]
      /\ ledger'[b].physical = ledger[b].physical + PhysicalSign(type) * copies[b]
      /\ stock'[b] = stock[b] + StockSign(type) * copies[b]
      /\ reserved'[b] = reserved[b] + ReservedSign(type) * copies[b]
  BY DEF applyMovement
<1>3. /\ stock[b] \in Nat /\ reserved[b] \in Nat /\ copies[b] \in Nat
      /\ ledger[b].sellable = stock[b] /\ ledger[b].physical = stock[b] + reserved[b]
  BY DEF StockTypeOK, LedgerExplainsStock
<1>4. /\ StockSign(type) \in {-1, 0, 1} /\ ReservedSign(type) \in {-1, 0, 1}
      /\ PhysicalSign(type) \in {-1, 0, 1}
  BY MovementSigns
<1>5. PhysicalSign(type) * copies[b]
        = StockSign(type) * copies[b] + ReservedSign(type) * copies[b]
  BY <1>1, <1>3, <1>4, SignTimes
<1> QED
  BY <1>1, <1>2, <1>3, <1>4, <1>5, SignTimes

(* A stocktake writes the difference into both sums.                       *)
LEMMA CountLedger ==
    ASSUME StockTypeOK, LedgerExplainsStock, NEW b \in Books, NEW counted \in Nat,
           NEW expected, setStockTo(b, counted, expected)
    PROVE  LedgerExplainsStock'
<1> DEFINE difference == counted - reserved[b] - stock[b]
<1>1. /\ stock' = [stock EXCEPT ![b] = @ + difference]
      /\ ledger' = [ledger EXCEPT ![b] = [sellable |-> @.sellable + difference,
                                          physical |-> @.physical + difference]]
      /\ reserved' = reserved
  BY DEF setStockTo
<1>2. \A c \in Books : /\ stock[c] \in Nat /\ reserved[c] \in Nat
                       /\ ledger[c].sellable = stock[c]
                       /\ ledger[c].physical = stock[c] + reserved[c]
  BY DEF StockTypeOK, LedgerExplainsStock
<1>3. difference \in Int
  BY <1>2
<1> HIDE DEF difference
<1>4. /\ stock'[b] = stock[b] + difference
      /\ ledger'[b].sellable = ledger[b].sellable + difference
      /\ ledger'[b].physical = ledger[b].physical + difference
  BY <1>1 DEF StockTypeOK
<1>5. \A c \in Books : c # b => stock'[c] = stock[c] /\ ledger'[c] = ledger[c]
  BY <1>1 DEF StockTypeOK
<1> QED
  BY <1>1, <1>2, <1>3, <1>4, <1>5 DEF LedgerExplainsStock
============================================================================
